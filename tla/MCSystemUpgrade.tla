---------------------------- MODULE MCSystemUpgrade ----------------------------
(* SystemUpgrade for model checking: the constants are set in the configurations. *)
EXTENDS SystemUpgrade
=============================================================================
