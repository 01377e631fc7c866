-------------------------- MODULE MCMachineLifecycle --------------------------
(***************************************************************************)
(* MachineLifecycle for TLC.                                               *)
(***************************************************************************)
EXTENDS MachineLifecycle, TLC

Symmetry == Permutations(Client)

=============================================================================
