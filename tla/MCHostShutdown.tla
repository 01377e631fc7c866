---------------------------- MODULE MCHostShutdown ----------------------------
(* Small instances of HostShutdown. *)
EXTENDS HostShutdown, TLC

\* A shutdown announced and called off, or called off and announced again; and one
\* change with a start from outside.  The bus may be slow or get lost.
ShutdownBounds ==
  {[signals |-> 2, restarts |-> 0, starts |-> 0, faults |-> {"bus"}],
   [signals |-> 1, restarts |-> 0, starts |-> 1, faults |-> {"bus"}]}

\* taild dies once, and its disk fails.
RecoveryBounds == {[signals |-> 1, restarts |-> 1, starts |-> 0, faults |-> {"disk"}]}
=============================================================================
