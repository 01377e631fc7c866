------------------------------- MODULE Operations -------------------------------
(***************************************************************************)
(* What taild's registry of operations promises: an operation waits, acts  *)
(* on its VM alone, ends once; an interruption reaches every operation     *)
(* that is not over and stops admission until Resume.  JobRegistry, with   *)
(* its lock objects and reference counts, implements this; HostShutdown    *)
(* composes it with the shutdown protocol.                                 *)
(***************************************************************************)
EXTENDS Naturals

CONSTANTS Jobs,      \* operation ids
          VMs

VARIABLES op,        \* where each operation is
          on,        \* the VM it is about
          told,      \* operations whose context is done
          paused,
          closing

opVars == <<op, on, told, paused, closing>>

Running == {j \in Jobs : op[j] \notin {"none", "over"}}

\* The channel of Drained is closed: every goroutine is done.
Drained == Running = {}

OpInit ==
  /\ op = [j \in Jobs |-> "none"]
  /\ on \in [Jobs -> VMs]
  /\ told = {}
  /\ paused = FALSE
  /\ closing = FALSE

\* SubmitResult accepts it.
Accept(j, v) ==
  /\ op[j] = "none" /\ ~closing /\ ~paused
  /\ op' = [op EXCEPT ![j] = "waiting"]
  /\ on' = [on EXCEPT ![j] = v]
  /\ told' = told \ {j}
  /\ UNCHANGED <<paused, closing>>

\* It gets its VM to itself,
Enter(j) ==
  /\ op[j] = "waiting"
  /\ \A i \in Jobs : on[i] = on[j] => op[i] \notin {"acting", "calling"}
  /\ op' = [op EXCEPT ![j] = "acting"]
  /\ UNCHANGED <<on, told, paused, closing>>

\* or gives up before: interrupted, or a create that needs no boot.
GiveUp(j) ==
  /\ op[j] = "waiting"
  /\ op' = [op EXCEPT ![j] = "leaving"]
  /\ UNCHANGED <<on, told, paused, closing>>

\* The callback calls the daemon; a call on a done context is not made.
Calls(j) ==
  /\ op[j] = "acting" /\ j \notin told
  /\ op' = [op EXCEPT ![j] = "calling"]
  /\ UNCHANGED <<on, told, paused, closing>>

Leave(j) ==
  /\ op[j] \in {"acting", "calling"}
  /\ op' = [op EXCEPT ![j] = "leaving"]
  /\ UNCHANGED <<on, told, paused, closing>>

End(j) ==
  /\ op[j] = "leaving"
  /\ op' = [op EXCEPT ![j] = "over"]
  /\ UNCHANGED <<on, told, paused, closing>>

\* InterruptIf: the predicate is evaluated under the registry's mutex.
Interrupt(shutdown) ==
  /\ shutdown
  /\ paused' = TRUE
  /\ told' = told \cup Running
  /\ UNCHANGED <<op, on, closing>>

Resume ==
  /\ paused' = FALSE
  /\ UNCHANGED <<op, on, told, closing>>

Seal ==
  /\ closing' = TRUE
  /\ UNCHANGED <<op, on, told, paused>>

OpNext ==
  \/ \E j \in Jobs, v \in VMs : Accept(j, v)
  \/ \E j \in Jobs : Enter(j) \/ GiveUp(j) \/ Calls(j) \/ Leave(j) \/ End(j)
  \/ Interrupt(TRUE) \/ Resume \/ Seal

OpSpec == OpInit /\ [][OpNext]_opVars
=============================================================================
