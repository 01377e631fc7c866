------------------------- MODULE MachineTransitions -------------------------
(***************************************************************************)
(* The reducer of libvm's machine state (runtime/transitions.rs).  A state *)
(* is the mutable row of one machine: its status and the VMM generation it *)
(* names (pid, process start time, run id).  Every event is an operator    *)
(* that returns the set of next states: one state, or none where the code  *)
(* returns a TransitionError.  Timestamps and error texts are left out.    *)
(***************************************************************************)
CONSTANT None   \* Option::None

Statuses == {"Stopped", "Starting", "Running", "Stopping", "Error"}

is_active(status) == status \in {"Starting", "Running", "Stopping"}

replace_runtime(status, pid, started, run) ==
  [status |-> status, pid |-> pid, started |-> started, run |-> run]

stopped_machine_state == replace_runtime("Stopped", None, None, None)

\* An event without a run id (or start time) does not check it.
require_run_id(s, run) == run # None => s.run = run

require_generation(s, g) == /\ require_run_id(s, g.run)
                            /\ s.pid = g.pid
                            /\ g.started # None => s.started = g.started

StartRequested(s, run) ==
  {n \in {replace_runtime("Starting", None, None, run)} : ~is_active(s.status)}

MonitorReady(s, run, pid, started) ==
  {n \in {replace_runtime("Running", pid, started, run)} :
     s.status = "Starting" /\ require_run_id(s, run)}

MonitorObserved(s, pid, started, run) ==
  {replace_runtime(IF s.status \in {"Starting", "Stopping"} THEN s.status ELSE "Running",
                   pid, started, run)}

StartFailed(s, run, failure) ==
  {n \in {replace_runtime(failure, None, None, None)} :
     s.status = "Starting" /\ require_run_id(s, run)}

StopRequested(s, g) ==
  {n \in {replace_runtime("Stopping", g.pid, g.started, g.run)} :
     is_active(s.status) /\ require_generation(s, g)}

StopCompleted(s, g) ==
  {n \in {stopped_machine_state} : s.status = "Stopping" /\ require_generation(s, g)}

ExitObserved(clean) ==
  {replace_runtime(IF clean THEN "Stopped" ELSE "Error", None, None, None)}

\* Mutant: a stop nobody completed is kept.
MonitorGoneKeepsStopping(s) ==
  {replace_runtime(IF s.status \in {"Error", "Stopping"} THEN s.status ELSE "Stopped",
                   None, None, None)}

MonitorGone(s) ==
  {replace_runtime(IF s.status = "Error" THEN "Error" ELSE "Stopped", None, None, None)}

StartTimedOut(s) ==
  {n \in {replace_runtime("Error", None, None, None)} : s.status = "Starting"}

=============================================================================
