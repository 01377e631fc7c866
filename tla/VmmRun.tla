-------------------------------- MODULE VmmRun --------------------------------
(***************************************************************************)
(* One run of a monitor, from the fork of its exit runner to its exit       *)
(* (virt/vmm main.rs, startup.rs, services.rs, shutdown.rs, finalize.rs),   *)
(* over the krun backend of KrunOwner.                                      *)
(*                                                                         *)
(* Besides the main task there are the task that handles signals during     *)
(* startup, the monitor of the starting process's end of the sync pipe, the *)
(* supervisor of the startup command, and the forked exit runner.  Signals, *)
(* the death of the starter, and SIGKILL of the monitor come from outside.  *)
(***************************************************************************)
EXTENDS KrunOwner

CONSTANTS RunScopes   \* instances: [host, command, runner, listens, signals, orphan, crash, faults]

VARIABLES runScope,   \* the instance of this behaviour, with what is left of it
          main,       \* the main task: [pc, machine, err, trigger]
          cancel,     \* startup_cancel
          late,       \* the startup deadline has passed
          sigs,       \* [installed, startup, buffer]: what each listener holds
          sigTask,    \* the startup signal task: off, on, forcing
          parent,     \* the starter's end of the sync pipe: up, gone
          lossMon,    \* the parent-loss monitor runs
          sync,       \* what the starter was told
          command,    \* the startup command
          record,     \* the exit record
          pidfile,
          runner      \* the exit runner

supVars == <<runScope, main, cancel, late, sigs, sigTask, parent, lossMon, sync, command, record, pidfile, runner>>
runVars == <<krunVars, supVars>>

NoRecord == [at |-> "none", outcome |-> "none", exit |-> NoVmExit]

MainPCs == {"boot", "pid", "request", "prepare", "register", "start", "starting", "alive", "vsock",
            "running", "services", "guest", "command", "check", "report", "handover", "serve",
            "stopping", "grace", "gracing", "forced", "drain", "abandon", "cleanup", "cleanupwait",
            "final", "finalwait", "record", "tell", "unlink", "trigger", "exit", "gone"}

RunInit ==
  /\ runScope \in RunScopes
  /\ host = runScope.host
  /\ KrunInit
  /\ main = [pc |-> "boot", machine |-> FALSE, err |-> FALSE, trigger |-> "none"]
  /\ cancel = FALSE /\ late = FALSE
  /\ sigs = [installed |-> FALSE, startup |-> FALSE, buffer |-> FALSE]
  /\ sigTask = "off"
  /\ parent = "up" /\ lossMon = FALSE
  /\ sync = "none"
  /\ command = IF runScope.command THEN "want" ELSE "none"
  /\ record = NoRecord
  /\ pidfile = FALSE
  /\ runner = "none"

at(p) == main.pc = p /\ monitor = "up"
goto(p) == main' = [main EXCEPT !.pc = p]
fail(p) == main' = [main EXCEPT !.pc = p, !.err = TRUE]
backendSame == UNCHANGED krunVars

------------------------------------------------------------------------------
(* main and run up to the start request *)

\* The exit runner is forked first; the rest of main can fail before run.
MainBoots ==
  /\ at("boot")
  /\ runner' \in IF runScope.runner THEN {"wait", "none"} ELSE {"none"}
  /\ \/ goto("pid") /\ UNCHANGED monitor
     \/ goto("gone") /\ monitor' = "down"
  /\ UNCHANGED <<host, attempt, phase, stopTok, forceTok, own, worker, evs, vsock, listen>>
  /\ UNCHANGED <<runScope, cancel, late, sigs, sigTask, parent, lossMon, sync, command, record, pidfile>>

\* PidGuard::create; the guard removes the file again when run returns early.
MainWritesPid ==
  /\ at("pid") /\ ~ pidfile
  /\ pidfile' = TRUE
  /\ UNCHANGED main
  /\ backendSame
  /\ UNCHANGED <<runScope, cancel, late, sigs, sigTask, parent, lossMon, sync, command, record, runner>>

\* monitor_parent_loss and install_signal_handlers
MainInstalls ==
  /\ at("pid") /\ pidfile
  /\ goto("request")
  /\ lossMon' = TRUE
  /\ sigTask' = "on" /\ sigs' = [sigs EXCEPT !.installed = TRUE]
  /\ backendSame
  /\ UNCHANGED <<runScope, cancel, late, parent, sync, command, record, pidfile, runner>>

------------------------------------------------------------------------------
(* startup::init *)

\* A step of startup that looks at the cancellation, the deadline, and fails
\* or goes on.
startupStep(from, to, failed, mayFail) ==
  /\ at(from)
  /\ \/ (cancel \/ late \/ mayFail) /\ fail(failed)
     \/ ~ cancel /\ goto(to)

\* The request is read, or startup cancelled first.
InitReads ==
  /\ at("request")
  /\ \/ fail("final")
     \/ ~ cancel /\ goto("prepare")
  /\ backendSame
  /\ UNCHANGED <<runScope, cancel, late, sigs, sigTask, parent, lossMon, sync, command, record, pidfile, runner>>

\* Validation, directories, configuration and the handle of the machine.
InitPrepares ==
  /\ at("prepare")
  /\ \/ fail("final")
     \/ main' = [main EXCEPT !.pc = "register", !.machine = TRUE]
  /\ backendSame
  /\ UNCHANGED <<runScope, cancel, late, sigs, sigTask, parent, lossMon, sync, command, record, pidfile, runner>>

\* The machine is set: an error from here goes through the cleanup, but for
\* those between the set and the registration.
InitRegisters ==
  /\ \/ startupStep("register", "start", "cleanup", TRUE)
     \/ at("register") /\ fail("final")
  /\ backendSame
  /\ UNCHANGED <<runScope, cancel, late, sigs, sigTask, parent, lossMon, sync, command, record, pidfile, runner>>

\* VirtualMachine::start: the attempt of the handle, the console, the backend.
InitStarts ==
  /\ at("start")
  /\ \/ /\ cancel \/ late \/ attempt # {}
        /\ fail("cleanup") /\ backendSame
     \/ /\ ~ cancel /\ attempt = {}
        /\ backend_start /\ goto("starting")
        /\ UNCHANGED <<host, monitor, phase, stopTok, forceTok, worker, evs, vsock, listen>>
     \/ \* the console did not attach
        /\ ~ cancel /\ attempt = {}
        /\ machine_stop /\ fail("cleanup")
        /\ UNCHANGED <<host, monitor, own, worker, evs>>
  /\ UNCHANGED <<runScope, cancel, late, sigs, sigTask, parent, lossMon, sync, command, record, pidfile, runner>>

\* The wait of KrunBackend::start; giving it up drops its guard, which stops.
InitAwaitsStart ==
  /\ at("starting")
  /\ \/ (cancel \/ late) /\ stopTok' = TRUE /\ fail("cleanup")
     \/ ~ cancel /\ Exited /\ stopTok' = TRUE /\ fail("cleanup")
     \/ ~ cancel /\ phase.at = "Started" /\ goto("alive") /\ UNCHANGED stopTok
  /\ UNCHANGED <<host, monitor, attempt, phase, forceTok, own, worker, evs, vsock, listen>>
  /\ UNCHANGED <<runScope, cancel, late, sigs, sigTask, parent, lossMon, sync, command, record, pidfile, runner>>

\* ensure_alive waits for the exit of a machine that is terminated.
ensure_alive(from, to, failed) ==
  /\ at(from)
  /\ \/ Exited /\ fail(failed)
     \/ ~ is_terminated /\ goto(to)

InitActivates ==
  /\ \/ ensure_alive("alive", "vsock", "cleanup")
     \/ at("vsock") /\ Exited /\ fail("cleanup")
     \/ startupStep("vsock", "running", "cleanup", TRUE)
     \/ ensure_alive("running", "services", "cleanup")
  /\ backendSame
  /\ UNCHANGED <<runScope, cancel, late, sigs, sigTask, parent, lossMon, sync, command, record, pidfile, runner>>

------------------------------------------------------------------------------
(* services::start_services *)

\* The control socket, the guest services, and the required readiness.
ServicesStart ==
  /\ \/ ensure_alive("services", "guest", "abandon")
     \/ at("services") /\ fail("abandon")
     \/ at("guest") /\ Exited /\ fail("abandon")
     \/ startupStep("guest", IF command = "none" THEN "check" ELSE "command", "abandon", TRUE)
  /\ backendSame
  /\ UNCHANGED <<runScope, cancel, late, sigs, sigTask, parent, lossMon, sync, command, record, pidfile, runner>>

\* write_message takes the file: only the first message is ever written.
tell(m) == sync' = IF sync = "none" THEN (IF parent = "gone" THEN "lost" ELSE m) ELSE sync

ServicesAwaitCommand ==
  /\ at("command")
  /\ \/ command = "want" /\ (late \/ Exited \/ cancel) /\ fail("abandon") /\ command' = "aborted" /\ UNCHANGED sync
     \/ command = "unavailable" /\ fail("abandon") /\ UNCHANGED <<command, sync>>
     \/ command = "refused" /\ fail("abandon") /\ tell("launch") /\ UNCHANGED command
     \/ command \in {"started", "done"} /\ goto("check") /\ UNCHANGED <<command, sync>>
  /\ backendSame
  /\ UNCHANGED <<runScope, cancel, late, sigs, sigTask, parent, lossMon, record, pidfile, runner>>

\* The supervisor of the command: it outlives the report by a grace period.
CommandSupervises ==
  /\ monitor = "up"
  /\ main.pc \in {"command", "check", "report", "handover", "serve", "stopping", "grace", "gracing", "forced"}
  /\ \/ command = "want" /\ main.pc = "command" /\ command' \in {"started", "refused", "unavailable"}
     \/ command = "started" /\ command' = "done"
  /\ backendSame
  /\ UNCHANGED <<runScope, main, cancel, late, sigs, sigTask, parent, lossMon, sync, record, pidfile, runner>>

ServicesCheck ==
  /\ \/ at("check") /\ (cancel \/ late) /\ fail("abandon")
     \/ ~ cancel /\ ensure_alive("check", "report", "abandon")
  /\ backendSame
  /\ UNCHANGED <<runScope, cancel, late, sigs, sigTask, parent, lossMon, sync, command, record, pidfile, runner>>

ServicesReport ==
  /\ at("report")
  /\ tell("started")
  /\ IF parent = "gone" THEN fail("abandon") ELSE goto("handover")
  /\ backendSame
  /\ UNCHANGED <<runScope, cancel, late, sigs, sigTask, parent, lossMon, command, record, pidfile, runner>>

\* run stops the startup tasks; the buffered listener goes to shutdown::run.
HandsOver ==
  /\ at("handover")
  /\ goto("serve")
  /\ sigTask' = "off" /\ lossMon' = FALSE
  /\ backendSame
  /\ UNCHANGED <<runScope, cancel, late, sigs, parent, sync, command, record, pidfile, runner>>

------------------------------------------------------------------------------
(* shutdown::run *)

\* The biased select of the trigger
ShutdownTriggers ==
  /\ at("serve")
  /\ \/ /\ sigs.buffer
        /\ sigs' = [sigs EXCEPT !.buffer = FALSE]
        /\ main' = [main EXCEPT !.pc = "stopping", !.trigger = "Requested"]
     \/ /\ ~ sigs.buffer /\ UNCHANGED sigs
        /\ \/ command = "done" /\ main' = [main EXCEPT !.pc = "stopping", !.trigger = "Requested"]
           \/ command # "done" /\ Exited /\ main' = [main EXCEPT !.pc = "stopping", !.trigger = "Backend"]
  /\ backendSame
  /\ UNCHANGED <<runScope, cancel, late, sigTask, parent, lossMon, sync, command, record, pidfile, runner>>

\* Forwards and the vsock surface stop, or run out of their time; then the stop.
ShutdownStops ==
  /\ at("stopping")
  /\ goto(IF main.trigger = "Backend" THEN "drain" ELSE "gracing")
  /\ machine_stop
  /\ UNCHANGED <<host, monitor, own, worker, evs>>
  /\ UNCHANGED <<runScope, cancel, late, sigs, sigTask, parent, lossMon, sync, command, record, pidfile, runner>>

\* graceful_stop: the stop ends, or a signal or its timeout escalates.
GracefulStop ==
  /\ at("gracing")
  /\ \/ Exited /\ goto("drain") /\ backendSame /\ UNCHANGED sigs
     \/ /\ sigs' \in {[sigs EXCEPT !.buffer = FALSE]} \cup {sigs}
        /\ goto("forced")
        /\ machine_force_stop
        /\ UNCHANGED <<host, monitor, own, worker, evs>>
  /\ UNCHANGED <<runScope, cancel, late, sigTask, parent, lossMon, sync, command, record, pidfile, runner>>

ShutdownWaits ==
  /\ at("forced") /\ Exited
  /\ goto("drain")
  /\ backendSame
  /\ UNCHANGED <<runScope, cancel, late, sigs, sigTask, parent, lossMon, sync, command, record, pidfile, runner>>

\* record_stop and drain: an exit with an error is an error of the run.
ShutdownDrains ==
  /\ at("drain") /\ Exited
  /\ main' = [main EXCEPT !.pc = "final", !.err = @ \/ phase.exit.outcome = "Failed"]
  /\ command' = IF command = "none" THEN "none" ELSE "aborted"
  /\ backendSame
  /\ UNCHANGED <<runScope, cancel, late, sigs, sigTask, parent, lossMon, sync, record, pidfile, runner>>

------------------------------------------------------------------------------
(* The failing ends of startup *)

\* cleanup_failed_service_start and the forwards, then finalization stops.
Abandons ==
  /\ at("abandon")
  /\ goto("final")
  /\ command' = IF command = "none" THEN "none" ELSE "aborted"
  /\ backendSame
  /\ UNCHANGED <<runScope, cancel, late, sigs, sigTask, parent, lossMon, sync, record, pidfile, runner>>

\* cleanup_primary_start_failure
CleansUp ==
  /\ \/ /\ at("cleanup") /\ goto("cleanupwait")
        /\ machine_stop /\ UNCHANGED <<host, monitor, own, worker, evs>>
     \/ at("cleanupwait") /\ Exited /\ goto("final") /\ backendSame
  /\ UNCHANGED <<runScope, cancel, late, sigs, sigTask, parent, lossMon, sync, command, record, pidfile, runner>>

------------------------------------------------------------------------------
(* Finalization::run *)

\* Mutant: finalization asks for the stop and does not wait for it.
FinalizesHastily ==
  /\ at("final")
  /\ sigTask' = "off" /\ lossMon' = FALSE
  /\ goto("record")
  /\ IF main.err /\ main.machine THEN machine_stop /\ UNCHANGED <<host, monitor, own, worker, evs>>
     ELSE backendSame
  /\ UNCHANGED <<runScope, cancel, late, sigs, parent, sync, command, record, pidfile, runner>>

\* An error stops the machine once more and waits for its end.
Finalizes ==
  /\ \/ /\ at("final")
        /\ sigTask' = "off" /\ lossMon' = FALSE
        /\ IF main.err /\ main.machine
           THEN goto("finalwait") /\ machine_stop /\ UNCHANGED <<host, monitor, own, worker, evs>>
           ELSE goto("record") /\ backendSame
     \/ at("finalwait") /\ Exited /\ goto("record") /\ backendSame /\ UNCHANGED <<sigTask, lossMon>>
  /\ UNCHANGED <<runScope, cancel, late, sigs, parent, sync, command, record, pidfile, runner>>

\* The record may fail to be written; that is only logged.
FinalRecords ==
  /\ at("record")
  /\ goto("tell")
  /\ \/ record' = [record EXCEPT !.at = "failed"]
     \/ record' = [at |-> "written", outcome |-> IF main.err THEN "Error" ELSE "Clean",
                   exit |-> IF Exited THEN phase.exit ELSE NoVmExit]
  /\ backendSame
  /\ UNCHANGED <<runScope, cancel, late, sigs, sigTask, parent, lossMon, sync, command, pidfile, runner>>

FinalTells ==
  /\ at("tell")
  /\ goto("unlink")
  /\ IF main.err THEN tell("failed") ELSE UNCHANGED sync
  /\ backendSame
  /\ UNCHANGED <<runScope, cancel, late, sigs, sigTask, parent, lossMon, command, record, pidfile, runner>>

\* Mutant: the runner is released before the pid file goes.
FinalUnlinksLate ==
  /\ \/ at("unlink") /\ goto("trigger") /\ runner' = (IF runner = "wait" THEN "go" ELSE runner)
        /\ UNCHANGED <<monitor, pidfile>>
     \/ at("trigger") /\ goto("exit") /\ pidfile' = FALSE /\ UNCHANGED <<runner, monitor>>
     \/ at("exit") /\ goto("gone") /\ monitor' = "down" /\ UNCHANGED <<runner, pidfile>>
  /\ UNCHANGED <<host, attempt, phase, stopTok, forceTok, own, worker, evs, vsock, listen>>
  /\ UNCHANGED <<runScope, cancel, late, sigs, sigTask, parent, lossMon, sync, command, record>>

\* The pid file goes, the runner is released, the process ends.
FinalUnlinks ==
  /\ \/ at("unlink") /\ goto("trigger") /\ pidfile' = FALSE /\ UNCHANGED <<runner, monitor>>
     \/ at("trigger") /\ goto("exit") /\ runner' = (IF runner = "wait" THEN "go" ELSE runner)
        /\ UNCHANGED <<monitor, pidfile>>
     \/ at("exit") /\ goto("gone") /\ monitor' = "down" /\ UNCHANGED <<runner, pidfile>>
  /\ UNCHANGED <<host, attempt, phase, stopTok, forceTok, own, worker, evs, vsock, listen>>
  /\ UNCHANGED <<runScope, cancel, late, sigs, sigTask, parent, lossMon, sync, command, record>>

------------------------------------------------------------------------------
(* The tasks beside it, the runner, and the world outside *)

\* The first signal cancels startup, later ones force the machine to stop.
SignalTask ==
  /\ monitor = "up"
  /\ \/ /\ sigTask = "on" /\ sigs.startup
        /\ sigs' = [sigs EXCEPT !.startup = FALSE]
        /\ \/ ~ cancel /\ cancel' = TRUE /\ backendSame /\ UNCHANGED sigTask
           \/ cancel /\ ~ main.machine /\ backendSame /\ UNCHANGED <<cancel, sigTask>>
           \/ /\ cancel /\ main.machine
              /\ sigTask' = "forcing"
              /\ machine_force_stop
              /\ UNCHANGED <<cancel, host, monitor, own, worker, evs>>
     \/ sigTask = "forcing" /\ Exited /\ sigTask' = "on" /\ backendSame /\ UNCHANGED <<cancel, sigs>>
  /\ UNCHANGED <<runScope, main, late, parent, lossMon, sync, command, record, pidfile, runner>>

\* The poll of the sync pipe
ParentLoss ==
  /\ monitor = "up" /\ lossMon /\ parent = "gone"
  /\ cancel' = TRUE /\ lossMon' = FALSE
  /\ backendSame
  /\ UNCHANGED <<runScope, main, late, sigs, sigTask, parent, sync, command, record, pidfile, runner>>

\* run_child: a byte or the end of the pipe releases the runner.
RunnerRuns ==
  /\ runner = "go" \/ (runner = "wait" /\ monitor = "down")
  /\ runner' = "ran"
  /\ backendSame
  /\ UNCHANGED <<runScope, main, cancel, late, sigs, sigTask, parent, lossMon, sync, command, record, pidfile>>

DeadlinePasses ==
  /\ monitor = "up" /\ ~ late
  /\ main.pc \in {"register", "start", "starting", "alive", "vsock", "running", "services", "guest", "command", "check"}
  /\ late' = TRUE
  /\ backendSame
  /\ UNCHANGED <<runScope, main, cancel, sigs, sigTask, parent, lossMon, sync, command, record, pidfile, runner>>

\* A signal finds the handlers, or ends a monitor that has none yet.
Signalled ==
  /\ monitor = "up" /\ runScope.signals > 0 /\ main.pc # "boot"
  /\ runScope' = [runScope EXCEPT !.signals = @ - 1]
  /\ IF sigs.installed
     THEN sigs' = [sigs EXCEPT !.startup = sigTask # "off", !.buffer = TRUE] /\ UNCHANGED <<monitor, main>>
     ELSE monitor' = "down" /\ goto("gone") /\ UNCHANGED sigs
  /\ UNCHANGED <<host, attempt, phase, stopTok, forceTok, own, worker, evs, vsock, listen>>
  /\ UNCHANGED <<cancel, late, sigTask, parent, lossMon, sync, command, record, pidfile, runner>>

StarterDies ==
  /\ runScope.orphan /\ parent = "up" /\ monitor = "up"
  /\ parent' = "gone"
  /\ backendSame
  /\ UNCHANGED <<runScope, main, cancel, late, sigs, sigTask, lossMon, sync, command, record, pidfile, runner>>

MonitorKilled ==
  /\ runScope.crash /\ monitor = "up" /\ main.pc # "boot"
  /\ monitor' = "down"
  /\ UNCHANGED <<host, attempt, phase, stopTok, forceTok, own, worker, evs, vsock, listen>>
  /\ UNCHANGED supVars

MainStep ==
  \/ MainBoots \/ MainWritesPid \/ MainInstalls \/ InitReads \/ InitPrepares \/ InitRegisters
  \/ InitStarts \/ InitAwaitsStart \/ InitActivates \/ ServicesStart \/ ServicesAwaitCommand
  \/ ServicesCheck \/ ServicesReport \/ HandsOver \/ ShutdownTriggers \/ ShutdownStops
  \/ GracefulStop \/ ShutdownWaits \/ ShutdownDrains \/ Abandons \/ CleansUp
  \/ Finalizes \/ FinalRecords \/ FinalTells \/ FinalUnlinks

\* An instance without faults has a worker that ends only when it is told to.
WorkerRunsOn ==
  /\ WorkerStep
  /\ runScope.faults \/ worker'.st # "dead" \/ worker.kill \/ worker.term \/ monitor = "down"

RunNext ==
  \/ MainStep
  \/ SignalTask \/ ParentLoss \/ CommandSupervises \/ RunnerRuns \/ DeadlinePasses
  \/ Signalled \/ StarterDies \/ MonitorKilled
  \/ (WorkerRunsOn \/ OwnerStep \/ (runScope.listens /\ main.machine /\ ListenStep)) /\ UNCHANGED supVars

RunSpec == RunInit /\ [][RunNext]_runVars

------------------------------------------------------------------------------
(* Safety *)

RunTypeOK ==
  /\ KrunTypeOK
  /\ monitor \in {"up", "down"}
  /\ main \in [pc : MainPCs, machine : BOOLEAN, err : BOOLEAN, trigger : {"none", "Requested", "Backend"}]
  /\ cancel \in BOOLEAN /\ late \in BOOLEAN
  /\ sigs \in [installed : BOOLEAN, startup : BOOLEAN, buffer : BOOLEAN]
  /\ sigTask \in {"off", "on", "forcing"}
  /\ sync \in {"none", "started", "failed", "launch", "lost"}
  /\ command \in {"none", "want", "started", "done", "refused", "unavailable", "aborted"}
  /\ record.at \in {"none", "written", "failed"} /\ record.exit \in VmExits
  /\ runner \in {"none", "wait", "go", "ran"}

\* Terminal metadata requires the worker to be reaped (shutdown.rs, the comment
\* in graceful_stop): whatever cancelled startup, escalated the stop or failed
\* on the way, the monitor of a run records its end, removes its pid file and
\* ends of itself only when no worker is left.
RecordAfterReap ==
  (record.at # "none" \/ main.pc = "gone") => WorkerOver

\* The record says what the reaper saw: clean means the guest left with zero or
\* was never spawned, forced means that the owner sent SIGKILL and that is what
\* ended the worker (worker_outcome); and a run that is recorded without an
\* error had told its starter that it started.
RecordTellsTheTruth ==
  record.at = "written" =>
    /\ record.exit.outcome = "Clean" => record.exit.how \in {"zero", "none"}
    /\ record.exit.outcome = "Forced" => record.exit.how = "kill" /\ record.exit.force # "none"
    /\ record.outcome = "Clean" => sync = "started" /\ record.exit.outcome \in {"Clean", "Forced"}

\* The starter is told "started" by a worker whose acknowledgement was read
\* while it was owned: one drained after its death is never published as
\* readiness (owner.rs, the comment before the drain).
NoLateReadiness ==
  /\ phase.at = "Started" => worker.st # "gone" \/ monitor = "down"
  /\ sync = "started" => own.started

\* The exit command of a monitor that was not killed runs when the record has
\* been attempted and the pid file is gone (ExitRunner::trigger).
CommandAfterRecord ==
  runner \in {"go", "ran"} /\ monitor = "up" => record.at # "none" /\ ~ pidfile

\* Once the exit of a backend is published no listener of its session is
\* registered, however the registration raced with the stop (register and
\* fence_session).
NoListenerAfterExit ==
  Exited /\ monitor = "up" => listen # "on"

\* Tasks, timers, kills and reaping: what goes on without the guest or a user.
Quiet ==
  /\ ~ ENABLED (MainStep \/ SignalTask \/ ParentLoss \/ RunnerRuns \/ DeadlinePasses)
  /\ ~ ENABLED OwnerStep
  /\ ~ ENABLED (WorkerKilled \/ WorkerWatchdog \/ WorkerOrphanReaped)

\* Nobody waits for something that does not come.  When only the guest or a
\* user could move, no signal that found the handlers waits (it was not lost
\* between the startup task and shutdown::run), no dead starter left a run
\* behind that told it nothing, and behind a monitor that is gone, however it
\* went, the worker is gone too and the exit command has run.
NothingIsLeftWaiting ==
  Quiet => IF monitor = "up" THEN ~ sigs.buffer /\ (parent = "gone" => sync # "none")
           ELSE WorkerOver /\ runner \in {"none", "ran"}

\* The end of a run is told once, truly and in order: the exit record after the
\* worker was reaped and with its real cause, no readiness after the end, the exit
\* command after the record, no vsock listener left behind, and nobody left
\* waiting once every task has done what it can.
RunSafe ==
  /\ RunTypeOK /\ RecordAfterReap /\ RecordTellsTheTruth /\ NoLateReadiness
  /\ CommandAfterRecord /\ NoListenerAfterExit /\ NothingIsLeftWaiting

================================================================================
