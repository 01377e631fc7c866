------------------------------- MODULE KrunOwner -------------------------------
(***************************************************************************)
(* The krun backend of a monitor: the worker process that runs the VM       *)
(* (krun/worker, krun/engine.rs) and the task that alone signals, waits for *)
(* and reaps it (virt/backend/krun/owner.rs), with the backend's start,     *)
(* stop and force_stop (virt/backend/krun.rs, virt/machine.rs).             *)
(*                                                                         *)
(* The worker writes its startup stages to a pipe that outlives it; the     *)
(* owner reads them, the exit of the child, the two cancellation tokens and *)
(* its timers in one biased select.                                         *)
(***************************************************************************)
EXTENDS Naturals, Sequences, FiniteSets

LOCAL INSTANCE SequencesExt

VARIABLES host,      \* the platform, "linux" or "macos"
          monitor,   \* "up", or "down" once the monitor process is gone
          attempt,   \* the launch attempts spent, of {"machine", "backend"}
          phase,     \* the published Phase, with the exit of `at = "Exited"'
          stopTok,   \* the cancellation tokens of the backend
          forceTok,
          own,       \* the owner task
          worker,    \* the worker process
          evs,       \* the event pipe
          vsock,     \* [session, mux]: active session, running mux
          listen     \* one registration of a vsock listener

krunVars == <<host, monitor, attempt, phase, stopTok, forceTok, own, worker, evs, vsock, listen>>

Stages == {"Spawned", "Admission", "Build", "Started"}
ForceReasons == {"Stop", "Cancelled", "StartupFailure", "ProtocolFailure", "GracefulTimeout", "Escalated"}
Hows == {"none", "zero", "code", "signal", "kill", "watchdog"}
Phases == {"Starting", "Started", "Reaped", "Exited"}

\* VmExit; VmExit::stopped and VmExit::failed are of a worker never spawned.
NoVmExit == [outcome |-> "none", stage |-> "Spawned", force |-> "none", how |-> "none"]
VmExits == [outcome : {"none", "Clean", "Forced", "Failed"}, stage : Stages,
            force : ForceReasons \cup {"none"}, how : Hows]
VmStopped == [NoVmExit EXCEPT !.outcome = "Clean"]
VmFailed == [NoVmExit EXCEPT !.outcome = "Failed"]

Exited == phase.at = "Exited"
is_terminated == phase.at \in {"Reaped", "Exited"}
WorkerRuns == worker.st \in {"boot", "admit", "build", "guest"}
WorkerOver == worker.st \in {"none", "gone"}

FreshOwner ==
  [pc |-> "idle", stage |-> "Spawned", started |-> FALSE, stopping |-> FALSE,
   tx |-> "writing", open |-> TRUE, failure |-> FALSE, forced |-> "none",
   observed |-> FALSE, escalated |-> FALSE, requested |-> FALSE, exit |-> NoVmExit]

KrunInit ==
  /\ monitor = "up"
  /\ attempt = {}
  /\ phase = [at |-> "Starting", exit |-> NoVmExit]
  /\ stopTok = FALSE /\ forceTok = FALSE
  /\ own = FreshOwner
  /\ worker = [st |-> "none", how |-> "none", kill |-> FALSE, term |-> FALSE]
  /\ evs = << >>
  /\ vsock = [session |-> TRUE, mux |-> FALSE]
  /\ listen = "off"

KrunTypeOK ==
  /\ attempt \subseteq {"machine", "backend"}
  /\ phase \in [at : Phases, exit : VmExits]
  /\ stopTok \in BOOLEAN /\ forceTok \in BOOLEAN
  /\ own.pc \in {"idle", "prepare", "spawn", "loop", "drain", "shut", "fence", "publish", "done"}
  /\ own.stage \in Stages /\ own.forced \in ForceReasons \cup {"none"} /\ own.exit \in VmExits
  /\ worker.st \in {"none", "boot", "admit", "build", "guest", "dead", "gone"} /\ worker.how \in Hows
  /\ Len(evs) <= 4
  /\ listen \in {"off", "checked", "on", "refused", "fenced"}

------------------------------------------------------------------------------
(* The worker process.  Its descriptors close when it dies, whoever kills it. *)

Die(how) == worker' = [worker EXCEPT !.st = "dead", !.how = how]

\* EventWriter::send; the pipe has room for the few events of a worker.
emit(e, s) == evs' = Append(evs, <<e, s>>)

\* main reports the stage in which it fails and returns the error.
WorkerFails(s) == Die("code") /\ emit("StartupFailed", s)

\* Adopting the descriptors may fail before there is anything to report on;
\* read_config then reads to the end, which the writer marks by closing.
WorkerConfigured ==
  /\ worker.st = "boot"
  /\ \/ Die("code") /\ UNCHANGED evs
     \/ own.tx \in {"sent", "taken"} /\ WorkerFails("Spawned")
     \/ /\ own.tx \in {"sent", "taken"}
        /\ worker' = [worker EXCEPT !.st = "admit"] /\ emit("StartupStage", "Admission")

WorkerAdmitted ==
  /\ worker.st = "admit"
  /\ \/ WorkerFails("Admission")
     \/ worker' = [worker EXCEPT !.st = "build"] /\ emit("StartupStage", "Build")

\* Mutant: the worker reports its stage as long as it builds.
WorkerBuiltAgain ==
  /\ worker.st = "build"
  /\ \/ UNCHANGED worker /\ emit("StartupStage", "Build")
     \/ worker' = [worker EXCEPT !.st = "guest"] /\ emit("BackendStarted", "Started")

\* run_process up to and with its on_built callback
WorkerBuilt ==
  /\ worker.st = "build"
  /\ \/ WorkerFails("Build")
     \/ worker' = [worker EXCEPT !.st = "guest"] /\ emit("BackendStarted", "Started")

\* The guest ends: libkrun leaves the process with a code, or the event loop
\* returns and main reports that.
WorkerEnds ==
  /\ worker.st = "guest"
  /\ \/ \E how \in {"zero", "code"} : Die(how) /\ UNCHANGED evs
     \/ WorkerFails("Started")

WorkerCrashes == WorkerRuns /\ Die("signal") /\ UNCHANGED evs

\* SIGKILL takes effect; SIGTERM only asks the guest to power off.
WorkerKilled == WorkerRuns /\ worker.kill /\ Die("kill") /\ UNCHANGED evs
WorkerTerminates == worker.st = "guest" /\ worker.term /\ Die("zero") /\ UNCHANGED evs

\* Mutant: a worker that does not watch the monitor.
WorkerWatchdogNever == FALSE /\ UNCHANGED <<worker, evs>>

\* start_watchdog: the keepalive pipe of the monitor closed.
WorkerWatchdog == WorkerRuns /\ monitor = "down" /\ Die("watchdog") /\ UNCHANGED evs

\* A dead worker without a monitor is init's to reap.
WorkerOrphanReaped ==
  /\ worker.st = "dead" /\ monitor = "down"
  /\ worker' = [worker EXCEPT !.st = "gone"] /\ UNCHANGED evs

WorkerStep ==
  /\ \/ WorkerConfigured \/ WorkerAdmitted \/ WorkerBuilt \/ WorkerEnds \/ WorkerCrashes
     \/ WorkerKilled \/ WorkerTerminates \/ WorkerWatchdog \/ WorkerOrphanReaped
  /\ UNCHANGED <<host, monitor, attempt, phase, stopTok, forceTok, own, vsock, listen>>

------------------------------------------------------------------------------
(* The vsock session of the backend and its listeners. *)

session_shutdown(v) == [v EXCEPT !.session = FALSE]
fence_session(l) == IF l = "on" THEN "fenced" ELSE l

\* Mutant: the session is not asked again under the lock.
registerUnchecked == "on"

\* register, under the lock of the listeners
register == IF vsock.session THEN "on" ELSE "refused"

\* listen_vsock looks at the token and the phase, and registers afterwards.
ListenStep ==
  /\ monitor = "up"
  /\ \/ /\ listen = "off"
        /\ listen' = IF stopTok \/ is_terminated THEN "refused" ELSE "checked"
     \/ listen = "checked" /\ listen' = register
  /\ UNCHANGED <<host, monitor, attempt, phase, stopTok, forceTok, own, worker, evs, vsock>>

------------------------------------------------------------------------------
(* start, stop and force_stop of the machine handle and the backend *)

\* KrunBackend::stop: the attempt of a backend never started is spent here.
backend_stop ==
  /\ stopTok' = TRUE
  /\ IF "backend" \in attempt THEN UNCHANGED <<phase, vsock, listen>>
     ELSE /\ vsock' = session_shutdown(vsock)
          /\ listen' = fence_session(listen)
          /\ phase' = [at |-> "Exited", exit |-> VmStopped]

machine_stop ==
  /\ backend_stop
  /\ attempt' = {"machine", "backend"}
  /\ UNCHANGED forceTok

machine_force_stop ==
  /\ backend_stop
  /\ attempt' = {"machine", "backend"}
  /\ forceTok' = TRUE

\* KrunBackend::start spends the attempt and hands the rest to the owner.
backend_start ==
  /\ attempt' = {"machine", "backend"}
  /\ own' = [own EXCEPT !.pc = "prepare"]

------------------------------------------------------------------------------
(* The owner task. *)

valid_stage(s, t) == <<s, t>> \in {<<"Spawned", "Admission">>, <<"Admission", "Build">>}

\* force: the child is not reaped, so that its pid is still its own.
Force(o, reason) ==
  IF WorkerRuns THEN own' = [o EXCEPT !.forced = reason] /\ worker' = [worker EXCEPT !.kill = TRUE]
  ELSE own' = o /\ UNCHANGED worker

\* prepare, engine_config and the mux pair
OwnerPrepares ==
  /\ own.pc = "prepare"
  /\ \/ own' = [own EXCEPT !.pc = "shut", !.exit = VmFailed] /\ UNCHANGED vsock
     \/ own' = [own EXCEPT !.pc = "spawn"] /\ vsock' = [vsock EXCEPT !.mux = TRUE]
  /\ UNCHANGED <<phase, worker, evs, listen>>

OwnerSpawns ==
  /\ own.pc = "spawn"
  /\ \/ /\ stopTok \/ forceTok
        /\ own' = [own EXCEPT !.pc = "shut", !.exit = VmStopped] /\ UNCHANGED worker
     \/ /\ ~ (stopTok \/ forceTok)
        /\ \/ own' = [own EXCEPT !.pc = "shut", !.exit = VmFailed] /\ UNCHANGED worker
           \/ own' = [own EXCEPT !.pc = "loop"] /\ worker' = [worker EXCEPT !.st = "boot"]
  /\ UNCHANGED <<phase, evs, vsock, listen>>

\* The task that writes the config: it fails when the worker closed its end.
Transmits ==
  /\ own.pc = "loop" /\ own.tx = "writing"
  /\ own' = [own EXCEPT !.tx = IF WorkerRuns THEN "sent" ELSE "failed"]
  /\ UNCHANGED <<phase, worker, evs, vsock, listen>>

\* The biased select: the two tokens are seen at once, the other arms when
\* their task or the kernel has made them ready.
ForceAsked == forceTok /\ ~ own.escalated
StopAsked == ~ ForceAsked /\ stopTok /\ ~ own.stopping
NoneAsked == own.pc = "loop" /\ ~ ForceAsked /\ ~ StopAsked

OwnerReaps ==
  /\ own.pc = "loop" /\ worker.st = "dead"
  /\ worker' = [worker EXCEPT !.st = "gone", !.kill = FALSE, !.term = FALSE]
  /\ phase' = [phase EXCEPT !.at = "Reaped"]
  /\ own' = [own EXCEPT !.pc = "drain"]
  /\ UNCHANGED <<evs, vsock, listen>>

OwnerEscalates ==
  /\ own.pc = "loop" /\ ForceAsked
  /\ Force([own EXCEPT !.escalated = TRUE, !.requested = TRUE, !.stopping = TRUE], "Escalated")
  /\ UNCHANGED <<phase, evs, vsock, listen>>

\* Only a started guest on macOS is asked first.
OwnerStops ==
  /\ own.pc = "loop" /\ StopAsked
  /\ LET o == [own EXCEPT !.requested = TRUE, !.stopping = TRUE] IN
     IF host = "macos" /\ own.started
     THEN own' = o /\ worker' = [worker EXCEPT !.term = TRUE]
     ELSE Force(o, IF own.started THEN "Stop" ELSE "Cancelled")
  /\ UNCHANGED <<phase, evs, vsock, listen>>

\* A failure is kept, the worker killed, and no more events are read.
FailWith(o) ==
  Force([o EXCEPT !.failure = TRUE, !.stopping = TRUE],
        IF o.started THEN "ProtocolFailure" ELSE "StartupFailure")

OwnerReads ==
  /\ NoneAsked /\ own.open /\ ~ own.stopping /\ evs # << >>
  /\ evs' = Tail(evs)
  /\ LET e == Head(evs) IN
     \/ /\ e[1] = "StartupStage" /\ valid_stage(own.stage, e[2]) /\ ~ own.started
        /\ own' = [own EXCEPT !.stage = e[2]]
        /\ UNCHANGED <<worker, phase>>
     \/ /\ e[1] = "BackendStarted" /\ own.stage = "Build" /\ ~ own.started
        /\ own' = [own EXCEPT !.started = TRUE, !.stage = "Started"]
        /\ phase' = [phase EXCEPT !.at = "Started"]
        /\ UNCHANGED worker
     \/ e[1] = "StartupFailed" /\ FailWith(own) /\ UNCHANGED phase
  /\ UNCHANGED <<vsock, listen>>

\* The end of the events is no failure of a worker that has started.
OwnerReadsEnd ==
  /\ NoneAsked /\ own.open /\ ~ own.stopping /\ evs = << >> /\ worker.st = "dead"
  /\ LET o == [own EXCEPT !.open = FALSE] IN
     IF own.started THEN own' = o /\ UNCHANGED worker ELSE FailWith(o)
  /\ UNCHANGED <<phase, evs, vsock, listen>>

OwnerTransmitted ==
  /\ NoneAsked /\ own.tx \in {"sent", "failed"}
  /\ LET o == [own EXCEPT !.tx = "taken"] IN
     IF own.tx = "sent" THEN own' = o /\ UNCHANGED worker
     ELSE Force([o EXCEPT !.failure = TRUE, !.stopping = TRUE], "StartupFailure")
  /\ UNCHANGED <<phase, evs, vsock, listen>>

OwnerStartupTimeout ==
  /\ NoneAsked /\ ~ own.started /\ ~ own.stopping
  /\ Force([own EXCEPT !.failure = TRUE, !.stopping = TRUE], "StartupFailure")
  /\ UNCHANGED <<phase, evs, vsock, listen>>

\* Mutant: the graceful period of a guest has no end.
OwnerStopTimeoutNever ==
  /\ NoneAsked /\ own.stopping /\ ~ own.observed /\ own.forced # "none"
  /\ own' = [own EXCEPT !.observed = TRUE]
  /\ UNCHANGED <<phase, worker, evs, vsock, listen>>

\* Not killed yet: kill now.  Killed: say so once, and go on waiting.
OwnerStopTimeout ==
  /\ NoneAsked /\ own.stopping /\ ~ own.observed
  /\ IF own.forced = "none" THEN WorkerRuns /\ Force(own, "GracefulTimeout")
     ELSE own' = [own EXCEPT !.observed = TRUE] /\ UNCHANGED worker
  /\ UNCHANGED <<phase, evs, vsock, listen>>

\* What the events left in the pipe still tell of a worker that is gone.
drained(o, e) ==
  IF e[1] = "StartupStage" /\ valid_stage(o.stage, e[2]) THEN [o EXCEPT !.stage = e[2]]
  ELSE IF e[1] = "BackendStarted" /\ o.stage = "Build" THEN [o EXCEPT !.stage = "Started", !.started = TRUE]
  ELSE IF e[1] = "StartupFailed" THEN [o EXCEPT !.failure = TRUE] ELSE o

\* Mutant: any death after a force was asked for counts as forced.
worker_outcomeAsked(o) ==
  IF o.failure THEN "Failed"
  ELSE IF o.forced # "none" THEN "Forced"
  ELSE IF worker.how = "zero" THEN "Clean" ELSE "Failed"

worker_outcome(o) ==
  IF o.failure THEN "Failed"
  ELSE IF o.forced # "none" /\ worker.how = "kill" THEN "Forced"
  ELSE IF worker.how = "zero" THEN "Clean" ELSE "Failed"

exit_of(o) ==
  LET f == [o EXCEPT !.failure = @ \/ (~ o.started /\ ~ o.requested)] IN
  [outcome |-> worker_outcome(f), stage |-> f.stage, force |-> f.forced, how |-> worker.how]

\* Mutant: a drained acknowledgement is published like one that was read.
OwnerDrainsLoud ==
  /\ own.pc = "drain"
  /\ LET o == FoldLeft(drained, own, evs) IN
     /\ own' = [o EXCEPT !.pc = "shut", !.exit = exit_of(o)]
     /\ phase' = [phase EXCEPT !.at = IF o.started /\ ~ own.started THEN "Started" ELSE @]
  /\ evs' = << >>
  /\ UNCHANGED <<worker, vsock, listen>>

\* DRAIN_TIMEOUT may leave the rest unread.
OwnerDrains ==
  /\ own.pc = "drain"
  /\ \E n \in 0..Len(evs) :
       LET o == FoldLeft(drained, own, SubSeq(evs, 1, n)) IN
       own' = [o EXCEPT !.pc = "shut", !.exit = exit_of(o)]
  /\ evs' = << >>
  /\ UNCHANGED <<phase, worker, vsock, listen>>

\* The session first, then its listeners and the mux, then the exit.
OwnerShuts ==
  /\ own.pc = "shut"
  /\ vsock' = session_shutdown(vsock)
  /\ own' = [own EXCEPT !.pc = "fence"]
  /\ UNCHANGED <<phase, worker, evs, listen>>

OwnerFences ==
  /\ own.pc = "fence"
  /\ listen' = fence_session(listen)
  /\ vsock' = [vsock EXCEPT !.mux = FALSE]
  /\ own' = [own EXCEPT !.pc = "publish"]
  /\ UNCHANGED <<phase, worker, evs>>

OwnerPublishes ==
  /\ own.pc = "publish"
  /\ phase' = [at |-> "Exited", exit |-> own.exit]
  /\ own' = [FreshOwner EXCEPT !.pc = "done", !.started = own.started]
  /\ UNCHANGED <<worker, evs, vsock, listen>>

OwnerStep ==
  /\ monitor = "up"
  /\ \/ OwnerPrepares \/ OwnerSpawns \/ Transmits \/ OwnerReaps \/ OwnerEscalates \/ OwnerStops
     \/ OwnerReads \/ OwnerReadsEnd \/ OwnerTransmitted \/ OwnerStartupTimeout \/ OwnerStopTimeout
     \/ OwnerDrains \/ OwnerShuts \/ OwnerFences \/ OwnerPublishes
  /\ UNCHANGED <<host, monitor, attempt, stopTok, forceTok>>

================================================================================
