--------------------------- MODULE MachineLifecycle ---------------------------
(***************************************************************************)
(* One machine of libvm: its stored state, its run directory (vm.lock and  *)
(* vm.pid), its exit record, the silo-vmm monitor of every run, and the    *)
(* client processes that start, stop, kill, wait for, remove and observe   *)
(* it (machine/lifecycle.rs, runtime/core.rs, supervisor/launch.rs and     *)
(* virt/vmm).  There is no daemon: each operation is a sequence of steps   *)
(* of its own process, ordered only by the machine lock (mlock), by the    *)
(* lifetime lock a monitor inherits, and by what /proc says of a pid.      *)
(*                                                                         *)
(* Run r's monitor has start time r; a process of somebody else has start  *)
(* time 0.  vm.lock is an inode number, 0 where the run tree is absent.    *)
(***************************************************************************)
EXTENDS Integers, FiniteSets, MachineTransitions

CONSTANTS Client,        \* processes using libvm
          Pid,           \* host pids
          ForeignPid,    \* pids the host may give to unrelated processes
          MaxRuns,       \* bound on the starts of the machine
          MaxIno,        \* bound on the inodes of vm.lock
          Ops,           \* the operations the clients use
          Ephemeral,     \* MachineRetention::Ephemeral
          OrphanWindow   \* a starter may vanish or time out before vm.pid exists

Run == 1 .. MaxRuns
Ino == 1 .. MaxIno
ExpectedRun == Run \cup {None}
Operations == {"start", "stop", "kill", "wait", "remove", "observe", "inspect"}

ASSUME LifecycleAssumption ==
  /\ MaxRuns \in Nat /\ MaxIno \in Nat
  /\ None \notin Int /\ None \notin Pid /\ None \notin Client
  /\ ForeignPid \subseteq Pid
  /\ Ops \subseteq Operations
  /\ Ephemeral \in BOOLEAN /\ OrphanWindow \in BOOLEAN

VARIABLES exists,    \* the machine's rows are in the store
          st,        \* machine_state row
          lockfile,  \* inode of run_root/machines/<id>/vm.lock
          pidfile,   \* content of vm.pid
          exitRec,   \* vm.exit.json
          mlock,     \* holder of the machine lock
          runs,      \* run ids drawn so far
          vmm,       \* the monitor of each run
          foreign,   \* pids of unrelated live processes
          cl         \* the clients: program counter and locals

vars == <<exists, st, lockfile, pidfile, exitRec, mlock, runs, vmm, foreign, cl>>

NoGen == [pid |-> None, started |-> None, run |-> None]
Idle == [pc |-> "idle", exp |-> None, gen |-> NoGen, life |-> 0, run |-> 0,
         fail |-> "Stopped"]
NoVmm == [phase |-> "none", pid |-> None, ino |-> 0, req |-> FALSE,
          told |-> FALSE, sig |-> "none", clean |-> TRUE]

-----------------------------------------------------------------------------
(* What the host answers.                                                   *)

Alive(r) == vmm[r].phase \notin {"none", "dead"}
VMLive(r) == vmm[r].phase \in {"booted", "up"}

\* A live process with this pid and start time (None: any generation).
ProcAlive(pid, started) ==
  \/ \E r \in Run : Alive(r) /\ vmm[r].pid = pid /\ started \in {None, r}
  \/ pid \in foreign /\ started \in {None, 0}

StartedAt(pid) ==
  IF pid \in foreign THEN 0 ELSE CHOOSE r \in Run : Alive(r) /\ vmm[r].pid = pid

\* flock(LOCK_EX | LOCK_NB) on this inode by a new open file would succeed.
LockFree(i) == /\ \A r \in Run : Alive(r) => vmm[r].ino # i
               /\ \A c \in Client : cl[c].life # i

\* ensure_machine_run_dir and the O_CREAT of vm.lock: the inode it has then
\* (none where the bound on inodes is reached).
EnsureLockfile ==
  IF lockfile # 0 THEN {lockfile}
  ELSE {i \in Ino : LockFree(i) /\ \A j \in Ino : LockFree(j) => i <= j}

-----------------------------------------------------------------------------
(* Observation of the stored state against the host.                        *)

\* recovering_prearmed_start accepts any live process the pidfile names.
MatchesGeneration(pid) ==
  \/ ProcAlive(pid, st.started)
  \/ st.status = "Starting" /\ None \in {st.pid, st.started} /\ ProcAlive(pid, None)

\* Mutant: the pidfile is not consulted.
live_monitor_identityStoredOnly ==
  IF st.pid # None /\ MatchesGeneration(st.pid) THEN st.pid ELSE None

\* vm.pid first, then the stored pid.
live_monitor_identity ==
  IF pidfile # None /\ MatchesGeneration(pidfile) THEN pidfile
  ELSE IF st.pid # None /\ MatchesGeneration(st.pid) THEN st.pid
  ELSE None

runtime_exit_matches ==
  exitRec # None /\ st.run = exitRec.run /\ st.pid = exitRec.pid

\* try_acquire(vm.lock) by an observer.
ObserverLocks == lockfile = 0 \/ LockFree(lockfile)

\* Mutant: an abandoned start is never timed out.
observe_machine_stateNoTimeout(canLock) ==
  LET live == live_monitor_identity IN
  IF runtime_exit_matches /\ live = None THEN ExitObserved(exitRec.clean)
  ELSE IF live # None THEN MonitorObserved(st, live, StartedAt(live), st.run)
  ELSE IF st.status # "Starting" THEN MonitorGone(st)
  ELSE {replace_runtime(st.status, None, None, st.run)}

\* canLock: the outcome of the observer's try_acquire of the lifetime lock.
observe_machine_state(canLock) ==
  LET live == live_monitor_identity IN
  IF runtime_exit_matches /\ live = None THEN ExitObserved(exitRec.clean)
  ELSE IF live # None THEN MonitorObserved(st, live, StartedAt(live), st.run)
  ELSE IF st.status # "Starting" THEN MonitorGone(st)
  ELSE IF canLock THEN StartTimedOut(st)
  ELSE {replace_runtime(st.status, None, None, st.run)}

\* The observation creates vm.lock when it has to try the lifetime lock.
LockfileObserved ==
  IF st.status = "Starting" /\ live_monitor_identity = None THEN EnsureLockfile
  ELSE {lockfile}

\* reconcile_machine_runtime_locked.
ReconcileTo(o) == /\ o \in observe_machine_state(ObserverLocks)
                  /\ st' = o
                  /\ lockfile' \in LockfileObserved

identity_matches(s, g) == require_generation(s, g)

-----------------------------------------------------------------------------
(* Helpers of the actions.                                                  *)

Goto(c, locals) == cl' = [cl EXCEPT ![c] = locals]

Drop(c) == Goto(c, Idle)

Becomes(r, monitor) == vmm' = [vmm EXCEPT ![r] = monitor]

Unlock(c) == mlock' = IF mlock = c THEN None ELSE mlock

\* cleanup_machine_resources_locked: the run tree goes.
RunTreeRemoved == lockfile' = 0 /\ pidfile' = None

\* Effects of kill(2) on the processes with this pid.
Signalled(pid, s) ==
  /\ vmm' = [r \in Run |-> IF Alive(r) /\ vmm[r].pid = pid /\ vmm[r].sig # "kill"
                           THEN [vmm[r] EXCEPT !.sig = s] ELSE vmm[r]]
  /\ foreign' = IF s = "kill" THEN foreign \ {pid} ELSE foreign

Generation == [pid |-> st.pid, started |-> st.started, run |-> st.run]

\* An operation begins by taking the machine lock and re-resolving the row.
Locks(c) == cl[c].pc = "idle" /\ exists /\ mlock = None

\* The pidfile does not exist yet for the run this client starts.
InOrphanWindow(c) == cl[c].pc \in {"handoff", "await"} /\ vmm[cl[c].run].phase = "spawned"
MayVanish(c) == OrphanWindow \/ ~InOrphanWindow(c)

-----------------------------------------------------------------------------
(* start_with_options.                                                      *)

\* Up to request_machine_start, under the machine lock.  The starter takes
\* the lifetime lock first, so its own reconciliation never gets it.
StartBegin(c) ==
  /\ "start" \in Ops /\ Locks(c) /\ runs < MaxRuns
  /\ lockfile' \in EnsureLockfile
  /\ IF ~ObserverLocks
     THEN Goto(c, [cl[c] EXCEPT !.pc = "refused"]) /\ UNCHANGED <<st, mlock, runs>>
     ELSE \E o \in observe_machine_state(FALSE) :
            IF is_active(o.status)
            THEN /\ st' = o
                 /\ Goto(c, [cl[c] EXCEPT !.pc = "refused"])
                 /\ UNCHANGED <<mlock, runs>>
            ELSE /\ st' \in StartRequested(o, runs + 1)
                 /\ runs' = runs + 1
                 /\ mlock' = c
                 /\ Goto(c, [cl[c] EXCEPT !.pc = "prepare", !.life = lockfile',
                                     !.run = runs + 1])
  /\ UNCHANGED <<exists, pidfile, exitRec, vmm, foreign>>

\* MachineAlreadyRunning goes back to the caller.
StartRefused(c) ==
  /\ cl[c].pc = "refused"
  /\ Drop(c)
  /\ UNCHANGED <<exists, st, lockfile, pidfile, exitRec, mlock, runs, vmm, foreign>>

\* Secrets, disk, network, launch inputs, entrypoint or log directory fail.
PrepareFails(c) ==
  /\ cl[c].pc = "prepare"
  /\ Goto(c, [cl[c] EXCEPT !.pc = "failed", !.fail = "Stopped"])
  /\ UNCHANGED <<exists, st, lockfile, pidfile, exitRec, mlock, runs, vmm, foreign>>

\* The launcher forks the detached monitor, which inherits vm.lock.
Spawn(c) ==
  /\ cl[c].pc = "prepare"
  /\ \E p \in Pid \ ({vmm[r].pid : r \in Run} \cup foreign) :
       Becomes(cl[c].run, [NoVmm EXCEPT !.phase = "spawned", !.pid = p, !.ino = cl[c].life])
  /\ Goto(c, [cl[c] EXCEPT !.pc = "handoff"])
  /\ UNCHANGED <<exists, st, lockfile, pidfile, exitRec, mlock, runs, foreign>>

\* handoff_start_request.
Handoff(c) ==
  /\ cl[c].pc = "handoff" /\ Alive(cl[c].run)
  /\ Becomes(cl[c].run, [vmm[cl[c].run] EXCEPT !.req = TRUE])
  /\ Goto(c, [cl[c] EXCEPT !.pc = "await"])
  /\ UNCHANGED <<exists, st, lockfile, pidfile, exitRec, mlock, runs, foreign>>

\* supervisor.spawn fails: the monitor reported a failure or closed the sync
\* pipe, or the launcher, handoff or startup deadline passed.
StartTimesOut(c) ==
  /\ cl[c].pc \in {"handoff", "await"} /\ MayVanish(c)
  /\ Goto(c, [cl[c] EXCEPT !.pc = "failed", !.fail = "Stopped"])
  /\ UNCHANGED <<exists, st, lockfile, pidfile, exitRec, mlock, runs, vmm, foreign>>

\* The monitor reported readiness: read vm.pid, pin its identity, save Running.
\* Each of the three may fail.
StartReady(c) ==
  /\ cl[c].pc = "await" /\ vmm[cl[c].run].told
  /\ \/ /\ pidfile # None /\ ProcAlive(pidfile, None)
        /\ st' \in MonitorReady(st, cl[c].run, pidfile, StartedAt(pidfile))
        /\ Drop(c) /\ Unlock(c)
     \/ /\ Goto(c, [cl[c] EXCEPT !.pc = "failed", !.fail = "Error"])
        /\ UNCHANGED <<st, mlock>>
  /\ UNCHANGED <<exists, lockfile, pidfile, exitRec, runs, vmm, foreign>>

\* The end of finish_failed_start once no monitor is left: record the failure
\* and remove an ephemeral machine (the removal of its rows may fail).
FailedStartRecorded(c) ==
  /\ \E s \in StartFailed(st, cl[c].run, cl[c].fail) : st' = s
  /\ IF Ephemeral THEN RunTreeRemoved /\ exitRec' = None /\ exists' \in {TRUE, FALSE}
                  ELSE UNCHANGED <<lockfile, pidfile, exitRec, exists>>
  /\ Drop(c) /\ Unlock(c)

\* finish_failed_start: stop the process vm.pid names, if it is alive.
FailedStart(c) ==
  /\ cl[c].pc = "failed"
  /\ IF pidfile # None /\ ProcAlive(pidfile, None)
     THEN /\ Signalled(pidfile, "int")
          /\ Goto(c, [cl[c] EXCEPT !.pc = "reaping",
                      !.gen = [pid |-> pidfile, started |-> StartedAt(pidfile), run |-> None]])
          /\ UNCHANGED <<exists, st, lockfile, pidfile, exitRec, mlock>>
     ELSE FailedStartRecorded(c) /\ UNCHANGED <<vmm, foreign>>
  /\ UNCHANGED runs

\* stop_failed_start_monitor: SIGKILL after 75 s.
ReapKill(c) ==
  /\ cl[c].pc = "reaping" /\ ProcAlive(cl[c].gen.pid, cl[c].gen.started)
  /\ Signalled(cl[c].gen.pid, "kill")
  /\ UNCHANGED <<exists, st, lockfile, pidfile, exitRec, mlock, runs, cl>>

ReapDone(c) ==
  /\ cl[c].pc = "reaping" /\ ~ProcAlive(cl[c].gen.pid, cl[c].gen.started)
  /\ FailedStartRecorded(c)
  /\ UNCHANGED <<runs, vmm, foreign>>

\* The monitor survived SIGKILL for 5 s: the state stays Starting.
ReapGivesUp(c) ==
  /\ cl[c].pc = "reaping" /\ ProcAlive(cl[c].gen.pid, cl[c].gen.started)
  /\ \E r \in Run : vmm[r].pid = cl[c].gen.pid /\ vmm[r].sig = "kill"
  /\ Drop(c) /\ Unlock(c)
  /\ UNCHANGED <<exists, st, lockfile, pidfile, exitRec, runs, vmm, foreign>>

-----------------------------------------------------------------------------
(* stop_impl and kill_impl.                                                 *)

\* Mutant: require_current_run is left out.
BeginOnUnfenced(c, e, next) ==
  \E o \in observe_machine_state(ObserverLocks) :
    /\ ReconcileTo(o)
    /\ mlock' = c /\ Goto(c, [cl[c] EXCEPT !.pc = next, !.exp = e])
    /\ UNCHANGED <<exists, pidfile, exitRec, runs, vmm, foreign>>

\* Lock, reconcile, require_current_run; then wait at pc "next".
BeginOn(c, e, next) ==
  \E o \in observe_machine_state(ObserverLocks) :
    /\ ReconcileTo(o)
    /\ IF require_run_id(o, e)
       THEN mlock' = c /\ Goto(c, [cl[c] EXCEPT !.pc = next, !.exp = e])
       ELSE mlock' = mlock /\ Drop(c)
    /\ UNCHANGED <<exists, pidfile, exitRec, runs, vmm, foreign>>

\* mark_machine_stopped for a state no live monitor stands behind, or the
\* state as it is when it was inactive; then the cleanup.
Settle(c) ==
  /\ st' = IF is_active(st.status) THEN stopped_machine_state ELSE st
  /\ RunTreeRemoved
  /\ Drop(c) /\ Unlock(c)
  /\ UNCHANGED <<exists, exitRec, runs, vmm, foreign>>

StoredMonitorAlive == st.pid # None /\ ProcAlive(st.pid, st.started)

StopBegin(c, e) == "stop" \in Ops /\ Locks(c) /\ BeginOn(c, e, "stop")

\* Mutant: the machine is settled without looking at its monitor.
StopSettleNoWait(c) == cl[c].pc = "stop" /\ Settle(c)

\* No live monitor behind the reconciled state.
StopSettle(c) ==
  /\ cl[c].pc = "stop"
  /\ is_active(st.status) => ~StoredMonitorAlive
  /\ Settle(c)

\* SIGINT unless a stop is already pending; the lock is released for the wait.
\* The store may refuse the new state, or the client die, after the signal.
StopSignal(c) ==
  /\ cl[c].pc = "stop" /\ is_active(st.status) /\ StoredMonitorAlive
  /\ IF st.status = "Stopping" THEN UNCHANGED <<vmm, foreign>> ELSE Signalled(st.pid, "int")
  /\ \/ /\ st' \in StopRequested(st, Generation)
        /\ Goto(c, [cl[c] EXCEPT !.pc = "stopWait", !.gen = Generation])
     \/ UNCHANGED st /\ Drop(c)
  /\ Unlock(c)
  /\ UNCHANGED <<exists, lockfile, pidfile, exitRec, runs>>

\* Mutant: the stop completes whatever generation is current.
CompleteStopUnfenced(g) ==
  IF is_active(st.status) /\ ~ProcAlive(g.pid, g.started)
  THEN st' = stopped_machine_state /\ RunTreeRemoved
  ELSE UNCHANGED <<st, lockfile, pidfile>>

\* complete_stop_locked: StopCompleted and the cleanup when the stored state is
\* still the active generation g and g is dead; nothing otherwise.
CompleteStop(g) ==
  IF is_active(st.status) /\ identity_matches(st, g) /\ ~ProcAlive(g.pid, g.started)
     /\ StopCompleted(st, g) # {}
  THEN st' \in StopCompleted(st, g) /\ RunTreeRemoved
  ELSE UNCHANGED <<st, lockfile, pidfile>>

\* wait_for_target_exit with stop_requested.
StopFinish(c) ==
  /\ cl[c].pc = "stopWait" /\ ~ProcAlive(cl[c].gen.pid, cl[c].gen.started)
  /\ mlock = None
  /\ IF exists THEN CompleteStop(cl[c].gen) ELSE UNCHANGED <<st, lockfile, pidfile>>
  /\ Drop(c)
  /\ UNCHANGED <<exists, exitRec, mlock, runs, vmm, foreign>>

\* The wait timed out; with force_timeout the captured run is killed next.
StopTimesOut(c) ==
  /\ cl[c].pc = "stopWait" /\ ProcAlive(cl[c].gen.pid, cl[c].gen.started)
  /\ \/ Drop(c)
     \/ /\ cl[c].gen.run # None
        /\ Goto(c, [Idle EXCEPT !.pc = "escalate", !.exp = cl[c].gen.run])
  /\ UNCHANGED <<exists, st, lockfile, pidfile, exitRec, mlock, runs, vmm, foreign>>

KillBegin(c, e) == "kill" \in Ops /\ Locks(c) /\ BeginOn(c, e, "kill")

\* kill_run_with(captured run) of an escalating stop.
Escalate(c) ==
  /\ cl[c].pc = "escalate" /\ mlock = None
  /\ IF exists THEN BeginOn(c, cl[c].exp, "kill")
     ELSE Drop(c) /\ UNCHANGED <<exists, st, lockfile, pidfile, exitRec, mlock, runs, vmm, foreign>>

\* MachineNotRunning.
KillInactive(c) ==
  /\ cl[c].pc = "kill" /\ ~is_active(st.status)
  /\ Drop(c) /\ Unlock(c)
  /\ UNCHANGED <<exists, st, lockfile, pidfile, exitRec, runs, vmm, foreign>>

\* Mutant: the machine is settled without looking at its monitor.
KillSettleNoWait(c) == cl[c].pc = "kill" /\ is_active(st.status) /\ Settle(c)

KillSettle(c) ==
  /\ cl[c].pc = "kill" /\ is_active(st.status) /\ ~StoredMonitorAlive
  /\ Settle(c)

KillSignal(c) ==
  /\ cl[c].pc = "kill" /\ is_active(st.status) /\ StoredMonitorAlive
  /\ Signalled(st.pid, "kill")
  /\ \/ /\ st' \in StopRequested(st, Generation)
        /\ Goto(c, [cl[c] EXCEPT !.pc = "killWait", !.gen = Generation])
        /\ UNCHANGED mlock
     \/ UNCHANGED st /\ Drop(c) /\ Unlock(c)
  /\ UNCHANGED <<exists, lockfile, pidfile, exitRec, runs>>

\* Mutant: the Forced record is written before death is confirmed.
KillRecordEarly(c) ==
  /\ cl[c].pc = "killWait"
  /\ LET g == cl[c].gen
         own == exitRec # None /\ exitRec.run = g.run /\ exitRec.pid = g.pid
     IN exitRec' = IF own \/ g.run = None THEN exitRec
                   ELSE [run |-> g.run, pid |-> g.pid, clean |-> TRUE]
  /\ Goto(c, [cl[c] EXCEPT !.pc = "killFinish"])
  /\ UNCHANGED <<exists, st, lockfile, pidfile, mlock, runs, vmm, foreign>>

\* Mutant: the Forced record holds the start time where the pid belongs.
KillRecordSwapped(c) ==
  /\ cl[c].pc = "killWait" /\ ~ProcAlive(cl[c].gen.pid, cl[c].gen.started)
  /\ LET g == cl[c].gen
     IN exitRec' = [run |-> g.run, pid |-> g.started, clean |-> TRUE]
  /\ Goto(c, [cl[c] EXCEPT !.pc = "killFinish"])
  /\ UNCHANGED <<exists, st, lockfile, pidfile, mlock, runs, vmm, foreign>>

\* Death confirmed under the lock: write the Forced record unless this
\* generation left its own.
KillRecord(c) ==
  /\ cl[c].pc = "killWait" /\ ~ProcAlive(cl[c].gen.pid, cl[c].gen.started)
  /\ LET g == cl[c].gen
         own == exitRec # None /\ exitRec.run = g.run /\ exitRec.pid = g.pid
     IN exitRec' = IF own \/ g.run = None THEN exitRec
                   ELSE [run |-> g.run, pid |-> g.pid, clean |-> TRUE]
  /\ Goto(c, [cl[c] EXCEPT !.pc = "killFinish"])
  /\ UNCHANGED <<exists, st, lockfile, pidfile, mlock, runs, vmm, foreign>>

KillFinish(c) ==
  /\ cl[c].pc = "killFinish"
  /\ CompleteStop(cl[c].gen)
  /\ Drop(c) /\ Unlock(c)
  /\ UNCHANGED <<exists, exitRec, runs, vmm, foreign>>

\* wait_for_monitor_stop failed: the state stays Stopping.
KillTimesOut(c) ==
  /\ cl[c].pc = "killWait" /\ ProcAlive(cl[c].gen.pid, cl[c].gen.started)
  /\ Drop(c) /\ Unlock(c)
  /\ UNCHANGED <<exists, st, lockfile, pidfile, exitRec, runs, vmm, foreign>>

-----------------------------------------------------------------------------
(* wait_impl, remove_impl and the observers.                                *)

\* active_wait_target: wait for the persisted generation while it lives, and
\* otherwise reconcile (the caller polls again or reports the machine stopped).
WaitBegin(c, e) ==
  /\ "wait" \in Ops /\ Locks(c)
  /\ IF is_active(st.status) /\ StoredMonitorAlive
     THEN /\ require_run_id(st, e)
          /\ Goto(c, [cl[c] EXCEPT !.pc = "wait", !.exp = e, !.gen = Generation])
          /\ UNCHANGED <<st, lockfile>>
     ELSE /\ \E o \in observe_machine_state(ObserverLocks) : ReconcileTo(o)
          /\ UNCHANGED cl
  /\ UNCHANGED <<exists, pidfile, exitRec, mlock, runs, vmm, foreign>>

\* Mutant: the waiter cleans up whatever run is current.
WaitFinishAlwaysCleans(c) ==
  /\ cl[c].pc = "wait" /\ ~ProcAlive(cl[c].gen.pid, cl[c].gen.started)
  /\ mlock = None
  /\ IF exists
     THEN \E o \in observe_machine_state(ObserverLocks) : st' = o /\ RunTreeRemoved
     ELSE UNCHANGED <<st, lockfile, pidfile>>
  /\ Drop(c)
  /\ UNCHANGED <<exists, exitRec, mlock, runs, vmm, foreign>>

\* wait_for_target_exit without stop_requested; only an unfenced wait cleans up.
WaitFinish(c) ==
  /\ cl[c].pc = "wait" /\ ~ProcAlive(cl[c].gen.pid, cl[c].gen.started)
  /\ mlock = None
  /\ IF exists
     THEN \E o \in observe_machine_state(ObserverLocks) :
            /\ st' = o
            /\ IF cl[c].exp = None /\ ~is_active(o.status) THEN RunTreeRemoved
               ELSE lockfile' \in LockfileObserved /\ UNCHANGED pidfile
     ELSE UNCHANGED <<st, lockfile, pidfile>>
  /\ Drop(c)
  /\ UNCHANGED <<exists, exitRec, mlock, runs, vmm, foreign>>

WaitTimesOut(c) ==
  /\ cl[c].pc = "wait" /\ ProcAlive(cl[c].gen.pid, cl[c].gen.started)
  /\ Drop(c)
  /\ UNCHANGED <<exists, st, lockfile, pidfile, exitRec, mlock, runs, vmm, foreign>>

\* ensure_no_live_vmm_generation refuses any process with the stored pid; then
\* reconcile, require the expected exit, and remove the run tree.
RemoveBegin(c, e) ==
  /\ "remove" \in Ops /\ Locks(c)
  /\ st.pid # None => ~ProcAlive(st.pid, None)
  /\ \E o \in observe_machine_state(ObserverLocks) :
       IF ~is_active(o.status) /\ (e # None => exitRec # None /\ exitRec.run = e)
       THEN /\ st' = o
            /\ RunTreeRemoved
            /\ mlock' = c
            /\ Goto(c, [cl[c] EXCEPT !.pc = "remove", !.exp = e])
       ELSE ReconcileTo(o) /\ UNCHANGED <<pidfile, mlock, cl>>
  /\ UNCHANGED <<exists, exitRec, runs, vmm, foreign>>

\* Logs, data and rows go; a failure after the logs went leaves the rows.
RemoveRecords(c) ==
  /\ cl[c].pc = "remove"
  /\ exists' \in {TRUE, FALSE} /\ exitRec' = None
  /\ Drop(c) /\ Unlock(c)
  /\ UNCHANGED <<st, lockfile, pidfile, runs, vmm, foreign>>

\* reconcile_machine_runtime_locked of the configuration and session calls.
Reconcile(c) ==
  /\ "observe" \in Ops /\ Locks(c)
  /\ \E o \in observe_machine_state(ObserverLocks) : ReconcileTo(o)
  /\ UNCHANGED <<exists, pidfile, exitRec, mlock, runs, vmm, foreign, cl>>

\* The unlocked observation of reconcile_machine_runtime_best_effort (and of
\* inspection) holds the lifetime lock for a moment.
Peek(c) ==
  /\ "inspect" \in Ops /\ cl[c].pc = "idle" /\ exists
  /\ st.status = "Starting" /\ live_monitor_identity = None /\ ObserverLocks
  /\ lockfile' \in EnsureLockfile
  /\ Goto(c, [cl[c] EXCEPT !.pc = "peek", !.life = lockfile'])
  /\ UNCHANGED <<exists, st, pidfile, exitRec, mlock, runs, vmm, foreign>>

\* It lets go; an inspection ends here.
PeekDone(c) ==
  /\ cl[c].pc = "peek"
  /\ Drop(c) \/ Goto(c, [Idle EXCEPT !.pc = "peeked"])
  /\ UNCHANGED <<exists, st, lockfile, pidfile, exitRec, mlock, runs, vmm, foreign>>

\* The best-effort reconciliation then runs under the machine lock, if that is
\* free; the store refuses a state row for a removed machine.
PeekReconcile(c) ==
  /\ cl[c].pc = "peeked"
  /\ IF mlock = None /\ exists
     THEN \E o \in observe_machine_state(ObserverLocks) : ReconcileTo(o)
     ELSE UNCHANGED <<st, lockfile>>
  /\ Drop(c)
  /\ UNCHANGED <<exists, pidfile, exitRec, mlock, runs, vmm, foreign>>

\* The process dies: the kernel drops its locks.
ClientCrash(c) ==
  /\ cl[c].pc # "idle" /\ MayVanish(c)
  /\ Drop(c) /\ Unlock(c)
  /\ UNCHANGED <<exists, st, lockfile, pidfile, exitRec, runs, vmm, foreign>>

-----------------------------------------------------------------------------
(* The monitor of run r.                                                    *)

VmmStep(r, from, to) == /\ vmm[r].phase \in from /\ vmm[r].sig # "kill"
                        /\ Becomes(r, [vmm[r] EXCEPT !.phase = to])

\* PidGuard::create writes vm.pid by path; without a run tree startup fails.
VmmWritesPidfile(r) ==
  /\ lockfile # 0
  /\ VmmStep(r, {"spawned"}, "armed")
  /\ pidfile' = vmm[r].pid
  /\ UNCHANGED <<exists, st, lockfile, exitRec, mlock, runs, foreign, cl>>

\* The start request arrived: the VM boots.
VmmBoots(r) ==
  /\ vmm[r].req
  /\ VmmStep(r, {"armed"}, "booted")
  /\ UNCHANGED <<exists, st, lockfile, pidfile, exitRec, mlock, runs, foreign, cl>>

\* report_started fails when the starter has closed the sync pipe.
VmmReports(r) ==
  /\ \E c \in Client : cl[c].pc = "await" /\ cl[c].run = r
  /\ vmm[r].phase = "booted" /\ vmm[r].sig # "kill"
  /\ Becomes(r, [vmm[r] EXCEPT !.phase = "up", !.told = TRUE])
  /\ UNCHANGED <<exists, st, lockfile, pidfile, exitRec, mlock, runs, foreign, cl>>

\* The VM is stopped and reaped: guest exit, signal, failed startup or a lost
\* starter.
VmmEnds(r) ==
  /\ vmm[r].phase \in {"armed", "booted", "up"} /\ vmm[r].sig # "kill"
  /\ \E clean \in BOOLEAN :
       Becomes(r, [vmm[r] EXCEPT !.phase = "ended", !.clean = clean])
  /\ UNCHANGED <<exists, st, lockfile, pidfile, exitRec, mlock, runs, foreign, cl>>

\* Finalization: the exit record (a failed write is only logged) ...
VmmRecordsExit(r) ==
  /\ VmmStep(r, {"ended"}, "recorded")
  /\ \/ exists /\ exitRec' = [run |-> r, pid |-> vmm[r].pid, clean |-> vmm[r].clean]
     \/ UNCHANGED exitRec
  /\ UNCHANGED <<exists, st, lockfile, pidfile, mlock, runs, foreign, cl>>

\* ... then vm.pid is unlinked by path ...
VmmUnlinksPidfile(r) ==
  /\ VmmStep(r, {"recorded"}, "unlinked")
  /\ pidfile' = None
  /\ UNCHANGED <<exists, st, lockfile, exitRec, mlock, runs, foreign, cl>>

\* ... and the process exits, or dies at any point; the kernel drops vm.lock.
VmmDies(r) ==
  /\ Alive(r)
  /\ Becomes(r, [NoVmm EXCEPT !.phase = "dead", !.told = vmm[r].told])
  /\ UNCHANGED <<exists, st, lockfile, pidfile, exitRec, mlock, runs, foreign, cl>>

\* Unrelated processes come and go.
HostProcess(p) ==
  /\ p \notin {vmm[r].pid : r \in Run}
  /\ foreign' = IF p \in foreign THEN foreign \ {p} ELSE foreign \cup {p}
  /\ UNCHANGED <<exists, st, lockfile, pidfile, exitRec, mlock, runs, vmm, cl>>

-----------------------------------------------------------------------------
Init == /\ exists = TRUE
        /\ st = stopped_machine_state
        /\ lockfile = 0 /\ pidfile = None /\ exitRec = None
        /\ mlock = None
        /\ runs = 0
        /\ vmm = [r \in Run |-> NoVmm]
        /\ foreign = {}
        /\ cl = [c \in Client |-> Idle]

Starter(c) == \/ StartBegin(c) \/ StartRefused(c) \/ PrepareFails(c) \/ Spawn(c)
              \/ Handoff(c) \/ StartTimesOut(c) \/ StartReady(c) \/ FailedStart(c)
              \/ ReapKill(c) \/ ReapDone(c) \/ ReapGivesUp(c)

Stopper(c) == \/ \E e \in ExpectedRun : StopBegin(c, e) \/ KillBegin(c, e)
              \/ StopSettle(c) \/ StopSignal(c) \/ StopFinish(c) \/ StopTimesOut(c)
              \/ Escalate(c) \/ KillInactive(c) \/ KillSettle(c) \/ KillSignal(c)
              \/ KillRecord(c) \/ KillFinish(c) \/ KillTimesOut(c)

Observer(c) == \/ \E e \in ExpectedRun : WaitBegin(c, e) \/ RemoveBegin(c, e)
               \/ WaitFinish(c) \/ WaitTimesOut(c) \/ RemoveRecords(c)
               \/ Reconcile(c) \/ Peek(c) \/ PeekDone(c) \/ PeekReconcile(c)

Monitor(r) == \/ VmmWritesPidfile(r) \/ VmmBoots(r) \/ VmmReports(r) \/ VmmEnds(r)
              \/ VmmRecordsExit(r) \/ VmmUnlinksPidfile(r) \/ VmmDies(r)

Next == \/ \E c \in Client : Starter(c) \/ Stopper(c) \/ Observer(c) \/ ClientCrash(c)
        \/ \E r \in Run : Monitor(r)
        \/ \E p \in ForeignPid : HostProcess(p)

Spec == Init /\ [][Next]_vars

\* The starter of run r has closed its end of the sync pipe.
StarterGone(r) == \A c \in Client : cl[c].run = r => cl[c].pc \notin {"handoff", "await"}

(***************************************************************************)
(* A client inside an operation keeps going, and clients keep reconciling: *)
(* they block in flock for the machine lock, so one that keeps being       *)
(* released is granted in the end.  A monitor writes its pidfile, obeys a  *)
(* signal, notices a lost starter while it starts up, and finalizes; a VM  *)
(* that is up may run for ever.                                            *)
(***************************************************************************)
Fairness ==
  /\ \A c \in Client :
       /\ WF_vars(cl[c].pc # "idle" /\ (Starter(c) \/ Stopper(c) \/ Observer(c)))
       /\ SF_vars(Reconcile(c))
  /\ \A r \in Run :
       /\ WF_vars(VmmWritesPidfile(r))
       /\ WF_vars(vmm[r].sig = "int" /\ VmmEnds(r))
       /\ WF_vars(StarterGone(r) /\ vmm[r].phase \in {"armed", "booted"} /\ VmmEnds(r))
       /\ WF_vars(VmmRecordsExit(r) \/ VmmUnlinksPidfile(r))
       /\ WF_vars((vmm[r].phase = "unlinked" \/ vmm[r].sig = "kill") /\ VmmDies(r))

FairSpec == Spec /\ Fairness

-----------------------------------------------------------------------------
(* Properties.                                                              *)

Generations == [pid : Pid \cup {None}, started : Run \cup {0, None}, run : Run \cup {None}]

PCs == {"idle", "refused", "prepare", "handoff", "await", "failed", "reaping", "stop",
        "stopWait", "escalate", "kill", "killWait", "killFinish", "wait", "remove", "peek",
        "peeked"}

Phases == {"none", "spawned", "armed", "booted", "up", "ended", "recorded", "unlinked", "dead"}

StateRows == [status : Statuses, pid : Pid \cup {None}, started : Run \cup {0, None},
              run : Run \cup {None}]

Monitors == [phase : Phases, pid : Pid \cup {None}, ino : Ino \cup {0}, req : BOOLEAN,
             told : BOOLEAN, sig : {"none", "int", "kill"}, clean : BOOLEAN]

ClientStates == [pc : PCs, exp : Run \cup {None}, gen : Generations, life : Ino \cup {0},
                 run : Run \cup {0}, fail : {"Stopped", "Error"}]

\* Every variable has its type.
TypeOK ==
  /\ exists \in BOOLEAN
  /\ st \in StateRows
  /\ lockfile \in Ino \cup {0}
  /\ pidfile \in Pid \cup {None}
  /\ exitRec \in [run : Run, pid : Pid, clean : BOOLEAN] \cup {None}
  /\ mlock \in Client \cup {None}
  /\ runs \in 0 .. MaxRuns
  /\ vmm \in [Run -> Monitors]
  /\ foreign \subseteq ForeignPid
  /\ cl \in [Client -> ClientStates]

\* The machine is never started twice: at most one monitor has a VM up
\* (the lifetime lock of start_with_options and silo-vmm).
AtMostOneVM == \A r, q \in Run : VMLive(r) /\ VMLive(q) => r = q

\* A start gets past the lifetime lock and the reconciliation only when no
\* earlier monitor has a VM or holds the request to boot one.
StartsAlone ==
  [][runs' # runs
       => \A r \in Run : /\ ~VMLive(r)
                         /\ vmm[r].phase \in {"spawned", "armed"} => ~vmm[r].req]_vars

\* A live VM is always the run the stored state names, and that state is
\* active: no reconciliation, failed start, stop or removal by another client
\* ever writes a running VM off.
LiveVMIsTracked ==
  \A r \in Run : VMLive(r) => exists /\ is_active(st.status) /\ st.run = r

\* The exit record of a run, forced or its own, exists only once its VM is
\* over (the run fence of kill_impl and the order of finalization).
ExitRecordIsFinal == exitRec # None => ~VMLive(exitRec.run)

\* cleanup_machine_resources_locked never removes the run tree, and with it
\* vm.lock, under a live VM.
RunTreeOutlivesVM ==
  [][lockfile # 0 /\ lockfile' = 0 => \A r \in Run : ~VMLive(r)]_vars

\* An operation fenced to a run (stop_run, kill_run, or the kill a timed-out
\* stop escalates to) delivers its signal to that run's monitor only.
FencedSignals ==
  [][\A c \in Client, r \in Run :
       /\ cl[c].pc \in {"stop", "kill"} /\ cl[c].exp # None
       /\ cl'[c].pc \in {"stopWait", "killWait"}
       /\ vmm'[r].sig # vmm[r].sig
       => r = cl[c].exp]_vars

\* A stop that was requested completes: Stopping never stays for good, even
\* if the client that asked for the stop or the monitor dies on the way.
StopSettles == st.status = "Stopping" ~> st.status # "Stopping"

\* Every start resolves: it leaves Starting, or its VM is up.  A crash of the
\* starter at any point is found by whoever reconciles next.
StartSettles ==
  st.status = "Starting" ~> st.status # "Starting" \/ \E r \in Run : vmm[r].phase = "up"

=============================================================================
