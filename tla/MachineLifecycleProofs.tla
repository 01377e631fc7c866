------------------------ MODULE MachineLifecycleProofs ------------------------
(***************************************************************************)
(* A live VM is always tracked, for any number of clients, runs and pids,  *)
(* provided that no unrelated process reuses a monitor's pid and that no   *)
(* starter vanishes before its monitor wrote vm.pid.  lifecycle_pid_reuse  *)
(* checks a small instance without the first proviso, and lifecycle_orphan *)
(* shows what the second one excludes.                                     *)
(***************************************************************************)
EXTENDS MachineLifecycle, TLAPS

Provisos == ForeignPid = {} /\ OrphanWindow = FALSE

-----------------------------------------------------------------------------
(* The inductive invariant.                                                 *)

StarterPCs == {"prepare", "handoff", "await", "failed", "reaping"}
LockedPCs == StarterPCs \cup {"stop", "kill", "killWait", "killFinish", "remove"}

\* The monitor of r has written vm.pid and has not unlinked it.
Armed(r) == vmm[r].phase \in {"armed", "booted", "up", "ended", "recorded"}

\* The machine lock is held exactly inside the locked parts of the operations.
Holder == \A c \in Client : /\ cl[c].pc \in LockedPCs <=> mlock = c
                            /\ cl[c].pc \in LockedPCs => exists

\* A starter owns the stored state and the newest run.
StarterOwns == \A c \in Client : cl[c].pc \in StarterPCs =>
                 /\ st.status = "Starting" /\ st.run = cl[c].run
                 /\ cl[c].run = runs /\ runs \in Run
                 /\ cl[c].pc = "prepare" => vmm[runs].phase = "none"

\* A reaper's target is the monitor of its own run.
ReaperTarget == \A c \in Client : cl[c].pc = "reaping" =>
                  /\ cl[c].gen.started = cl[c].run
                  /\ Alive(cl[c].run) => vmm[cl[c].run].pid = cl[c].gen.pid

\* A monitor without a pidfile has reported nothing and its starter waits for
\* it.
SpawnedAwaited == \A r \in Run : vmm[r].phase = "spawned" =>
                    /\ ~vmm[r].told
                    /\ \E c \in Client : cl[c].pc \in {"handoff", "await"} /\ cl[c].run = r

\* An armed monitor is the one the stored state and vm.pid name.
ArmedTracked == \A r \in Run : Armed(r) =>
                  exists /\ is_active(st.status) /\ st.run = r /\ pidfile = vmm[r].pid

\* A stop or kill decides on the state it has just reconciled.
ReconciledState == \A c \in Client, r \in Run : cl[c].pc \in {"stop", "kill"} /\ Armed(r) =>
                     st.pid = vmm[r].pid /\ st.started = r

\* The stored pid is the pid of the stored run's monitor.
StoredGeneration == st.pid # None =>
                      /\ st.run \in Run /\ st.started = st.run
                      /\ vmm[st.run].phase # "none"
                      /\ Alive(st.run) => vmm[st.run].pid = st.pid

StoredStart == st.started # None => st.pid # None

\* An unlinked monitor is no longer named by vm.pid.
UnlinkedGone == \A r \in Run : vmm[r].phase = "unlinked" => pidfile # vmm[r].pid

\* Live monitors have pids, all different; the others have none.
DistinctPids == /\ \A r \in Run : Alive(r) <=> vmm[r].pid # None
                /\ \A r, q \in Run : Alive(r) /\ vmm[r].pid = vmm[q].pid => r = q

\* Runs not drawn yet have no monitor.
FutureRuns == \A r \in Run : r > runs => vmm[r].phase = "none"

\* A recorded run is over.
RecordedOver == exitRec # None => vmm[exitRec.run].phase \in {"recorded", "unlinked", "dead"}

\* A killer waits for the stored generation.
KillerTarget == \A c \in Client : cl[c].pc \in {"killWait", "killFinish"} =>
                  cl[c].gen = Generation /\ st.pid # None

\* A stop waits for a pinned process.
StopperTarget == \A c \in Client : cl[c].pc = "stopWait" => cl[c].gen.pid # None

\* A machine being removed is inactive.
RemovedInactive == \A c \in Client : cl[c].pc = "remove" => ~is_active(st.status)

LifecycleInv ==
  /\ TypeOK /\ foreign = {}
  /\ Holder /\ StarterOwns /\ ReaperTarget /\ SpawnedAwaited /\ ArmedTracked
  /\ ReconciledState /\ StoredGeneration /\ StoredStart /\ UnlinkedGone
  /\ DistinctPids /\ FutureRuns /\ RecordedOver /\ KillerTarget /\ RemovedInactive
  /\ StopperTarget

-----------------------------------------------------------------------------
(* The stored state s and the pidfile content pf agree with the monitors.   *)
Fits(s, pf) ==
  /\ s \in StateRows
  /\ pf \in Pid \cup {None}
  /\ \A r \in Run : Armed(r) => exists /\ is_active(s.status) /\ s.run = r /\ pf = vmm[r].pid
  /\ s.pid # None => /\ s.run \in Run /\ s.started = s.run
                     /\ vmm[s.run].phase # "none"
                     /\ Alive(s.run) => vmm[s.run].pid = s.pid
  /\ s.started # None => s.pid # None
  /\ \A r \in Run : vmm[r].phase = "unlinked" => pf # vmm[r].pid

\* The invariant holds initially: there is no monitor and no client is busy.
LEMMA LifecycleInit == Provisos /\ Init => LifecycleInv
<1> SUFFICES ASSUME Provisos, Init PROVE LifecycleInv
  BY Zenon
<1> USE LifecycleAssumption
<1>1. TypeOK
  BY DEF Init, TypeOK, StateRows, Monitors, ClientStates, Generations, PCs, Phases, Statuses,
         stopped_machine_state, replace_runtime, NoVmm, Idle, NoGen, Run, Ino
<1>2. /\ foreign = {} /\ Holder /\ StarterOwns /\ ReaperTarget /\ KillerTarget
      /\ RemovedInactive /\ ReconciledState /\ StopperTarget
  BY Zenon DEF Init, StopperTarget, Holder, StarterOwns, ReaperTarget, KillerTarget, RemovedInactive,
         ReconciledState, Idle, LockedPCs, StarterPCs
<1>3. /\ SpawnedAwaited /\ ArmedTracked /\ StoredGeneration /\ StoredStart /\ UnlinkedGone
      /\ DistinctPids /\ FutureRuns /\ RecordedOver
  BY Zenon DEF Init, SpawnedAwaited, ArmedTracked, StoredGeneration, StoredStart, UnlinkedGone,
         DistinctPids, FutureRuns, RecordedOver, Armed, Alive, NoVmm, stopped_machine_state,
         replace_runtime
<1> QED BY <1>1, <1>2, <1>3, Zenon DEF LifecycleInv

\* A process behind a pid is the monitor with that pid, whose start time is its
\* run.
LEMMA ProcIsMonitor ==
  ASSUME LifecycleInv, NEW p \in Pid, NEW s, ProcAlive(p, s)
  PROVE  \E r \in Run : /\ Alive(r) /\ vmm[r].pid = p /\ StartedAt(p) = r
                        /\ s \in {None, r}
<1>1. foreign = {}
  BY Zenon DEF LifecycleInv
<1>2. PICK r \in Run : Alive(r) /\ vmm[r].pid = p /\ s \in {None, r}
  BY <1>1, Zenon DEF ProcAlive
<1>3. StartedAt(p) = CHOOSE q \in Run : Alive(q) /\ vmm[q].pid = p
  BY <1>1, Zenon DEF StartedAt
<1>4. \A q \in Run : Alive(q) /\ vmm[q].pid = p => q = r
  BY <1>2, Zenon DEF LifecycleInv, DistinctPids
<1>5. StartedAt(p) = r
  BY <1>2, <1>3, <1>4, Zenon
<1> QED BY <1>2, <1>5, Zenon

\* While the machine lock is free there is no monitor without a pidfile.
LEMMA NoneSpawned ==
  ASSUME LifecycleInv, mlock = None
  PROVE  \A r \in Run : vmm[r].phase # "spawned"
<1> USE LifecycleAssumption
<1>1. \A c \in Client : cl[c].pc \notin LockedPCs
  BY Zenon DEF LifecycleInv, Holder
<1> QED BY <1>1, Zenon DEF LifecycleInv, SpawnedAwaited, LockedPCs, StarterPCs

\* A live process vm.pid names is the monitor of the stored run.
LEMMA PidfileNames ==
  ASSUME LifecycleInv, pidfile # None, ProcAlive(pidfile, None),
         \A r \in Run : vmm[r].phase = "spawned" => st.run = r
  PROVE  /\ st.run \in Run /\ Alive(st.run) /\ vmm[st.run].pid = pidfile
         /\ StartedAt(pidfile) = st.run
<1>1. pidfile \in Pid
  BY Zenon DEF LifecycleInv, TypeOK
<1>2. PICK r \in Run : Alive(r) /\ vmm[r].pid = pidfile /\ StartedAt(pidfile) = r
  BY <1>1, ProcIsMonitor, Zenon
<1>3. vmm[r].phase \in Phases
  BY Zenon DEF LifecycleInv, TypeOK, Monitors
<1>4. vmm[r].phase # "unlinked"
  BY <1>2, Zenon DEF LifecycleInv, UnlinkedGone
<1>5. Armed(r) \/ vmm[r].phase = "spawned"
  BY <1>2, <1>3, <1>4, Zenon DEF Phases, Armed, Alive
<1>6. st.run = r
  BY <1>5, Zenon DEF LifecycleInv, ArmedTracked
<1> QED BY <1>2, <1>6, Zenon

\* live_monitor_identity finds the monitor of the stored run or nobody, and it
\* finds every armed monitor.
LEMMA LiveIdentity ==
  ASSUME LifecycleInv, mlock = None
  PROVE  /\ live_monitor_identity # None =>
              /\ live_monitor_identity \in Pid
              /\ st.run \in Run /\ Alive(st.run)
              /\ vmm[st.run].pid = live_monitor_identity
              /\ StartedAt(live_monitor_identity) = st.run
         /\ \A r \in Run : Armed(r) => live_monitor_identity # None /\ st.run = r
<1> USE LifecycleAssumption
<1>a. /\ pidfile \in Pid \cup {None} /\ st.pid \in Pid \cup {None}
      /\ st.started \in Run \cup {0, None}
      /\ \A r \in Run : vmm[r].phase # "spawned"
  BY NoneSpawned, Zenon DEF LifecycleInv, TypeOK, StateRows
<1>1. \A p, s : ProcAlive(p, s) => ProcAlive(p, None)
  BY Zenon DEF ProcAlive
<1>2. CASE pidfile # None /\ MatchesGeneration(pidfile)
  <2>1. live_monitor_identity = pidfile /\ ProcAlive(pidfile, None)
    BY <1>1, <1>2, Zenon DEF live_monitor_identity, MatchesGeneration
  <2>2. /\ st.run \in Run /\ Alive(st.run) /\ vmm[st.run].pid = pidfile
        /\ StartedAt(pidfile) = st.run
    BY <1>a, <1>2, <2>1, PidfileNames, Zenon
  <2> QED BY <1>a, <1>2, <2>1, <2>2, Zenon DEF LifecycleInv, ArmedTracked
<1>3. CASE ~(pidfile # None /\ MatchesGeneration(pidfile))
  <2>1. \A r \in Run : ~Armed(r)
    <3> SUFFICES ASSUME NEW r \in Run, Armed(r) PROVE FALSE
      BY Zenon
    <3>1. pidfile = vmm[r].pid /\ st.run = r /\ Alive(r) /\ pidfile # None
      BY Zenon DEF LifecycleInv, ArmedTracked, Armed, Alive, DistinctPids
    <3>2. st.started \in {None, r}
      BY <3>1, Zenon DEF LifecycleInv, StoredStart, StoredGeneration
    <3>3. ProcAlive(pidfile, st.started)
      BY <3>1, <3>2, Zenon DEF ProcAlive
    <3> QED BY <1>3, <3>1, <3>3, Zenon DEF MatchesGeneration
  <2>2. CASE st.pid # None /\ MatchesGeneration(st.pid)
    <3>1. live_monitor_identity = st.pid
      BY <1>3, <2>2, Zenon DEF live_monitor_identity
    <3>2. ProcAlive(st.pid, None)
      BY <1>1, <2>2, Zenon DEF MatchesGeneration
    <3>3. st.started = st.run /\ st.run \in Run
      BY <2>2, Zenon DEF LifecycleInv, StoredGeneration
    <3>4. ProcAlive(st.pid, st.run)
      BY <2>2, <3>3, Zenon DEF MatchesGeneration, Run
    <3>5. PICK r \in Run : /\ Alive(r) /\ vmm[r].pid = st.pid /\ StartedAt(st.pid) = r
                           /\ st.run \in {None, r}
      BY <1>a, <2>2, <3>4, ProcIsMonitor, ZenonT(30)
    <3>6. st.run = r
      BY <3>3, <3>5 DEF Run
    <3> QED BY <1>a, <2>1, <2>2, <3>1, <3>5, <3>6, Zenon
  <2>3. CASE ~(st.pid # None /\ MatchesGeneration(st.pid))
    BY <1>3, <2>1, <2>3, Zenon DEF live_monitor_identity
  <2> QED BY <2>2, <2>3, Zenon
<1> QED BY <1>2, <1>3, Zenon

\* Whatever a reconciliation under the machine lock writes fits the monitors,
\* and it pins the identity of an armed one.
LEMMA ObservedFits ==
  ASSUME LifecycleInv, mlock = None, exists,
         NEW b \in BOOLEAN, NEW o \in observe_machine_state(b)
  PROVE  /\ Fits(o, pidfile)
         /\ \A r \in Run : Armed(r) => o.pid = vmm[r].pid /\ o.started = r
<1> USE LifecycleAssumption
<1> DEFINE live == live_monitor_identity
<1>a. /\ st \in StateRows /\ pidfile \in Pid \cup {None}
      /\ \A r \in Run : vmm[r].phase = "unlinked" => pidfile # vmm[r].pid
      /\ exitRec # None => exitRec.clean \in BOOLEAN
  BY Zenon DEF LifecycleInv, TypeOK, UnlinkedGone
<1>1. CASE live # None
  <2>1. /\ live \in Pid /\ st.run \in Run /\ Alive(st.run) /\ vmm[st.run].pid = live
        /\ StartedAt(live) = st.run
    BY <1>1, LiveIdentity, Zenon
  <2>2. o \in MonitorObserved(st, live, st.run, st.run)
    BY <1>1, <2>1, Zenon DEF observe_machine_state
  <2>3. /\ o \in StateRows /\ o.pid = live /\ o.started = st.run /\ o.run = st.run
        /\ is_active(o.status)
    BY <1>a, <2>1, <2>2 DEF MonitorObserved, replace_runtime, StateRows, Statuses, is_active
  <2>4. \A r \in Run : Armed(r) => st.run = r /\ pidfile = vmm[r].pid
    BY Zenon DEF LifecycleInv, ArmedTracked
  <2> QED BY <1>a, <2>1, <2>3, <2>4, Zenon DEF Fits, Alive
<1>2. CASE live = None
  <2>1. \A r \in Run : ~Armed(r)
    BY <1>2, LiveIdentity, Zenon
  <2>2. o \in StateRows /\ o.pid = None /\ o.started = None
    <3>1. o \in ExitObserved(exitRec.clean) \cup MonitorGone(st) \cup StartTimedOut(st)
              \cup {replace_runtime(st.status, None, None, st.run)}
      BY <1>2, Zenon DEF observe_machine_state
    <3> QED BY <1>a, <3>1 DEF ExitObserved, MonitorGone, StartTimedOut, replace_runtime,
                              StateRows, Statuses
  <2> QED BY <1>a, <2>1, <2>2, Zenon DEF Fits
<1> QED BY <1>1, <1>2, Zenon

\* A client that ends its locked part (or never had the lock) with a state and
\* a pidfile that fit keeps the invariant, also if it removes the machine.
LEMMA WriteKeeps ==
  ASSUME LifecycleInv, NEW c \in Client, mlock \in {None, c},
         \A r \in Run : vmm[r].phase # "spawned",
         Fits(st', pidfile'),
         NEW n \in ClientStates, n.pc \notin LockedPCs \cup {"stopWait"}, Goto(c, n),
         mlock' = None, lockfile' \in Ino \cup {0},
         \/ UNCHANGED <<exists, exitRec>>
         \/ exists' \in BOOLEAN /\ exitRec' = None /\ \A r \in Run : ~Armed(r),
         UNCHANGED <<runs, vmm, foreign>>
  PROVE  LifecycleInv'
<1> USE LifecycleAssumption
<1>a. /\ cl' \in [Client -> ClientStates] /\ cl'[c] = n
      /\ \A d \in Client \ {c} : cl'[d] = cl[d]
      /\ \A r \in Run : vmm'[r] = vmm[r]
  BY Zenon DEF Goto, LifecycleInv, TypeOK
<1>1. \A d \in Client : cl'[d].pc \notin LockedPCs
  BY <1>a, Zenon DEF LifecycleInv, Holder
<1>2. TypeOK' /\ foreign' = {}
  BY <1>a, Zenon DEF LifecycleInv, TypeOK, Fits
<1>3. Holder' /\ StarterOwns' /\ ReaperTarget' /\ KillerTarget' /\ RemovedInactive'
      /\ ReconciledState' /\ StopperTarget'
  <2>1. Holder'
    <3>1. \A d \in Client : d # None
      BY Zenon
    <3> QED BY <1>1, <3>1, Zenon DEF Holder
  <2>2. StarterOwns' /\ ReaperTarget'
    BY <1>1, Zenon DEF StarterOwns, ReaperTarget, LockedPCs, StarterPCs
  <2>3. KillerTarget' /\ RemovedInactive' /\ ReconciledState'
    BY <1>1, Zenon DEF KillerTarget, RemovedInactive, ReconciledState, LockedPCs
  <2>4. StopperTarget'
    <3>1. StopperTarget
      BY Zenon DEF LifecycleInv
    <3> QED BY <1>a, <3>1, Zenon DEF StopperTarget
  <2> QED BY <2>1, <2>2, <2>3, <2>4, Zenon
<1>4. SpawnedAwaited' /\ DistinctPids' /\ FutureRuns' /\ RecordedOver'
  BY Zenon DEF LifecycleInv, SpawnedAwaited, DistinctPids, FutureRuns, RecordedOver, Alive
<1>5. ArmedTracked' /\ StoredGeneration' /\ StoredStart' /\ UnlinkedGone'
  BY DEF Fits, ArmedTracked, StoredGeneration, StoredStart, UnlinkedGone, Armed, Alive
<1> QED BY <1>2, <1>3, <1>4, <1>5, Zenon DEF LifecycleInv

\* A client outside the lock, or letting go of it, that changes only its own
\* locals keeps the invariant.
LEMMA LocalKeeps ==
  ASSUME LifecycleInv, NEW c \in Client, ~InOrphanWindow(c),
         NEW n \in ClientStates, n.pc \notin LockedPCs \cup {"stopWait"}, Goto(c, n), Unlock(c),
         lockfile' \in Ino \cup {0},
         UNCHANGED <<exists, st, pidfile, exitRec, runs, vmm, foreign>>
  PROVE  LifecycleInv'
<1> USE LifecycleAssumption
<1>a. /\ cl' \in [Client -> ClientStates] /\ cl'[c] = n
      /\ \A d \in Client \ {c} : cl'[d] = cl[d]
  BY Zenon DEF Goto, LifecycleInv, TypeOK
<1>1. TypeOK' /\ foreign' = {}
  BY <1>a, Zenon DEF LifecycleInv, TypeOK, Unlock
<1>2. Holder'
  BY <1>a, Zenon DEF LifecycleInv, Holder, Unlock, TypeOK
<1>3. SpawnedAwaited'
  <2> SUFFICES ASSUME NEW r \in Run, vmm[r].phase = "spawned"
               PROVE  \E d \in Client : cl'[d].pc \in {"handoff", "await"} /\ cl'[d].run = r
    BY Zenon DEF SpawnedAwaited, LifecycleInv
  <2>1. PICK d \in Client : cl[d].pc \in {"handoff", "await"} /\ cl[d].run = r
    BY Zenon DEF LifecycleInv, SpawnedAwaited
  <2>2. d # c
    BY <2>1, Zenon DEF InOrphanWindow
  <2> QED BY <1>a, <2>1, <2>2, Zenon
<1>4. /\ StarterOwns' /\ ReaperTarget' /\ KillerTarget' /\ RemovedInactive'
      /\ ReconciledState' /\ StopperTarget'
  <2>1. \A d \in Client : cl'[d].pc \in LockedPCs \cup {"stopWait"} => cl'[d] = cl[d]
    BY <1>a, Zenon
  <2>2. StarterOwns' /\ ReaperTarget'
    <3>1. StarterOwns /\ ReaperTarget
      BY Zenon DEF LifecycleInv
    <3> QED BY <2>1, <3>1, ZenonT(30) DEF StarterOwns, ReaperTarget, LockedPCs, StarterPCs, Alive
  <2>3. KillerTarget' /\ RemovedInactive'
    <3>1. KillerTarget /\ RemovedInactive
      BY Zenon DEF LifecycleInv
    <3> QED BY <2>1, <3>1, Zenon DEF KillerTarget, RemovedInactive, LockedPCs, Generation
  <2>4. ReconciledState' /\ StopperTarget'
    <3>1. ReconciledState /\ StopperTarget
      BY Zenon DEF LifecycleInv
    <3> QED BY <2>1, <3>1, Zenon DEF ReconciledState, StopperTarget, LockedPCs, Armed
  <2> QED BY <2>2, <2>3, <2>4, Zenon
<1>5. /\ DistinctPids' /\ FutureRuns' /\ RecordedOver' /\ ArmedTracked' /\ StoredGeneration'
      /\ StoredStart' /\ UnlinkedGone'
  BY Zenon DEF LifecycleInv, DistinctPids, FutureRuns, RecordedOver, Alive, ArmedTracked, Armed,
         StoredGeneration, StoredStart, UnlinkedGone
<1> QED BY <1>1, <1>2, <1>3, <1>4, <1>5, Zenon DEF LifecycleInv

-----------------------------------------------------------------------------
(* The actions.                                                             *)

LEMMA IdleLocals == Idle \in ClientStates /\ Idle.pc = "idle" /\ "idle" \notin LockedPCs \cup {"stopWait"}
BY LifecycleAssumption, Zenon DEF Idle, ClientStates, NoGen, Generations, PCs, LockedPCs, StarterPCs

\* Outside the locked parts a client does not hold the machine lock.
LEMMA OutsideUnlocked ==
  ASSUME LifecycleInv, NEW c \in Client, cl[c].pc \notin LockedPCs, mlock' = mlock
  PROVE  Unlock(c) /\ ~InOrphanWindow(c) /\ mlock # c
BY LifecycleAssumption, Zenon DEF LifecycleInv, Holder, Unlock, InOrphanWindow, LockedPCs, StarterPCs

\* Giving up, timing out or crashing outside the orphan window.
LEMMA LeavingKeeps ==
  ASSUME Provisos, LifecycleInv, NEW c \in Client,
         \/ StartRefused(c) \/ ReapGivesUp(c) \/ StopTimesOut(c) \/ KillInactive(c)
         \/ KillTimesOut(c) \/ WaitTimesOut(c) \/ PeekDone(c) \/ ClientCrash(c)
  PROVE  LifecycleInv'
<1> USE LifecycleAssumption
<1>1. /\ lockfile' \in Ino \cup {0}
      /\ UNCHANGED <<exists, st, pidfile, exitRec, runs, vmm, foreign>>
  BY Zenon DEF StartRefused, ReapGivesUp, StopTimesOut, KillInactive, KillTimesOut, WaitTimesOut,
         PeekDone, ClientCrash, LifecycleInv, TypeOK
<1>2. Unlock(c) /\ ~InOrphanWindow(c)
  <2>1. CASE ReapGivesUp(c) \/ KillInactive(c) \/ KillTimesOut(c)
    BY <2>1, Zenon DEF ReapGivesUp, KillInactive, KillTimesOut, InOrphanWindow
  <2>2. CASE ClientCrash(c)
    BY <2>2, Zenon DEF ClientCrash, MayVanish, Provisos
  <2>3. CASE StartRefused(c) \/ StopTimesOut(c) \/ WaitTimesOut(c) \/ PeekDone(c)
    <3>1. cl[c].pc \notin LockedPCs /\ mlock' = mlock
      BY <2>3, Zenon DEF StartRefused, StopTimesOut, WaitTimesOut, PeekDone, LockedPCs, StarterPCs
    <3> QED BY <3>1, OutsideUnlocked, Zenon
  <2> QED BY <2>1, <2>2, <2>3, Zenon
<1>3. \E n \in ClientStates : n.pc \notin LockedPCs \cup {"stopWait"} /\ Goto(c, n)
  <2>1. CASE Drop(c)
    BY <2>1, IdleLocals, Zenon DEF Drop
  <2>2. CASE ~Drop(c) /\ StopTimesOut(c)
    <3> DEFINE n == [Idle EXCEPT !.pc = "escalate", !.exp = cl[c].gen.run]
    <3>1. Goto(c, n)
      BY <2>2, Zenon DEF StopTimesOut
    <3>2. cl[c].gen.run \in Run \cup {None}
      BY Zenon DEF LifecycleInv, TypeOK, ClientStates, Generations
    <3>3. n \in ClientStates /\ n.pc = "escalate"
      BY <3>2, IdleLocals, Zenon DEF ClientStates, PCs
    <3> QED BY <3>1, <3>3, Zenon DEF LockedPCs, StarterPCs
  <2>3. CASE ~Drop(c) /\ PeekDone(c)
    <3> DEFINE n == [Idle EXCEPT !.pc = "peeked"]
    <3>1. Goto(c, n)
      BY <2>3, Zenon DEF PeekDone
    <3>2. n \in ClientStates /\ n.pc = "peeked"
      BY IdleLocals, Zenon DEF ClientStates, PCs
    <3> QED BY <3>1, <3>2, Zenon DEF LockedPCs, StarterPCs
  <2> QED BY <2>1, <2>2, <2>3, Zenon DEF StartRefused, ReapGivesUp, KillInactive, KillTimesOut,
                                  WaitTimesOut, ClientCrash
<1> QED BY <1>1, <1>2, <1>3, LocalKeeps, Zenon

\* An operation that takes and releases the lock in one step, writing what it
\* observed.
LEMMA ReconcileKeeps ==
  ASSUME LifecycleInv, NEW c \in Client, mlock = None, exists,
         NEW b \in BOOLEAN, NEW o \in observe_machine_state(b), st' = o,
         NEW n \in ClientStates, n.pc \notin LockedPCs \cup {"stopWait"}, Goto(c, n),
         lockfile' \in Ino \cup {0},
         UNCHANGED <<exists, pidfile, exitRec, mlock, runs, vmm, foreign>>
  PROVE  LifecycleInv'
<1>1. Fits(st', pidfile')
  BY ObservedFits, Zenon
<1> QED BY <1>1, NoneSpawned, WriteKeeps, Zenon

\* The inode vm.lock gets is one.
LEMMA LockfileType ==
  ASSUME TypeOK
  PROVE  /\ EnsureLockfile \subseteq Ino
         /\ LockfileObserved \subseteq Ino \cup {0}
         /\ ObserverLocks \in BOOLEAN
BY Zenon DEF TypeOK, EnsureLockfile, LockfileObserved, ObserverLocks, LockFree

LEMMA ReconcilersKeep ==
  ASSUME LifecycleInv, NEW c \in Client, Reconcile(c) \/ PeekReconcile(c)
  PROVE  LifecycleInv'
<1> USE LifecycleAssumption
<1>a. cl[c] \in ClientStates /\ TypeOK
  BY Zenon DEF LifecycleInv, TypeOK
<1>1. CASE Reconcile(c)
  <2>1. PICK o \in observe_machine_state(ObserverLocks) : ReconcileTo(o)
    BY <1>1, Zenon DEF Reconcile
  <2>2. /\ Goto(c, cl[c]) /\ cl[c].pc \notin LockedPCs \cup {"stopWait"} /\ mlock = None /\ exists
        /\ UNCHANGED <<exists, pidfile, exitRec, mlock, runs, vmm, foreign>>
    BY <1>1, <1>a, Zenon DEF Reconcile, Goto, Locks, LockedPCs, StarterPCs, TypeOK
  <2> QED BY <1>a, <2>1, <2>2, LockfileType, ReconcileKeeps, Zenon DEF ReconcileTo
<1>2. CASE PeekReconcile(c) /\ mlock = None /\ exists
  <2>1. PICK o \in observe_machine_state(ObserverLocks) : ReconcileTo(o)
    BY <1>2, Zenon DEF PeekReconcile
  <2>2. Goto(c, Idle) /\ UNCHANGED <<exists, pidfile, exitRec, mlock, runs, vmm, foreign>>
    BY <1>2, Zenon DEF PeekReconcile, Drop
  <2> QED BY <1>a, <1>2, <2>1, <2>2, LockfileType, IdleLocals, ReconcileKeeps, Zenon DEF ReconcileTo
<1>3. CASE PeekReconcile(c) /\ ~(mlock = None /\ exists)
  <2>1. /\ cl[c].pc \notin LockedPCs /\ Goto(c, Idle) /\ mlock' = mlock
        /\ UNCHANGED <<exists, st, lockfile, pidfile, exitRec, runs, vmm, foreign>>
    BY <1>3, Zenon DEF PeekReconcile, Drop, LockedPCs, StarterPCs
  <2> QED BY <1>a, <2>1, OutsideUnlocked, IdleLocals, LocalKeeps, Zenon DEF TypeOK
<1> QED BY <1>1, <1>2, <1>3, Zenon

\* A holder of the machine lock that is not waiting for its monitor knows of no
\* monitor without a pidfile, and the machine exists.
LEMMA HolderAlone ==
  ASSUME LifecycleInv, NEW c \in Client, cl[c].pc \in LockedPCs \ {"handoff", "await"}
  PROVE  /\ mlock = c /\ exists
         /\ \A r \in Run : vmm[r].phase # "spawned"
         /\ mlock' = (IF mlock = c THEN None ELSE mlock) => mlock' = None
BY LifecycleAssumption, ZenonT(30) DEF LifecycleInv, Holder, SpawnedAwaited, LockedPCs, StarterPCs

\* The invariant says that the stored state fits.
LEMMA InvFits == LifecycleInv => Fits(st, pidfile)
BY Zenon DEF LifecycleInv, TypeOK, Fits, ArmedTracked, StoredGeneration, StoredStart, UnlinkedGone

\* Without an armed monitor every inactive state fits, with no pidfile.
LEMMA StoppedFits ==
  ASSUME LifecycleInv, \A r \in Run : ~Armed(r), NEW s \in StateRows,
         s.pid = None, s.started = None
  PROVE  Fits(s, None)
BY LifecycleAssumption, Zenon DEF LifecycleInv, DistinctPids, Fits, Alive

\* An inactive stored state names no process once it was reconciled.
LEMMA StoppedRow == /\ stopped_machine_state \in StateRows
                    /\ stopped_machine_state.pid = None
                    /\ stopped_machine_state.started = None
                    /\ ~is_active(stopped_machine_state.status)
BY Zenon DEF stopped_machine_state, replace_runtime, StateRows, Statuses, is_active

\* complete_stop_locked writes a fitting state: a generation that matches the
\* stored one and is dead leaves no armed monitor.
LEMMA CompleteStopFits ==
  ASSUME LifecycleInv, NEW g \in Generations, g.pid # None, CompleteStop(g),
         UNCHANGED <<vmm, exists>>
  PROVE  Fits(st', pidfile') /\ lockfile' \in Ino \cup {0}
<1> USE LifecycleAssumption
<1>1. CASE UNCHANGED <<st, lockfile, pidfile>>
  BY <1>1, InvFits, Zenon DEF LifecycleInv, TypeOK
<1>2. CASE ~UNCHANGED <<st, lockfile, pidfile>>
  <2>1. /\ identity_matches(st, g) /\ ~ProcAlive(g.pid, g.started)
        /\ st' \in StopCompleted(st, g) /\ RunTreeRemoved
    BY <1>2, Zenon DEF CompleteStop
  <2>2. st' = stopped_machine_state /\ pidfile' = None /\ lockfile' = 0
    BY <2>1, Zenon DEF StopCompleted, RunTreeRemoved
  <2>3. \A r \in Run : ~Armed(r)
    <3> SUFFICES ASSUME NEW r \in Run, Armed(r) PROVE FALSE
      BY Zenon
    <3>1. st.run = r /\ Alive(r)
      BY Zenon DEF LifecycleInv, ArmedTracked, Armed, Alive
    <3>2. st.pid = g.pid /\ (g.started # None => st.started = g.started)
      BY <2>1, Zenon DEF identity_matches, require_generation
    <3>3. st.started = r /\ vmm[r].pid = g.pid
      BY <3>1, <3>2, Zenon DEF LifecycleInv, StoredGeneration
    <3> QED BY <2>1, <3>1, <3>2, <3>3, Zenon DEF ProcAlive
  <2> QED BY <2>2, <2>3, StoppedRow, StoppedFits, Zenon
<1> QED BY <1>1, <1>2, Zenon

LEMMA SettleKeeps ==
  ASSUME LifecycleInv, NEW c \in Client, StopSettle(c) \/ KillSettle(c)
  PROVE  LifecycleInv'
<1> USE LifecycleAssumption
<1>1. /\ cl[c].pc \in {"stop", "kill"} /\ Settle(c)
      /\ is_active(st.status) => ~StoredMonitorAlive
  BY Zenon DEF StopSettle, KillSettle
<1>2. \A r \in Run : ~Armed(r)
  <2> SUFFICES ASSUME NEW r \in Run, Armed(r) PROVE FALSE
    BY Zenon
  <2>1. is_active(st.status) /\ st.pid = vmm[r].pid /\ st.started = r /\ Alive(r)
    BY <1>1, Zenon DEF LifecycleInv, ArmedTracked, ReconciledState, Armed, Alive
  <2>2. st.pid # None
    BY <2>1, Zenon DEF LifecycleInv, DistinctPids
  <2> QED BY <1>1, <2>1, <2>2, Zenon DEF StoredMonitorAlive, ProcAlive
<1>3. Fits(st', None)
  <2>1. CASE is_active(st.status)
    BY <1>1, <1>2, <2>1, StoppedRow, StoppedFits, Zenon DEF Settle
  <2>2. CASE ~is_active(st.status)
    BY <1>1, <1>2, <2>2, InvFits, Zenon DEF Settle, Fits, LifecycleInv, DistinctPids, Alive
  <2> QED BY <2>1, <2>2, Zenon
<1>4. /\ mlock \in {None, c} /\ (\A r \in Run : vmm[r].phase # "spawned")
      /\ mlock' = None
  BY <1>1, HolderAlone, Zenon DEF LockedPCs, Settle, Unlock
<1>5. /\ Goto(c, Idle) /\ pidfile' = None /\ lockfile' = 0
      /\ UNCHANGED <<exists, exitRec, runs, vmm, foreign>>
  BY <1>1, Zenon DEF Settle, Drop, RunTreeRemoved
<1> QED BY <1>3, <1>4, <1>5, IdleLocals, WriteKeeps, Zenon

LEMMA StopFinishKeeps ==
  ASSUME LifecycleInv, NEW c \in Client, StopFinish(c)
  PROVE  LifecycleInv'
<1> USE LifecycleAssumption
<1>1. /\ cl[c].gen \in Generations /\ cl[c].gen.pid # None
      /\ mlock = None /\ mlock' = None /\ Goto(c, Idle)
      /\ UNCHANGED <<exists, exitRec, runs, vmm, foreign>>
  BY Zenon DEF StopFinish, Drop, LifecycleInv, StopperTarget, TypeOK, ClientStates
<1>2. Fits(st', pidfile') /\ lockfile' \in Ino \cup {0}
  <2>1. CASE exists
    BY <1>1, <2>1, CompleteStopFits, Zenon DEF StopFinish
  <2>2. CASE ~exists
    BY <2>2, InvFits, Zenon DEF StopFinish, LifecycleInv, TypeOK
  <2> QED BY <2>1, <2>2, Zenon
<1> QED BY <1>1, <1>2, NoneSpawned, IdleLocals, WriteKeeps, Zenon

LEMMA KillFinishKeeps ==
  ASSUME LifecycleInv, NEW c \in Client, KillFinish(c)
  PROVE  LifecycleInv'
<1> USE LifecycleAssumption
<1>1. /\ cl[c].gen \in Generations /\ cl[c].gen.pid # None /\ Goto(c, Idle)
      /\ UNCHANGED <<exists, exitRec, runs, vmm, foreign>> /\ CompleteStop(cl[c].gen)
  <2>1. /\ cl[c].pc = "killFinish" /\ Goto(c, Idle) /\ CompleteStop(cl[c].gen)
        /\ UNCHANGED <<exists, exitRec, runs, vmm, foreign>>
    BY Zenon DEF KillFinish, Drop
  <2>2. cl[c].gen \in Generations
    BY Zenon DEF LifecycleInv, TypeOK, ClientStates
  <2>3. cl[c].gen = Generation /\ st.pid # None
    BY <2>1, Zenon DEF LifecycleInv, KillerTarget
  <2> QED BY <2>1, <2>2, <2>3, SMTT(30) DEF Generation
<1>2. mlock \in {None, c} /\ mlock' = None /\ \A r \in Run : vmm[r].phase # "spawned"
  BY HolderAlone, Zenon DEF KillFinish, LockedPCs, Unlock
<1>3. Fits(st', pidfile') /\ lockfile' \in Ino \cup {0}
  BY <1>1, CompleteStopFits, Zenon
<1> QED BY <1>1, <1>2, <1>3, IdleLocals, WriteKeeps, Zenon

\* A run is drawn from the free ones or none is,
LEMMA RunsDrawn ==
  ASSUME NEW a \in 0 .. MaxRuns, NEW b, b = a \/ (a < MaxRuns /\ b = a + 1)
  PROVE  /\ b \in 0 .. MaxRuns /\ b >= a
         /\ b = a + 1 => b \in Run /\ b > a
BY LifecycleAssumption DEF Run

\* and the runs above the drawn ones were above them before.
LEMMA RunsAbove ==
  ASSUME NEW a \in 0 .. MaxRuns, NEW b \in 0 .. MaxRuns, b >= a, NEW r \in Run, r > b
  PROVE  r > a
BY LifecycleAssumption DEF Run

\* A client that takes the machine lock, having written a state that fits.
LEMMA AcquireKeeps ==
  ASSUME LifecycleInv, NEW c \in Client, mlock = None, exists,
         Fits(st', pidfile'), NEW n \in ClientStates, Goto(c, n), mlock' = c,
         lockfile' \in Ino \cup {0},
         exists', UNCHANGED <<exitRec, vmm, foreign>>,
         \/ /\ n.pc \in {"stop", "kill"} /\ runs' = runs
            /\ \A r \in Run : Armed(r) => st'.pid = vmm[r].pid /\ st'.started = r
         \/ n.pc = "remove" /\ runs' = runs /\ ~is_active(st'.status)
         \/ /\ n.pc = "prepare" /\ runs < MaxRuns /\ runs' = runs + 1
            /\ st'.status = "Starting" /\ st'.run = runs + 1 /\ n.run = runs + 1
  PROVE  LifecycleInv'
<1> USE LifecycleAssumption
<1>a. /\ cl' \in [Client -> ClientStates] /\ cl'[c] = n
      /\ \A d \in Client \ {c} : cl'[d] = cl[d]
      /\ runs \in 0 .. MaxRuns
  BY Zenon DEF Goto, LifecycleInv, TypeOK
<1>b. runs' \in 0 .. MaxRuns /\ runs' >= runs
  <2>1. runs' = runs \/ (runs < MaxRuns /\ runs' = runs + 1)
    BY Zenon
  <2> QED BY <1>a, <2>1, RunsDrawn, Zenon
<1>1. /\ \A d \in Client \ {c} : cl'[d].pc \notin LockedPCs
      /\ n.pc \in LockedPCs
  BY <1>a, Zenon DEF LifecycleInv, Holder, LockedPCs, StarterPCs
<1>2. TypeOK' /\ foreign' = {}
  <2>1. TypeOK /\ foreign = {}
    BY Zenon DEF LifecycleInv
  <2>2. st' \in StateRows /\ pidfile' \in Pid \cup {None}
    BY Zenon DEF Fits
  <2> QED BY <1>a, <1>b, <2>1, <2>2, Zenon DEF TypeOK
<1>3. Holder'
  BY <1>a, <1>1, Zenon DEF Holder, LifecycleInv, TypeOK
<1>4. ReaperTarget' /\ KillerTarget' /\ RemovedInactive' /\ ReconciledState'
  BY <1>a, <1>1, Zenon DEF ReaperTarget, KillerTarget, RemovedInactive, ReconciledState,
                    LockedPCs, StarterPCs, Armed
<1>5. StarterOwns'
  <2>1. \A d \in Client \ {c} : cl'[d].pc \notin StarterPCs
    BY <1>1, Zenon DEF LockedPCs
  <2>2. CASE n.pc = "prepare"
    <3>1. /\ runs' = runs + 1 /\ runs + 1 \in Run /\ st'.status = "Starting"
          /\ st'.run = runs' /\ n.run = runs'
      BY <1>a, <2>2, RunsDrawn, Zenon
    <3>2. vmm'[runs'].phase = "none"
      <4>1. FutureRuns /\ runs + 1 > runs
        BY <1>a, <3>1, RunsDrawn, <2>2, Zenon DEF LifecycleInv
      <4> QED BY <3>1, <4>1, Zenon DEF FutureRuns
    <3> QED BY <1>a, <2>1, <3>1, <3>2, Zenon DEF StarterOwns
  <2>3. CASE n.pc # "prepare"
    BY <1>a, <2>1, <2>3, Zenon DEF StarterOwns, StarterPCs
  <2> QED BY <2>2, <2>3, Zenon
<1>6. SpawnedAwaited'
  BY NoneSpawned, Zenon DEF SpawnedAwaited
<1>7. StopperTarget' /\ DistinctPids' /\ RecordedOver' /\ FutureRuns'
  <2>1. StopperTarget'
    <3>1. StopperTarget /\ n.pc # "stopWait"
      BY Zenon DEF LifecycleInv
    <3> QED BY <1>a, <3>1, Zenon DEF StopperTarget
  <2>2. DistinctPids'
    <3>1. DistinctPids
      BY Zenon DEF LifecycleInv
    <3> QED BY <3>1, Zenon DEF DistinctPids, Alive
  <2>3. RecordedOver'
    <3>1. RecordedOver
      BY Zenon DEF LifecycleInv
    <3> QED BY <3>1, Zenon DEF RecordedOver
  <2>4. FutureRuns'
    <3>0. FutureRuns
      BY Zenon DEF LifecycleInv
    <3> QED BY <1>a, <1>b, <3>0, RunsAbove, Zenon DEF FutureRuns
  <2> QED BY <2>1, <2>2, <2>3, <2>4, Zenon
<1>8. ArmedTracked' /\ StoredGeneration' /\ StoredStart' /\ UnlinkedGone'
  BY Zenon DEF Fits, ArmedTracked, StoredGeneration, StoredStart, UnlinkedGone, Armed, Alive
<1> QED BY <1>2, <1>3, <1>4, <1>5, <1>6, <1>7, <1>8, Zenon DEF LifecycleInv

LEMMA BeginOnKeeps ==
  ASSUME LifecycleInv, NEW c \in Client, mlock = None, exists,
         NEW e \in ExpectedRun, NEW next \in {"stop", "kill"}, BeginOn(c, e, next)
  PROVE  LifecycleInv'
<1> USE LifecycleAssumption
<1>1. PICK o \in observe_machine_state(ObserverLocks) :
        /\ ReconcileTo(o)
        /\ IF require_run_id(o, e)
           THEN mlock' = c /\ Goto(c, [cl[c] EXCEPT !.pc = next, !.exp = e])
           ELSE mlock' = mlock /\ Drop(c)
        /\ UNCHANGED <<exists, pidfile, exitRec, runs, vmm, foreign>>
  BY Zenon DEF BeginOn
<1>2. TypeOK /\ cl[c] \in ClientStates
  BY Zenon DEF LifecycleInv, TypeOK
<1>3. st' = o /\ lockfile' \in Ino \cup {0}
  BY <1>1, <1>2, LockfileType, Zenon DEF ReconcileTo
<1>4. CASE require_run_id(o, e)
  <2> DEFINE n == [cl[c] EXCEPT !.pc = next, !.exp = e]
  <2>1. n \in ClientStates /\ n.pc \in {"stop", "kill"}
    BY <1>2, Zenon DEF ClientStates, PCs, ExpectedRun
  <2>2. Goto(c, n) /\ mlock' = c
    BY <1>1, <1>4, Zenon
  <2>3. /\ Fits(st', pidfile')
        /\ \A r \in Run : Armed(r) => st'.pid = vmm[r].pid /\ st'.started = r
    BY <1>1, <1>2, <1>3, LockfileType, ObservedFits, Zenon
  <2> HIDE DEF n
  <2> QED BY <1>1, <1>3, <2>1, <2>2, <2>3, AcquireKeeps, Zenon
<1>5. CASE ~require_run_id(o, e)
  BY <1>1, <1>2, <1>3, <1>5, LockfileType, IdleLocals, ReconcileKeeps, Zenon DEF Drop
<1> QED BY <1>4, <1>5, Zenon

LEMMA BeginningsKeep ==
  ASSUME LifecycleInv, NEW c \in Client,
         (\E e \in ExpectedRun : StopBegin(c, e) \/ KillBegin(c, e)) \/ Escalate(c)
  PROVE  LifecycleInv'
<1>1. CASE \E e \in ExpectedRun : StopBegin(c, e) \/ KillBegin(c, e)
  BY <1>1, BeginOnKeeps, Zenon DEF StopBegin, KillBegin, Locks
<1>2. CASE Escalate(c) /\ exists
  <2>1. cl[c].exp \in ExpectedRun
    BY Zenon DEF LifecycleInv, TypeOK, ClientStates, ExpectedRun
  <2> QED BY <1>2, <2>1, BeginOnKeeps, Zenon DEF Escalate
<1>3. CASE Escalate(c) /\ ~exists
  <2>1. /\ cl[c].pc \notin LockedPCs /\ Goto(c, Idle) /\ mlock' = mlock
        /\ UNCHANGED <<exists, st, lockfile, pidfile, exitRec, runs, vmm, foreign>>
    BY <1>3, Zenon DEF Escalate, Drop, LockedPCs, StarterPCs
  <2> QED BY <2>1, OutsideUnlocked, IdleLocals, LocalKeeps, Zenon DEF LifecycleInv, TypeOK
<1> QED BY <1>1, <1>2, <1>3, Zenon

LEMMA StartBeginKeeps ==
  ASSUME LifecycleInv, NEW c \in Client, StartBegin(c)
  PROVE  LifecycleInv'
<1> USE LifecycleAssumption
<1>a. TypeOK /\ cl[c] \in ClientStates /\ cl[c].pc = "idle" /\ mlock = None /\ exists
  BY Zenon DEF LifecycleInv, TypeOK, StartBegin, Locks
<1>1. /\ lockfile' \in Ino /\ runs < MaxRuns /\ runs \in 0 .. MaxRuns
      /\ UNCHANGED <<exists, pidfile, exitRec, vmm, foreign>>
  BY <1>a, LockfileType, Zenon DEF StartBegin, TypeOK
<1> DEFINE refused == [cl[c] EXCEPT !.pc = "refused"]
<1>2. refused \in ClientStates /\ refused.pc \notin LockedPCs \cup {"stopWait"}
  BY <1>a, Zenon DEF ClientStates, PCs, LockedPCs, StarterPCs
<1>3. CASE ~ObserverLocks
  <2>1. Goto(c, refused) /\ UNCHANGED <<st, mlock, runs>>
    BY <1>3, Zenon DEF StartBegin
  <2>2. cl[c].pc \notin LockedPCs
    BY <1>a, Zenon DEF LockedPCs, StarterPCs
  <2> HIDE DEF refused
  <2> QED BY <1>1, <1>2, <2>1, <2>2, OutsideUnlocked, LocalKeeps, Zenon
<1>4. CASE ObserverLocks
  <2>1. PICK o \in observe_machine_state(FALSE) :
          IF is_active(o.status)
          THEN st' = o /\ Goto(c, refused) /\ UNCHANGED <<mlock, runs>>
          ELSE /\ st' \in StartRequested(o, runs + 1) /\ runs' = runs + 1 /\ mlock' = c
               /\ Goto(c, [cl[c] EXCEPT !.pc = "prepare", !.life = lockfile',
                                        !.run = runs + 1])
    BY <1>4, Zenon DEF StartBegin
  <2>2. CASE is_active(o.status)
    <3> HIDE DEF refused
    <3> QED BY <1>a, <1>1, <1>2, <2>1, <2>2, ReconcileKeeps, Zenon
  <2>3. CASE ~is_active(o.status)
    <3> DEFINE n == [cl[c] EXCEPT !.pc = "prepare", !.life = lockfile', !.run = runs + 1]
    <3>0. runs + 1 \in Run
      BY <1>1, RunsDrawn, Zenon
    <3>1. n \in ClientStates /\ n.pc = "prepare" /\ n.run = runs + 1
      BY <1>a, <1>1, <3>0, Zenon DEF ClientStates, PCs
    <3>2. Goto(c, n) /\ mlock' = c /\ runs' = runs + 1
      BY <2>1, <2>3, Zenon
    <3>3. st' = replace_runtime("Starting", None, None, runs + 1)
      BY <2>1, <2>3, Zenon DEF StartRequested
    <3>4. Fits(o, pidfile)
      BY <1>a, ObservedFits, Zenon
    <3>5. \A r \in Run : ~Armed(r)
      BY <2>3, <3>4, Zenon DEF Fits
    <3>6. Fits(st', pidfile') /\ st'.status = "Starting" /\ st'.run = runs + 1
      <4>1. /\ st' \in StateRows /\ st'.status = "Starting" /\ st'.run = runs + 1
            /\ st'.pid = None /\ st'.started = None
        BY <3>0, <3>3, Zenon DEF replace_runtime, StateRows, Statuses
      <4>2. pidfile' = pidfile
        BY <1>1, Zenon
      <4> QED BY <3>4, <3>5, <4>1, <4>2, Zenon DEF Fits
    <3> HIDE DEF n
    <3> QED BY <1>a, <1>1, <3>1, <3>2, <3>6, AcquireKeeps, Zenon
  <2> QED BY <2>2, <2>3, Zenon
<1> QED BY <1>3, <1>4, Zenon

LEMMA WaitBeginKeeps ==
  ASSUME LifecycleInv, NEW c \in Client, NEW e \in ExpectedRun, WaitBegin(c, e)
  PROVE  LifecycleInv'
<1> USE LifecycleAssumption
<1>a. /\ TypeOK /\ cl[c] \in ClientStates /\ cl[c].pc = "idle" /\ mlock = None /\ exists
      /\ UNCHANGED <<exists, pidfile, exitRec, mlock, runs, vmm, foreign>>
  BY Zenon DEF LifecycleInv, TypeOK, WaitBegin, Locks
<1>1. CASE is_active(st.status) /\ StoredMonitorAlive
  <2> DEFINE n == [cl[c] EXCEPT !.pc = "wait", !.exp = e, !.gen = Generation]
  <2>1. Generation \in Generations
    BY <1>a, Zenon DEF TypeOK, StateRows, Generation, Generations
  <2>2. n \in ClientStates /\ n.pc \notin LockedPCs \cup {"stopWait"}
    BY <1>a, <2>1, Zenon DEF ClientStates, PCs, ExpectedRun, LockedPCs, StarterPCs
  <2>3. Goto(c, n) /\ UNCHANGED <<st, lockfile>>
    BY <1>1, Zenon DEF WaitBegin
  <2>4. cl[c].pc \notin LockedPCs /\ lockfile' \in Ino \cup {0}
    BY <1>a, <2>3, Zenon DEF LockedPCs, StarterPCs, TypeOK
  <2> HIDE DEF n
  <2> QED BY <1>a, <2>2, <2>3, <2>4, OutsideUnlocked, LocalKeeps, Zenon
<1>2. CASE ~(is_active(st.status) /\ StoredMonitorAlive)
  <2>1. PICK o \in observe_machine_state(ObserverLocks) : ReconcileTo(o)
    BY <1>2, Zenon DEF WaitBegin
  <2>2. Goto(c, cl[c]) /\ cl[c].pc \notin LockedPCs \cup {"stopWait"}
    BY <1>a, <1>2, Zenon DEF WaitBegin, Goto, LockedPCs, StarterPCs, TypeOK
  <2> QED BY <1>a, <2>1, <2>2, LockfileType, ReconcileKeeps, Zenon DEF ReconcileTo
<1> QED BY <1>1, <1>2, Zenon

LEMMA WaitFinishKeeps ==
  ASSUME LifecycleInv, NEW c \in Client, WaitFinish(c)
  PROVE  LifecycleInv'
<1> USE LifecycleAssumption
<1>a. /\ TypeOK /\ mlock = None /\ mlock' = None /\ Goto(c, Idle)
      /\ UNCHANGED <<exists, exitRec, runs, vmm, foreign>>
  BY Zenon DEF LifecycleInv, WaitFinish, Drop
<1>1. Fits(st', pidfile') /\ lockfile' \in Ino \cup {0}
  <2>1. CASE exists
    <3>1. PICK o \in observe_machine_state(ObserverLocks) :
            /\ st' = o
            /\ IF cl[c].exp = None /\ ~is_active(o.status) THEN RunTreeRemoved
               ELSE lockfile' \in LockfileObserved /\ UNCHANGED pidfile
      BY <2>1, Zenon DEF WaitFinish
    <3>2. Fits(o, pidfile)
      BY <1>a, <2>1, LockfileType, ObservedFits, Zenon
    <3>3. CASE cl[c].exp = None /\ ~is_active(o.status)
      <4>1. \A r \in Run : ~Armed(r)
        BY <3>2, <3>3, Zenon DEF Fits
      <4> QED BY <3>1, <3>2, <3>3, <4>1, Zenon DEF Fits, RunTreeRemoved, LifecycleInv,
                                            DistinctPids, Alive
    <3>4. CASE ~(cl[c].exp = None /\ ~is_active(o.status))
      BY <1>a, <3>1, <3>2, <3>4, LockfileType, Zenon
    <3> QED BY <3>3, <3>4, Zenon
  <2>2. CASE ~exists
    BY <2>2, InvFits, Zenon DEF WaitFinish, LifecycleInv, TypeOK
  <2> QED BY <2>1, <2>2, Zenon
<1> QED BY <1>a, <1>1, NoneSpawned, IdleLocals, WriteKeeps, Zenon

LEMMA PeekKeeps ==
  ASSUME LifecycleInv, NEW c \in Client, Peek(c)
  PROVE  LifecycleInv'
<1> USE LifecycleAssumption
<1>a. /\ TypeOK /\ cl[c] \in ClientStates /\ cl[c].pc \notin LockedPCs
      /\ UNCHANGED <<exists, st, pidfile, exitRec, mlock, runs, vmm, foreign>>
  BY Zenon DEF LifecycleInv, TypeOK, Peek, LockedPCs, StarterPCs
<1>1. lockfile' \in Ino
  BY <1>a, LockfileType, Zenon DEF Peek
<1> DEFINE n == [cl[c] EXCEPT !.pc = "peek", !.life = lockfile']
<1>2. n \in ClientStates /\ n.pc \notin LockedPCs \cup {"stopWait"} /\ Goto(c, n)
  BY <1>a, <1>1, Zenon DEF ClientStates, PCs, Peek, LockedPCs, StarterPCs
<1> HIDE DEF n
<1> QED BY <1>a, <1>1, <1>2, OutsideUnlocked, LocalKeeps, Zenon

LEMMA RemoveBeginKeeps ==
  ASSUME LifecycleInv, NEW c \in Client, NEW e \in ExpectedRun, RemoveBegin(c, e)
  PROVE  LifecycleInv'
<1> USE LifecycleAssumption
<1>a. /\ TypeOK /\ cl[c] \in ClientStates /\ cl[c].pc = "idle" /\ mlock = None /\ exists
      /\ UNCHANGED <<exists, exitRec, runs, vmm, foreign>>
  BY Zenon DEF LifecycleInv, TypeOK, RemoveBegin, Locks
<1> DEFINE n == [cl[c] EXCEPT !.pc = "remove", !.exp = e]
<1>1. PICK o \in observe_machine_state(ObserverLocks) :
        \/ /\ ~is_active(o.status) /\ st' = o /\ RunTreeRemoved /\ mlock' = c /\ Goto(c, n)
        \/ ReconcileTo(o) /\ UNCHANGED <<pidfile, mlock, cl>>
  BY Zenon DEF RemoveBegin
<1>2. Fits(o, pidfile)
  BY <1>a, LockfileType, ObservedFits, Zenon
<1>3. CASE ~is_active(o.status) /\ st' = o /\ RunTreeRemoved /\ mlock' = c /\ Goto(c, n)
  <2>1. n \in ClientStates /\ n.pc = "remove"
    BY <1>a, Zenon DEF ClientStates, PCs, ExpectedRun
  <2>2. \A r \in Run : ~Armed(r)
    BY <1>2, <1>3, Zenon DEF Fits
  <2>3. Fits(st', pidfile') /\ lockfile' = 0
    BY <1>2, <1>3, <2>2, Zenon DEF Fits, RunTreeRemoved, LifecycleInv, DistinctPids, Alive
  <2> HIDE DEF n
  <2> QED BY <1>a, <1>3, <2>1, <2>3, AcquireKeeps, Zenon
<1>4. CASE ReconcileTo(o) /\ UNCHANGED <<pidfile, mlock, cl>>
  <2>1. Goto(c, cl[c]) /\ cl[c].pc \notin LockedPCs \cup {"stopWait"}
    BY <1>a, <1>4, Zenon DEF Goto, LockedPCs, StarterPCs, TypeOK
  <2> QED BY <1>a, <1>4, <2>1, LockfileType, ReconcileKeeps, Zenon DEF ReconcileTo
<1> QED BY <1>1, <1>3, <1>4, Zenon

LEMMA RemoveRecordsKeeps ==
  ASSUME LifecycleInv, NEW c \in Client, RemoveRecords(c)
  PROVE  LifecycleInv'
<1>1. /\ cl[c].pc = "remove" /\ exists' \in BOOLEAN /\ exitRec' = None /\ Goto(c, Idle)
      /\ UNCHANGED <<st, lockfile, pidfile, runs, vmm, foreign>> /\ Unlock(c)
  BY Zenon DEF RemoveRecords, Drop
<1>2. \A r \in Run : ~Armed(r)
  BY <1>1, Zenon DEF LifecycleInv, RemovedInactive, ArmedTracked
<1>3. /\ mlock \in {None, c} /\ mlock' = None
      /\ \A r \in Run : vmm[r].phase # "spawned"
  BY <1>1, HolderAlone, Zenon DEF LockedPCs, Unlock
<1> QED BY <1>1, <1>2, <1>3, InvFits, IdleLocals, WriteKeeps, Zenon DEF LifecycleInv, TypeOK

\* A step that changes nothing about the monitors but their signals or requests.
SameMonitors == /\ vmm' \in [Run -> Monitors]
                /\ \A r \in Run : /\ vmm'[r].phase = vmm[r].phase
                                  /\ vmm'[r].pid = vmm[r].pid
                                  /\ vmm'[r].told = vmm[r].told

\* Monitors that kept their phase and pid still have pids of their own.
LEMMA SamePids == DistinctPids /\ SameMonitors => DistinctPids'
BY ZenonT(30) DEF DistinctPids, Alive, SameMonitors

LEMMA SignalledSame ==
  ASSUME LifecycleInv, NEW p, NEW s \in {"int", "kill"}, Signalled(p, s)
  PROVE  SameMonitors /\ foreign' = {}
<1>1. \A r \in Run : vmm[r] \in Monitors /\ [vmm[r] EXCEPT !.sig = s] \in Monitors
  BY Zenon DEF LifecycleInv, TypeOK, Monitors
<1>2. vmm' \in [Run -> Monitors]
  BY <1>1, Zenon DEF Signalled
<1>3. \A r \in Run : vmm'[r] \in {vmm[r], [vmm[r] EXCEPT !.sig = s]}
  BY Zenon DEF Signalled
<1> QED BY <1>1, <1>2, <1>3, Zenon DEF SameMonitors, LifecycleInv, Signalled, Monitors

\* A starter moves on under the machine lock.
LEMMA StarterMoves ==
  ASSUME LifecycleInv, NEW c \in Client, cl[c].pc \in StarterPCs,
         NEW n \in ClientStates, n.pc \in {"await", "failed", "reaping"},
         n.run = cl[c].run, Goto(c, n),
         n.pc = "await" \/ \A r \in Run : vmm[r].phase # "spawned",
         n.pc = "reaping" => /\ n.gen.started = n.run
                             /\ Alive(n.run) => vmm[n.run].pid = n.gen.pid,
         SameMonitors, foreign' = {},
         UNCHANGED <<exists, st, lockfile, pidfile, exitRec, mlock, runs>>
  PROVE  LifecycleInv'
<1> USE LifecycleAssumption
<1>a. /\ cl' \in [Client -> ClientStates] /\ cl'[c] = n
      /\ \A d \in Client \ {c} : cl'[d] = cl[d]
  BY Zenon DEF Goto, LifecycleInv, TypeOK
<1>1. mlock = c /\ exists /\ \A d \in Client \ {c} : cl[d].pc \notin LockedPCs
  BY Zenon DEF LifecycleInv, Holder, LockedPCs
<1>2. TypeOK'
  BY <1>a, Zenon DEF LifecycleInv, TypeOK, SameMonitors
<1>3. Holder' /\ StopperTarget'
  BY <1>a, <1>1, Zenon DEF LifecycleInv, Holder, StopperTarget, LockedPCs, StarterPCs
<1>4. StarterOwns'
  BY <1>a, <1>1, Zenon DEF LifecycleInv, StarterOwns, LockedPCs, StarterPCs
<1>5. ReaperTarget'
  <2> SUFFICES ASSUME n.pc = "reaping"
               PROVE  /\ n.gen.started = n.run
                      /\ Alive(n.run)' => vmm'[n.run].pid = n.gen.pid
    BY <1>a, <1>1, Zenon DEF ReaperTarget, LockedPCs, StarterPCs
  <2>1. n.run \in Run
    BY Zenon DEF LifecycleInv, StarterOwns
  <2> QED BY <2>1, Zenon DEF SameMonitors, Alive
<1>6. KillerTarget' /\ RemovedInactive' /\ ReconciledState'
  BY <1>a, <1>1, Zenon DEF KillerTarget, RemovedInactive, ReconciledState, LockedPCs, StarterPCs
<1>7. SpawnedAwaited'
  <2> SUFFICES ASSUME NEW r \in Run, vmm[r].phase = "spawned"
               PROVE  /\ ~vmm'[r].told
                      /\ \E d \in Client : cl'[d].pc \in {"handoff", "await"} /\ cl'[d].run = r
    BY Zenon DEF SpawnedAwaited, SameMonitors
  <2>1. PICK d \in Client : cl[d].pc \in {"handoff", "await"} /\ cl[d].run = r
    BY Zenon DEF LifecycleInv, SpawnedAwaited
  <2>2. d = c
    BY <1>1, <2>1, Zenon DEF LockedPCs, StarterPCs
  <2> QED BY <1>a, <2>1, <2>2, Zenon DEF LifecycleInv, SpawnedAwaited, SameMonitors
<1>8. ArmedTracked' /\ UnlinkedGone' /\ FutureRuns'
  <2>1. ArmedTracked /\ UnlinkedGone /\ FutureRuns
    BY Zenon DEF LifecycleInv
  <2>2. ArmedTracked'
    <3>1. \A r \in Run : Armed(r)' => Armed(r) /\ vmm'[r].pid = vmm[r].pid
      BY Zenon DEF Armed, SameMonitors
    <3> QED BY <2>1, <3>1, Zenon DEF ArmedTracked
  <2>3. UnlinkedGone' /\ FutureRuns'
    BY <2>1, Zenon DEF UnlinkedGone, FutureRuns, SameMonitors
  <2> QED BY <2>2, <2>3, Zenon
<1>9. StoredGeneration' /\ StoredStart' /\ DistinctPids' /\ RecordedOver'
  <2>1. StoredGeneration /\ StoredStart /\ DistinctPids /\ RecordedOver
    BY Zenon DEF LifecycleInv
  <2>2. StoredGeneration' /\ StoredStart'
    BY <2>1, Zenon DEF StoredGeneration, StoredStart, Alive, SameMonitors
  <2>3. DistinctPids'
    BY <2>1, SamePids, Zenon
  <2>4. RecordedOver'
    <3>1. exitRec # None => exitRec.run \in Run
      BY Zenon DEF LifecycleInv, TypeOK
    <3> QED BY <2>1, <3>1, Zenon DEF RecordedOver, SameMonitors
  <2> QED BY <2>2, <2>3, <2>4, Zenon
<1> QED BY <1>2, <1>3, <1>4, <1>5, <1>6, <1>7, <1>8, <1>9, Zenon DEF LifecycleInv

LEMMA FailingKeeps ==
  ASSUME Provisos, LifecycleInv, NEW c \in Client, PrepareFails(c) \/ StartTimesOut(c)
  PROVE  LifecycleInv'
<1> USE LifecycleAssumption
<1> DEFINE n == [cl[c] EXCEPT !.pc = "failed", !.fail = "Stopped"]
<1>1. /\ cl[c].pc \in {"prepare", "handoff", "await"} /\ Goto(c, n)
      /\ UNCHANGED <<exists, st, lockfile, pidfile, exitRec, mlock, runs, vmm, foreign>>
  BY Zenon DEF PrepareFails, StartTimesOut
<1>2. n \in ClientStates /\ n.pc = "failed" /\ n.run = cl[c].run
  <2>1. cl[c] \in ClientStates
    BY Zenon DEF LifecycleInv, TypeOK
  <2> QED BY <2>1, Zenon DEF ClientStates, PCs
<1>3. \A r \in Run : vmm[r].phase # "spawned"
  <2>1. CASE PrepareFails(c)
    BY <2>1, HolderAlone, Zenon DEF PrepareFails, LockedPCs, StarterPCs
  <2>2. CASE StartTimesOut(c)
    <3>1. ~InOrphanWindow(c) /\ cl[c].pc \in {"handoff", "await"}
      BY <2>2, Zenon DEF StartTimesOut, MayVanish, Provisos
    <3>2. \A d \in Client \ {c} : cl[d].pc \notin {"handoff", "await"}
      BY <3>1, SMTT(30) DEF LifecycleInv, Holder, LockedPCs, StarterPCs
    <3> QED BY <3>1, <3>2, Zenon DEF LifecycleInv, SpawnedAwaited, InOrphanWindow
  <2> QED BY <2>1, <2>2, Zenon
<1>4. SameMonitors /\ foreign' = {}
  BY <1>1, Zenon DEF SameMonitors, LifecycleInv, TypeOK
<1>5. cl[c].pc \in StarterPCs
  BY <1>1, Zenon DEF StarterPCs
<1> HIDE DEF n
<1> QED BY <1>1, <1>2, <1>3, <1>4, <1>5, StarterMoves, Zenon

LEMMA HandoffKeeps ==
  ASSUME LifecycleInv, NEW c \in Client, Handoff(c)
  PROVE  LifecycleInv'
<1> USE LifecycleAssumption
<1> DEFINE n == [cl[c] EXCEPT !.pc = "await"]
<1>1. /\ cl[c].pc = "handoff" /\ Goto(c, n)
      /\ UNCHANGED <<exists, st, lockfile, pidfile, exitRec, mlock, runs, foreign>>
      /\ Becomes(cl[c].run, [vmm[cl[c].run] EXCEPT !.req = TRUE])
  BY Zenon DEF Handoff
<1>2. n \in ClientStates /\ n.pc = "await" /\ n.run = cl[c].run
  BY ZenonT(30) DEF LifecycleInv, TypeOK, ClientStates, PCs
<1>3. cl[c].run \in Run
  BY <1>1, Zenon DEF LifecycleInv, StarterOwns, StarterPCs
<1>4. SameMonitors /\ foreign' = {}
  <2> DEFINE m == [vmm[cl[c].run] EXCEPT !.req = TRUE]
  <2>1. vmm \in [Run -> Monitors] /\ vmm[cl[c].run] \in Monitors /\ foreign = {}
    BY <1>3, Zenon DEF LifecycleInv, TypeOK
  <2>2. /\ m \in Monitors /\ m.phase = vmm[cl[c].run].phase
        /\ m.pid = vmm[cl[c].run].pid /\ m.told = vmm[cl[c].run].told
    BY <2>1, Zenon DEF Monitors
  <2>3. vmm' = [vmm EXCEPT ![cl[c].run] = m]
    BY <1>1, Zenon DEF Becomes
  <2> HIDE DEF m
  <2> QED BY <1>1, <1>3, <2>1, <2>2, <2>3, Zenon DEF SameMonitors
<1>5. cl[c].pc \in StarterPCs
  BY <1>1, Zenon DEF StarterPCs
<1> HIDE DEF n
<1> QED BY <1>1, <1>2, <1>4, <1>5, StarterMoves, Zenon

\* The end of finish_failed_start, with no armed monitor left.
LEMMA FailedStartRecordedKeeps ==
  ASSUME LifecycleInv, NEW c \in Client, cl[c].pc \in {"failed", "reaping"},
         \A r \in Run : ~Armed(r), FailedStartRecorded(c), UNCHANGED <<runs, vmm, foreign>>
  PROVE  LifecycleInv'
<1> USE LifecycleAssumption
<1>1. st' = replace_runtime(cl[c].fail, None, None, None)
  BY Zenon DEF FailedStartRecorded, StartFailed
<1>2. st' \in StateRows /\ st'.pid = None /\ st'.started = None
  BY <1>1, Zenon DEF replace_runtime, StateRows, Statuses, LifecycleInv, TypeOK, ClientStates
<1>3. /\ mlock \in {None, c} /\ mlock' = None /\ Goto(c, Idle)
      /\ \A r \in Run : vmm[r].phase # "spawned"
  BY HolderAlone, Zenon DEF FailedStartRecorded, Unlock, Drop, LockedPCs, StarterPCs
<1>4. CASE Ephemeral
  <2>1. pidfile' = None /\ lockfile' = 0 /\ exitRec' = None /\ exists' \in BOOLEAN
    BY <1>4, Zenon DEF FailedStartRecorded, RunTreeRemoved
  <2>2. Fits(st', pidfile')
    BY <1>2, <2>1, StoppedFits, Zenon
  <2> QED BY <1>3, <2>1, <2>2, IdleLocals, WriteKeeps, Zenon
<1>5. CASE ~Ephemeral
  <2>1. UNCHANGED <<lockfile, pidfile, exitRec, exists>>
    BY <1>5, Zenon DEF FailedStartRecorded
  <2>2. Fits(st', pidfile')
    BY <1>2, <2>1, InvFits, Zenon DEF Fits
  <2> QED BY <1>3, <2>1, <2>2, IdleLocals, WriteKeeps, Zenon DEF LifecycleInv, TypeOK
<1> QED BY <1>4, <1>5, Zenon

LEMMA FailedStartKeeps ==
  ASSUME LifecycleInv, NEW c \in Client, FailedStart(c)
  PROVE  LifecycleInv'
<1> USE LifecycleAssumption
<1>a. /\ cl[c].pc = "failed" /\ cl[c] \in ClientStates /\ runs' = runs
      /\ st.run = cl[c].run /\ cl[c].run \in Run
      /\ \A r \in Run : vmm[r].phase # "spawned"
  BY HolderAlone, Zenon DEF FailedStart, LifecycleInv, TypeOK, StarterOwns, StarterPCs, LockedPCs
<1>1. CASE pidfile # None /\ ProcAlive(pidfile, None)
  <2>1. /\ Alive(st.run) /\ vmm[st.run].pid = pidfile /\ StartedAt(pidfile) = st.run
    BY <1>a, <1>1, PidfileNames, Zenon
  <2> DEFINE g == [pid |-> pidfile, started |-> StartedAt(pidfile), run |-> None]
             n == [cl[c] EXCEPT !.pc = "reaping", !.gen = g]
  <2>2. /\ Signalled(pidfile, "int") /\ Goto(c, n)
        /\ UNCHANGED <<exists, st, lockfile, pidfile, exitRec, mlock>>
    BY <1>1, Zenon DEF FailedStart
  <2>3. g \in Generations /\ g.started = cl[c].run /\ g.pid = pidfile
    BY <1>a, <2>1, Zenon DEF Generations, LifecycleInv, TypeOK
  <2>4. /\ n \in ClientStates /\ n.pc = "reaping" /\ n.run = cl[c].run /\ n.gen = g
    BY <1>a, <2>3, Zenon DEF ClientStates, PCs
  <2>5. SameMonitors /\ foreign' = {}
    BY <2>2, SignalledSame, Zenon
  <2>6. cl[c].pc \in StarterPCs
    BY <1>a, Zenon DEF StarterPCs
  <2>7. n.gen.started = n.run /\ (Alive(n.run) => vmm[n.run].pid = n.gen.pid)
    BY <1>a, <2>1, <2>3, <2>4, Zenon
  <2> HIDE DEF n, g
  <2> QED BY <1>a, <2>2, <2>4, <2>5, <2>6, <2>7, StarterMoves, Zenon
<1>2. CASE ~(pidfile # None /\ ProcAlive(pidfile, None))
  <2>1. \A r \in Run : ~Armed(r)
    BY <1>2, Zenon DEF LifecycleInv, ArmedTracked, Armed, Alive, DistinctPids, ProcAlive
  <2> QED BY <1>a, <1>2, <2>1, FailedStartRecordedKeeps, Zenon DEF FailedStart
<1> QED BY <1>1, <1>2, Zenon

LEMMA ReapDoneKeeps ==
  ASSUME LifecycleInv, NEW c \in Client, ReapDone(c)
  PROVE  LifecycleInv'
<1>1. /\ cl[c].pc = "reaping" /\ ~ProcAlive(cl[c].gen.pid, cl[c].gen.started)
      /\ FailedStartRecorded(c) /\ UNCHANGED <<runs, vmm, foreign>>
  BY Zenon DEF ReapDone
<1>2. \A r \in Run : ~Armed(r)
  <2> SUFFICES ASSUME NEW r \in Run, Armed(r) PROVE FALSE
    BY Zenon
  <2>1. Alive(r) /\ cl[c].run = r
    BY <1>1, Zenon DEF LifecycleInv, ArmedTracked, StarterOwns, StarterPCs, Armed, Alive
  <2>2. cl[c].gen.started = r /\ vmm[r].pid = cl[c].gen.pid
    BY <1>1, <2>1, Zenon DEF LifecycleInv, ReaperTarget
  <2> QED BY <1>1, <2>1, <2>2, Zenon DEF ProcAlive
<1> QED BY <1>1, <1>2, FailedStartRecordedKeeps, Zenon

LEMMA ReapKillKeeps ==
  ASSUME LifecycleInv, NEW c \in Client, ReapKill(c)
  PROVE  LifecycleInv'
<1>1. /\ cl[c].pc = "reaping" /\ cl[c] \in ClientStates /\ Goto(c, cl[c])
      /\ UNCHANGED <<exists, st, lockfile, pidfile, exitRec, mlock, runs>>
  BY Zenon DEF ReapKill, Goto, LifecycleInv, TypeOK
<1>2. SameMonitors /\ foreign' = {}
  BY SignalledSame, Zenon DEF ReapKill
<1>3. /\ cl[c].pc \in StarterPCs /\ \A r \in Run : vmm[r].phase # "spawned"
  BY <1>1, HolderAlone, Zenon DEF StarterPCs, LockedPCs
<1>4. /\ cl[c].gen.started = cl[c].run
      /\ Alive(cl[c].run) => vmm[cl[c].run].pid = cl[c].gen.pid
  BY <1>1, Zenon DEF LifecycleInv, ReaperTarget
<1> QED BY <1>1, <1>2, <1>3, <1>4, StarterMoves, Zenon

LEMMA StartReadyKeeps ==
  ASSUME LifecycleInv, NEW c \in Client, StartReady(c)
  PROVE  LifecycleInv'
<1> USE LifecycleAssumption
<1>a. /\ cl[c].pc = "await" /\ cl[c] \in ClientStates
      /\ st.run = cl[c].run /\ cl[c].run \in Run /\ vmm[cl[c].run].told
      /\ UNCHANGED <<exists, lockfile, pidfile, exitRec, runs, vmm, foreign>>
  BY Zenon DEF StartReady, LifecycleInv, TypeOK, StarterOwns, StarterPCs
<1>1. mlock = c /\ \A d \in Client \ {c} : cl[d].pc \notin LockedPCs
  BY <1>a, Zenon DEF LifecycleInv, Holder, LockedPCs, StarterPCs
<1>2. \A r \in Run : vmm[r].phase # "spawned"
  <2> SUFFICES ASSUME NEW r \in Run, vmm[r].phase = "spawned" PROVE FALSE
    BY Zenon
  <2>1. PICK d \in Client : cl[d].pc \in {"handoff", "await"} /\ cl[d].run = r
    BY Zenon DEF LifecycleInv, SpawnedAwaited
  <2>2. d = c
    BY <1>1, <2>1, Zenon DEF LockedPCs, StarterPCs
  <2>3. ~vmm[r].told
    BY Zenon DEF LifecycleInv, SpawnedAwaited
  <2> QED BY <1>a, <2>1, <2>2, <2>3, Zenon
<1>3. CASE /\ pidfile # None /\ ProcAlive(pidfile, None)
           /\ st' \in MonitorReady(st, cl[c].run, pidfile, StartedAt(pidfile))
           /\ Drop(c) /\ Unlock(c)
  <2>1. Alive(st.run) /\ vmm[st.run].pid = pidfile /\ StartedAt(pidfile) = st.run
    BY <1>2, <1>3, PidfileNames, Zenon
  <2>2. st' = replace_runtime("Running", pidfile, st.run, st.run)
    BY <1>a, <1>3, <2>1, Zenon DEF MonitorReady
  <2>3. Fits(st', pidfile')
    <3>1. st' \in StateRows
      BY <1>a, <2>2, Zenon DEF replace_runtime, StateRows, Statuses, LifecycleInv, TypeOK
    <3>2. /\ st'.pid = pidfile /\ st'.started = st.run /\ st'.run = st.run
          /\ is_active(st'.status)
      BY <2>2, Zenon DEF replace_runtime, is_active
    <3>3. Fits(st, pidfile) /\ pidfile' = pidfile /\ vmm[st.run].phase # "none"
      BY <1>a, <2>1, InvFits, Zenon DEF Alive
    <3>4. \A r \in Run : Armed(r) => exists /\ st.run = r /\ pidfile = vmm[r].pid
      BY <3>3, Zenon DEF Fits
    <3> QED BY <1>a, <1>3, <2>1, <3>1, <3>2, <3>3, <3>4, Zenon DEF Fits
  <2>4. mlock' = None /\ Goto(c, Idle)
    BY <1>1, <1>3, Zenon DEF Unlock, Drop
  <2> QED BY <1>a, <1>1, <1>2, <2>3, <2>4, IdleLocals, WriteKeeps, Zenon DEF LifecycleInv, TypeOK
<1>4. CASE /\ Goto(c, [cl[c] EXCEPT !.pc = "failed", !.fail = "Error"])
           /\ UNCHANGED <<st, mlock>>
  <2> DEFINE n == [cl[c] EXCEPT !.pc = "failed", !.fail = "Error"]
  <2>1. Goto(c, n) /\ UNCHANGED <<st, mlock>>
    BY <1>4, Zenon
  <2>2. n \in ClientStates /\ n.pc = "failed" /\ n.run = cl[c].run
    BY <1>a, Zenon DEF ClientStates, PCs
  <2>3. SameMonitors /\ foreign' = {} /\ cl[c].pc \in StarterPCs
    BY <1>a, Zenon DEF SameMonitors, LifecycleInv, TypeOK, StarterPCs
  <2> HIDE DEF n
  <2> QED BY <1>a, <1>2, <2>1, <2>2, <2>3, StarterMoves, Zenon
<1> QED BY <1>3, <1>4, Zenon DEF StartReady

LEMMA SpawnKeeps ==
  ASSUME LifecycleInv, NEW c \in Client, Spawn(c)
  PROVE  LifecycleInv'
<1> USE LifecycleAssumption
<1> DEFINE n == [cl[c] EXCEPT !.pc = "handoff"]
           x == cl[c].run
<1>1. PICK p \in Pid \ ({vmm[r].pid : r \in Run} \cup foreign) :
        Becomes(x, [NoVmm EXCEPT !.phase = "spawned", !.pid = p, !.ino = cl[c].life])
  BY Zenon DEF Spawn
<1> DEFINE m == [NoVmm EXCEPT !.phase = "spawned", !.pid = p, !.ino = cl[c].life]
<1>2. /\ cl[c].pc = "prepare" /\ Goto(c, n) /\ cl[c] \in ClientStates
      /\ UNCHANGED <<exists, st, lockfile, pidfile, exitRec, mlock, runs, foreign>>
  BY Zenon DEF Spawn, LifecycleInv, TypeOK
<1>3. /\ x \in Run /\ st.run = x /\ x = runs /\ vmm[x].phase = "none"
      /\ st.status = "Starting"
  BY <1>2, Zenon DEF LifecycleInv, StarterOwns, StarterPCs
<1>4. n \in ClientStates /\ n.pc = "handoff" /\ n.run = x
  BY <1>2, Zenon DEF ClientStates, PCs
<1>5. /\ m \in Monitors /\ m.phase = "spawned" /\ m.pid = p /\ m.told = FALSE
  BY <1>2, Zenon DEF Monitors, NoVmm, Phases, ClientStates
<1>6. vmm' = [vmm EXCEPT ![x] = m] /\ vmm \in [Run -> Monitors]
  BY <1>1, Zenon DEF Becomes, LifecycleInv, TypeOK
<1> HIDE DEF m, n, x
<1>7. /\ vmm' \in [Run -> Monitors] /\ vmm'[x] = m
      /\ \A r \in Run \ {x} : vmm'[r] = vmm[r]
  BY <1>3, <1>5, <1>6, Zenon
<1>8. /\ cl' \in [Client -> ClientStates] /\ cl'[c] = n
      /\ \A d \in Client \ {c} : cl'[d] = cl[d]
  BY <1>2, <1>4, Zenon DEF Goto, LifecycleInv, TypeOK
<1>9. mlock = c /\ exists /\ \A d \in Client \ {c} : cl[d].pc \notin LockedPCs
  BY <1>2, Zenon DEF LifecycleInv, Holder, LockedPCs, StarterPCs
<1>10. TypeOK' /\ foreign' = {}
  BY <1>2, <1>7, <1>8, Zenon DEF LifecycleInv, TypeOK
<1>11. Holder' /\ StopperTarget'
  BY <1>2, <1>4, <1>8, <1>9, Zenon DEF LifecycleInv, Holder, StopperTarget, LockedPCs, StarterPCs
<1>12. StarterOwns'
  BY <1>2, <1>3, <1>4, <1>8, <1>9, Zenon DEF StarterOwns, LockedPCs, StarterPCs
<1>13. ReaperTarget' /\ KillerTarget' /\ RemovedInactive' /\ ReconciledState'
  BY <1>4, <1>8, <1>9, Zenon DEF ReaperTarget, KillerTarget, RemovedInactive, ReconciledState,
                          LockedPCs, StarterPCs
<1>14. SpawnedAwaited'
  <2>1. \A r \in Run : vmm[r].phase # "spawned"
    BY <1>2, HolderAlone, Zenon DEF LockedPCs, StarterPCs
  <2>2. \A r \in Run : vmm'[r].phase = "spawned" => r = x /\ ~vmm'[r].told
    BY <1>5, <1>7, <2>1, Zenon
  <2>3. cl'[c].pc \in {"handoff", "await"} /\ cl'[c].run = x
    BY <1>4, <1>8, Zenon
  <2> QED BY <2>2, <2>3, Zenon DEF SpawnedAwaited
<1>15. ArmedTracked' /\ UnlinkedGone'
  <2>1. \A r \in Run : vmm'[r].phase \in Phases \ {"spawned"} => vmm'[r] = vmm[r]
    BY <1>5, <1>7, Zenon
  <2>2. ArmedTracked'
    <3>1. ArmedTracked /\ \A r \in Run : Armed(r)' => Armed(r) /\ vmm'[r] = vmm[r]
      BY <2>1, Zenon DEF LifecycleInv, Armed, Phases
    <3> QED BY <1>2, <3>1, Zenon DEF ArmedTracked
  <2>3. UnlinkedGone'
    <3>1. UnlinkedGone
      BY Zenon DEF LifecycleInv
    <3> QED BY <1>2, <2>1, <3>1, Zenon DEF UnlinkedGone, Phases
  <2> QED BY <2>2, <2>3, Zenon
<1>16. StoredGeneration' /\ StoredStart'
  BY <1>2, <1>3, <1>5, <1>7, Zenon DEF LifecycleInv, StoredGeneration, StoredStart, Alive
<1>17. FutureRuns' /\ RecordedOver'
  <2>1. FutureRuns'
    <3>1. FutureRuns /\ x <= runs
      BY <1>3 DEF LifecycleInv, Run
    <3> QED BY <1>2, <1>3, <1>7, <3>1, SMTT(30) DEF FutureRuns, Run
  <2>2. RecordedOver'
    <3>1. RecordedOver /\ (exitRec # None => exitRec.run \in Run)
      BY Zenon DEF LifecycleInv, TypeOK
    <3>2. exitRec # None => exitRec.run # x
      BY <1>3, <3>1, Zenon DEF RecordedOver
    <3> QED BY <1>2, <1>7, <3>1, <3>2, Zenon DEF RecordedOver
  <2> QED BY <2>1, <2>2, Zenon
<1>18. DistinctPids'
  <2>1. p # None /\ p \in Pid /\ \A r \in Run : vmm[r].pid # p
    BY <1>1, Zenon
  <2>2. DistinctPids
    BY Zenon DEF LifecycleInv
  <2>3. \A r \in Run : vmm'[r].phase \notin {"none", "dead"} <=> vmm'[r].pid # None
    BY <1>5, <1>7, <2>1, <2>2, Zenon DEF DistinctPids, Alive
  <2>4. ASSUME NEW r \in Run, NEW q \in Run, vmm'[r].phase \notin {"none", "dead"},
               vmm'[r].pid = vmm'[q].pid
        PROVE  r = q
    BY <1>5, <1>7, <2>1, <2>2, <2>4, SMTT(30) DEF DistinctPids, Alive
  <2> QED BY <2>3, <2>4, Zenon DEF DistinctPids, Alive
<1> QED BY <1>10, <1>11, <1>12, <1>13, <1>14, <1>15, <1>16, <1>17, <1>18, Zenon DEF LifecycleInv

\* A stop or kill that signals leaves the stored generation as it is.
LEMMA StopRequestedRow ==
  ASSUME LifecycleInv, NEW s \in StopRequested(st, Generation)
  PROVE  /\ s \in StateRows /\ s.status = "Stopping"
         /\ s.pid = st.pid /\ s.started = st.started /\ s.run = st.run
<1>1. st \in StateRows
  BY Zenon DEF LifecycleInv, TypeOK
<1>2. s = replace_runtime("Stopping", st.pid, st.started, st.run)
  BY Zenon DEF StopRequested, Generation
<1> QED BY <1>1, <1>2, Zenon DEF replace_runtime, StateRows, Statuses

LEMMA SignalKeeps ==
  ASSUME LifecycleInv, NEW c \in Client, StopSignal(c) \/ KillSignal(c)
  PROVE  LifecycleInv'
<1> USE LifecycleAssumption
<1>a. /\ cl[c].pc \in {"stop", "kill"} /\ cl[c] \in ClientStates /\ st.pid # None
      /\ is_active(st.status)
      /\ UNCHANGED <<exists, lockfile, pidfile, exitRec, runs>>
  BY Zenon DEF StopSignal, KillSignal, StoredMonitorAlive, LifecycleInv, TypeOK
<1>1. /\ mlock = c /\ exists /\ (\A r \in Run : vmm[r].phase # "spawned")
      /\ \A d \in Client \ {c} : cl[d].pc \notin LockedPCs
  <2>1. cl[c].pc \in LockedPCs \ {"handoff", "await"}
    BY <1>a, Zenon DEF LockedPCs
  <2>2. mlock = c /\ exists /\ \A d \in Client \ {c} : cl[d].pc \notin LockedPCs
    BY <2>1, Zenon DEF LifecycleInv, Holder
  <2> QED BY <2>1, <2>2, HolderAlone, Zenon
<1>2. /\ st' \in StateRows /\ is_active(st'.status)
      /\ st'.pid = st.pid /\ st'.started = st.started /\ st'.run = st.run
  <2>1. CASE st' = st
    BY <1>a, <2>1, Zenon DEF LifecycleInv, TypeOK
  <2>2. CASE st' \in StopRequested(st, Generation)
    BY <2>2, StopRequestedRow, Zenon DEF is_active
  <2> QED BY <2>1, <2>2, Zenon DEF StopSignal, KillSignal
<1>3. SameMonitors /\ foreign' = {}
  <2>1. CASE StopSignal(c) /\ st.status = "Stopping"
    BY <2>1, Zenon DEF StopSignal, SameMonitors, LifecycleInv, TypeOK
  <2>2. CASE ~(StopSignal(c) /\ st.status = "Stopping")
    BY <2>2, SignalledSame, Zenon DEF StopSignal, KillSignal
  <2> QED BY <2>1, <2>2, Zenon
<1>4. Generation \in Generations /\ Generation' = Generation /\ Generation.pid = st.pid
  BY <1>2, Zenon DEF Generation, Generations, LifecycleInv, TypeOK, StateRows
<1>5. PICK q \in ClientStates :
        /\ Goto(c, q)
        /\ \/ q.pc = "stopWait" /\ q.gen = Generation /\ mlock' = None
           \/ q.pc = "killWait" /\ q.gen = Generation /\ mlock' = mlock
           \/ q.pc = "idle" /\ mlock' = None
  <2>1. CASE Drop(c) /\ Unlock(c)
    BY <1>1, <2>1, IdleLocals, Zenon DEF Drop, Unlock
  <2>2. CASE StopSignal(c) /\ ~Drop(c)
    <3> DEFINE k == [cl[c] EXCEPT !.pc = "stopWait", !.gen = Generation]
    <3>1. k \in ClientStates /\ k.gen = Generation /\ k.pc = "stopWait"
      BY <1>a, <1>4, Zenon DEF ClientStates, PCs
    <3>2. Goto(c, k) /\ mlock' = None
      BY <1>1, <2>2, Zenon DEF StopSignal, Unlock
    <3> QED BY <3>1, <3>2, Zenon
  <2>3. CASE KillSignal(c) /\ ~(Drop(c) /\ Unlock(c))
    <3> DEFINE k == [cl[c] EXCEPT !.pc = "killWait", !.gen = Generation]
    <3>1. k \in ClientStates /\ k.gen = Generation /\ k.pc = "killWait"
      BY <1>a, <1>4, Zenon DEF ClientStates, PCs
    <3>2. Goto(c, k) /\ mlock' = mlock
      BY <2>3, Zenon DEF KillSignal
    <3> QED BY <3>1, <3>2, Zenon
  <2> QED BY <2>1, <2>2, <2>3, Zenon DEF StopSignal
<1>6. /\ cl' \in [Client -> ClientStates] /\ cl'[c] = q
      /\ \A d \in Client \ {c} : cl'[d] = cl[d]
  BY <1>5, Zenon DEF Goto, LifecycleInv, TypeOK
<1>7. TypeOK'
  BY <1>a, <1>1, <1>2, <1>3, <1>5, <1>6, Zenon DEF LifecycleInv, TypeOK, SameMonitors
<1>8. Holder' /\ StopperTarget' /\ KillerTarget'
  <2>1. Holder'
    BY <1>a, <1>1, <1>5, <1>6, Zenon DEF LifecycleInv, Holder, LockedPCs, StarterPCs
  <2>2. StopperTarget'
    BY <1>a, <1>4, <1>5, <1>6, Zenon DEF LifecycleInv, StopperTarget
  <2>3. KillerTarget'
    <3>1. \A d \in Client \ {c} : cl'[d].pc \notin {"killWait", "killFinish"}
      BY <1>1, <1>6, Zenon DEF LockedPCs
    <3>2. cl'[c].pc \in {"killWait", "killFinish"} => cl'[c].gen = Generation
      BY <1>5, <1>6, Zenon
    <3>3. Generation' = Generation /\ st'.pid # None
      BY <1>a, <1>2, <1>4, Zenon
    <3> QED BY <3>1, <3>2, <3>3, Zenon DEF KillerTarget
  <2> QED BY <2>1, <2>2, <2>3, Zenon
<1>9. StarterOwns' /\ ReaperTarget' /\ RemovedInactive' /\ ReconciledState'
  BY <1>1, <1>5, <1>6, Zenon DEF StarterOwns, ReaperTarget, RemovedInactive, ReconciledState,
                          LockedPCs, StarterPCs
<1>10. SpawnedAwaited' /\ UnlinkedGone' /\ FutureRuns'
  <2>1. SpawnedAwaited'
    BY <1>1, <1>3, Zenon DEF SpawnedAwaited, SameMonitors
  <2>2. UnlinkedGone'
    BY <1>a, <1>3, Zenon DEF LifecycleInv, UnlinkedGone, SameMonitors
  <2>3. FutureRuns'
    BY <1>a, <1>3, Zenon DEF LifecycleInv, FutureRuns, SameMonitors
  <2> QED BY <2>1, <2>2, <2>3, Zenon
<1>11. ArmedTracked'
  BY <1>a, <1>2, <1>3, Zenon DEF LifecycleInv, ArmedTracked, Armed, SameMonitors, is_active
<1>12. StoredGeneration' /\ StoredStart'
  BY <1>2, <1>3, Zenon DEF LifecycleInv, StoredGeneration, StoredStart, Alive, SameMonitors
<1>13. DistinctPids'
  <2>1. DistinctPids
    BY Zenon DEF LifecycleInv
  <2> QED BY <1>3, <2>1, ZenonT(30) DEF DistinctPids, Alive, SameMonitors
<1>14. RecordedOver'
  BY <1>a, <1>3, Zenon DEF LifecycleInv, RecordedOver, SameMonitors, TypeOK
<1> QED BY <1>3, <1>7, <1>8, <1>9, <1>10, <1>11, <1>12, <1>13, <1>14, Zenon DEF LifecycleInv

LEMMA KillRecordKeeps ==
  ASSUME LifecycleInv, NEW c \in Client, KillRecord(c)
  PROVE  LifecycleInv'
<1> USE LifecycleAssumption
<1> DEFINE n == [cl[c] EXCEPT !.pc = "killFinish"]
           g == cl[c].gen
<1>1. /\ cl[c].pc = "killWait" /\ ~ProcAlive(g.pid, g.started) /\ Goto(c, n)
      /\ exitRec' \in {exitRec, [run |-> g.run, pid |-> g.pid, clean |-> TRUE]}
      /\ exitRec' # exitRec => g.run # None
      /\ UNCHANGED <<exists, st, lockfile, pidfile, mlock, runs, vmm, foreign>>
  BY Zenon DEF KillRecord
<1>2. /\ g = Generation /\ st.pid # None /\ g.pid = st.pid /\ g.started = st.started
      /\ g.run = st.run /\ st.pid \in Pid
  BY <1>1 DEF LifecycleInv, KillerTarget, Generation, TypeOK, StateRows
<1>3. st.run \in Run /\ st.started = st.run /\ vmm[st.run].phase = "dead"
  BY <1>1, <1>2, Zenon DEF LifecycleInv, StoredGeneration, ProcAlive, Alive
<1>4. n \in ClientStates /\ n.pc = "killFinish" /\ n.gen = g
  BY ZenonT(30) DEF LifecycleInv, TypeOK, ClientStates, PCs
<1> HIDE DEF n
<1>5. /\ cl' \in [Client -> ClientStates] /\ cl'[c] = n
      /\ \A d \in Client \ {c} : cl'[d] = cl[d]
  BY <1>1, <1>4, Zenon DEF Goto, LifecycleInv, TypeOK
<1>6. TypeOK' /\ foreign' = {}
  <2>1. exitRec' \in [run : Run, pid : Pid, clean : BOOLEAN] \cup {None}
    <3>1. [run |-> g.run, pid |-> g.pid, clean |-> TRUE]
            \in [run : Run, pid : Pid, clean : BOOLEAN]
      BY <1>2, <1>3, Zenon
    <3>2. exitRec \in [run : Run, pid : Pid, clean : BOOLEAN] \cup {None}
      BY Zenon DEF LifecycleInv, TypeOK
    <3> QED BY <1>1, <3>1, <3>2, Zenon
  <2> QED BY <1>1, <1>5, <2>1, Zenon DEF LifecycleInv, TypeOK
<1>7. RecordedOver'
  <2>1. CASE exitRec' = exitRec
    BY <1>1, <2>1, Zenon DEF LifecycleInv, RecordedOver
  <2>2. CASE exitRec' = [run |-> g.run, pid |-> g.pid, clean |-> TRUE]
    <3>1. exitRec'.run = st.run
      BY <1>2, <2>2, Zenon
    <3> QED BY <1>1, <1>3, <3>1, Zenon DEF RecordedOver
  <2> QED BY <1>1, <2>1, <2>2, Zenon
<1>8. Holder' /\ StopperTarget' /\ KillerTarget' /\ StarterOwns' /\ ReaperTarget'
  <2>1. Holder' /\ StopperTarget'
    BY <1>1, <1>4, <1>5, Zenon DEF LifecycleInv, Holder, StopperTarget, LockedPCs
  <2>2. KillerTarget'
    BY <1>1, <1>4, <1>5, Zenon DEF LifecycleInv, KillerTarget, Generation
  <2>3. StarterOwns'
    BY <1>1, <1>4, <1>5, Zenon DEF LifecycleInv, StarterOwns, StarterPCs
  <2>4. ReaperTarget'
    BY <1>1, <1>4, <1>5, ZenonT(30) DEF LifecycleInv, ReaperTarget, Alive
  <2> QED BY <2>1, <2>2, <2>3, <2>4, Zenon
<1>9. RemovedInactive' /\ ReconciledState'
  BY <1>1, <1>4, <1>5, Zenon DEF LifecycleInv, RemovedInactive, ReconciledState, Armed
<1>10. SpawnedAwaited'
  <2>1. \A d \in Client : cl[d].pc \in {"handoff", "await"} => cl'[d] = cl[d]
    BY <1>1, <1>5, Zenon
  <2>2. SpawnedAwaited /\ vmm' = vmm
    BY <1>1, Zenon DEF LifecycleInv
  <2> QED BY <2>1, <2>2 DEF SpawnedAwaited
<1>11. /\ ArmedTracked' /\ UnlinkedGone' /\ FutureRuns' /\ StoredGeneration'
       /\ StoredStart' /\ DistinctPids'
  BY <1>1, Zenon DEF LifecycleInv, ArmedTracked, Armed, UnlinkedGone, FutureRuns, StoredGeneration,
              StoredStart, DistinctPids, Alive
<1> QED BY <1>6, <1>7, <1>8, <1>9, <1>10, <1>11, Zenon DEF LifecycleInv


-----------------------------------------------------------------------------
(* The steps of the monitors.                                               *)

\* A step of the monitor of r that keeps what vm.pid, the exit record and the
\* stored state say of the monitors keeps the invariant.
LEMMA MonitorKeeps ==
  ASSUME LifecycleInv, NEW r \in Run, NEW m \in Monitors, Alive(r),
         vmm' = [vmm EXCEPT ![r] = m],
         m.phase \notin {"none", "spawned"},
         m.phase # "dead" => m.pid = vmm[r].pid,
         m.phase = "dead" => m.pid = None,
         UNCHANGED <<exists, st, lockfile, mlock, runs, foreign, cl>>,
         pidfile' \in Pid \cup {None},
         exitRec' \in [run : Run, pid : Pid, clean : BOOLEAN] \cup {None},
         ArmedTracked', ReconciledState', UnlinkedGone', RecordedOver'
  PROVE  LifecycleInv'
<1> USE LifecycleAssumption
<1>1. /\ vmm' \in [Run -> Monitors] /\ vmm'[r] = m
      /\ \A q \in Run \ {r} : vmm'[q] = vmm[q]
  BY Zenon DEF LifecycleInv, TypeOK
<1>2. TypeOK' /\ foreign' = {}
  BY <1>1, Zenon DEF LifecycleInv, TypeOK
<1>3. Holder' /\ KillerTarget' /\ StopperTarget' /\ RemovedInactive' /\ StoredStart'
  BY Zenon DEF LifecycleInv, Holder, KillerTarget, StopperTarget, RemovedInactive, StoredStart,
         Generation
<1>4. StarterOwns'
  BY <1>1, Zenon DEF LifecycleInv, StarterOwns, Alive
<1>5. ReaperTarget'
  <2> SUFFICES ASSUME NEW c \in Client, cl[c].pc = "reaping"
               PROVE  /\ cl[c].gen.started = cl[c].run
                      /\ Alive(cl[c].run)' => vmm'[cl[c].run].pid = cl[c].gen.pid
    BY Zenon DEF ReaperTarget, Alive
  <2>1. cl[c].run \in Run
    BY Zenon DEF LifecycleInv, StarterOwns, StarterPCs
  <2> QED BY <1>1, <2>1, Zenon DEF LifecycleInv, ReaperTarget, Alive
<1>6. SpawnedAwaited' /\ FutureRuns'
  <2>1. SpawnedAwaited /\ FutureRuns /\ cl' = cl /\ runs' = runs
    BY Zenon DEF LifecycleInv
  <2>2. SpawnedAwaited'
    <3> SUFFICES ASSUME NEW q \in Run, vmm'[q].phase = "spawned"
                 PROVE  /\ ~vmm'[q].told
                        /\ \E c \in Client : cl'[c].pc \in {"handoff", "await"} /\ cl'[c].run = q
      BY Zenon DEF SpawnedAwaited
    <3>1. vmm'[q] = vmm[q]
      BY <1>1, Zenon
    <3>2. ~vmm[q].told
      BY <2>1, <3>1, Zenon DEF SpawnedAwaited
    <3>3. PICK c \in Client : cl[c].pc \in {"handoff", "await"} /\ cl[c].run = q
      BY <2>1, <3>1, Zenon DEF SpawnedAwaited
    <3> QED BY <2>1, <3>1, <3>2, <3>3, Zenon
  <2>3. FutureRuns'
    BY <1>1, <2>1, Zenon DEF FutureRuns, Alive
  <2> QED BY <2>2, <2>3, Zenon
<1>7. StoredGeneration'
  BY <1>1, Zenon DEF LifecycleInv, StoredGeneration, Alive
<1>8. DistinctPids'
  <2>1. DistinctPids
    BY Zenon DEF LifecycleInv
  <2>2. \A q \in Run : vmm'[q].phase \notin {"none", "dead"} <=> vmm'[q].pid # None
    BY <1>1, <2>1, Zenon DEF DistinctPids, Alive
  <2>3. ASSUME NEW p \in Run, NEW q \in Run, vmm'[p].phase \notin {"none", "dead"},
               vmm'[p].pid = vmm'[q].pid
        PROVE  p = q
    <3>1. vmm'[p].pid = vmm[p].pid /\ vmm'[q].pid = vmm[q].pid
      BY <1>1, <2>2, <2>3, Zenon
    <3>2. Alive(p)
      BY <1>1, <2>3, Zenon DEF Alive
    <3> QED BY <2>1, <2>3, <3>1, <3>2, Zenon DEF DistinctPids
  <2> QED BY <2>2, <2>3, Zenon DEF DistinctPids, Alive
<1> QED BY <1>2, <1>3, <1>4, <1>5, <1>6, <1>7, <1>8, Zenon DEF LifecycleInv

\* PidGuard::create: the starter still holds the machine lock, so the run is
\* the stored one and no other client has reconciled.
LEMMA WritesPidfileKeeps ==
  ASSUME LifecycleInv, NEW r \in Run, VmmWritesPidfile(r)
  PROVE  LifecycleInv'
<1> USE LifecycleAssumption
<1> DEFINE m == [vmm[r] EXCEPT !.phase = "armed"]
<1>1. /\ vmm[r].phase = "spawned" /\ vmm' = [vmm EXCEPT ![r] = m] /\ pidfile' = vmm[r].pid
      /\ UNCHANGED <<exists, st, lockfile, exitRec, mlock, runs, foreign, cl>>
  BY Zenon DEF VmmWritesPidfile, VmmStep, Becomes
<1>2. vmm \in [Run -> Monitors] /\ vmm[r] \in Monitors
  BY Zenon DEF LifecycleInv, TypeOK
<1>3. m \in Monitors /\ m.phase = "armed" /\ m.pid = vmm[r].pid
  BY <1>2, Zenon DEF Monitors, Phases
<1> HIDE DEF m
<1>4. vmm'[r] = m /\ \A q \in Run \ {r} : vmm'[q] = vmm[q]
  BY <1>1, <1>2, Zenon
<1>5. Alive(r)
  BY <1>1, Zenon DEF Alive
<1>6. PICK c \in Client : cl[c].pc \in {"handoff", "await"} /\ cl[c].run = r
  BY <1>1, Zenon DEF LifecycleInv, SpawnedAwaited
<1>7. /\ exists /\ st.status = "Starting" /\ st.run = r
      /\ \A d \in Client \ {c} : cl[d].pc \notin LockedPCs
  BY <1>6, Zenon DEF LifecycleInv, Holder, StarterOwns, LockedPCs, StarterPCs
<1>8. \A q \in Run : ~Armed(q)
  BY <1>1, <1>7, Zenon DEF LifecycleInv, ArmedTracked, Armed
<1>9. ArmedTracked'
  BY <1>1, <1>3, <1>4, <1>7, <1>8, Zenon DEF ArmedTracked, Armed, is_active
<1>10. ReconciledState'
  BY <1>1, <1>6, <1>7, Zenon DEF ReconciledState, LockedPCs
<1>11. UnlinkedGone'
  BY <1>1, <1>3, <1>4, <1>5, SMTT(30) DEF LifecycleInv, UnlinkedGone, DistinctPids, Alive
<1>12. RecordedOver'
  BY <1>1, <1>2, <1>4, Zenon DEF LifecycleInv, RecordedOver, TypeOK
<1>13. pidfile' \in Pid \cup {None}
       /\ exitRec' \in [run : Run, pid : Pid, clean : BOOLEAN] \cup {None}
  BY <1>1, <1>2, Zenon DEF LifecycleInv, TypeOK, Monitors
<1> QED BY <1>1, <1>3, <1>5, <1>9, <1>10, <1>11, <1>12, <1>13, MonitorKeeps, Zenon

\* A monitor that keeps its pidfile.
LEMMA ArmedStepKeeps ==
  ASSUME LifecycleInv, NEW r \in Run, NEW m \in Monitors, Armed(r),
         m.phase \in {"booted", "up", "ended", "recorded"}, m.pid = vmm[r].pid,
         vmm[r].phase = "recorded" => m.phase = "recorded",
         vmm' = [vmm EXCEPT ![r] = m],
         UNCHANGED <<exists, st, lockfile, pidfile, mlock, runs, foreign, cl>>,
         exitRec' \in [run : Run, pid : Pid, clean : BOOLEAN] \cup {None},
         exitRec' # exitRec => exitRec'.run = r /\ m.phase = "recorded"
  PROVE  LifecycleInv'
<1> USE LifecycleAssumption
<1>1. vmm'[r] = m /\ \A q \in Run \ {r} : vmm'[q] = vmm[q]
  BY Zenon DEF LifecycleInv, TypeOK
<1>2. Alive(r)
  BY Zenon DEF Armed, Alive
<1>3. ArmedTracked' /\ ReconciledState'
  <2>1. \A q \in Run : Armed(q)' => Armed(q) /\ vmm'[q].pid = vmm[q].pid
    BY <1>1, Zenon DEF Armed
  <2>2. ArmedTracked /\ ReconciledState /\ cl' = cl /\ st' = st
    BY Zenon DEF LifecycleInv
  <2>3. ArmedTracked'
    BY <2>1, <2>2, Zenon DEF ArmedTracked
  <2>4. ReconciledState'
    <3> SUFFICES ASSUME NEW k \in Client, NEW q \in Run, cl'[k].pc \in {"stop", "kill"},
                        Armed(q)'
                 PROVE  st'.pid = vmm'[q].pid /\ st'.started = q
      BY Zenon DEF ReconciledState
    <3>1. Armed(q) /\ vmm'[q].pid = vmm[q].pid
      BY <2>1, Zenon
    <3> QED BY <2>2, <3>1, Zenon DEF ReconciledState
  <2> QED BY <2>3, <2>4, Zenon
<1>4. UnlinkedGone'
  BY <1>1, Zenon DEF LifecycleInv, UnlinkedGone
<1>5. RecordedOver'
  <2>1. CASE exitRec' = exitRec
    BY <1>1, <2>1, Zenon DEF LifecycleInv, RecordedOver, TypeOK, Armed
  <2>2. CASE exitRec' # exitRec
    BY <1>1, <2>2, Zenon DEF RecordedOver
  <2> QED BY <2>1, <2>2, Zenon
<1>6. pidfile' \in Pid \cup {None}
  BY Zenon DEF LifecycleInv, TypeOK
<1>7. m.phase \notin {"none", "spawned"} /\ m.phase # "dead"
  BY Zenon
<1> QED BY <1>2, <1>3, <1>4, <1>5, <1>6, <1>7, MonitorKeeps, Zenon


LEMMA RunningKeeps ==
  ASSUME LifecycleInv, NEW r \in Run, VmmBoots(r) \/ VmmReports(r) \/ VmmEnds(r)
  PROVE  LifecycleInv'
<1> USE LifecycleAssumption
<1>1. vmm[r] \in Monitors
  BY Zenon DEF LifecycleInv, TypeOK
<1>2. \E m \in Monitors : /\ m.phase \in {"booted", "up", "ended"} /\ m.pid = vmm[r].pid
                          /\ vmm' = [vmm EXCEPT ![r] = m]
  <2>1. CASE VmmBoots(r)
    <3> DEFINE m == [vmm[r] EXCEPT !.phase = "booted"]
    <3>1. m \in Monitors /\ m.phase = "booted" /\ m.pid = vmm[r].pid
      BY <1>1, Zenon DEF Monitors, Phases
    <3>2. vmm' = [vmm EXCEPT ![r] = m]
      BY <2>1, Zenon DEF VmmBoots, VmmStep, Becomes
    <3> QED BY <3>1, <3>2, Zenon
  <2>2. CASE VmmReports(r)
    <3> DEFINE m == [vmm[r] EXCEPT !.phase = "up", !.told = TRUE]
    <3>1. m \in Monitors /\ m.phase = "up" /\ m.pid = vmm[r].pid
      BY <1>1, Zenon DEF Monitors, Phases
    <3>2. vmm' = [vmm EXCEPT ![r] = m]
      BY <2>2, Zenon DEF VmmReports, Becomes
    <3> QED BY <3>1, <3>2, Zenon
  <2>3. CASE VmmEnds(r)
    <3>1. PICK clean \in BOOLEAN :
            vmm' = [vmm EXCEPT ![r] = [vmm[r] EXCEPT !.phase = "ended", !.clean = clean]]
      BY <2>3, Zenon DEF VmmEnds, Becomes
    <3> DEFINE m == [vmm[r] EXCEPT !.phase = "ended", !.clean = clean]
    <3>2. m \in Monitors /\ m.phase = "ended" /\ m.pid = vmm[r].pid
      BY <1>1, Zenon DEF Monitors, Phases
    <3> QED BY <3>1, <3>2, Zenon
  <2> QED BY <2>1, <2>2, <2>3, Zenon
<1>3. /\ vmm[r].phase \in {"armed", "booted", "up"}
      /\ UNCHANGED <<exists, st, lockfile, pidfile, exitRec, mlock, runs, foreign, cl>>
  BY Zenon DEF VmmBoots, VmmReports, VmmEnds, VmmStep
<1>4. exitRec' \in [run : Run, pid : Pid, clean : BOOLEAN] \cup {None}
  BY <1>3, Zenon DEF LifecycleInv, TypeOK
<1>5. Armed(r) /\ vmm[r].phase # "recorded"
  BY <1>3, Zenon DEF Armed
<1> QED BY <1>2, <1>3, <1>4, <1>5, ArmedStepKeeps, Zenon

LEMMA RecordsExitKeeps ==
  ASSUME LifecycleInv, NEW r \in Run, VmmRecordsExit(r)
  PROVE  LifecycleInv'
<1> USE LifecycleAssumption
<1> DEFINE m == [vmm[r] EXCEPT !.phase = "recorded"]
           e == [run |-> r, pid |-> vmm[r].pid, clean |-> vmm[r].clean]
<1>1. /\ vmm[r].phase = "ended" /\ vmm' = [vmm EXCEPT ![r] = m]
      /\ exitRec' = e \/ exitRec' = exitRec
      /\ UNCHANGED <<exists, st, lockfile, pidfile, mlock, runs, foreign, cl>>
  BY Zenon DEF VmmRecordsExit, VmmStep, Becomes
<1>2. vmm[r] \in Monitors
  BY Zenon DEF LifecycleInv, TypeOK
<1>3. m \in Monitors /\ m.phase = "recorded" /\ m.pid = vmm[r].pid
  BY <1>2, Zenon DEF Monitors, Phases
<1>4. vmm[r].pid \in Pid
  BY <1>1, <1>2, Zenon DEF LifecycleInv, DistinctPids, Alive, Monitors
<1>5. e \in [run : Run, pid : Pid, clean : BOOLEAN] /\ e.run = r
  BY <1>2, <1>4, Zenon DEF Monitors
<1>6. exitRec \in [run : Run, pid : Pid, clean : BOOLEAN] \cup {None}
  BY Zenon DEF LifecycleInv, TypeOK
<1>7. Armed(r)
  BY <1>1, Zenon DEF Armed
<1> HIDE DEF m, e
<1> QED BY <1>1, <1>3, <1>5, <1>6, <1>7, ArmedStepKeeps, Zenon

\* The unlink by path takes the monitor's own pidfile: no other is armed.
LEMMA UnlinksPidfileKeeps ==
  ASSUME LifecycleInv, NEW r \in Run, VmmUnlinksPidfile(r)
  PROVE  LifecycleInv'
<1> USE LifecycleAssumption
<1> DEFINE m == [vmm[r] EXCEPT !.phase = "unlinked"]
<1>1. /\ vmm[r].phase = "recorded" /\ vmm' = [vmm EXCEPT ![r] = m] /\ pidfile' = None
      /\ UNCHANGED <<exists, st, lockfile, exitRec, mlock, runs, foreign, cl>>
  BY Zenon DEF VmmUnlinksPidfile, VmmStep, Becomes
<1>2. vmm \in [Run -> Monitors] /\ vmm[r] \in Monitors
  BY Zenon DEF LifecycleInv, TypeOK
<1>3. m \in Monitors /\ m.phase = "unlinked" /\ m.pid = vmm[r].pid
  BY <1>2, Zenon DEF Monitors, Phases
<1> HIDE DEF m
<1>4. vmm'[r] = m /\ \A q \in Run \ {r} : vmm'[q] = vmm[q]
  BY <1>1, <1>2, Zenon
<1>5. Alive(r) /\ Armed(r)
  BY <1>1, Zenon DEF Alive, Armed
<1>6. \A q \in Run \ {r} : ~Armed(q)
  BY <1>5, Zenon DEF LifecycleInv, ArmedTracked
<1>7. ArmedTracked' /\ ReconciledState'
  BY <1>3, <1>4, <1>6, Zenon DEF ArmedTracked, ReconciledState, Armed
<1>8. UnlinkedGone'
  BY <1>1, <1>3, <1>4, <1>5, SMTT(30) DEF LifecycleInv, UnlinkedGone, DistinctPids, Alive
<1>9. RecordedOver'
  BY <1>1, <1>3, <1>4, Zenon DEF LifecycleInv, RecordedOver, TypeOK
<1>10. exitRec' \in [run : Run, pid : Pid, clean : BOOLEAN] \cup {None}
  BY <1>1, Zenon DEF LifecycleInv, TypeOK
<1> QED BY <1>1, <1>3, <1>5, <1>7, <1>8, <1>9, <1>10, MonitorKeeps, Zenon

LEMMA DiesKeeps ==
  ASSUME LifecycleInv, NEW r \in Run, VmmDies(r)
  PROVE  LifecycleInv'
<1> USE LifecycleAssumption
<1> DEFINE m == [NoVmm EXCEPT !.phase = "dead", !.told = vmm[r].told]
<1>1. /\ Alive(r) /\ vmm' = [vmm EXCEPT ![r] = m]
      /\ UNCHANGED <<exists, st, lockfile, pidfile, exitRec, mlock, runs, foreign, cl>>
  BY Zenon DEF VmmDies, Becomes
<1>2. vmm \in [Run -> Monitors] /\ vmm[r] \in Monitors
  BY Zenon DEF LifecycleInv, TypeOK
<1>3. m \in Monitors /\ m.phase = "dead" /\ m.pid = None
  BY <1>2, Zenon DEF Monitors, Phases, NoVmm
<1> HIDE DEF m
<1>4. vmm'[r] = m /\ \A q \in Run \ {r} : vmm'[q] = vmm[q]
  BY <1>1, <1>2, Zenon
<1>5. ArmedTracked' /\ ReconciledState' /\ UnlinkedGone'
  <2>1. \A q \in Run : /\ Armed(q)' => Armed(q) /\ vmm'[q] = vmm[q]
                       /\ vmm'[q].phase = "unlinked" => vmm'[q] = vmm[q]
    BY <1>3, <1>4, Zenon DEF Armed
  <2>2. ArmedTracked'
    BY <1>1, <2>1, SMTT(30) DEF LifecycleInv, ArmedTracked
  <2>3. ReconciledState'
    <3> SUFFICES ASSUME NEW k \in Client, NEW q \in Run, cl'[k].pc \in {"stop", "kill"},
                        Armed(q)'
                 PROVE  st'.pid = vmm'[q].pid /\ st'.started = q
      BY Zenon DEF ReconciledState
    <3>1. Armed(q) /\ vmm'[q] = vmm[q] /\ st' = st /\ cl' = cl
      BY <1>1, <2>1, Zenon
    <3>2. ReconciledState
      BY Zenon DEF LifecycleInv
    <3> QED BY <3>1, <3>2, Zenon DEF ReconciledState
  <2>4. UnlinkedGone'
    BY <1>1, <2>1, Zenon DEF LifecycleInv, UnlinkedGone
  <2> QED BY <2>2, <2>3, <2>4, Zenon
<1>6. RecordedOver'
  BY <1>1, <1>3, <1>4, Zenon DEF LifecycleInv, RecordedOver, TypeOK
<1>7. /\ pidfile' \in Pid \cup {None}
      /\ exitRec' \in [run : Run, pid : Pid, clean : BOOLEAN] \cup {None}
  BY <1>1, Zenon DEF LifecycleInv, TypeOK
<1> QED BY <1>1, <1>3, <1>5, <1>6, <1>7, MonitorKeeps, Zenon


-----------------------------------------------------------------------------
(* The invariant is inductive, and what follows from it.                    *)

\* Every step keeps the invariant.
LEMMA LifecycleNext == Provisos /\ LifecycleInv /\ [Next]_vars => LifecycleInv'
<1> SUFFICES ASSUME Provisos, LifecycleInv, [Next]_vars PROVE LifecycleInv'
  BY Zenon
<1>1. ASSUME NEW c \in Client, Starter(c) PROVE LifecycleInv'
  BY <1>1, StartBeginKeeps, LeavingKeeps, FailingKeeps, SpawnKeeps, HandoffKeeps,
     StartReadyKeeps, FailedStartKeeps, ReapKillKeeps, ReapDoneKeeps, Zenon DEF Starter
<1>2. ASSUME NEW c \in Client, Stopper(c) PROVE LifecycleInv'
  BY <1>2, BeginningsKeep, SettleKeeps, SignalKeeps, StopFinishKeeps, LeavingKeeps,
     KillRecordKeeps, KillFinishKeeps, Zenon DEF Stopper
<1>3. ASSUME NEW c \in Client, Observer(c) PROVE LifecycleInv'
  BY <1>3, WaitBeginKeeps, RemoveBeginKeeps, WaitFinishKeeps, LeavingKeeps,
     RemoveRecordsKeeps, ReconcilersKeep, PeekKeeps, Zenon DEF Observer
<1>4. ASSUME NEW r \in Run, Monitor(r) PROVE LifecycleInv'
  BY <1>4, WritesPidfileKeeps, RunningKeeps, RecordsExitKeeps, UnlinksPidfileKeeps, DiesKeeps, Zenon
     DEF Monitor
<1>5. CASE UNCHANGED vars
  <2>1. TypeOK' /\ foreign' = {}
    BY <1>5, Zenon DEF vars, LifecycleInv, TypeOK
  <2>2. Holder' /\ StarterOwns' /\ ReaperTarget' /\ SpawnedAwaited'
    BY <1>5, Zenon DEF vars, LifecycleInv, Holder, StarterOwns, ReaperTarget, SpawnedAwaited, Alive
  <2>3. ArmedTracked' /\ ReconciledState' /\ UnlinkedGone'
    BY <1>5, Zenon DEF vars, LifecycleInv, ArmedTracked, ReconciledState, UnlinkedGone, Armed
  <2>4. StoredGeneration' /\ StoredStart' /\ DistinctPids' /\ FutureRuns' /\ RecordedOver'
    BY <1>5, Zenon DEF vars, LifecycleInv, StoredGeneration, StoredStart, DistinctPids, FutureRuns,
       RecordedOver, Alive
  <2>5. KillerTarget' /\ RemovedInactive' /\ StopperTarget'
    BY <1>5, Zenon DEF vars, LifecycleInv, KillerTarget, RemovedInactive, StopperTarget, Generation
  <2> QED BY <2>1, <2>2, <2>3, <2>4, <2>5, Zenon DEF LifecycleInv
<1>6. ForeignPid = {}
  BY Zenon DEF Provisos
<1> QED BY <1>1, <1>2, <1>3, <1>4, <1>5, <1>6, LeavingKeeps, Zenon DEF Next

\* The inductive invariant holds in every reachable state, for any number of
\* clients, pids and runs and any choice of operations.
THEOREM LifecycleInvariant == Provisos => (Spec => []LifecycleInv)
<1> SUFFICES ASSUME Provisos PROVE Spec => []LifecycleInv
  BY Zenon
<1>1. Init => LifecycleInv
  BY LifecycleInit, Zenon
<1>2. LifecycleInv /\ [Next]_vars => LifecycleInv'
  BY LifecycleNext, Zenon
<1> QED BY <1>1, <1>2, PTL DEF Spec

\* Every variable keeps its type.
THEOREM LifecycleTypes == Provisos => (Spec => []TypeOK)
<1>1. LifecycleInv => TypeOK
  BY Zenon DEF LifecycleInv
<1> QED BY <1>1, LifecycleInvariant, PTL

\* A live VM is the run the stored state names, and that state is active: no
\* start, stop, kill, wait, removal or reconciliation by any other client, and
\* no crash, writes a running VM off.
THEOREM LiveVMsAreTracked == Provisos => (Spec => []LiveVMIsTracked)
<1>1. LifecycleInv => LiveVMIsTracked
  BY Zenon DEF LifecycleInv, ArmedTracked, Armed, LiveVMIsTracked, VMLive
<1> QED BY <1>1, LifecycleInvariant, PTL

\* No two monitors have a VM at the same time.
THEOREM NeverTwoVMs == Provisos => (Spec => []AtMostOneVM)
<1>1. LifecycleInv => AtMostOneVM
  BY Zenon DEF LifecycleInv, ArmedTracked, Armed, AtMostOneVM, VMLive
<1> QED BY <1>1, LifecycleInvariant, PTL

\* An exit record never names a run whose VM is still up, whether the monitor
\* or kill_impl wrote it.
THEOREM ExitRecordsAreFinal == Provisos => (Spec => []ExitRecordIsFinal)
<1>1. LifecycleInv => ExitRecordIsFinal
  BY Zenon DEF LifecycleInv, RecordedOver, ExitRecordIsFinal, VMLive
<1> QED BY <1>1, LifecycleInvariant, PTL

\* The only steps that remove vm.lock remove vm.pid with it and leave the
\* monitors as they are.
LEMMA RunTreeSteps ==
  ASSUME LifecycleInv, [Next]_vars, lockfile # 0, lockfile' = 0
  PROVE  pidfile' = None /\ vmm' = vmm
<1>a. TypeOK /\ \A i \in EnsureLockfile \cup LockfileObserved : i # 0
  <2>1. TypeOK
    BY Zenon DEF LifecycleInv
  <2> QED BY <2>1, Zenon DEF EnsureLockfile, LockfileObserved, Ino
<1>1. ASSUME NEW c \in Client, Starter(c) PROVE pidfile' = None /\ vmm' = vmm
  BY <1>a, <1>1, Zenon DEF Starter, StartBegin, StartRefused, PrepareFails, Spawn, Handoff,
     StartTimesOut, StartReady, FailedStart, ReapKill, ReapDone, ReapGivesUp,
     FailedStartRecorded, RunTreeRemoved
<1>2. ASSUME NEW c \in Client, Stopper(c) PROVE pidfile' = None /\ vmm' = vmm
  BY <1>a, <1>2, Zenon DEF Stopper, StopBegin, KillBegin, BeginOn, ReconcileTo, StopSettle,
     StopSignal, StopFinish, StopTimesOut, Escalate, KillInactive, KillSettle, KillSignal,
     KillRecord, KillFinish, KillTimesOut, Settle, CompleteStop, RunTreeRemoved
<1>3. ASSUME NEW c \in Client, Observer(c) PROVE pidfile' = None /\ vmm' = vmm
  BY <1>a, <1>3, Zenon DEF Observer, WaitBegin, RemoveBegin, WaitFinish, WaitTimesOut,
     RemoveRecords, Reconcile, Peek, PeekDone, PeekReconcile, ReconcileTo, RunTreeRemoved
<1>4. ASSUME NEW r \in Run PROVE ~Monitor(r)
  BY <1>4, Zenon DEF Monitor, VmmWritesPidfile, VmmBoots, VmmReports, VmmEnds, VmmRecordsExit,
     VmmUnlinksPidfile, VmmDies
<1>5. (\A c \in Client : ~ClientCrash(c)) /\ (\A p \in ForeignPid : ~HostProcess(p))
  BY Zenon DEF ClientCrash, HostProcess
<1> QED BY <1>1, <1>2, <1>3, <1>4, <1>5, Zenon DEF Next, vars

\* cleanup_machine_resources_locked never takes vm.lock away under a live VM.
THEOREM RunTreesOutliveVMs == Provisos => (Spec => RunTreeOutlivesVM)
<1> SUFFICES ASSUME Provisos PROVE Spec => RunTreeOutlivesVM
  BY Zenon
<1>1. LifecycleInv /\ [Next]_vars
        => [lockfile # 0 /\ lockfile' = 0 => \A r \in Run : ~VMLive(r)]_vars
  <2> SUFFICES ASSUME LifecycleInv, [Next]_vars, lockfile # 0, lockfile' = 0,
                      NEW r \in Run, VMLive(r)
               PROVE  FALSE
    BY Zenon
  <2>1. pidfile' = None /\ vmm' = vmm
    BY RunTreeSteps, Zenon
  <2>2. LifecycleInv'
    BY LifecycleNext, Zenon
  <2>3. Armed(r)' /\ Alive(r)' /\ vmm'[r].pid # None
    BY <2>1, <2>2, Zenon DEF VMLive, Armed, Alive, LifecycleInv, DistinctPids
  <2> QED BY <2>1, <2>2, <2>3, Zenon DEF LifecycleInv, ArmedTracked
<1> QED BY <1>1, LifecycleInvariant, PTL DEF Spec, RunTreeOutlivesVM

\* A new run is drawn only when no earlier monitor has a VM or can still boot
\* one: the stored state and vm.pid rule it out before a start goes ahead.
THEOREM StartsHappenAlone == Provisos => (Spec => StartsAlone)
<1> SUFFICES ASSUME Provisos PROVE Spec => StartsAlone
  BY Zenon
<1> DEFINE Alone == \A r \in Run : /\ ~VMLive(r)
                                   /\ vmm[r].phase \in {"spawned", "armed"} => ~vmm[r].req
<1>1. LifecycleInv /\ [Next]_vars => [runs' # runs => Alone]_vars
  <2> SUFFICES ASSUME LifecycleInv, [Next]_vars, runs' # runs PROVE Alone
    BY Zenon
  <2>1. PICK c \in Client : StartBegin(c)
    <3>1. ASSUME NEW c \in Client PROVE ~(Stopper(c) \/ Observer(c) \/ ClientCrash(c))
      BY Zenon DEF Stopper, Observer, ClientCrash, StopBegin, KillBegin, BeginOn, StopSettle,
         StopSignal, StopFinish, StopTimesOut, Escalate, KillInactive, KillSettle, KillSignal,
         KillRecord, KillFinish, KillTimesOut, Settle, WaitBegin, RemoveBegin, WaitFinish,
         WaitTimesOut, RemoveRecords, Reconcile, Peek, PeekDone, PeekReconcile
    <3>2. ASSUME NEW c \in Client, Starter(c) PROVE StartBegin(c)
      BY <3>2, Zenon DEF Starter, StartRefused, PrepareFails, Spawn, Handoff, StartTimesOut,
         StartReady, FailedStart, ReapKill, ReapDone, ReapGivesUp
    <3>3. ASSUME NEW r \in Run PROVE ~Monitor(r)
      BY Zenon DEF Monitor, VmmWritesPidfile, VmmBoots, VmmReports, VmmEnds, VmmRecordsExit,
         VmmUnlinksPidfile, VmmDies
    <3>4. \A p \in ForeignPid : ~HostProcess(p)
      BY Zenon DEF HostProcess
    <3> QED BY <3>1, <3>2, <3>3, <3>4, Zenon DEF Next, vars
  <2>2. /\ mlock = None /\ exists
        /\ \E o \in observe_machine_state(FALSE) : ~is_active(o.status)
    BY <2>1, Zenon DEF StartBegin, Locks
  <2>3. \A r \in Run : ~Armed(r) /\ vmm[r].phase # "spawned"
    BY <2>2, ObservedFits, NoneSpawned, Zenon DEF Fits
  <2> QED BY <2>3, Zenon DEF Armed, VMLive
<1> QED BY <1>1, LifecycleInvariant, PTL DEF Spec, StartsAlone

-----------------------------------------------------------------------------
(* Signals of the fenced operations.                                        *)

\* The run a fenced stop or kill was asked for is the stored one.
FencedRun == \A c \in Client : cl[c].pc \in {"stop", "kill"} /\ cl[c].exp # None =>
               st.run = cl[c].exp

\* What an operation of c changes: its own locals, and the stored state only
\* with the machine lock or while that is free.
LEMMA OwnSteps ==
  ASSUME LifecycleInv, NEW c \in Client,
         Starter(c) \/ Stopper(c) \/ Observer(c) \/ ClientCrash(c)
  PROVE  /\ \A b \in Client \ {c} : cl'[b] = cl[b]
         /\ st' = st \/ mlock \in {None, c}
<1>1. cl \in [Client -> ClientStates] /\ (cl[c].pc \in LockedPCs => mlock = c)
  BY Zenon DEF LifecycleInv, TypeOK, Holder
<1>2. ASSUME Starter(c)
      PROVE  /\ \A b \in Client \ {c} : cl'[b] = cl[b]
             /\ st' = st \/ mlock \in {None, c}
  <2>1. \A b \in Client \ {c} : cl'[b] = cl[b]
    BY <1>1, <1>2, Zenon DEF Starter, StartBegin, StartRefused, PrepareFails, Spawn, Handoff,
       StartTimesOut, StartReady, FailedStart, ReapKill, ReapDone, ReapGivesUp,
       FailedStartRecorded, Goto, Drop
  <2>2. st' = st \/ mlock \in {None, c}
    BY <1>1, <1>2, Zenon DEF Starter, StartBegin, Locks, StartRefused, PrepareFails, Spawn, Handoff,
       StartTimesOut, StartReady, FailedStart, ReapKill, ReapDone, ReapGivesUp,
       LockedPCs, StarterPCs
  <2> QED BY <2>1, <2>2, Zenon
<1>3. ASSUME Stopper(c)
      PROVE  /\ \A b \in Client \ {c} : cl'[b] = cl[b]
             /\ st' = st \/ mlock \in {None, c}
  <2>1. \A b \in Client \ {c} : cl'[b] = cl[b]
    BY <1>1, <1>3, Zenon DEF Stopper, StopBegin, KillBegin, BeginOn, StopSettle, Settle, StopSignal,
       StopFinish, StopTimesOut, Escalate, KillInactive, KillSettle, KillSignal, KillRecord,
       KillFinish, KillTimesOut, Goto, Drop
  <2>2. st' = st \/ mlock \in {None, c}
    BY <1>1, <1>3, Zenon DEF Stopper, StopBegin, KillBegin, Locks, StopSettle, StopSignal,
       StopFinish, StopTimesOut, Escalate, KillInactive, KillSettle, KillSignal, KillRecord,
       KillFinish, KillTimesOut, LockedPCs
  <2> QED BY <2>1, <2>2, Zenon
<1>4. ASSUME Observer(c)
      PROVE  /\ \A b \in Client \ {c} : cl'[b] = cl[b]
             /\ st' = st \/ mlock \in {None, c}
  <2>1. \A b \in Client \ {c} : cl'[b] = cl[b]
    BY <1>1, <1>4, Zenon DEF Observer, WaitBegin, RemoveBegin, WaitFinish, WaitTimesOut,
       RemoveRecords, Reconcile, Peek, PeekDone, PeekReconcile, Goto, Drop
  <2>2. st' = st \/ mlock \in {None, c}
    BY <1>1, <1>4, Zenon DEF Observer, WaitBegin, RemoveBegin, WaitFinish, WaitTimesOut,
       RemoveRecords, Reconcile, Peek, PeekDone, PeekReconcile, Locks
  <2> QED BY <2>1, <2>2, Zenon
<1>5. ASSUME ClientCrash(c)
      PROVE  (\A b \in Client \ {c} : cl'[b] = cl[b]) /\ st' = st
  BY <1>1, <1>5, Zenon DEF ClientCrash, Drop, Goto
<1> QED BY <1>2, <1>3, <1>4, <1>5, Zenon

\* A stop or kill begins with require_current_run, and ends where it is with the
\* signal, or without a wait.
LEMMA FencedSteps ==
  ASSUME LifecycleInv, NEW c \in Client,
         Starter(c) \/ Stopper(c) \/ Observer(c) \/ ClientCrash(c)
  PROVE  /\ cl'[c].pc \in {"stop", "kill"} /\ cl'[c].exp # None => st'.run = cl'[c].exp
         /\ cl[c].pc \in {"stop", "kill"} /\ cl'[c].pc \in {"stopWait", "killWait"} =>
              StopSignal(c) \/ KillSignal(c)
<1>1. /\ cl \in [Client -> ClientStates] /\ Idle.pc = "idle"
      /\ \A p : [cl[c] EXCEPT !.pc = p].pc = p
  BY Zenon DEF LifecycleInv, TypeOK, Idle, ClientStates
<1>a. /\ \A l : Goto(c, l) => cl'[c] = l
      /\ Drop(c) => cl'[c].pc = "idle"
  BY <1>1, Zenon DEF Goto, Drop
<1>2. ASSUME Starter(c) \/ Observer(c) \/ ClientCrash(c)
      PROVE  /\ cl'[c].pc \notin {"stop", "kill"}
             /\ cl[c].pc \notin {"stop", "kill"} \/ cl'[c].pc = "idle"
  <2>1. CASE Starter(c)
    <3>1. cl[c] \in ClientStates
      BY <1>1, Zenon
    <3>2. ASSUME StartBegin(c)
          PROVE  cl[c].pc = "idle" /\ cl'[c].pc \in {"refused", "prepare"}
      BY <1>a, <3>1, <3>2, Zenon DEF StartBegin, Locks, ClientStates
    <3>3. ASSUME PrepareFails(c) \/ StartTimesOut(c)
          PROVE  cl[c].pc \in {"prepare", "handoff", "await"} /\ cl'[c].pc = "failed"
      BY <1>a, <3>1, <3>3, Zenon DEF PrepareFails, StartTimesOut, ClientStates
    <3>4. ASSUME Spawn(c) \/ Handoff(c)
          PROVE  cl[c].pc \in {"prepare", "handoff"} /\ cl'[c].pc \in {"handoff", "await"}
      BY <1>a, <1>1, <3>4, Zenon DEF Spawn, Handoff
    <3>5. ASSUME StartReady(c)
          PROVE  cl[c].pc = "await" /\ cl'[c].pc \in {"idle", "failed"}
      BY <1>a, <3>1, <3>5, Zenon DEF StartReady, ClientStates
    <3>6. ASSUME FailedStart(c)
          PROVE  cl[c].pc = "failed" /\ cl'[c].pc \in {"idle", "reaping"}
      BY <1>a, <3>1, <3>6, Zenon DEF FailedStart, FailedStartRecorded, ClientStates
    <3>7. ASSUME StartRefused(c) \/ ReapDone(c) \/ ReapGivesUp(c) PROVE cl'[c].pc = "idle"
      BY <1>a, <3>7, Zenon DEF StartRefused, ReapDone, ReapGivesUp, FailedStartRecorded
    <3>8. ASSUME StartRefused(c) \/ ReapDone(c) \/ ReapGivesUp(c) \/ ReapKill(c)
          PROVE  cl[c].pc \in {"refused", "reaping"}
      BY <3>8, Zenon DEF StartRefused, ReapDone, ReapGivesUp, ReapKill
    <3>9. ReapKill(c) => UNCHANGED cl
      BY Zenon DEF ReapKill
    <3> QED BY <2>1, <3>2, <3>3, <3>4, <3>5, <3>6, <3>7, <3>8, <3>9, Zenon DEF Starter
  <2>2. CASE Observer(c)
    <3>1. cl[c] \in ClientStates
      BY <1>1, Zenon
    <3>2. ASSUME NEW e, WaitBegin(c, e) \/ RemoveBegin(c, e)
          PROVE  cl[c].pc = "idle" /\ cl'[c].pc \in {"idle", "wait", "remove"}
      BY <1>a, <3>1, <3>2, Zenon DEF WaitBegin, RemoveBegin, Locks, ClientStates
    <3>3. ASSUME WaitFinish(c) \/ WaitTimesOut(c) \/ RemoveRecords(c) \/ PeekReconcile(c)
          PROVE  cl'[c].pc = "idle"
      BY <1>a, <3>3, Zenon DEF WaitFinish, WaitTimesOut, RemoveRecords, PeekReconcile
    <3>4. ASSUME Reconcile(c) \/ Peek(c)
          PROVE  cl[c].pc = "idle" /\ cl'[c].pc \in {"idle", "peek"}
      BY <1>a, <3>1, <3>4, Zenon DEF Reconcile, Peek, Locks, ClientStates
    <3>5. ASSUME PeekDone(c) PROVE cl[c].pc = "peek" /\ cl'[c].pc \in {"idle", "peeked"}
      BY <1>a, <3>5, Zenon DEF PeekDone, Idle
    <3> QED BY <2>2, <3>2, <3>3, <3>4, <3>5, Zenon DEF Observer
  <2>3. CASE ClientCrash(c)
    BY <1>1, <2>3, Zenon DEF ClientCrash, Goto, Drop
  <2> QED BY <1>2, <2>1, <2>2, <2>3, Zenon
<1>3. ASSUME NEW e, NEW next, BeginOn(c, e, next)
      PROVE  cl'[c].pc = "idle" \/ (cl'[c].exp = e /\ (e # None => st'.run = e))
  BY <1>1, <1>3, Zenon DEF BeginOn, ReconcileTo, require_run_id, Goto, Drop, ClientStates
<1>4. ASSUME NEW e, StopBegin(c, e) \/ KillBegin(c, e) PROVE cl[c].pc = "idle"
  BY <1>4, Zenon DEF StopBegin, KillBegin, Locks
<1>5. CASE \E e \in ExpectedRun : StopBegin(c, e) \/ KillBegin(c, e)
  BY <1>3, <1>4, <1>5, Zenon DEF StopBegin, KillBegin
<1>6. CASE Escalate(c)
  <2>1. cl[c].pc = "escalate"
    BY <1>6, Zenon DEF Escalate
  <2>2. CASE BeginOn(c, cl[c].exp, "kill")
    BY <1>3, <2>1, <2>2, Zenon
  <2>3. CASE Drop(c)
    BY <1>1, <2>1, <2>3, Zenon DEF Drop, Goto
  <2> QED BY <1>6, <2>2, <2>3, Zenon DEF Escalate
<1>7. CASE StopSettle(c) \/ KillInactive(c) \/ KillSettle(c) \/ StopFinish(c) \/ KillFinish(c)
           \/ KillTimesOut(c)
  BY <1>1, <1>7, Zenon DEF StopSettle, KillInactive, KillSettle, Settle, StopFinish, KillFinish,
     KillTimesOut, Drop, Goto
<1>8. CASE StopTimesOut(c) \/ KillRecord(c)
  <2>2. CASE StopTimesOut(c)
    BY <1>a, <2>2, Zenon DEF StopTimesOut, Idle
  <2>3. CASE KillRecord(c)
    BY <1>a, <1>1, <2>3, Zenon DEF KillRecord
  <2> QED BY <1>8, <2>2, <2>3, Zenon
<1>9. CASE StopSignal(c) \/ KillSignal(c)
  <2>1. cl[c] \in ClientStates
    BY <1>1, Zenon
  <2>2. cl'[c].pc \in {"idle", "stopWait", "killWait"}
    BY <1>a, <1>9, <2>1, Zenon DEF StopSignal, KillSignal, ClientStates
  <2> QED BY <1>9, <2>2, Zenon
<1> QED BY <1>2, <1>5, <1>6, <1>7, <1>8, <1>9, Zenon DEF Stopper

\* The stored run stays the one a fenced operation was asked for: nobody else
\* writes the row while the operation has the machine lock.
LEMMA FencedNext == LifecycleInv /\ FencedRun /\ [Next]_vars => FencedRun'
<1> SUFFICES ASSUME LifecycleInv, FencedRun, [Next]_vars, NEW b \in Client,
                    cl'[b].pc \in {"stop", "kill"}, cl'[b].exp # None
             PROVE  st'.run = cl'[b].exp
  BY Zenon DEF FencedRun
<1>1. CASE UNCHANGED <<st, cl>>
  BY <1>1, Zenon DEF FencedRun
<1>2. ASSUME NEW c \in Client, Starter(c) \/ Stopper(c) \/ Observer(c) \/ ClientCrash(c)
      PROVE  st'.run = cl'[b].exp
  <2>1. CASE b = c
    BY <1>2, <2>1, FencedSteps, Zenon
  <2>2. CASE b # c
    <3>1. cl'[b] = cl[b] /\ (st' = st \/ mlock \in {None, c})
      BY <1>2, <2>2, OwnSteps, Zenon
    <3>2. mlock = b
      BY <3>1, Zenon DEF LifecycleInv, Holder, LockedPCs
    <3>3. None \notin Client
      BY LifecycleAssumption, Zenon
    <3> QED BY <2>2, <3>1, <3>2, <3>3, Zenon DEF FencedRun
  <2> QED BY <2>1, <2>2, Zenon
<1>3. ASSUME NEW r \in Run, Monitor(r) PROVE UNCHANGED <<st, cl>>
  BY <1>3, Zenon DEF Monitor, VmmWritesPidfile, VmmBoots, VmmReports, VmmEnds, VmmRecordsExit,
     VmmUnlinksPidfile, VmmDies
<1>4. ASSUME NEW p \in ForeignPid, HostProcess(p) PROVE UNCHANGED <<st, cl>>
  BY <1>4, Zenon DEF HostProcess
<1> QED BY <1>1, <1>2, <1>3, <1>4, Zenon DEF Next, vars

\* An operation fenced to a run signals the monitor of that run only: the stored
\* pid and start time are those of the run it was asked for.
THEOREM SignalsAreFenced == Provisos => (Spec => FencedSignals)
<1> SUFFICES ASSUME Provisos PROVE Spec => FencedSignals
  BY Zenon
<1> DEFINE A == \A c \in Client, r \in Run :
                  /\ cl[c].pc \in {"stop", "kill"} /\ cl[c].exp # None
                  /\ cl'[c].pc \in {"stopWait", "killWait"}
                  /\ vmm'[r].sig # vmm[r].sig
                  => r = cl[c].exp
<1>1. LifecycleInv /\ FencedRun /\ [Next]_vars => [A]_vars
  <2> SUFFICES ASSUME LifecycleInv, FencedRun, Next, NEW c \in Client, NEW r \in Run,
                      cl[c].pc \in {"stop", "kill"}, cl[c].exp # None,
                      cl'[c].pc \in {"stopWait", "killWait"}, vmm'[r].sig # vmm[r].sig
               PROVE  r = cl[c].exp
    BY Zenon
  <2>1. ASSUME NEW b \in Client, Starter(b) \/ Stopper(b) \/ Observer(b) \/ ClientCrash(b)
        PROVE  StopSignal(c) \/ KillSignal(c)
    BY <2>1, OwnSteps, FencedSteps, Zenon
  <2>2. ASSUME NEW q \in Run, Monitor(q) PROVE UNCHANGED cl
    BY <2>2, Zenon DEF Monitor, VmmWritesPidfile, VmmBoots, VmmReports, VmmEnds, VmmRecordsExit,
       VmmUnlinksPidfile, VmmDies
  <2>3. ASSUME NEW p \in ForeignPid, HostProcess(p) PROVE UNCHANGED cl
    BY <2>3, Zenon DEF HostProcess
  <2>4. StopSignal(c) \/ KillSignal(c)
    BY <2>1, <2>2, <2>3, Zenon DEF Next
  <2>5. /\ Alive(r) /\ vmm[r].pid = st.pid
        /\ st.pid # None /\ ProcAlive(st.pid, st.started)
    BY <2>4, Zenon DEF StopSignal, KillSignal, Signalled, StoredMonitorAlive
  <2>6. r = st.run
    <3>1. foreign = {} /\ st.run \in Run /\ st.started = st.run /\ None \notin Run
      BY <2>5, LifecycleAssumption, SMTT(30) DEF LifecycleInv, StoredGeneration, Run
    <3>2. PICK q \in Run : Alive(q) /\ vmm[q].pid = st.pid /\ st.started \in {None, q}
      BY <2>5, <3>1, Zenon DEF ProcAlive
    <3> QED BY <2>5, <3>1, <3>2, Zenon DEF LifecycleInv, DistinctPids
  <2> QED BY <2>6, Zenon DEF FencedRun
<1>2. Init => FencedRun
  BY SMTT(30) DEF Init, FencedRun, Idle
<1>3. FencedSignals <=> [][A]_vars
  BY Zenon DEF FencedSignals
<1> HIDE DEF A
<1> QED BY <1>1, <1>2, <1>3, FencedNext, LifecycleInvariant, PTL DEF Spec

=============================================================================
