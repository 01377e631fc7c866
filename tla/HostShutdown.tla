------------------------------ MODULE HostShutdown ------------------------------
(***************************************************************************)
(* Host shutdown: logind announces it, taild holds a delay inhibitor until *)
(* every managed VM is stopped, and nothing may start a VM meanwhile; when *)
(* the shutdown is called off, admission opens again.                      *)
(*                                                                         *)
(*   E  admitEvents, the goroutine that takes PrepareForShutdown signals   *)
(*   W  watch, the one that decides on sweeps and on recovery              *)
(*   S  the worker of stopEpisode, or W's worker that settles              *)
(*   R  recoverShutdownSeal, when taild starts                             *)
(*   H  the ExecStop process (runShutdownOnly), under its own lease        *)
(* and taild's operations (Operations), the poll of the marker, the        *)
(* daemon's admission of mutations and the command line's starts.          *)
(*                                                                         *)
(* One managed VM stands for all of them.  The graceful stop of a VM and   *)
(* the forced one that follows it are one call.  Revisions, not contexts:  *)
(* an episode's context is done when the episode is not the current one,   *)
(* is not preparing or is past its deadline.                               *)
(***************************************************************************)
EXTENDS Operations, Sequences

\* The bounds a behaviour may have: changes of logind's PreparingForShutdown,
\* deaths of taild, starts asked by the command line, and the faults it meets.
CONSTANT HostBounds

ASSUME HostAssumption ==
  /\ HostBounds \subseteq [signals : Nat, restarts : Nat, starts : Nat, faults : SUBSET {"bus", "disk"}]
  /\ \A j \in Jobs : j \notin {"cli", "S", "H"}

VARIABLES host,     \* logind and systemd: prep, stopping, changes so far
          sigs,     \* signals on their way to E
          rev,      \* ShutdownGate.revision; odd is sealed
          marker,   \* the file taild/shutdown
          disk,     \* ShutdownGate.diskMu
          ep,       \* Inhibitor.current, and whether its deadline is past
          stopped,  \* Inhibitor.completedRevision
          fd,       \* Inhibitor.fd is held
          fired,    \* revisions of the timers that wait for the mutex
          acq,      \* watch's acquisition
          event,    \* admitEvents' channel of one slot is full
          E, W, S, H, R,
          mut,      \* mutations inside the daemon, by client
          up,       \* the managed VM runs
          life      \* taild's deaths, the command line's starts, and their bounds

hostVars == <<host, sigs>>
gateVars == <<rev, marker, disk>>
epVars == <<ep, stopped, fd, fired>>
daemonVars == <<mut, up>>
vars == <<opVars, hostVars, gateVars, epVars, acq, event, E, W, S, H, R, daemonVars, life>>

Faults == life.bound.faults

Client == Jobs \cup {"cli", "S", "H"}

Pending == rev % 2 = 1

Alive == W.pc # "down"

\* Inhibitor.closed, with the bus connection
Closed == W.pc \in {"closed", "down"}

-----------------------------------------------------------------------------
(* The daemon (cli/lib/daemon/control.rs).  A start is protected: admit     *)
(* reads the marker and takes the permit while it holds the admission       *)
(* mutex.  A stop is not protected.  A mutation outlives its caller.        *)

AdmissionFree == \A c \in Client : mut[c] # "admit"

Admit(c) ==
  /\ mut[c] = "none" /\ AdmissionFree /\ ~marker
  /\ mut' = [mut EXCEPT ![c] = "admit"]
  /\ UNCHANGED up

Permit(c) ==
  /\ mut[c] = "admit"
  /\ mut' = [mut EXCEPT ![c] = "start"]
  /\ UNCHANGED <<opVars, hostVars, gateVars, epVars, acq, event, E, W, S, H, R, up, life>>

\* The spawned task ends and drops its permit; the error of a failed stop goes
\* to its caller if that still waits.
Settle(c) ==
  /\ mut[c] \in {"start", "stop"}
  /\ \/ mut' = [mut EXCEPT ![c] = "none"] /\ up' = (mut[c] = "start")
     \/ mut[c] = "start" /\ mut' = [mut EXCEPT ![c] = "none"] /\ UNCHANGED up
     \/ /\ mut[c] = "stop" /\ up /\ UNCHANGED up
        /\ mut' = [mut EXCEPT ![c] = IF c = "S" /\ S.pc = "stop" THEN "failed" ELSE "none"]
  /\ UNCHANGED <<opVars, hostVars, gateVars, epVars, acq, event, E, W, S, H, R, life>>

Stop(c) ==
  /\ mut[c] = "none" /\ AdmissionFree
  /\ mut' = [mut EXCEPT ![c] = "stop"]
  /\ UNCHANGED up

\* drain_mutations, authorized by the marker, returns once no permit is out.
MutationsDrained == marker /\ \A c \in Client : mut[c] \in {"none", "failed"}

CliStart ==
  /\ life.starts < life.bound.starts
  /\ Admit("cli")
  /\ life' = [life EXCEPT !.starts = @ + 1]
  /\ UNCHANGED <<opVars, hostVars, gateVars, epVars, acq, event, E, W, S, H, R>>

-----------------------------------------------------------------------------
(* The host (external).                                                     *)

\* logind announces a shutdown, or calls it off.
HostChanges ==
  /\ ~host.stopping /\ host.n < life.bound.signals
  /\ host' = [host EXCEPT !.prep = ~@, !.n = @ + 1]
  /\ sigs' = IF ~Closed THEN Append(sigs, ~host.prep) ELSE sigs
  /\ UNCHANGED <<opVars, gateVars, epVars, acq, event, E, W, S, H, R, daemonVars, life>>

\* It goes down once the inhibitor is released.
HostStops ==
  /\ host.prep /\ ~host.stopping /\ ~fd
  /\ host' = [host EXCEPT !.stopping = TRUE]
  /\ UNCHANGED <<opVars, sigs, gateVars, epVars, acq, event, E, W, S, H, R, daemonVars, life>>

-----------------------------------------------------------------------------
(* The gate (state/shutdown_gate.go) and the episode (episode_linux.go).    *)

\* How an operation on the marker's file may go.
Outcome == {TRUE} \cup (IF "disk" \in Faults THEN {FALSE} ELSE {})

\* Seal: the next odd revision.
Sealed == IF Pending THEN rev + 2 ELSE rev + 1

\* Mark writes the marker while the gate is sealed; the write may fail.
Mark(ok) ==
  /\ disk = "free"
  /\ ok \/ Pending
  /\ marker' = (marker \/ (Pending /\ ok))

\* The context of the episode of revision r is done.
ContextDone(r) == Closed \/ ep.phase # "preparing" \/ ep.rev # r \/ ep.late

needsFD ==
  /\ ~fd
  /\ \/ ep.phase = "cancelled"
     \/ ep.phase = "preparing" /\ ~ep.late /\ stopped # ep.rev

\* Mutant: no timer was armed for the deadline.
DeadlinePassesSilently ==
  /\ Alive /\ ep.phase = "preparing" /\ ~ep.late
  /\ ep' = [ep EXCEPT !.late = TRUE]
  /\ UNCHANGED <<opVars, hostVars, gateVars, stopped, fd, fired, acq, event, E, W, S, H, R, daemonVars, life>>

\* The deadline of the current episode passes; its timer fires.
DeadlinePasses ==
  /\ Alive /\ ep.phase = "preparing" /\ ~ep.late
  /\ ep' = [ep EXCEPT !.late = TRUE]
  /\ fired' = IF Closed THEN fired ELSE fired \cup {ep.rev}
  /\ UNCHANGED <<opVars, hostVars, gateVars, stopped, fd, acq, event, E, W, S, H, R, daemonVars, life>>

\* Mutant: the timer closes whatever descriptor it finds.
TimerRunsBlind(r) ==
  /\ r \in fired
  /\ fd' = FALSE
  /\ fired' = fired \ {r}
  /\ UNCHANGED <<opVars, hostVars, gateVars, ep, stopped, acq, event, E, W, S, H, R, daemonVars, life>>

\* The timer's callback gets the mutex; the episode may have changed.
TimerRuns(r) ==
  /\ r \in fired
  /\ fd' = (fd /\ ~(ep.phase = "preparing" /\ ep.rev = r))
  /\ fired' = fired \ {r}
  /\ UNCHANGED <<opVars, hostVars, gateVars, ep, stopped, acq, event, E, W, S, H, R, daemonVars, life>>

\* installFD: the state current when the reply arrives decides.
installFD == fd' = ~(ep.phase = "preparing" /\ (ep.late \/ stopped = ep.rev))

\* reacquire's reply.
Reacquired(ok) ==
  /\ acq = "call"
  /\ IF ok /\ ~Closed
     THEN /\ IF fd THEN UNCHANGED fd ELSE installFD
          /\ acq' = "ok"
     ELSE acq' = "err" /\ UNCHANGED fd
  /\ UNCHANGED <<opVars, hostVars, gateVars, ep, stopped, fired, event, E, W, S, H, R, daemonVars, life>>

-----------------------------------------------------------------------------
(* E: admitEvents.  Intake never touches the disk; publish leaves the latest *)
(* event in the channel's one slot.                                         *)

\* accept: a signal from before the snapshot of the property tells nothing new.
ESame ==
  /\ Alive /\ E.pc = "idle" /\ sigs # <<>> /\ Head(sigs) = E.order
  /\ sigs' = Tail(sigs)
  /\ UNCHANGED <<opVars, host, gateVars, epVars, acq, event, E, W, S, H, R, daemonVars, life>>

\* transition(true): a new episode, sealed; an inhibitor that is closed has none.
EPreparing ==
  /\ Alive /\ E.pc = "idle" /\ sigs # <<>> /\ Head(sigs) /\ ~E.order
  /\ sigs' = Tail(sigs)
  /\ E' = [pc |-> "interrupt", order |-> TRUE]
  /\ IF Closed THEN UNCHANGED <<rev, ep>>
     ELSE /\ rev' = Sealed
          /\ ep' = [phase |-> "preparing", rev |-> Sealed, late |-> FALSE]
  /\ UNCHANGED <<opVars, host, marker, disk, stopped, fd, fired, acq, event, W, S, H, R, daemonVars, life>>

\* Mutant: the interruption is left to the poll of the marker.
EInterruptsNothing ==
  /\ E.pc = "interrupt"
  /\ E' = [E EXCEPT !.pc = "idle"]
  /\ event' = TRUE
  /\ UNCHANGED <<opVars, hostVars, gateVars, epVars, acq, W, S, H, R, daemonVars, life>>

EInterrupts ==
  /\ E.pc = "interrupt"
  /\ Interrupt(TRUE)
  /\ E' = [E EXCEPT !.pc = "idle"]
  /\ event' = TRUE
  /\ UNCHANGED <<hostVars, gateVars, epVars, acq, W, S, H, R, daemonVars, life>>

\* transition(false): the episode is cancelled and the descriptor dropped.
ECancels ==
  /\ Alive /\ E.pc = "idle" /\ sigs # <<>> /\ ~Head(sigs) /\ E.order
  /\ sigs' = Tail(sigs)
  /\ E' = [E EXCEPT !.order = FALSE]
  /\ event' = TRUE
  /\ IF Closed THEN UNCHANGED <<ep, fd>>
     ELSE /\ ep' = [ep EXCEPT !.phase = "cancelled", !.late = FALSE]
          /\ fd' = FALSE
  /\ UNCHANGED <<opVars, host, gateVars, stopped, fired, acq, W, S, H, R, daemonVars, life>>

-----------------------------------------------------------------------------
(* W: watch.  It sweeps for a new episode once the last worker is done, and *)
(* recovers from a cancelled one once nothing of it is left.                *)

notW == <<hostVars, E, H, R, life>>

WorkDone ==
  \/ W.work = "worker" /\ S.pc = "off"
  \/ W.work = "jobs" /\ Drained

\* retire
Work == IF WorkDone THEN "none" ELSE W.work

WGo(pc) == W' = [W EXCEPT !.pc = pc]

\* Back to the select, or to the top of the loop: the snapshot is not used again.
WLoops(pc, work) == W' = [W EXCEPT !.pc = pc, !.work = work, !.phase = "idle", !.rev = 0]

WSnapshot ==
  /\ W.pc = "top"
  /\ W' = [W EXCEPT !.pc = "act", !.phase = ep.phase, !.rev = ep.rev]
  /\ UNCHANGED <<notW, opVars, gateVars, epVars, acq, event, S, daemonVars>>

\* Mutant: an episode is recovered while the worker of an older one runs on.
canRecoverBusy == W.phase = "cancelled"

canRecover == Work = "none" /\ W.phase = "cancelled"

canSweep == Work = "none" /\ W.phase = "preparing" /\ W.rev # W.swept

WActs ==
  /\ W.pc = "act"
  /\ acq' = IF acq = "none" /\ needsFD THEN "call" ELSE acq
  /\ IF canSweep
     THEN /\ S' = [pc |-> "mark", pass |-> 1, rev |-> W.rev, err |-> FALSE]
          /\ W' = [W EXCEPT !.pc = "select", !.work = "worker", !.swept = W.rev, !.phase = "idle", !.rev = 0]
     ELSE /\ UNCHANGED S
          /\ IF acq' = "none" /\ canRecover THEN W' = [W EXCEPT !.pc = "mark", !.work = "none"]
                                             ELSE WLoops("select", Work)
  /\ UNCHANGED <<notW, opVars, gateVars, epVars, event, daemonVars>>

\* watch returns, and closes the inhibitor.
WCloses ==
  /\ WLoops("closed", "none")
  /\ fd' = FALSE
  /\ UNCHANGED <<ep, stopped, fired>>

\* The select: a worker is done, a descriptor was asked for, an event.
WSelects ==
  /\ W.pc = "select"
  /\ \/ WorkDone /\ UNCHANGED <<acq, event>>
     \/ acq = "ok" /\ acq' = "none" /\ UNCHANGED event
     \/ event /\ event' = FALSE /\ UNCHANGED acq
  /\ WLoops("top", Work)
  /\ UNCHANGED <<notW, opVars, gateVars, epVars, S, daemonVars>>

\* The descriptor is refused.
WRefused ==
  /\ W.pc = "select" /\ acq = "err"
  /\ WCloses
  /\ UNCHANGED <<notW, opVars, gateVars, acq, event, S, daemonVars>>

\* The bus or its owner is lost.
WLost ==
  /\ W.pc = "select" /\ "bus" \in Faults
  /\ WCloses
  /\ UNCHANGED <<notW, opVars, gateVars, acq, event, S, daemonVars>>

\* Recovery first makes the seal durable.
WMarks(ok) ==
  /\ W.pc = "mark"
  /\ Mark(ok)
  /\ IF ok THEN WGo("settle") /\ UNCHANGED epVars ELSE WCloses
  /\ UNCHANGED <<notW, opVars, rev, disk, acq, event, S, daemonVars>>

\* Two seconds for the operations, the ExecStop helper and the mutations, in
\* this order; what is not over by then is left to a worker.
WSettles ==
  /\ W.pc = "settle"
  /\ \/ Drained /\ ~H.lease /\ MutationsDrained /\ WGo("check") /\ UNCHANGED S
     \/ ~Drained /\ WLoops("top", "jobs") /\ UNCHANGED S
     \/ /\ Drained /\ (H.lease \/ ~MutationsDrained)
        /\ WLoops("top", "worker")
        /\ S' = [pc |-> "settle", pass |-> 1, rev |-> 0, err |-> TRUE]
  /\ UNCHANGED <<notW, opVars, gateVars, epVars, acq, event, daemonVars>>

Current == ep.phase = "cancelled" /\ ep.rev = W.rev

\* logind's property, systemd's state and recoverEpisode's first look at the
\* episode; an unknown or unsafe host closes.
WChecks ==
  /\ W.pc = "check"
  /\ IF host.stopping /\ ~host.prep THEN WCloses
     ELSE /\ IF ~host.prep /\ Current THEN WGo("lock") ELSE WLoops("select", "none")
          /\ UNCHANGED epVars
  /\ UNCHANGED <<notW, opVars, gateVars, acq, event, S, daemonVars>>

\* Recover takes the disk mutex and compares the revision,
RecoverLocks(r) ==
  /\ disk = "free" /\ rev = r
  /\ disk' = "held"
  /\ UNCHANGED <<rev, marker>>

\* removes the marker,
RecoverClears(ok) ==
  /\ marker' = (marker /\ ~ok)
  /\ disk' = IF ok THEN disk ELSE "free"
  /\ UNCHANGED rev

\* and moves to the next even revision unless a new Seal came first.
RecoverSwaps(r) ==
  /\ rev' = IF rev # r THEN rev ELSE IF r % 2 = 1 THEN r + 1 ELSE r + 2
  /\ disk' = "free"
  /\ UNCHANGED marker

WLocks ==
  /\ W.pc = "lock"
  /\ \/ RecoverLocks(W.rev) /\ WGo("clear")
     \/ disk = "free" /\ rev # W.rev /\ WLoops("select", "none") /\ UNCHANGED gateVars
  /\ UNCHANGED <<notW, opVars, epVars, acq, event, S, daemonVars>>

WClears(ok) ==
  /\ W.pc = "clear"
  /\ RecoverClears(ok)
  /\ IF ok THEN WGo("swap") /\ UNCHANGED epVars ELSE WCloses
  /\ UNCHANGED <<notW, opVars, acq, event, S, daemonVars>>

WSwaps ==
  /\ W.pc = "swap"
  /\ RecoverSwaps(W.rev)
  /\ IF rev = W.rev THEN WGo("recovered") ELSE WLoops("select", "none")
  /\ UNCHANGED <<notW, opVars, epVars, acq, event, S, daemonVars>>

\* The second check of the episode.
WRecovered ==
  /\ W.pc = "recovered"
  /\ IF Current THEN ep' = [ep EXCEPT !.phase = "recovered"] /\ WGo("resume")
                ELSE WLoops("select", "none") /\ UNCHANGED ep
  /\ UNCHANGED <<notW, opVars, gateVars, stopped, fd, fired, acq, event, S, daemonVars>>

\* Mutant: the registry is not told that the shutdown was called off.
WResumesNothing ==
  /\ W.pc = "resume"
  /\ WLoops("select", "none")
  /\ UNCHANGED <<notW, opVars, gateVars, epVars, acq, event, S, daemonVars>>

WResumes ==
  /\ W.pc = "resume"
  /\ Resume
  /\ WLoops("select", "none")
  /\ UNCHANGED <<notW, gateVars, epVars, acq, event, S, daemonVars>>

-----------------------------------------------------------------------------
(* S: stopEpisode's worker.                                                 *)

notS == <<opVars, hostVars, acq, event, E, W, H, R, life>>

SGo(pc) == S' = [S EXCEPT !.pc = pc]

SFails(pc) == S' = [S EXCEPT !.pc = pc, !.err = TRUE]

SMarks(ok) ==
  /\ S.pc = "mark"
  /\ Mark(ok)
  /\ S' = [S EXCEPT !.pc = "list", !.err = ~ok]
  /\ UNCHANGED <<notS, rev, disk, epVars, daemonVars>>

\* Mutant: one pass is enough.
LastPassFirst == 1

\* Mutant: a pass too many.
LastPassThird == 3

LastPass == 2

\* Sweep (supervision/stop.go): stop every VM, drain, stop again, drain.  A VM
\* that is starting may have no run to stop yet; the daemon refuses to drain
\* without a seal.
SSweeps ==
  /\ \/ S.pc = "list" /\ ~up /\ SGo("drain") /\ UNCHANGED daemonVars
     \/ S.pc = "list" /\ (\E d \in Client : mut[d] = "start") /\ SFails("drain") /\ UNCHANGED daemonVars
     \/ S.pc = "list" /\ up /\ Stop("S") /\ SGo("stop")
     \/ S.pc = "stop" /\ mut["S"] = "none" /\ SGo("drain") /\ UNCHANGED daemonVars
     \/ /\ S.pc = "stop" /\ mut["S"] = "failed" /\ SFails("drain")
        /\ mut' = [mut EXCEPT !["S"] = "none"] /\ UNCHANGED up
     \/ /\ S.pc = "drain" /\ MutationsDrained
        /\ S' = IF S.pass = LastPass THEN [S EXCEPT !.pc = "swept"]
                                     ELSE [S EXCEPT !.pc = "list", !.pass = @ + 1]
        /\ UNCHANGED daemonVars
     \/ S.pc = "drain" /\ ~marker /\ SFails("swept") /\ UNCHANGED daemonVars
     \/ /\ S.pc \in {"list", "stop", "drain"} /\ ContextDone(S.rev)
        /\ SFails("swept")
        /\ mut' = [mut EXCEPT !["S"] = IF @ = "failed" THEN "none" ELSE @] /\ UNCHANGED up
  /\ UNCHANGED <<notS, gateVars, epVars>>

\* Then the operations and, without an error, the ExecStop helper and the
\* mutations, until the episode's context is done.
SWaits ==
  /\ S.pc = "swept"
  /\ \/ Drained /\ (S.err \/ (~H.lease /\ MutationsDrained)) /\ SGo("snapshot")
     \/ Drained /\ ~S.err /\ ~H.lease /\ ~marker /\ SFails("snapshot")
     \/ ContextDone(S.rev) /\ SFails("snapshot")
  /\ UNCHANGED <<notS, gateVars, epVars, daemonVars>>

\* complete: no error, and the episode is still the current one.
SSnapshot ==
  /\ S.pc = "snapshot"
  /\ IF ~S.err /\ ~ContextDone(S.rev) THEN SGo("complete")
     ELSE S' = [pc |-> "settle", pass |-> 1, rev |-> 0, err |-> TRUE]
  /\ UNCHANGED <<notS, gateVars, epVars, daemonVars>>

completeStops(r) ==
  /\ stopped' = r
  /\ fd' = (fd /\ ~(ep.phase = "preparing" /\ ep.rev = r))

SCompletes ==
  /\ S.pc = "complete"
  /\ completeStops(S.rev)
  /\ S' = [pc |-> "settle", pass |-> 1, rev |-> 0, err |-> TRUE]
  /\ UNCHANGED <<notS, gateVars, ep, fired, daemonVars>>

\* The worker stays until the operations, the helper and the mutations have all
\* settled; a drain the daemon refuses never retires it.
SSettles ==
  /\ S.pc = "settle" /\ Drained /\ ~H.lease
  /\ \/ MutationsDrained /\ S' = [pc |-> "off", pass |-> 1, rev |-> 0, err |-> FALSE]
     \/ ~marker /\ SGo("stuck")
  /\ UNCHANGED <<notS, gateVars, epVars, daemonVars>>

-----------------------------------------------------------------------------
(* H: the ExecStop process.                                                 *)

notH == <<opVars, hostVars, rev, disk, epVars, acq, event, E, W, S, R, life>>

\* It acts on a stopping host only, and looks again under its lease.
HBegins ==
  /\ H.pc = "off" /\ host.stopping
  /\ H' = [pc |-> "recheck", lease |-> TRUE]
  /\ UNCHANGED <<notH, marker, daemonVars>>

HMarks ==
  /\ H.pc = "recheck" /\ host.stopping
  /\ marker' = TRUE
  /\ H' = [H EXCEPT !.pc = "sweep"]
  /\ UNCHANGED <<notH, daemonVars>>

\* Its own Sweep, whose outcome nobody here depends on.
HStops ==
  /\ H.pc = "sweep" /\ up
  /\ Stop("H")
  /\ UNCHANGED <<notH, marker, H>>

\* It ends, is killed or runs out of budget; the lease goes with the process,
\* what it asked of the daemon goes on.
HExits ==
  /\ H.lease
  /\ H' = [pc |-> "gone", lease |-> FALSE]
  /\ UNCHANGED <<notH, marker, daemonVars>>

-----------------------------------------------------------------------------
(* R: recoverShutdownSeal, for the marker of an earlier life.               *)

notR == <<opVars, hostVars, epVars, acq, event, E, W, S, H, daemonVars, life>>

RGo(pc) == R' = [R EXCEPT !.pc = pc]

RDone == R' = [pc |-> "done", rev |-> 0]

RBegins ==
  /\ R.pc = "begin"
  /\ IF Pending \/ ~marker THEN RDone ELSE R' = [pc |-> "wait", rev |-> rev]
  /\ UNCHANGED <<notR, gateVars>>

\* The helper, the mutations; then the revision and the host's state.
RWaits ==
  /\ \/ R.pc = "wait" /\ ~H.lease /\ MutationsDrained /\ RGo("check")
     \/ R.pc = "wait" /\ ~H.lease /\ ~marker /\ RGo("error")
     \/ R.pc = "check" /\ rev # R.rev /\ RDone
     \/ R.pc = "check" /\ rev = R.rev /\ RGo(IF host.stopping THEN "error" ELSE "lock")
  /\ UNCHANGED <<notR, gateVars>>

RRecovers ==
  /\ \/ R.pc = "lock" /\ RecoverLocks(R.rev) /\ RGo("clear")
     \/ R.pc = "lock" /\ disk = "free" /\ rev # R.rev /\ RDone /\ UNCHANGED gateVars
     \/ R.pc = "clear" /\ RecoverClears(TRUE) /\ RGo("swap")
     \/ R.pc = "clear" /\ "disk" \in Faults /\ RecoverClears(FALSE) /\ RGo("error")
     \/ R.pc = "swap" /\ RecoverSwaps(R.rev) /\ RDone
  /\ UNCHANGED notR

-----------------------------------------------------------------------------
(* taild's operations, and its life.                                        *)

notJobs == <<hostVars, gateVars, epVars, acq, event, E, W, S, H, R, life>>

\* Admission asks the registry, the gate and the marker.
JobAccept(j, v) ==
  /\ Alive /\ R.pc = "done" /\ ~Pending /\ ~marker
  /\ Accept(j, v)
  /\ UNCHANGED <<notJobs, daemonVars>>

\* The daemon may refuse the call, which ends the operation (Leave).
JobRuns(j) ==
  /\ Alive
  /\ Enter(j) \/ (GiveUp(j) /\ j \in told) \/ (op[j] = "acting" /\ Leave(j)) \/ End(j)
  /\ UNCHANGED <<notJobs, daemonVars>>

\* Its call starts the VM,
JobCalls(j) ==
  /\ Alive
  /\ Calls(j) /\ Admit(j)
  /\ UNCHANGED notJobs

\* Mutant: it waits for a VM that runs, even when the start failed.
JobReturnsUp(j) ==
  /\ Alive /\ op[j] = "calling"
  /\ mut[j] = "none" /\ up
  /\ Leave(j)
  /\ UNCHANGED <<notJobs, daemonVars>>

\* and returns when it is done, or at once when the context is.
JobReturns(j) ==
  /\ Alive /\ op[j] = "calling"
  /\ mut[j] = "none" \/ j \in told
  /\ Leave(j)
  /\ UNCHANGED <<notJobs, daemonVars>>

\* Every 50 milliseconds, once startup recovery is over.
Poll ==
  /\ Alive /\ R.pc = "done"
  /\ Interrupt(marker)
  /\ UNCHANGED <<notJobs, daemonVars>>

\* The process dies: what it asked of the daemon goes on, the marker stays.
TaildDies ==
  /\ Alive /\ life.deaths < life.bound.restarts
  /\ life' = [life EXCEPT !.deaths = @ + 1]
  /\ op' = [j \in Jobs |-> "none"] /\ told' = {}
  /\ paused' = FALSE /\ closing' = FALSE
  /\ sigs' = <<>>
  /\ rev' = 0 /\ disk' = "free"
  /\ ep' = [phase |-> "idle", rev |-> 0, late |-> FALSE]
  /\ stopped' = 0 /\ fd' = FALSE /\ fired' = {}
  /\ acq' = "none" /\ event' = FALSE
  /\ E' = [pc |-> "idle", order |-> FALSE]
  /\ W' = [pc |-> "down", work |-> "none", phase |-> "idle", rev |-> 0, swept |-> 0]
  /\ S' = [pc |-> "off", pass |-> 1, rev |-> 0, err |-> FALSE]
  /\ R' = [pc |-> "off", rev |-> 0]
  /\ mut' = [mut EXCEPT !["S"] = IF @ = "failed" THEN "none" ELSE @]
  /\ UNCHANGED <<on, host, marker, H, up>>

\* startShutdownProtection: subscribe, take the descriptor, read the property; where
\* the bus is slow, the signal of the last change arrives in between.
TaildStarts ==
  /\ W.pc = "down"
  /\ sigs' \in {<<>>} \cup {<<host.prep>> : f \in Faults \cap {"bus"}}
  /\ W' = [W EXCEPT !.pc = "top"]
  /\ fd' = TRUE
  /\ E' = [E EXCEPT !.order = host.prep]
  /\ IF host.prep
     THEN /\ rev' = Sealed
          /\ ep' = [phase |-> "preparing", rev |-> Sealed, late |-> FALSE]
          /\ paused' = TRUE /\ event' = TRUE
          /\ R' = [R EXCEPT !.pc = "done"]
     ELSE /\ R' = [R EXCEPT !.pc = "begin"]
          /\ UNCHANGED <<rev, ep, paused, event>>
  /\ UNCHANGED <<op, on, told, closing, host, marker, disk, stopped, fired, acq, S, H, daemonVars, life>>

\* logind is not there: no inhibitor, no events, recovery all the same.
TaildStartsUnprotected ==
  /\ W.pc = "down" /\ "bus" \in Faults
  /\ W' = [W EXCEPT !.pc = "closed"]
  /\ R' = [R EXCEPT !.pc = "begin"]
  /\ UNCHANGED <<opVars, hostVars, gateVars, epVars, acq, event, E, S, H, daemonVars, life>>

-----------------------------------------------------------------------------

Init ==
  /\ OpInit
  /\ host \in [prep : BOOLEAN, stopping : {FALSE}, n : {0}]
  /\ sigs = <<>>
  /\ rev = 0 /\ marker = FALSE /\ disk = "free"
  /\ ep = [phase |-> "idle", rev |-> 0, late |-> FALSE]
  /\ stopped = 0 /\ fd = FALSE /\ fired = {}
  /\ acq = "none" /\ event = FALSE
  /\ E = [pc |-> "idle", order |-> FALSE]
  /\ W = [pc |-> "down", work |-> "none", phase |-> "idle", rev |-> 0, swept |-> 0]
  /\ S = [pc |-> "off", pass |-> 1, rev |-> 0, err |-> FALSE]
  /\ H = [pc |-> "off", lease |-> FALSE]
  /\ R = [pc |-> "off", rev |-> 0]
  /\ mut = [c \in Client |-> "none"]
  /\ up \in BOOLEAN
  /\ life \in [deaths : {0}, starts : {0}, bound : HostBounds]

EStep == ESame \/ EPreparing \/ EInterrupts \/ ECancels

WStep ==
  \/ WSnapshot \/ WActs \/ WSelects \/ WRefused \/ WSettles \/ WChecks
  \/ WLocks \/ WSwaps \/ WRecovered \/ WResumes
  \/ \E ok \in Outcome : WMarks(ok) \/ WClears(ok)

SStep == SSweeps \/ SWaits \/ SSnapshot \/ SCompletes \/ SSettles \/ \E ok \in Outcome : SMarks(ok)

HStep == HBegins \/ HMarks \/ HStops \/ HExits

RStep == RBegins \/ RWaits \/ RRecovers

JobOwn(j) == JobRuns(j) \/ JobCalls(j) \/ JobReturns(j)

Next ==
  \/ \E c \in Client : Permit(c) \/ Settle(c)
  \/ CliStart \/ HostChanges \/ HostStops
  \/ DeadlinePasses \/ (\E r \in fired : TimerRuns(r)) \/ (\E ok \in {TRUE, "bus" \notin Faults} : Reacquired(ok))
  \/ EStep \/ WStep \/ WLost \/ SStep \/ HStep \/ RStep
  \/ \E j \in Jobs, v \in VMs : JobAccept(j, v)
  \/ \E j \in Jobs : JobOwn(j)
  \/ Poll \/ TaildDies \/ TaildStarts \/ TaildStartsUnprotected

\* Every goroutine that can move does, mutations and operations end, deadlines
\* pass and logind answers; nobody has to change their mind, ask or die.
Fairness ==
  /\ \A c \in Client : WF_vars(Permit(c) \/ Settle(c))
  /\ \A j \in Jobs : WF_vars(JobOwn(j))
  /\ WF_vars(EStep) /\ WF_vars(WStep) /\ WF_vars(SStep) /\ WF_vars(HStep) /\ WF_vars(RStep)
  /\ WF_vars(DeadlinePasses) /\ WF_vars(\E r \in fired : TimerRuns(r))
  /\ WF_vars(\E ok \in {TRUE, "bus" \notin Faults} : Reacquired(ok))
  /\ WF_vars(TaildStarts \/ TaildStartsUnprotected)

Spec == Init /\ [][Next]_vars /\ Fairness

-----------------------------------------------------------------------------
(* Properties.                                                              *)

\* Types of the variables.
TypeOK ==
  /\ op \in [Jobs -> {"none", "waiting", "acting", "calling", "leaving", "over"}]
  /\ told \subseteq Jobs /\ paused \in BOOLEAN
  /\ host \in [prep : BOOLEAN, stopping : BOOLEAN, n : 0..life.bound.signals]
  /\ rev \in Nat /\ marker \in BOOLEAN /\ disk \in {"free", "held"}
  /\ ep.phase \in {"idle", "preparing", "cancelled", "recovered"}
  /\ S.pass \in 1..2 /\ (ep.phase \in {"preparing", "cancelled"} => ep.rev % 2 = 1)
  /\ stopped \in Nat /\ fd \in BOOLEAN /\ fired \subseteq Nat
  /\ acq \in {"none", "call", "ok", "err"} /\ event \in BOOLEAN
  /\ mut \in [Client -> {"none", "admit", "start", "stop", "failed"}] /\ up \in BOOLEAN

\* When taild reports the stops of a shutdown complete and lets go of the
\* inhibitor, no VM runs and no start is on its way inside the daemon
\* (stopEpisode, completeStops, admit): neither an operation nor the command
\* line slipped one in between the marker, the two passes and the drains.
CompleteMeansStopped ==
  ep.phase = "preparing" /\ stopped = ep.rev /\ ~Closed
    => ~up /\ \A c \in Client : mut[c] \notin {"admit", "start"}

\* Once the intake has dealt with a shutdown signal, every operation still
\* running has been told to stop (admitEvents, InterruptIf, SubmitResult): none
\* was accepted between the seal and the interruption, or after a late Resume.
EveryJobInterrupted ==
  ep.phase = "preparing" /\ E.pc # "interrupt" /\ ~Closed => Running \subseteq told

\* The gate opens only when nothing of the shutdown is left: no operation, no
\* worker, and none of their mutations still inside the daemon (recoverEpisode,
\* Recover, canRecover).
GateOpensSettled ==
  [][Alive /\ Pending /\ ~Pending' /\ Alive'
     => Drained /\ S.pc = "off" /\ \A c \in Jobs \cup {"S"} : mut[c] \in {"none", "failed"}]_vars

\* The inhibitor is let go of only for a reason of the current episode: it was
\* called off, its deadline passed, its own stops completed, or the watch ended
\* (TimerRuns, completeStops, transition).  Nothing of an older episode does it.
ReleasedForItsEpisode ==
  [][fd /\ ~fd' /\ ~Closed'
     => \/ ep'.phase = "cancelled"
        \/ ep.phase = "preparing" /\ (ep.late \/ stopped' = ep.rev)]_vars

\* A shutdown that is announced does not wait for taild for ever: the inhibitor
\* is released in the end, whenever its descriptor arrived (applyDeadlineLocked,
\* installFD).
InhibitorReleased == ep.phase = "preparing" /\ fd ~> ~fd \/ ep.phase # "preparing"

Admits == ~paused /\ ~Pending /\ ~marker

\* A shutdown that is called off ends with admission open again, unless the host
\* announces another one or goes down, or the watch gave up (a lost bus, a disk
\* error, a drain the daemon refused), which keeps it sealed by design.
AdmissionReturns ==
  ep.phase = "cancelled" ~> Admits \/ ep.phase = "preparing" \/ host.stopping \/ Closed \/ S.pc = "stuck"

\* Every accepted operation comes to an end (SubmitResult's goroutine).
JobsSettle == \A j \in Jobs : j \in Running ~> j \notin Running

\* The three things a shutdown that is called off, or that cannot finish, owes the
\* host: the inhibitor is released, admission returns, and accepted jobs end.
RecoveryCompletes == InhibitorReleased /\ AdmissionReturns /\ JobsSettle

=============================================================================
