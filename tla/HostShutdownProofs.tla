--------------------------- MODULE HostShutdownProofs ---------------------------
(***************************************************************************)
(* Proofs about HostShutdown for any operations, VMs and bounds: what the  *)
(* completion of a shutdown's stops means, that every operation is told,   *)
(* when the gate opens and when the inhibitor is released.                 *)
(***************************************************************************)
EXTENDS HostShutdown, TLAPS

Phase == {"idle", "preparing", "cancelled", "recovered"}
RecoverPCs == {"mark", "settle", "check", "lock", "clear", "swap", "recovered", "resume"}
SweepPCs == {"list", "stop", "drain", "swept", "snapshot", "complete"}

\* The types of the state.
TOp == /\ op \in [Jobs -> {"none", "waiting", "acting", "calling", "leaving", "over"}]
       /\ told \subseteq Jobs /\ paused \in BOOLEAN
THost == /\ life \in [deaths : Nat, starts : Nat, bound : HostBounds]
         /\ host \in [prep : BOOLEAN, stopping : BOOLEAN, n : 0 .. life.bound.signals]
TGate == rev \in Nat /\ marker \in BOOLEAN /\ disk \in {"free", "held"}
TEp == /\ ep \in [phase : Phase, rev : Nat, late : BOOLEAN]
       /\ stopped \in Nat /\ fd \in BOOLEAN /\ fired \subseteq Nat
TAcq == acq \in {"none", "call", "ok", "err"} /\ event \in BOOLEAN
TE == E \in [pc : {"idle", "interrupt"}, order : BOOLEAN]
TW == W \in [pc : {"down", "closed", "top", "act", "select"} \cup RecoverPCs,
             work : {"none", "worker", "jobs"}, phase : Phase, rev : Nat, swept : Nat]
TS == S \in [pc : {"off", "stuck", "mark", "settle"} \cup SweepPCs, pass : 1 .. 2, rev : Nat,
             err : BOOLEAN]
TH == H \in [pc : {"off", "recheck", "sweep", "gone"}, lease : BOOLEAN]
TR == R \in [pc : {"off", "begin", "wait", "check", "lock", "clear", "swap", "done", "error"},
             rev : Nat]
TMut == mut \in [Client -> {"none", "admit", "start", "stop", "failed"}] /\ up \in BOOLEAN

\* Revisions only grow: a past episode never is the current one again, and the
\* gate is sealed for a shutdown until watch has recovered from it.
Revisions ==
  /\ ep.rev <= rev /\ W.rev <= ep.rev /\ W.swept <= ep.rev
  /\ S.rev <= W.swept /\ stopped <= W.swept
  /\ \A r \in fired : r <= ep.rev /\ (ep.phase = "preparing" /\ r = ep.rev => ep.late)
  /\ ep.phase = "preparing" => rev = ep.rev /\ Pending
  /\ ep.phase = "cancelled" => ep.rev % 2 = 1
  /\ ep.phase = "cancelled" /\ ~Pending => W.pc = "recovered" /\ ep.rev = W.rev
  /\ E.order /\ ~Closed => ep.phase = "preparing"

\* What watch knows while it recovers, and of its worker.
Watching ==
  /\ W.pc \in RecoverPCs => W.phase = "cancelled" /\ W.work = "none"
  /\ W.pc \in {"top", "select", "closed", "down"} => W.phase = "idle"
  /\ W.phase # "idle" => W.swept <= W.rev
  /\ W.phase = "cancelled" /\ W.pc \notin {"recovered", "resume"} => Pending
  /\ W.phase = "cancelled" /\ ep.rev = W.rev => ep.phase \in {"cancelled", "recovered"}
  /\ S.pc # "off" /\ ~Closed => W.work = "worker"
  /\ W.pc = "down" => S.pc = "off" /\ Drained /\ ep.phase = "idle" /\ fired = {}
                      /\ R.pc = "off" /\ ~fd

\* The disk mutex has one holder, and startup recovery an even revision.
DiskMutex ==
  /\ R.pc \in {"clear", "swap"} => disk = "held" /\ W.pc \notin {"clear", "swap"}
  /\ W.pc \in {"clear", "swap"} => disk = "held"
  /\ R.pc \in {"wait", "check", "lock", "clear", "swap"} => R.rev % 2 # 1

\* From the end of the settling until the gate opens nothing of taild is left.
Settled ==
  W.pc \in {"check", "lock", "clear", "swap"} =>
    Drained /\ \A c \in Jobs \cup {"S"} : mut[c] \in {"none", "failed"}

NoStarts == \A c \in Client : mut[c] \notin {"admit", "start"}

\* The worker's episode is the current one.
IsCurrent == ep.phase = "preparing" /\ ep.rev = S.rev /\ ~Closed

\* How far the worker of the current episode has come, if nothing failed.
Sweeping ==
  /\ S.pc = "mark" => S.pass = 1
  /\ S.pc = "complete" => ~S.err
  /\ IsCurrent /\ ~S.err =>
       /\ S.pc \in SweepPCs => marker /\ R.pc # "clear"
       /\ S.pass = 2 /\ S.pc \in {"list", "stop", "drain"} => NoStarts
       /\ S.pass = 2 /\ S.pc = "stop" /\ mut["S"] = "none" => ~up
       /\ S.pass = 2 /\ S.pc = "drain" => ~up
       /\ S.pc \in {"swept", "snapshot", "complete"} => NoStarts /\ ~up

\* The stops of the current episode are complete: the marker holds starts off.
Completed ==
  ep.phase = "preparing" /\ stopped = ep.rev /\ ~Closed =>
    marker /\ R.pc # "clear" /\ ~up /\ NoStarts

HostType == TOp /\ THost /\ TGate /\ TEp /\ TAcq /\ TE /\ TW /\ TS /\ TH /\ TR /\ TMut

HostInv == /\ HostType
           /\ Revisions /\ Watching /\ DiskMutex /\ Settled /\ Sweeping /\ Completed
           /\ EveryJobInterrupted

\* The invariant as the lemmas name it.
Inv == HostInv

-----------------------------------------------------------------------------
\* A step that leaves the variables of a conjunct alone keeps it.
LEMMA Frames ==
  ASSUME Inv
  PROVE  /\ UNCHANGED <<op, told, paused>> => TOp'
         /\ UNCHANGED <<life, host>> => THost'
         /\ UNCHANGED <<rev, marker, disk>> => TGate'
         /\ UNCHANGED <<ep, stopped, fd, fired>> => TEp'
         /\ UNCHANGED <<acq, event>> => TAcq'
         /\ UNCHANGED <<E>> => TE'
         /\ UNCHANGED <<W>> => TW'
         /\ UNCHANGED <<S>> => TS'
         /\ UNCHANGED <<H>> => TH'
         /\ UNCHANGED <<R>> => TR'
         /\ UNCHANGED <<mut, up>> => TMut'
         /\ UNCHANGED <<ep, rev, W, S, stopped, fired, E>> => Revisions'
         /\ UNCHANGED <<W, rev, ep, S, op, fired, R, fd>> => Watching'
         /\ UNCHANGED <<R, W, disk>> => DiskMutex'
         /\ UNCHANGED <<W, op, mut>> => Settled'
         /\ UNCHANGED <<S, ep, W, marker, R, mut, up>> => Sweeping'
         /\ UNCHANGED <<ep, stopped, W, marker, R, up, mut>> => Completed'
         /\ UNCHANGED <<ep, E, W, op, told>> => EveryJobInterrupted'
<1> HostInv
  BY Zenon DEF Inv
<1>1. ASSUME UNCHANGED <<op, told, paused>> PROVE TOp'
  BY <1>1, Zenon DEF HostInv, HostType, TOp
<1>2. ASSUME UNCHANGED <<life, host>> PROVE THost'
  BY <1>2, Zenon DEF HostInv, HostType, THost
<1>3. ASSUME UNCHANGED <<rev, marker, disk>> PROVE TGate'
  BY <1>3, Zenon DEF HostInv, HostType, TGate
<1>4. ASSUME UNCHANGED <<ep, stopped, fd, fired>> PROVE TEp'
  BY <1>4, Zenon DEF HostInv, HostType, TEp
<1>5. ASSUME UNCHANGED <<acq, event>> PROVE TAcq'
  BY <1>5, Zenon DEF HostInv, HostType, TAcq
<1>6. ASSUME UNCHANGED <<E>> PROVE TE'
  BY <1>6, Zenon DEF HostInv, HostType, TE
<1>7. ASSUME UNCHANGED <<W>> PROVE TW'
  BY <1>7, Zenon DEF HostInv, HostType, TW
<1>8. ASSUME UNCHANGED <<S>> PROVE TS'
  BY <1>8, Zenon DEF HostInv, HostType, TS
<1>9. ASSUME UNCHANGED <<H>> PROVE TH'
  BY <1>9, Zenon DEF HostInv, HostType, TH
<1>10. ASSUME UNCHANGED <<R>> PROVE TR'
  BY <1>10, Zenon DEF HostInv, HostType, TR
<1>11. ASSUME UNCHANGED <<mut, up>> PROVE TMut'
  BY <1>11, Zenon DEF HostInv, HostType, TMut
<1>12. ASSUME UNCHANGED <<ep, rev, W, S, stopped, fired, E>> PROVE Revisions'
  BY <1>12, Zenon DEF HostInv, Revisions, Pending, Closed
<1>13. ASSUME UNCHANGED <<W, rev, ep, S, op, fired, R, fd>> PROVE Watching'
  BY <1>13, Zenon DEF HostInv, Watching, Pending, Closed, Drained, Running
<1>14. ASSUME UNCHANGED <<R, W, disk>> PROVE DiskMutex'
  BY <1>14, Zenon DEF HostInv, DiskMutex
<1>15. ASSUME UNCHANGED <<W, op, mut>> PROVE Settled'
  BY <1>15, Zenon DEF HostInv, Settled, Drained, Running
<1>16. ASSUME UNCHANGED <<S, ep, W, marker, R, mut, up>> PROVE Sweeping'
  BY <1>16, Zenon DEF HostInv, Sweeping, IsCurrent, NoStarts, Closed
<1>17. ASSUME UNCHANGED <<ep, stopped, W, marker, R, up, mut>> PROVE Completed'
  BY <1>17, Zenon DEF HostInv, Completed, NoStarts, Closed
<1>18. ASSUME UNCHANGED <<ep, E, W, op, told>> PROVE EveryJobInterrupted'
  BY <1>18, Zenon DEF HostInv, EveryJobInterrupted, Closed, Running
<1> QED BY <1>1, <1>2, <1>3, <1>4, <1>5, <1>6, <1>7, <1>8, <1>9, <1>10, <1>11, <1>12,
          <1>13, <1>14, <1>15, <1>16, <1>17, <1>18, Zenon

\* What is left of the shutdown's part when a step changes little: watch still
\* knows what it knew, and what a completed stop means is not put in doubt.
LEMMA Weakly ==
  ASSUME Inv
  PROVE  /\ UNCHANGED <<ep, rev, W, stopped, fired, E>> /\ S'.rev \in {S.rev, 0} => Revisions'
         /\ UNCHANGED <<W, rev, ep, op, fired, fd>> /\ (S.pc = "off" => S'.pc = "off")
              /\ (R.pc = "off" => R'.pc = "off") => Watching'
         /\ UNCHANGED <<op, mut>> /\ (W'.pc \in {"check", "lock", "clear", "swap"}
              => W.pc \in {"check", "lock", "clear", "swap"}) => Settled'
         /\ UNCHANGED <<S, ep, mut, up>> /\ (marker => marker') /\ (Closed => Closed')
              /\ (R'.pc = "clear" => R.pc = "clear") => Sweeping'
         /\ UNCHANGED <<ep, stopped, up>> /\ (marker => marker') /\ (Closed => Closed')
              /\ (NoStarts => NoStarts') /\ (R'.pc = "clear" => R.pc = "clear") => Completed'
         /\ UNCHANGED <<ep, E, op, told>> /\ (Closed => Closed') => EveryJobInterrupted'
<1> HostInv
  BY Zenon DEF Inv
<1>1. ASSUME UNCHANGED <<ep, rev, W, stopped, fired, E>>, S'.rev \in {S.rev, 0} PROVE Revisions'
  <2>1. S'.rev <= W.swept
    BY <1>1 DEF HostInv, HostType, TW, Revisions
  <2> QED BY <1>1, <2>1, Zenon DEF HostInv, Revisions, Pending, Closed
<1>2. ASSUME UNCHANGED <<W, rev, ep, op, fired, fd>>, S.pc = "off" => S'.pc = "off",
             R.pc = "off" => R'.pc = "off"
      PROVE  Watching'
  BY <1>2, Zenon DEF HostInv, Watching, Pending, Closed, Drained, Running
<1>3. ASSUME UNCHANGED <<op, mut>>, W'.pc \in {"check", "lock", "clear", "swap"}
               => W.pc \in {"check", "lock", "clear", "swap"}
      PROVE  Settled'
  BY <1>3, Zenon DEF HostInv, Settled, Drained, Running
<1>4. ASSUME UNCHANGED <<S, ep, mut, up>>, marker => marker', Closed => Closed',
             R'.pc = "clear" => R.pc = "clear"
      PROVE  Sweeping'
  BY <1>4, Zenon DEF HostInv, Sweeping, IsCurrent, NoStarts
<1>5. ASSUME UNCHANGED <<ep, stopped, up>>, marker => marker', Closed => Closed',
             NoStarts => NoStarts', R'.pc = "clear" => R.pc = "clear"
      PROVE  Completed'
  BY <1>5, Zenon DEF HostInv, Completed
<1>6. ASSUME UNCHANGED <<ep, E, op, told>>, Closed => Closed' PROVE EveryJobInterrupted'
  BY <1>6, Zenon DEF HostInv, EveryJobInterrupted, Running
<1> QED BY <1>1, <1>2, <1>3, <1>4, <1>5, <1>6, ZenonT(30)

-----------------------------------------------------------------------------
\* Arithmetic of the revisions.
LEMMA SealedIsNew ==
  ASSUME rev \in Nat
  PROVE  Sealed \in Nat /\ Sealed > rev /\ Sealed % 2 = 1
BY DEF Sealed, Pending

\* Recovery of a sealed revision opens the gate,
LEMMA OddPlusOne == ASSUME NEW r \in Nat, r % 2 = 1 PROVE (r + 1) % 2 # 1
OBVIOUS

\* and that of an open one keeps it open.
LEMMA EvenPlusTwo == ASSUME NEW r \in Nat, r % 2 # 1 PROVE (r + 2) % 2 # 1
OBVIOUS

\* The first state.
LEMMA InitInv == Init => HostInv
<1> SUFFICES ASSUME Init PROVE HostInv
  BY Zenon
<1>1. TOp /\ TGate /\ TEp /\ TAcq
  BY Zenon DEF Init, OpInit, TOp, TGate, TEp, TAcq, Phase
<1>2. THost
  <2>1. life \in [deaths : {0}, starts : {0}, bound : HostBounds]
    BY Zenon DEF Init
  <2>2. life.bound.signals \in Nat
    BY <2>1, HostAssumption, Zenon
  <2>3. host \in [prep : BOOLEAN, stopping : {FALSE}, n : {0}]
    BY Zenon DEF Init
  <2>4. 0 \in 0 .. life.bound.signals
    BY <2>2
  <2>5. host \in [prep : BOOLEAN, stopping : BOOLEAN, n : 0 .. life.bound.signals]
    BY <2>3, <2>4, Zenon
  <2>6. life \in [deaths : Nat, starts : Nat, bound : HostBounds]
    BY <2>1
  <2> QED BY <2>5, <2>6, Zenon DEF THost
<1>3. TE /\ TW /\ TS /\ TH /\ TR
  <2>1. 0 \in Nat /\ 1 \in 1 .. 2
    OBVIOUS
  <2>2. TE /\ TH
    BY Zenon DEF Init, TE, TH
  <2>3. TW
    BY <2>1, Zenon DEF Init, TW, Phase
  <2>4. TS
    BY <2>1, Zenon DEF Init, TS
  <2>5. TR
    BY <2>1, Zenon DEF Init, TR
  <2> QED BY <2>2, <2>3, <2>4, <2>5, Zenon
<1>4. TMut
  BY Zenon DEF Init, TMut
<1>5. Revisions
  <2>1. /\ ep.rev = 0 /\ rev = 0 /\ W.rev = 0 /\ W.swept = 0 /\ S.rev = 0 /\ stopped = 0
        /\ fired = {} /\ ep.phase = "idle" /\ Closed
    BY Zenon DEF Init, Closed
  <2>2. 0 <= 0
    OBVIOUS
  <2> QED BY <2>1, <2>2, Zenon DEF Revisions
<1>6. Drained
  BY Zenon DEF Init, OpInit, Drained, Running
<1>7. Watching
  BY <1>6, Zenon DEF Init, Watching, Closed, RecoverPCs
<1>8. DiskMutex /\ Settled
  BY Zenon DEF Init, DiskMutex, Settled
<1>9. Sweeping /\ Completed /\ EveryJobInterrupted
  BY Zenon DEF Init, Sweeping, IsCurrent, Completed, EveryJobInterrupted, SweepPCs
<1> QED BY <1>1, <1>2, <1>3, <1>4, <1>5, <1>7, <1>8, <1>9, Zenon DEF HostInv, HostType
-----------------------------------------------------------------------------
\* The daemon's mutations.

\* A call gets its mutation permit.
LEMMA PermitStep == ASSUME Inv, NEW c \in Client, Permit(c) PROVE Inv'
<1> SUFFICES ASSUME HostInv PROVE HostInv'
  BY Zenon DEF Inv
<1>1. UNCHANGED <<op, told, paused, host, rev, marker, disk, ep, stopped, fd, fired, acq,
                 event, E, W, S, H, R, up, life>>
  BY Zenon DEF Permit, opVars, hostVars, gateVars, epVars
<1>2. TOp' /\ THost' /\ TGate' /\ TEp' /\ TAcq' /\ TE' /\ TW' /\ TS' /\ TH' /\ TR' /\
      Revisions' /\ Watching' /\ DiskMutex' /\ EveryJobInterrupted'
  BY <1>1, Frames, Zenon
<1>3. mut' = [mut EXCEPT ![c] = "start"] /\ mut[c] = "admit"
  BY Zenon DEF Permit
<1>4. TMut'
  BY <1>1, <1>3, Zenon DEF HostInv, HostType, TMut
<1>5. Settled'
  BY <1>1, <1>3 DEF HostInv, HostType, Settled, Drained, Running
<1>6. Sweeping'
  BY <1>1, <1>3, Zenon DEF HostInv, HostType, Sweeping, IsCurrent, NoStarts, Closed, SweepPCs
<1>7. Completed'
  BY <1>1, <1>3, Zenon DEF HostInv, HostType, Completed, NoStarts, Closed
<1> QED BY <1>2, <1>4, <1>5, <1>6, <1>7, Zenon DEF HostInv, HostType

\* A call the daemon admitted ends.
LEMMA SettleStep == ASSUME Inv, NEW c \in Client, Settle(c) PROVE Inv'
<1> SUFFICES ASSUME HostInv PROVE HostInv'
  BY Zenon DEF Inv
<1>1. UNCHANGED <<op, told, paused, host, rev, marker, disk, ep, stopped, fd, fired, acq,
                 event, E, W, S, H, R, life>>
  BY Zenon DEF Settle, opVars, hostVars, gateVars, epVars
<1>2. TOp' /\ THost' /\ TGate' /\ TEp' /\ TAcq' /\ TE' /\ TW' /\ TS' /\ TH' /\ TR' /\
      Revisions' /\ Watching' /\ DiskMutex' /\ EveryJobInterrupted'
  BY <1>1, Frames, Zenon
<1>3. /\ mut[c] \in {"start", "stop"}
      /\ \A i \in Client : i # c => mut'[i] = mut[i]
      /\ mut'[c] \in {"none", "failed"} /\ mut' \in [Client -> {"none", "admit", "start",
           "stop", "failed"}]
      /\ up' \in BOOLEAN /\ (up' => up \/ mut[c] = "start")
      /\ c = "S" /\ mut[c] = "stop" /\ S.pc = "stop" /\ mut'[c] = "none" => ~up'
  BY Zenon DEF Settle, HostInv, HostType, TMut
<1>4. "S" \in Client /\ Jobs \subseteq Client
  BY Zenon DEF Client
<1>5. TMut'
  BY <1>1, <1>3, <1>4, Zenon DEF HostInv, HostType, TMut
<1>6. Settled'
  BY <1>1, <1>3, <1>4, Zenon DEF HostInv, HostType, Settled, Drained, Running
<1>7. Sweeping'
  BY <1>1, <1>3, <1>4, Zenon DEF HostInv, HostType, Sweeping, IsCurrent, NoStarts, Closed, SweepPCs
<1>8. Completed'
  BY <1>1, <1>3, <1>4, Zenon DEF HostInv, HostType, Completed, NoStarts, Closed
<1> QED BY <1>2, <1>5, <1>6, <1>7, <1>8, Zenon DEF HostInv, HostType

\* The command line starts the VM.
LEMMA CliStartStep == ASSUME Inv, CliStart PROVE Inv'
<1> SUFFICES ASSUME HostInv PROVE HostInv'
  BY Zenon DEF Inv
<1>1. UNCHANGED <<op, told, paused, host, rev, marker, disk, ep, stopped, fd, fired, acq,
                 event, E, W, S, H, R, up>>
  BY Zenon DEF CliStart, Admit, opVars, hostVars, gateVars, epVars
<1>2. TOp' /\ TGate' /\ TEp' /\ TAcq' /\ TE' /\ TW' /\ TS' /\ TH' /\ TR' /\ Revisions' /\
      Watching' /\ DiskMutex' /\ EveryJobInterrupted'
  BY <1>1, Frames, Zenon
<1>3. /\ mut' = [mut EXCEPT !["cli"] = "admit"] /\ ~marker /\ "cli" \in Client
  BY Zenon DEF CliStart, Admit, Client
<1>4. \A c \in Jobs \cup {"S"} : mut'[c] = mut[c]
  BY <1>3, HostAssumption, Zenon DEF HostInv, HostType, TMut, Client
<1>5. THost'
  BY <1>1 DEF HostInv, HostType, THost, CliStart
<1>6. TMut'
  BY <1>1, <1>3, <1>4, Zenon DEF HostInv, HostType, TMut
<1>7. Settled'
  BY <1>1, <1>3, <1>4, Zenon DEF HostInv, HostType, Settled, Drained, Running
<1>8. Sweeping'
  BY <1>1, <1>3, <1>4, Zenon DEF HostInv, HostType, Sweeping, IsCurrent, NoStarts, Closed, SweepPCs
<1>9. Completed'
  BY <1>1, <1>3, <1>4, Zenon DEF HostInv, HostType, Completed, NoStarts, Closed
<1> QED BY <1>2, <1>5, <1>6, <1>7, <1>8, <1>9, Zenon DEF HostInv, HostType

-----------------------------------------------------------------------------
\* The host, the timer, the descriptor.

\* The host announces a shutdown or calls it off.
LEMMA HostChangesStep == ASSUME Inv, HostChanges PROVE Inv'
<1> SUFFICES ASSUME HostInv PROVE HostInv'
  BY Zenon DEF Inv
<1>1. UNCHANGED <<op, told, paused, rev, marker, disk, ep, stopped, fd, fired, acq, event,
                 E, W, S, H, R, mut, up, life>>
  BY Zenon DEF HostChanges, opVars, gateVars, epVars, daemonVars
<1>2. TOp' /\ TGate' /\ TEp' /\ TAcq' /\ TE' /\ TW' /\ TS' /\ TH' /\ TR' /\ TMut' /\
      Revisions' /\ Watching' /\ DiskMutex' /\ Settled' /\ Sweeping' /\ Completed' /\
      EveryJobInterrupted'
  BY <1>1, Frames, Zenon
<1>3. life.bound.signals \in Nat
  BY HostAssumption, Zenon DEF HostInv, HostType, THost
<1>4. host.n + 1 \in 0 .. life.bound.signals
  BY <1>3 DEF HostInv, HostType, THost, HostChanges
<1>5. THost'
  BY <1>1, <1>4, Zenon DEF HostInv, HostType, THost, HostChanges
<1> QED BY <1>2, <1>5, Zenon DEF HostInv, HostType

\* The host goes down.
LEMMA HostStopsStep == ASSUME Inv, HostStops PROVE Inv'
<1> SUFFICES ASSUME HostInv PROVE HostInv'
  BY Zenon DEF Inv
<1>1. UNCHANGED <<op, told, paused, rev, marker, disk, ep, stopped, fd, fired, acq, event,
                 E, W, S, H, R, mut, up, life>>
  BY Zenon DEF HostStops, opVars, gateVars, epVars, daemonVars
<1>2. TOp' /\ TGate' /\ TEp' /\ TAcq' /\ TE' /\ TW' /\ TS' /\ TH' /\ TR' /\ TMut' /\
      Revisions' /\ Watching' /\ DiskMutex' /\ Settled' /\ Sweeping' /\ Completed' /\
      EveryJobInterrupted'
  BY <1>1, Frames, Zenon
<1>3. THost'
  BY <1>1, Zenon DEF HostInv, HostType, THost, HostStops
<1> QED BY <1>2, <1>3, Zenon DEF HostInv, HostType

\* The deadline of the inhibitor passes.
LEMMA DeadlinePassesStep == ASSUME Inv, DeadlinePasses PROVE Inv'
<1> SUFFICES ASSUME HostInv PROVE HostInv'
  BY Zenon DEF Inv
<1>1. UNCHANGED <<op, told, paused, host, rev, marker, disk, stopped, fd, acq, event, E,
                 W, S, H, R, mut, up, life>>
  BY Zenon DEF DeadlinePasses, opVars, hostVars, gateVars, daemonVars
<1>2. TOp' /\ THost' /\ TGate' /\ TAcq' /\ TE' /\ TW' /\ TS' /\ TH' /\ TR' /\ TMut' /\
      DiskMutex' /\ Settled'
  BY <1>1, Frames, Zenon
<1>3. /\ ep'.phase = ep.phase /\ ep'.rev = ep.rev /\ ep'.late /\ ep' \in [phase : Phase,
           rev : Nat, late : BOOLEAN]
      /\ fired' \subseteq fired \cup {ep.rev} /\ W.pc # "down" /\ ep.rev \in Nat
  BY Zenon DEF DeadlinePasses, Alive, HostInv, HostType, TEp
<1>4. TEp'
  BY <1>1, <1>3, Zenon DEF HostInv, HostType, TEp
<1>5. Revisions'
  BY <1>1, <1>3 DEF HostInv, HostType, Revisions, Pending, Closed
<1>6. Watching'
  BY <1>1, <1>3, Zenon DEF HostInv, HostType, Watching, Pending, Closed, Drained, Running,
     RecoverPCs
<1>7. Sweeping'
  BY <1>1, <1>3, Zenon DEF HostInv, HostType, Sweeping, IsCurrent, NoStarts, Closed, SweepPCs
<1>8. Completed'
  BY <1>1, <1>3, Zenon DEF HostInv, HostType, Completed, NoStarts, Closed
<1>9. EveryJobInterrupted'
  BY <1>1, <1>3, Zenon DEF HostInv, HostType, EveryJobInterrupted, Closed, Running
<1> QED BY <1>2, <1>4, <1>5, <1>6, <1>7, <1>8, <1>9, Zenon DEF HostInv, HostType

\* A timer that fired releases the descriptor, if its episode is still on.
LEMMA TimerRunsStep == ASSUME Inv, NEW r \in fired, TimerRuns(r) PROVE Inv'
<1> SUFFICES ASSUME HostInv PROVE HostInv'
  BY Zenon DEF Inv
<1>1. UNCHANGED <<op, told, paused, host, rev, marker, disk, ep, stopped, acq, event, E,
                 W, S, H, R, mut, up, life>>
  BY Zenon DEF TimerRuns, opVars, hostVars, gateVars, daemonVars
<1>2. TOp' /\ THost' /\ TGate' /\ TAcq' /\ TE' /\ TW' /\ TS' /\ TH' /\ TR' /\ TMut' /\
      DiskMutex' /\ Settled' /\ Sweeping' /\ Completed' /\ EveryJobInterrupted'
  BY <1>1, Frames, Zenon
<1>3. fired' \subseteq fired /\ fd' \in BOOLEAN /\ (fd' => fd)
  BY Zenon DEF TimerRuns
<1>4. TEp'
  BY <1>1, <1>3, Zenon DEF HostInv, HostType, TEp
<1>5. Revisions'
  BY <1>1, <1>3, Zenon DEF HostInv, HostType, Revisions, Pending, Closed
<1>6. Watching'
  BY <1>1, <1>3, Zenon DEF HostInv, HostType, Watching, Pending, Closed, Drained, Running,
     RecoverPCs
<1> QED BY <1>2, <1>4, <1>5, <1>6, Zenon DEF HostInv, HostType

\* The inhibitor is taken again.
LEMMA ReacquiredStep == ASSUME Inv, NEW ok, Reacquired(ok) PROVE Inv'
<1> SUFFICES ASSUME HostInv PROVE HostInv'
  BY Zenon DEF Inv
<1>1. UNCHANGED <<op, told, paused, host, rev, marker, disk, ep, stopped, fired, event, E,
                 W, S, H, R, mut, up, life>>
  BY Zenon DEF Reacquired, opVars, hostVars, gateVars, daemonVars
<1>2. TOp' /\ THost' /\ TGate' /\ TE' /\ TW' /\ TS' /\ TH' /\ TR' /\ TMut' /\ Revisions' /\
      DiskMutex' /\ Settled' /\ Sweeping' /\ Completed' /\ EveryJobInterrupted'
  BY <1>1, Frames, Zenon
<1>3. fd' \in BOOLEAN /\ (Closed => fd' = fd) /\ acq' \in {"ok", "err"}
  BY Zenon DEF Reacquired, installFD, HostInv, HostType, TEp
<1>4. TEp'
  BY <1>1, <1>3, Zenon DEF HostInv, HostType, TEp
<1>5. TAcq'
  BY <1>1, <1>3, Zenon DEF HostInv, HostType, TAcq
<1>6. Watching'
  BY <1>1, <1>3, Zenon DEF HostInv, HostType, Watching, Pending, Closed, Drained, Running,
     RecoverPCs
<1> QED BY <1>2, <1>4, <1>5, <1>6, Zenon DEF HostInv, HostType

\* An announcement of what is already so.
LEMMA ESameStep == ASSUME Inv, ESame PROVE Inv'
<1> SUFFICES ASSUME HostInv PROVE HostInv'
  BY Zenon DEF Inv
<1>1. UNCHANGED <<op, told, paused, host, rev, marker, disk, ep, stopped, fd, fired, acq,
                 event, E, W, S, H, R, mut, up, life>>
  BY Zenon DEF ESame, opVars, gateVars, epVars, daemonVars
<1>2. TOp' /\ THost' /\ TGate' /\ TEp' /\ TAcq' /\ TE' /\ TW' /\ TS' /\ TH' /\ TR' /\ TMut'
      /\ Revisions' /\ Watching' /\ DiskMutex' /\ Settled' /\ Sweeping' /\ Completed' /\
      EveryJobInterrupted'
  BY <1>1, Frames, Zenon
<1> QED BY <1>2, Zenon DEF HostInv, HostType

-----------------------------------------------------------------------------
\* The intake of signals.

\* A shutdown is announced: the gate is sealed with a new revision.
LEMMA EPreparingStep == ASSUME Inv, EPreparing PROVE Inv'
<1> SUFFICES ASSUME HostInv PROVE HostInv'
  BY Zenon DEF Inv
<1>1. UNCHANGED <<op, told, paused, host, marker, disk, stopped, fd, fired, acq, event, W,
                 S, H, R, mut, up, life>>
  BY Zenon DEF EPreparing, opVars, epVars, daemonVars
<1>2. TOp' /\ THost' /\ TAcq' /\ TW' /\ TS' /\ TH' /\ TR' /\ TMut' /\ DiskMutex' /\ Settled'
  BY <1>1, Frames, Zenon
<1>3. Sealed \in Nat /\ Sealed > rev /\ Sealed % 2 = 1
  BY SealedIsNew, Zenon DEF HostInv, HostType, TGate
<1>4. E' = [pc |-> "interrupt", order |-> TRUE]
  BY Zenon DEF EPreparing
<1>5. \/ Closed /\ UNCHANGED <<rev, ep>>
      \/ ~Closed /\ rev' = Sealed /\ ep'.phase = "preparing" /\ ep'.rev = Sealed
         /\ ep' \in [phase : Phase, rev : Nat, late : BOOLEAN]
  <2>1. CASE Closed BY <2>1, Zenon DEF EPreparing
  <2>2. CASE ~Closed
    <3>1. rev' = Sealed /\ ep' = [phase |-> "preparing", rev |-> Sealed, late |-> FALSE]
      BY <2>2, Zenon DEF EPreparing
    <3> QED BY <1>3, <2>2, <3>1, Zenon DEF Phase
  <2> QED BY <2>1, <2>2, Zenon
<1>6. W.pc # "down"
  BY Zenon DEF EPreparing, Alive
<1>7. ep.rev \in Nat /\ rev \in Nat /\ W.rev \in Nat /\ W.swept \in Nat /\ S.rev \in Nat /\
     stopped \in Nat
      /\ fired \subseteq Nat
  BY Zenon DEF HostInv, HostType, TEp, TGate, TW, TS
<1>8. S.rev < Sealed /\ stopped < Sealed /\ W.rev < Sealed /\ W.swept < Sealed /\
     ep.rev < Sealed
  BY <1>3, <1>7 DEF HostInv, Revisions
<1>9. ~Closed => Pending'
  BY <1>3, <1>5, Zenon DEF Pending
<1>10. TGate'
  BY <1>1, <1>3, <1>4, <1>5, <1>6, <1>7, <1>8, <1>9, Zenon DEF HostInv, HostType, TGate
<1>11. TEp'
  BY <1>1, <1>3, <1>4, <1>5, <1>6, <1>7, <1>8, <1>9, Zenon DEF HostInv, HostType, TEp
<1>12. TE'
  BY <1>1, <1>3, <1>4, <1>5, <1>6, <1>7, <1>8, <1>9, Zenon DEF HostInv, HostType, TE
<1>13. Revisions'
  BY <1>1, <1>3, <1>4, <1>5, <1>6, <1>7, <1>8, <1>9, SMTT(30) DEF HostInv, HostType, Revisions,
     Pending, Closed
<1>14. Watching'
  BY <1>1, <1>3, <1>4, <1>5, <1>6, <1>7, <1>8, <1>9, SMTT(30) DEF HostInv, HostType, Watching,
     Pending, Closed, Drained, Running, RecoverPCs
<1>15. Sweeping'
  BY <1>1, <1>3, <1>4, <1>5, <1>6, <1>7, <1>8, <1>9, SMTT(30) DEF HostInv, HostType, Sweeping,
     IsCurrent, NoStarts, Closed, SweepPCs
<1>16. Completed'
  BY <1>1, <1>3, <1>4, <1>5, <1>6, <1>7, <1>8, <1>9 DEF HostInv, HostType, Completed,
     NoStarts, Closed
<1>17. EveryJobInterrupted'
  BY <1>1, <1>3, <1>4, <1>5, <1>6, <1>7, <1>8, <1>9, Zenon DEF HostInv, HostType,
     EveryJobInterrupted, Closed, Running
<1> QED BY <1>2, <1>10, <1>11, <1>12, <1>13, <1>14, <1>15, <1>16, <1>17, Zenon DEF HostInv,
          HostType

\* The operations are interrupted.
LEMMA EInterruptsStep == ASSUME Inv, EInterrupts PROVE Inv'
<1> SUFFICES ASSUME HostInv PROVE HostInv'
  BY Zenon DEF Inv
<1>1. UNCHANGED <<op, host, rev, marker, disk, ep, stopped, fd, fired, acq, W, S, H, R,
                 mut, up, life>>
  BY Zenon DEF EInterrupts, Interrupt, hostVars, gateVars, epVars, daemonVars
<1>2. THost' /\ TGate' /\ TEp' /\ TW' /\ TS' /\ TH' /\ TR' /\ TMut' /\ Watching' /\
      DiskMutex' /\ Settled' /\ Sweeping' /\ Completed'
  BY <1>1, Frames, Zenon
<1>3. told' = told \cup Running /\ paused' = TRUE /\ E' = [E EXCEPT !.pc = "idle"] /\
     event' = TRUE
  BY Zenon DEF EInterrupts, Interrupt
<1>4. TOp'
  BY <1>1, <1>3, Zenon DEF HostInv, HostType, TOp, Running
<1>5. TAcq'
  BY <1>1, <1>3, Zenon DEF HostInv, HostType, TAcq
<1>6. TE'
  BY <1>1, <1>3, Zenon DEF HostInv, HostType, TE
<1>7. Revisions'
  BY <1>1, <1>3 DEF HostInv, HostType, Revisions, Pending, Closed
<1>8. EveryJobInterrupted'
  BY <1>1, <1>3, Zenon DEF HostInv, HostType, EveryJobInterrupted, Closed, Running
<1> QED BY <1>2, <1>4, <1>5, <1>6, <1>7, <1>8, Zenon DEF HostInv, HostType

\* The shutdown is called off.
LEMMA ECancelsStep == ASSUME Inv, ECancels PROVE Inv'
<1> SUFFICES ASSUME HostInv PROVE HostInv'
  BY Zenon DEF Inv
<1>1. UNCHANGED <<op, told, paused, host, rev, marker, disk, stopped, fired, acq, W, S, H,
                 R, mut, up, life>>
  BY Zenon DEF ECancels, opVars, gateVars, epVars, daemonVars
<1>2. TOp' /\ THost' /\ TGate' /\ TW' /\ TS' /\ TH' /\ TR' /\ TMut' /\ DiskMutex' /\
      Settled'
  BY <1>1, Frames, Zenon
<1>3. E'.order = FALSE /\ E'.pc = E.pc /\ E' \in [pc : {"idle", "interrupt"},
     order : BOOLEAN] /\ event' = TRUE
  BY Zenon DEF ECancels, HostInv, HostType, TE
<1>4. \/ Closed /\ UNCHANGED <<ep, fd>>
      \/ /\ ~Closed /\ ep'.phase = "cancelled" /\ ep'.rev = ep.rev /\ fd' = FALSE
         /\ ep' \in [phase : Phase, rev : Nat, late : BOOLEAN]
  BY Zenon DEF ECancels, Phase, HostInv, HostType, TEp
<1>5. ~Closed => ep.phase = "preparing"
  BY Zenon DEF ECancels, HostInv, Revisions
<1>6. W.pc # "down"
  BY Zenon DEF ECancels, Alive
<1>7. TEp'
  BY <1>1, <1>3, <1>4, <1>5, <1>6, Zenon DEF HostInv, HostType, TEp
<1>8. TAcq'
  BY <1>1, <1>3, <1>4, <1>5, <1>6, Zenon DEF HostInv, HostType, TAcq
<1>9. TE'
  BY <1>1, <1>3, <1>4, <1>5, <1>6, Zenon DEF HostInv, HostType, TE
<1>10. Revisions'
  BY <1>1, <1>3, <1>4, <1>5, <1>6, Zenon DEF HostInv, HostType, Revisions, Pending, Closed
<1>11. Watching'
  BY <1>1, <1>3, <1>4, <1>5, <1>6, Zenon DEF HostInv, HostType, Watching, Pending, Closed, Drained,
     Running, RecoverPCs
<1>12. Sweeping'
  BY <1>1, <1>3, <1>4, <1>5, <1>6, Zenon DEF HostInv, HostType, Sweeping, IsCurrent, NoStarts,
     Closed, SweepPCs
<1>13. Completed'
  BY <1>1, <1>3, <1>4, <1>5, <1>6, Zenon DEF HostInv, HostType, Completed, NoStarts, Closed
<1>14. EveryJobInterrupted'
  BY <1>1, <1>3, <1>4, <1>5, <1>6, Zenon DEF HostInv, HostType, EveryJobInterrupted, Closed,
     Running
<1> QED BY <1>2, <1>7, <1>8, <1>9, <1>10, <1>11, <1>12, <1>13, <1>14, Zenon DEF HostInv, HostType

-----------------------------------------------------------------------------
\* The ExecStop process and startup recovery.

\* The stop hook begins.
LEMMA HBeginsStep == ASSUME Inv, HBegins PROVE Inv'
<1> SUFFICES ASSUME HostInv PROVE HostInv'
  BY Zenon DEF Inv
<1>1. UNCHANGED <<op, told, paused, host, rev, marker, disk, ep, stopped, fd, fired, acq,
                 event, E, W, S, R, mut, up, life>>
  BY Zenon DEF HBegins, notH, opVars, hostVars, epVars, daemonVars
<1>2. TOp' /\ THost' /\ TGate' /\ TEp' /\ TAcq' /\ TE' /\ TW' /\ TS' /\ TR' /\ TMut' /\
      Revisions' /\ Watching' /\ DiskMutex' /\ Settled' /\ Sweeping' /\ Completed' /\
      EveryJobInterrupted'
  BY <1>1, Frames, Zenon
<1>3. TH'
  BY Zenon DEF HBegins, TH
<1> QED BY <1>2, <1>3, Zenon DEF HostInv, HostType

\* The stop hook writes the marker.
LEMMA HMarksStep == ASSUME Inv, HMarks PROVE Inv'
<1> SUFFICES ASSUME HostInv PROVE HostInv'
  BY Zenon DEF Inv
<1>1. UNCHANGED <<op, told, paused, host, rev, disk, ep, stopped, fd, fired, acq, event,
                 E, W, S, R, mut, up, life>>
  BY Zenon DEF HMarks, notH, opVars, hostVars, epVars, daemonVars
<1>2. TOp' /\ THost' /\ TEp' /\ TAcq' /\ TE' /\ TW' /\ TS' /\ TR' /\ TMut' /\ Revisions' /\
      Watching' /\ DiskMutex' /\ Settled' /\ EveryJobInterrupted'
  BY <1>1, Frames, Zenon
<1>3. marker' = TRUE
  BY Zenon DEF HMarks
<1>4. TGate'
  BY <1>1, <1>3, Zenon DEF HostInv, HostType, TGate
<1>5. TH'
  BY Zenon DEF HMarks, HostInv, HostType, TH
<1>6. Sweeping'
  BY <1>1, <1>3, Zenon DEF HostInv, HostType, Sweeping, IsCurrent, NoStarts, Closed, SweepPCs
<1>7. Completed'
  BY <1>1, <1>3, Zenon DEF HostInv, HostType, Completed, NoStarts, Closed
<1> QED BY <1>2, <1>4, <1>5, <1>6, <1>7, Zenon DEF HostInv, HostType

\* The stop hook stops the VM.
LEMMA HStopsStep == ASSUME Inv, HStops PROVE Inv'
<1> SUFFICES ASSUME HostInv PROVE HostInv'
  BY Zenon DEF Inv
<1>1. UNCHANGED <<op, told, paused, host, rev, marker, disk, ep, stopped, fd, fired, acq,
                 event, E, W, S, H, R, up, life>>
  BY Zenon DEF HStops, Stop, notH, opVars, hostVars, epVars, daemonVars
<1>2. TOp' /\ THost' /\ TGate' /\ TEp' /\ TAcq' /\ TE' /\ TW' /\ TS' /\ TH' /\ TR' /\
      Revisions' /\ Watching' /\ DiskMutex' /\ EveryJobInterrupted'
  BY <1>1, Frames, Zenon
<1>3. mut' = [mut EXCEPT !["H"] = "stop"] /\ mut["H"] = "none" /\ "H" \in Client /\
     "S" \in Client /\ Jobs \subseteq Client
  BY Zenon DEF HStops, Stop, Client
<1>4. \A c \in Jobs \cup {"S"} : mut'[c] = mut[c]
  BY <1>3, HostAssumption, Zenon DEF HostInv, HostType, TMut, Client
<1>5. TMut'
  BY <1>1, <1>3, <1>4, Zenon DEF HostInv, HostType, TMut
<1>6. Settled'
  BY <1>1, <1>3, <1>4, Zenon DEF HostInv, HostType, Settled, Drained, Running
<1>7. Sweeping'
  BY <1>1, <1>3, <1>4, SMTT(30) DEF HostInv, HostType, Sweeping, IsCurrent, NoStarts, Closed, SweepPCs
<1>8. Completed'
  BY <1>1, <1>3, <1>4 DEF HostInv, HostType, Completed, NoStarts, Closed
<1> QED BY <1>2, <1>5, <1>6, <1>7, <1>8, Zenon DEF HostInv, HostType

\* The stop hook ends.
LEMMA HExitsStep == ASSUME Inv, HExits PROVE Inv'
<1> SUFFICES ASSUME HostInv PROVE HostInv'
  BY Zenon DEF Inv
<1>1. UNCHANGED <<op, told, paused, host, rev, marker, disk, ep, stopped, fd, fired, acq,
                 event, E, W, S, R, mut, up, life>>
  BY Zenon DEF HExits, notH, opVars, hostVars, epVars, daemonVars
<1>2. TOp' /\ THost' /\ TGate' /\ TEp' /\ TAcq' /\ TE' /\ TW' /\ TS' /\ TR' /\ TMut' /\
      Revisions' /\ Watching' /\ DiskMutex' /\ Settled' /\ Sweeping' /\ Completed' /\
      EveryJobInterrupted'
  BY <1>1, Frames, Zenon
<1>3. TH'
  BY Zenon DEF HExits, TH
<1> QED BY <1>2, <1>3, Zenon DEF HostInv, HostType

\* Startup recovery reads the gate and moves on.
LEMMA RQuiet ==
  ASSUME Inv, TR', R.pc # "off", R'.pc \in {"wait", "check", "lock", "done", "error"},
         R'.pc \in {"wait", "check", "lock"} => R'.rev % 2 # 1, UNCHANGED <<notR, gateVars>>
  PROVE  Inv'
<1> SUFFICES ASSUME HostInv PROVE HostInv'
  BY Zenon DEF Inv
<1>1. UNCHANGED <<op, told, paused, host, rev, marker, disk, ep, stopped, fd, fired, acq,
                 event, E, W, S, H, mut, up, life>>
  BY Zenon DEF notR, opVars, hostVars, gateVars, epVars, daemonVars
<1>2. TOp' /\ THost' /\ TGate' /\ TEp' /\ TAcq' /\ TE' /\ TW' /\ TS' /\ TH' /\ TMut' /\
      Revisions' /\ Settled' /\ EveryJobInterrupted'
  BY <1>1, Frames, Zenon
<1>3. DiskMutex'
  BY <1>1, Zenon DEF HostInv, DiskMutex
<1>4. (Closed => Closed') /\ (NoStarts => NoStarts')
  BY <1>1, Zenon DEF Closed, NoStarts
<1>5. Watching' /\ Sweeping' /\ Completed'
  BY <1>1, <1>4, Weakly, Zenon
<1> QED BY <1>2, <1>3, <1>5, Zenon DEF HostInv, HostType

\* Startup recovery begins,
LEMMA RBeginsStep == ASSUME Inv, RBegins PROVE Inv'
<1>1. R.pc = "begin" /\ R'.pc \in {"done", "wait"} /\ (R'.pc = "wait" => R'.rev % 2 # 1)
  BY DEF RBegins, RDone, Pending
<1>2. TR'
  BY DEF RBegins, RDone, Inv, HostInv, HostType, TGate, TR
<1>3. UNCHANGED <<notR, gateVars>>
  BY Zenon DEF RBegins
<1> QED BY <1>1, <1>2, <1>3, RQuiet, Zenon

\* waits for a stop hook,
LEMMA RWaitsStep == ASSUME Inv, RWaits PROVE Inv'
<1>1. TR /\ (R.pc \in {"wait", "check", "lock", "clear", "swap"} => R.rev % 2 # 1)
  BY Zenon DEF Inv, HostInv, HostType, DiskMutex
<1>2. /\ R.pc \in {"wait", "check"} /\ R'.pc \in {"check", "error", "done", "lock"}
      /\ R'.rev = R.rev \/ R'.pc = "done"
      /\ TR'
  BY <1>1 DEF RWaits, RDone, RGo, TR
<1>3. UNCHANGED <<notR, gateVars>>
  BY Zenon DEF RWaits
<1> QED BY <1>1, <1>2, <1>3, RQuiet, Zenon

\* takes the disk,
LEMMA RLocksStep == ASSUME Inv, R.pc = "lock", RecoverLocks(R.rev), RGo("clear"),
     UNCHANGED notR PROVE  Inv'
<1> SUFFICES ASSUME HostInv PROVE HostInv'
  BY Zenon DEF Inv
<1>1. UNCHANGED <<op, told, paused, host, rev, marker, ep, stopped, fd, fired, acq, event,
                 E, W, S, H, mut, up, life>>
  BY Zenon DEF RecoverLocks, notR, opVars, hostVars, gateVars, epVars, daemonVars
<1>2. TOp' /\ THost' /\ TEp' /\ TAcq' /\ TE' /\ TW' /\ TS' /\ TH' /\ TMut' /\ Revisions' /\
      Settled' /\ EveryJobInterrupted'
  BY <1>1, Frames, Zenon
<1>3. disk = "free" /\ disk' = "held" /\ rev = R.rev
  BY Zenon DEF RecoverLocks
<1>4. TR' /\ R'.pc = "clear" /\ R'.rev = R.rev
  BY Zenon DEF RGo, HostInv, HostType, TR
<1>5. ~Pending
  BY <1>3, Zenon DEF Pending, HostInv, DiskMutex
<1>6. ep.phase # "preparing"
  BY <1>5, Zenon DEF HostInv, Revisions
<1>7. TGate'
  BY <1>1, <1>3, Zenon DEF HostInv, HostType, TGate
<1>8. Watching'
  BY <1>1, <1>4, Weakly, Zenon
<1>9. DiskMutex'
  BY <1>1, <1>3, <1>4, Zenon DEF HostInv, DiskMutex
<1>10. Sweeping' /\ Completed'
  BY <1>1, <1>6, Zenon DEF HostInv, Sweeping, IsCurrent, Completed
<1> QED BY <1>2, <1>4, <1>7, <1>8, <1>9, <1>10, Zenon DEF HostInv, HostType

\* or leaves because the revision is no longer its own,
LEMMA RSkipsStep == ASSUME Inv, R.pc = "lock", RDone, UNCHANGED gateVars, UNCHANGED notR
  PROVE  Inv'
<1>1. TR' /\ R'.pc = "done"
  BY Zenon DEF RDone, TR
<1> QED BY <1>1, RQuiet, Zenon

\* removes the marker,
LEMMA RClearsStep == ASSUME Inv, R.pc = "clear", NEW ok \in BOOLEAN, RecoverClears(ok),
     RGo(IF ok THEN "swap" ELSE "error"), UNCHANGED notR PROVE  Inv'
<1> SUFFICES ASSUME HostInv PROVE HostInv'
  BY Zenon DEF Inv
<1>1. UNCHANGED <<op, told, paused, host, rev, ep, stopped, fd, fired, acq, event, E, W,
                 S, H, mut, up, life>>
  BY Zenon DEF RecoverClears, notR, opVars, hostVars, gateVars, epVars, daemonVars
<1>2. TOp' /\ THost' /\ TEp' /\ TAcq' /\ TE' /\ TW' /\ TS' /\ TH' /\ TMut' /\ Revisions' /\
      Settled' /\ EveryJobInterrupted'
  BY <1>1, Frames, Zenon
<1>3. TGate' /\ (ok => disk' = disk)
  BY <1>1, Zenon DEF RecoverClears, HostInv, HostType, TGate
<1>4. TR' /\ R'.pc \in {"swap", "error"} /\ (R'.pc = "swap" => ok) /\ R'.rev = R.rev
  BY Zenon DEF RGo, HostInv, HostType, TR
<1>5. Watching'
  BY <1>1, <1>4, Weakly, Zenon
<1>6. DiskMutex'
  BY <1>1, <1>3, <1>4, Zenon DEF HostInv, DiskMutex
<1>7. Sweeping'
  BY <1>1, <1>4, Zenon DEF HostInv, Sweeping, IsCurrent, NoStarts, Closed
<1>8. Completed'
  BY <1>1, <1>4, Zenon DEF HostInv, Completed, NoStarts, Closed
<1> QED BY <1>2, <1>3, <1>4, <1>5, <1>6, <1>7, <1>8, Zenon DEF HostInv, HostType

\* and moves the revision on by a compare and swap.
LEMMA RSwapsStep == ASSUME Inv, R.pc = "swap", RecoverSwaps(R.rev), RDone,
     UNCHANGED notR PROVE  Inv'
<1> SUFFICES ASSUME HostInv PROVE HostInv'
  BY Zenon DEF Inv
<1>1. UNCHANGED <<op, told, paused, host, marker, ep, stopped, fd, fired, acq, event, E,
                 W, S, H, mut, up, life>>
  BY Zenon DEF RecoverSwaps, notR, opVars, hostVars, gateVars, epVars, daemonVars
<1>2. TOp' /\ THost' /\ TEp' /\ TAcq' /\ TE' /\ TW' /\ TS' /\ TH' /\ TMut' /\ Settled' /\
      EveryJobInterrupted'
  BY <1>1, Frames, Zenon
<1>3. R'.pc = "done" /\ disk' = "free" /\ TR'
  BY Zenon DEF RDone, RecoverSwaps, TR
<1>4. R.rev \in Nat /\ rev \in Nat /\ R.rev % 2 # 1 /\ ep.rev \in Nat
      /\ W.pc \notin {"clear", "swap"}
  BY Zenon DEF HostInv, HostType, TR, TGate, TEp, DiskMutex
<1>5. rev' = rev \/ (rev = R.rev /\ rev' = rev + 2)
  BY <1>4, Zenon DEF RecoverSwaps
<1>6. rev' \in Nat /\ rev <= rev' /\ (Pending' <=> Pending) /\ (Pending => rev' = rev)
  <2>1. CASE rev' = rev
    BY <1>4, <2>1 DEF Pending
  <2>2. CASE rev = R.rev /\ rev' = rev + 2
    BY <1>4, <2>2, EvenPlusTwo DEF Pending
  <2> QED BY <1>5, <2>1, <2>2, Zenon
<1>7. TGate'
  BY <1>1, <1>3, <1>6, Zenon DEF HostInv, HostType, TGate
<1>8. Revisions'
  <2>1. ep.rev <= rev'
    BY <1>4, <1>6 DEF HostInv, Revisions
  <2> HIDE DEF Pending
  <2> QED BY <1>1, <1>6, <2>1, Zenon DEF HostInv, Revisions, Closed
<1>9. Watching'
  BY <1>1, <1>3, <1>6, Zenon DEF HostInv, Watching, Closed, Drained, Running
<1>10. DiskMutex'
  BY <1>1, <1>3, <1>4, Zenon DEF HostInv, DiskMutex
<1>11. (Closed => Closed') /\ (NoStarts => NoStarts')
  BY <1>1, Zenon DEF Closed, NoStarts
<1>12. Sweeping' /\ Completed'
  BY <1>1, <1>3, <1>11, Weakly, Zenon
<1> QED BY <1>2, <1>3, <1>7, <1>8, <1>9, <1>10, <1>12, Zenon DEF HostInv, HostType

-----------------------------------------------------------------------------
\* The operations.

\* An operation is accepted,
LEMMA JobAcceptStep == ASSUME Inv, NEW j \in Jobs, NEW v \in VMs, JobAccept(j, v)
  PROVE  Inv'
<1> SUFFICES ASSUME HostInv PROVE HostInv'
  BY Zenon DEF Inv
<1>1. UNCHANGED <<paused, host, rev, marker, disk, ep, stopped, fd, fired, acq, event, E,
                 W, S, H, R, mut, up, life>>
  BY Zenon DEF JobAccept, Accept, notJobs, hostVars, gateVars, epVars, daemonVars
<1>2. THost' /\ TGate' /\ TEp' /\ TAcq' /\ TE' /\ TW' /\ TS' /\ TH' /\ TR' /\ TMut' /\
      Revisions' /\ DiskMutex' /\ Sweeping' /\ Completed'
  BY <1>1, Frames, Zenon
<1>3. /\ op' \in [Jobs -> {"none", "waiting", "acting", "calling", "leaving", "over"}]
      /\ told' \subseteq Jobs /\ ~Pending /\ W.pc # "down"
  BY Zenon DEF JobAccept, Accept, Alive, HostInv, HostType, TOp
<1>4. ep.phase # "preparing" /\ W.pc \notin {"check", "lock", "clear", "swap"}
  BY <1>3, Zenon DEF HostInv, Revisions, Watching, RecoverPCs
<1>5. TOp'
  BY <1>1, <1>3, <1>4, Zenon DEF HostInv, HostType, TOp
<1>6. Watching'
  BY <1>1, <1>3, <1>4, Zenon DEF HostInv, Watching, Pending, Closed
<1>7. Settled'
  BY <1>1, <1>3, <1>4, Zenon DEF HostInv, HostType, Settled, Drained, Running
<1>8. EveryJobInterrupted'
  BY <1>1, <1>3, <1>4, Zenon DEF HostInv, HostType, EveryJobInterrupted, Closed, Running
<1> QED BY <1>2, <1>5, <1>6, <1>7, <1>8, Zenon DEF HostInv, HostType

\* runs,
LEMMA JobRunsStep == ASSUME Inv, NEW j \in Jobs, JobRuns(j) PROVE Inv'
<1> SUFFICES ASSUME HostInv PROVE HostInv'
  BY Zenon DEF Inv
<1>1. UNCHANGED <<told, paused, host, rev, marker, disk, ep, stopped, fd, fired, acq,
                 event, E, W, S, H, R, mut, up, life>>
  BY Zenon DEF JobRuns, Enter, GiveUp, Leave, End, notJobs, hostVars, gateVars, epVars, daemonVars
<1>2. THost' /\ TGate' /\ TEp' /\ TAcq' /\ TE' /\ TW' /\ TS' /\ TH' /\ TR' /\ TMut' /\
      Revisions' /\ DiskMutex' /\ Sweeping' /\ Completed'
  BY <1>1, Frames, Zenon
<1>3. /\ op' \in [Jobs -> {"none", "waiting", "acting", "calling", "leaving", "over"}]
      /\ Running' \subseteq Running /\ W.pc # "down"
  BY Zenon DEF JobRuns, Enter, GiveUp, Leave, End, Alive, Running, HostInv, HostType, TOp
<1>4. TOp'
  BY <1>1, <1>3, Zenon DEF HostInv, HostType, TOp
<1>5. Watching'
  BY <1>1, <1>3, Zenon DEF HostInv, Watching, Pending, Closed
<1>6. Settled'
  BY <1>1, <1>3, Zenon DEF HostInv, Settled, Drained
<1>7. EveryJobInterrupted'
  BY <1>1, <1>3, Zenon DEF HostInv, EveryJobInterrupted, Closed
<1> QED BY <1>2, <1>4, <1>5, <1>6, <1>7, Zenon DEF HostInv, HostType

\* has its answer,
LEMMA JobReturnsStep == ASSUME Inv, NEW j \in Jobs, JobReturns(j) PROVE Inv'
<1> SUFFICES ASSUME HostInv PROVE HostInv'
  BY Zenon DEF Inv
<1>1. UNCHANGED <<told, paused, host, rev, marker, disk, ep, stopped, fd, fired, acq,
                 event, E, W, S, H, R, mut, up, life>>
  BY Zenon DEF JobReturns, Leave, notJobs, hostVars, gateVars, epVars, daemonVars
<1>2. THost' /\ TGate' /\ TEp' /\ TAcq' /\ TE' /\ TW' /\ TS' /\ TH' /\ TR' /\ TMut' /\
      Revisions' /\ DiskMutex' /\ Sweeping' /\ Completed'
  BY <1>1, Frames, Zenon
<1>3. /\ op' \in [Jobs -> {"none", "waiting", "acting", "calling", "leaving", "over"}]
      /\ Running' \subseteq Running /\ W.pc # "down"
  BY Zenon DEF JobReturns, Enter, GiveUp, Leave, End, Alive, Running, HostInv, HostType, TOp
<1>4. TOp'
  BY <1>1, <1>3, Zenon DEF HostInv, HostType, TOp
<1>5. Watching'
  BY <1>1, <1>3, Zenon DEF HostInv, Watching, Pending, Closed
<1>6. Settled'
  BY <1>1, <1>3, Zenon DEF HostInv, Settled, Drained
<1>7. EveryJobInterrupted'
  BY <1>1, <1>3, Zenon DEF HostInv, EveryJobInterrupted, Closed
<1> QED BY <1>2, <1>4, <1>5, <1>6, <1>7, Zenon DEF HostInv, HostType

\* calls the daemon.
LEMMA JobCallsStep == ASSUME Inv, NEW j \in Jobs, JobCalls(j) PROVE Inv'
<1> SUFFICES ASSUME HostInv PROVE HostInv'
  BY Zenon DEF Inv
<1>1. UNCHANGED <<told, paused, host, rev, marker, disk, ep, stopped, fd, fired, acq,
                 event, E, W, S, H, R, up, life>>
  BY Zenon DEF JobCalls, Calls, Admit, notJobs, hostVars, gateVars, epVars, daemonVars
<1>2. THost' /\ TGate' /\ TEp' /\ TAcq' /\ TE' /\ TW' /\ TS' /\ TH' /\ TR' /\ Revisions' /\
      DiskMutex'
  BY <1>1, Frames, Zenon
<1>3. /\ op' \in [Jobs -> {"none", "waiting", "acting", "calling", "leaving", "over"}]
      /\ Running' \subseteq Running /\ W.pc # "down"
  BY Zenon DEF JobCalls, Enter, GiveUp, Calls, Alive, Running, HostInv, HostType, TOp
<1>4. j \in Running
  BY Zenon DEF JobCalls, Calls, Running
<1>5. mut' = [mut EXCEPT ![j] = "admit"] /\ ~marker /\ j \in Client
  BY Zenon DEF JobCalls, Admit, Client
<1>6. TOp'
  BY <1>1, <1>3, <1>4, <1>5, Zenon DEF HostInv, HostType, TOp
<1>7. TMut'
  BY <1>1, <1>3, <1>4, <1>5, Zenon DEF HostInv, HostType, TMut
<1>8. Watching'
  BY <1>1, <1>3, Zenon DEF HostInv, Watching, Pending, Closed
<1>9. Settled'
  BY <1>1, <1>4, Zenon DEF HostInv, Settled, Drained
<1>10. Sweeping'
  BY <1>1, <1>3, <1>4, <1>5, Zenon DEF HostInv, HostType, Sweeping, IsCurrent, NoStarts, Closed,
     SweepPCs
<1>11. Completed'
  BY <1>1, <1>3, <1>4, <1>5, Zenon DEF HostInv, HostType, Completed, NoStarts, Closed
<1>12. EveryJobInterrupted'
  BY <1>1, <1>3, Zenon DEF HostInv, EveryJobInterrupted, Closed
<1> QED BY <1>2, <1>6, <1>7, <1>8, <1>9, <1>10, <1>11, <1>12, Zenon DEF HostInv, HostType

\* The poll interrupts the operations while the marker is there.
LEMMA PollStep == ASSUME Inv, Poll PROVE Inv'
<1> SUFFICES ASSUME HostInv PROVE HostInv'
  BY Zenon DEF Inv
<1>1. UNCHANGED <<op, host, rev, marker, disk, ep, stopped, fd, fired, acq, event, E, W,
                 S, H, R, mut, up, life>>
  BY Zenon DEF Poll, Interrupt, notJobs, hostVars, gateVars, epVars, daemonVars
<1>2. THost' /\ TGate' /\ TEp' /\ TAcq' /\ TE' /\ TW' /\ TS' /\ TH' /\ TR' /\ TMut' /\
      Revisions' /\ Watching' /\ DiskMutex' /\ Settled' /\ Sweeping' /\ Completed'
  BY <1>1, Frames, Zenon
<1>3. told' = told \cup Running /\ paused' = TRUE
  BY Zenon DEF Poll, Interrupt
<1>4. TOp'
  BY <1>1, <1>3, Zenon DEF HostInv, HostType, TOp, Running
<1>5. EveryJobInterrupted'
  BY <1>1, <1>3, Zenon DEF HostInv, HostType, EveryJobInterrupted, Closed, Running
<1> QED BY <1>2, <1>4, <1>5, Zenon DEF HostInv, HostType

-----------------------------------------------------------------------------
\* The life of taild.

\* taild dies: what it had in memory is gone.
LEMMA TaildDiesStep == ASSUME Inv, TaildDies PROVE Inv'
<1> SUFFICES ASSUME HostInv PROVE HostInv'
  BY Zenon DEF Inv
<1>1. UNCHANGED <<host, marker, H, up>>
  BY Zenon DEF TaildDies, daemonVars
<1>2. TH'
  BY <1>1, Frames, Zenon
<1>3. /\ op' = [j \in Jobs |-> "none"] /\ told' = {} /\ paused' = FALSE
      /\ rev' = 0 /\ disk' = "free" /\ stopped' = 0 /\ fd' = FALSE /\ fired' = {}
      /\ acq' = "none" /\ event' = FALSE
  BY Zenon DEF TaildDies
<1>4. /\ ep' = [phase |-> "idle", rev |-> 0, late |-> FALSE]
      /\ E' = [pc |-> "idle", order |-> FALSE]
      /\ W' = [pc |-> "down", work |-> "none", phase |-> "idle", rev |-> 0, swept |-> 0]
      /\ S' = [pc |-> "off", pass |-> 1, rev |-> 0, err |-> FALSE]
      /\ R' = [pc |-> "off", rev |-> 0]
  BY Zenon DEF TaildDies
<1>5. mut' \in [Client -> {"none", "admit", "start", "stop", "failed"}]
  BY Zenon DEF TaildDies, HostInv, HostType, TMut, Client
<1>6. TOp'
  BY <1>1, <1>3, <1>4, <1>5, Zenon DEF HostInv, HostType, TOp
<1>7. THost'
  BY <1>1 DEF TaildDies, HostInv, HostType, THost
<1>8. TGate'
  BY <1>1, <1>3, <1>4, <1>5, Zenon DEF HostInv, HostType, TGate
<1>9. TEp'
  BY <1>1, <1>3, <1>4, <1>5, Zenon DEF HostInv, HostType, TEp, Phase
<1>10. TAcq'
  BY <1>1, <1>3, <1>4, <1>5, Zenon DEF HostInv, HostType, TAcq
<1>11. TE'
  BY <1>1, <1>3, <1>4, <1>5, Zenon DEF HostInv, HostType, TE
<1>12. TW'
  BY <1>1, <1>3, <1>4, <1>5, Zenon DEF HostInv, HostType, TW, Phase, RecoverPCs
<1>13. TS'
  BY <1>1, <1>3, <1>4, <1>5, SMTT(30) DEF HostInv, HostType, TS, SweepPCs
<1>14. TR'
  BY <1>1, <1>3, <1>4, <1>5, Zenon DEF HostInv, HostType, TR
<1>15. TMut'
  BY <1>1, <1>3, <1>4, <1>5, Zenon DEF HostInv, HostType, TMut
<1>16. Revisions'
  BY <1>1, <1>3, <1>4, <1>5, SMTT(30) DEF HostInv, HostType, Revisions, Pending, Closed
<1>17. Watching'
  BY <1>1, <1>3, <1>4, <1>5, Zenon DEF HostInv, HostType, Watching, Pending, Closed, Drained,
     Running, RecoverPCs
<1>18. DiskMutex'
  BY <1>1, <1>3, <1>4, <1>5, Zenon DEF HostInv, HostType, DiskMutex
<1>19. Settled'
  BY <1>1, <1>3, <1>4, <1>5, Zenon DEF HostInv, HostType, Settled, Drained, Running
<1>20. Sweeping'
  BY <1>1, <1>3, <1>4, <1>5, Zenon DEF HostInv, HostType, Sweeping, IsCurrent, NoStarts, Closed,
     SweepPCs
<1>21. Completed'
  BY <1>1, <1>3, <1>4, <1>5, Zenon DEF HostInv, HostType, Completed, NoStarts, Closed
<1>22. EveryJobInterrupted'
  BY <1>1, <1>3, <1>4, <1>5, Zenon DEF HostInv, HostType, EveryJobInterrupted, Closed, Running
<1> QED BY <1>2, <1>6, <1>7, <1>8, <1>9, <1>10, <1>11, <1>12, <1>13, <1>14, <1>15, <1>16,
          <1>17, <1>18, <1>19, <1>20, <1>21, <1>22, Zenon DEF HostInv, HostType

\* taild starts, sealed when a marker or a shutdown is found.
LEMMA TaildStartsStep == ASSUME Inv, TaildStarts PROVE Inv'
<1> SUFFICES ASSUME HostInv PROVE HostInv'
  BY Zenon DEF Inv
<1>1. UNCHANGED <<op, told, host, marker, disk, stopped, fired, acq, S, H, mut, up, life>>
  BY Zenon DEF TaildStarts, opVars, hostVars, gateVars, epVars, daemonVars
<1>2. THost' /\ TS' /\ TH' /\ TMut'
  BY <1>1, Frames, Zenon
<1>3. Sealed \in Nat /\ Sealed > rev /\ Sealed % 2 = 1
  BY SealedIsNew, Zenon DEF HostInv, HostType, TGate
<1>4. /\ W.pc = "down" /\ W' = [W EXCEPT !.pc = "top"] /\ fd' = TRUE
      /\ E' = [E EXCEPT !.order = host.prep] /\ host.prep \in BOOLEAN
  BY Zenon DEF TaildStarts, HostInv, HostType, THost
<1>5. /\ W'.pc = "top" /\ W'.work = W.work /\ W'.phase = W.phase /\ W'.rev = W.rev
      /\ W'.swept = W.swept /\ E'.order = host.prep /\ E'.pc = E.pc
  BY <1>4, Zenon DEF HostInv, HostType, TW, TE
<1>6. /\ S.pc = "off" /\ Drained /\ ep.phase = "idle" /\ fired = {} /\ R.pc = "off"
      /\ W.phase = "idle"
  BY <1>4, Zenon DEF HostInv, Watching
<1>7. \/ /\ ~host.prep /\ UNCHANGED <<rev, ep, paused, event>> /\ R' = [R EXCEPT !.pc = "begin"]
      \/ /\ host.prep /\ rev' = Sealed /\ paused' = TRUE /\ event' = TRUE
         /\ ep' = [phase |-> "preparing", rev |-> Sealed, late |-> FALSE]
         /\ R' = [R EXCEPT !.pc = "done"]
  BY <1>4, Zenon DEF TaildStarts
<1>8. S.rev < Sealed /\ stopped < Sealed /\ W.rev < Sealed /\ W.swept < Sealed /\
     ep.rev < Sealed
  BY <1>3 DEF HostInv, HostType, TEp, TGate, TW, TS, Revisions
<1>9. R'.pc \in {"begin", "done"}
  BY <1>7, Zenon DEF HostInv, HostType, TR
<1>10. TOp'
  BY <1>1, <1>7, Zenon DEF HostInv, HostType, TOp
<1>11. TGate'
  BY <1>1, <1>3, <1>7, Zenon DEF HostInv, HostType, TGate
<1>12. TEp'
  <2>1. CASE UNCHANGED ep
    BY <1>1, <1>4, <2>1, Zenon DEF HostInv, HostType, TEp
  <2>2. CASE ep' = [phase |-> "preparing", rev |-> Sealed, late |-> FALSE]
    <3>1. ep' \in [phase : Phase, rev : Nat, late : BOOLEAN]
      BY <1>3, <2>2, Zenon DEF Phase
    <3> QED BY <1>1, <1>4, <3>1, Zenon DEF HostInv, HostType, TEp
  <2> QED BY <1>7, <2>1, <2>2, Zenon
<1>13. TAcq'
  BY <1>1, <1>7, Zenon DEF HostInv, HostType, TAcq
<1>14. TE'
  BY <1>4, Zenon DEF HostInv, HostType, TE
<1>15. TW'
  BY <1>4, Zenon DEF HostInv, HostType, TW
<1>16. TR'
  BY <1>7, Zenon DEF HostInv, HostType, TR
<1>17. Revisions'
  <2>1. CASE ~host.prep
    BY <1>1, <1>4, <1>5, <1>6, <1>7, <2>1, Zenon DEF HostInv, Revisions, Closed, Pending
  <2>2. CASE host.prep
    <3>1. rev' = Sealed /\ ep'.phase = "preparing" /\ ep'.rev = Sealed
      BY <1>7, <2>2
    <3>2. Pending'
      BY <1>3, <3>1, Zenon DEF Pending
    <3>3. /\ W'.rev <= ep'.rev /\ W'.swept <= ep'.rev /\ ep'.rev <= rev'
          /\ S'.rev <= W'.swept /\ stopped' <= W'.swept
      BY <1>1, <1>3, <1>5, <1>8, <3>1, SMTT(30)
      DEF HostInv, HostType, Revisions, TEp, TGate, TW, TS
    <3> QED BY <1>1, <1>6, <3>1, <3>2, <3>3, Zenon DEF Revisions
  <2> QED BY <1>4, <2>1, <2>2, Zenon
<1>18. Watching'
  BY <1>1, <1>5, <1>6, <1>9, Zenon
  DEF HostInv, Watching, Closed, RecoverPCs
<1>19. DiskMutex'
  BY <1>5, <1>9, Zenon DEF DiskMutex
<1>20. Settled'
  BY <1>5, Zenon DEF Settled
<1>21. Sweeping'
  BY <1>1, <1>6, Zenon DEF Sweeping, SweepPCs
<1>22. Completed'
  <2>1. ep'.phase = "preparing" => stopped' < ep'.rev
    BY <1>1, <1>6, <1>7, <1>8
  <2>2. ep'.phase = "preparing" => ep'.rev \in Nat /\ stopped' \in Nat
    BY <1>1, <1>3, <1>6, <1>7 DEF HostInv, HostType, TEp
  <2> QED BY <2>1, <2>2 DEF Completed
<1>23. EveryJobInterrupted'
  BY <1>1, <1>6, Zenon DEF EveryJobInterrupted, Drained, Running
<1> QED BY <1>2, <1>10, <1>11, <1>12, <1>13, <1>14, <1>15, <1>16, <1>17, <1>18, <1>19,
          <1>20, <1>21, <1>22, <1>23, Zenon DEF HostInv, HostType

\* taild starts without an inhibitor.
LEMMA TaildStartsUnprotectedStep == ASSUME Inv, TaildStartsUnprotected PROVE Inv'
<1> SUFFICES ASSUME HostInv PROVE HostInv'
  BY Zenon DEF Inv
<1>1. UNCHANGED <<op, told, paused, host, rev, marker, disk, ep, stopped, fd, fired, acq,
                 event, E, S, H, mut, up, life>>
  BY Zenon DEF TaildStartsUnprotected, opVars, hostVars, gateVars, epVars, daemonVars
<1>2. TOp' /\ THost' /\ TGate' /\ TEp' /\ TAcq' /\ TE' /\ TS' /\ TH' /\ TMut'
  BY <1>1, Frames, Zenon
<1>3. /\ W.pc = "down" /\ W'.pc = "closed" /\ W'.work = W.work /\ W'.phase = W.phase
      /\ W'.rev = W.rev /\ W'.swept = W.swept /\ R'.pc = "begin"
  BY Zenon DEF TaildStartsUnprotected, HostInv, HostType, TW, TR
<1>4. /\ S.pc = "off" /\ Drained /\ ep.phase = "idle" /\ fired = {} /\ R.pc = "off"
      /\ W.phase = "idle"
  BY <1>3, Zenon DEF HostInv, Watching
<1>5. TW'
  BY Zenon DEF TaildStartsUnprotected, HostInv, HostType, TW
<1>6. TR'
  BY Zenon DEF TaildStartsUnprotected, HostInv, HostType, TR
<1>7. Revisions'
  BY <1>1, <1>3, <1>4, Zenon DEF HostInv, HostType, Revisions, Pending, Closed
<1>8. Watching'
  BY <1>1, <1>3, <1>4, Zenon DEF HostInv, HostType, Watching, Pending, Closed, Drained, Running,
     RecoverPCs
<1>9. DiskMutex'
  BY <1>1, <1>3, <1>4, Zenon DEF HostInv, HostType, DiskMutex
<1>10. Settled'
  BY <1>1, <1>3, <1>4, Zenon DEF HostInv, HostType, Settled, Drained, Running
<1>11. Sweeping'
  BY <1>1, <1>3, <1>4, Zenon DEF HostInv, HostType, Sweeping, IsCurrent, NoStarts, Closed, SweepPCs
<1>12. Completed'
  BY <1>1, <1>3, <1>4, Zenon DEF HostInv, HostType, Completed, NoStarts, Closed
<1>13. EveryJobInterrupted'
  BY <1>1, <1>3, <1>4, Zenon DEF HostInv, HostType, EveryJobInterrupted, Closed, Running
<1> QED BY <1>2, <1>5, <1>6, <1>7, <1>8, <1>9, <1>10, <1>11, <1>12, <1>13, Zenon DEF HostInv,
          HostType

-----------------------------------------------------------------------------
\* watch.

\* The episode has moved on, or watch has nothing more to do for it.
LEMMA Loops ==
  ASSUME TW, NEW p \in {"top", "select", "closed"}, NEW work \in {"none", "worker", "jobs"},
         WLoops(p, work)
  PROVE  /\ TW' /\ W'.pc = p /\ W'.work = work /\ W'.phase = "idle" /\ W'.rev = 0
         /\ W'.swept = W.swept
BY Zenon DEF TW, WLoops, Phase

\* watch moves and changes nothing else of itself.
LEMMA Goes ==
  ASSUME TW, NEW p \in RecoverPCs, WGo(p)
  PROVE  /\ TW' /\ W'.pc = p /\ W'.work = W.work /\ W'.phase = W.phase /\ W'.rev = W.rev
         /\ W'.swept = W.swept
BY Zenon DEF TW, WGo

\* watch reads the episode,
LEMMA WSnapshotStep == ASSUME Inv, WSnapshot PROVE Inv'
<1> SUFFICES ASSUME HostInv PROVE HostInv'
  BY Zenon DEF Inv
<1>1. UNCHANGED <<op, told, paused, host, rev, marker, disk, ep, stopped, fd, fired, acq,
                 event, E, S, H, R, mut, up, life>>
  BY Zenon DEF WSnapshot, notW, opVars, hostVars, gateVars, epVars, daemonVars
<1>2. TOp' /\ THost' /\ TGate' /\ TEp' /\ TAcq' /\ TE' /\ TS' /\ TH' /\ TR' /\ TMut'
  BY <1>1, Frames, Zenon
<1>3. /\ W.pc = "top" /\ W'.pc = "act" /\ W'.phase = ep.phase /\ W'.rev = ep.rev
      /\ W'.work = W.work /\ W'.swept = W.swept
  BY Zenon DEF WSnapshot, HostInv, HostType, TW
<1>4. TW'
  BY Zenon DEF WSnapshot, HostInv, HostType, TW, TEp
<1>5. Revisions'
  BY <1>1, <1>3, SMTT(30) DEF HostInv, HostType, Revisions, Pending, Closed, TEp, TW
<1>6. Watching'
  BY <1>1, <1>3, Zenon DEF HostInv, HostType, Watching, Pending, Closed, Drained, Running,
     RecoverPCs, Revisions, TEp, TW
<1>7. DiskMutex'
  BY <1>1, <1>3, Zenon DEF HostInv, DiskMutex
<1>8. (Closed => Closed') /\ (NoStarts => NoStarts')
  BY <1>1, <1>3, Zenon DEF Closed, NoStarts
<1>9. Settled' /\ Sweeping' /\ Completed' /\ EveryJobInterrupted'
  BY <1>1, <1>3, <1>8, Weakly, Zenon
<1> QED BY <1>2, <1>4, <1>5, <1>6, <1>7, <1>9, Zenon DEF HostInv, HostType

\* starts a worker for a shutdown,
LEMMA WActsSweepStep == ASSUME Inv, W.pc = "act", canSweep, WActs PROVE Inv'
<1> SUFFICES ASSUME HostInv PROVE HostInv'
  BY Zenon DEF Inv
<1>1. UNCHANGED <<op, told, paused, host, rev, marker, disk, ep, stopped, fd, fired,
                 event, E, H, R, mut, up, life>>
  BY Zenon DEF WActs, notW, opVars, hostVars, gateVars, epVars, daemonVars
<1>2. TOp' /\ THost' /\ TGate' /\ TEp' /\ TE' /\ TH' /\ TR' /\ TMut'
  BY <1>1, Frames, Zenon
<1>3. /\ W'.pc = "select" /\ W'.work = "worker" /\ W'.swept = W.rev /\ W'.phase = "idle"
      /\ W'.rev = 0
  BY Zenon DEF WActs, HostInv, HostType, TW
<1>4. S' = [pc |-> "mark", pass |-> 1, rev |-> W.rev, err |-> FALSE]
  BY Zenon DEF WActs
<1>5. /\ W.phase = "preparing" /\ W.rev \in Nat /\ acq' \in {acq, "call"}
      /\ W.swept \in Nat /\ stopped \in Nat
  BY Zenon DEF WActs, canSweep, HostInv, HostType, TW, TEp
<1>6. TAcq'
  BY <1>1, <1>5, Zenon DEF HostInv, HostType, TAcq
<1>7. TW'
  <2>1. W' = [W EXCEPT !.pc = "select", !.work = "worker", !.swept = W.rev, !.phase = "idle",
                     !.rev = 0]
    BY Zenon DEF WActs
  <2> QED BY <1>5, <2>1, Zenon DEF HostInv, HostType, TW, Phase
<1>8. TS' /\ S'.pc = "mark" /\ S'.pass = 1 /\ S'.rev = W.rev
  BY <1>4, <1>5, SMTT(30) DEF TS
<1>9. Revisions'
  BY <1>1, <1>3, <1>5, <1>8, SMTT(30) DEF HostInv, HostType, Revisions, Pending, Closed, Watching, TS,
     TEp
<1>10. Watching'
  BY <1>1, <1>3, <1>8, Zenon DEF HostInv, HostType, Watching, Pending, Closed, Drained,
     Running, RecoverPCs
<1>11. DiskMutex'
  BY <1>1, <1>3, Zenon DEF HostInv, DiskMutex
<1>12. (Closed => Closed') /\ (NoStarts => NoStarts')
  BY <1>1, Zenon DEF Closed, NoStarts
<1>13. Settled' /\ Completed' /\ EveryJobInterrupted'
  BY <1>1, <1>3, <1>12, Weakly, Zenon
<1>14. Sweeping'
  BY <1>8, Zenon DEF Sweeping, SweepPCs
<1> QED BY <1>2, <1>6, <1>7, <1>8, <1>9, <1>10, <1>11, <1>13, <1>14, Zenon DEF HostInv, HostType

\* watch goes back to its loop, or ends: its own revision is gone.
LEMMA LoopsRevisions == ASSUME HostInv, UNCHANGED <<rev, ep, stopped, fired, E, S>>,
         W'.rev = 0, W'.swept = W.swept, ~Closed, W.pc = "recovered" => ~Current
  PROVE  Revisions'
<1>1. ep.rev \in Nat
  BY Zenon DEF HostInv, HostType, TEp
<1> QED BY <1>1 DEF HostInv, Revisions, Pending, Closed, Current

\* A step that leaves the marker and the restarted recovery alone keeps both.
LEMMA MarkerKept == ASSUME marker' = marker, R' = R
  PROVE  (marker => marker') /\ (R'.pc = "clear" => R.pc = "clear")
OBVIOUS

\* watch's way back leaves the episode alone.
LEMMA LoopsInv == ASSUME Inv, NEW p \in {"top", "select", "closed"},
         NEW work \in {"none", "worker", "jobs"}, WLoops(p, work), ~Closed,
         W.pc = "recovered" => ~Current,
         S.pc # "off" /\ p # "closed" => work = "worker",
         fd' \in {fd, FALSE}, TAcq', TOp',
         disk' = disk \/ (W.pc \in {"clear", "swap"} /\ disk' = "free"),
         UNCHANGED <<op, told, life, host, rev, marker, ep, stopped, fired, E, S, H, R, mut,
              up>>
  PROVE  Inv'
<1> SUFFICES ASSUME HostInv PROVE HostInv'
  BY Zenon DEF Inv
<1>1. UNCHANGED <<op, told, host, rev, marker, ep, stopped, fired, E, S, H, R, mut, up,
                 life>>
  BY Zenon
<1>2. THost' /\ TE' /\ TS' /\ TH' /\ TR' /\ TMut'
  BY <1>1, Frames, Zenon
<1>3. /\ TW' /\ W'.pc = p /\ W'.work = work /\ W'.phase = "idle" /\ W'.rev = 0
      /\ W'.swept = W.swept
  BY Loops, Zenon DEF HostInv, HostType
<1>4. ep.rev \in Nat /\ W.pc # "down" /\ W.pc # "closed"
  BY Zenon DEF HostInv, HostType, TEp, Closed
<1>5. TGate'
  BY <1>1, Zenon DEF HostInv, HostType, TGate
<1>6. TEp'
  BY <1>1, Zenon DEF HostInv, HostType, TEp
<1>7. Revisions'
  BY <1>1, <1>3, LoopsRevisions, Zenon
<1>8. Watching'
  BY <1>1, <1>3, <1>4, Zenon DEF HostInv, HostType, Watching, Pending, Closed, Drained, Running,
     RecoverPCs
<1>9. DiskMutex'
  BY <1>1, <1>3, <1>4, Zenon DEF HostInv, HostType, DiskMutex
<1>10. (NoStarts => NoStarts') /\ W'.pc \notin {"check", "lock", "clear", "swap"}
  BY <1>1, <1>3, Zenon DEF NoStarts
<1>11. Settled' /\ Sweeping' /\ Completed' /\ EveryJobInterrupted'
  <2>1. /\ UNCHANGED <<op, mut>> /\ UNCHANGED <<S, ep, mut, up>> /\ UNCHANGED <<ep, stopped, up>>
        /\ UNCHANGED <<ep, E, op, told>>
    BY <1>1, Zenon
  <2>2. (marker => marker') /\ (R'.pc = "clear" => R.pc = "clear")
    <3>1. marker' = marker /\ R' = R
      BY <1>1, Zenon
    <3> QED BY <3>1, MarkerKept, Zenon
  <2>3. Closed => Closed'
    BY Zenon
  <2> QED BY <1>10, <2>1, <2>2, <2>3, Weakly, Zenon
<1> QED BY <1>2, <1>3, <1>5, <1>6, <1>7, <1>8, <1>9, <1>11, Zenon DEF HostInv, HostType

\* or a recovery for one called off,
LEMMA WActsRecoverStep == ASSUME Inv, W.pc = "act", ~canSweep, canRecover,
         W' = [W EXCEPT !.pc = "mark", !.work = "none"], WActs PROVE  Inv'
<1> SUFFICES ASSUME HostInv PROVE HostInv'
  BY Zenon DEF Inv
<1>1. UNCHANGED <<op, told, paused, host, rev, marker, disk, ep, stopped, fd, fired,
                 event, E, S, H, R, mut, up, life>>
  BY Zenon DEF WActs, notW, opVars, hostVars, gateVars, epVars, daemonVars
<1>2. TOp' /\ THost' /\ TGate' /\ TEp' /\ TE' /\ TS' /\ TH' /\ TR' /\ TMut'
  BY <1>1, Frames, Zenon
<1>3. /\ W'.pc = "mark" /\ W'.work = "none" /\ W'.phase = W.phase /\ W'.rev = W.rev
      /\ W'.swept = W.swept /\ W.phase = "cancelled"
  BY Zenon DEF canRecover, HostInv, HostType, TW
<1>4. S.pc = "off"
  BY Zenon DEF canRecover, Work, WorkDone, HostInv, Watching, Closed
<1>5. TAcq'
  BY <1>1, Zenon DEF WActs, HostInv, HostType, TAcq
<1>6. TW'
  BY Zenon DEF HostInv, HostType, TW, RecoverPCs
<1>7. Revisions'
  BY <1>1, <1>3, <1>4, Zenon DEF HostInv, HostType, Revisions, Pending, Closed
<1>8. Watching'
  BY <1>1, <1>3, <1>4, Zenon DEF HostInv, HostType, Watching, Pending, Closed, Drained, Running,
     RecoverPCs
<1>9. DiskMutex'
  BY <1>1, <1>3, Zenon DEF HostInv, DiskMutex
<1>10. (Closed => Closed') /\ (NoStarts => NoStarts')
  BY <1>1, Zenon DEF Closed, NoStarts
<1>11. Settled' /\ Sweeping' /\ Completed' /\ EveryJobInterrupted'
  BY <1>1, <1>3, <1>10, Weakly, Zenon
<1> QED BY <1>2, <1>5, <1>6, <1>7, <1>8, <1>9, <1>11, Zenon DEF HostInv, HostType

\* which are all it can do there;
LEMMA WActsStep == ASSUME Inv, WActs PROVE Inv'
<1> HostInv
  BY Zenon DEF Inv
<1>1. acq' \in {acq, "call"} /\ W.pc = "act"
  BY Zenon DEF WActs
<1>2. UNCHANGED <<op, told, paused, life, host, rev, marker, disk, ep, stopped, fd, fired,
     event, E,
                  H, R, mut, up>>
  BY Zenon DEF WActs, notW, opVars, hostVars, gateVars, epVars, daemonVars
<1>3. TAcq' /\ TOp'
  BY <1>1, <1>2, Zenon DEF HostInv, HostType, TAcq, TOp
<1>4. Work \in {"none", "worker", "jobs"} /\ (S.pc # "off" => Work = "worker")
  BY <1>1, Zenon DEF Work, WorkDone, HostInv, HostType, TW, Watching, Closed
<1>5. CASE canSweep
  BY <1>1, <1>5, WActsSweepStep, Zenon
<1>6. CASE ~canSweep /\ WLoops("select", Work)
  <2>1. UNCHANGED S
    BY <1>6, Zenon DEF WActs
  <2> HIDE DEF Work
  <2>2. ~Closed /\ W.pc # "recovered"
    BY <1>1, Zenon DEF Closed
  <2> QED BY <1>2, <1>3, <1>4, <1>6, <2>1, <2>2, LoopsInv, Zenon
<1>7. CASE ~canSweep /\ canRecover /\ W' = [W EXCEPT !.pc = "mark", !.work = "none"]
  BY <1>1, <1>7, WActsRecoverStep, Zenon
<1> QED BY <1>1, <1>5, <1>6, <1>7, Zenon DEF WActs

\* it waits for the next event,
LEMMA WSelectsStep == ASSUME Inv, WSelects PROVE Inv'
<1> HostInv
  BY Zenon DEF Inv
<1>1. UNCHANGED <<op, told, paused, life, host, rev, marker, disk, ep, stopped, fired, E, S,
     H, R,
                  mut, up>>
  BY Zenon DEF WSelects, notW, opVars, hostVars, gateVars, epVars, daemonVars
<1>2. ~Closed /\ W.pc # "recovered" /\ fd' \in {fd, FALSE} /\ TAcq' /\ TOp'
  BY Zenon DEF WSelects, Closed, notW, opVars, epVars, HostInv, HostType, TAcq, TOp
<1>3. Work \in {"none", "worker", "jobs"} /\ (S.pc # "off" => Work = "worker")
  BY <1>2, Zenon DEF Work, WorkDone, HostInv, HostType, TW, Watching, Closed
<1>4. WLoops("top", Work)
  BY Zenon DEF WSelects
<1> HIDE DEF Work
<1> QED BY <1>1, <1>2, <1>3, <1>4, LoopsInv, Zenon

\* closes when the descriptor is refused,
LEMMA WRefusedStep == ASSUME Inv, WRefused PROVE Inv'
<1> HostInv
  BY Zenon DEF Inv
<1>1. UNCHANGED <<op, told, paused, life, host, rev, marker, disk, ep, stopped, fired, E, S,
     H, R,
                  mut, up>>
  BY Zenon DEF WRefused, WCloses, notW, opVars, hostVars, gateVars, epVars, daemonVars
<1>2. ~Closed /\ W.pc # "recovered" /\ fd' \in {fd, FALSE} /\ TAcq' /\ TOp'
  BY Zenon DEF WRefused, WCloses, Closed, notW, opVars, epVars, HostInv, HostType, TAcq, TOp
<1>3. WLoops("closed", "none")
  BY Zenon DEF WRefused, WCloses
<1> QED BY <1>1, <1>2, <1>3, LoopsInv, Zenon

\* or when the bus is lost.
LEMMA WLostStep == ASSUME Inv, WLost PROVE Inv'
<1> HostInv
  BY Zenon DEF Inv
<1>1. UNCHANGED <<op, told, paused, life, host, rev, marker, disk, ep, stopped, fired, E, S,
     H, R,
                  mut, up>>
  BY Zenon DEF WLost, WCloses, notW, opVars, hostVars, gateVars, epVars, daemonVars
<1>2. ~Closed /\ W.pc # "recovered" /\ fd' \in {fd, FALSE} /\ TAcq' /\ TOp'
  BY Zenon DEF WLost, WCloses, Closed, notW, opVars, epVars, HostInv, HostType, TAcq, TOp
<1>3. WLoops("closed", "none")
  BY Zenon DEF WLost, WCloses
<1> QED BY <1>1, <1>2, <1>3, LoopsInv, Zenon

\* An outcome is a Boolean whatever faults there are.
LEMMA OutcomeIsBoolean == Outcome \subseteq BOOLEAN
BY Zenon DEF Outcome

\* What holds whenever watch recovers.
LEMMA Recovering ==
  ASSUME Inv, W.pc \in RecoverPCs
  PROVE  /\ ~Closed /\ S.pc = "off" /\ W.phase = "cancelled" /\ W.work = "none"
         /\ W.rev \in Nat /\ rev \in Nat /\ ep.rev \in Nat
         /\ ep.phase = "preparing" => stopped # ep.rev /\ ep.rev # W.rev
<1> HostInv
  BY Zenon DEF Inv
<1>1. W.phase = "cancelled" /\ W.work = "none" /\ ~Closed /\ S.pc = "off"
  BY Zenon DEF HostInv, Watching, Closed, RecoverPCs
<1>2. W.rev \in Nat /\ rev \in Nat /\ ep.rev \in Nat /\ stopped \in Nat /\ W.swept \in Nat
  BY Zenon DEF HostInv, HostType, TW, TGate, TEp
<1>3. ep.phase = "preparing" => ep.rev # W.rev
  BY <1>1, Zenon DEF HostInv, Watching
<1>4. W.swept <= W.rev /\ W.rev <= ep.rev /\ stopped <= W.swept
  BY <1>1, Zenon DEF HostInv, Watching, Revisions
<1> QED BY <1>1, <1>2, <1>3, <1>4

\* Recovery goes on to its next step with the gate still closed.
LEMMA RecoveryGoes ==
  ASSUME Inv, W.pc \in {"mark", "settle", "check", "lock", "clear"},
         NEW p \in {"settle", "check", "lock", "clear", "swap"}, WGo(p),
         UNCHANGED <<op, told, paused, life, host, rev, ep, stopped, fd, fired, acq, event, E, S,
              H, R, mut, up>>,
         TGate', DiskMutex', Settled'
  PROVE  Inv'
<1> SUFFICES ASSUME HostInv PROVE HostInv'
  BY Zenon DEF Inv
<1>1. TOp' /\ THost' /\ TEp' /\ TAcq' /\ TE' /\ TS' /\ TH' /\ TR' /\ TMut'
  BY Frames, Zenon
<1>2. /\ TW' /\ W'.pc = p /\ W'.work = W.work /\ W'.phase = W.phase /\ W'.rev = W.rev
      /\ W'.swept = W.swept
  BY Goes, Zenon DEF HostInv, HostType, RecoverPCs
<1>3. /\ ~Closed /\ S.pc = "off" /\ W.phase = "cancelled" /\ W.work = "none"
      /\ W.rev \in Nat /\ rev \in Nat /\ ep.rev \in Nat
      /\ ep.phase = "preparing" => stopped # ep.rev /\ ep.rev # W.rev
  BY Recovering, Zenon DEF RecoverPCs
<1>4. Revisions'
  BY <1>2, <1>3, Zenon DEF HostInv, HostType, Revisions, Pending, Closed
<1>5. Watching'
  BY <1>2, <1>3, Zenon DEF HostInv, HostType, Watching, Pending, Closed, Drained, Running,
     RecoverPCs
<1>6. Sweeping'
  BY <1>3, Zenon DEF Sweeping, SweepPCs
<1>7. Completed'
  BY <1>3, Zenon DEF Completed
<1>8. EveryJobInterrupted'
  BY <1>3, Weakly, Zenon
<1> QED BY <1>1, <1>2, <1>4, <1>5, <1>6, <1>7, <1>8, Zenon DEF HostInv, HostType

\* Recovery writes its marker,
LEMMA WMarksOkStep == ASSUME Inv, W.pc = "mark", Mark(TRUE), WGo("settle"),
         UNCHANGED <<notW, opVars, rev, disk, epVars, acq, event, S, daemonVars>> PROVE  Inv'
<1>1. UNCHANGED <<op, told, paused, life, host, rev, ep, stopped, fd, fired, acq, event, E, S,
                  H, R, mut, up>>
  BY Zenon DEF notW, opVars, hostVars, gateVars, epVars, daemonVars
<1>2. TGate'
  BY <1>1, Zenon DEF Mark, Inv, HostInv, HostType, TGate
<1>3. TW' /\ W'.pc = "settle" /\ disk' = disk
  BY Goes, Zenon DEF Inv, HostInv, HostType, RecoverPCs
<1>4. DiskMutex' /\ Settled'
  BY <1>1, <1>3, Zenon DEF Inv, HostInv, DiskMutex, Settled
<1> QED BY <1>1, <1>2, <1>4, RecoveryGoes, Zenon

\* or closes the gate for good,
LEMMA WMarksFailStep == ASSUME Inv, W.pc = "mark", Mark(FALSE), WCloses,
         UNCHANGED <<notW, opVars, rev, disk, acq, event, S, daemonVars>> PROVE  Inv'
<1> HostInv
  BY Zenon DEF Inv
<1>1. UNCHANGED <<op, told, life, host, rev, marker, ep, stopped, fired, E, S, H, R, mut, up>>
  BY Zenon DEF Mark, WCloses, HostInv, HostType, TGate, notW, opVars, hostVars, gateVars, epVars,
       daemonVars
<1>2. fd' \in {fd, FALSE} /\ TAcq' /\ TOp' /\ WLoops("closed", "none")
  BY Zenon DEF Mark, WCloses, HostInv, HostType, TGate, notW, opVars, hostVars, gateVars, epVars,
       daemonVars, HostInv, HostType, TAcq, TOp
<1>3. disk' = disk \/ (W.pc \in {"clear", "swap"} /\ disk' = "free")
  BY Zenon DEF Mark, WCloses, HostInv, HostType, TGate, notW, opVars, hostVars, gateVars, epVars,
       daemonVars
<1>4. ~Closed /\ S.pc = "off"
  BY Recovering, Zenon DEF RecoverPCs
<1>5. W.pc = "recovered" => ~Current
  BY Zenon
<1> QED BY <1>1, <1>2, <1>3, <1>4, <1>5, LoopsInv, Zenon

\* nothing else.
LEMMA WMarksStep == ASSUME Inv, NEW ok \in Outcome, WMarks(ok) PROVE Inv'
<1>1. ok \in BOOLEAN
  BY OutcomeIsBoolean, Zenon
<1>2. CASE ok = TRUE
  BY <1>2, WMarksOkStep, Zenon DEF WMarks, epVars
<1>3. CASE ok = FALSE
  BY <1>3, WMarksFailStep, Zenon DEF WMarks
<1> QED BY <1>1, <1>2, <1>3, Zenon

\* With the operations, the calls and the worker gone it goes on;
LEMMA WSettledOkStep == ASSUME Inv, W.pc = "settle", Drained, MutationsDrained,
     WGo("check"),
         UNCHANGED S, UNCHANGED <<notW, opVars, gateVars, epVars, acq, event,
              daemonVars>> PROVE  Inv'
<1>1. UNCHANGED <<op, told, paused, life, host, rev, ep, stopped, fd, fired, acq, event, E, S,
                  H, R, mut, up>>
  BY Zenon DEF notW, opVars, hostVars, gateVars, epVars, daemonVars
<1>2. TGate'
  BY Frames, Zenon DEF gateVars
<1>3. TW' /\ W'.pc = "check" /\ disk' = disk
  BY Goes, Zenon DEF Inv, HostInv, HostType, RecoverPCs, gateVars
<1>4. DiskMutex'
  BY <1>1, <1>3, Zenon DEF Inv, HostInv, DiskMutex
<1>5. Settled'
  BY <1>1, Zenon DEF Settled, Drained, Running, MutationsDrained, Client
<1> QED BY <1>1, <1>2, <1>4, <1>5, RecoveryGoes, Zenon

\* it waits for the operations,
LEMMA WSettlesJobsStep == ASSUME Inv, W.pc = "settle", WLoops("top", "jobs"),
     UNCHANGED S, UNCHANGED <<notW, opVars, gateVars, epVars, acq, event, daemonVars>>
       PROVE  Inv'
<1> HostInv
  BY Zenon DEF Inv
<1>1. UNCHANGED <<op, told, life, host, rev, marker, ep, stopped, fired, E, S, H, R, mut, up>>
  BY Zenon DEF notW, opVars, hostVars, gateVars, epVars, daemonVars
<1>2. fd' \in {fd, FALSE} /\ TAcq' /\ TOp' /\ WLoops("top", "jobs")
  BY Zenon DEF notW, opVars, hostVars, gateVars, epVars, daemonVars, HostInv, HostType, TAcq, TOp
<1>3. disk' = disk \/ (W.pc \in {"clear", "swap"} /\ disk' = "free")
  BY Zenon DEF notW, opVars, hostVars, gateVars, epVars, daemonVars
<1>4. ~Closed /\ S.pc = "off"
  BY Recovering, Zenon DEF RecoverPCs
<1>5. W.pc = "recovered" => ~Current
  BY Zenon
<1> QED BY <1>1, <1>2, <1>3, <1>4, <1>5, LoopsInv, Zenon

\* or for the worker,
LEMMA WSettlesWorkStep == ASSUME Inv, W.pc = "settle", WLoops("top", "worker"),
         S' = [pc |-> "settle", pass |-> 1, rev |-> 0, err |-> TRUE], UNCHANGED <<notW,
              opVars, gateVars, epVars, acq, event, daemonVars>> PROVE  Inv'
<1> SUFFICES ASSUME HostInv PROVE HostInv'
  BY Zenon DEF Inv
<1>1. UNCHANGED <<op, told, paused, host, rev, marker, disk, ep, stopped, fd, fired, acq,
                 event, E, H, R, mut, up, life>>
  BY Zenon DEF notW, opVars, hostVars, gateVars, epVars, daemonVars
<1>2. TOp' /\ THost' /\ TGate' /\ TEp' /\ TAcq' /\ TE' /\ TH' /\ TR' /\ TMut'
  BY <1>1, Frames, Zenon
<1>3. /\ TW' /\ W'.pc = "top" /\ W'.work = "worker" /\ W'.phase = "idle" /\ W'.rev = 0
      /\ W'.swept = W.swept
  BY Loops, Zenon DEF HostInv, HostType
<1>4. /\ ~Closed /\ S.pc = "off" /\ W.phase = "cancelled" /\ W.work = "none"
      /\ W.rev \in Nat /\ rev \in Nat /\ ep.rev \in Nat
      /\ ep.phase = "preparing" => stopped # ep.rev /\ ep.rev # W.rev
  BY Recovering, Zenon DEF RecoverPCs
<1>5. TW'
  BY <1>3, Zenon
<1>6. TS'
  BY DEF TS
<1>7. Revisions'
  BY <1>1, <1>3, <1>4, SMTT(30) DEF HostInv, HostType, Revisions, Pending, Closed, TW
<1>8. Watching'
  BY <1>1, <1>3, <1>4, Zenon DEF HostInv, HostType, Watching, Pending, Closed, Drained, Running,
     RecoverPCs
<1>9. DiskMutex'
  BY <1>1, <1>3, Zenon DEF HostInv, DiskMutex
<1>10. Settled'
  BY <1>3, Zenon DEF Settled
<1>11. Sweeping'
  BY Zenon DEF Sweeping, SweepPCs
<1>12. Completed'
  BY <1>1, <1>4, Zenon DEF Completed
<1>13. EveryJobInterrupted'
  BY <1>1, <1>4, Weakly, Zenon
<1> QED BY <1>2, <1>5, <1>6, <1>7, <1>8, <1>9, <1>10, <1>11, <1>12, <1>13, Zenon DEF HostInv,
          HostType

\* whichever is still there.
LEMMA WSettlesStep == ASSUME Inv, WSettles PROVE Inv'
BY WSettledOkStep, WSettlesJobsStep, WSettlesWorkStep, Zenon DEF WSettles

\* The VM's state is read: the recovery goes on,
LEMMA WChecksGoStep == ASSUME Inv, W.pc = "check", WGo("lock"),
         UNCHANGED <<notW, opVars, gateVars, epVars, acq, event, S, daemonVars>> PROVE  Inv'
<1>1. UNCHANGED <<op, told, paused, life, host, rev, ep, stopped, fd, fired, acq, event, E, S,
                  H, R, mut, up>>
  BY Zenon DEF notW, opVars, hostVars, gateVars, epVars, daemonVars
<1>2. TGate'
  BY Frames, Zenon DEF gateVars
<1>3. TW' /\ W'.pc = "lock" /\ disk' = disk
  BY Goes, Zenon DEF Inv, HostInv, HostType, RecoverPCs, gateVars
<1>4. DiskMutex'
  BY <1>1, <1>3, Zenon DEF Inv, HostInv, DiskMutex
<1>5. Settled'
  BY <1>1, <1>3, Weakly, Zenon
<1> QED BY <1>1, <1>2, <1>4, <1>5, RecoveryGoes, Zenon

\* waits for the next event,
LEMMA WChecksLoopStep == ASSUME Inv, W.pc = "check", WLoops("select", "none"),
         UNCHANGED <<notW, opVars, gateVars, epVars, acq, event, S, daemonVars>> PROVE  Inv'
<1> HostInv
  BY Zenon DEF Inv
<1>1. UNCHANGED <<op, told, life, host, rev, marker, ep, stopped, fired, E, S, H, R, mut, up>>
  BY Zenon DEF notW, opVars, hostVars, gateVars, epVars, daemonVars
<1>2. fd' \in {fd, FALSE} /\ TAcq' /\ TOp' /\ WLoops("select", "none")
  BY Zenon DEF notW, opVars, hostVars, gateVars, epVars, daemonVars, HostInv, HostType, TAcq, TOp
<1>3. disk' = disk \/ (W.pc \in {"clear", "swap"} /\ disk' = "free")
  BY Zenon DEF notW, opVars, hostVars, gateVars, epVars, daemonVars
<1>4. ~Closed /\ S.pc = "off"
  BY Recovering, Zenon DEF RecoverPCs
<1>5. W.pc = "recovered" => ~Current
  BY Zenon
<1> QED BY <1>1, <1>2, <1>3, <1>4, <1>5, LoopsInv, Zenon

\* or closes,
LEMMA WChecksCloseStep == ASSUME Inv, W.pc = "check", WCloses,
         UNCHANGED <<notW, opVars, gateVars, acq, event, S, daemonVars>> PROVE  Inv'
<1> HostInv
  BY Zenon DEF Inv
<1>1. UNCHANGED <<op, told, life, host, rev, marker, ep, stopped, fired, E, S, H, R, mut, up>>
  BY Zenon DEF WCloses, notW, opVars, hostVars, gateVars, epVars, daemonVars
<1>2. fd' \in {fd, FALSE} /\ TAcq' /\ TOp' /\ WLoops("closed", "none")
  BY Zenon DEF WCloses, notW, opVars, hostVars, gateVars, epVars, daemonVars, HostInv, HostType,
       TAcq, TOp
<1>3. disk' = disk \/ (W.pc \in {"clear", "swap"} /\ disk' = "free")
  BY Zenon DEF WCloses, notW, opVars, hostVars, gateVars, epVars, daemonVars
<1>4. ~Closed /\ S.pc = "off"
  BY Recovering, Zenon DEF RecoverPCs
<1>5. W.pc = "recovered" => ~Current
  BY Zenon
<1> QED BY <1>1, <1>2, <1>3, <1>4, <1>5, LoopsInv, Zenon

\* nothing else.
LEMMA WChecksStep == ASSUME Inv, WChecks PROVE Inv'
BY WChecksGoStep, WChecksLoopStep, WChecksCloseStep, Zenon DEF WChecks, epVars

\* The disk is taken for the revision being recovered,
LEMMA WLocksGoStep == ASSUME Inv, W.pc = "lock", RecoverLocks(W.rev), WGo("clear"),
         UNCHANGED <<notW, opVars, epVars, acq, event, S, daemonVars>> PROVE  Inv'
<1>1. UNCHANGED <<op, told, paused, life, host, rev, ep, stopped, fd, fired, acq, event, E, S,
                  H, R, mut, up>>
  BY Zenon DEF RecoverLocks, notW, opVars, hostVars, gateVars, epVars, daemonVars
<1>2. disk = "free" /\ disk' = "held" /\ UNCHANGED marker
  BY Zenon DEF RecoverLocks
<1>3. TW' /\ W'.pc = "clear"
  BY Goes, Zenon DEF Inv, HostInv, HostType, RecoverPCs
<1>4. TGate'
  BY <1>1, <1>2, Zenon DEF Inv, HostInv, HostType, TGate
<1>5. DiskMutex'
  BY <1>1, <1>2, <1>3, Zenon DEF Inv, HostInv, DiskMutex
<1>6. Settled'
  BY <1>1, <1>3, Weakly, Zenon
<1> QED BY <1>1, <1>4, <1>5, <1>6, RecoveryGoes, Zenon

\* or the revision has moved on,
LEMMA WLocksLoopStep == ASSUME Inv, W.pc = "lock", WLoops("select", "none"),
     UNCHANGED gateVars,
         UNCHANGED <<notW, opVars, epVars, acq, event, S, daemonVars>> PROVE  Inv'
<1> HostInv
  BY Zenon DEF Inv
<1>1. UNCHANGED <<op, told, life, host, rev, marker, ep, stopped, fired, E, S, H, R, mut, up>>
  BY Zenon DEF notW, opVars, hostVars, gateVars, epVars, daemonVars
<1>2. fd' \in {fd, FALSE} /\ TAcq' /\ TOp' /\ WLoops("select", "none")
  BY Zenon DEF notW, opVars, hostVars, gateVars, epVars, daemonVars, HostInv, HostType, TAcq, TOp
<1>3. disk' = disk \/ (W.pc \in {"clear", "swap"} /\ disk' = "free")
  BY Zenon DEF notW, opVars, hostVars, gateVars, epVars, daemonVars
<1>4. ~Closed /\ S.pc = "off"
  BY Recovering, Zenon DEF RecoverPCs
<1>5. W.pc = "recovered" => ~Current
  BY Zenon
<1> QED BY <1>1, <1>2, <1>3, <1>4, <1>5, LoopsInv, Zenon

\* nothing else.
LEMMA WLocksStep == ASSUME Inv, WLocks PROVE Inv'
BY WLocksGoStep, WLocksLoopStep, Zenon DEF WLocks

\* The marker is removed,
LEMMA WClearsGoStep == ASSUME Inv, W.pc = "clear", RecoverClears(TRUE), WGo("swap"),
         UNCHANGED <<notW, opVars, epVars, acq, event, S, daemonVars>> PROVE  Inv'
<1>1. UNCHANGED <<op, told, paused, life, host, rev, ep, stopped, fd, fired, acq, event, E, S,
                  H, R, mut, up>>
  BY Zenon DEF RecoverClears, notW, opVars, hostVars, gateVars, epVars, daemonVars
<1>2. marker' \in BOOLEAN /\ disk' = disk
  BY Zenon DEF RecoverClears
<1>3. TW' /\ W'.pc = "swap"
  BY Goes, Zenon DEF Inv, HostInv, HostType, RecoverPCs
<1>4. TGate'
  BY <1>1, <1>2, Zenon DEF Inv, HostInv, HostType, TGate
<1>5. DiskMutex'
  BY <1>1, <1>2, <1>3, Zenon DEF Inv, HostInv, DiskMutex
<1>6. Settled'
  BY <1>1, <1>3, Weakly, Zenon
<1> QED BY <1>1, <1>4, <1>5, <1>6, RecoveryGoes, Zenon

\* or cannot be, and the gate stays closed,
LEMMA WClearsFailStep == ASSUME Inv, W.pc = "clear", RecoverClears(FALSE), WCloses,
         UNCHANGED <<notW, opVars, acq, event, S, daemonVars>> PROVE  Inv'
<1> HostInv
  BY Zenon DEF Inv
<1>1. UNCHANGED <<op, told, life, host, rev, marker, ep, stopped, fired, E, S, H, R, mut, up>>
  BY Zenon DEF RecoverClears, WCloses, HostInv, HostType, TGate, notW, opVars, hostVars, gateVars,
       epVars, daemonVars
<1>2. fd' \in {fd, FALSE} /\ TAcq' /\ TOp' /\ WLoops("closed", "none")
  BY Zenon DEF RecoverClears, WCloses, HostInv, HostType, TGate, notW, opVars, hostVars, gateVars,
       epVars, daemonVars, HostInv, HostType, TAcq, TOp
<1>3. disk' = disk \/ (W.pc \in {"clear", "swap"} /\ disk' = "free")
  BY Zenon DEF RecoverClears, WCloses, HostInv, HostType, TGate, notW, opVars, hostVars, gateVars,
       epVars, daemonVars
<1>4. ~Closed /\ S.pc = "off"
  BY Recovering, Zenon DEF RecoverPCs
<1>5. W.pc = "recovered" => ~Current
  BY Zenon
<1> QED BY <1>1, <1>2, <1>3, <1>4, <1>5, LoopsInv, Zenon

\* nothing else.
LEMMA WClearsStep == ASSUME Inv, NEW ok \in Outcome, WClears(ok) PROVE Inv'
<1>1. ok \in BOOLEAN
  BY OutcomeIsBoolean, Zenon
<1>2. CASE ok = TRUE
  BY <1>2, WClearsGoStep, Zenon DEF WClears, epVars
<1>3. CASE ok = FALSE
  BY <1>3, WClearsFailStep, Zenon DEF WClears
<1> QED BY <1>1, <1>2, <1>3, Zenon

\* The gate is opened by a compare and swap,
LEMMA WSwapsGoStep == ASSUME Inv, W.pc = "swap", rev = W.rev, RecoverSwaps(W.rev),
     WGo("recovered"),
         UNCHANGED <<notW, opVars, epVars, acq, event, S, daemonVars>> PROVE  Inv'
<1> SUFFICES ASSUME HostInv PROVE HostInv'
  BY Zenon DEF Inv
<1>1. UNCHANGED <<op, told, paused, host, marker, ep, stopped, fd, fired, acq, event, E,
                 S, H, R, mut, up, life>>
  BY Zenon DEF RecoverSwaps, notW, opVars, hostVars, gateVars, epVars, daemonVars
<1>2. TOp' /\ THost' /\ TEp' /\ TAcq' /\ TE' /\ TS' /\ TH' /\ TR' /\ TMut'
  BY <1>1, Frames, Zenon
<1>3. /\ TW' /\ W'.pc = "recovered" /\ W'.work = W.work /\ W'.phase = W.phase /\ W'.rev = W.rev
      /\ W'.swept = W.swept
  BY Goes, Zenon DEF HostInv, HostType, RecoverPCs
<1>4. /\ ~Closed /\ S.pc = "off" /\ W.phase = "cancelled" /\ W.work = "none"
      /\ W.rev \in Nat /\ rev \in Nat /\ ep.rev \in Nat
      /\ ep.phase = "preparing" => stopped # ep.rev /\ ep.rev # W.rev
  BY Recovering, Zenon DEF RecoverPCs
<1>5. Pending /\ W.rev % 2 = 1
  BY <1>4, Zenon DEF HostInv, Watching, Pending
<1>6. rev' = rev + 1 /\ disk' = "free" /\ rev' \in Nat
  BY <1>4, <1>5 DEF RecoverSwaps
<1>7. ~Pending'
  BY <1>4, <1>5, <1>6, OddPlusOne, Zenon DEF Pending
<1>8. ep.rev = W.rev /\ ep.phase # "preparing" /\ W.swept \in Nat
  BY <1>4, SMTT(30) DEF HostInv, HostType, TW, Revisions
<1>9. TGate'
  BY <1>1, <1>6, Zenon DEF HostInv, HostType, TGate
<1>10. TW'
  BY <1>3, Zenon
<1>11. Revisions'
  <2>1. ep.rev <= rev'
    BY <1>4, <1>6, <1>8
  <2> QED BY <1>1, <1>3, <1>8, <2>1, Zenon DEF HostInv, Revisions, Closed
<1>12. Watching'
  BY <1>1, <1>3, <1>4, <1>5, <1>6, <1>7, <1>8, Zenon DEF HostInv, HostType, Watching, Pending,
     Closed, Drained, Running, RecoverPCs
<1>13. DiskMutex'
  BY <1>1, <1>3, Zenon DEF HostInv, DiskMutex
<1>14. Settled'
  BY <1>3, Zenon DEF Settled
<1>15. Sweeping'
  BY <1>1, <1>4, Zenon DEF Sweeping, SweepPCs
<1>16. Completed'
  BY <1>1, <1>8, Zenon DEF Completed
<1>17. EveryJobInterrupted'
  BY <1>1, <1>8, Zenon DEF EveryJobInterrupted
<1> QED BY <1>2, <1>9, <1>10, <1>11, <1>12, <1>13, <1>14, <1>15, <1>16, <1>17, Zenon DEF HostInv,
          HostType

\* which fails when a new shutdown came between,
LEMMA WSwapsLoopStep == ASSUME Inv, W.pc = "swap", rev # W.rev, RecoverSwaps(W.rev),
     WLoops("select", "none"),
         UNCHANGED <<notW, opVars, epVars, acq, event, S, daemonVars>> PROVE  Inv'
<1> HostInv
  BY Zenon DEF Inv
<1>1. UNCHANGED <<op, told, life, host, rev, marker, ep, stopped, fired, E, S, H, R, mut, up>>
  BY Zenon DEF RecoverSwaps, notW, opVars, hostVars, gateVars, epVars, daemonVars
<1>2. fd' \in {fd, FALSE} /\ TAcq' /\ TOp' /\ WLoops("select", "none")
  BY Zenon DEF RecoverSwaps, notW, opVars, hostVars, gateVars, epVars, daemonVars, HostInv,
       HostType, TAcq, TOp
<1>3. disk' = disk \/ (W.pc \in {"clear", "swap"} /\ disk' = "free")
  BY Zenon DEF RecoverSwaps, notW, opVars, hostVars, gateVars, epVars, daemonVars
<1>4. ~Closed /\ S.pc = "off"
  BY Recovering, Zenon DEF RecoverPCs
<1>5. W.pc = "recovered" => ~Current
  BY Zenon
<1> QED BY <1>1, <1>2, <1>3, <1>4, <1>5, LoopsInv, Zenon

\* nothing else.
LEMMA WSwapsStep == ASSUME Inv, WSwaps PROVE Inv'
BY WSwapsGoStep, WSwapsLoopStep, Zenon DEF WSwaps

\* The episode is recorded as recovered,
LEMMA WRecoveredGoStep == ASSUME Inv, W.pc = "recovered", Current,
     ep' = [ep EXCEPT !.phase = "recovered"], WGo("resume"),
         UNCHANGED <<notW, opVars, gateVars, stopped, fd, fired, acq, event, S,
              daemonVars>> PROVE  Inv'
<1> SUFFICES ASSUME HostInv PROVE HostInv'
  BY Zenon DEF Inv
<1>1. UNCHANGED <<op, told, paused, host, rev, marker, disk, stopped, fd, fired, acq,
                 event, E, S, H, R, mut, up, life>>
  BY Zenon DEF notW, opVars, hostVars, gateVars, epVars, daemonVars
<1>2. TOp' /\ THost' /\ TGate' /\ TAcq' /\ TE' /\ TS' /\ TH' /\ TR' /\ TMut'
  BY <1>1, Frames, Zenon
<1>3. /\ TW' /\ W'.pc = "resume" /\ W'.work = W.work /\ W'.phase = W.phase /\ W'.rev = W.rev
      /\ W'.swept = W.swept
  BY Goes, Zenon DEF HostInv, HostType, RecoverPCs
<1>4. /\ ~Closed /\ S.pc = "off" /\ W.phase = "cancelled" /\ W.work = "none"
      /\ W.rev \in Nat /\ rev \in Nat /\ ep.rev \in Nat
      /\ ep.phase = "preparing" => stopped # ep.rev /\ ep.rev # W.rev
  BY Recovering, Zenon DEF RecoverPCs
<1>5. /\ ep'.phase = "recovered" /\ ep'.rev = ep.rev /\ ep' \in [phase : Phase, rev : Nat,
           late : BOOLEAN]
  BY Zenon DEF HostInv, HostType, TEp, Phase
<1>6. ep.phase = "cancelled"
  BY Zenon DEF Current
<1>7. TEp'
  BY <1>1, <1>3, <1>4, <1>5, <1>6, Zenon DEF HostInv, HostType, TEp
<1>8. TW'
  BY <1>3, Zenon
<1>9. Revisions'
  BY <1>1, <1>3, <1>4, <1>5, <1>6, Zenon DEF HostInv, HostType, Revisions, Pending, Closed
<1>10. Watching'
  BY <1>1, <1>3, <1>4, <1>5, <1>6, Zenon DEF HostInv, HostType, Watching, Pending, Closed, Drained,
     Running, RecoverPCs
<1>11. DiskMutex'
  BY <1>1, <1>3, Zenon DEF HostInv, DiskMutex
<1>12. Settled'
  BY <1>3, Zenon DEF Settled
<1>13. Sweeping'
  BY <1>1, <1>4, Zenon DEF Sweeping, SweepPCs
<1>14. Completed'
  BY <1>5, Zenon DEF Completed
<1>15. EveryJobInterrupted'
  BY <1>5, Zenon DEF EveryJobInterrupted
<1> QED BY <1>2, <1>7, <1>8, <1>9, <1>10, <1>11, <1>12, <1>13, <1>14, <1>15, Zenon DEF HostInv,
          HostType

\* if it is still the one recovered,
LEMMA WRecoveredLoopStep == ASSUME Inv, W.pc = "recovered", ~Current, WLoops("select",
     "none"), UNCHANGED ep,
         UNCHANGED <<notW, opVars, gateVars, stopped, fd, fired, acq, event, S,
              daemonVars>> PROVE  Inv'
<1> HostInv
  BY Zenon DEF Inv
<1>1. UNCHANGED <<op, told, life, host, rev, marker, ep, stopped, fired, E, S, H, R, mut, up>>
  BY Zenon DEF notW, opVars, hostVars, gateVars, epVars, daemonVars
<1>2. fd' \in {fd, FALSE} /\ TAcq' /\ TOp' /\ WLoops("select", "none")
  BY Zenon DEF notW, opVars, hostVars, gateVars, epVars, daemonVars, HostInv, HostType, TAcq, TOp
<1>3. disk' = disk \/ (W.pc \in {"clear", "swap"} /\ disk' = "free")
  BY Zenon DEF notW, opVars, hostVars, gateVars, epVars, daemonVars
<1>4. ~Closed /\ S.pc = "off"
  BY Recovering, Zenon DEF RecoverPCs
<1>5. W.pc = "recovered" => ~Current
  BY Zenon
<1> QED BY <1>1, <1>2, <1>3, <1>4, <1>5, LoopsInv, Zenon

\* nothing else.
LEMMA WRecoveredStep == ASSUME Inv, WRecovered PROVE Inv'
BY WRecoveredGoStep, WRecoveredLoopStep, Zenon DEF WRecovered

\* Operations are admitted again.
LEMMA WResumesStep == ASSUME Inv, WResumes PROVE Inv'
<1> HostInv
  BY Zenon DEF Inv
<1>1. UNCHANGED <<op, told, life, host, rev, marker, ep, stopped, fired, E, S, H, R, mut, up>>
  BY Zenon DEF WResumes, Resume, notW, opVars, hostVars, gateVars, epVars, daemonVars
<1>2. fd' \in {fd, FALSE} /\ TAcq' /\ TOp' /\ WLoops("select", "none")
  BY Zenon DEF WResumes, Resume, notW, opVars, hostVars, gateVars, epVars, daemonVars, HostInv,
       HostType, TAcq, TOp
<1>3. disk' = disk \/ (W.pc \in {"clear", "swap"} /\ disk' = "free")
  BY Zenon DEF WResumes, Resume, notW, opVars, hostVars, gateVars, epVars, daemonVars
<1>4. ~Closed /\ S.pc = "off"
  BY Recovering, Zenon DEF RecoverPCs, WResumes
<1>5. W.pc = "recovered" => ~Current
  BY Zenon DEF WResumes
<1> QED BY <1>1, <1>2, <1>3, <1>4, <1>5, LoopsInv, Zenon

\* Every step of watch keeps the invariant.
LEMMA WStepInv == ASSUME Inv, WStep PROVE Inv'
BY WSnapshotStep, WActsStep, WSelectsStep, WRefusedStep, WSettlesStep, WChecksStep, WLocksStep,
   WSwapsStep, WRecoveredStep, WResumesStep, WMarksStep, WClearsStep, Zenon
DEF WStep

-----------------------------------------------------------------------------
\* The worker.

\* The worker moves and changes nothing else of itself.
LEMMA SGoes ==
  ASSUME TS, NEW p \in {"off", "stuck", "mark", "settle"} \cup SweepPCs, SGo(p)
  PROVE  TS' /\ S'.pc = p /\ S'.pass = S.pass /\ S'.rev = S.rev /\ S'.err = S.err
BY Zenon DEF TS, SGo

\* The worker moves with an error.
LEMMA SFailsTo ==
  ASSUME TS, NEW p \in {"off", "stuck", "mark", "settle"} \cup SweepPCs, SFails(p)
  PROVE  TS' /\ S'.pc = p /\ S'.pass = S.pass /\ S'.rev = S.rev /\ S'.err
BY Zenon DEF TS, SFails

\* The worker moves: what it does to the rest, and how far it has come.
LEMMA SMoves ==
  ASSUME Inv, S.pc # "off", TS', S'.rev \in {S.rev, 0}, Sweeping', TMut', NoStarts => NoStarts',
         UNCHANGED <<op, told, paused, life, host, rev, marker, disk, ep, stopped, fd, fired, acq,
              event, E, W, H, R, up>>
  PROVE  Inv'
<1> SUFFICES ASSUME HostInv PROVE HostInv'
  BY Zenon DEF Inv
<1>1. TOp' /\ THost' /\ TGate' /\ TEp' /\ TAcq' /\ TE' /\ TW' /\ TH' /\ TR' /\ DiskMutex' /\
      EveryJobInterrupted'
  BY Frames, Zenon
<1>2. Closed => Closed'
  BY Zenon DEF Closed
<1>3. Revisions' /\ Watching' /\ Completed'
  BY <1>2, Weakly, Zenon
<1>4. W.pc \notin {"check", "lock", "clear", "swap"}
  BY Recovering, Zenon DEF RecoverPCs
<1>5. Settled'
  BY <1>4, Zenon DEF Settled
<1> QED BY <1>1, <1>3, <1>5, Zenon DEF HostInv, HostType

\* A worker that moves alone leaves the calls alone.
LEMMA SMovesOnly ==
  ASSUME Inv, S.pc # "off", TS', S'.rev \in {S.rev, 0}, Sweeping',
         UNCHANGED <<notS, gateVars, epVars, daemonVars>>
  PROVE  Inv'
<1>1. UNCHANGED <<op, told, paused, life, host, rev, marker, disk, ep, stopped, fd, fired, acq,
                  event, E, W, H, R, mut, up>>
  BY Zenon DEF notS, opVars, hostVars, gateVars, epVars, daemonVars
<1>2. TMut' /\ (NoStarts => NoStarts')
  BY <1>1, Frames, Zenon DEF NoStarts
<1> QED BY <1>1, <1>2, SMoves, Zenon

\* A worker that reports an error says nothing of the stop.
LEMMA SFailsMoves ==
  ASSUME Inv, S.pc # "off", NEW p \in {"drain", "swept", "snapshot"}, SFails(p),
         UNCHANGED <<notS, gateVars, epVars, up>>, TMut', NoStarts => NoStarts'
  PROVE  Inv'
<1>1. UNCHANGED <<op, told, paused, life, host, rev, marker, disk, ep, stopped, fd, fired, acq,
                  event, E, W, H, R, up>>
  BY Zenon DEF notS, opVars, hostVars, gateVars, epVars, daemonVars
<1>2. TS' /\ S'.pc = p /\ S'.rev = S.rev /\ S'.err
  BY SFailsTo, Zenon DEF Inv, HostInv, HostType, SweepPCs
<1>3. Sweeping'
  BY <1>2, Zenon DEF Sweeping
<1> QED BY <1>1, <1>2, <1>3, SMoves, Zenon

\* The worker's own call is over.
LEMMA SClearsCall ==
  ASSUME Inv, NEW m \in {"none", mut["S"]}, mut' = [mut EXCEPT !["S"] = m], UNCHANGED up
  PROVE  TMut' /\ (NoStarts => NoStarts')
<1>1. /\ mut \in [Client -> {"none", "admit", "start", "stop", "failed"}]
      /\ "S" \in Client
  BY Zenon DEF Inv, HostInv, HostType, TMut, Client
<1>2. /\ mut' \in [Client -> {"none", "admit", "start", "stop", "failed"}]
      /\ \A c \in Client : mut'[c] = mut[c] \/ mut'[c] = "none"
  BY <1>1, Zenon
<1>3. TMut'
  BY <1>2, Zenon DEF Inv, HostInv, HostType, TMut
<1> QED BY <1>2, <1>3, Zenon DEF NoStarts

\* The worker writes the marker,
LEMMA SMarksStep == ASSUME Inv, NEW ok \in Outcome, SMarks(ok) PROVE Inv'
<1> SUFFICES ASSUME HostInv PROVE HostInv'
  BY Zenon DEF Inv
<1>1. UNCHANGED <<op, told, paused, host, rev, disk, ep, stopped, fd, fired, acq, event,
                 E, W, H, R, mut, up, life>>
  BY Zenon DEF SMarks, notS, opVars, hostVars, gateVars, epVars, daemonVars
<1>2. TOp' /\ THost' /\ TEp' /\ TAcq' /\ TE' /\ TW' /\ TH' /\ TR' /\ TMut' /\ DiskMutex' /\
      Settled' /\ EveryJobInterrupted'
  BY <1>1, Frames, Zenon
<1>3. S' = [S EXCEPT !.pc = "list", !.err = ~ok] /\ disk = "free" /\ S.pc = "mark" /\
     ok \in BOOLEAN
  BY OutcomeIsBoolean, Zenon DEF SMarks, Mark
<1>4. TS' /\ S'.pc = "list" /\ S'.pass = S.pass /\ S'.rev = S.rev /\ S'.err = ~ok
  BY <1>3, Zenon DEF HostInv, HostType, TS, SweepPCs
<1>5. marker' \in BOOLEAN /\ (marker => marker') /\ (Pending /\ ok => marker')
  BY <1>3, Zenon DEF SMarks, Mark, HostInv, HostType, TGate
<1>6. TGate'
  BY <1>1, <1>3, <1>4, <1>5, Zenon DEF HostInv, HostType, TGate
<1>7. TS'
  BY <1>4, Zenon
<1>8. Revisions'
  BY <1>1, <1>4, Weakly, Zenon
<1>9. Watching'
  BY <1>1, <1>3, <1>4, Weakly, Zenon
<1>10. Sweeping'
  <2>1. S'.pass = 1 /\ S'.pc = "list"
    BY <1>3, <1>4, Zenon DEF HostInv, Sweeping
  <2>2. R.pc # "clear"
    BY <1>3, Zenon DEF HostInv, DiskMutex
  <2>3. IsCurrent' => Pending
    BY <1>1, Zenon DEF IsCurrent, HostInv, Revisions
  <2>4. ~S'.err => ok
    BY <1>3, <1>4, Zenon
  <2> QED BY <1>1, <1>5, <2>1, <2>2, <2>3, <2>4, SMTT(30) DEF Sweeping
<1>11. Completed'
  <2>1. (Closed => Closed') /\ (NoStarts => NoStarts')
    BY <1>1, Zenon DEF Closed, NoStarts
  <2> QED BY <1>1, <1>5, <2>1, Weakly, Zenon
<1> QED BY <1>2, <1>6, <1>7, <1>8, <1>9, <1>10, <1>11, Zenon DEF HostInv, HostType

\* finds the VM down,
LEMMA SListDownStep == ASSUME Inv, S.pc = "list", ~up, SGo("drain"),
         UNCHANGED <<notS, gateVars, epVars, daemonVars>> PROVE  Inv'
<1>1. TS' /\ S'.pc = "drain" /\ S'.pass = S.pass /\ S'.rev = S.rev /\ S'.err = S.err
  BY SGoes, Zenon DEF Inv, HostInv, HostType, SweepPCs
<1>2. UNCHANGED <<ep, marker, R, W, mut, up>>
  BY Zenon DEF notS, opVars, hostVars, gateVars, epVars, daemonVars
<1>3. Sweeping'
  BY <1>1, <1>2, Zenon DEF Inv, HostInv, HostType, Sweeping, IsCurrent, NoStarts, Closed, SweepPCs
<1> QED BY <1>1, <1>3, SMovesOnly, Zenon

\* or asks for its stop,
LEMMA SListUpStep == ASSUME Inv, S.pc = "list", Stop("S"), SGo("stop"),
         UNCHANGED <<notS, gateVars, epVars>> PROVE  Inv'
<1>1. UNCHANGED <<op, told, paused, life, host, rev, marker, disk, ep, stopped, fd, fired, acq,
                  event, E, W, H, R, up>>
  BY Zenon DEF Stop, notS, opVars, hostVars, gateVars, epVars, daemonVars
<1>2. TS' /\ S'.pc = "stop" /\ S'.pass = S.pass /\ S'.rev = S.rev /\ S'.err = S.err
  BY SGoes, Zenon DEF Inv, HostInv, HostType, SweepPCs
<1>3. /\ mut \in [Client -> {"none", "admit", "start", "stop", "failed"}]
      /\ "S" \in Client /\ mut' = [mut EXCEPT !["S"] = "stop"]
  BY Zenon DEF Stop, Client, Inv, HostInv, HostType, TMut
<1>4. /\ mut' \in [Client -> {"none", "admit", "start", "stop", "failed"}] /\ mut'["S"] = "stop"
      /\ \A c \in Client : mut'[c] = mut[c] \/ mut'[c] = "stop"
  BY <1>3, Zenon
<1>5. TMut' /\ (NoStarts => NoStarts')
  BY <1>1, <1>4, Zenon DEF Inv, HostInv, HostType, TMut, NoStarts
<1>6. Sweeping'
  <2> HIDE DEF NoStarts
  <2> QED BY <1>1, <1>2, <1>4, <1>5, ZenonT(30) DEF Inv, HostInv, HostType, Sweeping, IsCurrent, Closed,
          SweepPCs
<1> QED BY <1>1, <1>2, <1>5, <1>6, SMoves, Zenon

\* which succeeds;
LEMMA SStoppedStep == ASSUME Inv, S.pc = "stop", mut["S"] = "none", SGo("drain"),
         UNCHANGED <<notS, gateVars, epVars, daemonVars>> PROVE  Inv'
<1>1. TS' /\ S'.pc = "drain" /\ S'.pass = S.pass /\ S'.rev = S.rev /\ S'.err = S.err
  BY SGoes, Zenon DEF Inv, HostInv, HostType, SweepPCs
<1>2. UNCHANGED <<ep, marker, R, W, mut, up>>
  BY Zenon DEF notS, opVars, hostVars, gateVars, epVars, daemonVars
<1>3. Sweeping'
  BY <1>1, <1>2, Zenon DEF Inv, HostInv, HostType, Sweeping, IsCurrent, NoStarts, Closed, SweepPCs
<1> QED BY <1>1, <1>3, SMovesOnly, Zenon

\* the second pass over,
LEMMA SDrainedLastStep == ASSUME Inv, S.pc = "drain", MutationsDrained, S.pass = 2,
         SGo("swept"), UNCHANGED <<notS, gateVars, epVars, daemonVars>> PROVE  Inv'
<1>1. TS' /\ S'.pc = "swept" /\ S'.pass = S.pass /\ S'.rev = S.rev /\ S'.err = S.err
  BY SGoes, Zenon DEF Inv, HostInv, HostType, SweepPCs
<1>2. UNCHANGED <<ep, marker, R, W, mut, up>>
  BY Zenon DEF notS, opVars, hostVars, gateVars, epVars, daemonVars
<1>3. NoStarts
  BY Zenon DEF MutationsDrained, NoStarts
<1>4. Sweeping'
  BY <1>1, <1>2, <1>3, Zenon DEF Inv, HostInv, HostType, Sweeping, IsCurrent, NoStarts, Closed, SweepPCs
<1> QED BY <1>1, <1>4, SMovesOnly, Zenon

\* or the first;
LEMMA SDrainedFirstStep == ASSUME Inv, S.pc = "drain", MutationsDrained, S.pass # 2,
         S' = [S EXCEPT !.pc = "list", !.pass = @ + 1],
         UNCHANGED <<notS, gateVars, epVars, daemonVars>> PROVE  Inv'
<1>1. TS' /\ S'.pc = "list" /\ S'.rev = S.rev /\ S'.err = S.err
  <2>1. S.pass + 1 = 2
    BY DEF Inv, HostInv, HostType, TS
  <2>2. S' = [S EXCEPT !.pc = "list", !.pass = 2]
    BY <2>1, Zenon DEF Inv, HostInv, HostType, TS
  <2>3. 2 \in 1 .. 2 /\ "list" \in SweepPCs
    BY DEF SweepPCs
  <2> QED BY <2>2, <2>3, Zenon DEF Inv, HostInv, HostType, TS
<1>2. UNCHANGED <<ep, marker, R, W, mut, up>>
  BY Zenon DEF notS, opVars, hostVars, gateVars, epVars, daemonVars
<1>3. NoStarts
  BY Zenon DEF MutationsDrained, NoStarts
<1>4. Sweeping'
  BY <1>1, <1>2, <1>3, Zenon DEF Inv, HostInv, HostType, Sweeping, IsCurrent, NoStarts, Closed, SweepPCs
<1> QED BY <1>1, <1>4, SMovesOnly, Zenon

\* a step of it may fail, and its context may end at any point.
LEMMA SFailedStep ==
  ASSUME Inv, S.pc # "off", NEW p \in {"drain", "swept", "snapshot"}, SFails(p),
         UNCHANGED <<notS, gateVars, epVars, daemonVars>>
  PROVE  Inv'
<1>1. TMut' /\ (NoStarts => NoStarts') /\ UNCHANGED up
  BY Frames, Zenon DEF NoStarts, daemonVars
<1> QED BY <1>1, SFailsMoves, Zenon

\* These are the steps of a sweep.
LEMMA SSweepsStep == ASSUME Inv, SSweeps PROVE Inv'
<1>1. UNCHANGED <<notS, gateVars, epVars>> /\ "S" \in Client
  BY Zenon DEF SSweeps, Client
<1>2. CASE S.pc = "list" /\ ~up /\ SGo("drain") /\ UNCHANGED daemonVars
  BY <1>1, <1>2, SListDownStep, Zenon
<1>3. CASE S.pc = "list" /\ SFails("drain") /\ UNCHANGED daemonVars
  BY <1>1, <1>3, SFailedStep, Zenon
<1>4. CASE S.pc = "list" /\ Stop("S") /\ SGo("stop")
  BY <1>1, <1>4, SListUpStep, Zenon
<1>5. CASE S.pc = "stop" /\ mut["S"] = "none" /\ SGo("drain") /\ UNCHANGED daemonVars
  BY <1>1, <1>5, SStoppedStep, Zenon
<1>6. CASE S.pc = "stop" /\ SFails("drain") /\ mut' = [mut EXCEPT !["S"] = "none"] /\ UNCHANGED up
  <2>1. TMut' /\ (NoStarts => NoStarts')
    BY <1>6, SClearsCall, Zenon
  <2> QED BY <1>1, <1>6, <2>1, SFailsMoves, Zenon
<1>7. CASE S.pc = "drain" /\ MutationsDrained /\ UNCHANGED daemonVars
           /\ S' = IF S.pass = LastPass THEN [S EXCEPT !.pc = "swept"]
                                        ELSE [S EXCEPT !.pc = "list", !.pass = @ + 1]
  <2>1. CASE S.pass = 2
    BY <1>1, <1>7, <2>1, SDrainedLastStep, Zenon DEF LastPass, SGo
  <2>2. CASE S.pass # 2
    BY <1>1, <1>7, <2>2, SDrainedFirstStep, Zenon DEF LastPass
  <2> QED BY <2>1, <2>2, Zenon
<1>8. CASE S.pc = "drain" /\ SFails("swept") /\ UNCHANGED daemonVars
  BY <1>1, <1>8, SFailedStep, Zenon
<1>9. CASE /\ S.pc \in {"list", "stop", "drain"} /\ SFails("swept")
           /\ mut' = [mut EXCEPT !["S"] = IF @ = "failed" THEN "none" ELSE @] /\ UNCHANGED up
  <2>1. PICK m : m = IF mut["S"] = "failed" THEN "none" ELSE mut["S"]
    BY Zenon
  <2>2. mut' = [mut EXCEPT !["S"] = m] /\ m \in {"none", mut["S"]}
    BY <1>1, <1>9, <2>1, Zenon DEF Inv, HostInv, HostType, TMut
  <2>3. TMut' /\ (NoStarts => NoStarts')
    BY <1>9, <2>2, SClearsCall, Zenon
  <2> QED BY <1>1, <1>9, <2>3, SFailsMoves, Zenon
<1> QED BY <1>1, <1>2, <1>3, <1>4, <1>5, <1>6, <1>7, <1>8, <1>9, Zenon DEF SSweeps

\* After the sweep it waits for the operations, or gives up on them.
LEMMA SWaitsStep == ASSUME Inv, SWaits PROVE Inv'
<1>1. S.pc = "swept" /\ UNCHANGED <<notS, gateVars, epVars, daemonVars>>
  BY Zenon DEF SWaits
<1>2. CASE SGo("snapshot")
  <2>1. TS' /\ S'.pc = "snapshot" /\ S'.pass = S.pass /\ S'.rev = S.rev /\ S'.err = S.err
    BY <1>2, SGoes, Zenon DEF Inv, HostInv, HostType, SweepPCs
  <2>2. UNCHANGED <<ep, marker, R, W, mut, up>>
    BY <1>1, Zenon DEF notS, opVars, hostVars, gateVars, epVars, daemonVars
  <2>3. Sweeping'
    BY <1>1, <2>1, <2>2, Zenon DEF Inv, HostInv, HostType, Sweeping, IsCurrent, NoStarts, Closed,
       SweepPCs
  <2> QED BY <1>1, <2>1, <2>3, SMovesOnly, Zenon
<1>3. CASE SFails("snapshot")
  BY <1>1, <1>3, SFailedStep, Zenon
<1> QED BY <1>2, <1>3, Zenon DEF SWaits

\* With no error it completes; with one, or with a newer episode, it does not.
LEMMA SSnapshotStep == ASSUME Inv, SSnapshot PROVE Inv'
<1>1. S.pc = "snapshot" /\ UNCHANGED <<notS, gateVars, epVars, daemonVars>>
  BY Zenon DEF SSnapshot
<1>2. CASE ~S.err /\ SGo("complete")
  <2>1. TS' /\ S'.pc = "complete" /\ S'.pass = S.pass /\ S'.rev = S.rev /\ S'.err = S.err
    BY <1>2, SGoes, Zenon DEF Inv, HostInv, HostType, SweepPCs
  <2>2. UNCHANGED <<ep, marker, R, W, mut, up>>
    BY <1>1, Zenon DEF notS, opVars, hostVars, gateVars, epVars, daemonVars
  <2>3. Sweeping'
    BY <1>1, <1>2, <2>1, <2>2, Zenon DEF Inv, HostInv, HostType, Sweeping, IsCurrent, NoStarts, Closed,
       SweepPCs
  <2> QED BY <1>1, <2>1, <2>3, SMovesOnly, Zenon
<1>3. CASE S' = [pc |-> "settle", pass |-> 1, rev |-> 0, err |-> TRUE]
  <2>1. TS' /\ S'.pc = "settle" /\ S'.rev = 0
    BY <1>3 DEF TS
  <2>2. Sweeping'
    BY <2>1, Zenon DEF Sweeping, SweepPCs
  <2> QED BY <1>1, <2>1, <2>2, SMovesOnly, Zenon
<1> QED BY <1>2, <1>3, Zenon DEF SSnapshot

\* The episode's stop is recorded and the descriptor let go.
LEMMA SCompletesStep == ASSUME Inv, SCompletes PROVE Inv'
<1> SUFFICES ASSUME HostInv PROVE HostInv'
  BY Zenon DEF Inv
<1>1. UNCHANGED <<op, told, paused, host, rev, marker, disk, ep, fired, acq, event, E, W,
                 H, R, mut, up, life>>
  BY Zenon DEF SCompletes, completeStops, notS, opVars, hostVars, gateVars, epVars, daemonVars
<1>2. TOp' /\ THost' /\ TGate' /\ TAcq' /\ TE' /\ TW' /\ TH' /\ TR' /\ TMut' /\ DiskMutex'
      /\ Settled' /\ EveryJobInterrupted'
  BY <1>1, Frames, Zenon
<1>3. S.pc = "complete" /\ stopped' = S.rev /\ fd' \in BOOLEAN /\ (fd' => fd) /\
     S.rev \in Nat /\ W.swept \in Nat
  BY Zenon DEF SCompletes, completeStops, HostInv, HostType, TEp, TS, TW
<1>4. TS' /\ S'.pc = "settle" /\ S'.rev = 0
  BY SMTT(30) DEF SCompletes, TS
<1>5. ep.phase = "preparing" /\ S.rev = ep.rev /\ ~Closed => marker /\ R.pc # "clear" /\
     ~up /\ NoStarts
  BY <1>3, Zenon DEF HostInv, Sweeping, IsCurrent, SweepPCs
<1>6. TEp'
  BY <1>1, <1>3, <1>4, <1>5, Zenon DEF HostInv, HostType, TEp
<1>7. TS'
  BY <1>4, Zenon
<1>8. Revisions'
  BY <1>1, <1>3, <1>4, <1>5, SMTT(30) DEF HostInv, HostType, Revisions, Pending, Closed
<1>9. Watching'
  BY <1>1, <1>3, <1>4, <1>5, Zenon DEF HostInv, HostType, Watching, Pending, Closed, Drained,
     Running, RecoverPCs
<1>10. Sweeping'
  BY <1>4, Zenon DEF Sweeping, SweepPCs
<1>11. Completed'
  BY <1>1, <1>3, <1>4, <1>5, Zenon DEF HostInv, HostType, Completed, NoStarts, Closed
<1> QED BY <1>2, <1>6, <1>7, <1>8, <1>9, <1>10, <1>11, Zenon DEF HostInv, HostType

\* The worker ends, or stays for good when the daemon refuses to drain.
LEMMA SSettlesStep == ASSUME Inv, SSettles PROVE Inv'
<1>1. S.pc = "settle" /\ UNCHANGED <<notS, gateVars, epVars, daemonVars>>
  BY Zenon DEF SSettles
<1>2. TS' /\ S'.pc \in {"off", "stuck"} /\ S'.rev \in {S.rev, 0}
  <2>1. CASE S' = [pc |-> "off", pass |-> 1, rev |-> 0, err |-> FALSE]
    BY <2>1, SMTT(30) DEF TS
  <2>2. CASE SGo("stuck")
    BY <2>2, SGoes, Zenon DEF Inv, HostInv, HostType
  <2> QED BY <2>1, <2>2, Zenon DEF SSettles
<1>3. Sweeping'
  BY <1>2, Zenon DEF Sweeping, SweepPCs
<1> QED BY <1>1, <1>2, <1>3, SMovesOnly, Zenon

\* Every step of the worker keeps the invariant.
LEMMA SStepInv == ASSUME Inv, SStep PROVE Inv'
BY SSweepsStep, SWaitsStep, SSnapshotStep, SCompletesStep, SSettlesStep, SMarksStep, Zenon DEF SStep

-----------------------------------------------------------------------------
\* Every step keeps the invariant.
LEMMA RRecoversStep == ASSUME Inv, RRecovers PROVE Inv'
<1>1. UNCHANGED notR
  BY Zenon DEF RRecovers
<1>2. CASE R.pc = "clear" /\ RecoverClears(TRUE) /\ RGo("swap")
  BY <1>1, <1>2, RClearsStep, Zenon
<1>3. CASE R.pc = "clear" /\ RecoverClears(FALSE) /\ RGo("error")
  BY <1>1, <1>3, RClearsStep, Zenon
<1> QED BY <1>1, <1>2, <1>3, RLocksStep, RSkipsStep, RSwapsStep, Zenon DEF RRecovers

\* So does a stuttering step,
LEMMA StutterInv == ASSUME Inv, UNCHANGED vars PROVE Inv'
<1> SUFFICES ASSUME HostInv PROVE HostInv'
  BY Zenon DEF Inv
<1>1. UNCHANGED <<op, told, paused, life, host, rev, marker, disk, ep, stopped, fd, fired,
     acq, event,
                  E, W, S, H, R, mut, up>>
  BY Zenon DEF vars, opVars, hostVars, gateVars, epVars, daemonVars
<1> QED BY <1>1, Frames, Zenon DEF HostInv, HostType

\* and with that every step.
LEMMA NextInv == ASSUME Inv, [Next]_vars PROVE Inv'
<1>1. CASE \E c \in Client : Permit(c) \/ Settle(c)
  BY <1>1, PermitStep, SettleStep, Zenon
<1>2. CASE CliStart \/ HostChanges \/ HostStops \/ DeadlinePasses
  BY <1>2, CliStartStep, HostChangesStep, HostStopsStep, DeadlinePassesStep, Zenon
<1>3. CASE (\E r \in fired : TimerRuns(r)) \/ (\E ok \in {TRUE,
     "bus" \notin Faults} : Reacquired(ok))
  BY <1>3, TimerRunsStep, ReacquiredStep, Zenon
<1>4. CASE EStep
  BY <1>4, ESameStep, EPreparingStep, EInterruptsStep, ECancelsStep, Zenon DEF EStep
<1>5. CASE WStep \/ WLost
  BY <1>5, WStepInv, WLostStep, Zenon
<1>6. CASE SStep
  BY <1>6, SStepInv, Zenon
<1>7. CASE HStep
  BY <1>7, HBeginsStep, HMarksStep, HStopsStep, HExitsStep, Zenon DEF HStep
<1>8. CASE RStep
  BY <1>8, RBeginsStep, RWaitsStep, RRecoversStep, Zenon DEF RStep
<1>9. CASE \/ \E j \in Jobs, v \in VMs : JobAccept(j, v)
           \/ \E j \in Jobs : JobOwn(j)
           \/ Poll
  BY <1>9, JobAcceptStep, JobRunsStep, JobCallsStep, JobReturnsStep, PollStep, Zenon DEF JobOwn
<1>10. CASE TaildDies \/ TaildStarts \/ TaildStartsUnprotected
  BY <1>10, TaildDiesStep, TaildStartsStep, TaildStartsUnprotectedStep, Zenon
<1>11. CASE UNCHANGED vars
  BY <1>11, StutterInv, Zenon
<1> QED BY <1>1, <1>2, <1>3, <1>4, <1>5, <1>6, <1>7, <1>8, <1>9, <1>10, <1>11, Zenon DEF Next

\* The inductive invariant of the shutdown protocol, for any operations, VMs,
\* faults and any number of signals, restarts and starts.
THEOREM HostInvariant == Spec => []HostInv
<1>1. Init => Inv
  BY InitInv, Zenon DEF Inv
<1>2. Inv /\ [Next]_vars => Inv'
  BY NextInv, Zenon
<1>3. Inv => HostInv
  BY Zenon DEF Inv
<1> QED BY <1>1, <1>2, <1>3, PTL DEF Spec

\* Every variable has its type.
THEOREM HostIsTyped == Spec => []TypeOK
<1>1. ASSUME HostInv PROVE TypeOK
  <2>1. ep.phase \in {"preparing", "cancelled"} => ep.rev % 2 = 1
    BY <1>1, Zenon DEF HostInv, Revisions, Pending
  <2>2. TOp /\ THost /\ TGate /\ TEp /\ TAcq /\ TS /\ TMut
    BY <1>1, Zenon DEF HostInv, HostType
  <2> QED BY <2>1, <2>2, Zenon DEF TypeOK, TOp, THost, TGate, TEp, TAcq, TS, TMut, Phase
<1> QED BY <1>1, HostInvariant, PTL

\* When taild reports the stops of a shutdown complete, no VM runs and no start
\* is on its way, whoever asked for it and whenever.
THEOREM CompletionMeansStopped == Spec => []CompleteMeansStopped
<1>1. HostInv => CompleteMeansStopped
  BY Zenon DEF HostInv, Completed, NoStarts, CompleteMeansStopped
<1> QED BY <1>1, HostInvariant, PTL

\* Once the intake has dealt with a shutdown signal, every operation that still
\* runs has been told.
THEOREM JobsAreInterrupted == Spec => []EveryJobInterrupted
<1>1. HostInv => EveryJobInterrupted
  BY Zenon DEF HostInv
<1> QED BY <1>1, HostInvariant, PTL

-----------------------------------------------------------------------------
\* What a step may do to the revision and to the descriptor.

\* Only watch's recovery opens a sealed gate, but for the death of taild.
LEMMA GateOpens ==
  ASSUME Inv, Next, Pending, ~Pending'
  PROVE  TaildDies \/ (W.pc = "swap" /\ rev = W.rev)
<1> HostInv
  BY Zenon DEF Inv
<1>1. SUFFICES ASSUME rev' = rev PROVE FALSE
  <2>1. CASE \E c \in Client : Permit(c) \/ Settle(c)
    BY <1>1, <2>1, Zenon DEF Permit, Settle, gateVars
  <2>2. CASE CliStart \/ HostChanges \/ HostStops \/ DeadlinePasses
    BY <1>1, <2>2, Zenon DEF CliStart, HostChanges, HostStops, DeadlinePasses, gateVars
  <2>3. CASE \/ \E r \in fired : TimerRuns(r)
             \/ \E ok \in {TRUE, "bus" \notin Faults} : Reacquired(ok)
    BY <1>1, <2>3, Zenon DEF TimerRuns, Reacquired, gateVars
  <2>4. CASE ESame \/ EInterrupts \/ ECancels
    BY <1>1, <2>4, Zenon DEF ESame, EInterrupts, ECancels, gateVars
  <2>5. CASE EPreparing
    <3>1. Sealed % 2 = 1
      BY SealedIsNew, Zenon DEF HostInv, HostType, TGate
    <3>2. rev' = rev \/ rev' = Sealed
      BY <2>5, Zenon DEF EPreparing
    <3> QED BY <1>1, <3>1, <3>2, Zenon DEF Pending
  <2>6. CASE WStep \/ WLost
    <3>1. CASE WSwaps
      BY <1>1, <3>1, Zenon DEF WSwaps, RecoverSwaps
    <3>2. CASE WLocks
      BY <1>1, <3>2, Zenon DEF WLocks, RecoverLocks, gateVars
    <3>3. CASE \E ok \in Outcome : WMarks(ok) \/ WClears(ok)
      BY <1>1, <3>3, Zenon DEF WMarks, WClears, RecoverClears
    <3>4. CASE WSnapshot \/ WActs \/ WSelects \/ WRefused \/ WSettles \/ WChecks \/ WRecovered
               \/ WResumes \/ WLost
      BY <1>1, <3>4, Zenon
      DEF WSnapshot, WActs, WSelects, WRefused, WSettles, WChecks, WRecovered, WResumes, WLost,
          gateVars
    <3> QED BY <2>6, <3>1, <3>2, <3>3, <3>4, Zenon DEF WStep
  <2>7. CASE SStep
    BY <1>1, <2>7, Zenon DEF SStep, SSweeps, SWaits, SSnapshot, SCompletes, SSettles, SMarks, gateVars
  <2>8. CASE HStep
    BY <1>1, <2>8, Zenon DEF HStep, HBegins, HMarks, HStops, HExits, notH
  <2>9. CASE RBegins \/ RWaits
    BY <1>1, <2>9, Zenon DEF RBegins, RWaits, gateVars
  <2>10. CASE RRecovers
    <3>1. CASE R.pc = "swap" /\ RecoverSwaps(R.rev)
      <4>1. R.rev % 2 # 1
        BY <3>1, Zenon DEF HostInv, DiskMutex
      <4>2. rev # R.rev
        BY <4>1, Zenon DEF Pending
      <4> QED BY <1>1, <3>1, <4>2, Zenon DEF RecoverSwaps
    <3> QED BY <1>1, <2>10, <3>1, Zenon DEF RRecovers, RecoverLocks, RecoverClears, gateVars
  <2>11. CASE \/ \E j \in Jobs, v \in VMs : JobAccept(j, v)
              \/ \E j \in Jobs : JobOwn(j)
              \/ Poll
    BY <1>1, <2>11, Zenon DEF JobOwn, JobAccept, JobRuns, JobCalls, JobReturns, Poll, notJobs, gateVars
  <2>12. CASE TaildStarts
    <3>1. Sealed % 2 = 1
      BY SealedIsNew, Zenon DEF HostInv, HostType, TGate
    <3>2. rev' = rev \/ rev' = Sealed
      BY <2>12, Zenon DEF TaildStarts
    <3> QED BY <1>1, <3>1, <3>2, Zenon DEF Pending
  <2>13. CASE TaildStartsUnprotected
    BY <1>1, <2>13, Zenon DEF TaildStartsUnprotected, gateVars
  <2> QED BY <2>1, <2>2, <2>3, <2>4, <2>5, <2>6, <2>7, <2>8, <2>9, <2>10, <2>11, <2>12, <2>13, Zenon
          DEF Next, EStep, RStep
<1> QED BY <1>1, Zenon DEF Pending

\* The gate opens only when no operation runs, the worker is gone and nothing
\* that either asked of the daemon is still under way.
THEOREM GateOpensWhenSettled == Spec => GateOpensSettled
<1> DEFINE A == Alive /\ Pending /\ ~Pending' /\ Alive'
                  => Drained /\ S.pc = "off" /\
                       \A c \in Jobs \cup {"S"} : mut[c] \in {"none", "failed"}
<1>1. ASSUME HostInv, [Next]_vars PROVE [A]_vars
  <2>1. SUFFICES ASSUME Next, Alive, Pending, ~Pending', Alive' PROVE A
    BY <1>1, Zenon
  <2>2. ~TaildDies
    BY <2>1 DEF TaildDies, Alive
  <2> Inv
    BY <1>1, Zenon DEF Inv
  <2>3. W.pc = "swap"
    BY <2>1, <2>2, GateOpens, Zenon
  <2>4. S.pc = "off"
    BY <2>3, Recovering, Zenon DEF RecoverPCs
  <2> QED BY <1>1, <2>3, <2>4, Zenon DEF HostInv, Settled
<1>2. GateOpensSettled <=> [][A]_vars
  BY Zenon DEF GateOpensSettled
<1> HIDE DEF A
<1> QED BY <1>1, <1>2, HostInvariant, PTL DEF Spec

\* Who may let go of the descriptor.
LEMMA DescriptorReleased ==
  ASSUME Inv, Next, fd, ~fd', ~Closed'
  PROVE  (\E r \in fired : TimerRuns(r)) \/ ECancels \/ SCompletes
<1> HostInv
  BY Zenon DEF Inv
<1>1. SUFFICES ASSUME fd' = fd PROVE FALSE
  <2>1. CASE \E c \in Client : Permit(c) \/ Settle(c)
    BY <1>1, <2>1, Zenon DEF Permit, Settle, epVars
  <2>2. CASE CliStart \/ HostChanges \/ HostStops \/ DeadlinePasses
    BY <1>1, <2>2, Zenon DEF CliStart, HostChanges, HostStops, DeadlinePasses, epVars
  <2>3. CASE \E ok \in {TRUE, "bus" \notin Faults} : Reacquired(ok)
    BY <1>1, <2>3, Zenon DEF Reacquired
  <2>4. CASE ESame \/ EPreparing \/ EInterrupts
    BY <1>1, <2>4, Zenon DEF ESame, EPreparing, EInterrupts, epVars
  <2>5. ~WCloses
    <3>1. WCloses => WLoops("closed", "none")
      BY Zenon DEF WCloses
    <3>2. WCloses => W'.pc = "closed"
      BY <3>1, Loops, Zenon DEF HostInv, HostType
    <3> QED BY <3>2, Zenon DEF Closed
  <2>6. CASE WStep \/ WLost
    <3>1. CASE WSnapshot \/ WActs \/ WSelects \/ WSettles \/ WLocks \/ WSwaps \/ WRecovered
               \/ WResumes
      BY <1>1, <3>1, Zenon
      DEF WSnapshot, WActs, WSelects, WSettles, WLocks, WSwaps, WRecovered, WResumes, epVars
    <3>2. CASE WChecks
      BY <1>1, <2>5, <3>2, Zenon DEF WChecks, epVars
    <3>3. CASE \E ok \in Outcome : WMarks(ok) \/ WClears(ok)
      BY <1>1, <2>5, <3>3, Zenon DEF WMarks, WClears, epVars
    <3>4. CASE WRefused \/ WLost
      BY <2>5, <3>4, Zenon DEF WRefused, WLost
    <3> QED BY <2>6, <3>1, <3>2, <3>3, <3>4, Zenon DEF WStep
  <2>7. CASE SSweeps \/ SWaits \/ SSnapshot \/ SSettles \/ \E ok \in Outcome : SMarks(ok)
    BY <1>1, <2>7, Zenon DEF SSweeps, SWaits, SSnapshot, SSettles, SMarks, epVars
  <2>8. CASE HStep
    BY <1>1, <2>8, Zenon DEF HStep, HBegins, HMarks, HStops, HExits, notH, epVars
  <2>9. CASE RStep
    BY <1>1, <2>9, Zenon DEF RStep, RBegins, RWaits, RRecovers, notR, epVars
  <2>10. CASE \/ \E j \in Jobs, v \in VMs : JobAccept(j, v)
              \/ \E j \in Jobs : JobOwn(j)
              \/ Poll
    BY <1>1, <2>10, Zenon DEF JobOwn, JobAccept, JobRuns, JobCalls, JobReturns, Poll, notJobs, epVars
  <2>11. ~TaildDies
    <3>1. ASSUME TaildDies PROVE W'.pc = "down"
      <4>1. W' = [pc |-> "down", work |-> "none", phase |-> "idle", rev |-> 0, swept |-> 0]
        BY <3>1, Zenon DEF TaildDies
      <4> QED BY <4>1, Zenon
    <3> QED BY <3>1, Zenon DEF Closed
  <2>12. CASE TaildStarts \/ TaildStartsUnprotected
    BY <1>1, <2>12, Zenon DEF TaildStarts, TaildStartsUnprotected, epVars
  <2> QED BY <2>1, <2>2, <2>3, <2>4, <2>6, <2>7, <2>8, <2>9, <2>10, <2>11, <2>12, Zenon
          DEF Next, EStep, SStep
<1> QED BY <1>1, Zenon

\* The inhibitor is let go of only for a reason of the current episode; no late
\* timer and no late worker of an older one does it.
THEOREM ReleaseIsForItsEpisode == Spec => ReleasedForItsEpisode
<1> DEFINE A == fd /\ ~fd' /\ ~Closed'
                  => \/ ep'.phase = "cancelled"
                     \/ ep.phase = "preparing" /\ (ep.late \/ stopped' = ep.rev)
<1>1. ASSUME HostInv, [Next]_vars PROVE [A]_vars
  <2>1. SUFFICES ASSUME Next, fd, ~fd', ~Closed' PROVE A
    BY <1>1, Zenon
  <2>2. CASE \E r \in fired : TimerRuns(r)
    <3>1. PICK r \in fired : TimerRuns(r)
      BY <2>2, Zenon
    <3>2. ep.phase = "preparing" /\ ep.rev = r
      BY <2>1, <3>1, Zenon DEF TimerRuns
    <3> QED BY <1>1, <3>1, <3>2, Zenon DEF HostInv, Revisions
  <2>3. CASE ECancels
    <3>1. ~Closed
      BY <2>1, <2>3, Zenon DEF ECancels, Closed
    <3> QED BY <1>1, <2>3, <3>1, Zenon DEF ECancels, HostInv, HostType, TEp
  <2>4. CASE SCompletes
    BY <2>1, <2>4, Zenon DEF SCompletes, completeStops
  <2>5. Inv
    BY <1>1, Zenon DEF Inv
  <2> QED BY <2>1, <2>2, <2>3, <2>4, <2>5, DescriptorReleased, Zenon
<1>2. ReleasedForItsEpisode <=> [][A]_vars
  BY Zenon DEF ReleasedForItsEpisode
<1> HIDE DEF A
<1> QED BY <1>1, <1>2, HostInvariant, PTL DEF Spec
=============================================================================
