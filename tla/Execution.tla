------------------------------- MODULE Execution -------------------------------
(***************************************************************************)
(* Execute, end to end: the client of the monitor's API, the execution      *)
(* service of the monitor (virt/vmm execution.rs), and the process service  *)
(* of the guest agent (guest/agent guest_process.rs) with the process and   *)
(* its output.  The attempts all use one execution id, as a client that     *)
(* retries does.                                                            *)
(*                                                                         *)
(* Between host and guest runs one bidirectional stream: `down` carries the *)
(* controls, `gq` the events; when the host drops its end the guest sees it *)
(* a while later.  An event is its kind.                                    *)
(***************************************************************************)
EXTENDS Naturals, Sequences, FiniteSets

LOCAL INSTANCE SequencesExt

CONSTANTS Attempts,   \* Execute calls with the same execution id
          InputCap,   \* QUEUE_CAPACITY of guest_inputs
          EventCap,   \* QUEUE_CAPACITY of the guest's events
          ExScopes    \* instances: [use, outs, controls, env]

VARIABLES exScope,    \* the instance, with what is left of it
          clientOf,   \* per attempt: idle, open, stalled, gone, refused
          hrun,       \* the host's run_execution
          up,         \* what the client was sent
          down,       \* guest_inputs
          grun,       \* the guest's execute and run_execution
          gq,         \* the guest's events on their way to the host
          proc,       \* the process
          readyIs,    \* the ready agent identity: same, other, none
          changedFor, \* attempts whose identity watch has an unseen change
          stopping    \* the shutdown token

exVars == <<exScope, clientOf, hrun, up, down, grun, gq, proc, readyIs, changedFor, stopping>>

NoSend == [ev |-> "none", next |-> "done", onErr |-> "done"]
HostFresh == [pc |-> "idle", started |-> FALSE, input |-> TRUE, send |-> NoSend, reserved |-> 0, sent |-> FALSE]
HostOver == [HostFresh EXCEPT !.pc = "done"]
GuestFresh == [pc |-> "none", canc |-> FALSE]
NoProc == [st |-> "none", out |-> 0, wrote |-> 0, pipe |-> FALSE, term |-> FALSE, kill |-> FALSE]

GuestTerminal == {"exited", "signaled", "launchfailed"}
Terminal == GuestTerminal \cup {"lost", "error"}

ExInit ==
  /\ exScope \in ExScopes
  /\ clientOf = [a \in Attempts |-> "idle"]
  /\ hrun = [a \in Attempts |-> HostFresh]
  /\ up = [a \in Attempts |-> << >>]
  /\ down = [a \in Attempts |-> << >>]
  /\ grun = [a \in Attempts |-> GuestFresh]
  /\ gq = [a \in Attempts |-> << >>]
  /\ proc = [a \in Attempts |-> NoProc]
  /\ readyIs = "same" /\ changedFor = {} /\ stopping = FALSE

cancelled(a) == clientOf[a] = "gone"

hostSide == <<hrun, up>>
guestSide == <<grun, proc>>
outside == <<exScope, readyIs, stopping>>

------------------------------------------------------------------------------
(* The client *)

HostHas(a) == hrun[a].pc \notin {"idle", "done"}

\* validate_start, ActiveExecutions::acquire, and the first event
ClientStarts(a) ==
  /\ clientOf[a] = "idle" /\ a \in exScope.use
  /\ IF stopping \/ readyIs = "none" \/ \E b \in Attempts : HostHas(b)
     THEN clientOf' = [clientOf EXCEPT ![a] = "refused"] /\ UNCHANGED <<hrun, up>>
     ELSE /\ clientOf' = [clientOf EXCEPT ![a] = "open"]
          /\ hrun' = [hrun EXCEPT ![a] = [HostFresh EXCEPT !.pc = "check"]]
          /\ up' = [up EXCEPT ![a] = <<"accepted">>]
  /\ UNCHANGED <<down, gq, changedFor, guestSide, outside>>

\* The client stops reading, reads on, or drops the response stream.
ClientReads(a) ==
  /\ "stall" \in exScope.env
  /\ \/ clientOf[a] = "open" /\ clientOf' = [clientOf EXCEPT ![a] = "stalled"]
     \/ clientOf[a] = "stalled" /\ clientOf' = [clientOf EXCEPT ![a] = "open"]
  /\ UNCHANGED <<down, gq, changedFor, hostSide, guestSide, outside>>

ClientGoes(a) ==
  /\ clientOf[a] \in {"open", "stalled"} /\ hrun[a].pc # "done"
  /\ clientOf' = [clientOf EXCEPT ![a] = "gone"]
  /\ UNCHANGED <<down, gq, changedFor, hostSide, guestSide, outside>>

------------------------------------------------------------------------------
(* run_execution of the host *)

hostEnds(a) == hrun' = [hrun EXCEPT ![a] = [HostOver EXCEPT !.sent = hrun[a].sent]]
hostTo(a, p) == hrun' = [hrun EXCEPT ![a].pc = p]
sends(a, ev, next, onErr) ==
  hrun' = [hrun EXCEPT ![a].pc = "send", ![a].send = [ev |-> ev, next |-> next, onErr |-> onErr]]

\* send_lost does not care for its result.
send_lost(a, next) == sends(a, "lost", next, next)

hostOnly == UNCHANGED <<clientOf, changedFor, guestSide, outside>>

\* The await of events.send: a client that does not read holds it up.
HostDelivers(a) ==
  /\ hrun[a].pc = "send" /\ clientOf[a] \in {"open", "gone"}
  /\ LET s == hrun[a].send IN
     /\ up' = IF cancelled(a) THEN up ELSE [up EXCEPT ![a] = Append(@, s.ev)]
     /\ LET p == IF cancelled(a) THEN s.onErr ELSE s.next IN
        IF p = "done" THEN hostEnds(a) ELSE hrun' = [hrun EXCEPT ![a].pc = p, ![a].send = NoSend]
  /\ hostOnly /\ UNCHANGED <<down, gq>>

identity_loss == readyIs # "same"

HostChecks(a) ==
  /\ hrun[a].pc = "check"
  /\ IF identity_loss THEN send_lost(a, "done") ELSE hostTo(a, "dial")
  /\ hostOnly /\ UNCHANGED <<up, down, gq>>

\* process_client; then Start goes first into guest_inputs and two places are
\* reserved for the signals of a disconnect.
HostDials(a) ==
  /\ hrun[a].pc = "dial"
  /\ \/ cancelled(a) /\ hostEnds(a)
     \/ ~ cancelled(a) /\ stopping /\ send_lost(a, "done")
     \/ /\ ~ cancelled(a) /\ ~ stopping
        /\ \/ "faults" \in exScope.env /\ send_lost(a, "done")
           \/ hrun' = [hrun EXCEPT ![a].pc = "exec", ![a].reserved = 2, ![a].sent = TRUE]
  /\ hostOnly /\ UNCHANGED <<up, down, gq>>

\* client.execute
HostExecutes(a) ==
  /\ hrun[a].pc = "exec"
  /\ \/ cancelled(a) /\ hostEnds(a)
     \/ ~ cancelled(a) /\ stopping /\ send_lost(a, "done")
     \/ /\ ~ cancelled(a) /\ ~ stopping /\ grun[a].pc # "none"
        /\ IF grun[a].pc = "refused" THEN send_lost(a, "done") ELSE hostTo(a, "loop")
  /\ hostOnly /\ UNCHANGED <<up, down, gq>>

\* Mutant: the signals of a disconnect go the way of all controls.
signalReservedNever(a, sig, p) ==
  /\ Len(down[a]) < InputCap
  /\ down' = [down EXCEPT ![a] = Append(@, sig)]
  /\ hrun' = [hrun EXCEPT ![a].pc = p, ![a].reserved = 0]

\* A reserved place is sent into without waiting.
signalReserved(a, sig, p) ==
  /\ down' = [down EXCEPT ![a] = Append(@, sig)]
  /\ hrun' = [hrun EXCEPT ![a].pc = p, ![a].reserved = @ - 1]

inLoop(a) == hrun[a].pc = "loop"

\* The first three arms, in their order.
HostInterrupted(a) ==
  /\ inLoop(a)
  /\ \/ cancelled(a) /\ hostTo(a, "cancel") /\ UNCHANGED changedFor
     \/ ~ cancelled(a) /\ stopping /\ send_lost(a, "cancel") /\ UNCHANGED changedFor
     \/ /\ ~ cancelled(a) /\ ~ stopping /\ a \in changedFor
        /\ changedFor' = changedFor \ {a}
        /\ IF identity_loss THEN send_lost(a, "cancel") ELSE UNCHANGED hrun
  /\ UNCHANGED <<clientOf, guestSide, outside, up, down, gq>>

quiet(a) == ~ cancelled(a) /\ ~ stopping /\ a \notin changedFor

\* The state of the process protocol the host expects; "bad" ends the run.
translate_event(ev, started) ==
  CASE ev = "started" -> IF started THEN "bad" ELSE "started"
    [] ev \in {"output", "exited", "signaled"} -> IF started THEN ev ELSE "bad"
    [] ev = "launchfailed" -> IF started THEN "bad" ELSE ev
    [] OTHER -> "bad"

GuestSilent(a) == gq[a] = << >> /\ grun[a].pc = "done"

hears(a) ==
  /\ gq[a] # << >>
  /\ gq' = [gq EXCEPT ![a] = Tail(@)]
  /\ LET t == translate_event(Head(gq[a]), hrun[a].started) IN
     IF identity_loss \/ t = "bad" THEN send_lost(a, "done")
     ELSE hrun' = [hrun EXCEPT ![a].pc = "send", ![a].started = @ \/ t = "started",
                     ![a].send = [ev |-> t, next |-> IF t \in GuestTerminal THEN "done" ELSE "loop", onErr |-> "done"]]

\* The stream fails, or ends without a terminal event.
StreamEnds(a) == GuestSilent(a) \/ "faults" \in exScope.env

\* Mutant: the end of the stream is the end of the run.
HostHearsGuestOut(a) ==
  /\ inLoop(a) /\ quiet(a)
  /\ hears(a) \/ (StreamEnds(a) /\ hostEnds(a) /\ UNCHANGED gq)
  /\ hostOnly /\ UNCHANGED <<up, down>>

HostHearsGuest(a) ==
  /\ inLoop(a) /\ quiet(a)
  /\ hears(a) \/ (StreamEnds(a) /\ send_lost(a, "done") /\ UNCHANGED gq)
  /\ hostOnly /\ UNCHANGED <<up, down>>

\* Mutant: the last two places are anybody's.
roomToForwardAll(a) == Len(down[a]) < InputCap

roomToForward(a) == Len(down[a]) + hrun[a].reserved < InputCap

\* The control arm; forward_guest_control waits for room, the client or the end.
HostForwards(a) ==
  /\ inLoop(a) /\ quiet(a) /\ ~ identity_loss /\ gq[a] = << >> /\ ~ GuestSilent(a) /\ hrun[a].input
  /\ \/ /\ exScope.controls > 0 /\ exScope' = [exScope EXCEPT !.controls = @ - 1]
        /\ \/ \E c \in {"data", "signal"} :
                roomToForward(a) /\ down' = [down EXCEPT ![a] = Append(@, c)] /\ UNCHANGED hrun
           \/ sends(a, "error", "cancel", "cancel") /\ UNCHANGED down
           \/ ~ roomToForward(a) /\ hostTo(a, "blocked") /\ UNCHANGED down
     \/ /\ UNCHANGED <<exScope, down>>
        /\ IF hrun[a].started THEN hrun' = [hrun EXCEPT ![a].input = FALSE] ELSE hostTo(a, "unstart")
  /\ UNCHANGED <<clientOf, changedFor, guestSide, readyIs, stopping, up, gq>>

HostBlocked(a) ==
  /\ hrun[a].pc = "blocked"
  /\ \/ roomToForward(a) /\ down' = [down EXCEPT ![a] = Append(@, "data")] /\ hostTo(a, "loop")
     \/ (cancelled(a) \/ stopping) /\ sends(a, "error", "cancel", "cancel") /\ UNCHANGED down
  /\ hostOnly /\ UNCHANGED <<up, gq>>

\* cancel_guest: SIGTERM, a while for the end of the process, SIGKILL, another
\* while for the end of the stream.  A client that closed its input before
\* Started (un) is told afterwards.
HostCancels(a) ==
  \/ /\ hrun[a].pc \in {"cancel", "unstart"}
     /\ signalReserved(a, "TERM", IF hrun[a].pc = "cancel" THEN "term" ELSE "unterm")
     /\ UNCHANGED gq
  \/ /\ hrun[a].pc \in {"term", "unterm"}
     /\ LET un == hrun[a].pc = "unterm" IN
        \/ /\ gq[a] # << >> /\ gq' = [gq EXCEPT ![a] = Tail(@)] /\ UNCHANGED down
           /\ IF Head(gq[a]) \in GuestTerminal THEN hostTo(a, IF un THEN "undrain" ELSE "drain") ELSE UNCHANGED hrun
        \/ \* the stream ended, or the grace is over
           /\ signalReserved(a, "KILL", IF un THEN "undrain" ELSE "drain") /\ UNCHANGED gq
  \/ /\ hrun[a].pc \in {"drain", "undrain"} /\ UNCHANGED down
     /\ \/ gq[a] # << >> /\ gq' = [gq EXCEPT ![a] = Tail(@)] /\ UNCHANGED hrun
        \/ /\ UNCHANGED gq
           /\ IF hrun[a].pc = "drain" THEN hostEnds(a) ELSE sends(a, "launchfailed", "done", "done")

ExHostStep(a) ==
  \/ HostDelivers(a) \/ HostChecks(a) \/ HostDials(a) \/ HostExecutes(a) \/ HostInterrupted(a)
  \/ HostHearsGuest(a) \/ HostForwards(a) \/ HostBlocked(a)
  \/ HostCancels(a) /\ hostOnly /\ UNCHANGED up

------------------------------------------------------------------------------
(* The guest *)

guestTo(a, p) == grun' = [grun EXCEPT ![a].pc = p]
emits(a, ev) == gq' = [gq EXCEPT ![a] = Append(@, ev)]
\* Sending blocks while the queue is full, and fails once the stream is gone.
hasRoom(a) == Len(gq[a]) < EventCap
lost(a) == grun[a].canc


\* The lease of the execution id
GuestLease(a) == grun[a].pc \notin {"none", "refused", "done"}

guestOnly == UNCHANGED <<clientOf, changedFor, hostSide, outside>>

\* execute: the agent's identity, the lease of the execution id, the plan
GuestAccepts(a) ==
  /\ grun[a].pc = "none" /\ hrun[a].sent
  /\ \/ readyIs = "other" /\ guestTo(a, "refused") /\ UNCHANGED <<gq, proc>>
     \/ (\E b \in Attempts : GuestLease(b)) /\ guestTo(a, "refused") /\ UNCHANGED <<gq, proc>>
     \/ /\ \A b \in Attempts : ~ GuestLease(b)
        /\ \/ "faults" \in exScope.env /\ emits(a, "launchfailed") /\ guestTo(a, "done") /\ UNCHANGED proc
           \/ guestTo(a, "launch") /\ proc' = [proc EXCEPT ![a].st = "spawning"] /\ UNCHANGED gq
  /\ guestOnly /\ UNCHANGED down

\* The stream ended under the guest: its event stream is dropped and its input
\* fails, which both set the cancellation; what was queued is gone.
GuestSeesReset(a) ==
  /\ GuestLease(a) /\ ~ grun[a].canc /\ hrun[a].pc = "done"
  /\ grun' = [grun EXCEPT ![a].canc = TRUE]
  /\ gq' = [gq EXCEPT ![a] = << >>] /\ down' = [down EXCEPT ![a] = << >>]
  /\ UNCHANGED proc /\ guestOnly

\* spawn_process, which nothing interrupts
GuestSpawns(a) ==
  /\ proc[a].st = "spawning"
  /\ \/ proc' = [proc EXCEPT ![a].st = "running", ![a].pipe = TRUE]
     \/ "faults" \in exScope.env /\ proc' = [proc EXCEPT ![a].st = "failed"]
  /\ UNCHANGED <<grun, gq, down>> /\ guestOnly

Unhandled(a) == IF down[a] # << >> THEN Head(down[a]) ELSE "none"
takes(a) == down' = [down EXCEPT ![a] = Tail(@)]

\* The select of run_execution while the launch is under way: its result, the
\* cancellation, or a signal, which cancels the launch.  Another control is
\* kept for later, and no more are read.
GuestLaunches(a) ==
  /\ grun[a].pc = "launch"
  /\ \/ /\ proc[a].st = "running" /\ UNCHANGED down
        /\ IF lost(a) THEN guestTo(a, "reap") /\ UNCHANGED gq
           ELSE guestTo(a, "drive") /\ emits(a, "started")
     \/ /\ proc[a].st = "failed" /\ UNCHANGED down
        /\ guestTo(a, "done") /\ IF lost(a) THEN UNCHANGED gq ELSE emits(a, "launchfailed")
     \/ lost(a) /\ guestTo(a, "unlaunch") /\ UNCHANGED <<gq, down>>
     \/ Unhandled(a) \in {"signal", "TERM", "KILL"} /\ takes(a) /\ guestTo(a, "untell") /\ UNCHANGED gq
  /\ UNCHANGED proc /\ guestOnly

\* Mutant: a launch undone for a signal ends like a process that ran.
GuestUnlaunchesPlainly(a) ==
  /\ grun[a].pc \in {"unlaunch", "untell"} /\ proc[a].st # "spawning"
  /\ guestTo(a, IF proc[a].st = "failed" THEN "done" ELSE "reap")
  /\ UNCHANGED <<proc, gq, down>> /\ guestOnly

\* cancel_pending_launch waits for the launch and reaps what it made.
GuestUnlaunches(a) ==
  /\ grun[a].pc \in {"unlaunch", "untell"} /\ proc[a].st # "spawning"
  /\ IF proc[a].st = "failed" THEN guestTo(a, IF grun[a].pc = "untell" THEN "tell" ELSE "done")
     ELSE guestTo(a, IF grun[a].pc = "untell" THEN "reaptell" ELSE "reap")
  /\ UNCHANGED <<proc, gq, down>> /\ guestOnly

GuestTells(a) ==
  /\ grun[a].pc = "tell" /\ (hasRoom(a) \/ lost(a))
  /\ guestTo(a, "done")
  /\ IF lost(a) THEN UNCHANGED gq ELSE emits(a, "launchfailed")
  /\ UNCHANGED <<proc, down>> /\ guestOnly

\* drive_process, one turn of its loop
GuestDrives(a) ==
  /\ grun[a].pc = "drive"
  /\ \/ lost(a) /\ guestTo(a, "reap") /\ UNCHANGED <<proc, gq, down>>
     \/ /\ ~ lost(a) /\ down[a] # << >> /\ takes(a)
        /\ \/ Unhandled(a) # "data" /\ UNCHANGED <<grun, gq>>
              /\ proc' = [proc EXCEPT ![a].term = @ \/ Unhandled(a) # "KILL", ![a].kill = @ \/ Unhandled(a) = "KILL"]
           \/ Unhandled(a) = "data" /\ UNCHANGED <<grun, gq, proc>>
           \/ Unhandled(a) = "data" /\ "faults" \in exScope.env /\ hasRoom(a) /\ emits(a, "error") /\ guestTo(a, "reap") /\ UNCHANGED proc
     \/ /\ ~ lost(a) /\ down[a] = << >> /\ proc[a].st = "dead"
        /\ proc' = [proc EXCEPT ![a].st = "reaped"] /\ guestTo(a, "join") /\ UNCHANGED <<gq, down>>
  /\ guestOnly

\* Mutant: SIGTERM is enough.
GuestReapsPolitely(a) ==
  /\ grun[a].pc \in {"reap", "reaptell"}
  /\ \/ ~ proc[a].term /\ proc' = [proc EXCEPT ![a].term = TRUE] /\ UNCHANGED grun
     \/ /\ proc[a].st = "dead" /\ proc' = [proc EXCEPT ![a].st = "reaped"]
        /\ guestTo(a, IF grun[a].pc = "reap" THEN "join" ELSE "tell")
  /\ UNCHANGED <<gq, down>> /\ guestOnly

\* terminate_and_reap: SIGTERM, two seconds, SIGKILL, wait
GuestReaps(a) ==
  /\ grun[a].pc \in {"reap", "reaptell"}
  /\ \/ ~ proc[a].term /\ proc' = [proc EXCEPT ![a].term = TRUE] /\ UNCHANGED grun
     \/ proc[a].term /\ ~ proc[a].kill /\ proc[a].st = "running" /\ proc' = [proc EXCEPT ![a].kill = TRUE] /\ UNCHANGED grun
     \/ /\ proc[a].st = "dead" /\ proc' = [proc EXCEPT ![a].st = "reaped"]
        /\ guestTo(a, IF grun[a].pc = "reap" THEN "join" ELSE "tell")
  /\ UNCHANGED <<gq, down>> /\ guestOnly

\* The reader threads of the output
ReaderReads(a) ==
  /\ proc[a].out > 0 /\ grun[a].pc \in {"drive", "reap", "join"} /\ proc[a].st # "spawning"
  /\ \/ ~ lost(a) /\ hasRoom(a) /\ emits(a, "output") /\ proc' = [proc EXCEPT ![a].out = @ - 1]
     \/ lost(a) /\ proc' = [proc EXCEPT ![a].out = 0, ![a].pipe = FALSE] /\ UNCHANGED gq
  /\ UNCHANGED <<grun, down>> /\ guestOnly

terminal_event(a) == IF proc[a].term \/ proc[a].kill THEN {"signaled", "exited"} ELSE {"exited"}

\* Mutant: the end is told before the readers have read it all.
GuestJoinsEarly(a) ==
  /\ grun[a].pc = "join"
  /\ guestTo(a, "done") /\ UNCHANGED <<proc, down>>
  /\ \/ lost(a) /\ UNCHANGED gq
     \/ ~ lost(a) /\ hasRoom(a) /\ \E e \in terminal_event(a) : emits(a, e)
  /\ guestOnly

\* The readers are joined, then the end is told.
GuestJoins(a) ==
  /\ grun[a].pc = "join" /\ proc[a].out = 0 /\ ~ proc[a].pipe
  /\ guestTo(a, "done") /\ UNCHANGED <<proc, down>>
  /\ \/ lost(a) /\ UNCHANGED gq
     \/ ~ lost(a) /\ hasRoom(a) /\ \E e \in terminal_event(a) : emits(a, e)
  /\ guestOnly

GuestStep(a) ==
  \/ GuestSeesReset(a) \/ GuestSpawns(a) \/ GuestLaunches(a) \/ GuestUnlaunches(a) \/ GuestTells(a)
  \/ GuestDrives(a) \/ GuestReaps(a) \/ ReaderReads(a) \/ GuestJoins(a)

------------------------------------------------------------------------------
(* The process, the guest's readiness and the monitor *)

procOnly == UNCHANGED <<exScope, clientOf, hrun, up, down, grun, gq, readyIs, changedFor, stopping>>

ProcKilled(a) ==
  /\ proc[a].st = "running" /\ proc[a].kill
  /\ proc' = [proc EXCEPT ![a].st = "dead", ![a].pipe = FALSE]
  /\ procOnly

\* It writes, and ends by itself or at a signal; a child of its may keep the
\* pipe for some time.
ProcRuns(a) ==
  /\ \/ /\ proc[a].st = "running" /\ proc[a].wrote < exScope.outs
        /\ proc' = [proc EXCEPT ![a].out = @ + 1, ![a].wrote = @ + 1]
     \/ /\ proc[a].st = "running"
        /\ \E held \in {FALSE, "held" \in exScope.env} : proc' = [proc EXCEPT ![a].st = "dead", ![a].pipe = held]
     \/ proc[a].st \in {"dead", "reaped"} /\ proc[a].pipe /\ proc' = [proc EXCEPT ![a].pipe = FALSE]
  /\ procOnly

IdentityChanges ==
  /\ "identity" \in exScope.env
  /\ \/ readyIs = "same" /\ readyIs' \in {"none", "other"}
     \/ readyIs = "none" /\ readyIs' = "same"
  /\ changedFor' = {a \in Attempts : HostHas(a)}
  /\ UNCHANGED <<exScope, clientOf, hrun, up, down, grun, gq, proc, stopping>>

MonitorStops ==
  /\ "stop" \in exScope.env /\ ~ stopping /\ stopping' = TRUE
  /\ UNCHANGED <<exScope, clientOf, hrun, up, down, grun, gq, proc, readyIs, changedFor>>

ExNext ==
  \/ \E a \in Attempts :
       \/ ClientStarts(a) \/ ClientReads(a) \/ ClientGoes(a)
       \/ ExHostStep(a) \/ GuestAccepts(a) \/ GuestStep(a) \/ ProcKilled(a) \/ ProcRuns(a)
  \/ IdentityChanges \/ MonitorStops

ExSpec == ExInit /\ [][ExNext]_exVars

------------------------------------------------------------------------------
(* Properties *)

\* Types; guest_inputs never holds more than its capacity, the two reserved
\* places included.
ExTypeOK ==
  /\ \A a \in Attempts :
       /\ clientOf[a] \in {"idle", "open", "stalled", "gone", "refused"}
       /\ hrun[a].reserved \in 0..2 /\ Len(down[a]) + hrun[a].reserved <= InputCap
       /\ Len(gq[a]) <= EventCap
       /\ proc[a].st \in {"none", "spawning", "failed", "running", "dead", "reaped"}
  /\ changedFor \subseteq Attempts

Alive(a) == proc[a].st \in {"spawning", "running", "dead"}

\* One execution id never has two processes, also when a client that went away
\* tries again: the guest's lease outlives the host's and ends with the process.
OneProcessPerId == \A a, b \in Attempts : Alive(a) /\ Alive(b) => a = b

\* The client is told of the end exactly once and of nothing after it; it is
\* always told unless it went away itself.
EndIsToldOnce ==
  \A a \in Attempts :
    /\ \A i \in DOMAIN up[a] : up[a][i] \in Terminal => i = Len(up[a])
    /\ hrun[a].pc = "done" /\ ~ cancelled(a) => up[a] # << >> /\ Last(up[a]) \in Terminal

\* A client that is told how the process ended has all that it wrote: the
\* readers are joined before the end is sent.
OutputIsComplete ==
  \A a \in Attempts : up[a] # << >> /\ Last(up[a]) \in {"exited", "signaled"}
    => Len(SelectSeq(up[a], LAMBDA e : e = "output")) = proc[a].wrote

\* The guest's events always are what translate_event expects.
GuestKeepsProtocol ==
  \A a \in Attempts : hrun[a].pc = "loop" /\ gq[a] # << >> /\ Head(gq[a]) # "error"
    => translate_event(Head(gq[a]), hrun[a].started) # "bad"

\* However the host's side ended, the process does not go on: when neither side
\* has anything left to do it was reaped, or never started.
NoProcessIsLeft ==
  \A a \in Attempts :
    hrun[a].pc = "done" /\ ~ ENABLED (GuestStep(a) \/ ProcKilled(a)) => ~ Alive(a)


================================================================================
