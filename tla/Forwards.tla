------------------------------- MODULE Forwards -------------------------------
(***************************************************************************)
(* The forward table of a monitor (virt/vmm/src/forward): forwards whose    *)
(* guest half is the agent, opened for a session or for the machine, the   *)
(* supervisor that follows the ready agent and checks that it serves        *)
(* forwards, the guest listeners, the connections, and the end.             *)
(*                                                                         *)
(* Openings, removals and the shutdown exclude each other by the lock       *)
(* `operation'; the supervisor takes no part in it.                         *)
(***************************************************************************)
EXTENDS Naturals, FiniteSets

CONSTANTS Inbound, Outbound,  \* the forwards, by shape (InboundAgent, OutboundAgent)
          FwdAgents,          \* agent identities, strings
          Serves,             \* those that serve GuestForwardService
          Conns,              \* connections
          MaxParked,          \* the limit of parked connections of a forward
          FwdScopes           \* each bounds the forwards that take part, says which
                              \* are the machine's, and bounds the ready changes
                              \* and the session-scoped forwards

ASSUME FwdAssumption ==
  /\ Inbound \cap Outbound = {} /\ IsFiniteSet(Inbound \cup Outbound)
  /\ Serves \subseteq FwdAgents /\ "none" \notin FwdAgents
  /\ \A s \in FwdScopes : /\ s.machine \subseteq s.use /\ s.use \subseteq Inbound \cup Outbound
                          /\ s.limit \in Nat

VARIABLES fwdScope,     \* the bounds of this behaviour
          readyAgent,   \* what the instance store publishes; "none" before
          readyChanges, \* how often that changed
          table,        \* the availability of the guest half, for the table
          sup,          \* the capability supervisor
          fwd,          \* the entries
          operation,    \* who holds the operation lock, and how far they are
          sessions,     \* session permits in use
          returns,      \* the return port 1028 is registered, and served
          running,      \* "prepared", "running", "stopping" or "closed"
          conn          \* the connections

workVars == <<readyAgent, readyChanges, table, sup, fwd, operation, sessions, returns, running, conn>>
fwdVars == <<fwdScope, workVars>>

Fwd == Inbound \cup Outbound
Availability == {"unknown", "unsupported"} \cup FwdAgents
Available(a) == a \in FwdAgents
MachineFwd == fwdScope.machine
SessionFwd == fwdScope.use \ MachineFwd
Free == <<"free">>
Listed == {f \in Fwd : fwd[f].st = "listed"}
Ended == [pc |-> "none", fwd |-> "none", to |-> "unknown", cut |-> FALSE]
NoForward == [st |-> "absent", avail |-> "unknown", state |-> "closed", gen |-> FALSE,
              fresh |-> FALSE, task |-> "none", agent |-> "none"]

------------------------------------------------------------------------------
(* ForwardEntry, on one entry e of shape f. *)

shown(f, a) == CASE a = "unknown" -> "pending"
                 [] a = "unsupported" -> "unsupported"
                 [] OTHER -> IF f \in Inbound THEN "active" ELSE "pending"

\* Every token descends from the table's, which the shutdown cancels.
TokenLives == running \in {"prepared", "running"}

\* set_availability, under the mutex of the generation: a change ends the
\* generation, and an inbound forward begins another.
set_availability(f, e, a) ==
  IF e.avail = a THEN e
  ELSE [e EXCEPT !.avail = a, !.fresh = TRUE, !.state = shown(f, a),
                 !.gen = f \in Inbound /\ Available(a) /\ TokenLives]

\* Mutant: a connection that relays already is left alone.
cutSetup(f) == [c \in Conns |-> IF conn[c].fwd = f /\ conn[c].pc = "setup"
                                THEN [conn[c] EXCEPT !.cut = TRUE] ELSE conn[c]]

\* A connection lives as long as the generation it was made in.
cut(f) == [c \in Conns |-> IF conn[c].fwd = f /\ conn[c].pc \in {"setup", "relay"}
                           THEN [conn[c] EXCEPT !.cut = TRUE] ELSE conn[c]]

\* The entry f becomes e; the old generation ends when e has another one.
Replace(f, e, ends) ==
  /\ fwd' = [fwd EXCEPT ![f] = e]
  /\ conn' = IF ends THEN cut(f) ELSE conn

Apply(f, a) == Replace(f, set_availability(f, fwd[f], a), fwd[f].avail # a)

------------------------------------------------------------------------------
(* The capability supervisor (agent.rs). *)

\* CapabilityCache::availability
availability(obs, id) ==
  IF id # "none" /\ obs.id = id THEN IF obs.served THEN id ELSE "unsupported" ELSE "unknown"

SupNext(id) == IF id = "none" \/ sup.obs.id = id THEN "idle" ELSE "check"

\* The top of the loop: the identity, and the table's availability.
SupTop ==
  /\ sup.pc = "top" /\ running # "closed"
  /\ LET a == availability(sup.obs, readyAgent) IN
     /\ table' = a
     /\ sup' = [sup EXCEPT !.id = readyAgent, !.fresh = FALSE,
                           !.pc = IF table = a THEN SupNext(readyAgent) ELSE "entries"]
  /\ UNCHANGED <<readyAgent, readyChanges, fwd, operation, sessions, returns, running, conn>>

\* set_agent_availability: the entries as they are after the table has changed.
SupEntries ==
  /\ sup.pc = "entries"
  /\ sup' = [sup EXCEPT !.todo = Listed, !.pc = "each"]
  /\ UNCHANGED <<readyAgent, readyChanges, table, fwd, operation, sessions, returns, running, conn>>

\* One entry after the other; one that was removed meanwhile shows nothing.
SupEach ==
  /\ sup.pc = "each"
  /\ IF sup.todo = {} THEN sup' = [sup EXCEPT !.pc = SupNext(sup.id)] /\ UNCHANGED <<fwd, conn>>
     ELSE \E f \in sup.todo :
            /\ sup' = [sup EXCEPT !.todo = @ \ {f}]
            /\ IF fwd[f].st = "listed" THEN Apply(f, table) ELSE UNCHANGED <<fwd, conn>>
  /\ UNCHANGED <<readyAgent, readyChanges, table, operation, sessions, returns, running>>

SupChanged ==
  /\ sup.fresh
  /\ \/ sup.pc = "idle"
     \/ sup.pc = "check" /\ readyAgent # sup.id
  /\ sup' = [sup EXCEPT !.pc = "top"]
  /\ UNCHANGED <<readyAgent, readyChanges, table, fwd, operation, sessions, returns, running, conn>>

\* The answer of the health check counts for the identity it was asked for, if
\* that is still the ready one; an error is tried again.
SupChecked ==
  /\ sup.pc = "check"
  /\ sup' = [sup EXCEPT !.pc = "top",
                        !.obs = IF readyAgent = sup.id
                                THEN [id |-> sup.id, served |-> sup.id \in Serves] ELSE @]
  /\ UNCHANGED <<readyAgent, readyChanges, table, fwd, operation, sessions, returns, running, conn>>

------------------------------------------------------------------------------
(* Openings and removals. *)

\* prepare_machine, register_outbound and activate have made the forwards of
\* the machine; from here on the table serves.
Activate ==
  /\ running = "prepared" /\ operation = Free
  /\ running' = "running"
  /\ fwd' = [f \in Fwd |-> IF f \in MachineFwd THEN [fwd[f] EXCEPT !.task = "top"] ELSE fwd[f]]
  /\ UNCHANGED <<readyAgent, readyChanges, table, sup, operation, sessions, returns, conn>>

\* Mutant: a session may be opened while the table stops.
OpenBuildsAnyway(f) ==
  /\ operation = Free /\ running # "prepared" /\ fwd[f].st = "absent"
  /\ sessions < fwdScope.limit
  /\ operation' = <<"build", f>>
  /\ sessions' = sessions + 1
  /\ fwd' = [fwd EXCEPT ![f] = [NoForward EXCEPT !.st = "opening", !.avail = table,
                                                 !.state = shown(f, table)]]
  /\ UNCHANGED <<readyAgent, readyChanges, table, sup, returns, running, conn>>

\* Mutant: the limit is looked at too late.
OpenBuildsOverLimit(f) ==
  /\ operation = Free /\ running = "running" /\ fwd[f].st = "absent"
  /\ operation' = <<"build", f>>
  /\ sessions' = sessions + 1
  /\ fwd' = [fwd EXCEPT ![f] = [NoForward EXCEPT !.st = "opening", !.avail = table,
                                                 !.state = shown(f, table)]]
  /\ UNCHANGED <<readyAgent, readyChanges, table, sup, returns, running, conn>>

\* add_session up to build_entry: refused when stopping or at the limit.
OpenBuilds(f) ==
  /\ operation = Free /\ running = "running" /\ fwd[f].st = "absent"
  /\ sessions < fwdScope.limit
  /\ operation' = <<"build", f>>
  /\ sessions' = sessions + 1
  /\ fwd' = [fwd EXCEPT ![f] = [NoForward EXCEPT !.st = "opening", !.avail = table,
                                                 !.state = shown(f, table),
                                                 !.gen = f \in Inbound /\ Available(table)]]
  /\ UNCHANGED <<readyAgent, readyChanges, table, sup, returns, running, conn>>

\* The host half cannot be bound, or the return port cannot be registered.
OpenFails(f) ==
  /\ operation = <<"build", f>>
  /\ operation' = Free
  /\ sessions' = sessions - 1
  /\ fwd' = [fwd EXCEPT ![f] = NoForward]
  /\ UNCHANGED <<readyAgent, readyChanges, table, sup, returns, running, conn>>

\* ensure_return_listener, and the entry is in the list.
OpenLists(f) ==
  /\ operation = <<"build", f>>
  /\ operation' = <<"apply", f>>
  /\ returns' = (returns \/ f \in Outbound)
  /\ fwd' = [fwd EXCEPT ![f].st = "listed"]
  /\ UNCHANGED <<readyAgent, readyChanges, table, sup, sessions, running, conn>>

\* Mutant: the availability of build_entry is good enough.
OpenAppliesNot(f) ==
  /\ operation = <<"apply", f>>
  /\ operation' = Free
  /\ fwd' = [fwd EXCEPT ![f].task = "top"]
  /\ UNCHANGED <<readyAgent, readyChanges, table, sup, sessions, returns, running, conn>>

\* The entry takes the table's availability again, with the table's lock held
\* for the whole statement, and is activated.
OpenApplies(f) ==
  /\ operation = <<"apply", f>>
  /\ operation' = Free
  /\ fwd' = [fwd EXCEPT ![f] = [set_availability(f, fwd[f], table) EXCEPT !.task = "top"]]
  /\ UNCHANGED <<readyAgent, readyChanges, table, sup, sessions, returns, running, conn>>

\* remove, when the session's stream has ended: out of the list, and stopped.
RemoveStops(f) ==
  /\ operation = Free /\ f \in Listed \ MachineFwd
  /\ operation' = <<"remove", f>>
  /\ Replace(f, [fwd[f] EXCEPT !.st = "removing", !.state = "closed", !.gen = FALSE], TRUE)
  /\ UNCHANGED <<readyAgent, readyChanges, table, sup, sessions, returns, running>>

\* Mutant: the permit goes back with the return port.
RemoveDoneLate(f) ==
  /\ operation = <<"remove", f>>
  /\ operation' = Free
  /\ sessions' = IF Listed \cap Outbound = {} THEN sessions - 1 ELSE sessions
  /\ returns' = (returns /\ Listed \cap Outbound # {})
  /\ fwd' = [fwd EXCEPT ![f] = NoForward]
  /\ conn' = [c \in Conns |-> IF conn[c].fwd = f THEN Ended ELSE conn[c]]
  /\ UNCHANGED <<readyAgent, readyChanges, table, sup, running>>

\* Mutant: the last outbound forward leaves the return port registered.
RemoveDoneKeepsPort(f) ==
  /\ operation = <<"remove", f>>
  /\ operation' = Free
  /\ sessions' = sessions - 1
  /\ fwd' = [fwd EXCEPT ![f] = NoForward]
  /\ conn' = [c \in Conns |-> IF conn[c].fwd = f THEN Ended ELSE conn[c]]
  /\ UNCHANGED <<readyAgent, readyChanges, table, sup, returns, running>>

\* The task and its connections are gone: the permits go back, and the return
\* port goes with the last outbound forward.
RemoveDone(f) ==
  /\ operation = <<"remove", f>>
  /\ operation' = Free
  /\ sessions' = sessions - 1
  /\ returns' = (returns /\ Listed \cap Outbound # {})
  /\ fwd' = [fwd EXCEPT ![f] = NoForward]
  /\ conn' = [c \in Conns |-> IF conn[c].fwd = f THEN Ended ELSE conn[c]]
  /\ UNCHANGED <<readyAgent, readyChanges, table, sup, running>>

\* shutdown: every token is cancelled first, then the lock is taken.
ShutdownCancels ==
  /\ running \in {"prepared", "running"}
  /\ running' = "stopping"
  /\ conn' = [c \in Conns |-> IF conn[c].pc \in {"setup", "relay"}
                              THEN [conn[c] EXCEPT !.cut = TRUE] ELSE conn[c]]
  /\ fwd' = [f \in Fwd |-> [fwd[f] EXCEPT !.gen = FALSE]]
  /\ UNCHANGED <<readyAgent, readyChanges, table, sup, operation, sessions, returns>>

ShutdownCloses ==
  /\ running = "stopping" /\ operation = Free
  /\ running' = "closed"
  /\ fwd' = [f \in Fwd |-> NoForward]
  /\ conn' = [c \in Conns |-> Ended]
  /\ returns' = FALSE
  /\ UNCHANGED <<readyAgent, readyChanges, table, sup, operation, sessions>>

------------------------------------------------------------------------------
(* The guest listener of an outbound forward (supervise_listener). *)

Runs(f, pcs) == running = "running" /\ fwd[f].st = "listed" /\ fwd[f].task \in pcs
Entry(f, e) == fwd' = [fwd EXCEPT ![f] = e] /\ UNCHANGED conn
RestOf == UNCHANGED <<readyAgent, readyChanges, table, sup, operation, sessions, returns, running>>

ListenTop(f) ==
  /\ f \in Outbound /\ Runs(f, {"top"})
  /\ Entry(f, [fwd[f] EXCEPT !.fresh = FALSE,
                 !.agent = IF Available(fwd[f].avail) THEN fwd[f].avail ELSE "none",
                 !.task = IF Available(fwd[f].avail) THEN "announce" ELSE "wait"])
  /\ RestOf

ListenWakes(f) ==
  /\ f \in Outbound /\ Runs(f, {"wait"}) /\ fwd[f].fresh
  /\ Entry(f, [fwd[f] EXCEPT !.task = "top"])
  /\ RestOf

\* set_state(Pending), then Listen to the guest.
ListenAnnounces(f) ==
  /\ f \in Outbound /\ Runs(f, {"announce"})
  /\ Entry(f, [fwd[f] EXCEPT !.state = "pending", !.task = "listen"])
  /\ RestOf

\* Mutant: the listener is active whatever has become of its agent.
ListenBoundAnyway(f) ==
  /\ f \in Outbound /\ Runs(f, {"listen"})
  /\ Replace(f, [fwd[f] EXCEPT !.gen = TRUE, !.state = "active", !.task = "bound"], TRUE)
  /\ RestOf

\* activate_guest_listener: only for the agent that is available now.
ListenBound(f) ==
  /\ f \in Outbound /\ Runs(f, {"listen"})
  /\ IF fwd[f].avail = fwd[f].agent
     THEN Replace(f, [fwd[f] EXCEPT !.gen = TRUE, !.state = "active", !.task = "bound"], TRUE)
     ELSE Entry(f, [fwd[f] EXCEPT !.task = "end"])
  /\ RestOf

\* The guest refuses, the stream ends, or the availability changes.
ListenEnds(f) ==
  /\ f \in Outbound
  /\ \/ Runs(f, {"listen"})
     \/ Runs(f, {"bound"}) /\ (fwd[f].fresh => fwd[f].avail # fwd[f].agent)
  /\ Entry(f, [fwd[f] EXCEPT !.task = "end", !.fresh = FALSE])
  /\ RestOf

\* end_guest_listener, and the wait before another attempt.
ListenBacksOff(f) ==
  /\ f \in Outbound /\ Runs(f, {"end"})
  /\ Replace(f, [fwd[f] EXCEPT !.gen = FALSE,
                               !.state = IF Available(fwd[f].avail) THEN "pending" ELSE @,
                               !.task = IF fwd[f].avail = fwd[f].agent THEN "backoff" ELSE "top"],
             TRUE)
  /\ RestOf

ListenRetries(f) ==
  /\ f \in Outbound /\ Runs(f, {"backoff"})
  /\ Entry(f, [fwd[f] EXCEPT !.task = IF fwd[f].fresh /\ fwd[f].avail # fwd[f].agent
                                      THEN "top" ELSE "announce",
                             !.fresh = FALSE])
  /\ RestOf

------------------------------------------------------------------------------
(* Connections. *)

Parked(f) == {c \in Conns : conn[c].fwd = f /\ conn[c].pc = "parked"}
SetConn(c, r) == conn' = [conn EXCEPT ![c] = r] /\ UNCHANGED fwd

\* admit: served, parked while the guest half is unknown, or refused.
Accept(c, f) ==
  /\ f \in Inbound /\ Runs(f, {"top"}) /\ conn[c].pc = "none"
  /\ fwd[f].avail # "unsupported"
  /\ fwd[f].avail = "unknown" => Cardinality(Parked(f)) < MaxParked
  /\ SetConn(c, [Ended EXCEPT !.fwd = f,
                              !.pc = IF Available(fwd[f].avail) THEN "spawned" ELSE "parked"])
  /\ RestOf

\* Mutant: parked connections are looked at when the guest half is gone.
ServeChangedLost(f) ==
  /\ f \in Inbound /\ Runs(f, {"top"}) /\ fwd[f].fresh
  /\ fwd' = [fwd EXCEPT ![f].fresh = FALSE]
  /\ conn' = [c \in Conns |->
                IF c \notin Parked(f) \/ fwd[f].avail # "unsupported" THEN conn[c] ELSE Ended]
  /\ RestOf

\* serve, on a change of availability: parked connections are served or refused.
ServeChanged(f) ==
  /\ f \in Inbound /\ Runs(f, {"top"}) /\ fwd[f].fresh
  /\ fwd' = [fwd EXCEPT ![f].fresh = FALSE]
  /\ conn' = [c \in Conns |->
                IF c \notin Parked(f) \/ fwd[f].avail = "unknown" THEN conn[c]
                ELSE IF Available(fwd[f].avail) THEN [conn[c] EXCEPT !.pc = "spawned"] ELSE Ended]
  /\ RestOf

\* A parked connection has waited for 30 seconds.
ParkExpires(c) ==
  /\ conn[c].pc = "parked" /\ running = "running"
  /\ SetConn(c, Ended) /\ RestOf

\* handle_connection, handle_return: the lifetime is taken once, at the start.
Begin(c, f) ==
  SetConn(c, IF fwd[f].gen
             THEN [pc |-> "setup", fwd |-> f, to |-> fwd[f].avail, cut |-> FALSE] ELSE Ended)

HandleConnection(c) == conn[c].pc = "spawned" /\ Begin(c, conn[c].fwd) /\ RestOf

\* The guest returns a connection for the token of a listed forward.
HandleReturn(c, f) ==
  /\ f \in Outbound \cap Listed /\ returns /\ running = "running" /\ conn[c].pc = "none"
  /\ fwd[f].gen /\ Begin(c, f) /\ RestOf

ConnRelays(c) ==
  /\ conn[c].pc = "setup" /\ ~conn[c].cut
  /\ SetConn(c, [conn[c] EXCEPT !.pc = "relay"]) /\ RestOf

\* The peers are done, the setup failed or timed out, or the lifetime ended.
ConnEnds(c) ==
  /\ conn[c].pc \in {"setup", "relay"}
  /\ SetConn(c, Ended) /\ RestOf

------------------------------------------------------------------------------

ReadyChanges(a) ==
  /\ readyChanges < fwdScope.ready /\ a # readyAgent
  /\ readyAgent' = a /\ readyChanges' = readyChanges + 1
  /\ sup' = [sup EXCEPT !.fresh = TRUE]
  /\ UNCHANGED <<table, fwd, operation, sessions, returns, running, conn>>

FwdInit ==
  /\ fwdScope \in FwdScopes
  /\ readyAgent = "none" /\ readyChanges = 0
  /\ table = "unknown"
  /\ sup = [pc |-> "top", id |-> "none", fresh |-> FALSE, todo |-> {},
            obs |-> [id |-> "none", served |-> FALSE]]
  /\ fwd = [f \in Fwd |-> IF f \in MachineFwd
                          THEN [NoForward EXCEPT !.st = "listed", !.state = "pending"]
                          ELSE NoForward]
  /\ operation = Free
  /\ sessions = 0
  /\ returns = (MachineFwd \cap Outbound # {})
  /\ running = "prepared"
  /\ conn = [c \in Conns |-> Ended]

FwdStep ==
  \/ \E a \in FwdAgents \cup {"none"} : ReadyChanges(a)
  \/ SupTop \/ SupEntries \/ SupEach \/ SupChanged \/ SupChecked
  \/ Activate \/ ShutdownCancels \/ ShutdownCloses
  \/ \E f \in SessionFwd : OpenBuilds(f) \/ OpenFails(f) \/ OpenLists(f) \/ OpenApplies(f)
                                 \/ RemoveStops(f) \/ RemoveDone(f)
  \/ \E f \in Fwd : \/ ListenTop(f) \/ ListenWakes(f) \/ ListenAnnounces(f) \/ ListenBound(f)
                    \/ ListenEnds(f) \/ ListenBacksOff(f) \/ ListenRetries(f) \/ ServeChanged(f)
  \/ \E c \in Conns : \/ ParkExpires(c) \/ HandleConnection(c) \/ ConnRelays(c) \/ ConnEnds(c)
                      \/ \E f \in Fwd : Accept(c, f) \/ HandleReturn(c, f)

FwdNext == FwdStep /\ UNCHANGED fwdScope

FwdSpec == FwdInit /\ [][FwdNext]_fwdVars

------------------------------------------------------------------------------

FwdTypeOK ==
  /\ table \in Availability /\ readyAgent \in FwdAgents \cup {"none"}
  /\ sup.pc \in {"top", "entries", "each", "idle", "check"}
  /\ \A f \in Fwd : /\ fwd[f].st \in {"absent", "opening", "listed", "removing"}
                    /\ fwd[f].avail \in Availability
                    /\ fwd[f].state \in {"pending", "active", "unsupported", "closed"}
  /\ sessions \in 0..fwdScope.limit
  /\ \A c \in Conns : conn[c].pc \in {"none", "parked", "spawned", "setup", "relay"}

\* Every listed forward has the availability of the table, except while the
\* supervisor is on its way through the entries or the forward is being
\* opened: a forward opened while the availability changes misses nothing.
\* (add_session, set_agent_availability)
EntriesFollowTable ==
  \A f \in Listed :
    operation # <<"apply", f>> /\ sup.pc \notin {"entries", "each"}
      => fwd[f].avail = table

\* A connection that is not cut belongs to the agent that is available now.
\* (set_availability, activate_guest_listener, connection_lifetime)
ConnectionsOfThisAgent ==
  \A c \in Conns :
    conn[c].pc \in {"setup", "relay"} /\ ~conn[c].cut
      => /\ running = "running"
         /\ fwd[conn[c].fwd].avail = conn[c].to /\ Available(conn[c].to)

\* An outbound forward that shows active has its listener in the agent that is
\* available now; an inbound one shows what its availability means.
ShownStateIsTrue ==
  running = "running" =>
    /\ \A f \in Outbound \cap Listed : fwd[f].state = "active"
         => fwd[f].task \in {"bound", "end"} /\ fwd[f].avail = fwd[f].agent
    /\ \A f \in Inbound \cap Listed : fwd[f].state = shown(f, fwd[f].avail)

\* The return port is served exactly while an outbound forward is listed.
ReturnPortWithOutbound ==
  operation = Free /\ running # "closed" => (returns <=> Listed \cap Outbound # {})

\* The permits in use are those of the forwards there are.
PermitsAreHeld ==
  running = "running" => sessions = Cardinality({f \in SessionFwd : fwd[f].st # "absent"})

\* A parked connection does not wait for its time to be over while the agent is
\* available: the change that made it available is seen. (serve, admit)
ParkedIsServed ==
  \A c \in Conns :
    (conn[c].pc = "parked" /\ Available(fwd[conn[c].fwd].avail))
      ~> (conn[c].pc # "parked" \/ ~Available(fwd[conn[c].fwd].avail) \/ running # "running")

\* Once the shutdown has begun the table is emptied, whatever operation is
\* under way, and nothing is opened afterwards.
ShutdownEmpties ==
  (running = "stopping") ~> [](running = "closed" /\ Listed = {} /\ operation = Free)

\* The forward table keeps its promises while forwards come and go and agents are
\* replaced: entries follow the availability of their half, no connection outlives
\* the agent it was set up with, states shown are true, the return port exists
\* exactly with outbound forwards, and capacity comes back exactly once.
ForwardsSafe ==
  /\ FwdTypeOK /\ EntriesFollowTable /\ ConnectionsOfThisAgent
  /\ ShownStateIsTrue /\ ReturnPortWithOutbound /\ PermitsAreHeld

\* Parked connections are served once the guest half is there, and a shutdown
\* empties the table, under fairness of the forward tasks.
ForwardsSettle == ParkedIsServed /\ ShutdownEmpties

=============================================================================
