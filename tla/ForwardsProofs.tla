---------------------------- MODULE ForwardsProofs ----------------------------
(***************************************************************************)
(* Proofs about the forward table for any forwards, agents, connections,   *)
(* limits and scopes: ForwardsSafe is an invariant.                         *)
(***************************************************************************)
EXTENDS Forwards, FiniteSetTheorems, TLAPS

Identity == FwdAgents \cup {"none"}
Listening == {"announce", "listen", "bound", "end", "backoff"}

Entries ==
  [st : {"absent", "opening", "listed", "removing"}, avail : Availability,
   state : {"pending", "active", "unsupported", "closed"}, gen : BOOLEAN, fresh : BOOLEAN,
   task : {"none", "top", "wait"} \cup Listening, agent : Identity]

Connections == [pc : {"none", "parked", "spawned", "setup", "relay"}, fwd : Fwd \cup {"none"},
                to : Availability, cut : BOOLEAN]

Supervisors == [pc : {"top", "entries", "each", "idle", "check"}, id : Identity,
                fresh : BOOLEAN, todo : SUBSET Fwd, obs : [id : Identity, served : BOOLEAN]]

-----------------------------------------------------------------------------
(* The inductive invariant: what holds of one entry e of the forward f, of   *)
(* one connection r, and of the table.                                       *)

\* The entry has the availability of the table unless somebody is about to
\* give it: the supervisor, with f still to do, or the opening.
Follows(f, e) ==
  /\ e.st = "listed" /\ operation # <<"apply", f>>
  /\ sup.pc # "entries" /\ (sup.pc = "each" => f \notin sup.todo)
  => e.avail = table

\* A generation is that of an available agent, and ends with the table.
HasGeneration(e) == e.gen => Available(e.avail) /\ TokenLives

Shows(f, e) ==
  /\ e.task \in Listening => e.agent \in FwdAgents
  /\ f \in Outbound /\ e.state = "active"
       => e.task \in {"bound", "end"} /\ e.avail = e.agent
  /\ f \in Outbound /\ e.gen => e.task # "none"
  /\ f \in Inbound /\ e.st \in {"opening", "listed"} => e.state = shown(f, e.avail)

\* Where the entry is while somebody holds the operation lock for it; its task
\* is started with the last step of the opening.
Placed(f, e) ==
  /\ e.task # "none" => e.st \in {"listed", "removing"} /\ operation # <<"apply", f>>
  /\ operation = <<"build", f>> => e.st = "opening"
  /\ operation = <<"apply", f>> => e.st = "listed"
  /\ operation = <<"remove", f>> => e.st = "removing"
  /\ running = "prepared" => /\ operation = Free /\ e.task = "none"
                             /\ e.st = IF f \in MachineFwd THEN "listed" ELSE "absent"
  /\ running = "closed" => e.st = "absent"

Sound(f, e) == e \in Entries /\ Follows(f, e) /\ HasGeneration(e) /\ Shows(f, e) /\ Placed(f, e)

\* A connection belongs to a forward whose task runs, and if it is not cut, to
\* the agent that is available now.
Served(r) ==
  /\ r \in Connections
  /\ r.pc # "none" => r.fwd \in Fwd /\ fwd[r.fwd].task # "none" /\ running # "prepared"
  /\ r.pc \in {"setup", "relay"} /\ ~r.cut
       => running = "running" /\ fwd[r.fwd].avail = r.to /\ Available(r.to)

TableTyped ==
  /\ fwdScope \in FwdScopes /\ readyAgent \in Identity /\ table \in Availability
  /\ sup \in Supervisors /\ sessions \in 0 .. fwdScope.limit /\ returns \in BOOLEAN
  /\ running \in {"prepared", "running", "stopping", "closed"}
  /\ operation = Free \/ \E s \in {"build", "apply", "remove"}, f \in SessionFwd : operation = <<s, f>>

AllSound == DOMAIN fwd = Fwd /\ fwd = [f \in Fwd |-> fwd[f]] /\ \A f \in Fwd : Sound(f, fwd[f])
AllServed == DOMAIN conn = Conns /\ conn = [c \in Conns |-> conn[c]] /\ \A c \in Conns : Served(conn[c])

\* The return port also stays for an outbound forward that is being removed.
PortServed == returns <=> \E f \in Outbound : fwd[f].st = "listed" \/ operation = <<"remove", f>>

Held == {f \in SessionFwd : fwd[f].st # "absent"}
Permits == running # "closed" => sessions = Cardinality(Held)

FwdInv == TableTyped /\ AllSound /\ AllServed /\ PortServed /\ Permits

-----------------------------------------------------------------------------

\* The invariant says what the runs check.
LEMMA InvIsSafe == ASSUME FwdInv PROVE ForwardsSafe
<1>1. \A f \in Fwd : Sound(f, fwd[f])
  BY Zenon DEF FwdInv, AllSound
<1>2. \A c \in Conns : Served(conn[c])
  BY Zenon DEF FwdInv, AllServed
<1>3. FwdTypeOK
  <2>1. \A f \in Fwd : fwd[f] \in Entries
    BY <1>1, Zenon DEF Sound
  <2>2. \A c \in Conns : conn[c] \in Connections
    BY <1>2, Zenon DEF Served
  <2> QED BY <2>1, <2>2, Zenon DEF FwdTypeOK, FwdInv, TableTyped, Identity, Supervisors, Entries, Connections
<1>4. EntriesFollowTable
  BY <1>1, Zenon DEF EntriesFollowTable, Listed, Sound, Follows
<1>5. ConnectionsOfThisAgent
  BY <1>2, Zenon DEF ConnectionsOfThisAgent, Served
<1>6. ShownStateIsTrue
  BY <1>1, Zenon DEF ShownStateIsTrue, Sound, Shows, Listed, Fwd
<1>7. ReturnPortWithOutbound
  <2>1. ASSUME operation = Free PROVE returns <=> \E f \in Outbound : fwd[f].st = "listed"
    BY <2>1, Zenon DEF FwdInv, PortServed, Free
  <2>2. (\E f \in Outbound : fwd[f].st = "listed") <=> Listed \cap Outbound # {}
    BY Zenon DEF Listed, Fwd
  <2> QED BY <2>1, <2>2, Zenon DEF ReturnPortWithOutbound
<1>8. PermitsAreHeld
  BY Zenon DEF PermitsAreHeld, FwdInv, Permits, Held
<1> QED BY <1>3, <1>4, <1>5, <1>6, <1>7, <1>8, Zenon DEF ForwardsSafe

\* The table starts with the forwards of the machine, which are unknown yet.
LEMMA InitInv == ASSUME FwdInit PROVE FwdInv
<1>1. TableTyped
  BY FwdAssumption DEF FwdInit, TableTyped, Identity, Availability, Supervisors
<1>2. AllSound
  <2>1. DOMAIN fwd = Fwd /\ fwd = [f \in Fwd |-> fwd[f]]
    BY Zenon DEF FwdInit
  <2>2. ASSUME NEW f \in Fwd PROVE Sound(f, fwd[f])
    <3>1. fwd[f] \in Entries /\ fwd[f].task = "none" /\ fwd[f].avail = table /\ ~fwd[f].gen
      BY Zenon DEF FwdInit, Entries, Identity, Availability, NoForward
    <3>2. fwd[f].st = "listed" => fwd[f].state = "pending"
      BY Zenon DEF FwdInit, NoForward
    <3>3. fwd[f].st \in {"listed", "absent"} /\ (fwd[f].st = "absent" => fwd[f].state = "closed")
      BY Zenon DEF FwdInit, NoForward
    <3>4. shown(f, "unknown") = "pending"
      BY Zenon DEF shown
    <3>5. operation = Free /\ running = "prepared" /\ table = "unknown"
      BY Zenon DEF FwdInit
    <3>6. fwd[f].st = IF f \in MachineFwd THEN "listed" ELSE "absent"
      BY Zenon DEF FwdInit, NoForward
    <3> QED BY <3>1, <3>2, <3>3, <3>4, <3>5, <3>6, Zenon DEF Sound, Follows, HasGeneration, Shows, Placed, Free, Listening
  <2> QED BY <2>1, <2>2, Zenon DEF AllSound
<1>3. AllServed
  BY Zenon DEF AllServed, Served, FwdInit, Ended, Connections, Availability
<1>4. PortServed
  <2>1. \A f \in Outbound : fwd[f].st = "listed" <=> f \in MachineFwd
    BY Zenon DEF FwdInit, Fwd, NoForward
  <2>2. operation = Free /\ returns = (MachineFwd \cap Outbound # {})
    BY Zenon DEF FwdInit
  <2>3. returns <=> \E f \in Outbound : f \in MachineFwd
    BY <2>2, Zenon
  <2> QED BY <2>1, <2>2, <2>3, Zenon DEF PortServed, Free
<1>5. Permits
  <2>1. Held = {}
    BY FwdAssumption, Zenon DEF FwdInit, Held, SessionFwd, MachineFwd, Fwd, NoForward
  <2> QED BY <2>1, FS_EmptySet, Zenon DEF Permits, FwdInit
<1> QED BY <1>1, <1>2, <1>3, <1>4, <1>5, Zenon DEF FwdInv

-----------------------------------------------------------------------------
(* Steps of one kind. *)

\* A step of the supervisor or of the ready agent leaves the entries alone.
LEMMA SupervisorOnly ==
  ASSUME FwdInv, UNCHANGED <<fwdScope, fwd, operation, sessions, returns, running, conn>>,
         readyAgent' \in Identity, table' \in Availability, sup' \in Supervisors,
         \A f \in Fwd : Follows(f, fwd[f])'
  PROVE  FwdInv'
<1>1. TableTyped'
  BY Zenon DEF FwdInv, TableTyped, SessionFwd, MachineFwd
<1>2. AllSound'
  BY DEF FwdInv, AllSound, Sound, HasGeneration, Shows, Placed, TokenLives, MachineFwd
<1>3. AllServed' /\ PortServed' /\ Permits'
  BY Zenon DEF FwdInv, AllServed, Served, PortServed, Permits, Held, SessionFwd, MachineFwd
<1> QED BY <1>1, <1>2, <1>3, Zenon DEF FwdInv

\* One entry changes that stays where it is in the list.
LEMMA OneEntry ==
  ASSUME FwdInv, UNCHANGED <<fwdScope, readyAgent, table, sup, operation, sessions, returns, running>>,
         NEW f \in Fwd, NEW e, Sound(f, e), e.st = fwd[f].st,
         fwd' = [fwd EXCEPT ![f] = e], AllServed'
  PROVE  FwdInv'
<1>1. DOMAIN fwd = Fwd /\ fwd' = [g \in Fwd |-> IF g = f THEN e ELSE fwd[g]]
  BY Zenon DEF FwdInv, AllSound
<1>2. TableTyped'
  BY Zenon DEF FwdInv, TableTyped, SessionFwd, MachineFwd
<1>3. AllSound'
  <2>1. ASSUME NEW g \in Fwd PROVE Sound(g, fwd'[g])
    BY <1>1, Zenon DEF FwdInv, AllSound
  <2>2. ASSUME NEW g \in Fwd PROVE Sound(g, fwd[g])'
    BY <2>1 DEF Sound, Follows, HasGeneration, Shows, Placed, TokenLives, MachineFwd
  <2> QED BY <1>1, <2>2, Zenon DEF AllSound
<1>4. \A g \in Fwd : fwd'[g].st = fwd[g].st
  BY <1>1, Zenon
<1>5. PortServed'
  BY <1>4, Zenon DEF FwdInv, PortServed, Fwd
<1>6. SessionFwd \subseteq Fwd
  BY FwdAssumption, Zenon DEF FwdInv, TableTyped, SessionFwd, Fwd
<1>7. Permits'
  BY <1>4, <1>6, Zenon DEF FwdInv, Permits, Held, SessionFwd, MachineFwd
<1> QED BY <1>2, <1>3, <1>5, <1>7, Zenon DEF FwdInv

\* Its connections stay when the availability does and the task goes on.
LEMMA EntryKept ==
  ASSUME FwdInv, NEW f \in Fwd, NEW e, Sound(f, e), e.st = fwd[f].st,
         e.avail = fwd[f].avail, e.task # "none", Entry(f, e), RestOf, UNCHANGED fwdScope
  PROVE  FwdInv'
<1>1. /\ fwd' = [fwd EXCEPT ![f] = e]
      /\ UNCHANGED <<readyAgent, table, sup, operation, sessions, returns, running, conn>>
  BY Zenon DEF Entry, RestOf
<1>2. \A g \in Fwd : fwd'[g].avail = fwd[g].avail /\ (fwd[g].task # "none" => fwd'[g].task # "none")
  BY <1>1, Zenon DEF FwdInv, AllSound
<1>3. \A c \in Conns : Served(conn[c])'
  BY <1>1, <1>2 DEF FwdInv, AllServed, Served, Connections
<1>4. AllServed'
  BY <1>1, <1>3, Zenon DEF FwdInv, AllServed
<1> QED BY <1>1, <1>4, OneEntry, Zenon

\* The end of a generation cuts the connections of its forward.
LEMMA CutServed ==
  ASSUME FwdInv, NEW f \in Fwd, NEW e, fwd' = [fwd EXCEPT ![f] = e], UNCHANGED running,
         fwd[f].task # "none" => e.task # "none", conn' = cut(f)
  PROVE  AllServed'
<1>1. \A g \in Fwd : /\ g # f => fwd'[g] = fwd[g]
                     /\ fwd[g].task # "none" => fwd'[g].task # "none"
  BY Zenon DEF FwdInv, AllSound
<1>2. conn' = [c \in Conns |-> conn'[c]] /\ DOMAIN conn' = Conns
  BY Zenon DEF cut
<1>3. ASSUME NEW c \in Conns PROVE Served(conn[c])'
  <2>1. Served(conn[c])
    BY Zenon DEF FwdInv, AllServed
  <2>2. CASE conn[c].fwd = f /\ conn[c].pc \in {"setup", "relay"}
    <3>1. conn'[c] = [conn[c] EXCEPT !.cut = TRUE]
      BY <2>2, Zenon DEF cut
    <3>2. conn'[c] \in Connections /\ conn'[c].cut /\ conn'[c].fwd = f /\ conn'[c].pc = conn[c].pc
      BY <2>1, <2>2, <3>1, Zenon DEF Served, Connections
    <3> QED BY <1>1, <2>1, <2>2, <3>2, Zenon DEF Served
  <2>3. CASE ~(conn[c].fwd = f /\ conn[c].pc \in {"setup", "relay"})
    <3>1. conn'[c] = conn[c]
      BY <2>3, Zenon DEF cut
    <3> QED BY <1>1, <2>1, <2>3, <3>1, Zenon DEF Served, Connections
  <2> QED BY <2>2, <2>3, Zenon
<1> QED BY <1>2, <1>3, Zenon DEF AllServed

\* When a generation ends with the change of the entry, its connections are cut.
LEMMA EntryReplaced ==
  ASSUME FwdInv, NEW f \in Fwd, NEW e, Sound(f, e), e.st = fwd[f].st, e.task # "none",
         Replace(f, e, TRUE), RestOf, UNCHANGED fwdScope
  PROVE  FwdInv'
<1>1. /\ fwd' = [fwd EXCEPT ![f] = e] /\ conn' = cut(f)
      /\ UNCHANGED <<readyAgent, table, sup, operation, sessions, returns, running>>
  BY Zenon DEF Replace, RestOf
<1> QED BY <1>1, OneEntry, CutServed, Zenon

\* One connection changes.
LEMMA OneConnection ==
  ASSUME FwdInv, NEW c \in Conns, NEW r, Served(r), SetConn(c, r), RestOf, UNCHANGED fwdScope
  PROVE  FwdInv'
<1>1. /\ conn' = [conn EXCEPT ![c] = r]
      /\ UNCHANGED <<fwd, readyAgent, table, sup, operation, sessions, returns, running>>
  BY Zenon DEF SetConn, RestOf
<1>2. TableTyped' /\ PortServed' /\ Permits'
  BY <1>1, Zenon DEF FwdInv, TableTyped, PortServed, Permits, Held, SessionFwd, MachineFwd
<1>3. AllSound'
  BY <1>1 DEF FwdInv, AllSound, Sound, Follows, HasGeneration, Shows, Placed, TokenLives, MachineFwd
<1>4. DOMAIN conn = Conns /\ conn' = [d \in Conns |-> IF d = c THEN r ELSE conn[d]]
  BY <1>1, Zenon DEF FwdInv, AllServed
<1>5. \A d \in Conns : Served(conn'[d])
  BY <1>4, Zenon DEF FwdInv, AllServed
<1>6. \A d \in Conns : Served(conn[d])'
  BY <1>1, <1>5, Zenon DEF Served
<1>7. AllServed'
  BY <1>4, <1>6, Zenon DEF AllServed
<1> QED BY <1>2, <1>3, <1>7, Zenon DEF FwdInv

\* A connection that has ended makes no claim.
LEMMA EndedServed == Served(Ended)
BY Zenon DEF Served, Ended, Connections, Availability

-----------------------------------------------------------------------------
(* The supervisor. *)

\* Another agent is ready, or none: the supervisor is told.
LEMMA ReadyChangesStep ==
  ASSUME FwdInv, UNCHANGED fwdScope, NEW a \in FwdAgents \cup {"none"}, ReadyChanges(a)
  PROVE  FwdInv'
<1>1. /\ readyAgent' = a /\ sup' = [sup EXCEPT !.fresh = TRUE]
      /\ UNCHANGED <<table, fwd, operation, sessions, returns, running, conn>>
  BY Zenon DEF ReadyChanges
<1>2. sup \in Supervisors /\ table \in Availability
  BY Zenon DEF FwdInv, TableTyped
<1>3. sup' \in Supervisors /\ sup'.pc = sup.pc /\ sup'.todo = sup.todo
  BY <1>1, <1>2, Zenon DEF Supervisors
<1>4. \A f \in Fwd : Follows(f, fwd[f])'
  BY <1>1, <1>3, Zenon DEF FwdInv, AllSound, Sound, Follows
<1> QED BY <1>1, <1>2, <1>3, <1>4, SupervisorOnly, Zenon DEF Identity

\* The observation of an identity says what is available.
LEMMA AvailabilityTyped ==
  ASSUME NEW obs, NEW id \in Identity PROVE availability(obs, id) \in Availability
BY Zenon DEF availability, Identity, Availability

\* The table's availability changes only on the way to the entries.
LEMMA SupTopStep == ASSUME FwdInv, UNCHANGED fwdScope, SupTop PROVE FwdInv'
<1>1. PICK a : a = availability(sup.obs, readyAgent)
  BY Zenon
<1>2. PICK p : p = IF table = a THEN SupNext(readyAgent) ELSE "entries"
  BY Zenon
<1>3. /\ table' = a /\ sup' = [sup EXCEPT !.id = readyAgent, !.fresh = FALSE, !.pc = p]
      /\ sup.pc = "top"
      /\ UNCHANGED <<readyAgent, fwd, operation, sessions, returns, running, conn>>
  BY <1>1, <1>2, Zenon DEF SupTop
<1>4. sup \in Supervisors /\ readyAgent \in Identity
  BY Zenon DEF FwdInv, TableTyped
<1>5. a \in Availability /\ p \in {"entries", "idle", "check"} /\ (p # "entries" => table' = table)
  BY <1>1, <1>2, <1>3, <1>4, AvailabilityTyped, Zenon DEF SupNext
<1>6. sup' \in Supervisors /\ sup'.pc = p
  BY <1>3, <1>4, <1>5, Zenon DEF Supervisors
<1>7. \A f \in Fwd : Follows(f, fwd[f])'
  BY <1>3, <1>5, <1>6, Zenon DEF FwdInv, AllSound, Sound, Follows
<1> QED BY <1>3, <1>4, <1>5, <1>6, <1>7, SupervisorOnly, Zenon

\* The entries that are listed now are to be done.
LEMMA SupEntriesStep == ASSUME FwdInv, UNCHANGED fwdScope, SupEntries PROVE FwdInv'
<1>1. /\ sup' = [sup EXCEPT !.todo = Listed, !.pc = "each"]
      /\ UNCHANGED <<readyAgent, table, fwd, operation, sessions, returns, running, conn>>
  BY Zenon DEF SupEntries
<1>2. sup \in Supervisors /\ readyAgent \in Identity /\ table \in Availability
  BY Zenon DEF FwdInv, TableTyped
<1>3. sup' \in Supervisors /\ sup'.pc = "each" /\ sup'.todo = Listed
  BY <1>1, <1>2, Zenon DEF Supervisors, Listed
<1>4. \A f \in Fwd : Follows(f, fwd[f])'
  BY <1>1, <1>3, Zenon DEF Follows, Listed
<1> QED BY <1>1, <1>2, <1>3, <1>4, SupervisorOnly, Zenon

\* The supervisor looks at the ready agent again.
LEMMA SupChangedStep == ASSUME FwdInv, UNCHANGED fwdScope, SupChanged PROVE FwdInv'
<1>1. /\ sup' = [sup EXCEPT !.pc = "top"] /\ sup.pc \in {"idle", "check"}
      /\ UNCHANGED <<readyAgent, table, fwd, operation, sessions, returns, running, conn>>
  BY Zenon DEF SupChanged
<1>2. sup \in Supervisors /\ readyAgent \in Identity /\ table \in Availability
  BY Zenon DEF FwdInv, TableTyped
<1>3. sup' \in Supervisors /\ sup'.pc = "top"
  BY <1>1, <1>2, Zenon DEF Supervisors
<1>4. \A f \in Fwd : Follows(f, fwd[f])'
  BY <1>1, <1>3, Zenon DEF FwdInv, AllSound, Sound, Follows
<1> QED BY <1>1, <1>2, <1>3, <1>4, SupervisorOnly, Zenon

\* The answer of the health check is kept for the identity it was asked for.
LEMMA SupCheckedStep == ASSUME FwdInv, UNCHANGED fwdScope, SupChecked PROVE FwdInv'
<1>1. PICK o : o = IF readyAgent = sup.id THEN [id |-> sup.id, served |-> sup.id \in Serves]
                                          ELSE sup.obs
  BY Zenon
<1>2. /\ sup' = [sup EXCEPT !.pc = "top", !.obs = o] /\ sup.pc = "check"
      /\ UNCHANGED <<readyAgent, table, fwd, operation, sessions, returns, running, conn>>
  BY <1>1, Zenon DEF SupChecked
<1>3. sup \in Supervisors /\ readyAgent \in Identity /\ table \in Availability
  BY Zenon DEF FwdInv, TableTyped
<1>4. o \in [id : Identity, served : BOOLEAN]
  BY <1>1, <1>3 DEF Supervisors
<1>5. sup' \in Supervisors /\ sup'.pc = "top"
  BY <1>2, <1>3, <1>4, Zenon DEF Supervisors
<1>6. \A f \in Fwd : Follows(f, fwd[f])'
  BY <1>2, <1>5, Zenon DEF FwdInv, AllSound, Sound, Follows
<1> QED BY <1>2, <1>3, <1>5, <1>6, SupervisorOnly, Zenon

\* set_availability gives an entry the availability a, and a state to match.
LEMMA Availed ==
  ASSUME NEW f \in Fwd, NEW e \in Entries, NEW a \in Availability
  PROVE  LET n == set_availability(f, e, a) IN
         /\ n \in Entries /\ n.avail = a /\ n.st = e.st /\ n.task = e.task /\ n.agent = e.agent
         /\ HasGeneration(e) => HasGeneration(n)
         /\ Shows(f, e) => Shows(f, n)
<1>1. CASE e.avail = a
  BY <1>1, Zenon DEF set_availability
<1>2. CASE e.avail # a
  <2>1. shown(f, a) \in {"pending", "active", "unsupported"} /\ (f \in Outbound => shown(f, a) # "active")
    BY FwdAssumption, Zenon DEF shown
  <2>2. PICK g \in BOOLEAN : g = (f \in Inbound /\ Available(a) /\ TokenLives)
    BY Zenon
  <2>3. PICK s : s = shown(f, a)
    BY Zenon
  <2>4. set_availability(f, e, a) = [e EXCEPT !.avail = a, !.fresh = TRUE, !.state = s, !.gen = g]
    BY <1>2, <2>2, <2>3, Zenon DEF set_availability
  <2>5. PICK n : n = [e EXCEPT !.avail = a, !.fresh = TRUE, !.state = s, !.gen = g]
    BY Zenon
  <2>6. /\ n \in Entries /\ n.avail = a /\ n.st = e.st /\ n.task = e.task /\ n.agent = e.agent
        /\ n.state = s /\ n.gen = g
    BY <2>1, <2>3, <2>5, Zenon DEF Entries
  <2>7. HasGeneration(n)
    BY <2>2, <2>6, Zenon DEF HasGeneration
  <2>8. Shows(f, e) => Shows(f, n)
    BY <2>1, <2>2, <2>3, <2>6, FwdAssumption, Zenon DEF Shows
  <2> QED BY <2>4, <2>5, <2>6, <2>7, <2>8, Zenon
<1> QED BY <1>1, <1>2, Zenon

\* One entry after the other takes the table's availability.
LEMMA SupEachStep == ASSUME FwdInv, UNCHANGED fwdScope, SupEach PROVE FwdInv'
<1>1. /\ sup.pc = "each" /\ UNCHANGED <<readyAgent, table, operation, sessions, returns, running>>
  BY Zenon DEF SupEach
<1>2. sup \in Supervisors /\ readyAgent \in Identity /\ table \in Availability
  BY Zenon DEF FwdInv, TableTyped
<1>3. CASE sup.todo = {}
  <2>1. sup' = [sup EXCEPT !.pc = SupNext(sup.id)] /\ UNCHANGED <<fwd, conn>>
    BY <1>3, Zenon DEF SupEach
  <2>2. SupNext(sup.id) \in {"idle", "check"}
    BY Zenon DEF SupNext
  <2>3. sup' \in Supervisors /\ sup'.pc \in {"idle", "check"}
    BY <1>2, <2>1, <2>2, Zenon DEF Supervisors
  <2>4. \A f \in Fwd : Follows(f, fwd[f])'
    BY <1>1, <1>3, <2>1, <2>3, Zenon DEF FwdInv, AllSound, Sound, Follows
  <2> QED BY <1>1, <1>2, <2>1, <2>3, <2>4, SupervisorOnly, Zenon
<1>4. CASE sup.todo # {}
  <2>1. PICK f \in sup.todo :
          /\ sup' = [sup EXCEPT !.todo = sup.todo \ {f}]
          /\ IF fwd[f].st = "listed" THEN Apply(f, table) ELSE UNCHANGED <<fwd, conn>>
    BY <1>4, Zenon DEF SupEach
  <2>2. f \in Fwd /\ sup' \in Supervisors /\ sup'.pc = "each" /\ sup'.todo = sup.todo \ {f}
    BY <1>1, <1>2, <2>1, Zenon DEF Supervisors
  <2>3. CASE fwd[f].st # "listed"
    <3>1. UNCHANGED <<fwd, conn>>
      BY <2>1, <2>3, Zenon
    <3>2. \A g \in Fwd : Follows(g, fwd[g])'
      BY <1>1, <2>2, <2>3, <3>1, Zenon DEF FwdInv, AllSound, Sound, Follows
    <3> QED BY <1>1, <1>2, <2>2, <3>1, <3>2, SupervisorOnly, Zenon
  <2>4. CASE fwd[f].st = "listed"
    <3>1. PICK e : e = set_availability(f, fwd[f], table)
      BY Zenon
    <3>2. fwd' = [fwd EXCEPT ![f] = e] /\ conn' = IF fwd[f].avail # table THEN cut(f) ELSE conn
      BY <2>1, <2>4, <3>1, Zenon DEF Apply, Replace
    <3>3. Sound(f, fwd[f])
      BY <2>2, Zenon DEF FwdInv, AllSound
    <3>4. /\ e \in Entries /\ HasGeneration(e) /\ Shows(f, e)
          /\ e.avail = table /\ e.st = fwd[f].st /\ e.task = fwd[f].task
      BY <1>2, <2>2, <3>1, <3>3, Availed DEF Sound
    <3>5. DOMAIN fwd = Fwd /\ fwd' = [g \in Fwd |-> IF g = f THEN e ELSE fwd[g]]
      BY <3>2, Zenon DEF FwdInv, AllSound
    <3>6. AllServed'
      <4>1. CASE fwd[f].avail # table
        BY <1>1, <2>2, <3>2, <3>4, <4>1, CutServed, Zenon
      <4>2. CASE fwd[f].avail = table
        <5>1. e = fwd[f] /\ conn' = conn
          BY <3>1, <3>2, <4>2, Zenon DEF set_availability
        <5>2. fwd' = fwd
          BY <3>5, <5>1, Zenon DEF FwdInv, AllSound
        <5> QED BY <1>1, <5>1, <5>2, Zenon DEF FwdInv, AllServed, Served
      <4> QED BY <4>1, <4>2, Zenon
    <3>7. AllSound'
      <4>1. ASSUME NEW g \in Fwd, g # f PROVE Sound(g, fwd[g])'
        BY <1>1, <2>2, <3>5, <4>1, Zenon DEF FwdInv, AllSound, Sound, Follows, HasGeneration, Shows, Placed, TokenLives, MachineFwd
      <4>2. Sound(f, fwd[f])'
        BY <1>1, <2>2, <3>3, <3>4, <3>5 DEF Sound, Follows, HasGeneration, Shows, Placed, TokenLives, MachineFwd
      <4> QED BY <3>5, <4>1, <4>2, Zenon DEF AllSound
    <3>8. \A g \in Fwd : fwd'[g].st = fwd[g].st
      BY <3>4, <3>5, Zenon
    <3>9. SessionFwd \subseteq Fwd
      BY FwdAssumption, Zenon DEF FwdInv, TableTyped, SessionFwd, Fwd
    <3>10. PortServed' /\ Permits'
      BY <1>1, <3>8, <3>9, Zenon DEF FwdInv, PortServed, Permits, Held, SessionFwd, MachineFwd, Fwd
    <3>11. TableTyped'
      BY <1>1, <2>2, Zenon DEF FwdInv, TableTyped, SessionFwd, MachineFwd
    <3> QED BY <3>6, <3>7, <3>10, <3>11, Zenon DEF FwdInv
  <2> QED BY <2>3, <2>4, Zenon
<1> QED BY <1>3, <1>4, Zenon

-----------------------------------------------------------------------------
(* Openings, removals, the start and the end. *)

\* The tasks of the machine's forwards are started.
LEMMA ActivateStep == ASSUME FwdInv, UNCHANGED fwdScope, Activate PROVE FwdInv'
<1>1. /\ running = "prepared" /\ running' = "running" /\ operation = Free
      /\ UNCHANGED <<readyAgent, table, sup, operation, sessions, returns, conn>>
      /\ fwd' = [f \in Fwd |-> IF f \in MachineFwd THEN [fwd[f] EXCEPT !.task = "top"] ELSE fwd[f]]
  BY Zenon DEF Activate
<1>2. \A f \in Fwd : Sound(f, fwd[f]) /\ fwd[f] \in Entries
  BY Zenon DEF FwdInv, AllSound, Sound
<1>3. ASSUME NEW f \in Fwd PROVE Sound(f, fwd[f])' /\ fwd'[f].st = fwd[f].st
  <2>1. CASE f \notin MachineFwd
    BY <1>1, <1>2, <2>1, Zenon DEF Sound, Follows, HasGeneration, Shows, Placed, TokenLives, MachineFwd
  <2>2. CASE f \in MachineFwd
    <3>1. fwd'[f] = [fwd[f] EXCEPT !.task = "top"]
      BY <1>1, <2>2, Zenon
    <3>2. /\ fwd'[f] \in Entries /\ fwd'[f].task = "top" /\ fwd'[f].st = fwd[f].st
          /\ fwd'[f].avail = fwd[f].avail /\ fwd'[f].state = fwd[f].state
          /\ fwd'[f].agent = fwd[f].agent /\ fwd'[f].gen = fwd[f].gen
      BY <1>2, <3>1, Zenon DEF Entries
    <3>3. fwd[f].task = "none" /\ fwd[f].st = "listed"
      BY <1>1, <1>2, <2>2, Zenon DEF Sound, Placed
    <3>4. Follows(f, fwd[f])' /\ HasGeneration(fwd[f])'
      BY <1>1, <1>2, <3>2, Zenon DEF Sound, Follows, HasGeneration, TokenLives
    <3>5. Shows(f, fwd[f])'
      BY <1>2, <3>2, <3>3, Zenon DEF Sound, Shows, Listening
    <3>6. Placed(f, fwd[f])'
      BY <1>1, <3>2, <3>3, Zenon DEF Placed, Free
    <3> QED BY <3>2, <3>4, <3>5, <3>6, Zenon DEF Sound
  <2> QED BY <2>1, <2>2, Zenon
<1>4. AllSound'
  BY <1>1, <1>3, Zenon DEF AllSound
<1>5. \A f \in Fwd : fwd'[f].avail = fwd[f].avail /\ (fwd[f].task # "none" => fwd'[f].task # "none")
  BY <1>1, <1>2, Zenon DEF Entries
<1>6. AllServed'
  BY <1>1, <1>5, Zenon DEF FwdInv, AllServed, Served, Connections
<1>7. SessionFwd \subseteq Fwd
  BY FwdAssumption, Zenon DEF FwdInv, TableTyped, SessionFwd, Fwd
<1>8. PortServed' /\ Permits'
  BY <1>1, <1>3, <1>7, Zenon DEF FwdInv, PortServed, Permits, Held, SessionFwd, MachineFwd, Fwd
<1>9. TableTyped'
  BY <1>1, Zenon DEF FwdInv, TableTyped
<1> QED BY <1>4, <1>6, <1>8, <1>9, Zenon DEF FwdInv

\* The shutdown cancels every token: no generation is left.
LEMMA ShutdownCancelsStep == ASSUME FwdInv, UNCHANGED fwdScope, ShutdownCancels PROVE FwdInv'
<1>1. /\ running \in {"prepared", "running"} /\ running' = "stopping"
      /\ UNCHANGED <<readyAgent, table, sup, operation, sessions, returns>>
      /\ fwd' = [f \in Fwd |-> [fwd[f] EXCEPT !.gen = FALSE]]
      /\ conn' = [c \in Conns |-> IF conn[c].pc \in {"setup", "relay"}
                                  THEN [conn[c] EXCEPT !.cut = TRUE] ELSE conn[c]]
  BY Zenon DEF ShutdownCancels
<1>2. \A f \in Fwd : Sound(f, fwd[f]) /\ fwd[f] \in Entries
  BY Zenon DEF FwdInv, AllSound, Sound
<1>3. \A f \in Fwd :
         /\ fwd'[f] \in Entries /\ ~fwd'[f].gen /\ fwd'[f].task = fwd[f].task /\ fwd'[f].st = fwd[f].st
         /\ fwd'[f].avail = fwd[f].avail /\ fwd'[f].state = fwd[f].state /\ fwd'[f].agent = fwd[f].agent
  BY <1>1, <1>2, Zenon DEF Entries
<1>4. ASSUME NEW f \in Fwd PROVE Sound(f, fwd[f])'
  BY <1>1, <1>2, <1>3 DEF Sound, Follows, HasGeneration, Shows, Placed
<1>5. AllSound'
  BY <1>1, <1>4, Zenon DEF AllSound
<1>6. ASSUME NEW c \in Conns PROVE Served(conn[c])'
  <2>1. Served(conn[c])
    BY Zenon DEF FwdInv, AllServed
  <2>2. CASE conn[c].pc \in {"setup", "relay"}
    <3>1. conn'[c] = [conn[c] EXCEPT !.cut = TRUE]
      BY <1>1, <2>2, Zenon
    <3>2. /\ conn'[c] \in Connections /\ conn'[c].cut /\ conn'[c].fwd = conn[c].fwd
          /\ conn'[c].pc = conn[c].pc
      BY <2>1, <3>1, Zenon DEF Served, Connections
    <3> QED BY <1>1, <1>3, <2>1, <3>2 DEF Served
  <2>3. CASE conn[c].pc \notin {"setup", "relay"}
    <3>1. conn'[c] = conn[c]
      BY <1>1, <2>3, Zenon
    <3> QED BY <1>1, <1>3, <2>1, <2>3, <3>1 DEF Served
  <2> QED BY <2>2, <2>3, Zenon
<1>7. AllServed'
  BY <1>1, <1>6, Zenon DEF AllServed
<1>8. SessionFwd \subseteq Fwd
  BY FwdAssumption, Zenon DEF FwdInv, TableTyped, SessionFwd, Fwd
<1>9. PortServed' /\ Permits'
  BY <1>1, <1>3, <1>8, Zenon DEF FwdInv, PortServed, Permits, Held, SessionFwd, MachineFwd, Fwd
<1>10. TableTyped'
  BY <1>1, Zenon DEF FwdInv, TableTyped, SessionFwd, MachineFwd
<1> QED BY <1>5, <1>7, <1>9, <1>10, Zenon DEF FwdInv

\* With the lock, everything is taken down.
LEMMA ShutdownClosesStep == ASSUME FwdInv, UNCHANGED fwdScope, ShutdownCloses PROVE FwdInv'
<1>1. /\ running' = "closed" /\ operation = Free /\ ~returns'
      /\ UNCHANGED <<readyAgent, table, sup, operation, sessions>>
      /\ returns' \in BOOLEAN
      /\ fwd' = [f \in Fwd |-> NoForward] /\ conn' = [c \in Conns |-> Ended]
  BY Zenon DEF ShutdownCloses
<1>2. ASSUME NEW f \in Fwd PROVE Sound(f, NoForward)'
  <2>1. running' # "prepared" /\ operation' \notin {<<"build", f>>, <<"apply", f>>, <<"remove", f>>}
    BY <1>1, Zenon DEF Free
  <2>2. PICK e : e = NoForward
    BY Zenon
  <2>3. /\ e \in Entries /\ e.st = "absent" /\ ~e.gen /\ e.task = "none" /\ e.state = "closed"
    BY <2>2, Zenon DEF NoForward, Entries, Availability, Identity
  <2> QED BY <2>1, <2>2, <2>3, Zenon DEF Sound, Follows, HasGeneration, Shows, Placed, Listening, NoForward
<1>3. AllSound'
  BY <1>1, <1>2, Zenon DEF AllSound, NoForward
<1>4. AllServed'
  BY <1>1, Zenon DEF AllServed, Served, Ended, Connections, Availability
<1>5. \A f \in Fwd : fwd'[f].st = "absent"
  BY <1>1, Zenon DEF NoForward
<1>6. PortServed' /\ Permits'
  BY <1>1, <1>5, Zenon DEF PortServed, Permits, Fwd, Free
<1>7. TableTyped'
  BY <1>1, Zenon DEF FwdInv, TableTyped, SessionFwd, MachineFwd
<1> QED BY <1>3, <1>4, <1>6, <1>7, Zenon DEF FwdInv

\* The locks and stages of the operation lock that are about f.
Stages(f) == {Free, <<"build", f>>, <<"apply", f>>, <<"remove", f>>}

\* An operation on f changes the entry of f only.
LEMMA Operated ==
  ASSUME FwdInv, UNCHANGED <<fwdScope, readyAgent, table, sup, running>>,
         NEW f \in SessionFwd, NEW e, fwd' = [fwd EXCEPT ![f] = e], Sound(f, e)',
         operation \in Stages(f), operation' \in Stages(f),
         sessions' \in 0 .. fwdScope.limit, returns' \in BOOLEAN,
         AllServed', PortServed', Permits'
  PROVE  FwdInv'
<1>1. f \in Fwd
  BY FwdAssumption, Zenon DEF FwdInv, TableTyped, SessionFwd, Fwd
<1>2. DOMAIN fwd = Fwd /\ fwd' = [g \in Fwd |-> IF g = f THEN e ELSE fwd[g]]
  BY Zenon DEF FwdInv, AllSound
<1>3. TableTyped'
  <2>1. operation' = Free \/ \E s \in {"build", "apply", "remove"}, g \in SessionFwd : operation' = <<s, g>>
    BY Zenon DEF Stages
  <2> QED BY <2>1, Zenon DEF FwdInv, TableTyped, SessionFwd, MachineFwd
<1>4. ASSUME NEW g \in Fwd PROVE Sound(g, fwd[g])'
  <2>1. CASE g = f
    BY <1>2, <2>1, Zenon
  <2>2. CASE g # f
    <3>1. /\ operation \notin {<<"build", g>>, <<"apply", g>>, <<"remove", g>>}
          /\ operation' \notin {<<"build", g>>, <<"apply", g>>, <<"remove", g>>}
      BY <2>2 DEF Stages, Free
    <3>2. fwd'[g] = fwd[g] /\ Sound(g, fwd[g])
      BY <1>2, <2>2, Zenon DEF FwdInv, AllSound
    <3> QED BY <3>1, <3>2, SMTT(30) DEF Sound, Follows, HasGeneration, Shows, Placed, TokenLives, MachineFwd
  <2> QED BY <2>1, <2>2, Zenon
<1>5. AllSound'
  BY <1>2, <1>4, Zenon DEF AllSound
<1> QED BY <1>3, <1>5, Zenon DEF FwdInv

\* The permits there are, when one forward comes, goes, or stays.
LEMMA HeldCounts ==
  ASSUME FwdInv, UNCHANGED fwdScope, NEW f \in SessionFwd, NEW e, fwd' = [fwd EXCEPT ![f] = e]
  PROVE  /\ Cardinality(Held) \in Nat
         /\ fwd[f].st = "absent" /\ e.st # "absent" => Cardinality(Held') = Cardinality(Held) + 1
         /\ fwd[f].st # "absent" /\ e.st = "absent"
              => Cardinality(Held') = Cardinality(Held) - 1 /\ Cardinality(Held) >= 1
         /\ fwd[f].st # "absent" /\ e.st # "absent" => Held' = Held
<1>1. SessionFwd \subseteq Fwd /\ SessionFwd' = SessionFwd /\ IsFiniteSet(Fwd)
  BY FwdAssumption, Zenon DEF FwdInv, TableTyped, SessionFwd, MachineFwd, Fwd
<1>2. DOMAIN fwd = Fwd /\ \A g \in Fwd : fwd'[g] = IF g = f THEN e ELSE fwd[g]
  BY Zenon DEF FwdInv, AllSound
<1>3. IsFiniteSet(Held)
  BY <1>1, FS_Subset, Zenon DEF Held
<1>4. Cardinality(Held) \in Nat
  BY <1>3, FS_CardinalityType, Zenon
<1>5. ASSUME fwd[f].st = "absent", e.st # "absent"
      PROVE  Cardinality(Held') = Cardinality(Held) + 1
  <2>1. f \notin Held /\ Held' = Held \cup {f}
    BY <1>1, <1>2, <1>5, Zenon DEF Held
  <2> QED BY <1>3, <2>1, FS_AddElement, Zenon
<1>6. ASSUME fwd[f].st # "absent", e.st = "absent"
      PROVE  Cardinality(Held') = Cardinality(Held) - 1 /\ Cardinality(Held) >= 1
  <2>1. f \in Held /\ Held' = Held \ {f}
    BY <1>1, <1>2, <1>6, Zenon DEF Held
  <2>2. Cardinality(Held') = Cardinality(Held) - 1
    BY <1>3, <2>1, FS_RemoveElement, Zenon
  <2>3. Cardinality(Held) # 0
    BY <1>3, <2>1, FS_EmptySet, Zenon
  <2> QED BY <1>4, <2>2, <2>3
<1>7. ASSUME fwd[f].st # "absent", e.st # "absent" PROVE Held' = Held
  BY <1>1, <1>2, <1>7, Zenon DEF Held
<1> QED BY <1>4, <1>5, <1>6, <1>7, Zenon

\* The connections are served as before when the operation starts with a
\* forward without a task, and so without connections.
LEMMA OthersServed ==
  ASSUME FwdInv, UNCHANGED <<running, conn>>, NEW f \in Fwd, NEW e,
         fwd' = [fwd EXCEPT ![f] = e], fwd[f].task = "none"
  PROVE  AllServed'
<1>1. \A g \in Fwd : g # f => fwd'[g] = fwd[g]
  BY Zenon DEF FwdInv, AllSound
<1>2. \A c \in Conns : Served(conn[c])'
  BY <1>1 DEF FwdInv, AllServed, Served, Connections
<1> QED BY <1>2, Zenon DEF FwdInv, AllServed

\* The return port, when the operation neither lists nor removes a forward.
LEMMA PortKept ==
  ASSUME FwdInv, UNCHANGED returns, NEW f \in Fwd, NEW e, fwd' = [fwd EXCEPT ![f] = e],
         fwd[f].st = "listed" <=> e.st = "listed",
         \A g \in Fwd : operation # <<"remove", g>> /\ operation' # <<"remove", g>>
  PROVE  PortServed'
<1>1. \A g \in Fwd : fwd'[g].st = "listed" <=> fwd[g].st = "listed"
  BY Zenon DEF FwdInv, AllSound
<1> QED BY <1>1, Zenon DEF FwdInv, PortServed, Fwd

\* An opening takes a permit, and the entry is built as the table is now.
LEMMA OpenBuildsStep ==
  ASSUME FwdInv, UNCHANGED fwdScope, NEW f \in SessionFwd, OpenBuilds(f) PROVE FwdInv'
<1>1. PICK s : s = shown(f, table)
  BY Zenon
<1>2. PICK g \in BOOLEAN : g = (f \in Inbound /\ Available(table))
  BY Zenon
<1>3. PICK e : e = [NoForward EXCEPT !.st = "opening", !.avail = table, !.state = s, !.gen = g]
  BY Zenon
<1>4. /\ operation = Free /\ running = "running" /\ fwd[f].st = "absent"
      /\ sessions < fwdScope.limit /\ operation' = <<"build", f>> /\ sessions' = sessions + 1
      /\ fwd' = [fwd EXCEPT ![f] = e]
      /\ UNCHANGED <<readyAgent, table, sup, returns, running, conn>>
  BY <1>1, <1>2, <1>3, Zenon DEF OpenBuilds
<1>5. f \in Fwd /\ table \in Availability /\ sessions \in 0 .. fwdScope.limit /\ fwdScope.limit \in Nat
  BY FwdAssumption, Zenon DEF FwdInv, TableTyped, SessionFwd, Fwd
<1>6. s \in {"pending", "active", "unsupported"} /\ (f \in Outbound => s # "active")
  BY <1>1, FwdAssumption, Zenon DEF shown
<1>7. /\ e \in Entries /\ e.st = "opening" /\ e.avail = table /\ e.state = s /\ e.gen = g
      /\ e.task = "none"
  BY <1>3, <1>5, <1>6, Zenon DEF NoForward, Entries, Availability, Identity
<1>8. Sound(f, e)'
  <2>1. Follows(f, e)' /\ Placed(f, e)'
    BY <1>4, <1>7, Zenon DEF Follows, Placed
  <2>2. HasGeneration(e)'
    BY <1>2, <1>4, <1>7, Zenon DEF HasGeneration, TokenLives
  <2>3. Shows(f, e)'
    BY <1>1, <1>2, <1>6, <1>7, FwdAssumption, Zenon DEF Shows, Listening
  <2> QED BY <1>7, <2>1, <2>2, <2>3, Zenon DEF Sound
<1>9. fwd[f].task = "none"
  BY <1>4, <1>5, Zenon DEF FwdInv, AllSound, Sound, Placed
<1>10. AllServed'
  BY <1>4, <1>5, <1>9, OthersServed, Zenon
<1>11. PortServed'
  BY <1>4, <1>5, <1>7, PortKept, Zenon DEF Free
<1>12. Permits' /\ sessions' \in 0 .. fwdScope.limit
  <2>1. Cardinality(Held') = Cardinality(Held) + 1 /\ Cardinality(Held) \in Nat
    BY <1>4, <1>7, HeldCounts, Zenon
  <2> QED BY <1>4, <1>5, <2>1 DEF FwdInv, Permits
<1> QED BY <1>4, <1>8, <1>10, <1>11, <1>12, Operated, Zenon DEF Stages, FwdInv, TableTyped

\* What is left of a forward that is gone.
LEMMA GoneSound ==
  ASSUME NEW f \in Fwd, NEW e, e = NoForward, operation' = Free, running' # "prepared"
  PROVE  Sound(f, e)' /\ e.st = "absent" /\ e.task = "none"
<1>1. e \in Entries /\ e.st = "absent" /\ ~e.gen /\ e.task = "none" /\ e.state = "closed"
  BY Zenon DEF NoForward, Entries, Availability, Identity
<1>2. Follows(f, e)' /\ HasGeneration(e)' /\ Shows(f, e)'
  BY <1>1, Zenon DEF Follows, HasGeneration, Shows, Listening
<1>3. Placed(f, e)'
  BY <1>1, Zenon DEF Placed, Free
<1> QED BY <1>1, <1>2, <1>3, Zenon DEF Sound

\* The permit of a failed opening goes back.
LEMMA OpenFailsStep ==
  ASSUME FwdInv, UNCHANGED fwdScope, NEW f \in SessionFwd, OpenFails(f) PROVE FwdInv'
<1>1. PICK e : e = NoForward
  BY Zenon
<1>2. /\ operation = <<"build", f>> /\ operation' = Free /\ sessions' = sessions - 1
      /\ fwd' = [fwd EXCEPT ![f] = e]
      /\ UNCHANGED <<readyAgent, table, sup, returns, running, conn>>
  BY <1>1, Zenon DEF OpenFails
<1>3. f \in Fwd /\ sessions \in 0 .. fwdScope.limit /\ fwdScope.limit \in Nat
  BY FwdAssumption, Zenon DEF FwdInv, TableTyped, SessionFwd, Fwd
<1>4. /\ fwd[f].st = "opening" /\ fwd[f].task = "none" /\ running # "closed" /\ running # "prepared"
  BY <1>2, <1>3, Zenon DEF FwdInv, AllSound, Sound, Placed, Free
<1>5. Sound(f, e)' /\ e.st = "absent" /\ e.task = "none"
  BY <1>1, <1>2, <1>3, <1>4, GoneSound, Zenon
<1>6. AllServed'
  BY <1>2, <1>3, <1>4, OthersServed, Zenon
<1>7. PortServed'
  BY <1>2, <1>3, <1>4, <1>5, PortKept, Zenon DEF Free
<1>8. Permits' /\ sessions' \in 0 .. fwdScope.limit
  <2>1. Cardinality(Held') = Cardinality(Held) - 1 /\ Cardinality(Held) >= 1 /\ Cardinality(Held) \in Nat
    BY <1>2, <1>4, <1>5, HeldCounts, Zenon
  <2> QED BY <1>2, <1>3, <1>4, <2>1 DEF FwdInv, Permits
<1> QED BY <1>2, <1>5, <1>6, <1>7, <1>8, Operated, Zenon DEF Stages, FwdInv, TableTyped

\* The entry is in the list, and the return port is there for it.
LEMMA OpenListsStep ==
  ASSUME FwdInv, UNCHANGED fwdScope, NEW f \in SessionFwd, OpenLists(f) PROVE FwdInv'
<1>1. PICK e : e = [fwd[f] EXCEPT !.st = "listed"]
  BY Zenon
<1>2. /\ operation = <<"build", f>> /\ operation' = <<"apply", f>> /\ returns' = (returns \/ f \in Outbound)
      /\ fwd' = [fwd EXCEPT ![f] = e]
      /\ UNCHANGED <<readyAgent, table, sup, sessions, running, conn>>
  BY <1>1, Zenon DEF OpenLists
<1>3. f \in Fwd /\ sessions \in 0 .. fwdScope.limit /\ returns \in BOOLEAN
  BY FwdAssumption, Zenon DEF FwdInv, TableTyped, SessionFwd, Fwd
<1>4. Sound(f, fwd[f]) /\ fwd[f] \in Entries
  BY <1>3, Zenon DEF FwdInv, AllSound, Sound
<1>5. fwd[f].st = "opening" /\ fwd[f].task = "none" /\ running \notin {"prepared", "closed"}
  BY <1>2, <1>4, Zenon DEF Sound, Placed, Free
<1>6. /\ e \in Entries /\ e.st = "listed" /\ e.task = "none" /\ e.avail = fwd[f].avail
      /\ e.state = fwd[f].state /\ e.gen = fwd[f].gen /\ e.agent = fwd[f].agent
  BY <1>1, <1>4, <1>5, Zenon DEF Entries
<1>7. Sound(f, e)'
  <2>1. Follows(f, e)' /\ Placed(f, e)'
    BY <1>2, <1>5, <1>6, Zenon DEF Follows, Placed
  <2>2. HasGeneration(e)' /\ Shows(f, e)'
    BY <1>2, <1>4, <1>5, <1>6, Zenon DEF Sound, HasGeneration, Shows, TokenLives, Listening
  <2> QED BY <1>6, <2>1, <2>2, Zenon DEF Sound
<1>8. AllServed'
  BY <1>2, <1>3, <1>5, OthersServed, Zenon
<1>9. PortServed'
  <2>1. \A g \in Fwd : /\ operation # <<"remove", g>> /\ operation' # <<"remove", g>>
                       /\ fwd'[g].st = "listed" <=> (fwd[g].st = "listed" \/ g = f)
    BY <1>2, <1>3, <1>6, Zenon DEF FwdInv, AllSound
  <2>2. returns <=> \E g \in Outbound : fwd[g].st = "listed"
    BY <2>1, Zenon DEF FwdInv, PortServed, Fwd
  <2> QED BY <1>2, <2>1, <2>2, Zenon DEF PortServed, Fwd
<1>10. Permits'
  <2>1. Held' = Held
    BY <1>2, <1>5, <1>6, HeldCounts, Zenon
  <2> QED BY <1>2, <2>1, Zenon DEF FwdInv, Permits
<1>11. returns' \in BOOLEAN
  BY <1>2, <1>3, Zenon
<1> QED BY <1>2, <1>3, <1>7, <1>8, <1>9, <1>10, <1>11, Operated, Zenon DEF Stages

\* The entry takes the table's availability again, and its task starts.
LEMMA OpenAppliesStep ==
  ASSUME FwdInv, UNCHANGED fwdScope, NEW f \in SessionFwd, OpenApplies(f) PROVE FwdInv'
<1>1. PICK n : n = set_availability(f, fwd[f], table)
  BY Zenon
<1>2. PICK e : e = [n EXCEPT !.task = "top"]
  BY Zenon
<1>3. /\ operation = <<"apply", f>> /\ operation' = Free
      /\ fwd' = [fwd EXCEPT ![f] = e]
      /\ UNCHANGED <<readyAgent, table, sup, sessions, returns, running, conn>>
  BY <1>1, <1>2, Zenon DEF OpenApplies
<1>4. f \in Fwd /\ sessions \in 0 .. fwdScope.limit /\ returns \in BOOLEAN /\ table \in Availability
  BY FwdAssumption, Zenon DEF FwdInv, TableTyped, SessionFwd, Fwd
<1>5. Sound(f, fwd[f]) /\ fwd[f] \in Entries
  BY <1>4, Zenon DEF FwdInv, AllSound, Sound
<1>6. fwd[f].st = "listed" /\ fwd[f].task = "none" /\ running # "closed" /\ f \notin MachineFwd
  BY <1>3, <1>5, Zenon DEF Sound, Placed, SessionFwd
<1>7. /\ n \in Entries /\ n.avail = table /\ n.st = "listed" /\ n.task = "none"
      /\ HasGeneration(n) /\ Shows(f, n)
  BY <1>1, <1>4, <1>5, <1>6, Availed, Zenon DEF Sound
<1>8. /\ e \in Entries /\ e.avail = table /\ e.st = "listed" /\ e.task = "top"
      /\ e.state = n.state /\ e.gen = n.gen /\ e.agent = n.agent
  BY <1>2, <1>7, Zenon DEF Entries
<1>9. running # "prepared"
  BY <1>3, <1>5, Zenon DEF Sound, Placed, Free
<1>10. Sound(f, e)'
  <2>1. Follows(f, e)' /\ Placed(f, e)'
    BY <1>3, <1>6, <1>8, <1>9, Zenon DEF Follows, Placed, Free
  <2>2. HasGeneration(e)' /\ Shows(f, e)'
    BY <1>3, <1>7, <1>8, Zenon DEF HasGeneration, Shows, TokenLives, Listening
  <2> QED BY <1>8, <2>1, <2>2, Zenon DEF Sound
<1>11. AllServed'
  BY <1>3, <1>4, <1>6, OthersServed, Zenon
<1>12. PortServed'
  BY <1>3, <1>4, <1>6, <1>8, PortKept, Zenon DEF Free
<1>13. Permits'
  <2>1. Held' = Held
    BY <1>3, <1>6, <1>8, HeldCounts, Zenon
  <2> QED BY <1>3, <2>1, Zenon DEF FwdInv, Permits
<1> QED BY <1>3, <1>4, <1>10, <1>11, <1>12, <1>13, Operated, Zenon DEF Stages

\* A removed forward is out of the list, and its connections are cut.
LEMMA RemoveStopsStep ==
  ASSUME FwdInv, UNCHANGED fwdScope, NEW f \in SessionFwd, RemoveStops(f) PROVE FwdInv'
<1>1. PICK e : e = [fwd[f] EXCEPT !.st = "removing", !.state = "closed", !.gen = FALSE]
  BY Zenon
<1>2. /\ operation = Free /\ operation' = <<"remove", f>> /\ f \in Listed
      /\ fwd' = [fwd EXCEPT ![f] = e] /\ conn' = cut(f)
      /\ UNCHANGED <<readyAgent, table, sup, sessions, returns, running>>
  BY <1>1, Zenon DEF RemoveStops, Replace
<1>3. f \in Fwd /\ sessions \in 0 .. fwdScope.limit /\ returns \in BOOLEAN /\ f \notin MachineFwd
  BY FwdAssumption, Zenon DEF FwdInv, TableTyped, SessionFwd, Fwd
<1>4. Sound(f, fwd[f]) /\ fwd[f] \in Entries /\ fwd[f].st = "listed"
  BY <1>2, <1>3, Zenon DEF FwdInv, AllSound, Sound, Listed
<1>5. running \notin {"prepared", "closed"}
  BY <1>3, <1>4, Zenon DEF Sound, Placed
<1>6. /\ e \in Entries /\ e.st = "removing" /\ e.task = fwd[f].task /\ e.avail = fwd[f].avail
      /\ e.state = "closed" /\ ~e.gen /\ e.agent = fwd[f].agent
  BY <1>1, <1>4, Zenon DEF Entries
<1>7. Sound(f, e)'
  <2>1. Follows(f, e)' /\ Placed(f, e)'
    BY <1>2, <1>5, <1>6, Zenon DEF Follows, Placed
  <2>2. HasGeneration(e)' /\ Shows(f, e)'
    BY <1>4, <1>6, Zenon DEF Sound, HasGeneration, Shows
  <2> QED BY <1>6, <2>1, <2>2, Zenon DEF Sound
<1>8. AllServed'
  BY <1>2, <1>3, <1>6, CutServed, Zenon
<1>9. PortServed'
  <2>1. \A g \in Fwd : /\ operation # <<"remove", g>> /\ (operation' = <<"remove", g>> <=> g = f)
                       /\ fwd'[g].st = "listed" <=> (fwd[g].st = "listed" /\ g # f)
    BY <1>2, <1>3, <1>6, Zenon DEF FwdInv, AllSound, Free
  <2>2. returns <=> \E g \in Outbound : fwd[g].st = "listed"
    BY <2>1, Zenon DEF FwdInv, PortServed, Fwd
  <2> QED BY <1>2, <1>4, <2>1, <2>2, Zenon DEF PortServed, Fwd
<1>10. Permits'
  <2>1. Held' = Held
    BY <1>2, <1>4, <1>6, HeldCounts, Zenon
  <2> QED BY <1>2, <2>1, Zenon DEF FwdInv, Permits
<1> QED BY <1>2, <1>3, <1>7, <1>8, <1>9, <1>10, Operated, Zenon DEF Stages

\* When its task and its connections are gone the permit goes back, and the
\* return port with the last outbound forward.
LEMMA RemoveDoneStep ==
  ASSUME FwdInv, UNCHANGED fwdScope, NEW f \in SessionFwd, RemoveDone(f) PROVE FwdInv'
<1>1. PICK e : e = NoForward
  BY Zenon
<1>2. /\ operation = <<"remove", f>> /\ operation' = Free /\ sessions' = sessions - 1
      /\ fwd' = [fwd EXCEPT ![f] = e] /\ returns' = (returns /\ Listed \cap Outbound # {})
      /\ conn' = [c \in Conns |-> IF conn[c].fwd = f THEN Ended ELSE conn[c]]
      /\ UNCHANGED <<readyAgent, table, sup, running>>
  BY <1>1, Zenon DEF RemoveDone
<1>3. f \in Fwd /\ sessions \in 0 .. fwdScope.limit /\ fwdScope.limit \in Nat /\ returns \in BOOLEAN
  BY FwdAssumption, Zenon DEF FwdInv, TableTyped, SessionFwd, Fwd
<1>4. fwd[f].st = "removing" /\ running \notin {"prepared", "closed"}
  BY <1>2, <1>3, Zenon DEF FwdInv, AllSound, Sound, Placed, Free
<1>5. Sound(f, e)' /\ e.st = "absent" /\ e.task = "none"
  BY <1>1, <1>2, <1>3, <1>4, GoneSound, Zenon
<1>6. \A g \in Fwd : fwd'[g] = IF g = f THEN e ELSE fwd[g]
  BY <1>2, Zenon DEF FwdInv, AllSound
<1>7. AllServed'
  <2>1. ASSUME NEW c \in Conns PROVE Served(conn[c])'
    <3>1. CASE conn[c].fwd = f
      <4>1. conn'[c] = Ended
        BY <1>2, <3>1, Zenon
      <4> QED BY <4>1 DEF Served, Ended, Connections, Availability
    <3>2. CASE conn[c].fwd # f
      <4>1. conn'[c] = conn[c] /\ Served(conn[c])
        BY <1>2, <3>2, Zenon DEF FwdInv, AllServed
      <4> QED BY <1>2, <1>6, <3>2, <4>1, Zenon DEF Served, Connections
    <3> QED BY <3>1, <3>2, Zenon
  <2> QED BY <1>2, <2>1, Zenon DEF AllServed
<1>8. PortServed'
  <2>1. \A g \in Fwd : /\ operation = <<"remove", g>> <=> g = f
                       /\ operation' # <<"remove", g>>
                       /\ fwd'[g].st = "listed" <=> fwd[g].st = "listed"
    BY <1>2, <1>3, <1>4, <1>5, <1>6, Zenon DEF Free
  <2>2. returns <=> \E g \in Outbound : fwd[g].st = "listed" \/ g = f
    BY <2>1, Zenon DEF FwdInv, PortServed, Fwd
  <2>3. returns' <=> returns /\ \E g \in Outbound : fwd[g].st = "listed"
    BY <1>2, Zenon DEF Listed, Fwd
  <2> QED BY <2>1, <2>2, <2>3, Zenon DEF PortServed, Fwd
<1>9. Permits' /\ sessions' \in 0 .. fwdScope.limit
  <2>1. Cardinality(Held') = Cardinality(Held) - 1 /\ Cardinality(Held) >= 1 /\ Cardinality(Held) \in Nat
    BY <1>2, <1>4, <1>5, HeldCounts, Zenon
  <2> QED BY <1>2, <1>3, <1>4, <2>1 DEF FwdInv, Permits
<1>10. returns' \in BOOLEAN
  BY <1>2, <1>3, Zenon
<1> QED BY <1>2, <1>5, <1>7, <1>8, <1>9, <1>10, Operated, Zenon DEF Stages

-----------------------------------------------------------------------------
(* The guest listener. *)

\* What is known of a forward whose task runs.
LEMMA RunsSound ==
  ASSUME FwdInv, NEW f \in Fwd, NEW pcs, Runs(f, pcs)
  PROVE  /\ Sound(f, fwd[f]) /\ fwd[f] \in Entries /\ running = "running"
         /\ fwd[f].st = "listed" /\ fwd[f].task \in pcs
BY Zenon DEF Runs, FwdInv, AllSound, Sound

\* The listener's task looks at the availability,
LEMMA ListenTopStep ==
  ASSUME FwdInv, UNCHANGED fwdScope, NEW f \in Fwd, ListenTop(f) PROVE FwdInv'
<1>1. PICK a : a = IF Available(fwd[f].avail) THEN fwd[f].avail ELSE "none"
  BY Zenon
<1>2. PICK t : t = IF Available(fwd[f].avail) THEN "announce" ELSE "wait"
  BY Zenon
<1>3. PICK e : e = [fwd[f] EXCEPT !.fresh = FALSE, !.agent = a, !.task = t]
  BY Zenon
<1>4. Entry(f, e) /\ RestOf /\ Runs(f, {"top"}) /\ f \in Outbound
  BY <1>1, <1>2, <1>3, Zenon DEF ListenTop
<1>5. /\ Sound(f, fwd[f]) /\ fwd[f] \in Entries /\ running = "running"
      /\ fwd[f].st = "listed" /\ fwd[f].task = "top"
  BY <1>4, RunsSound
<1>6. a \in Identity /\ t \in {"announce", "wait"} /\ (t = "announce" => a \in FwdAgents)
  BY <1>1, <1>2, Zenon DEF Available, Identity
<1>7. /\ e \in Entries /\ e.st = "listed" /\ e.avail = fwd[f].avail /\ e.state = fwd[f].state
      /\ e.gen = fwd[f].gen /\ e.task = t /\ e.agent = a
  BY <1>3, <1>5, <1>6, Zenon DEF Entries, Listening
<1>8. Sound(f, e)
  <2>1. Follows(f, e) /\ HasGeneration(e)
    BY <1>5, <1>7, Zenon DEF Sound, Follows, HasGeneration
  <2>2. Shows(f, e)
    BY <1>5, <1>6, <1>7, Zenon DEF Sound, Shows, Listening
  <2>3. Placed(f, e)
    BY <1>5, <1>7, Zenon DEF Sound, Placed
  <2> QED BY <1>7, <2>1, <2>2, <2>3, Zenon DEF Sound
<1> QED BY <1>4, <1>5, <1>6, <1>7, <1>8, EntryKept, Zenon

\* waits for another one,
LEMMA ListenWakesStep ==
  ASSUME FwdInv, UNCHANGED fwdScope, NEW f \in Fwd, ListenWakes(f) PROVE FwdInv'
<1>1. PICK e : e = [fwd[f] EXCEPT !.task = "top"]
  BY Zenon
<1>2. Entry(f, e) /\ RestOf /\ Runs(f, {"wait"}) /\ f \in Outbound
  BY <1>1, Zenon DEF ListenWakes
<1>3. /\ Sound(f, fwd[f]) /\ fwd[f] \in Entries /\ running = "running"
      /\ fwd[f].st = "listed" /\ fwd[f].task \in {"wait"}
  BY <1>2, RunsSound, Zenon
<1>4. /\ e \in Entries /\ e.st = "listed" /\ e.avail = fwd[f].avail
      /\ e.task = "top" /\ e.state = fwd[f].state /\ e.gen = fwd[f].gen /\ e.agent = fwd[f].agent
  BY <1>1, <1>3, Zenon DEF Entries, Listening
<1>5. Sound(f, e)
  <2>1. Follows(f, e) /\ HasGeneration(e)
    BY <1>3, <1>4, Zenon DEF Sound, Follows, HasGeneration, TokenLives, Available, Shows, Listening
  <2>2. Shows(f, e)
    BY <1>2, <1>3, <1>4, FwdAssumption, Zenon DEF Sound, Shows, Listening, Available
  <2>3. Placed(f, e)
    BY <1>3, <1>4, Zenon DEF Sound, Placed
  <2> QED BY <1>4, <2>1, <2>2, <2>3, Zenon DEF Sound
<1> QED BY <1>2, <1>3, <1>4, <1>5, EntryKept, Zenon

\* and announces itself to the guest.
LEMMA ListenAnnouncesStep ==
  ASSUME FwdInv, UNCHANGED fwdScope, NEW f \in Fwd, ListenAnnounces(f) PROVE FwdInv'
<1>1. PICK e : e = [fwd[f] EXCEPT !.state = "pending", !.task = "listen"]
  BY Zenon
<1>2. Entry(f, e) /\ RestOf /\ Runs(f, {"announce"}) /\ f \in Outbound
  BY <1>1, Zenon DEF ListenAnnounces
<1>3. /\ Sound(f, fwd[f]) /\ fwd[f] \in Entries /\ running = "running"
      /\ fwd[f].st = "listed" /\ fwd[f].task \in {"announce"}
  BY <1>2, RunsSound, Zenon
<1>4. /\ e \in Entries /\ e.st = "listed" /\ e.avail = fwd[f].avail
      /\ e.task = "listen" /\ e.state = "pending" /\ e.gen = fwd[f].gen /\ e.agent = fwd[f].agent
  BY <1>1, <1>3, Zenon DEF Entries, Listening
<1>5. Sound(f, e)
  <2>1. Follows(f, e) /\ HasGeneration(e)
    BY <1>3, <1>4, Zenon DEF Sound, Follows, HasGeneration, TokenLives, Available, Shows, Listening
  <2>2. Shows(f, e)
    BY <1>2, <1>3, <1>4, FwdAssumption, Zenon DEF Sound, Shows, Listening, Available
  <2>3. Placed(f, e)
    BY <1>3, <1>4, Zenon DEF Sound, Placed
  <2> QED BY <1>4, <2>1, <2>2, <2>3, Zenon DEF Sound
<1> QED BY <1>2, <1>3, <1>4, <1>5, EntryKept, Zenon

\* The guest refuses, the stream ends, or the availability changes:
LEMMA ListenEndsStep ==
  ASSUME FwdInv, UNCHANGED fwdScope, NEW f \in Fwd, ListenEnds(f) PROVE FwdInv'
<1>1. PICK e : e = [fwd[f] EXCEPT !.task = "end", !.fresh = FALSE]
  BY Zenon
<1>2. Entry(f, e) /\ RestOf /\ Runs(f, {"listen", "bound"}) /\ f \in Outbound
  BY <1>1, Zenon DEF ListenEnds, Runs
<1>3. /\ Sound(f, fwd[f]) /\ fwd[f] \in Entries /\ running = "running"
      /\ fwd[f].st = "listed" /\ fwd[f].task \in {"listen", "bound"}
  BY <1>2, RunsSound, Zenon
<1>4. /\ e \in Entries /\ e.st = "listed" /\ e.avail = fwd[f].avail
      /\ e.task = "end" /\ e.state = fwd[f].state /\ e.gen = fwd[f].gen /\ e.agent = fwd[f].agent
  BY <1>1, <1>3, Zenon DEF Entries, Listening
<1>5. Sound(f, e)
  <2>1. Follows(f, e) /\ HasGeneration(e)
    BY <1>3, <1>4, Zenon DEF Sound, Follows, HasGeneration, TokenLives, Available, Shows, Listening
  <2>2. Shows(f, e)
    BY <1>2, <1>3, <1>4, FwdAssumption, Zenon DEF Sound, Shows, Listening, Available
  <2>3. Placed(f, e)
    BY <1>3, <1>4, Zenon DEF Sound, Placed
  <2> QED BY <1>4, <2>1, <2>2, <2>3, Zenon DEF Sound
<1> QED BY <1>2, <1>3, <1>4, <1>5, EntryKept, Zenon

\* the generation ends, and the state is no longer active.
LEMMA ListenBacksOffStep ==
  ASSUME FwdInv, UNCHANGED fwdScope, NEW f \in Fwd, ListenBacksOff(f) PROVE FwdInv'
<1>1. PICK s : s = IF Available(fwd[f].avail) THEN "pending" ELSE fwd[f].state
  BY Zenon
<1>2. PICK t : t = IF fwd[f].avail = fwd[f].agent THEN "backoff" ELSE "top"
  BY Zenon
<1>3. PICK e : e = [fwd[f] EXCEPT !.gen = FALSE, !.state = s, !.task = t]
  BY Zenon
<1>4. Replace(f, e, TRUE) /\ RestOf /\ Runs(f, {"end"}) /\ f \in Outbound
  BY <1>1, <1>2, <1>3, Zenon DEF ListenBacksOff
<1>5. /\ Sound(f, fwd[f]) /\ fwd[f] \in Entries /\ running = "running"
      /\ fwd[f].st = "listed" /\ fwd[f].task \in {"end"}
  BY <1>4, RunsSound, Zenon
<1>6. s \in {"pending", "active", "unsupported", "closed"} /\ s # "active" /\ t \in {"backoff", "top"}
  BY <1>1, <1>2, <1>4, <1>5, Zenon DEF Sound, Shows, Listening, Available, Entries
<1>7. /\ e \in Entries /\ e.st = "listed" /\ e.avail = fwd[f].avail
      /\ e.task = t /\ e.state = s /\ ~e.gen /\ e.agent = fwd[f].agent
  BY <1>3, <1>5, <1>6, Zenon DEF Entries, Listening
<1>8. Sound(f, e)
  <2>1. Follows(f, e) /\ HasGeneration(e)
    BY <1>5, <1>7, Zenon DEF Sound, Follows, HasGeneration, TokenLives, Available, Shows, Listening
  <2>2. Shows(f, e)
    BY <1>4, <1>5, <1>7, <1>6, FwdAssumption, Zenon DEF Sound, Shows, Listening, Available
  <2>3. Placed(f, e)
    BY <1>5, <1>7, <1>6, Zenon DEF Sound, Placed
  <2> QED BY <1>7, <2>1, <2>2, <2>3, Zenon DEF Sound
<1> QED BY <1>4, <1>5, <1>7, <1>8, <1>6, EntryReplaced, Zenon

\* Another attempt, or another look at the availability.
LEMMA ListenRetriesStep ==
  ASSUME FwdInv, UNCHANGED fwdScope, NEW f \in Fwd, ListenRetries(f) PROVE FwdInv'
<1>1. PICK t : t = IF fwd[f].fresh /\ fwd[f].avail # fwd[f].agent THEN "top" ELSE "announce"
  BY Zenon
<1>2. PICK e : e = [fwd[f] EXCEPT !.task = t, !.fresh = FALSE]
  BY Zenon
<1>3. Entry(f, e) /\ RestOf /\ Runs(f, {"backoff"}) /\ f \in Outbound
  BY <1>1, <1>2, Zenon DEF ListenRetries
<1>4. /\ Sound(f, fwd[f]) /\ fwd[f] \in Entries /\ running = "running"
      /\ fwd[f].st = "listed" /\ fwd[f].task \in {"backoff"}
  BY <1>3, RunsSound, Zenon
<1>5. t \in {"top", "announce"}
  BY <1>1, <1>4, Zenon DEF Sound
<1>6. /\ e \in Entries /\ e.st = "listed" /\ e.avail = fwd[f].avail
      /\ e.task = t /\ e.state = fwd[f].state /\ e.gen = fwd[f].gen /\ e.agent = fwd[f].agent
  BY <1>2, <1>4, <1>5, Zenon DEF Entries, Listening
<1>7. Sound(f, e)
  <2>1. Follows(f, e) /\ HasGeneration(e)
    BY <1>4, <1>6, Zenon DEF Sound, Follows, HasGeneration, TokenLives, Available, Shows, Listening
  <2>2. Shows(f, e)
    BY <1>3, <1>4, <1>6, <1>5, FwdAssumption, Zenon DEF Sound, Shows, Listening, Available
  <2>3. Placed(f, e)
    BY <1>4, <1>6, <1>5, Zenon DEF Sound, Placed
  <2> QED BY <1>6, <2>1, <2>2, <2>3, Zenon DEF Sound
<1> QED BY <1>3, <1>4, <1>6, <1>7, <1>5, EntryKept, Zenon

\* The listener is bound in the agent that is available now, or in vain.
LEMMA ListenBoundStep ==
  ASSUME FwdInv, UNCHANGED fwdScope, NEW f \in Fwd, ListenBound(f) PROVE FwdInv'
<1>1. RestOf /\ Runs(f, {"listen"}) /\ f \in Outbound
  BY Zenon DEF ListenBound
<1>2. /\ Sound(f, fwd[f]) /\ fwd[f] \in Entries /\ running = "running"
      /\ fwd[f].st = "listed" /\ fwd[f].task = "listen"
  BY <1>1, RunsSound
<1>3. fwd[f].agent \in FwdAgents
  BY <1>2, Zenon DEF Sound, Shows, Listening
<1>4. CASE fwd[f].avail = fwd[f].agent
  <2>1. PICK e : e = [fwd[f] EXCEPT !.gen = TRUE, !.state = "active", !.task = "bound"]
    BY Zenon
  <2>2. Replace(f, e, TRUE)
    BY <1>4, <2>1, Zenon DEF ListenBound
  <2>3. /\ e \in Entries /\ e.st = "listed" /\ e.avail = fwd[f].avail /\ e.agent = fwd[f].agent
        /\ e.gen /\ e.state = "active" /\ e.task = "bound"
    BY <1>2, <2>1, Zenon DEF Entries, Listening
  <2>4. Follows(f, e) /\ HasGeneration(e)
    BY <1>2, <1>3, <1>4, <2>3, Zenon DEF Sound, Follows, HasGeneration, TokenLives, Available
  <2>5. Shows(f, e)
    BY <1>1, <1>3, <1>4, <2>3, FwdAssumption, Zenon DEF Shows
  <2>6. Placed(f, e)
    BY <1>2, <2>3, Zenon DEF Sound, Placed
  <2>7. Sound(f, e)
    BY <2>3, <2>4, <2>5, <2>6, Zenon DEF Sound
  <2> QED BY <1>1, <1>2, <2>2, <2>3, <2>7, EntryReplaced, Zenon
<1>5. CASE fwd[f].avail # fwd[f].agent
  <2>1. PICK e : e = [fwd[f] EXCEPT !.task = "end"]
    BY Zenon
  <2>2. Entry(f, e)
    BY <1>5, <2>1, Zenon DEF ListenBound
  <2>3. /\ e \in Entries /\ e.st = "listed" /\ e.avail = fwd[f].avail /\ e.agent = fwd[f].agent
        /\ e.gen = fwd[f].gen /\ e.state = fwd[f].state /\ e.task = "end"
    BY <1>2, <2>1, Zenon DEF Entries, Listening
  <2>4. Follows(f, e) /\ HasGeneration(e)
    BY <1>2, <2>3, Zenon DEF Sound, Follows, HasGeneration
  <2>5. Shows(f, e)
    BY <1>1, <1>2, <1>3, <2>3, FwdAssumption, Zenon DEF Sound, Shows
  <2>6. Placed(f, e)
    BY <1>2, <2>3, Zenon DEF Sound, Placed
  <2>7. Sound(f, e)
    BY <2>3, <2>4, <2>5, <2>6, Zenon DEF Sound
  <2> QED BY <1>1, <1>2, <2>2, <2>3, <2>7, EntryKept, Zenon
<1> QED BY <1>4, <1>5, Zenon

-----------------------------------------------------------------------------
(* Connections. *)

\* A change of availability is seen: parked connections are served or refused.
LEMMA ServeChangedStep ==
  ASSUME FwdInv, UNCHANGED fwdScope, NEW f \in Fwd, ServeChanged(f) PROVE FwdInv'
<1>1. PICK e : e = [fwd[f] EXCEPT !.fresh = FALSE]
  BY Zenon
<1>2. /\ RestOf /\ Runs(f, {"top"}) /\ fwd' = [fwd EXCEPT ![f] = e]
      /\ conn' = [c \in Conns |->
                    IF c \notin Parked(f) \/ fwd[f].avail = "unknown" THEN conn[c]
                    ELSE IF Available(fwd[f].avail) THEN [conn[c] EXCEPT !.pc = "spawned"] ELSE Ended]
  BY <1>1, Zenon DEF ServeChanged
<1>3. /\ Sound(f, fwd[f]) /\ fwd[f] \in Entries /\ running = "running"
      /\ fwd[f].st = "listed" /\ fwd[f].task = "top"
  BY <1>2, RunsSound
<1>4. /\ e \in Entries /\ e.st = fwd[f].st /\ e.avail = fwd[f].avail /\ e.agent = fwd[f].agent
      /\ e.gen = fwd[f].gen /\ e.state = fwd[f].state /\ e.task = fwd[f].task
  BY <1>1, <1>3, Zenon DEF Entries
<1>5. Sound(f, e)
  BY <1>3, <1>4, Zenon DEF Sound, Follows, HasGeneration, Shows, Placed
<1>6. \A g \in Fwd : fwd'[g].avail = fwd[g].avail /\ fwd'[g].task = fwd[g].task
  BY <1>2, <1>4, Zenon DEF FwdInv, AllSound
<1>7. UNCHANGED <<readyAgent, table, sup, operation, sessions, returns, running>>
  BY <1>2, Zenon DEF RestOf
<1>8. ASSUME NEW c \in Conns PROVE Served(conn[c])'
  <2>1. Served(conn[c])
    BY Zenon DEF FwdInv, AllServed
  <2>2. CASE conn'[c] = conn[c]
    BY <1>6, <1>7, <2>1, <2>2, Zenon DEF Served
  <2>3. CASE conn'[c] = Ended
    BY <2>3 DEF Served, Ended, Connections, Availability
  <2>4. CASE c \in Parked(f) /\ conn'[c] = [conn[c] EXCEPT !.pc = "spawned"]
    <3>1. conn[c].pc = "parked" /\ conn[c] \in Connections
      BY <2>1, <2>4, Zenon DEF Parked, Served
    <3>2. conn'[c] \in Connections /\ conn'[c].pc = "spawned" /\ conn'[c].fwd = conn[c].fwd
      BY <2>4, <3>1, Zenon DEF Connections
    <3> QED BY <1>6, <1>7, <2>1, <3>1, <3>2, Zenon DEF Served
  <2> QED BY <1>2, <2>2, <2>3, <2>4, Zenon
<1>9. AllServed'
  BY <1>2, <1>8, Zenon DEF AllServed
<1> QED BY <1>2, <1>4, <1>5, <1>7, <1>9, OneEntry, Zenon

\* A parked connection has waited long enough.
LEMMA ParkExpiresStep ==
  ASSUME FwdInv, UNCHANGED fwdScope, NEW c \in Conns, ParkExpires(c) PROVE FwdInv'
BY EndedServed, OneConnection, Zenon DEF ParkExpires

\* A connection ends.
LEMMA ConnEndsStep ==
  ASSUME FwdInv, UNCHANGED fwdScope, NEW c \in Conns, ConnEnds(c) PROVE FwdInv'
BY EndedServed, OneConnection, Zenon DEF ConnEnds

\* A connection is accepted by the task of its forward.
LEMMA AcceptStep ==
  ASSUME FwdInv, UNCHANGED fwdScope, NEW c \in Conns, NEW f \in Fwd, Accept(c, f) PROVE FwdInv'
<1>1. PICK p : p = IF Available(fwd[f].avail) THEN "spawned" ELSE "parked"
  BY Zenon
<1>2. PICK r : r = [Ended EXCEPT !.fwd = f, !.pc = p]
  BY Zenon
<1>3. SetConn(c, r) /\ RestOf /\ Runs(f, {"top"})
  BY <1>1, <1>2, Zenon DEF Accept
<1>4. r \in Connections /\ r.pc \in {"spawned", "parked"} /\ r.fwd = f
  BY <1>1, <1>2, Zenon DEF Ended, Connections, Availability
<1>5. Served(r)
  BY <1>3, <1>4, RunsSound, SMTT(30) DEF Served
<1> QED BY <1>3, <1>5, OneConnection, Zenon

\* A connection begins in the generation there is, or not at all.
LEMMA BeginServed ==
  ASSUME FwdInv, NEW f \in Fwd, fwd[f].task # "none", running # "prepared", fwd[f].gen, NEW r,
         r = [pc |-> "setup", fwd |-> f, to |-> fwd[f].avail, cut |-> FALSE]
  PROVE  Served(r)
<1>1. Sound(f, fwd[f]) /\ fwd[f] \in Entries
  BY Zenon DEF FwdInv, AllSound, Sound
<1>2. r \in Connections /\ r.pc = "setup" /\ r.fwd = f /\ r.to = fwd[f].avail
  BY <1>1, Zenon DEF Connections, Entries
<1>3. Available(fwd[f].avail) /\ running = "running"
  BY <1>1, Zenon DEF Sound, HasGeneration, TokenLives
<1> QED BY <1>2, <1>3, Zenon DEF Served

\* A spawned connection begins in the generation of its forward,
LEMMA HandleConnectionStep ==
  ASSUME FwdInv, UNCHANGED fwdScope, NEW c \in Conns, HandleConnection(c) PROVE FwdInv'
<1>1. PICK f : f = conn[c].fwd
  BY Zenon
<1>2. f \in Fwd /\ fwd[f].task # "none" /\ running # "prepared"
  BY <1>1, Zenon DEF HandleConnection, FwdInv, AllServed, Served
<1>3. CASE fwd[f].gen
  <2>1. PICK r : r = [pc |-> "setup", fwd |-> f, to |-> fwd[f].avail, cut |-> FALSE]
    BY Zenon
  <2>2. SetConn(c, r) /\ RestOf
    BY <1>1, <1>3, <2>1, Zenon DEF HandleConnection, Begin
  <2> QED BY <1>2, <1>3, <2>1, <2>2, BeginServed, OneConnection, Zenon
<1>4. CASE ~fwd[f].gen
  <2>1. SetConn(c, Ended) /\ RestOf
    BY <1>1, <1>4, Zenon DEF HandleConnection, Begin
  <2> QED BY <2>1, EndedServed, OneConnection, Zenon
<1> QED BY <1>3, <1>4, Zenon

\* one that the guest returns in that of the outbound forward it names,
LEMMA HandleReturnStep ==
  ASSUME FwdInv, UNCHANGED fwdScope, NEW c \in Conns, NEW f \in Fwd, HandleReturn(c, f) PROVE FwdInv'
<1>1. PICK r : r = [pc |-> "setup", fwd |-> f, to |-> fwd[f].avail, cut |-> FALSE]
  BY Zenon
<1>2. f \in Outbound /\ running = "running" /\ fwd[f].gen /\ SetConn(c, r) /\ RestOf
  BY <1>1, Zenon DEF HandleReturn, Begin
<1>3. fwd[f].task # "none"
  BY <1>2, Zenon DEF FwdInv, AllSound, Sound, Shows
<1> QED BY <1>1, <1>2, <1>3, BeginServed, OneConnection, Zenon

\* and it relays once it is set up.
LEMMA ConnRelaysStep ==
  ASSUME FwdInv, UNCHANGED fwdScope, NEW c \in Conns, ConnRelays(c) PROVE FwdInv'
<1>1. PICK r : r = [conn[c] EXCEPT !.pc = "relay"]
  BY Zenon
<1>2. SetConn(c, r) /\ RestOf /\ conn[c].pc = "setup"
  BY <1>1, Zenon DEF ConnRelays
<1>3. Served(conn[c]) /\ conn[c] \in Connections
  BY Zenon DEF FwdInv, AllServed, Served
<1>4. /\ r \in Connections /\ r.pc = "relay" /\ r.fwd = conn[c].fwd /\ r.to = conn[c].to
      /\ r.cut = conn[c].cut
  BY <1>1, <1>3, Zenon DEF Connections
<1>5. Served(r)
  BY <1>2, <1>3, <1>4, Zenon DEF Served
<1> QED BY <1>2, <1>5, OneConnection, Zenon

-----------------------------------------------------------------------------

\* Every step keeps the invariant.
LEMMA NextInv == ASSUME FwdInv, [FwdNext]_fwdVars PROVE FwdInv'
<1>1. CASE UNCHANGED fwdVars
  <2>1. UNCHANGED <<fwdScope, readyAgent, table, sup, fwd, operation, sessions, returns, running, conn>>
    BY <1>1, Zenon DEF fwdVars, workVars
  <2>2. readyAgent \in Identity /\ table \in Availability /\ sup \in Supervisors
    BY Zenon DEF FwdInv, TableTyped
  <2>3. \A f \in Fwd : Follows(f, fwd[f])'
    BY <2>1, Zenon DEF FwdInv, AllSound, Sound, Follows
  <2> QED BY <2>1, <2>2, <2>3, SupervisorOnly, Zenon
<1>2. CASE FwdNext
  <2>1. UNCHANGED fwdScope /\ FwdStep
    BY <1>2, Zenon DEF FwdNext
  <2>2. ASSUME NEW a \in FwdAgents \cup {"none"}, ReadyChanges(a) PROVE FwdInv'
    BY <2>1, <2>2, ReadyChangesStep, Zenon
  <2>3. CASE SupTop \/ SupEntries \/ SupEach \/ SupChanged \/ SupChecked
    BY <2>1, <2>3, SupTopStep, SupEntriesStep, SupEachStep, SupChangedStep, SupCheckedStep, Zenon
  <2>4. CASE Activate \/ ShutdownCancels \/ ShutdownCloses
    BY <2>1, <2>4, ActivateStep, ShutdownCancelsStep, ShutdownClosesStep, Zenon
  <2>5. ASSUME NEW f \in SessionFwd,
               OpenBuilds(f) \/ OpenFails(f) \/ OpenLists(f) \/ OpenApplies(f)
                 \/ RemoveStops(f) \/ RemoveDone(f)
        PROVE  FwdInv'
    BY <2>1, <2>5, OpenBuildsStep, OpenFailsStep, OpenListsStep, OpenAppliesStep,
       RemoveStopsStep, RemoveDoneStep, Zenon
  <2>6. ASSUME NEW f \in Fwd,
               \/ ListenTop(f) \/ ListenWakes(f) \/ ListenAnnounces(f) \/ ListenBound(f)
               \/ ListenEnds(f) \/ ListenBacksOff(f) \/ ListenRetries(f) \/ ServeChanged(f)
        PROVE  FwdInv'
    BY <2>1, <2>6, ListenTopStep, ListenWakesStep, ListenAnnouncesStep, ListenBoundStep,
       ListenEndsStep, ListenBacksOffStep, ListenRetriesStep, ServeChangedStep, Zenon
  <2>7. ASSUME NEW c \in Conns,
               ParkExpires(c) \/ HandleConnection(c) \/ ConnRelays(c) \/ ConnEnds(c)
        PROVE  FwdInv'
    BY <2>1, <2>7, ParkExpiresStep, HandleConnectionStep, ConnRelaysStep, ConnEndsStep, Zenon
  <2>8. ASSUME NEW c \in Conns, NEW f \in Fwd, Accept(c, f) \/ HandleReturn(c, f) PROVE FwdInv'
    BY <2>1, <2>8, AcceptStep, HandleReturnStep, Zenon
  <2> QED BY <2>1, <2>2, <2>3, <2>4, <2>5, <2>6, <2>7, <2>8, Zenon DEF FwdStep
<1> QED BY <1>1, <1>2, Zenon

\* The forward table always satisfies its invariant.
THEOREM ForwardsInvariant == FwdSpec => []FwdInv
BY InitInv, NextInv, PTL DEF FwdSpec

\* Whatever forwards are opened and removed and whichever agents come and go:
\* entries follow the table's availability, connections that are not cut belong
\* to the available agent, the state shown is true, the return port is served
\* exactly while an outbound forward is listed, and a permit is held exactly by
\* each forward there is.
THEOREM ForwardsAlwaysSafe == FwdSpec => []ForwardsSafe
BY ForwardsInvariant, InvIsSafe, PTL

=============================================================================
