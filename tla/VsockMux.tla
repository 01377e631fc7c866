------------------------------- MODULE VsockMux -------------------------------
(***************************************************************************)
(* The vsock session of a krun machine: the actor that multiplexes          *)
(* connection requests of both sides over one control socket                *)
(* (virt/backend/krun/mux.rs), the session that tracks every stream and     *)
(* every lease waiting in a listener (virt/stream.rs), the capacity they    *)
(* share (virt/capacity.rs), and the listener registry (krun.rs).           *)
(*                                                                         *)
(* KrunVsockSession::shutdown runs in whichever task stops the machine,     *)
(* while the actor admits guest connections, hosts connect and the listener *)
(* accepts: it clears the flag, then the streams, then the leases, each     *)
(* under its own lock.                                                      *)
(***************************************************************************)
EXTENDS Naturals, Sequences, FiniteSets

LOCAL INSTANCE SequencesExt

CONSTANTS HostConns,   \* connections the host asks for
          GuestConns,  \* the ids of guest connections, 1..n
          MaxFrames,   \* MAX_FRAMES
          MaxRequests, \* MAX_REQUEST_FRAMES, also the permits of connect
          MuxScopes    \* the instances: host connections asked for, and leases

VARIABLES muxScope,  \* the instance of this behaviour
          hs,        \* each host connection
          overdue,      \* host connections whose deadline has passed
          cmds,      \* the command channel
          permits,   \* host connections that hold a request permit
          actor,     \* [pc, guest]: what the actor does, for which guest id
          requests, replies, current, \* its frames; current is [f, off]
          midframe,  \* the frame the control socket holds a part of
          lastGuest, \* last_guest_id
          gs,        \* each guest connection
          chan,      \* the channel of the listener
          listener,  \* the registration: on, or fenced
          sess,      \* shutdown: active, flagged, cut, down
          streams,   \* the streams the session tracks
          held,      \* the pending leases it holds
          leases,    \* connections with capacity
          alive      \* streams that work: not shut, not dropped

muxVars == <<muxScope, hs, overdue, cmds, permits, actor, requests, replies, current, midframe, lastGuest,
             gs, chan, listener, sess, streams, held, leases, alive>>

NoFrame == [f |-> <<"none", 0>>, off |-> 0]
HsStates == {"idle", "leased", "permit", "queued", "written", "open", "failed", "closed"}
GsStates == {"idle", "reading", "leased", "held", "tracked", "pending", "taken", "open", "rejected", "closed"}

\* MAX_ACTIVE_VSOCK_CONNECTIONS
MaxLeases == muxScope.leases

MuxInit ==
  /\ muxScope \in MuxScopes
  /\ hs = [h \in HostConns |-> "idle"]
  /\ overdue = {}
  /\ cmds = << >> /\ permits = {}
  /\ actor = [pc |-> "top", guest |-> 0]
  /\ requests = << >> /\ replies = << >> /\ current = NoFrame
  /\ midframe = NoFrame.f
  /\ lastGuest = 0
  /\ gs = [g \in GuestConns |-> "idle"]
  /\ chan = << >> /\ listener = "on"
  /\ sess = "active"
  /\ streams = {} /\ held = {} /\ leases = {} /\ alive = {}

is_active == sess = "active"
Stopped == actor.pc = "done"

------------------------------------------------------------------------------
(* KrunVsockSession *)

\* Mutant: the flag is read before the lock is waited for.
canTrackEarly == TRUE

\* track and hold_lease look at the flag under the lock that shutdown takes.
canTrack == is_active

\* The three steps of shutdown.  Whoever calls it again finds nothing to do.
SessionFlags ==
  /\ sess = "active"
  /\ sess' = "flagged"
  /\ UNCHANGED <<streams, held, leases, alive>>

SessionCuts ==
  /\ sess = "flagged"
  /\ sess' = "cut"
  /\ alive' = alive \ streams /\ streams' = {}
  /\ UNCHANGED <<held, leases>>

SessionFrees ==
  /\ sess = "cut"
  /\ sess' = "down"
  /\ leases' = leases \ held /\ held' = {}
  /\ UNCHANGED <<streams, alive>>

\* The owner of the machine, Drop of the backend, or the actor itself stop it.
SessionShutdown ==
  /\ SessionFlags \/ SessionCuts \/ SessionFrees
  /\ UNCHANGED <<hs, overdue, cmds, permits, actor, requests, replies, current, midframe, lastGuest, gs, chan, listener>>

------------------------------------------------------------------------------
(* VsockCapacity *)

\* Mutant: one connection too many.
reserveOver(c) ==
  /\ Cardinality(leases) <= MaxLeases
  /\ leases' = leases \cup {c}

reserve(c) ==
  /\ Cardinality(leases) < MaxLeases
  /\ leases' = leases \cup {c}

------------------------------------------------------------------------------
(* KrunVsockMux::connect, from the lease of connect_vsock *)

hostSame == UNCHANGED <<actor, requests, replies, current, midframe, lastGuest, gs, chan, listener, sess, held>>

HostReserves(h) ==
  /\ hs[h] = "idle" /\ h \in muxScope.hosts
  /\ \/ hs' = [hs EXCEPT ![h] = "leased"] /\ reserve(h)
     \/ hs' = [hs EXCEPT ![h] = "closed"] /\ Cardinality(leases) = MaxLeases /\ UNCHANGED leases
  /\ hostSame /\ UNCHANGED <<overdue, cmds, permits, streams, alive>>

\* The lease goes with the connection, whatever ends it.
HostFails(h) ==
  /\ hs' = [hs EXCEPT ![h] = "failed"]
  /\ leases' = leases \ {h}

HostAcquires(h) ==
  /\ hs[h] = "leased"
  /\ \/ is_active /\ Cardinality(permits) < MaxRequests
        /\ hs' = [hs EXCEPT ![h] = "permit"] /\ permits' = permits \cup {h} /\ UNCHANGED leases
     \/ (~ is_active \/ h \in overdue) /\ HostFails(h) /\ UNCHANGED permits
  /\ hostSame /\ UNCHANGED <<overdue, cmds, streams, alive>>

\* The channel has one place per permit; it is closed when the actor is gone.
HostSends(h) ==
  /\ hs[h] = "permit"
  /\ IF Stopped THEN HostFails(h) /\ permits' = permits \ {h} /\ UNCHANGED cmds
     ELSE /\ hs' = [hs EXCEPT ![h] = "queued"] /\ cmds' = Append(cmds, <<"connect", h>>)
          /\ UNCHANGED <<leases, permits>>
  /\ hostSame /\ UNCHANGED <<overdue, streams, alive>>

\* The caller gives up, or its deadline passes: the receiver of the result is
\* dropped and the actor notified.
HostGivesUp(h) ==
  /\ hs[h] \in {"queued", "written"}
  /\ HostFails(h)
  /\ hostSame /\ UNCHANGED <<overdue, cmds, permits, streams, alive>>

\* The socket is tracked after the request was sent.
HostTracks(h) ==
  /\ hs[h] = "written"
  /\ IF canTrack
     THEN hs' = [hs EXCEPT ![h] = "open"] /\ streams' = streams \cup {h} /\ alive' = alive \cup {h} /\ UNCHANGED leases
     ELSE HostFails(h) /\ UNCHANGED <<streams, alive>>
  /\ hostSame /\ UNCHANGED <<overdue, cmds, permits>>

\* The stream is dropped, its guard and its lease with it.
HostCloses(h) ==
  /\ hs[h] = "open"
  /\ hs' = [hs EXCEPT ![h] = "closed"]
  /\ streams' = streams \ {h} /\ alive' = alive \ {h} /\ leases' = leases \ {h}
  /\ hostSame /\ UNCHANGED <<overdue, cmds, permits>>

DeadlineOf(h) ==
  /\ h \notin overdue /\ hs[h] \in {"leased", "queued"}
  /\ overdue' = overdue \cup {h}
  /\ UNCHANGED <<hs, cmds, permits, leases, streams, alive>> /\ hostSame

HostStep(h) ==
  \/ HostReserves(h) \/ HostAcquires(h) \/ HostSends(h) \/ HostGivesUp(h) \/ HostTracks(h)
  \/ HostCloses(h) \/ DeadlineOf(h)

------------------------------------------------------------------------------
(* The actor.  Its loop first discards, expires and selects; then one arm. *)

\* A sender is closed when its connect no longer waits.
is_closed(h) == hs[h] # "queued"

\* The request frames; a frame of a cancelled connect goes unless its first
\* bytes, and the descriptor with them, are already out.
keep(fs) == SelectSeq(fs, LAMBDA f : ~ is_closed(f[2]))
dropsCurrent == current.f[1] = "request" /\ current.off = 0 /\ is_closed(current.f[2])
Dropped(fs) == {fs[i][2] : i \in {j \in DOMAIN fs : is_closed(fs[j][2])}}

\* Mutant: what is cancelled goes, however much of it was written.
discard_cancelledAnyway ==
  LET gone == current.f[1] = "request" /\ is_closed(current.f[2]) IN
  [replies |-> << >>, requests |-> keep(requests), current |-> IF gone THEN NoFrame ELSE current,
   freed |-> Dropped(requests) \cup (IF gone THEN {current.f[2]} ELSE {})]

discard_cancelled ==
  [replies |-> << >>, requests |-> keep(requests), current |-> IF dropsCurrent THEN NoFrame ELSE current,
   freed |-> Dropped(requests) \cup (IF dropsCurrent THEN {current.f[2]} ELSE {})]

\* select_current: replies go before requests.
select_current(d) ==
  IF d.current # NoFrame THEN [d EXCEPT !.replies = replies]
  ELSE IF replies # << >>
       THEN [d EXCEPT !.current = [f |-> Head(replies), off |-> 0], !.replies = Tail(replies)]
       ELSE IF d.requests # << >>
            THEN [d EXCEPT !.current = [f |-> Head(d.requests), off |-> 0], !.requests = Tail(d.requests)]
            ELSE d

\* expire: the deadline of a frame that is still there
expired(d) ==
  \E h \in overdue : \/ d.current.f = <<"request", h>>
                  \/ <<"request", h>> \in ToSet(d.requests)
mayExpire == current.f[1] \in {"OK", "REJECT"} \/ replies # << >> \/ \E g \in GuestConns : gs[g] = "reading"

goActor(p) == actor' = [pc |-> p, guest |-> 0]
actorSame == UNCHANGED <<overdue, listener, sess>>

ActorTop ==
  /\ actor.pc = "top"
  /\ LET d == discard_cancelled IN
     /\ permits' = permits \ d.freed
     /\ \/ /\ expired(d) \/ mayExpire
           /\ goActor("ending")
           /\ requests' = d.requests /\ current' = d.current /\ UNCHANGED replies
        \/ /\ ~ expired(d)
           /\ goActor("select")
           /\ LET q == select_current(d) IN requests' = q.requests /\ current' = q.current /\ replies' = q.replies
  /\ actorSame /\ UNCHANGED <<hs, cmds, midframe, lastGuest, gs, chan, streams, held, leases, alive>>

\* can_enqueue: the frames, and the share of the requests
can_enqueue(kind) ==
  LET n == Len(requests) + Len(replies) + (IF current = NoFrame THEN 0 ELSE 1)
      r == Len(requests) + (IF current.f[1] = "request" THEN 1 ELSE 0)
  IN n < MaxFrames /\ (kind = "reply" \/ r < MaxRequests)

\* A request that finds no room is answered and leaves; its permit with it.
ActorReceives ==
  /\ actor.pc = "select" /\ cmds # << >>
  /\ cmds' = Tail(cmds)
  /\ LET c == Head(cmds) IN
     \/ /\ c[1] = "shutdown" /\ goActor("ending") /\ UNCHANGED <<hs, requests, permits, leases>>
     \/ /\ c[1] = "connect" /\ goActor("top")
        /\ IF can_enqueue("request")
           THEN requests' = Append(requests, <<"request", c[2]>>) /\ UNCHANGED <<hs, permits, leases>>
           ELSE /\ permits' = permits \ {c[2]} /\ UNCHANGED requests
                /\ IF is_closed(c[2]) THEN UNCHANGED <<hs, leases>> ELSE HostFails(c[2])
  /\ actorSame /\ UNCHANGED <<replies, current, midframe, lastGuest, gs, chan, streams, held, alive>>

\* send_frame takes a part of the frame or all of it; the first part carries
\* the descriptor.
ActorWrites ==
  /\ actor.pc = "select" /\ current # NoFrame
  /\ goActor("top")
  /\ \/ /\ current.off = 0
        /\ current' = [current EXCEPT !.off = 1] /\ midframe' = current.f
        /\ UNCHANGED <<hs, permits>>
     \/ /\ current' = NoFrame /\ midframe' = NoFrame.f
        /\ IF current.f[1] = "request"
           THEN LET h == current.f[2] IN
                /\ permits' = permits \ {h}
                /\ hs' = IF is_closed(h) THEN hs ELSE [hs EXCEPT ![h] = "written"]
           ELSE UNCHANGED <<hs, permits>>
  /\ actorSame
  /\ UNCHANGED <<cmds, requests, replies, lastGuest, gs, chan, streams, held, leases, alive>>

\* The arms that only go round: a notified cancellation and a deadline.
ActorWakes ==
  /\ actor.pc = "select" /\ goActor("top")
  /\ actorSame
  /\ UNCHANGED <<hs, cmds, permits, requests, replies, current, midframe, lastGuest, gs, chan, streams, held, leases, alive>>

guestSame == UNCHANGED <<hs, cmds, permits, requests, current, midframe, overdue, listener, sess>>

\* consume: bytes of the guest's next frame, or its last byte; a frame that
\* breaks the protocol, reuses an id or finds no room for its reply is the end
\* of the channel, as is its EOF.
ActorConsumes ==
  /\ actor.pc = "select"
  /\ \/ \E g \in GuestConns :
          /\ gs[g] = "idle" /\ \A k \in GuestConns : gs[k] # "reading"
          /\ gs' = [gs EXCEPT ![g] = "reading"] /\ goActor("top") /\ UNCHANGED lastGuest
     \/ \E g \in GuestConns :
          /\ gs[g] = "reading"
          /\ IF g <= lastGuest \/ ~ can_enqueue("reply")
             THEN goActor("ending") /\ gs' = [gs EXCEPT ![g] = "closed"] /\ UNCHANGED lastGuest
             ELSE actor' = [pc |-> "look", guest |-> g] /\ lastGuest' = g /\ UNCHANGED gs
     \/ /\ goActor("ending") /\ UNCHANGED lastGuest
        /\ gs' = [g \in GuestConns |-> IF gs[g] = "reading" THEN "closed" ELSE gs[g]]
  /\ guestSame /\ UNCHANGED <<replies, chan, streams, held, leases, alive>>

\* The reply of a connection that was not admitted; what it held is dropped.
rejectGuest(g) ==
  /\ gs' = [gs EXCEPT ![g] = "rejected"]
  /\ replies' = Append(replies, <<"REJECT", g>>)
  /\ streams' = streams \ {g} /\ held' = held \ {g} /\ leases' = leases \ {g} /\ alive' = alive \ {g}
  /\ goActor("top")

nextGuest(p, st) ==
  /\ actor' = [actor EXCEPT !.pc = p]
  /\ gs' = [gs EXCEPT ![actor.guest] = st]
  /\ UNCHANGED replies

\* connect_guest_stream: the session and the listener, and capacity
GuestLooks ==
  /\ actor.pc = "look"
  /\ LET g == actor.guest IN
     \/ is_active /\ listener = "on" /\ reserve(g) /\ nextGuest("hold", "leased") /\ UNCHANGED <<streams, held, alive>>
     \/ (~ is_active \/ listener # "on" \/ Cardinality(leases) = MaxLeases) /\ rejectGuest(g)
  /\ guestSame /\ UNCHANGED <<lastGuest, chan>>

\* hold_lease
GuestHolds ==
  /\ actor.pc = "hold"
  /\ IF canTrack
     THEN nextGuest("track", "held") /\ held' = held \cup {actor.guest} /\ UNCHANGED <<streams, leases, alive>>
     ELSE rejectGuest(actor.guest)
  /\ guestSame /\ UNCHANGED <<lastGuest, chan>>

\* track
GuestTracks ==
  /\ actor.pc = "track"
  /\ IF canTrack
     THEN /\ nextGuest("send", "tracked")
          /\ streams' = streams \cup {actor.guest} /\ alive' = alive \cup {actor.guest} /\ UNCHANGED <<held, leases>>
     ELSE rejectGuest(actor.guest)
  /\ guestSame /\ UNCHANGED <<lastGuest, chan>>

\* try_send to the listener, unless it was dropped; then the reply
GuestSends ==
  /\ actor.pc = "send"
  /\ LET g == actor.guest IN
     IF listener = "gone" THEN rejectGuest(g) /\ UNCHANGED chan
     ELSE /\ chan' = Append(chan, g)
          /\ gs' = [gs EXCEPT ![g] = "pending"]
          /\ replies' = Append(replies, <<"OK", g>>)
          /\ goActor("top")
          /\ UNCHANGED <<streams, held, leases, alive>>
  /\ guestSame /\ UNCHANGED lastGuest

\* fail_queued: what is queued, in the channel too, is answered; the permits go.
fail_queued(keeps) ==
  /\ goActor("done")
  /\ listener' = IF listener = "on" THEN "fenced" ELSE listener
  /\ LET q == {h \in HostConns : hs[h] = "queued"} IN
     hs' = [h \in HostConns |-> IF h \in q THEN "failed" ELSE hs[h]] /\ leases' = leases \ q
  /\ permits' = keeps
  /\ cmds' = << >> /\ requests' = << >> /\ replies' = << >> /\ current' = NoFrame
  /\ UNCHANGED <<overdue, midframe, lastGuest, gs, chan, sess, streams, held, alive>>

unsent == {h \in permits : hs[h] = "permit"}
aborted == actor.pc \in {"top", "select"} /\ listener # "on"

\* Mutant: the commands of a stopped actor keep their permits.
ActorEndsLeaking ==
  /\ sess = "down" /\ (actor.pc = "ending" \/ aborted)
  /\ fail_queued(permits \ {requests[i][2] : i \in DOMAIN requests})

\* Mutant: nobody aborts an actor that does not finish.
ActorEndsUnaided ==
  /\ sess = "down" /\ actor.pc = "ending"
  /\ fail_queued(unsent)

\* The end of run: shutdown, fence, and the failure of all that is queued; or
\* the abort by the join, once the owner has fenced the session itself.
ActorEnds ==
  /\ sess = "down" /\ (actor.pc = "ending" \/ aborted)
  /\ fail_queued(unsent)

ActorStep ==
  \/ ActorTop \/ ActorReceives \/ ActorWrites \/ ActorWakes \/ ActorConsumes
  \/ GuestLooks \/ GuestHolds \/ GuestTracks \/ GuestSends \/ ActorEnds

------------------------------------------------------------------------------
(* The listener, and the owner of the machine *)

listenSame == UNCHANGED <<hs, overdue, cmds, permits, actor, requests, replies, current, midframe, lastGuest, sess>>

dropGuests(S) ==
  /\ gs' = [g \in GuestConns |-> IF g \in S THEN "closed" ELSE gs[g]]
  /\ streams' = streams \ S /\ held' = held \ S /\ leases' = leases \ S /\ alive' = alive \ S

\* accept looks at the session, and takes the lease afterwards.
AcceptLooks ==
  /\ chan # << >> /\ listener # "gone"
  /\ chan' = Tail(chan)
  /\ IF is_active THEN gs' = [gs EXCEPT ![Head(chan)] = "taken"] /\ UNCHANGED <<streams, held, leases, alive>>
     ELSE dropGuests({Head(chan)})
  /\ UNCHANGED listener /\ listenSame

\* Mutant: a connection is handed out although its lease is gone.
AcceptTakesAnyway(g) ==
  /\ gs[g] = "taken"
  /\ gs' = [gs EXCEPT ![g] = "open"] /\ held' = held \ {g}
  /\ UNCHANGED <<streams, leases, alive, chan, listener>> /\ listenSame

AcceptTakes(g) ==
  /\ gs[g] = "taken"
  /\ IF g \in held THEN gs' = [gs EXCEPT ![g] = "open"] /\ held' = held \ {g} /\ UNCHANGED <<streams, leases, alive>>
     ELSE dropGuests({g})
  /\ UNCHANGED <<chan, listener>> /\ listenSame

GuestCloses(g) ==
  /\ gs[g] = "open"
  /\ dropGuests({g})
  /\ UNCHANGED <<chan, listener>> /\ listenSame

\* Dropping the listener drops what waits in its channel.
ListenerDrops ==
  /\ listener # "gone"
  /\ listener' = "gone"
  /\ chan' = << >> /\ dropGuests({chan[i] : i \in DOMAIN chan})
  /\ listenSame

\* The owner task of the backend: shutdown, fence_session, then the command.
OwnerFencesMux ==
  /\ sess = "down" /\ listener = "on"
  /\ listener' = "fenced"
  /\ \/ Stopped /\ UNCHANGED cmds
     \/ ~ Stopped /\ cmds' = Append(cmds, <<"shutdown", 0>>)
  /\ UNCHANGED <<hs, overdue, permits, actor, requests, replies, current, midframe, lastGuest, gs, chan, sess, streams, held, leases, alive>>

MuxNext ==
  /\ \/ \E h \in HostConns : HostStep(h)
     \/ ActorStep
     \/ SessionShutdown
     \/ AcceptLooks \/ ListenerDrops \/ OwnerFencesMux
     \/ \E g \in GuestConns : AcceptTakes(g) \/ GuestCloses(g)
  /\ UNCHANGED muxScope

MuxSpec == MuxInit /\ [][MuxNext]_muxVars

------------------------------------------------------------------------------
(* Properties *)

\* Types, and the limits on permits, leases and frames.
MuxTypeOK ==
  /\ hs \in [HostConns -> HsStates] /\ gs \in [GuestConns -> GsStates]
  /\ overdue \subseteq HostConns /\ permits \subseteq HostConns
  /\ actor \in [pc : {"top", "select", "look", "hold", "track", "send", "ending", "done"}, guest : GuestConns \cup {0}]
  /\ Cardinality(permits) <= MaxRequests /\ Cardinality(leases) <= MaxLeases
  /\ Len(requests) + Len(replies) + (IF current = NoFrame THEN 0 ELSE 1) <= MaxFrames
  /\ listener \in {"on", "fenced", "gone"} /\ sess \in {"active", "flagged", "cut", "down"}
  /\ streams \cup held \cup leases \cup alive \subseteq HostConns \cup GuestConns

\* A session that is shut down has no working stream and holds no lease:
\* neither a connect that was sent before nor a guest connection being admitted
\* gets past the locks of track and hold_lease (KrunVsockSession::shutdown).
ShutdownIsComplete ==
  /\ sess \in {"cut", "down"} => alive = {} /\ streams = {}
  /\ sess = "down" => held = {}

\* Capacity is held by exactly the connections that exist: those the host asked
\* for until they end, those the guest asked for while the session holds their
\* lease or the listener handed them out (VsockLease, KrunPendingLease).
LeasesAreOwned ==
  leases = {h \in HostConns : hs[h] \in {"leased", "permit", "queued", "written", "open"}}
           \cup {g \in GuestConns : gs[g] \in {"leased", "open"}} \cup held

\* A frame of which a part was written is finished before another begins, also
\* when its connect was cancelled in between (discard_cancelled, offset = 0).
FramesStayWhole ==
  midframe # NoFrame.f /\ actor.pc \notin {"ending", "done"} => current.f = midframe /\ current.off = 1

\* The permits of connect are with the requests that are on their way, and no
\* cancelled, refused or failed request keeps one.
PermitsFollowRequests ==
  permits = {h \in HostConns : hs[h] = "permit"}
            \cup {c[2] : c \in {x \in ToSet(cmds) : x[1] = "connect"}}
            \cup {f[2] : f \in ToSet(requests)}
            \cup (IF current.f[1] = "request" THEN {current.f[2]} ELSE {})

\* After a shutdown nobody waits for an actor that does not come: when no task
\* has anything to do the actor has ended, and every connect was answered.
ShutdownEndsActor ==
  sess = "down" /\ listener # "on"
     /\ ~ ENABLED (ActorTop \/ ActorReceives \/ GuestLooks \/ GuestHolds \/ GuestTracks \/ GuestSends \/ ActorEnds)
  => Stopped /\ permits \subseteq {h \in HostConns : hs[h] = "permit"} /\ \A h \in HostConns : hs[h] # "queued"

\* The mux between monitor and worker gives and takes back exactly what it was
\* given: a shutdown misses no stream, leases have one owner, frames go out whole,
\* permits follow requests, and the actor ends when it is told to.
MuxSafe ==
  /\ MuxTypeOK /\ ShutdownIsComplete /\ LeasesAreOwned
  /\ FramesStayWhole /\ PermitsFollowRequests /\ ShutdownEndsActor

================================================================================
