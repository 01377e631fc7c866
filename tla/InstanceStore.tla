----------------------------- MODULE InstanceStore -----------------------------
(***************************************************************************)
(* What a monitor knows of its guest (virt/vmm/src/state.rs, guest.rs,     *)
(* guest/ssh.rs, services.rs): the status and metrics streams of the guest *)
(* agent, the host's own verification of the guest's SSH listener, the     *)
(* readiness that follows, the waiters for it, and the identity of the     *)
(* ready agent that is published to the forwards.                          *)
(*                                                                         *)
(* Three threads change the store: the guest task (status, metrics and SSH *)
(* supervisors, joined in one task), the host (VM state) and the forward   *)
(* capability supervisor.  A change is made under a mutex; what it means   *)
(* for the watchers is published after the mutex is released, so that the  *)
(* publications of two threads may pass each other.                        *)
(***************************************************************************)
EXTENDS Naturals, FiniteSets

CONSTANTS MaxAgent,    \* agent instances, one after the other
          SshKeys,     \* host keys of the guest's SSH listener
          Scenarios,   \* each bounds the agents and the disturbances, and says
                       \* who takes part of "metrics", "waiter", "forward"
          NoGuest      \* no identity, no report, no key

ASSUME StoreAssumption ==
  /\ MaxAgent \in Nat /\ NoGuest \notin Nat /\ NoGuest \notin SshKeys
  /\ \A s \in Scenarios : s.agents \in 0..MaxAgent

VARIABLES scenario,   \* the bounds of this behaviour
          store,      \* the State behind the mutex
          pubq,       \* per thread: a publication that is not out yet
          published,  \* the ready_agent_identity watch
          unseen,     \* watchers with a generation they have not looked at
          resetSeen,  \* FALSE: the status stream has an identity reset to see
          status,     \* the status supervisor
          metrics,    \* the metrics supervisor
          ssh,        \* the SSH verification supervisor
          waiter,     \* one caller of wait_ready
          guest,      \* the agent that is up, and the report of each agent
          disturbed,  \* disturbances so far
          clean,      \* history: the listener was eligible, unchanged, for
                      \* all of the attempt that is under way
          proven      \* history: and an attempt of that kind has succeeded

storeVars == <<scenario, store, pubq, published, unseen, resetSeen, status, metrics, ssh, waiter,
               guest, disturbed, clean, proven>>

Threads == {"guest", "host", "forward"}
\* The waiter watches only while it waits.
Watchers == {"ssh"} \cup (IF waiter = "none" THEN {} ELSE {"waiter"})
Agents == 1..MaxAgent
Keys == SshKeys \cup {NoGuest}
\* The listener of a report counts only when the report says Ready.
Reports == {r \in [state : {"starting", "ready"}, key : Keys] :
              r.state = "starting" => r.key = NoGuest}

------------------------------------------------------------------------------
(* The rules of state.rs, on a store s. *)

\* A verified or failed listener is one that was probed in this epoch.
Outcomes == {"pending", "verified", "lapsed", "failed"}

\* The key of the listener the host may verify: the VM runs, the agent answers,
\* its last report is fresh, says Ready and has a listener.
eligible_ssh(s) ==
  IF /\ s.vm = "running" /\ s.conn = "responsive"
     /\ s.rep # NoGuest /\ s.fresh /\ s.rep.state = "ready"
  THEN s.rep.key ELSE NoGuest

ssh_target_matches(s, t) ==
  /\ s.epoch = t.epoch /\ s.ident = t.ident
  /\ eligible_ssh(s) # NoGuest /\ eligible_ssh(s) = t.key

invalidate_ssh_verification(s) ==
  IF s.ver = NoGuest THEN s ELSE [s EXCEPT !.epoch = @ + 1, !.ver = NoGuest]

\* Mutant: a target whose identity is not known yet.
refresh_ssh_verificationUnnamed(s) ==
  IF s.ver # NoGuest /\ ssh_target_matches(s, s.ver) THEN s
  ELSE LET i == invalidate_ssh_verification(s) IN
       IF s.vm # "running" \/ s.ident = NoGuest THEN i
       ELSE [i EXCEPT !.epoch = @ + 1,
                      !.ver = [epoch |-> i.epoch + 1, ident |-> i.ident,
                               key |-> eligible_ssh(i), outcome |-> "pending"]]

refresh_ssh_verification(s) ==
  IF s.ver # NoGuest /\ ssh_target_matches(s, s.ver) THEN s
  ELSE LET i == invalidate_ssh_verification(s) IN
       IF eligible_ssh(i) = NoGuest \/ i.ident = NoGuest THEN i
       ELSE [i EXCEPT !.epoch = @ + 1,
                      !.ver = [epoch |-> i.epoch + 1, ident |-> i.ident,
                               key |-> eligible_ssh(i), outcome |-> "pending"]]

kex_verified(s) ==
  s.ver # NoGuest /\ ssh_target_matches(s, s.ver) /\ s.ver.outcome = "verified"

\* readiness_detail with effective_status: a Ready report with a listener
\* counts once the host has verified the listener itself.
readiness_detail(s) ==
  /\ s.vm = "running" /\ s.rep # NoGuest /\ s.fresh /\ s.rep.state = "ready"
  /\ s.rep.key # NoGuest => kex_verified(s)

ready_agent_identity(s) == IF readiness_detail(s) THEN s.ident ELSE NoGuest

readiness(s) == CASE s.vm = "stopped" -> "terminal"
                  [] readiness_detail(s) -> "ready"
                  [] OTHER -> "timed_out"

ssh_verification_target(s) ==
  IF s.ver # NoGuest /\ ssh_target_matches(s, s.ver) THEN s.ver ELSE NoGuest

\* The same listener, uninterrupted: what evidence is about.
Listener(s) == IF eligible_ssh(s) = NoGuest THEN NoGuest ELSE <<s.ident, eligible_ssh(s)>>

Idle(t) == pubq[t] = {}

\* Mutant: an update that leaves the ready identity as it was publishes nothing.
mutateIfChanged(t, s) ==
  LET after == refresh_ssh_verification(s) IN
  /\ Idle(t)
  /\ store' = after
  /\ pubq' = IF ready_agent_identity(after) = ready_agent_identity(store) THEN pubq
             ELSE [pubq EXCEPT ![t] = {ready_agent_identity(after)}]

\* mutate_if: the update, the refresh and the snapshot under the mutex.
mutate(t, s) ==
  /\ Idle(t)
  /\ store' = refresh_ssh_verification(s)
  /\ pubq' = [pubq EXCEPT ![t] = {ready_agent_identity(refresh_ssh_verification(s))}]

\* What changes only with time happens to the store without any thread.
Elapses(s) == store' = s /\ UNCHANGED pubq

Disturb == disturbed < scenario.disturb /\ disturbed' = disturbed + 1

------------------------------------------------------------------------------
(* The publication, outside of the mutex. *)

\* Mutant: a publication of the identity that is out already wakes no watcher.
PublishQuietly(t) ==
  /\ pubq[t] # {}
  /\ published' = CHOOSE i \in pubq[t] : TRUE
  /\ pubq' = [pubq EXCEPT ![t] = {}]
  /\ unseen' = IF published' = published THEN unseen ELSE Watchers
  /\ UNCHANGED <<store, resetSeen, status, metrics, ssh, waiter, guest, disturbed>>

\* The end of mutate_if: the ready identity and a new generation.
Publish(t) ==
  /\ pubq[t] # {}
  /\ published' = CHOOSE i \in pubq[t] : TRUE
  /\ pubq' = [pubq EXCEPT ![t] = {}]
  /\ unseen' = Watchers
  /\ UNCHANGED <<store, resetSeen, status, metrics, ssh, waiter, guest, disturbed>>

------------------------------------------------------------------------------
(* The status supervisor. *)

\* supervise_status connects; after a published failure it says so first.
StatusConnects ==
  /\ status.pc = "retry" /\ Idle("guest")
  /\ status' = [status EXCEPT !.pc = "stream", !.agent = guest.up, !.received = FALSE,
                              !.connecting = FALSE]
  /\ IF status.connecting THEN mutate("guest", [store EXCEPT !.conn = "connecting"])
                          ELSE UNCHANGED <<store, pubq>>
  /\ UNCHANGED <<published, unseen, resetSeen, metrics, ssh, waiter, guest, disturbed>>

\* Mutant: a new receipt revives the evidence whose receipt had expired.
observe_statusRevives(s, a, r) ==
  LET replaced == s.ident # NoGuest /\ s.ident # a
  IN [s EXCEPT !.metrics = IF replaced THEN NoGuest ELSE @,
               !.forward = ~replaced /\ s.ident # NoGuest /\ @,
               !.ident = a, !.conn = "responsive", !.rep = r, !.fresh = TRUE]

\* Mutant: the metrics of the agent that was replaced stay.
observe_statusKeepsMetrics(s, a, r) ==
  LET i == IF s.rep # NoGuest /\ ~s.fresh THEN invalidate_ssh_verification(s) ELSE s
      replaced == i.ident # NoGuest /\ i.ident # a
  IN [i EXCEPT !.forward = ~replaced /\ i.ident # NoGuest /\ @,
               !.ident = a, !.conn = "responsive", !.rep = r, !.fresh = TRUE]

\* observe_status: a receipt that expired takes its evidence with it, and
\* another instance or boot supersedes every observation of the old one.
observe_status(s, a, r) ==
  LET i == IF s.rep # NoGuest /\ ~s.fresh THEN invalidate_ssh_verification(s) ELSE s
      replaced == i.ident # NoGuest /\ i.ident # a
  IN [i EXCEPT !.metrics = IF replaced THEN NoGuest ELSE @,
               !.forward = ~replaced /\ i.ident # NoGuest /\ @,
               !.ident = a, !.conn = "responsive", !.rep = r, !.fresh = TRUE]

\* A status message: a heartbeat, a change of the agent's report, or what is
\* left in the stream of an agent that was replaced.
StatusReceived ==
  /\ status.pc = "stream" /\ Idle("guest") /\ status.agent # 0
  /\ IF status.agent = guest.up THEN UNCHANGED disturbed ELSE Disturb
  /\ mutate("guest", observe_status(store, status.agent, guest.rep[status.agent]))
  /\ status' = [status EXCEPT !.received = TRUE]
  /\ UNCHANGED <<published, unseen, resetSeen, metrics, ssh, waiter, guest>>

\* RetrySchedule::next: an agent that was never heard is looked for quickly and
\* silently for two seconds (while discovery lasts); any other end of the
\* stream is published as a failure.
StatusFails ==
  /\ LET known == status.discovered \/ status.received IN
     \E publish \in {known, TRUE} :
       /\ status' = [status EXCEPT !.pc = "retry", !.discovered = known, !.connecting = publish]
       /\ IF publish THEN mutate("guest", [store EXCEPT !.conn = "unresponsive"])
                     ELSE UNCHANGED <<store, pubq>>

\* The stream ends: its agent is gone or was never there (with the messages it
\* still had), it was silent for three heartbeats, or metrics named another
\* agent.
StatusEnds ==
  /\ status.pc = "stream" /\ Idle("guest")
  /\ \/ status.agent # guest.up \/ guest.up = 0 \/ (status.received /\ ~store.fresh)
     \/ ~resetSeen
  /\ resetSeen' = TRUE
  /\ StatusFails
  /\ UNCHANGED <<published, unseen, metrics, ssh, waiter, guest, disturbed>>

\* The connection breaks, or a message fails validation.
StatusBreaks ==
  /\ status.pc = "stream" /\ Idle("guest") /\ Disturb
  /\ StatusFails
  /\ UNCHANGED <<published, unseen, resetSeen, metrics, ssh, waiter, guest>>

------------------------------------------------------------------------------
(* The metrics supervisor. *)

\* wait_for_identity, then the metrics stream.
MetricsConnects ==
  /\ "metrics" \in scenario.who /\ metrics.pc = "wait" /\ Idle("guest") /\ store.ident # NoGuest /\ guest.up # 0
  /\ metrics' = [pc |-> "stream", agent |-> guest.up]
  /\ UNCHANGED <<store, pubq, published, unseen, resetSeen, status, ssh, waiter, guest, disturbed>>

\* observe_metrics: metrics of the current agent are stored without a new
\* generation; metrics of another one clear the identity and reset the status
\* stream.
MetricsReceived ==
  /\ metrics.pc = "stream" /\ Idle("guest")
  /\ IF store.ident = NoGuest THEN metrics' = [pc |-> "wait", agent |-> 0] /\ UNCHANGED <<store, pubq, resetSeen>>
     ELSE IF store.ident = metrics.agent
     THEN /\ store' = [store EXCEPT !.metrics = metrics.agent]
          /\ UNCHANGED <<pubq, metrics, resetSeen>>
     ELSE LET s == invalidate_ssh_verification(
                     [store EXCEPT !.ident = NoGuest, !.rep = NoGuest, !.metrics = NoGuest,
                                   !.forward = FALSE])
          IN /\ store' = s
             /\ pubq' = [pubq EXCEPT !["guest"] = {ready_agent_identity(s)}]
             /\ metrics' = [pc |-> "wait", agent |-> 0]
             /\ resetSeen' = FALSE
  /\ UNCHANGED <<published, unseen, status, ssh, waiter, guest, disturbed>>

MetricsEnds ==
  /\ metrics.pc = "stream" /\ Idle("guest") /\ metrics.agent # guest.up
  /\ metrics' = [pc |-> "wait", agent |-> 0]
  /\ UNCHANGED <<store, pubq, published, unseen, resetSeen, status, ssh, waiter, guest, disturbed>>

------------------------------------------------------------------------------
(* The SSH verification supervisor. *)

\* Mutant: the schedule remembers that there was an attempt, not its epoch.
SshLooksOnce ==
  /\ ssh.pc = "idle" /\ Idle("guest")
  /\ LET t == ssh_verification_target(store) IN
     \/ /\ t # NoGuest /\ ssh.completed = 0
        /\ ssh' = [ssh EXCEPT !.pc = "network", !.target = t]
        /\ UNCHANGED unseen
     \/ /\ t # NoGuest => ssh.completed # 0
        /\ "ssh" \in unseen
        /\ unseen' = unseen \ {"ssh"} /\ UNCHANGED ssh
  /\ UNCHANGED <<store, pubq, published, resetSeen, status, metrics, waiter, guest, disturbed>>

\* The top of supervise: look at the generation, take the target, and begin an
\* attempt if one is due; the target of a finished attempt is due again after a
\* minute.
SshLooks ==
  /\ ssh.pc = "idle" /\ Idle("guest")
  /\ LET t == ssh_verification_target(store) IN
     \/ /\ t # NoGuest
        /\ ssh' = [ssh EXCEPT !.pc = "network", !.target = t]
        /\ UNCHANGED unseen
     \/ /\ t # NoGuest => ssh.completed = t.epoch
        /\ "ssh" \in unseen
        /\ unseen' = unseen \ {"ssh"} /\ UNCHANGED ssh
  /\ UNCHANGED <<store, pubq, published, resetSeen, status, metrics, waiter, guest, disturbed>>

\* target_changed, polled when a generation is new.
TargetChanged ==
  LET t == ssh_verification_target(store) IN t # NoGuest => t.epoch # ssh.target.epoch

\* The biased select takes the change before any result.
SshInvalidated ==
  /\ ssh.pc \in {"network", "pin"} /\ Idle("guest")
  /\ "ssh" \in unseen /\ TargetChanged
  /\ ssh' = [ssh EXCEPT !.pc = "idle", !.target = NoGuest]
  /\ unseen' = unseen \ {"ssh"}
  /\ UNCHANGED <<store, pubq, published, resetSeen, status, metrics, waiter, guest, disturbed>>

\* The key exchange with the listener that is there now.
SshProbed ==
  /\ ssh.pc = "network" /\ Idle("guest")
  /\ "ssh" \in unseen => ~TargetChanged
  /\ guest.up # 0 /\ guest.rep[guest.up].key = ssh.target.key
  /\ ssh' = IF TargetChanged THEN [ssh EXCEPT !.pc = "idle", !.target = NoGuest]
                            ELSE [ssh EXCEPT !.pc = "pin"]
  /\ UNCHANGED <<store, pubq, published, unseen, resetSeen, status, metrics, waiter, guest, disturbed>>

\* complete_ssh_verification: an outcome counts for the target that was probed
\* and for no other, not even an equal one of a later epoch.
complete_ssh_verification(s, t, outcome) ==
  IF s.ver # NoGuest /\ s.ver.epoch = t.epoch /\ s.ver.ident = t.ident /\ s.ver.key = t.key
     /\ ssh_target_matches(s, s.ver)
  THEN mutate("guest", [s EXCEPT !.ver.outcome = outcome])
  ELSE UNCHANGED <<store, pubq>>

\* The pin agrees, and the outcome is published.
SshVerified ==
  /\ ssh.pc = "pin" /\ Idle("guest")
  /\ "ssh" \in unseen => ~TargetChanged
  /\ complete_ssh_verification(store, ssh.target, "verified")
  /\ ssh' = [pc |-> "idle", target |-> NoGuest, completed |-> ssh.target.epoch]
  /\ UNCHANGED <<published, unseen, resetSeen, status, metrics, waiter, guest, disturbed>>

\* The attempt fails or its five seconds are over.
SshFailed ==
  /\ ssh.pc \in {"network", "pin"} /\ Idle("guest")
  /\ "ssh" \in unseen => ~TargetChanged
  /\ complete_ssh_verification(store, ssh.target, "failed")
  /\ ssh' = [pc |-> "idle", target |-> NoGuest, completed |-> ssh.target.epoch]
  /\ UNCHANGED <<published, unseen, resetSeen, status, metrics, waiter, guest, disturbed>>

------------------------------------------------------------------------------
(* Waiters, the host and the forward supervisor. *)

\* wait_ready, wait_for_required_guest_ready: subscribe, then look.
WaitBegins ==
  /\ "waiter" \in scenario.who /\ waiter = "none"
  /\ waiter' = "look" /\ unseen' = unseen \ {"waiter"}
  /\ UNCHANGED <<store, pubq, published, resetSeen, status, metrics, ssh, guest, disturbed>>

\* One turn of the loop: a look at the readiness, then the wait for a change.
WaitLooks ==
  /\ waiter = "look" \/ (waiter = "wait" /\ "waiter" \in unseen)
  /\ waiter' = IF readiness(store) = "timed_out" THEN "wait" ELSE "none"
  /\ unseen' = IF waiter = "wait" \/ waiter' = "none" THEN unseen \ {"waiter"} ELSE unseen
  /\ UNCHANGED <<store, pubq, published, resetSeen, status, metrics, ssh, guest, disturbed>>

WaitTimesOut ==
  /\ waiter = "wait" /\ waiter' = "none"
  /\ unseen' = unseen \ {"waiter"}
  /\ UNCHANGED <<store, pubq, published, resetSeen, status, metrics, ssh, guest, disturbed>>

\* set_vm_state: Running once, then Stopping and Stopped.
SetVmState(v) ==
  /\ <<store.vm, v>> \in {<<"starting", "running">>, <<"running", "stopping">>,
                          <<"stopping", "stopped">>, <<"starting", "stopped">>}
  /\ mutate("host", [store EXCEPT !.vm = v])
  /\ UNCHANGED <<published, unseen, resetSeen, status, metrics, ssh, waiter, guest, disturbed>>

\* set_forward_service by the capability supervisor, for the identity it was
\* told of; ignored when another agent is current.
SetForwardService(serving) ==
  /\ "forward" \in scenario.who /\ published # NoGuest /\ Disturb
  /\ mutate("forward", IF store.ident = published
                       THEN [store EXCEPT !.forward = serving]
                       ELSE store)
  /\ UNCHANGED <<published, unseen, resetSeen, status, metrics, ssh, waiter, guest>>

------------------------------------------------------------------------------
(* The guest and the clock. *)

\* Another agent instance comes up, or the first one does.
AgentStarts(r) ==
  /\ guest.up < scenario.agents
  /\ guest' = [up |-> guest.up + 1, rep |-> [guest.rep EXCEPT ![guest.up + 1] = r]]
  /\ UNCHANGED <<store, pubq, published, unseen, resetSeen, status, metrics, ssh, waiter, disturbed>>

AgentReports(r) ==
  /\ guest.up # 0 /\ guest.rep[guest.up] # r /\ Disturb
  /\ guest' = [guest EXCEPT !.rep[guest.up] = r]
  /\ UNCHANGED <<store, pubq, published, unseen, resetSeen, status, metrics, ssh, waiter>>

ReceiptExpires ==
  /\ store.rep # NoGuest /\ store.fresh /\ Disturb
  /\ Elapses([store EXCEPT !.fresh = FALSE])
  /\ UNCHANGED <<published, unseen, resetSeen, status, metrics, ssh, waiter, guest>>

\* Evidence is good for 65 seconds.
VerificationLapses ==
  /\ store.ver # NoGuest /\ Disturb
  /\ store.ver.outcome = "verified"
  /\ Elapses([store EXCEPT !.ver.outcome = "lapsed"])
  /\ UNCHANGED <<published, unseen, resetSeen, status, metrics, ssh, waiter, guest>>

------------------------------------------------------------------------------

StoreInit ==
  /\ scenario \in Scenarios
  /\ store = [vm |-> "starting", conn |-> "connecting", ident |-> NoGuest, rep |-> NoGuest,
              fresh |-> FALSE, metrics |-> NoGuest, forward |-> FALSE, epoch |-> 0,
              ver |-> NoGuest]
  /\ pubq = [t \in Threads |-> {}]
  /\ published = NoGuest
  /\ unseen = {}
  /\ resetSeen = TRUE
  /\ status = [pc |-> "retry", agent |-> 0, received |-> FALSE, discovered |-> FALSE,
               connecting |-> FALSE]
  /\ metrics = [pc |-> "wait", agent |-> 0]
  /\ ssh = [pc |-> "idle", target |-> NoGuest, completed |-> 0]
  /\ waiter = "none"
  /\ guest = [up |-> 0, rep |-> [a \in Agents |-> [state |-> "starting", key |-> NoGuest]]]
  /\ disturbed = 0
  /\ clean = FALSE
  /\ proven = FALSE

Step ==
  \/ \E t \in Threads : Publish(t)
  \/ StatusConnects \/ StatusReceived \/ StatusEnds \/ StatusBreaks
  \/ MetricsConnects \/ MetricsReceived \/ MetricsEnds
  \/ SshLooks \/ SshInvalidated \/ SshProbed \/ SshVerified \/ SshFailed
  \/ WaitBegins \/ WaitLooks \/ WaitTimesOut
  \/ \E v \in {"running", "stopping", "stopped"} : SetVmState(v)
  \/ \E b \in BOOLEAN : SetForwardService(b)
  \/ \E r \in Reports : AgentStarts(r) \/ AgentReports(r)
  \/ ReceiptExpires \/ VerificationLapses

\* The history of the evidence: an attempt that begins starts clean, and any
\* change of the listener spoils the attempt and the proof.
Witness ==
  LET same == Listener(store') = Listener(store) IN
  /\ clean' = IF ssh.pc = "idle" /\ ssh'.pc = "network" THEN TRUE ELSE clean /\ same
  /\ proven' = (same /\ (proven \/ (clean /\ ssh.pc = "pin" /\ ssh'.completed = ssh.target.epoch
                                 /\ store'.ver.outcome = "verified")))

StoreNext == Step /\ Witness /\ UNCHANGED scenario

StoreSpec == StoreInit /\ [][StoreNext]_storeVars

stepVars == <<store, pubq, published, unseen, resetSeen, status, metrics, ssh, waiter, guest,
              disturbed>>

------------------------------------------------------------------------------

StoreTypeOK ==
  /\ store \in [vm : {"starting", "running", "stopping", "stopped"},
                conn : {"connecting", "responsive", "unresponsive"},
                ident : Agents \cup {NoGuest}, rep : Reports \cup {NoGuest}, fresh : BOOLEAN,
                metrics : Agents \cup {NoGuest}, forward : BOOLEAN,
                epoch : Nat,
                ver : [epoch : Nat, ident : Agents, key : SshKeys, outcome : Outcomes] \cup {NoGuest}]
  /\ \A t \in Threads : Cardinality(pubq[t]) <= 1
  /\ published \in Agents \cup {NoGuest}
  /\ unseen \subseteq Watchers
  /\ waiter \in {"none", "look", "wait"}

\* A guest with an SSH listener is reported ready only on evidence of this very
\* listener: a probe succeeded that began, and ended, while the listener of the
\* same agent with the same key was eligible without interruption, up to now.
\* (complete_ssh_verification, refresh_ssh_verification, observe_status)
ReadyIsVerified ==
  readiness_detail(store) /\ store.rep.key # NoGuest => proven

\* What the store has of an agent is of one agent: metrics of the current
\* identity, services only with an identity, evidence about it.
OneAgentAtATime ==
  /\ store.metrics # NoGuest => store.metrics = store.ident
  /\ store.forward => store.ident # NoGuest
  /\ ssh_verification_target(store) # NoGuest => store.ver.ident = store.ident

\* No wakeup is lost: a waiter that sleeps, with no publication under way and
\* none unseen, waits for something that has not happened. (wait_ready)
NoLostWakeup ==
  waiter = "wait" /\ "waiter" \notin unseen /\ (\A t \in Threads : Idle(t))
    => readiness(store) = "timed_out"

\* The published identity catches up with the store, whatever order the
\* threads publish in, as long as the VM runs.
PublicationCatchesUp ==
  (published # ready_agent_identity(store))
    ~> (published = ready_agent_identity(store) \/ store.vm # "running")

\* A listener that stays eligible is verified or refused: the host does not
\* forget a verification that it has begun, or wait for a change to begin it.
ListenerIsSettled ==
  LET Waits == store.ver # NoGuest /\ store.ver.outcome = "pending" /\ store.fresh
  IN Waits ~> ~Waits

\* What clients may rely on in the instance state, whatever the order of agents,
\* listeners, evidence and publications: Ready is backed by evidence of this very
\* listener and agent, one agent is current, and no waiter sleeps over a change.
StoreSafe == StoreTypeOK /\ ReadyIsVerified /\ OneAgentAtATime /\ NoLostWakeup

\* Every change is published in the end, and every eligible listener is verified
\* or given up, under fairness of the monitor's own tasks.
StoreSettles == PublicationCatchesUp /\ ListenerIsSettled

=============================================================================
