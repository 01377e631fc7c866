-------------------------- MODULE InstanceStoreProofs --------------------------
(***************************************************************************)
(* StoreSafe for every number of agents, every set of host keys and every   *)
(* scenario.  That a ready guest is a verified one is not inductive: the     *)
(* invariant adds what ties the evidence to the listener.  Evidence is of an *)
(* epoch, an epoch is over before another begins, evidence that does not     *)
(* match the listener is there only behind a receipt that expired, and the   *)
(* attempt under way is about the listener as it is as long as the epoch is  *)
(* its own.                                                                  *)
(***************************************************************************)
EXTENDS InstanceStore, FiniteSetTheorems, TLAPS

Targets == [epoch : Nat, ident : Agents, key : SshKeys, outcome : Outcomes]

Stores == [vm : {"starting", "running", "stopping", "stopped"},
           conn : {"connecting", "responsive", "unresponsive"},
           ident : Agents \cup {NoGuest}, rep : Reports \cup {NoGuest}, fresh : BOOLEAN,
           metrics : Agents \cup {NoGuest}, forward : BOOLEAN,
           epoch : Nat, ver : Targets \cup {NoGuest}]

\* The types, the store and the tasks apart.
StoreTyped == store \in Stores

TasksTyped ==
  /\ scenario \in Scenarios
  /\ published \in Agents \cup {NoGuest}
  /\ status \in [pc : {"retry", "stream"}, agent : 0..MaxAgent, received : BOOLEAN,
                 discovered : BOOLEAN, connecting : BOOLEAN]
  /\ metrics \in [pc : {"wait", "stream"}, agent : 0..MaxAgent]
  /\ metrics.pc = "stream" => metrics.agent # 0
  /\ guest \in [up : 0..MaxAgent, rep : [Agents -> Reports]]

HistoryTyped == clean \in BOOLEAN /\ proven \in BOOLEAN

QueuesTyped == pubq \in [Threads -> {{}} \cup {{i} : i \in Agents \cup {NoGuest}}]

WatchersTyped == unseen \subseteq Watchers /\ waiter \in {"none", "look", "wait"}

SshTyped ==
  /\ ssh \in [pc : {"idle", "network", "pin"}, target : Targets \cup {NoGuest}, completed : Nat]
  /\ ssh.pc # "idle" => ssh.target \in Targets

Matches(s) == s.ver # NoGuest /\ ssh_target_matches(s, s.ver)

EpochOf(s) == s.ver # NoGuest => s.ver.epoch <= s.epoch

\* Epochs only grow.
Epochs == EpochOf(store) /\ (ssh.pc # "idle" => ssh.target.epoch <= store.epoch)

\* Evidence that does not match is behind an expired receipt.
Current == store.ver # NoGuest => Matches(store) \/ (store.rep # NoGuest /\ ~store.fresh)

Evidence == Matches(store) /\ store.ver.outcome = "verified" => proven

\* The attempt of the current epoch has seen one listener all the time.
Attempt == ssh.pc # "idle" /\ Matches(store) /\ store.ver.epoch = ssh.target.epoch => clean

OneAgentOf(s) ==
  (s.metrics # NoGuest => s.metrics = s.ident) /\ (s.forward => s.ident # NoGuest)

StoreSide ==
  /\ StoreTyped /\ QueuesTyped /\ HistoryTyped
  /\ Epochs /\ Current /\ Evidence /\ Attempt /\ OneAgentOf(store)

TaskSide == TasksTyped /\ WatchersTyped /\ SshTyped

StoreInv == StoreSide /\ TaskSide /\ NoLostWakeup

-----------------------------------------------------------------------------
\* The rules of state.rs.

\* What eligible_ssh gives.
LEMMA EligibleIsKey ==
  ASSUME NEW s \in Stores, eligible_ssh(s) # NoGuest
  PROVE  eligible_ssh(s) \in SshKeys
BY Zenon DEF Stores, Reports, Keys, eligible_ssh

\* Forgetting evidence begins an epoch and touches nothing else.
LEMMA Invalidates ==
  ASSUME NEW s \in Stores
  PROVE  LET i == invalidate_ssh_verification(s) IN
         /\ i \in Stores /\ i.ver = NoGuest /\ i.epoch >= s.epoch
         /\ i.vm = s.vm /\ i.conn = s.conn /\ i.ident = s.ident /\ i.rep = s.rep
         /\ i.fresh = s.fresh /\ i.metrics = s.metrics /\ i.forward = s.forward
<1>1. CASE s.ver = NoGuest
  BY <1>1 DEF Stores, invalidate_ssh_verification
<1>2. CASE s.ver # NoGuest
  <2>1. PICK e \in Nat : e = s.epoch + 1
    BY DEF Stores
  <2>2. invalidate_ssh_verification(s) = [s EXCEPT !.epoch = e, !.ver = NoGuest]
    BY <1>2, <2>1, Zenon DEF invalidate_ssh_verification
  <2>3. [s EXCEPT !.epoch = e, !.ver = NoGuest] \in Stores
    BY Zenon DEF Stores
  <2> QED BY <2>1, <2>2, <2>3 DEF Stores
<1> QED BY <1>1, <1>2, Zenon

\* eligible_ssh depends on the report, the agent and the VM only.
LEMMA EligibleDepends ==
  ASSUME NEW s \in Stores, NEW r \in Stores,
         r.vm = s.vm, r.conn = s.conn, r.ident = s.ident, r.rep = s.rep, r.fresh = s.fresh
  PROVE  eligible_ssh(r) = eligible_ssh(s) /\ Listener(r) = Listener(s)
BY Zenon DEF eligible_ssh, Listener

\* refresh_ssh_verification: the evidence stays, goes, or a new epoch begins.
Refreshed(s, r) ==
  /\ r \in Stores /\ r.epoch >= s.epoch /\ EpochOf(r)
  /\ r.vm = s.vm /\ r.conn = s.conn /\ r.ident = s.ident /\ r.rep = s.rep
  /\ r.fresh = s.fresh /\ r.metrics = s.metrics /\ r.forward = s.forward
  /\ \/ r = s /\ Matches(s)
     \/ r.ver = NoGuest
     \/ Matches(r) /\ r.ver.epoch > s.epoch /\ r.ver.outcome = "pending"

\* That is what refresh_ssh_verification does with any store.
LEMMA Refreshes ==
  ASSUME NEW s \in Stores, EpochOf(s)
  PROVE  Refreshed(s, refresh_ssh_verification(s))
<1>1. CASE Matches(s)
  <2>1. refresh_ssh_verification(s) = s
    BY <1>1, Zenon DEF refresh_ssh_verification, Matches
  <2> QED BY <1>1, <2>1 DEF Refreshed, Stores
<1>2. CASE ~Matches(s)
  <2>1. PICK i \in Stores : i = invalidate_ssh_verification(s)
    BY Invalidates, Zenon
  <2>2. /\ i.ver = NoGuest /\ i.epoch >= s.epoch
        /\ i.vm = s.vm /\ i.conn = s.conn /\ i.ident = s.ident /\ i.rep = s.rep
        /\ i.fresh = s.fresh /\ i.metrics = s.metrics /\ i.forward = s.forward
    BY <2>1, Invalidates, Zenon
  <2>3. CASE eligible_ssh(i) = NoGuest \/ i.ident = NoGuest
    <3>1. refresh_ssh_verification(s) = i
      BY <1>2, <2>1, <2>3, Zenon DEF refresh_ssh_verification, Matches
    <3> QED BY <2>2, <3>1, Zenon DEF Refreshed, EpochOf
  <2>4. CASE ~(eligible_ssh(i) = NoGuest \/ i.ident = NoGuest)
    <3>1. PICK t : t = [epoch |-> i.epoch + 1, ident |-> i.ident, key |-> eligible_ssh(i),
                        outcome |-> "pending"]
      BY Zenon
    <3>2. i.epoch \in Nat /\ i.ident \in Agents /\ eligible_ssh(i) \in SshKeys
      BY <2>4, EligibleIsKey, Zenon DEF Stores
    <3>3. t \in Targets /\ t.epoch = i.epoch + 1 /\ t.ident = i.ident /\ t.key = eligible_ssh(i)
          /\ t.outcome = "pending"
      BY <3>1, <3>2 DEF Targets, Outcomes
    <3>a. PICK e \in Nat : e = i.epoch + 1
      BY <3>2
    <3>b. [i EXCEPT !.epoch = e, !.ver = t] \in Stores
      BY <3>3, Zenon DEF Stores
    <3>4. PICK r \in Stores : r = [i EXCEPT !.epoch = e, !.ver = t]
      BY <3>b, Zenon
    <3>5. refresh_ssh_verification(s) = r
      BY <1>2, <2>1, <2>4, <3>1, <3>a, <3>4, Zenon DEF refresh_ssh_verification, Matches
    <3>6. /\ r \in Stores /\ r.ver = t /\ r.epoch = i.epoch + 1
          /\ r.vm = i.vm /\ r.conn = i.conn /\ r.ident = i.ident /\ r.rep = i.rep
          /\ r.fresh = i.fresh /\ r.metrics = i.metrics /\ r.forward = i.forward
      BY <3>a, <3>4 DEF Stores
    <3>7. eligible_ssh(r) = eligible_ssh(i)
      BY <3>6, EligibleDepends, Zenon
    <3>8. t = NoGuest \/ Matches(r)
      BY <2>4, <3>3, <3>6, <3>7, Zenon DEF Matches, ssh_target_matches
    <3>9. s.epoch \in Nat
      BY Zenon DEF Stores
    <3> QED BY <2>2, <3>2, <3>3, <3>5, <3>6, <3>8, <3>9 DEF Refreshed, EpochOf
  <2> QED BY <2>3, <2>4, Zenon
<1> QED BY <1>1, <1>2, Zenon

\* Readiness is that of an agent there is.
LEMMA ReadyIdentity ==
  ASSUME NEW s \in Stores
  PROVE  ready_agent_identity(s) \in Agents \cup {NoGuest}
BY Zenon DEF ready_agent_identity, Stores

-----------------------------------------------------------------------------
\* What a step does to the store.

\* The history is Boolean after every step.
LEMMA HistoryStays ==
  ASSUME HistoryTyped, Witness
  PROVE  HistoryTyped'
<1>1. clean' \in BOOLEAN
  BY Zenon DEF HistoryTyped, Witness
<1>2. proven' \in BOOLEAN
  BY Zenon DEF HistoryTyped, Witness
<1> QED BY <1>1, <1>2, Zenon DEF HistoryTyped

\* While the listener stays the same, attempt and proof stay what they are.
LEMMA SameListener ==
  ASSUME HistoryTyped, Witness, Listener(store') = Listener(store)
  PROVE  (clean => clean') /\ (proven => proven')
BY Zenon DEF HistoryTyped, Witness

\* What an update under the mutex makes of the evidence: nothing new.
Carries(s) ==
  /\ s \in Stores /\ s.epoch >= store.epoch /\ EpochOf(s) /\ OneAgentOf(s)
  /\ Matches(s) => /\ Matches(store) /\ s.ver.epoch = store.ver.epoch
                   /\ Listener(s) = Listener(store)

SshStays == ssh' = ssh \/ ssh'.pc = "idle"

\* mutate_if, for an update that carries the evidence over.
LEMMA MutateKeeps ==
  ASSUME StoreSide, SshTyped, Witness, NEW t \in Threads, NEW s, Carries(s), mutate(t, s), SshStays,
         Matches(s) /\ s.ver.outcome = "verified" => proven'
  PROVE  StoreSide' /\ NoLostWakeup'
<1>1. PICK r : r = refresh_ssh_verification(s)
  BY Zenon
<1>2. Refreshed(s, r)
  BY <1>1, Refreshes, Zenon DEF Carries
<1>3. store' = r /\ pubq' = [pubq EXCEPT ![t] = {ready_agent_identity(r)}]
  BY <1>1, Zenon DEF mutate
<1>4. StoreTyped' /\ OneAgentOf(store')
  BY <1>2, <1>3, Zenon DEF Refreshed, StoreTyped, Carries, OneAgentOf
<1>5. QueuesTyped' /\ pubq'[t] # {}
  BY <1>2, <1>3, ReadyIdentity, Zenon DEF Refreshed, StoreSide, QueuesTyped
<1>6. HistoryTyped'
  BY HistoryStays, Zenon DEF StoreSide
<1>7. Epochs'
  <2>1. r.epoch \in Nat /\ s.epoch \in Nat /\ store.epoch \in Nat
    BY <1>2, Zenon DEF Refreshed, Carries, StoreSide, StoreTyped, Stores
  <2>2. r.epoch >= store.epoch
    BY <1>2, <2>1 DEF Refreshed, Carries
  <2>3. ssh'.pc # "idle" => ssh'.target.epoch <= r.epoch
    <3>1. SUFFICES ASSUME ssh'.pc # "idle" PROVE ssh'.target.epoch <= r.epoch
      BY Zenon
    <3>2. ssh' = ssh
      BY <3>1, Zenon DEF SshStays
    <3>3. ssh.target.epoch \in Nat /\ ssh.target.epoch <= store.epoch
      BY <3>1, <3>2, Zenon DEF StoreSide, Epochs, SshTyped, Targets
    <3> QED BY <3>2, <3>3, <2>1, <2>2
  <2> QED BY <1>2, <1>3, <2>3, Zenon DEF Epochs, Refreshed
<1>8. Current'
  BY <1>2, <1>3, Zenon DEF Current, Refreshed
<1>9. Listener(r) = Listener(s)
  BY <1>2, EligibleDepends, Zenon DEF Refreshed, Carries
<1>10. Evidence'
  <2>1. CASE r = s /\ Matches(s)
    BY <1>3, <2>1, Zenon DEF Evidence
  <2>2. CASE r.ver = NoGuest
    BY <1>3, <2>2, Zenon DEF Evidence, Matches
  <2>3. CASE r.ver.outcome = "pending"
    BY <1>3, <2>3, Zenon DEF Evidence
  <2> QED BY <1>2, <2>1, <2>2, <2>3, Zenon DEF Refreshed
<1>11. Attempt'
  <2>1. CASE r = s /\ Matches(s)
    <3>1. SUFFICES ASSUME ssh'.pc # "idle", store'.ver.epoch = ssh'.target.epoch PROVE clean'
      BY Zenon DEF Attempt
    <3>2. ssh' = ssh
      BY <3>1, Zenon DEF SshStays
    <3>3. Matches(store) /\ store.ver.epoch = ssh.target.epoch
      BY <1>3, <2>1, <3>1, <3>2, Zenon DEF Carries
    <3>4. clean
      BY <3>1, <3>2, <3>3, Zenon DEF StoreSide, Attempt
    <3>5. Listener(store') = Listener(store)
      BY <1>3, <1>9, <2>1, Zenon DEF Carries
    <3> QED BY <3>4, <3>5, SameListener, Zenon DEF StoreSide
  <2>2. CASE r.ver = NoGuest
    BY <1>3, <2>2, Zenon DEF Attempt, Matches
  <2>3. CASE Matches(r) /\ r.ver.epoch > s.epoch
    <3>1. SUFFICES ASSUME ssh'.pc # "idle", store'.ver.epoch = ssh'.target.epoch PROVE FALSE
      BY Zenon DEF Attempt
    <3>2. ssh' = ssh
      BY <3>1, Zenon DEF SshStays
    <3>3. ssh.target.epoch <= store.epoch
      BY <3>1, <3>2, Zenon DEF StoreSide, Epochs
    <3>4. r.ver.epoch \in Nat /\ s.epoch \in Nat /\ store.epoch \in Nat /\ s.epoch >= store.epoch
      BY <1>2, <2>3, Zenon DEF Refreshed, Carries, StoreSide, StoreTyped, Stores, Matches, Targets
    <3> QED BY <1>3, <2>3, <3>1, <3>2, <3>3, <3>4
  <2> QED BY <1>2, <2>1, <2>2, <2>3, Zenon DEF Refreshed
<1>12. NoLostWakeup'
  BY <1>5, Zenon DEF NoLostWakeup, Idle
<1> QED BY <1>4, <1>5, <1>6, <1>7, <1>8, <1>10, <1>11, <1>12, Zenon DEF StoreSide

\* The usual update: the outcome of the evidence is not touched either.
LEMMA CarryKeeps ==
  ASSUME StoreSide, SshTyped, Witness, NEW t \in Threads, NEW s, Carries(s), mutate(t, s), SshStays,
         Matches(s) /\ s.ver.outcome = "verified" => store.ver.outcome = "verified"
  PROVE  StoreSide' /\ NoLostWakeup'
<1>1. ASSUME Matches(s), s.ver.outcome = "verified" PROVE proven'
  <2>1. proven
    BY <1>1, Zenon DEF Carries, StoreSide, Evidence
  <2>2. Refreshed(s, refresh_ssh_verification(s))
    BY Refreshes, Zenon DEF Carries
  <2>3. Listener(store') = Listener(s)
    BY <2>2, EligibleDepends, Zenon DEF Refreshed, Carries, mutate
  <2> QED BY <1>1, <2>1, <2>3, SameListener, Zenon DEF Carries, StoreSide
<1> QED BY <1>1, MutateKeeps, Zenon

\* A step that leaves the store alone.
LEMMA QuietKeeps ==
  ASSUME StoreSide, Witness, UNCHANGED <<store, pubq>>, SshStays
  PROVE  StoreSide'
<1>1. HistoryTyped' /\ (clean => clean') /\ (proven => proven')
  BY HistoryStays, SameListener, Zenon DEF StoreSide
<1>2. StoreTyped' /\ QueuesTyped' /\ Current' /\ OneAgentOf(store')
  BY Zenon DEF StoreSide, StoreTyped, QueuesTyped, Current, Matches
<1>3. Epochs'
  BY Zenon DEF StoreSide, Epochs, SshStays
<1>4. Evidence' /\ Attempt'
  BY <1>1, Zenon DEF StoreSide, Evidence, Attempt, Matches, SshStays
<1> QED BY <1>1, <1>2, <1>3, <1>4, Zenon DEF StoreSide

\* What only time does: evidence and receipts get old.
LEMMA ElapseKeeps ==
  ASSUME StoreSide, NoLostWakeup, Witness, NEW s \in Stores, Elapses(s), UNCHANGED <<ssh, waiter, unseen>>,
         s.epoch = store.epoch, s.vm = store.vm, OneAgentOf(s),
         readiness_detail(s) => readiness_detail(store),
         s.ver # NoGuest => store.ver # NoGuest /\ s.ver.epoch = store.ver.epoch
                              /\ (s.ver.outcome = "verified" => store.ver.outcome = "verified"),
         s.ver # NoGuest => Matches(s) \/ (s.rep # NoGuest /\ ~s.fresh),
         Matches(s) => Matches(store) /\ Listener(s) = Listener(store)
  PROVE  StoreSide' /\ NoLostWakeup'
<1>1. store' = s /\ pubq' = pubq
  BY Zenon DEF Elapses
<1>2. HistoryTyped'
  BY HistoryStays, Zenon DEF StoreSide
<1>3. Matches(s) => (clean => clean') /\ (proven => proven')
  BY <1>1, SameListener, Zenon DEF StoreSide
<1>4. StoreTyped' /\ QueuesTyped' /\ Current' /\ OneAgentOf(store')
  BY <1>1, Zenon DEF StoreSide, StoreTyped, QueuesTyped, Current
<1>5. Epochs'
  BY <1>1, Zenon DEF StoreSide, Epochs, EpochOf
<1>6. Evidence'
  BY <1>1, <1>3, Zenon DEF StoreSide, Evidence, Matches
<1>7. Attempt'
  BY <1>1, <1>3, Zenon DEF StoreSide, Attempt, Matches
<1>8. NoLostWakeup'
  BY <1>1, Zenon DEF NoLostWakeup, Idle, readiness
<1> QED BY <1>1, <1>2, <1>4, <1>5, <1>6, <1>7, <1>8, Zenon DEF StoreSide

-----------------------------------------------------------------------------
\* The steps.

\* A publication: the watchers have a generation to look at.
LEMMA PublishStep ==
  ASSUME StoreInv, Witness, UNCHANGED scenario, NEW t \in Threads, Publish(t)
  PROVE  StoreInv'
<1>1. UNCHANGED <<store, ssh, waiter, metrics, status, guest>>
  BY Zenon DEF Publish
<1>2. \E i \in Agents \cup {NoGuest} : pubq[t] = {i}
  BY Zenon DEF Publish, StoreInv, StoreSide, QueuesTyped
<1>3. published' \in Agents \cup {NoGuest}
  BY <1>2, Zenon DEF Publish
<1>4. TasksTyped' /\ SshTyped'
  BY <1>1, <1>3, Zenon DEF StoreInv, TaskSide, TasksTyped, SshTyped
<1>5. WatchersTyped'
  BY <1>1, Zenon DEF Publish, StoreInv, TaskSide, WatchersTyped, Watchers
<1>6. NoLostWakeup'
  BY <1>1, Zenon DEF Publish, NoLostWakeup, Watchers
<1>7. HistoryTyped' /\ (clean => clean') /\ (proven => proven')
  BY <1>1, HistoryStays, SameListener, Zenon DEF StoreInv, StoreSide
<1>8. StoreTyped' /\ Current' /\ OneAgentOf(store') /\ Epochs'
  BY <1>1, Zenon DEF StoreInv, StoreSide, StoreTyped, Current, Matches, Epochs
<1>9. Evidence' /\ Attempt'
  BY <1>1, <1>7, Zenon DEF StoreInv, StoreSide, Evidence, Attempt, Matches
<1>10. QueuesTyped'
  BY Zenon DEF Publish, StoreInv, StoreSide, QueuesTyped
<1> QED BY <1>4, <1>5, <1>6, <1>7, <1>8, <1>9, <1>10, Zenon DEF StoreInv, StoreSide, TaskSide

\* A change of the connection leaves nothing eligible.
LEMMA ConnectionCarries ==
  ASSUME StoreInv, NEW c \in {"connecting", "unresponsive"}
  PROVE  /\ Carries([store EXCEPT !.conn = c])
         /\ ~Matches([store EXCEPT !.conn = c])
<1>1. PICK s : s = [store EXCEPT !.conn = c]
  BY Zenon
<1>2. s \in Stores /\ s.conn = c /\ s.epoch = store.epoch /\ s.ver = store.ver
      /\ s.metrics = store.metrics /\ s.ident = store.ident /\ s.forward = store.forward
  BY <1>1, Zenon DEF StoreInv, StoreSide, StoreTyped, Stores
<1>3. ~Matches(s)
  BY <1>2, Zenon DEF Matches, ssh_target_matches, eligible_ssh
<1>4. s.epoch >= store.epoch
  BY <1>2 DEF Stores
<1> QED BY <1>1, <1>2, <1>3, <1>4, Zenon DEF Carries, StoreInv, StoreSide, Epochs, EpochOf, OneAgentOf

\* supervise_status connects.
LEMMA StatusConnectsStep ==
  ASSUME StoreInv, Witness, UNCHANGED scenario, StatusConnects
  PROVE  StoreInv'
<1>1. UNCHANGED <<published, unseen, metrics, ssh, waiter, guest>>
  BY Zenon DEF StatusConnects
<1>2. TaskSide'
  BY <1>1, ZenonT(30) DEF StatusConnects, StoreInv, TaskSide, TasksTyped, SshTyped, WatchersTyped, Watchers
<1>3. CASE UNCHANGED <<store, pubq>>
  <2>1. NoLostWakeup'
    BY <1>1, <1>3, Zenon DEF StoreInv, NoLostWakeup, Idle
  <2> QED BY <1>1, <1>2, <1>3, <2>1, QuietKeeps, Zenon DEF StoreInv, SshStays
<1>4. CASE mutate("guest", [store EXCEPT !.conn = "connecting"])
  <2>1. StoreSide' /\ NoLostWakeup'
    BY <1>1, <1>4, ConnectionCarries, CarryKeeps, Zenon DEF StoreInv, TaskSide, SshStays, Threads
  <2> QED BY <1>2, <2>1, Zenon DEF StoreInv
<1> QED BY <1>3, <1>4, Zenon DEF StatusConnects

\* StatusFails, for the two ways in which a stream ends.
LEMMA StatusFailsStep ==
  ASSUME StoreInv, Witness, UNCHANGED <<scenario, published, unseen, metrics, ssh, waiter, guest>>,
         StatusFails
  PROVE  StoreInv'
<1>1. PICK publish \in {status.discovered \/ status.received, TRUE} :
        /\ status' = [status EXCEPT !.pc = "retry",
                        !.discovered = status.discovered \/ status.received, !.connecting = publish]
        /\ IF publish THEN mutate("guest", [store EXCEPT !.conn = "unresponsive"])
                      ELSE UNCHANGED <<store, pubq>>
  BY Zenon DEF StatusFails
<1>2. TaskSide'
  BY <1>1, ZenonT(30) DEF StoreInv, TaskSide, TasksTyped, SshTyped, WatchersTyped, Watchers
<1>3. CASE UNCHANGED <<store, pubq>>
  <2>1. NoLostWakeup'
    BY <1>3, Zenon DEF StoreInv, NoLostWakeup, Idle
  <2> QED BY <1>2, <1>3, <2>1, QuietKeeps, Zenon DEF StoreInv, SshStays
<1>4. CASE mutate("guest", [store EXCEPT !.conn = "unresponsive"])
  <2>1. StoreSide' /\ NoLostWakeup'
    BY <1>4, ConnectionCarries, CarryKeeps, Zenon DEF StoreInv, TaskSide, SshStays, Threads
  <2> QED BY <1>2, <2>1, Zenon DEF StoreInv
<1> QED BY <1>1, <1>3, <1>4, Zenon

\* A status message: evidence behind an expired receipt is gone before the
\* receipt is renewed, and another agent takes nothing over.
LEMMA ObserveCarries ==
  ASSUME StoreInv, NEW a \in Agents, NEW r \in Reports
  PROVE  LET s == observe_status(store, a, r) IN
         Carries(s) /\ (Matches(s) /\ s.ver.outcome = "verified" => store.ver.outcome = "verified")
<1>1. store \in Stores
  BY Zenon DEF StoreInv, StoreSide, StoreTyped
<1>2. PICK i : i = IF store.rep # NoGuest /\ ~store.fresh
                   THEN invalidate_ssh_verification(store) ELSE store
  BY Zenon
<1>3. /\ i \in Stores /\ i.epoch >= store.epoch /\ (i = store \/ i.ver = NoGuest)
      /\ i.vm = store.vm /\ i.ident = store.ident
      /\ i.metrics = store.metrics /\ i.forward = store.forward
  BY <1>1, <1>2, Invalidates DEF Stores
<1>4. i.ver # NoGuest => i = store /\ Matches(store)
  <2>1. CASE store.rep # NoGuest /\ ~store.fresh
    BY <1>1, <1>2, <2>1, Invalidates, Zenon
  <2>2. CASE ~(store.rep # NoGuest /\ ~store.fresh)
    BY <1>2, <2>2, Zenon DEF StoreInv, StoreSide, Current
  <2> QED BY <2>1, <2>2, Zenon
<1>5. PICK m \in Agents \cup {NoGuest} : m = IF i.ident # NoGuest /\ i.ident # a THEN NoGuest ELSE i.metrics
  BY <1>3, Zenon DEF Stores
<1>6. PICK f \in BOOLEAN : f = (~(i.ident # NoGuest /\ i.ident # a) /\ i.ident # NoGuest /\ i.forward)
  BY Zenon
<1>7. PICK s : s = [i EXCEPT !.metrics = m, !.forward = f, !.ident = a, !.conn = "responsive",
                             !.rep = r, !.fresh = TRUE]
  BY Zenon
<1>8. observe_status(store, a, r) = s
  BY <1>2, <1>5, <1>6, <1>7, Zenon DEF observe_status
<1>9. s \in Stores
  BY <1>3, <1>7, ZenonT(30) DEF Stores
<1>10. /\ s.metrics = m /\ s.forward = f /\ s.ident = a /\ s.conn = "responsive" /\ s.rep = r
       /\ s.fresh /\ s.epoch = i.epoch /\ s.ver = i.ver /\ s.vm = i.vm
  BY <1>3, <1>7, Zenon DEF Stores
<1>11. EpochOf(s)
  <2>1. CASE i.ver = NoGuest
    BY <1>10, <2>1, Zenon DEF EpochOf
  <2>2. CASE i = store
    BY <1>10, <2>2, Zenon DEF EpochOf, StoreInv, StoreSide, Epochs
  <2> QED BY <1>3, <2>1, <2>2, Zenon
<1>12. a # NoGuest
  BY StoreAssumption DEF Agents
<1>13. OneAgentOf(s)
  <2>1. m # NoGuest => m = a
    BY <1>3, <1>5, Zenon DEF StoreInv, StoreSide, OneAgentOf
  <2> QED BY <1>10, <1>12, <2>1, Zenon DEF OneAgentOf
<1>14. ASSUME Matches(s)
       PROVE  /\ Matches(store) /\ s.ver = store.ver /\ Listener(s) = Listener(store)
  <2>1. i = store /\ Matches(store) /\ s.ver = store.ver
    BY <1>4, <1>10, <1>14, Zenon DEF Matches
  <2>2. /\ s.ident = s.ver.ident /\ store.ident = store.ver.ident
        /\ eligible_ssh(s) = s.ver.key /\ eligible_ssh(store) = store.ver.key
    BY <2>1, <1>14, Zenon DEF Matches, ssh_target_matches
  <2> QED BY <2>1, <2>2, Zenon DEF Listener
<1> QED BY <1>3, <1>8, <1>9, <1>10, <1>11, <1>13, <1>14, Zenon DEF Carries

\* A status of the guest is observed.
LEMMA StatusReceivedStep ==
  ASSUME StoreInv, Witness, UNCHANGED scenario, StatusReceived
  PROVE  StoreInv'
<1>1. UNCHANGED <<published, unseen, metrics, ssh, waiter, guest>>
  BY Zenon DEF StatusReceived
<1>2. TaskSide'
  BY <1>1, ZenonT(30) DEF StatusReceived, StoreInv, TaskSide, TasksTyped, SshTyped, WatchersTyped, Watchers
<1>3. status.agent \in Agents /\ guest.rep[status.agent] \in Reports
  BY StoreAssumption DEF StatusReceived, StoreInv, TaskSide, TasksTyped, Agents
<1>4. mutate("guest", observe_status(store, status.agent, guest.rep[status.agent]))
  BY Zenon DEF StatusReceived
<1>5. StoreSide' /\ NoLostWakeup'
  BY <1>1, <1>3, <1>4, ObserveCarries, CarryKeeps, Zenon DEF StoreInv, TaskSide, SshStays, Threads
<1> QED BY <1>2, <1>5, Zenon DEF StoreInv

\* The metrics stream connects or ends, which the store does not see.
LEMMA MetricsQuietStep ==
  ASSUME StoreInv, Witness, UNCHANGED scenario, MetricsConnects \/ MetricsEnds
  PROVE  StoreInv'
<1>1. UNCHANGED <<store, pubq, published, unseen, status, ssh, waiter, guest>>
  BY Zenon DEF MetricsConnects, MetricsEnds
<1>2. TasksTyped'
  BY <1>1, StoreAssumption DEF MetricsConnects, MetricsEnds, StoreInv, TaskSide, TasksTyped
<1>3. SshTyped' /\ WatchersTyped' /\ NoLostWakeup'
  BY <1>1, Zenon DEF StoreInv, TaskSide, SshTyped, WatchersTyped, Watchers, NoLostWakeup, Idle
<1> QED BY <1>1, <1>2, <1>3, QuietKeeps, Zenon DEF StoreInv, SshStays, TaskSide

\* Metrics of the current agent are no evidence of anything else; metrics of
\* another one clear what is known of it.
LEMMA MetricsReceivedStep ==
  ASSUME StoreInv, Witness, UNCHANGED scenario, MetricsReceived
  PROVE  StoreInv'
<1>1. UNCHANGED <<published, unseen, status, ssh, waiter, guest>>
  BY Zenon DEF MetricsReceived
<1>2. TaskSide'
  BY <1>1, StoreAssumption
  DEF MetricsReceived, StoreInv, TaskSide, TasksTyped, SshTyped, WatchersTyped, Watchers
<1>3. store \in Stores
  BY DEF StoreInv, StoreSide, StoreTyped
<1>4. CASE UNCHANGED <<store, pubq>>
  <2>1. NoLostWakeup'
    BY <1>1, <1>4, Zenon DEF StoreInv, NoLostWakeup, Idle
  <2> QED BY <1>1, <1>2, <1>4, <2>1, QuietKeeps, Zenon DEF StoreInv, SshStays
<1>5. CASE /\ store.ident # NoGuest /\ store.ident = metrics.agent
           /\ store' = [store EXCEPT !.metrics = metrics.agent] /\ UNCHANGED pubq
  <2>1. PICK s : s = [store EXCEPT !.metrics = metrics.agent]
    BY Zenon
  <2>2. metrics.agent \in Agents
    BY <1>3, <1>5, Zenon DEF Stores
  <2>3. s \in Stores
    BY <1>3, <2>1, <2>2, Zenon DEF Stores
  <2>4. /\ s.metrics = metrics.agent /\ s.forward = store.forward /\ s.ident = store.ident
        /\ s.conn = store.conn /\ s.rep = store.rep /\ s.fresh = store.fresh
        /\ s.epoch = store.epoch /\ s.ver = store.ver /\ s.vm = store.vm
    BY <1>3, <2>1, Zenon DEF Stores
  <2>5. eligible_ssh(s) = eligible_ssh(store) /\ Listener(s) = Listener(store)
    BY <1>3, <2>3, <2>4, EligibleDepends, Zenon
  <2>6. (Matches(s) <=> Matches(store)) /\ (readiness_detail(s) => readiness_detail(store))
    BY <2>4, <2>5, Zenon DEF Matches, ssh_target_matches, readiness_detail, kex_verified
  <2>7. OneAgentOf(s)
    BY <1>5, <2>4, Zenon DEF OneAgentOf, StoreInv, StoreSide
  <2>8. s.ver # NoGuest => Matches(s) \/ (s.rep # NoGuest /\ ~s.fresh)
    BY <2>4, <2>6, Zenon DEF StoreInv, StoreSide, Current
  <2>9. Elapses(s)
    BY <1>5, <2>1, Zenon DEF Elapses
  <2>10. StoreSide' /\ NoLostWakeup'
    BY <1>1, <2>3, <2>4, <2>5, <2>6, <2>7, <2>8, <2>9, ElapseKeeps, Zenon DEF StoreInv
  <2> QED BY <1>2, <2>10, Zenon DEF StoreInv
<1>6. CASE /\ store' = invalidate_ssh_verification(
                         [store EXCEPT !.ident = NoGuest, !.rep = NoGuest, !.metrics = NoGuest,
                                       !.forward = FALSE])
           /\ pubq' = [pubq EXCEPT !["guest"] = {ready_agent_identity(store')}]
  <2>1. PICK s : s = [store EXCEPT !.ident = NoGuest, !.rep = NoGuest, !.metrics = NoGuest,
                                   !.forward = FALSE]
    BY Zenon
  <2>2. s \in Stores /\ s.metrics = NoGuest /\ s.forward = FALSE /\ s.epoch = store.epoch
    BY <1>3, <2>1, Zenon DEF Stores
  <2>3. store' \in Stores /\ store'.ver = NoGuest /\ store'.metrics = NoGuest /\ store'.forward = FALSE
        /\ store'.epoch >= store.epoch
    BY <1>6, <2>1, <2>2, Invalidates, Zenon
  <2>4. StoreTyped' /\ OneAgentOf(store')
    BY <2>3, Zenon DEF StoreTyped, OneAgentOf
  <2>5. Current' /\ Evidence' /\ Attempt'
    BY <2>3, Zenon DEF Current, Evidence, Attempt, Matches
  <2>6. Epochs'
    <3>1. ssh.pc # "idle" => ssh.target.epoch \in Nat /\ ssh.target.epoch <= store.epoch
      BY Zenon DEF StoreInv, StoreSide, TaskSide, Epochs, SshTyped, Targets
    <3>2. store.epoch \in Nat /\ store'.epoch \in Nat
      BY <1>3, <2>3, Zenon DEF Stores
    <3> QED BY <1>1, <2>3, <3>1, <3>2 DEF Epochs, EpochOf
  <2>7. QueuesTyped' /\ pubq'["guest"] # {}
    BY <1>6, <2>3, ReadyIdentity, Zenon DEF StoreInv, StoreSide, QueuesTyped, Threads
  <2>8. NoLostWakeup'
    BY <2>7, Zenon DEF NoLostWakeup, Idle, Threads
  <2>9. HistoryTyped'
    BY HistoryStays, Zenon DEF StoreInv, StoreSide
  <2> QED BY <1>2, <2>4, <2>5, <2>6, <2>7, <2>8, <2>9, Zenon DEF StoreInv, StoreSide
<1> QED BY <1>4, <1>5, <1>6, Zenon DEF MetricsReceived

\* The top of the SSH supervisor: an attempt begins with the evidence that is
\* pending now.
LEMMA SshLooksStep ==
  ASSUME StoreInv, Witness, UNCHANGED scenario, SshLooks
  PROVE  StoreInv'
<1>1. UNCHANGED <<store, pubq, published, status, metrics, waiter, guest>> /\ ssh.pc = "idle"
  BY Zenon DEF SshLooks
<1>2. TasksTyped'
  BY <1>1, Zenon DEF StoreInv, TaskSide, TasksTyped
<1>3. WatchersTyped' /\ NoLostWakeup'
  BY <1>1, Zenon DEF SshLooks, StoreInv, TaskSide, WatchersTyped, Watchers, NoLostWakeup, Idle
<1>4. CASE UNCHANGED ssh
  BY <1>1, <1>2, <1>3, <1>4, QuietKeeps, Zenon DEF StoreInv, SshStays, TaskSide, SshTyped
<1>5. CASE /\ ssh_verification_target(store) # NoGuest
           /\ ssh' = [ssh EXCEPT !.pc = "network", !.target = ssh_verification_target(store)]
  <2>1. Matches(store) /\ ssh_verification_target(store) = store.ver
    BY <1>5, Zenon DEF ssh_verification_target, Matches
  <2>2. store.ver \in Targets
    BY <2>1, Zenon DEF Matches, StoreInv, StoreSide, StoreTyped, Stores
  <2>3. ssh'.pc = "network" /\ ssh'.target = store.ver
    BY <1>5, <2>1, Zenon DEF StoreInv, TaskSide, SshTyped
  <2>4. SshTyped'
    BY <1>5, <2>1, <2>2, Zenon DEF StoreInv, TaskSide, SshTyped
  <2>5. clean'
    BY <1>1, <2>3, Zenon DEF Witness
  <2>6. HistoryTyped' /\ (proven => proven')
    BY <1>1, HistoryStays, SameListener, Zenon DEF StoreInv, StoreSide
  <2>7. StoreTyped' /\ QueuesTyped' /\ Current' /\ OneAgentOf(store')
    BY <1>1, Zenon DEF StoreInv, StoreSide, StoreTyped, QueuesTyped, Current, Matches
  <2>8. Epochs'
    BY <1>1, <2>1, <2>3, Zenon DEF StoreInv, StoreSide, Epochs, EpochOf, Matches
  <2>9. Evidence' /\ Attempt'
    BY <1>1, <2>5, <2>6, Zenon DEF StoreInv, StoreSide, Evidence, Attempt, Matches
  <2> QED BY <1>2, <1>3, <2>4, <2>6, <2>7, <2>8, <2>9, Zenon DEF StoreInv, StoreSide, TaskSide
<1> QED BY <1>4, <1>5, Zenon DEF SshLooks

\* An attempt is dropped, or goes on with the pin; neither changes the store.
LEMMA SshQuietStep ==
  ASSUME StoreInv, Witness, UNCHANGED scenario, SshInvalidated \/ SshProbed
  PROVE  StoreInv'
<1>1. UNCHANGED <<store, pubq, published, status, metrics, waiter, guest>> /\ ssh.pc # "idle"
  BY Zenon DEF SshInvalidated, SshProbed
<1>2. TasksTyped'
  BY <1>1, Zenon DEF StoreInv, TaskSide, TasksTyped
<1>3. WatchersTyped' /\ NoLostWakeup'
  BY <1>1, Zenon DEF SshInvalidated, SshProbed, StoreInv, TaskSide, WatchersTyped, Watchers,
              NoLostWakeup, Idle
<1>4. CASE ssh' = [ssh EXCEPT !.pc = "idle", !.target = NoGuest]
  <2>1. SshTyped' /\ ssh'.pc = "idle"
    BY <1>4, Zenon DEF StoreInv, TaskSide, SshTyped
  <2> QED BY <1>1, <1>2, <1>3, <2>1, QuietKeeps, Zenon DEF StoreInv, SshStays, TaskSide
<1>5. CASE ssh' = [ssh EXCEPT !.pc = "pin"]
  <2>1. SshTyped' /\ ssh'.pc = "pin" /\ ssh'.target = ssh.target
    BY <1>1, <1>5, Zenon DEF StoreInv, TaskSide, SshTyped
  <2>2. HistoryTyped' /\ (clean => clean') /\ (proven => proven')
    BY <1>1, HistoryStays, SameListener, Zenon DEF StoreInv, StoreSide
  <2>3. StoreTyped' /\ QueuesTyped' /\ Current' /\ OneAgentOf(store')
    BY <1>1, Zenon DEF StoreInv, StoreSide, StoreTyped, QueuesTyped, Current, Matches
  <2>4. Epochs'
    BY <1>1, <2>1, Zenon DEF StoreInv, StoreSide, Epochs
  <2>5. Evidence' /\ Attempt'
    BY <1>1, <2>1, <2>2, Zenon DEF StoreInv, StoreSide, Evidence, Attempt, Matches
  <2> QED BY <1>2, <1>3, <2>1, <2>2, <2>3, <2>4, <2>5, Zenon DEF StoreInv, StoreSide, TaskSide
<1> QED BY <1>4, <1>5, Zenon DEF SshInvalidated, SshProbed

\* An outcome: it is about the target that was probed, so the listener was the
\* same for the whole of the attempt.
LEMMA CompleteStep ==
  ASSUME StoreInv, Witness, UNCHANGED scenario, NEW o \in {"verified", "failed"},
         ssh.pc # "idle", o = "verified" => ssh.pc = "pin",
         complete_ssh_verification(store, ssh.target, o),
         ssh' = [pc |-> "idle", target |-> NoGuest, completed |-> ssh.target.epoch],
         UNCHANGED <<published, unseen, status, metrics, waiter, guest>>
  PROVE  StoreInv'
<1>1. TasksTyped' /\ WatchersTyped' /\ SshTyped' /\ ssh'.pc = "idle"
  BY Zenon DEF StoreInv, TaskSide, TasksTyped, WatchersTyped, Watchers, SshTyped, Targets
<1>2. CASE UNCHANGED <<store, pubq>>
  <2>1. NoLostWakeup'
    BY <1>2, Zenon DEF StoreInv, NoLostWakeup, Idle
  <2> QED BY <1>1, <1>2, <2>1, QuietKeeps, Zenon DEF StoreInv, SshStays, TaskSide
<1>3. CASE /\ Matches(store) /\ store.ver.epoch = ssh.target.epoch
           /\ mutate("guest", [store EXCEPT !.ver.outcome = o])
  <2>1. store \in Stores /\ store.ver \in Targets
    BY <1>3, Zenon DEF StoreInv, StoreSide, StoreTyped, Stores, Matches
  <2>2. PICK v \in Targets : v = [store.ver EXCEPT !.outcome = o]
    BY <2>1, Zenon DEF Targets, Outcomes
  <2>3. v.epoch = store.ver.epoch /\ v.ident = store.ver.ident /\ v.key = store.ver.key /\ v.outcome = o
    BY <2>1, <2>2, Zenon DEF Targets
  <2>4. PICK s : s = [store EXCEPT !.ver = v]
    BY Zenon
  <2>5. s = [store EXCEPT !.ver.outcome = o]
    BY <2>1, <2>2, <2>4, Zenon DEF Stores
  <2>6. s \in Stores
    BY <2>1, <2>4, Zenon DEF Stores
  <2>7. /\ s.metrics = store.metrics /\ s.forward = store.forward /\ s.ident = store.ident
        /\ s.conn = store.conn /\ s.rep = store.rep /\ s.fresh = store.fresh
        /\ s.epoch = store.epoch /\ s.ver = v /\ s.vm = store.vm
    BY <2>1, <2>4, Zenon DEF Stores
  <2>8. eligible_ssh(s) = eligible_ssh(store) /\ Listener(s) = Listener(store)
    BY <2>1, <2>6, <2>7, EligibleDepends, Zenon
  <2>9. s.epoch >= store.epoch
    BY <2>1, <2>7, SMTT(30) DEF Stores
  <2>10. Carries(s)
    BY <1>3, <2>3, <2>6, <2>7, <2>8, <2>9, Zenon
    DEF Carries, StoreInv, StoreSide, Epochs, EpochOf, OneAgentOf, Matches
  <2>11. ASSUME Matches(s), s.ver.outcome = "verified" PROVE proven'
    <3>1. o = "verified" /\ ssh.pc = "pin"
      BY <2>3, <2>7, <2>11, Zenon
    <3>2. clean
      BY <1>3, Zenon DEF StoreInv, StoreSide, Attempt
    <3>3. store' = s
      BY <1>3, <2>5, <2>11, Zenon DEF mutate, refresh_ssh_verification, Matches
    <3>4. ssh'.completed = ssh.target.epoch
      BY Zenon
    <3> QED BY <2>8, <2>11, <3>1, <3>2, <3>3, <3>4, Zenon DEF Witness
  <2>12. StoreSide' /\ NoLostWakeup'
    BY <1>1, <1>3, <2>5, <2>10, <2>11, MutateKeeps, Zenon DEF StoreInv, TaskSide, SshStays, Threads
  <2> QED BY <1>1, <2>12, Zenon DEF StoreInv, TaskSide
<1> QED BY <1>2, <1>3, Zenon DEF complete_ssh_verification, Matches

\* The verification of the ssh listener ends either way.
LEMMA SshEndsStep ==
  ASSUME StoreInv, Witness, UNCHANGED scenario, SshVerified \/ SshFailed
  PROVE  StoreInv'
<1>1. CASE SshVerified
  BY <1>1, CompleteStep, Zenon DEF SshVerified
<1>2. CASE SshFailed
  BY <1>2, CompleteStep, Zenon DEF SshFailed
<1> QED BY <1>1, <1>2, Zenon

\* The waiter sleeps only after a look at a guest that is not ready.
LEMMA WaiterStep ==
  ASSUME StoreInv, Witness, UNCHANGED scenario, WaitBegins \/ WaitLooks \/ WaitTimesOut
  PROVE  StoreInv'
<1>1. UNCHANGED <<store, pubq, published, status, metrics, ssh, guest>>
  BY Zenon DEF WaitBegins, WaitLooks, WaitTimesOut
<1>2. TasksTyped' /\ SshTyped'
  BY <1>1, Zenon DEF StoreInv, TaskSide, TasksTyped, SshTyped
<1>3. WatchersTyped'
  BY Zenon DEF WaitBegins, WaitLooks, WaitTimesOut, StoreInv, TaskSide, WatchersTyped, Watchers
<1>4. NoLostWakeup'
  BY <1>1, Zenon DEF WaitBegins, WaitLooks, WaitTimesOut, NoLostWakeup
<1> QED BY <1>1, <1>2, <1>3, <1>4, QuietKeeps, Zenon DEF StoreInv, SshStays, TaskSide

\* A change of the VM leaves no evidence: none was there before it ran.
LEMMA SetVmStateStep ==
  ASSUME StoreInv, Witness, UNCHANGED scenario, NEW v \in {"running", "stopping", "stopped"},
         SetVmState(v)
  PROVE  StoreInv'
<1>1. UNCHANGED <<published, unseen, status, metrics, ssh, waiter, guest>>
  BY Zenon DEF SetVmState
<1>2. TaskSide'
  BY <1>1 DEF StoreInv, TaskSide, TasksTyped, SshTyped, WatchersTyped, Watchers
<1>3. store \in Stores
  BY Zenon DEF StoreInv, StoreSide, StoreTyped
<1>4. PICK s : s = [store EXCEPT !.vm = v]
  BY Zenon
<1>5. s \in Stores
  BY <1>3, <1>4, Zenon DEF Stores
<1>6. /\ s.metrics = store.metrics /\ s.forward = store.forward /\ s.ident = store.ident
      /\ s.conn = store.conn /\ s.rep = store.rep /\ s.fresh = store.fresh
      /\ s.epoch = store.epoch /\ s.ver = store.ver /\ s.vm = v
  BY <1>3, <1>4, Zenon DEF Stores
<1>7. ~Matches(s)
  <2>1. SUFFICES ASSUME Matches(s) PROVE FALSE
    BY Zenon
  <2>2. v = "running" /\ s.fresh /\ s.ver # NoGuest
    BY <1>6, <2>1, Zenon DEF Matches, ssh_target_matches, eligible_ssh
  <2>3. store.vm = "starting"
    BY <2>2, Zenon DEF SetVmState
  <2>4. ~Matches(store)
    BY <2>3, Zenon DEF Matches, ssh_target_matches, eligible_ssh
  <2> QED BY <1>6, <2>2, <2>4, Zenon DEF StoreInv, StoreSide, Current
<1>8. s.epoch >= store.epoch
  BY <1>3, <1>6 DEF Stores
<1>9. Carries(s)
  BY <1>5, <1>6, <1>7, <1>8, Zenon DEF Carries, StoreInv, StoreSide, Epochs, EpochOf, OneAgentOf
<1>10. mutate("host", s)
  BY <1>4, Zenon DEF SetVmState
<1>11. StoreSide' /\ NoLostWakeup'
  BY <1>1, <1>7, <1>9, <1>10, CarryKeeps, Zenon DEF StoreInv, TaskSide, SshStays, Threads
<1> QED BY <1>2, <1>11, Zenon DEF StoreInv

\* The service of an agent is set for the agent that is current.
LEMMA SetForwardServiceStep ==
  ASSUME StoreInv, Witness, UNCHANGED scenario, NEW b \in BOOLEAN, SetForwardService(b)
  PROVE  StoreInv'
<1>1. UNCHANGED <<published, unseen, status, metrics, ssh, waiter, guest>>
  BY Zenon DEF SetForwardService
<1>2. TaskSide'
  BY <1>1 DEF StoreInv, TaskSide, TasksTyped, SshTyped, WatchersTyped, Watchers
<1>3. store \in Stores
  BY Zenon DEF StoreInv, StoreSide, StoreTyped
<1>4. PICK s : s = IF store.ident = published THEN [store EXCEPT !.forward = b] ELSE store
  BY Zenon
<1>5. s \in Stores
  BY <1>3, <1>4, Zenon DEF Stores
<1>6. /\ s.metrics = store.metrics /\ s.ident = store.ident
      /\ s.conn = store.conn /\ s.rep = store.rep /\ s.fresh = store.fresh
      /\ s.epoch = store.epoch /\ s.ver = store.ver /\ s.vm = store.vm
  BY <1>3, <1>4, Zenon DEF Stores
<1>7. s.forward => store.ident # NoGuest
  BY <1>3, <1>4, Zenon DEF SetForwardService, StoreInv, StoreSide, OneAgentOf, Stores
<1>8. eligible_ssh(s) = eligible_ssh(store) /\ Listener(s) = Listener(store)
  BY <1>3, <1>5, <1>6, EligibleDepends, Zenon
<1>9. s.epoch >= store.epoch
  BY <1>3, <1>6 DEF Stores
<1>10. Carries(s)
  BY <1>5, <1>6, <1>7, <1>8, <1>9, Zenon
  DEF Carries, StoreInv, StoreSide, Epochs, EpochOf, OneAgentOf, Matches, ssh_target_matches
<1>11. mutate("forward", s)
  BY <1>4, Zenon DEF SetForwardService
<1>12. StoreSide' /\ NoLostWakeup'
  BY <1>1, <1>6, <1>10, <1>11, CarryKeeps, Zenon DEF StoreInv, TaskSide, SshStays, Threads
<1> QED BY <1>2, <1>12, Zenon DEF StoreInv

\* The guest changes by itself.
LEMMA GuestStep ==
  ASSUME StoreInv, Witness, UNCHANGED scenario, NEW r \in Reports, AgentStarts(r) \/ AgentReports(r)
  PROVE  StoreInv'
<1>1. UNCHANGED <<store, pubq, published, unseen, status, metrics, ssh, waiter>>
  BY Zenon DEF AgentStarts, AgentReports
<1>2. guest' \in [up : 0..MaxAgent, rep : [Agents -> Reports]]
  <2>1. CASE AgentStarts(r)
    <3>1. guest.up + 1 \in 0..MaxAgent
      BY <2>1, StoreAssumption DEF AgentStarts, StoreInv, TaskSide, TasksTyped
    <3>2. [guest.rep EXCEPT ![guest.up + 1] = r] \in [Agents -> Reports]
      BY Zenon DEF StoreInv, TaskSide, TasksTyped
    <3> QED BY <2>1, <3>1, <3>2, Zenon DEF AgentStarts
  <2>2. CASE AgentReports(r)
    BY <2>2, Zenon DEF AgentReports, StoreInv, TaskSide, TasksTyped
  <2> QED BY <2>1, <2>2, Zenon
<1>3. TasksTyped' /\ SshTyped' /\ WatchersTyped' /\ NoLostWakeup'
  BY <1>1, <1>2, SMTT(30) DEF StoreInv, TaskSide, TasksTyped, SshTyped, WatchersTyped, Watchers,
                    NoLostWakeup, Idle
<1> QED BY <1>1, <1>3, QuietKeeps, Zenon DEF StoreInv, SshStays, TaskSide

\* A receipt expires: what it carried counts no longer.
LEMMA ReceiptExpiresStep ==
  ASSUME StoreInv, Witness, UNCHANGED scenario, ReceiptExpires
  PROVE  StoreInv'
<1>1. UNCHANGED <<published, unseen, status, metrics, ssh, waiter, guest>>
  BY Zenon DEF ReceiptExpires
<1>2. TaskSide'
  BY <1>1 DEF StoreInv, TaskSide, TasksTyped, SshTyped, WatchersTyped, Watchers
<1>3. store \in Stores
  BY Zenon DEF StoreInv, StoreSide, StoreTyped
<1>4. PICK s : s = [store EXCEPT !.fresh = FALSE]
  BY Zenon
<1>5. s \in Stores
  BY <1>3, <1>4, Zenon DEF Stores
<1>6. /\ s.metrics = store.metrics /\ s.forward = store.forward /\ s.ident = store.ident
      /\ s.rep = store.rep /\ ~s.fresh
      /\ s.epoch = store.epoch /\ s.ver = store.ver /\ s.vm = store.vm
  BY <1>3, <1>4, Zenon DEF Stores
<1>7. ~Matches(s) /\ ~readiness_detail(s)
  BY <1>6, Zenon DEF Matches, ssh_target_matches, eligible_ssh, readiness_detail
<1>8. OneAgentOf(s)
  BY <1>6, Zenon DEF OneAgentOf, StoreInv, StoreSide
<1>9. Elapses(s) /\ store.rep # NoGuest
  BY <1>4, Zenon DEF ReceiptExpires
<1>10. StoreSide' /\ NoLostWakeup'
  BY <1>1, <1>5, <1>6, <1>7, <1>8, <1>9, ElapseKeeps DEF StoreInv
<1> QED BY <1>2, <1>10, Zenon DEF StoreInv

\* Evidence gets too old.
LEMMA VerificationLapsesStep ==
  ASSUME StoreInv, Witness, UNCHANGED scenario, VerificationLapses
  PROVE  StoreInv'
<1>1. UNCHANGED <<published, unseen, status, metrics, ssh, waiter, guest>>
  BY Zenon DEF VerificationLapses
<1>2. TaskSide'
  BY <1>1, Zenon DEF StoreInv, TaskSide, TasksTyped, SshTyped, WatchersTyped, Watchers
<1>3. store \in Stores /\ store.ver \in Targets
  BY Zenon DEF StoreInv, StoreSide, StoreTyped, VerificationLapses, Stores
<1>4. PICK w \in Targets : w = [store.ver EXCEPT !.outcome = "lapsed"]
  BY <1>3, Zenon DEF Targets, Outcomes
<1>5. w.epoch = store.ver.epoch /\ w.ident = store.ver.ident /\ w.key = store.ver.key
      /\ w.outcome = "lapsed"
  BY <1>3, <1>4, Zenon DEF Targets
<1>6. PICK s : s = [store EXCEPT !.ver = w]
  BY Zenon
<1>7. s = [store EXCEPT !.ver.outcome = "lapsed"]
  BY <1>3, <1>4, <1>6, Zenon DEF Stores
<1>8. s \in Stores
  BY <1>3, <1>6, Zenon DEF Stores
<1>9. /\ s.metrics = store.metrics /\ s.forward = store.forward /\ s.ident = store.ident
      /\ s.conn = store.conn /\ s.rep = store.rep /\ s.fresh = store.fresh
      /\ s.epoch = store.epoch /\ s.ver = w /\ s.vm = store.vm
  BY <1>3, <1>6, Zenon DEF Stores
<1>10. eligible_ssh(s) = eligible_ssh(store) /\ Listener(s) = Listener(store)
  BY <1>3, <1>8, <1>9, EligibleDepends, Zenon
<1>11. store.ver # NoGuest
  BY Zenon DEF VerificationLapses
<1>12. Matches(s) => Matches(store)
  BY <1>5, <1>9, <1>10, <1>11, Zenon DEF Matches, ssh_target_matches
<1>13. s.ver # NoGuest => Matches(s) \/ (s.rep # NoGuest /\ ~s.fresh)
  BY <1>5, <1>9, <1>10, <1>11, Zenon DEF Matches, ssh_target_matches, StoreInv, StoreSide, Current
<1>14. readiness_detail(s) => readiness_detail(store)
  BY <1>5, <1>9, Zenon DEF readiness_detail, kex_verified
<1>15. OneAgentOf(s)
  BY <1>9, Zenon DEF OneAgentOf, StoreInv, StoreSide
<1>16. Elapses(s)
  BY <1>7, Zenon DEF VerificationLapses
<1>17. StoreSide' /\ NoLostWakeup'
  BY <1>1, <1>5, <1>8, <1>9, <1>10, <1>11, <1>12, <1>13, <1>14, <1>15, <1>16, ElapseKeeps
  DEF StoreInv
<1> QED BY <1>2, <1>17, Zenon DEF StoreInv

-----------------------------------------------------------------------------
\* The initial state.
LEMMA StoreInitInv == StoreInit => StoreInv
<1> SUFFICES ASSUME StoreInit PROVE StoreInv
  BY Zenon
<1>1. StoreTyped /\ QueuesTyped /\ HistoryTyped
  BY StoreAssumption, Zenon DEF StoreInit, StoreTyped, Stores, QueuesTyped, HistoryTyped
<1>2. Epochs /\ Current /\ Evidence /\ Attempt /\ OneAgentOf(store)
  BY Zenon DEF StoreInit, Epochs, EpochOf, Current, Evidence, Attempt, Matches, OneAgentOf
<1>3. TasksTyped
  <2>1. [state |-> "starting", key |-> NoGuest] \in Reports
    BY Zenon DEF Reports, Keys
  <2> QED BY <2>1, StoreAssumption, SMTT(30) DEF StoreInit, TasksTyped
<1>4. WatchersTyped /\ SshTyped /\ NoLostWakeup
  BY Zenon DEF StoreInit, WatchersTyped, SshTyped, NoLostWakeup
<1> QED BY <1>1, <1>2, <1>3, <1>4, Zenon DEF StoreInv, StoreSide, TaskSide

\* Every step.
LEMMA StoreStepInv == ASSUME StoreInv, [StoreNext]_storeVars PROVE StoreInv'
<1>1. CASE UNCHANGED storeVars
  <2>1. StoreSide'
    BY <1>1, Zenon DEF storeVars, StoreInv, StoreSide, StoreTyped, QueuesTyped, HistoryTyped, Epochs,
                Current, Evidence, Attempt, Matches
  <2>2. TaskSide' /\ NoLostWakeup'
    BY <1>1 DEF storeVars, StoreInv, TaskSide, TasksTyped, WatchersTyped, Watchers, SshTyped,
                NoLostWakeup, Idle
  <2> QED BY <2>1, <2>2, Zenon DEF StoreInv
<1>2. CASE StoreNext
  <2>1. Step /\ Witness /\ UNCHANGED scenario
    BY <1>2, Zenon DEF StoreNext
  <2>2. CASE StatusEnds \/ StatusBreaks
    BY <2>1, <2>2, StatusFailsStep, Zenon DEF StatusEnds, StatusBreaks
  <2> QED BY <2>1, <2>2, PublishStep, StatusConnectsStep, StatusReceivedStep, MetricsQuietStep,
             MetricsReceivedStep, SshLooksStep, SshQuietStep, SshEndsStep, WaiterStep,
             SetVmStateStep, SetForwardServiceStep, GuestStep, ReceiptExpiresStep,
             VerificationLapsesStep DEF Step
<1> QED BY <1>1, <1>2, Zenon

\* The inductive invariant holds in every reachable state.
THEOREM StoreInvariant == StoreSpec => []StoreInv
BY StoreInitInv, StoreStepInv, PTL DEF StoreSpec

\* It says what clients rely on.
LEMMA StoreInvIsSafe == ASSUME StoreInv PROVE StoreSafe
<1>1. \A t \in Threads : Cardinality(pubq[t]) <= 1
  <2>1. \A t \in Threads : pubq[t] = {} \/ \E i \in Agents \cup {NoGuest} : pubq[t] = {i}
    BY Zenon DEF StoreInv, StoreSide, QueuesTyped
  <2>2. Cardinality({}) = 0 /\ \A i : Cardinality({i}) = 1
    BY FS_EmptySet, FS_Singleton, Zenon
  <2>3. ASSUME NEW t \in Threads PROVE Cardinality(pubq[t]) = 0 \/ Cardinality(pubq[t]) = 1
    BY <2>1, <2>2, Zenon
  <2> QED BY <2>3
<1>2. StoreTypeOK
  BY <1>1, Zenon DEF StoreInv, StoreSide, TaskSide, StoreTyped, Stores, Targets, TasksTyped,
              WatchersTyped, StoreTypeOK
<1>3. ReadyIsVerified
  BY Zenon DEF StoreInv, StoreSide, Evidence, Matches, ReadyIsVerified, readiness_detail, kex_verified
<1>4. OneAgentAtATime
  BY Zenon DEF StoreInv, StoreSide, OneAgentOf, OneAgentAtATime, ssh_verification_target,
         ssh_target_matches
<1> QED BY <1>2, <1>3, <1>4, Zenon DEF StoreSafe, StoreInv

\* A guest is reported ready only on evidence of the listener it has now, what
\* is known is of one agent, and no waiter sleeps over a change: for every
\* number of agents, keys and disturbances. (state.rs, guest/ssh.rs)
THEOREM StoreAlwaysSafe == StoreSpec => []StoreSafe
BY StoreInvariant, StoreInvIsSafe, PTL

=============================================================================
