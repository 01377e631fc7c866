-------------------------- MODULE JobRegistryProofs --------------------------
(***************************************************************************)
(* Proofs about JobRegistry for any finite set of operations and any VMs,  *)
(* lock objects and limit: one operation per VM, and the refinement of     *)
(* Operations.                                                             *)
(***************************************************************************)
EXTENDS JobRegistry, FiniteSetTheorems, TLAPS

Over == {"none", "succeeded", "failed"}

\* An operation points to its lock while it is active, and to its VM's lock
\* while it is inside WithVM.
Pointers == \A j \in Jobs :
  /\ job[j].lock = IF job[j].st \in Over THEN NoLock ELSE lockOf[LockKey(j)]
  /\ job[j].boot = IF job[j].kind = "create" /\ job[j].st \in {"bootwait", "run", "call"}
                   THEN lockOf[job[j].vm] ELSE NoLock
  /\ job[j].st \in {"create", "bootwait"} => job[j].kind = "create"

\* The goroutines that use the lock of key k, told from where they are.
UsersAt(k) == {j \in Jobs : \/ job[j].st \notin Over /\ LockKey(j) = k
                            \/ /\ job[j].kind = "create" /\ job[j].st \in {"bootwait", "run", "call"}
                               /\ job[j].vm = k}

\* The map holds a lock for the keys in use, another one for each, and the lock
\* counts its users.
Counted == \A k \in Key :
  /\ lockOf[k] = NoLock <=> UsersAt(k) = {}
  /\ lockOf[k] # NoLock => lk[lockOf[k]].refs = Cardinality(UsersAt(k))
  /\ \A i \in Key : lockOf[k] = lockOf[i] /\ lockOf[k] # NoLock => i = k

\* j has the token of the lock of key k.
HasToken(j, k) ==
  \/ LockKey(j) = k /\ job[j].st \in {"create", "bootwait", "run", "call", "end"}
  \/ job[j].kind = "create" /\ job[j].vm = k /\ job[j].st \in {"run", "call"}

\* The token of a lock is in its channel or has one holder.
OneToken == \A k \in Key : \A j \in Jobs : HasToken(j, k) =>
  /\ ~lk[lockOf[k]].token
  /\ \A i \in Jobs : HasToken(i, k) => i = j

JobInv == JobTypeOK /\ Pointers /\ Counted /\ OneToken

-----------------------------------------------------------------------------
(***************************************************************************)
(* The users of a key and the counts of its lock.                          *)
(***************************************************************************)

\* In the initial state there is no operation and no lock.
LEMMA JobInvInit == JobInit => JobInv
  <1> SUFFICES ASSUME JobInit PROVE JobInv
    BY Zenon
  <1>1. PICK vm \in [Jobs -> VMs] : job = [j \in Jobs |-> NoJob(vm[j])]
    BY Zenon DEF JobInit
  <1>2. JobTypeOK
    BY <1>1, Zenon DEF JobInit, JobTypeOK, JobRecord, JobState, NoJob, Key
  <1>3. Pointers /\ OneToken
    BY <1>1, Zenon DEF JobInit, Pointers, OneToken, HasToken, NoJob, Over
  <1>4. \A k \in Key : UsersAt(k) = {}
    BY <1>1, Zenon DEF UsersAt, NoJob, Over
  <1>5. Counted
    BY <1>4, Zenon DEF JobInit, Counted
  <1>6. QED
    BY <1>2, <1>3, <1>5, Zenon DEF JobInv

\* The users of a key are finitely many.
LEMMA UsersFinite == \A k : IsFiniteSet(UsersAt(k)) /\ UsersAt(k) \subseteq Jobs
  <1>1. \A k : UsersAt(k) \subseteq Jobs
    BY Zenon DEF UsersAt
  <1>2. QED
    BY <1>1, RegistryAssumption, FS_Subset, Zenon

\* A step that leaves the map, the counts and the users alone keeps the count.
LEMMA CountSame ==
  ASSUME JobInv, UNCHANGED lockOf, \A l \in LockId : lk'[l].refs = lk[l].refs,
         \A k \in Key : UsersAt(k)' = UsersAt(k)
  PROVE  Counted'
  BY Zenon DEF JobInv, JobTypeOK, Counted

\* acquireLocked counts one user more, and moves no other lock or token.
LEMMA CountAcquire ==
  ASSUME JobInv, NEW j \in Jobs, NEW k \in Key, NEW l \in LockId, acquireLocked(k, l),
         j \notin UsersAt(k),
         UsersAt(k)' = UsersAt(k) \cup {j}, \A i \in Key : i # k => UsersAt(i)' = UsersAt(i)
  PROVE  /\ Counted'
         /\ lockOf' \in [Key -> LockId \cup {NoLock}]
         /\ lk' \in [LockId -> [token : BOOLEAN, refs : Nat]]
         /\ lockOf'[k] = l
         /\ \A i \in Key : i # k \/ lockOf[i] # NoLock => lockOf'[i] = lockOf[i]
         /\ \A i \in Key : lockOf[i] # NoLock => lk'[lockOf[i]].token = lk[lockOf[i]].token
  <1> USE RegistryAssumption DEF JobInv, JobTypeOK
  <1>1. IsFiniteSet(UsersAt(k)) /\ Cardinality(UsersAt(k)) \in Nat
    BY UsersFinite, FS_CardinalityType, Zenon
  <1>2. Cardinality(UsersAt(k) \cup {j}) = Cardinality(UsersAt(k)) + 1
    BY <1>1, FS_AddElement, Zenon
  <1>3. CASE lockOf[k] = NoLock
    <2>1. /\ l \notin InUse
          /\ lockOf' = [lockOf EXCEPT ![k] = l]
          /\ lk' = [lk EXCEPT ![l] = [token |-> TRUE, refs |-> 1]]
      BY <1>3, Zenon DEF acquireLocked
    <2>2. \A i \in Key : lockOf[i] # l
      BY <2>1, Zenon DEF InUse
    <2>3. UsersAt(k) = {} /\ Cardinality(UsersAt(k)) = 0
      BY <1>3, FS_EmptySet, Zenon DEF Counted
    <2>4. UsersAt(k)' # {} /\ Cardinality(UsersAt(k)') = 1
      <3>1. UsersAt(k)' = UsersAt(k) \cup {j}
        BY Zenon
      <3>2. QED
        BY <3>1, <2>3, <1>2
    <2>5. lockOf'[k] = l /\ lk'[l].refs = 1 /\ l # NoLock
      BY <2>1, Zenon
    <2>6. \A i \in Key : i # k => lockOf'[i] = lockOf[i]
      BY <2>1, Zenon
    <2>7. \A m \in LockId : m # l => lk'[m] = lk[m]
      BY <2>1, Zenon
    <2>8. Counted'
      <3> SUFFICES ASSUME NEW i \in Key
                   PROVE  /\ lockOf'[i] = NoLock <=> UsersAt(i)' = {}
                          /\ lockOf'[i] # NoLock => lk'[lockOf'[i]].refs = Cardinality(UsersAt(i)')
                          /\ \A h \in Key : lockOf'[i] = lockOf'[h] /\ lockOf'[i] # NoLock => h = i
        BY Zenon DEF Counted
      <3>1. CASE i = k
        BY <3>1, <2>2, <2>4, <2>5, <2>6, Zenon
      <3>2. CASE i # k
        BY <3>2, <2>2, <2>5, <2>6, <2>7 DEF Counted
      <3>3. QED
        BY <3>1, <3>2, Zenon
    <2>9. QED
      BY <2>1, <2>2, <2>5, <2>6, <2>7, <2>8, <1>3, ZenonT(30)
  <1>4. CASE lockOf[k] # NoLock
    <2>1. l = lockOf[k] /\ lk' = [lk EXCEPT ![l].refs = @ + 1] /\ lockOf' = lockOf
      BY <1>4, Zenon DEF acquireLocked
    <2>2. /\ lk'[l].refs = lk[l].refs + 1
          /\ \A m \in LockId : m # l => lk'[m] = lk[m]
          /\ \A m \in LockId : lk'[m].token = lk[m].token
      BY <2>1, Zenon
    <2>3. Counted'
      <3> SUFFICES ASSUME NEW i \in Key
                   PROVE  /\ lockOf'[i] = NoLock <=> UsersAt(i)' = {}
                          /\ lockOf'[i] # NoLock => lk'[lockOf'[i]].refs = Cardinality(UsersAt(i)')
                          /\ \A h \in Key : lockOf'[i] = lockOf'[h] /\ lockOf'[i] # NoLock => h = i
        BY Zenon DEF Counted
      <3>1. CASE i = k
        BY <3>1, <2>1, <2>2, <1>2, <1>4, Zenon DEF Counted
      <3>2. CASE i # k
        BY <3>2, <2>1, <2>2, <1>4 DEF Counted
      <3>3. QED
        BY <3>1, <3>2, Zenon
    <2>4. QED
      BY <2>1, <2>2, <2>3, <1>4
  <1>5. QED
    BY <1>3, <1>4, Zenon

\* releaseLocked counts one user less and drops the key with the last one; no
\* key that is still used loses its lock.
LEMMA CountRelease ==
  ASSUME JobInv, NEW j \in Jobs, NEW k \in Key, NEW l \in LockId, l = lockOf[k],
         j \in UsersAt(k),
         \A m \in LockId : lk'[m].refs = IF m = l THEN lk[m].refs - 1 ELSE lk[m].refs,
         lockOf' = IF lk[l].refs = 1 THEN [lockOf EXCEPT ![k] = NoLock] ELSE lockOf,
         UsersAt(k)' = UsersAt(k) \ {j}, \A i \in Key : i # k => UsersAt(i)' = UsersAt(i)
  PROVE  /\ Counted'
         /\ lk[l].refs - 1 \in Nat
         /\ lockOf' \in [Key -> LockId \cup {NoLock}]
         /\ \A i \in Key : i # k \/ UsersAt(i)' # {} => lockOf'[i] = lockOf[i]
  <1> USE RegistryAssumption DEF JobInv, JobTypeOK
  <1>1. /\ IsFiniteSet(UsersAt(k)) /\ Cardinality(UsersAt(k)) \in Nat
        /\ IsFiniteSet(UsersAt(k) \ {j}) /\ Cardinality(UsersAt(k) \ {j}) \in Nat
    BY UsersFinite, FS_CardinalityType, FS_RemoveElement, Zenon
  <1>2. Cardinality(UsersAt(k) \ {j}) = Cardinality(UsersAt(k)) - 1
    BY <1>1, FS_RemoveElement, Zenon
  <1>3. lk[l].refs = Cardinality(UsersAt(k)) /\ l # NoLock
    BY Zenon DEF Counted
  <1>4. UsersAt(k) \ {j} = {} <=> lk[l].refs = 1
    <2>1. Cardinality(UsersAt(k) \ {j}) = 0 <=> UsersAt(k) \ {j} = {}
      BY <1>1, FS_EmptySet, Zenon
    <2>2. QED
      BY <2>1, <1>1, <1>2, <1>3
  <1>5. lk[l].refs - 1 \in Nat
    BY <1>1, <1>2, <1>3, Zenon
  <1>6. /\ lockOf' \in [Key -> LockId \cup {NoLock}]
        /\ \A i \in Key : i # k => lockOf'[i] = lockOf[i]
        /\ lockOf'[k] = IF lk[l].refs = 1 THEN NoLock ELSE l
    BY Zenon
  <1>7. Counted'
    <2> SUFFICES ASSUME NEW i \in Key
                 PROVE  /\ lockOf'[i] = NoLock <=> UsersAt(i)' = {}
                        /\ lockOf'[i] # NoLock => lk'[lockOf'[i]].refs = Cardinality(UsersAt(i)')
                        /\ \A h \in Key : lockOf'[i] = lockOf'[h] /\ lockOf'[i] # NoLock => h = i
      BY Zenon DEF Counted
    <2>1. CASE i = k
      BY <2>1, <1>2, <1>3, <1>4, <1>6, Zenon DEF Counted
    <2>2. CASE i # k
      BY <2>2, <1>3, <1>6 DEF Counted
    <2>3. QED
      BY <2>1, <2>2, Zenon
  <1>8. QED
    BY <1>4, <1>5, <1>6, <1>7, Zenon

-----------------------------------------------------------------------------
(***************************************************************************)
(* JobInv is inductive: one lemma per action.                              *)
(***************************************************************************)

\* j is the only operation that moves, and stays of its kind and VM.
Moves(j, r) ==
  /\ r \in JobRecord /\ r.kind = job[j].kind /\ r.vm = job[j].vm
  /\ job' = [job EXCEPT ![j] = r]

\* A step that writes the state and the error of an operation,
LEMMA WritesEnd ==
  ASSUME JobInv, NEW j \in Jobs, NEW s \in JobState, NEW e \in BOOLEAN, NEW r,
         r = [job[j] EXCEPT !.st = s, !.err = e],
         job' = [job EXCEPT ![j].st = s, ![j].err = e]
  PROVE  Moves(j, r)
  <1>1. job \in [Jobs -> JobRecord] /\ job[j] \in JobRecord
    BY Zenon DEF JobInv, JobTypeOK
  <1>2. r \in JobRecord /\ r.kind = job[j].kind /\ r.vm = job[j].vm
    BY <1>1, Zenon DEF JobRecord
  <1>3. job' = [job EXCEPT ![j] = r]
    BY <1>1, Zenon
  <1>4. QED
    BY <1>2, <1>3, Zenon DEF Moves

\* and one that drops the lock of its VM as well.
LEMMA WritesBootEnd ==
  ASSUME JobInv, NEW j \in Jobs, NEW s \in JobState, NEW e \in BOOLEAN, NEW r,
         r = [job[j] EXCEPT !.st = s, !.err = e, !.boot = NoLock],
         job' = [job EXCEPT ![j].st = s, ![j].err = e, ![j].boot = NoLock]
  PROVE  Moves(j, r)
  <1>1. job \in [Jobs -> JobRecord] /\ job[j] \in JobRecord
    BY Zenon DEF JobInv, JobTypeOK
  <1>2. r \in JobRecord /\ r.kind = job[j].kind /\ r.vm = job[j].vm
    BY <1>1, Zenon DEF JobRecord
  <1>3. job' = [job EXCEPT ![j] = r]
    BY <1>1, Zenon
  <1>4. QED
    BY <1>2, <1>3, Zenon DEF Moves

\* What a step of j leaves alone: the keys, and the others as users and holders.
LEMMA MovesAlone ==
  ASSUME JobInv, NEW j \in Jobs, NEW r, Moves(j, r)
  PROVE  /\ job' \in [Jobs -> JobRecord]
         /\ job'[j] = r
         /\ \A i \in Jobs : i # j => job'[i] = job[i]
         /\ \A i \in Jobs : LockKey(i)' = LockKey(i) /\ LockKey(i) \in Key
         /\ \A i \in Jobs : job[i].vm \in Key /\ job[i].vm \in VMs
         /\ \A k, i : i # j => (i \in UsersAt(k)' <=> i \in UsersAt(k))
         /\ \A k, i : i # j /\ i \in Jobs => (HasToken(i, k)' <=> HasToken(i, k))
  <1>1. job' \in [Jobs -> JobRecord] /\ job'[j] = r /\ \A i \in Jobs : i # j => job'[i] = job[i]
    BY Zenon DEF JobInv, JobTypeOK, Moves
  <1>2. \A i \in Jobs : LockKey(i)' = LockKey(i)
    BY <1>1, Zenon DEF LockKey, Moves
  <1>3. \A i \in Jobs : job[i].vm \in VMs /\ job[i].vm \in Key /\ LockKey(i) \in Key
    BY Zenon DEF JobInv, JobTypeOK, JobRecord, Key, LockKey
  <1>4. \A k, i : i # j => (i \in UsersAt(k)' <=> i \in UsersAt(k))
    BY <1>1, <1>2, Zenon DEF UsersAt
  <1>5. \A k, i : i # j /\ i \in Jobs => (HasToken(i, k)' <=> HasToken(i, k))
    BY <1>1, <1>2, Zenon DEF HasToken
  <1>6. QED
    BY <1>1, <1>2, <1>3, <1>4, <1>5, Zenon

\* A holder of a token is a user of its lock.
LEMMA HolderUses ==
  ASSUME JobInv, NEW i \in Jobs, NEW k \in Key, HasToken(i, k)
  PROVE  i \in UsersAt(k) /\ lockOf[k] \in LockId /\ lockOf[k] # NoLock
  <1>1. i \in UsersAt(k)
    BY Zenon DEF HasToken, UsersAt, Over
  <1>2. QED
    BY <1>1, Zenon DEF JobInv, JobTypeOK, Counted

\* A step of j that changes neither the keys it uses nor the counts.
LEMMA SameUsers ==
  ASSUME JobInv, NEW j \in Jobs, NEW r, Moves(j, r), UNCHANGED <<lockOf, paused, closing>>,
         lk' \in [LockId -> [token : BOOLEAN, refs : Nat]],
         \A l \in LockId : lk'[l].refs = lk[l].refs,
         r.st \in Over <=> job[j].st \in Over,
         r.lock = job[j].lock, r.boot = job[j].boot,
         r.kind = "create" =>
           (r.st \in {"bootwait", "run", "call"} <=> job[j].st \in {"bootwait", "run", "call"}),
         r.st \in {"create", "bootwait"} => r.kind = "create"
  PROVE  JobTypeOK' /\ Pointers' /\ Counted'
  <1>1. JobTypeOK'
    BY MovesAlone, Zenon DEF JobInv, JobTypeOK
  <1>2. Pointers'
    <2> SUFFICES ASSUME NEW i \in Jobs
                 PROVE  /\ job'[i].lock = IF job'[i].st \in Over THEN NoLock ELSE lockOf[LockKey(i)]
                        /\ job'[i].boot = IF job'[i].kind = "create" /\ job'[i].st \in {"bootwait", "run", "call"}
                                          THEN lockOf[job'[i].vm] ELSE NoLock
                        /\ job'[i].st \in {"create", "bootwait"} => job'[i].kind = "create"
      BY MovesAlone DEF Pointers
    <2>1. CASE i = j
      BY <2>1, MovesAlone DEF JobInv, Pointers, Moves
    <2>2. CASE i # j
      BY <2>2, MovesAlone DEF JobInv, Pointers
    <2>3. QED
      BY <2>1, <2>2, Zenon
  <1>3. \A k \in Key : UsersAt(k)' = UsersAt(k)
    <2>1. \A k, i : i # j => (i \in UsersAt(k)' <=> i \in UsersAt(k))
      BY MovesAlone, Zenon
    <2>2. \A k : j \in UsersAt(k)' <=> j \in UsersAt(k)
      <3>1. job'[j] = r /\ LockKey(j)' = LockKey(j) /\ r.kind = job[j].kind /\ r.vm = job[j].vm
        BY MovesAlone, Zenon DEF Moves
      <3>2. QED
        BY <3>1, Zenon DEF UsersAt
    <2>3. \A k, i : i \in UsersAt(k)' <=> i \in UsersAt(k)
      BY <2>1, <2>2, Zenon
    <2>4. \A k \in Key : UsersAt(k)' \subseteq UsersAt(k) /\ UsersAt(k) \subseteq UsersAt(k)'
      BY <2>3, Zenon
    <2>5. QED
      BY <2>4, Zenon
  <1>4. QED
    BY <1>1, <1>2, <1>3, CountSame, Zenon

\* Such a step that touches no lock and takes no token keeps the invariant.
LEMMA QuietMove ==
  ASSUME JobInv, NEW j \in Jobs, NEW r, Moves(j, r), UNCHANGED <<lockOf, lk, paused, closing>>,
         r.st \in Over <=> job[j].st \in Over,
         r.lock = job[j].lock, r.boot = job[j].boot,
         r.kind = "create" =>
           (r.st \in {"bootwait", "run", "call"} <=> job[j].st \in {"bootwait", "run", "call"}),
         r.st \in {"create", "bootwait"} => r.kind = "create",
         \A k \in Key : HasToken(j, k)' => HasToken(j, k)
  PROVE  JobInv'
  <1>1. JobTypeOK' /\ Pointers' /\ Counted'
    BY SameUsers, Zenon DEF JobInv, JobTypeOK
  <1>2. OneToken'
    BY MovesAlone DEF JobInv, OneToken
  <1>3. QED
    BY <1>1, <1>2, Zenon DEF JobInv

\* A step that takes the token of key k0, and no other.
LEMMA TakingMove ==
  ASSUME JobInv, NEW j \in Jobs, NEW r, Moves(j, r), UNCHANGED <<lockOf, paused, closing>>,
         NEW k0 \in Key, lockOf[k0] \in LockId, TakeToken(lockOf[k0]),
         r.st \in Over <=> job[j].st \in Over,
         r.lock = job[j].lock, r.boot = job[j].boot,
         r.kind = "create" =>
           (r.st \in {"bootwait", "run", "call"} <=> job[j].st \in {"bootwait", "run", "call"}),
         r.st \in {"create", "bootwait"} => r.kind = "create",
         \A k \in Key : HasToken(j, k)' => HasToken(j, k) \/ k = k0
  PROVE  JobInv'
  <1>1. /\ lk' \in [LockId -> [token : BOOLEAN, refs : Nat]]
        /\ \A l \in LockId : lk'[l].refs = lk[l].refs
        /\ \A l \in LockId : lk'[l].token => lk[l].token
        /\ ~lk'[lockOf[k0]].token /\ lk[lockOf[k0]].token
    BY Zenon DEF TakeToken, JobInv, JobTypeOK
  <1>2. JobTypeOK' /\ Pointers' /\ Counted'
    BY <1>1, SameUsers, Zenon
  <1>3. \A i \in Jobs : ~HasToken(i, k0)
    BY <1>1, Zenon DEF JobInv, OneToken
  <1>4. OneToken'
    <2> SUFFICES ASSUME NEW k \in Key, NEW i \in Jobs, HasToken(i, k)'
                 PROVE  ~lk'[lockOf[k]].token /\ \A h \in Jobs : HasToken(h, k)' => h = i
      BY Zenon DEF OneToken
    <2>1. CASE k = k0
      BY <2>1, <1>1, <1>3, MovesAlone
    <2>2. CASE k # k0
      <3>1. \A h \in Jobs : HasToken(h, k)' => HasToken(h, k)
        BY <2>2, MovesAlone, Zenon
      <3>2. lockOf[k] \in LockId
        BY <3>1, HolderUses, Zenon
      <3>3. QED
        BY <3>1, <3>2, <1>1, Zenon DEF JobInv, OneToken
    <2>3. QED
      BY <2>1, <2>2, Zenon
  <1>5. QED
    BY <1>2, <1>4, Zenon DEF JobInv

\* An operation that holds its token moves on within its callback.
LEMMA CallKeeps == ASSUME JobInv, NEW j \in Jobs, Call(j) PROVE JobInv'
  <1> DEFINE r == [job[j] EXCEPT !.st = "call"]
  <1>1. Moves(j, r)
    <2>1. job[j] \in JobRecord /\ job \in [Jobs -> JobRecord]
      BY Zenon DEF JobInv, JobTypeOK
    <2>2. r \in JobRecord /\ r.kind = job[j].kind /\ r.vm = job[j].vm
      BY <2>1, SMTT(30) DEF JobRecord, JobState
    <2>3. job' = [job EXCEPT ![j] = r]
      BY <2>1, SMTT(30) DEF Call
    <2>4. QED
      BY <2>2, <2>3, Zenon DEF Moves
  <1>2. \A k \in Key : HasToken(j, k)' => HasToken(j, k)
    BY <1>1, MovesAlone DEF HasToken, Call
  <1>3. QED
    BY <1>1, <1>2, QuietMove, Zenon DEF Call, Over, JobInv, JobTypeOK, JobRecord

\* A queued operation gives up: its callback never ran.
LEMMA QueuedCancelledKeeps == ASSUME JobInv, NEW j \in Jobs, QueuedCancelled(j) PROVE JobInv'
  <1> DEFINE r == [job[j] EXCEPT !.st = "final", !.err = TRUE]
  <1>1. Moves(j, r)
    <2>1. job[j] \in JobRecord /\ job \in [Jobs -> JobRecord]
      BY Zenon DEF JobInv, JobTypeOK
    <2>2. PICK e \in BOOLEAN : e = (TRUE)
      BY <2>1, Zenon DEF JobRecord
    <2>3. /\ job' = [job EXCEPT ![j].st = "final", ![j].err = e]
          /\ r = [job[j] EXCEPT !.st = "final", !.err = e]
      BY <2>1, <2>2, Zenon DEF QueuedCancelled
    <2> HIDE DEF r
    <2>4. "final" \in JobState
      BY Zenon DEF JobState
    <2>5. QED
      BY <2>3, <2>4, WritesEnd, Zenon
  <1>2. \A k \in Key : HasToken(j, k)' => HasToken(j, k)
    BY <1>1, MovesAlone DEF HasToken, QueuedCancelled
  <1>3. QED
    BY <1>1, <1>2, QuietMove, Zenon DEF QueuedCancelled, Over, JobInv, JobTypeOK, JobRecord

\* A create ends before its boot.
LEMMA CreateEndsKeeps ==
  ASSUME JobInv, NEW j \in Jobs, NEW ok \in BOOLEAN, CreateEnds(j, ok) PROVE JobInv'
  <1> DEFINE r == [job[j] EXCEPT !.st = "end", !.err = ~ok]
  <1>1. Moves(j, r)
    <2>1. job[j] \in JobRecord /\ job \in [Jobs -> JobRecord]
      BY Zenon DEF JobInv, JobTypeOK
    <2>2. PICK e \in BOOLEAN : e = (~ok)
      BY <2>1, Zenon DEF JobRecord
    <2>3. /\ job' = [job EXCEPT ![j].st = "end", ![j].err = e]
          /\ r = [job[j] EXCEPT !.st = "end", !.err = e]
      BY <2>1, <2>2, Zenon DEF CreateEnds
    <2> HIDE DEF r
    <2>4. "end" \in JobState
      BY Zenon DEF JobState
    <2>5. QED
      BY <2>3, <2>4, WritesEnd, Zenon
  <1>2. \A k \in Key : HasToken(j, k)' => HasToken(j, k)
    BY <1>1, MovesAlone DEF HasToken, CreateEnds
  <1>3. QED
    BY <1>1, <1>2, QuietMove, Zenon DEF CreateEnds, Over, JobInv, JobTypeOK, JobRecord

\* The token of its lock starts an operation.
LEMMA BeginKeeps == ASSUME JobInv, NEW j \in Jobs, Begin(j) PROVE JobInv'
  <1> DEFINE r == [job[j] EXCEPT !.st = IF job[j].kind = "create" THEN "create" ELSE "run"]
             k0 == LockKey(j)
  <1>1. Moves(j, r)
    <2>1. job[j] \in JobRecord /\ job \in [Jobs -> JobRecord]
      BY Zenon DEF JobInv, JobTypeOK
    <2>2. r \in JobRecord /\ r.kind = job[j].kind /\ r.vm = job[j].vm
      BY <2>1, SMTT(30) DEF JobRecord, JobState
    <2>3. job' = [job EXCEPT ![j] = r]
      BY <2>1, SMTT(30) DEF Begin
    <2>4. QED
      BY <2>2, <2>3, Zenon DEF Moves
  <1>2. \A k \in Key : HasToken(j, k)' => HasToken(j, k) \/ k = k0
    BY <1>1, MovesAlone DEF HasToken, Begin
  <1>3. k0 \in Key /\ lockOf[k0] = job[j].lock
    BY <1>1, MovesAlone, Zenon DEF Begin, JobInv, Pointers, Over
  <1>4. j \in UsersAt(k0)
    BY Zenon DEF Begin, UsersAt, Over
  <1>5. lockOf[k0] \in LockId
    BY <1>3, <1>4, Zenon DEF JobInv, JobTypeOK, Counted
  <1>6. /\ r.st \notin Over /\ job[j].st \notin Over
        /\ r.lock = job[j].lock /\ r.boot = job[j].boot
        /\ r.kind = "create" =>
             (r.st \in {"bootwait", "run", "call"} <=> job[j].st \in {"bootwait", "run", "call"})
        /\ r.st \in {"create", "bootwait"} => r.kind = "create"
    BY DEF Begin, Over, JobInv, JobTypeOK, JobRecord
  <1> HIDE DEF r, k0
  <1>7. QED
    BY <1>1, <1>2, <1>3, <1>5, <1>6, TakingMove, Zenon DEF Begin

\* The token of its VM's lock lets a create boot it.
LEMMA BootBeginsKeeps == ASSUME JobInv, NEW j \in Jobs, BootBegins(j) PROVE JobInv'
  <1> DEFINE r == [job[j] EXCEPT !.st = "run"]
             k0 == job[j].vm
  <1>1. Moves(j, r)
    <2>1. job[j] \in JobRecord /\ job \in [Jobs -> JobRecord]
      BY Zenon DEF JobInv, JobTypeOK
    <2>2. r \in JobRecord /\ r.kind = job[j].kind /\ r.vm = job[j].vm
      BY <2>1, SMTT(30) DEF JobRecord, JobState
    <2>3. job' = [job EXCEPT ![j] = r]
      BY <2>1, SMTT(30) DEF BootBegins
    <2>4. QED
      BY <2>2, <2>3, Zenon DEF Moves
  <1>2. \A k \in Key : HasToken(j, k)' => HasToken(j, k) \/ k = k0
    BY <1>1, MovesAlone DEF HasToken, BootBegins
  <1>3. k0 \in Key /\ lockOf[k0] = job[j].boot /\ job[j].kind = "create"
    BY <1>1, MovesAlone, Zenon DEF BootBegins, JobInv, Pointers, Over
  <1>4. j \in UsersAt(k0)
    BY <1>3, Zenon DEF BootBegins, UsersAt, Over
  <1>5. lockOf[k0] \in LockId
    BY <1>3, <1>4 DEF JobInv, JobTypeOK, Counted
  <1>6. /\ r.st \notin Over /\ job[j].st \notin Over
        /\ r.lock = job[j].lock /\ r.boot = job[j].boot
        /\ r.st \in {"bootwait", "run", "call"} /\ job[j].st \in {"bootwait", "run", "call"}
        /\ r.kind = "create"
    BY <1>3 DEF BootBegins, Over, JobInv, JobTypeOK, JobRecord
  <1> HIDE DEF r, k0
  <1>7. QED
    BY <1>1, <1>2, <1>3, <1>5, <1>6, TakingMove, Zenon DEF BootBegins

\* The callback is over: only the token j had goes back.
LEMMA ReturnsKeeps == ASSUME JobInv, NEW j \in Jobs, Returns(j) PROVE JobInv'
  <1> DEFINE r == [job[j] EXCEPT !.st = "final", !.err = job[j].err \/ job[j].cancelled]
             k0 == LockKey(j)
  <1>1. Moves(j, r)
    <2>1. job[j] \in JobRecord /\ job \in [Jobs -> JobRecord]
      BY Zenon DEF JobInv, JobTypeOK
    <2>2. PICK e \in BOOLEAN : e = (job[j].err \/ job[j].cancelled)
      BY <2>1, Zenon DEF JobRecord
    <2>3. /\ job' = [job EXCEPT ![j].st = "final", ![j].err = e]
          /\ r = [job[j] EXCEPT !.st = "final", !.err = e]
      BY <2>1, <2>2, Zenon DEF Returns
    <2> HIDE DEF r
    <2>4. "final" \in JobState
      BY Zenon DEF JobState
    <2>5. QED
      BY <2>3, <2>4, WritesEnd, Zenon
  <1>2. \A k \in Key : ~HasToken(j, k)'
    BY <1>1, MovesAlone DEF HasToken, Returns
  <1>3. k0 \in Key /\ lockOf[k0] = job[j].lock /\ HasToken(j, k0)
    BY <1>1, MovesAlone DEF Returns, JobInv, Pointers, Over, HasToken
  <1>4. lockOf[k0] \in LockId
    BY <1>3, HolderUses, Zenon
  <1>5. /\ r.st \notin Over /\ job[j].st \notin Over
        /\ r.lock = job[j].lock /\ r.boot = job[j].boot
        /\ r.st \notin {"bootwait", "run", "call", "create"} /\ job[j].st \notin {"bootwait", "run", "call"}
    BY DEF Returns, Over, JobInv, JobTypeOK, JobRecord
  <1> HIDE DEF r, k0
  <1>6. /\ lk' \in [LockId -> [token : BOOLEAN, refs : Nat]]
        /\ \A l \in LockId : lk'[l].refs = lk[l].refs
        /\ \A l \in LockId : l # lockOf[k0] => lk'[l].token = lk[l].token
    BY <1>3, <1>4, Zenon DEF Returns, GiveToken, JobInv, JobTypeOK
  <1>7. UNCHANGED <<lockOf, paused, closing>>
    BY Zenon DEF Returns
  <1>8. JobTypeOK' /\ Pointers' /\ Counted'
    BY <1>1, <1>5, <1>6, <1>7, SameUsers, Zenon
  <1>9. OneToken'
    <2> SUFFICES ASSUME NEW k \in Key, NEW i \in Jobs, HasToken(i, k)'
                 PROVE  ~lk'[lockOf[k]].token /\ \A h \in Jobs : HasToken(h, k)' => h = i
      BY <1>7, Zenon DEF OneToken
    <2>1. \A h \in Jobs : HasToken(h, k)' => h # j /\ HasToken(h, k)
      BY <1>1, <1>2, MovesAlone, Zenon
    <2>2. k # k0
      BY <2>1, <1>3, Zenon DEF JobInv, OneToken
    <2>3. lockOf[k] \in LockId /\ lockOf[k] # lockOf[k0]
      BY <2>1, <2>2, <1>3, <1>4, HolderUses, Zenon DEF JobInv, Counted
    <2>4. QED
      BY <2>1, <2>3, <1>6, Zenon DEF JobInv, OneToken
  <1>10. QED
    BY <1>8, <1>9, Zenon DEF JobInv

\* A step of j that drops its use of key k0, and the token if it has it.
Releases(j, r, k0) ==
  /\ Moves(j, r)
  /\ lockOf[k0] \in LockId /\ j \in UsersAt(k0) /\ j \notin UsersAt(k0)'
  /\ \A k \in Key : k # k0 => (j \in UsersAt(k)' <=> j \in UsersAt(k))
  /\ lk' \in [LockId -> [token : BOOLEAN, refs : Int]]
  /\ \A m \in LockId : m # lockOf[k0] => lk'[m] = lk[m]
  /\ lk'[lockOf[k0]].refs = lk[lockOf[k0]].refs - 1
  /\ lk'[lockOf[k0]].token => lk[lockOf[k0]].token \/ HasToken(j, k0)
  /\ lockOf' = IF lk[lockOf[k0]].refs = 1 THEN [lockOf EXCEPT ![k0] = NoLock] ELSE lockOf
  /\ UNCHANGED <<paused, closing>>
  /\ r.boot = NoLock
  /\ r.st \in Over => r.lock = NoLock
  /\ r.st \notin Over => r.lock = job[j].lock /\ k0 # LockKey(j)
  /\ job[j].st \notin Over /\ r.st \notin {"create", "bootwait", "run", "call"}
  /\ \A k \in Key : HasToken(j, k)' => HasToken(j, k) /\ k # k0

\* It counts the user out; the others keep their locks and tokens.
LEMMA ReleasingMove ==
  ASSUME JobInv, NEW j \in Jobs, NEW r, NEW k0 \in Key, Releases(j, r, k0)
  PROVE  JobInv'
  <1> USE DEF Releases
  <1> DEFINE l == lockOf[k0]
  <1>1. \A m \in LockId : lk'[m].refs = IF m = l THEN lk[m].refs - 1 ELSE lk[m].refs
    BY Zenon DEF JobInv, JobTypeOK
  <1>2. /\ Counted'
        /\ lk[l].refs - 1 \in Nat
        /\ lockOf' \in [Key -> LockId \cup {NoLock}]
        /\ \A i \in Key : i # k0 \/ UsersAt(i)' # {} => lockOf'[i] = lockOf[i]
    <2>1. l \in LockId /\ l = lockOf[k0] /\ lockOf' = IF lk[l].refs = 1 THEN [lockOf EXCEPT ![k0] = NoLock] ELSE lockOf
      BY Zenon
    <2>2. \A k, i : i # j => (i \in UsersAt(k)' <=> i \in UsersAt(k))
      BY MovesAlone, Zenon
    <2>3. UsersAt(k0)' = UsersAt(k0) \ {j}
      BY <2>2, Zenon
    <2>4. \A k \in Key : k # k0 => \A i : i \in UsersAt(k)' <=> i \in UsersAt(k)
      BY <2>2, Zenon
    <2>5. \A k \in Key : k # k0 => UsersAt(k)' = UsersAt(k)
      <3> SUFFICES ASSUME NEW k \in Key, k # k0
                   PROVE  UsersAt(k)' \subseteq UsersAt(k) /\ UsersAt(k) \subseteq UsersAt(k)'
        BY Zenon
      <3>1. QED
        BY <2>4, Zenon
    <2>6. j \in UsersAt(k0)
      BY Zenon
    <2> HIDE DEF l, Releases
    <2>7. QED
      BY <2>1, <2>3, <2>5, <2>6, <1>1, CountRelease, Zenon
  <1>3. lk' \in [LockId -> [token : BOOLEAN, refs : Nat]]
    BY <1>2 DEF JobInv, JobTypeOK
  <1>4. JobTypeOK'
    BY <1>2, <1>3, MovesAlone, Zenon DEF JobInv, JobTypeOK
  <1>5. \A i \in Jobs, k \in Key : i \in UsersAt(k)' => lockOf'[k] = lockOf[k]
    BY <1>2, Zenon
  <1>6. Pointers'
    <2> SUFFICES ASSUME NEW i \in Jobs
                 PROVE  /\ job'[i].lock = IF job'[i].st \in Over THEN NoLock ELSE lockOf'[LockKey(i)]
                        /\ job'[i].boot = IF job'[i].kind = "create" /\ job'[i].st \in {"bootwait", "run", "call"}
                                          THEN lockOf'[job'[i].vm] ELSE NoLock
                        /\ job'[i].st \in {"create", "bootwait"} => job'[i].kind = "create"
      BY MovesAlone, SMTT(30) DEF Pointers
    <2>0. LockKey(i) \in Key /\ LockKey(i)' = LockKey(i) /\ job[i].vm \in Key
      BY MovesAlone, Zenon
    <2>1. CASE i = j
      <3>1. job'[j] = r
        BY MovesAlone, Zenon
      <3>2. r.st \notin Over => lockOf'[LockKey(j)] = lockOf[LockKey(j)]
        BY <1>2, <2>0, <2>1, Zenon
      <3>3. QED
        BY <2>1, <3>1, <3>2, Zenon DEF JobInv, Pointers
    <2>2. CASE i # j
      <3>1. job'[i] = job[i]
        BY <2>2, MovesAlone, Zenon
      <3>2. job[i].st \notin Over => i \in UsersAt(LockKey(i))'
        BY <2>0, <3>1, Zenon DEF UsersAt
      <3>3. job[i].kind = "create" /\ job[i].st \in {"bootwait", "run", "call"} => i \in UsersAt(job[i].vm)'
        BY <2>0, <3>1, Zenon DEF UsersAt
      <3>4. QED
        BY <2>0, <3>1, <3>2, <3>3, <1>5, SMTT(30) DEF JobInv, Pointers
    <2>3. QED
      BY <2>1, <2>2, Zenon
  <1>7. OneToken'
    <2> SUFFICES ASSUME NEW k \in Key, NEW i \in Jobs, HasToken(i, k)'
                 PROVE  ~lk'[lockOf'[k]].token /\ \A h \in Jobs : HasToken(h, k)' => h = i
      BY Zenon DEF OneToken
    <2>1. \A h \in Jobs : HasToken(h, k)' => HasToken(h, k) /\ (h = j => k # k0)
      BY MovesAlone
    <2>2. lockOf[k] \in LockId
      BY <2>1, HolderUses, Zenon
    <2>3. i \in UsersAt(k)'
      BY <2>1, HolderUses, MovesAlone
    <2>4. lockOf'[k] = lockOf[k] /\ ~lk[lockOf[k]].token
      BY <2>1, <2>3, <1>5, Zenon DEF JobInv, OneToken
    <2>5. lk'[lockOf[k]].token => lk[lockOf[k]].token
      <3>1. CASE k = k0
        <4>1. ~HasToken(j, k0)
          BY <2>1, <3>1, Zenon DEF JobInv, OneToken
        <4>2. QED
          BY <3>1, <4>1, Zenon DEF JobInv, JobTypeOK
      <3>2. CASE k # k0
        <4>1. lockOf[k] # lockOf[k0]
          BY <3>2, <2>2, <2>1, HolderUses, Zenon DEF JobInv, Counted
        <4>2. QED
          BY <4>1, <2>2, Zenon DEF JobInv, JobTypeOK
      <3>3. QED
        BY <3>1, <3>2, Zenon
    <2>6. QED
      BY <2>1, <2>4, <2>5, Zenon DEF JobInv, OneToken
  <1>8. QED
    BY <1>2, <1>4, <1>6, <1>7, Zenon DEF JobInv

\* The last thing an operation does: its reference goes.
LEMMA FinishKeeps == ASSUME JobInv, NEW j \in Jobs, Finish(j) PROVE JobInv'
  <1> DEFINE s == IF job[j].err THEN "failed" ELSE "succeeded"
             r == [job[j] EXCEPT !.st = s, !.lock = NoLock]
  <1>0. s \in {"failed", "succeeded"} /\ job' = [job EXCEPT ![j] = r]
    BY Zenon DEF Finish
  <1> HIDE DEF s
  <1>1. Moves(j, r)
    <2>1. job[j] \in JobRecord
      BY Zenon DEF JobInv, JobTypeOK
    <2>2. r \in JobRecord /\ r.kind = job[j].kind /\ r.vm = job[j].vm
      BY <2>1, <1>0, Zenon DEF JobRecord, JobState
    <2>3. QED
      BY <2>2, <1>0, Zenon DEF Moves
  <1>2. PICK k0 \in Key : k0 = LockKey(j) /\ lockOf[k0] = job[j].lock
    BY <1>1, MovesAlone DEF Finish, JobInv, Pointers, Over
  <1>3. j \in UsersAt(k0)
    BY <1>2, Zenon DEF Finish, UsersAt, Over
  <1>4. lockOf[k0] \in LockId
    BY <1>2, <1>3, Zenon DEF JobInv, JobTypeOK, Counted
  <1>5. /\ r.st \in Over /\ r.lock = NoLock /\ r.boot = NoLock
        /\ \A k \in Key : ~HasToken(j, k)' /\ j \notin UsersAt(k)'
        /\ \A k \in Key : k # k0 => j \notin UsersAt(k)
    <2>1. r.st \in {"succeeded", "failed"} /\ r.lock = NoLock /\ r.boot = job[j].boot /\ job[j].boot = NoLock
      BY <1>0 DEF Finish, JobInv, JobTypeOK, JobRecord, Pointers
    <2>2. job'[j] = r
      BY <1>1, MovesAlone, Zenon
    <2>3. QED
      BY <2>1, <2>2, <1>2, Zenon DEF Over, HasToken, UsersAt, Finish
  <1> HIDE DEF r
  <1>6. \A k \in Key : k # k0 => (j \in UsersAt(k)' <=> j \in UsersAt(k))
    BY <1>5, Zenon
  <1>7. /\ lk' = [lk EXCEPT ![lockOf[k0]].refs = @ - 1]
        /\ lockOf' = IF lk[lockOf[k0]].refs = 1 THEN [lockOf EXCEPT ![k0] = NoLock] ELSE lockOf
        /\ UNCHANGED <<paused, closing>>
    BY <1>2, Zenon DEF Finish, releaseLocked
  <1>8. /\ lk' \in [LockId -> [token : BOOLEAN, refs : Int]]
        /\ \A m \in LockId : m # lockOf[k0] => lk'[m] = lk[m]
        /\ lk'[lockOf[k0]].refs = lk[lockOf[k0]].refs - 1
        /\ lk'[lockOf[k0]].token => lk[lockOf[k0]].token
    BY <1>4, <1>7 DEF JobInv, JobTypeOK
  <1>9. job[j].st \notin Over /\ r.st \notin {"create", "bootwait", "run", "call"}
    BY <1>5, Zenon DEF Finish, Over
  <1>10. Releases(j, r, k0)
    BY <1>1, <1>2, <1>3, <1>4, <1>5, <1>6, <1>7, <1>8, <1>9, Zenon DEF Releases
  <1>11. QED
    BY <1>2, <1>10, ReleasingMove, Zenon

\* WithVM ends without the token.
LEMMA BootCancelledKeeps == ASSUME JobInv, NEW j \in Jobs, BootCancelled(j) PROVE JobInv'
  <1> DEFINE r == [job[j] EXCEPT !.st = "end", !.err = TRUE, !.boot = NoLock]
  <1>1. Moves(j, r)
    <2>1. job[j] \in JobRecord /\ job \in [Jobs -> JobRecord]
      BY Zenon DEF JobInv, JobTypeOK
    <2>2. PICK e \in BOOLEAN : e = (TRUE)
      BY <2>1, Zenon DEF JobRecord
    <2>3. /\ job' = [job EXCEPT ![j].st = "end", ![j].err = e, ![j].boot = NoLock]
          /\ r = [job[j] EXCEPT !.st = "end", !.err = e, !.boot = NoLock]
      BY <2>1, <2>2, Zenon DEF BootCancelled
    <2> HIDE DEF r
    <2>4. "end" \in JobState
      BY Zenon DEF JobState
    <2>5. QED
      BY <2>3, <2>4, WritesBootEnd, Zenon
  <1>2. PICK k0 \in Key : k0 = job[j].vm /\ k0 \in VMs
    BY <1>1, MovesAlone, Zenon
  <1>3. /\ lockOf[k0] = job[j].boot /\ job[j].kind = "create" /\ j \in UsersAt(k0)
        /\ LockKey(j) = j /\ k0 # j
    BY <1>2, RegistryAssumption, Zenon DEF BootCancelled, JobInv, Pointers, UsersAt, LockKey
  <1>4. lockOf[k0] \in LockId
    BY <1>3, Zenon DEF JobInv, JobTypeOK, Counted
  <1>5. r.st = "end" /\ r.boot = NoLock /\ r.lock = job[j].lock
    BY DEF JobInv, JobTypeOK, JobRecord
  <1>6. job'[j] = r /\ LockKey(j)' = j /\ r.kind = "create" /\ r.vm = k0
    BY <1>1, <1>2, <1>3, MovesAlone, Zenon DEF Moves
  <1> HIDE DEF r
  <1>7. /\ j \notin UsersAt(k0)'
        /\ \A k \in Key : k # k0 => (j \in UsersAt(k)' <=> j \in UsersAt(k))
    BY <1>2, <1>3, <1>5, <1>6, ZenonT(30) DEF UsersAt, BootCancelled, Over
  <1>8. \A k \in Key : HasToken(j, k)' => HasToken(j, k) /\ k # k0
    BY <1>2, <1>3, <1>5, <1>6, Zenon DEF HasToken, BootCancelled
  <1>9. /\ lk' = [lk EXCEPT ![lockOf[k0]].refs = @ - 1]
        /\ lockOf' = IF lk[lockOf[k0]].refs = 1 THEN [lockOf EXCEPT ![k0] = NoLock] ELSE lockOf
        /\ UNCHANGED <<paused, closing>> /\ job[j].st = "bootwait"
    BY <1>2, <1>3, Zenon DEF BootCancelled, releaseLocked
  <1>10. /\ lk' \in [LockId -> [token : BOOLEAN, refs : Int]]
         /\ \A m \in LockId : m # lockOf[k0] => lk'[m] = lk[m]
         /\ lk'[lockOf[k0]].refs = lk[lockOf[k0]].refs - 1
         /\ lk'[lockOf[k0]].token => lk[lockOf[k0]].token
    BY <1>4, <1>9 DEF JobInv, JobTypeOK
  <1>11. Releases(j, r, k0)
    BY <1>1, <1>3, <1>4, <1>5, <1>7, <1>8, <1>9, <1>10, Zenon DEF Releases, Over
  <1>12. QED
    BY <1>11, ReleasingMove, Zenon

\* The part of a callback that acts on the VM is over.
LEMMA LeavesKeeps ==
  ASSUME JobInv, NEW j \in Jobs, NEW ok \in BOOLEAN, job[j].st \in {"run", "call"}, Leaves(j, ok)
  PROVE  JobInv'
  <1> DEFINE r == [job[j] EXCEPT !.st = "end", !.err = ~ok, !.boot = NoLock]
  <1>1. Moves(j, r)
    <2>1. job[j] \in JobRecord /\ job \in [Jobs -> JobRecord]
      BY Zenon DEF JobInv, JobTypeOK
    <2>2. PICK e \in BOOLEAN : e = (~ok)
      BY <2>1, Zenon DEF JobRecord
    <2>3. /\ job' = [job EXCEPT ![j].st = "end", ![j].err = e, ![j].boot = NoLock]
          /\ r = [job[j] EXCEPT !.st = "end", !.err = e, !.boot = NoLock]
      BY <2>1, <2>2, Zenon DEF Leaves
    <2> HIDE DEF r
    <2>4. "end" \in JobState
      BY Zenon DEF JobState
    <2>5. QED
      BY <2>3, <2>4, WritesBootEnd, Zenon
  <1>2. r.st = "end" /\ r.boot = NoLock /\ r.lock = job[j].lock
    BY DEF JobInv, JobTypeOK, JobRecord
  <1>3. job'[j] = r /\ LockKey(j)' = LockKey(j) /\ r.kind = job[j].kind /\ r.vm = job[j].vm
    BY <1>1, MovesAlone, Zenon DEF Moves
  <1> HIDE DEF r
  <1>4. CASE job[j].kind # "create"
    <2>1. \A k \in Key : HasToken(j, k)' => HasToken(j, k)
      BY <1>2, <1>3, <1>4, Zenon DEF HasToken
    <2>2. job[j].boot = NoLock
      BY <1>4, Zenon DEF JobInv, Pointers
    <2>3. UNCHANGED <<lockOf, lk, paused, closing>>
      BY <1>4, Zenon DEF Leaves
    <2>4. QED
      BY <1>1, <1>2, <1>3, <1>4, <2>1, <2>2, <2>3, QuietMove, Zenon DEF Over
  <1>5. CASE job[j].kind = "create"
    <2>1. PICK k0 \in Key : k0 = job[j].vm /\ k0 \in VMs
      BY <1>1, MovesAlone, Zenon
    <2>2. /\ lockOf[k0] = job[j].boot /\ j \in UsersAt(k0) /\ HasToken(j, k0)
          /\ LockKey(j) = j /\ k0 # j
      BY <2>1, <1>5, RegistryAssumption, Zenon DEF JobInv, Pointers, UsersAt, LockKey, HasToken
    <2>3. lockOf[k0] \in LockId
      BY <2>2, Zenon DEF JobInv, JobTypeOK, Counted
    <2>4. /\ j \notin UsersAt(k0)'
          /\ \A k \in Key : k # k0 => (j \in UsersAt(k)' <=> j \in UsersAt(k))
      BY <2>1, <2>2, <1>2, <1>3, Zenon DEF UsersAt, Over
    <2>5. \A k \in Key : HasToken(j, k)' => HasToken(j, k) /\ k # k0
      BY <2>1, <2>2, <1>2, <1>3, Zenon DEF HasToken
    <2>6. /\ lk' = [lk EXCEPT ![lockOf[k0]] = [token |-> TRUE, refs |-> lk[lockOf[k0]].refs - 1]]
          /\ lockOf' = IF lk[lockOf[k0]].refs = 1 THEN [lockOf EXCEPT ![k0] = NoLock] ELSE lockOf
          /\ UNCHANGED <<paused, closing>>
      BY <2>1, <2>2, <1>5, Zenon DEF Leaves
    <2>7. /\ lk' \in [LockId -> [token : BOOLEAN, refs : Int]]
          /\ \A m \in LockId : m # lockOf[k0] => lk'[m] = lk[m]
          /\ lk'[lockOf[k0]].refs = lk[lockOf[k0]].refs - 1
      BY <2>3, <2>6 DEF JobInv, JobTypeOK
    <2>8. Releases(j, r, k0)
      BY <1>1, <1>2, <1>3, <2>2, <2>3, <2>4, <2>5, <2>6, <2>7, Zenon DEF Releases, Over
    <2>9. QED
      BY <2>8, ReleasingMove, Zenon
  <1>6. QED
    BY <1>4, <1>5, Zenon

\* A step of j that begins to use key k0.
Acquires(j, k0, l) ==
  /\ l \in LockId /\ acquireLocked(k0, l)
  /\ j \notin UsersAt(k0) /\ j \in UsersAt(k0)'
  /\ \A k \in Key : k # k0 => (j \in UsersAt(k)' <=> j \in UsersAt(k))
  /\ \A k, i : i # j => (i \in UsersAt(k)' <=> i \in UsersAt(k))
  /\ \A k \in Key, i \in Jobs : HasToken(i, k)' => HasToken(i, k)

\* It finds or makes the lock; the others keep theirs, and the tokens stay.
LEMMA AcquiringMove ==
  ASSUME JobInv, NEW j \in Jobs, NEW k0 \in Key, NEW l, Acquires(j, k0, l)
  PROVE  /\ Counted' /\ OneToken'
         /\ lockOf' \in [Key -> LockId \cup {NoLock}]
         /\ lk' \in [LockId -> [token : BOOLEAN, refs : Nat]]
         /\ lockOf'[k0] = l
         /\ \A i \in Jobs, k \in Key : i \in UsersAt(k) => lockOf'[k] = lockOf[k]
  <1> USE DEF Acquires
  <1>1. UsersAt(k0)' = UsersAt(k0) \cup {j}
    BY Zenon
  <1>2. \A k \in Key : k # k0 => UsersAt(k)' = UsersAt(k)
    <2> SUFFICES ASSUME NEW k \in Key, k # k0
                 PROVE  UsersAt(k)' \subseteq UsersAt(k) /\ UsersAt(k) \subseteq UsersAt(k)'
      BY Zenon
    <2>1. \A i : i \in UsersAt(k)' <=> i \in UsersAt(k)
      BY Zenon
    <2>2. QED
      BY <2>1, Zenon
  <1>3. l \in LockId /\ acquireLocked(k0, l) /\ j \notin UsersAt(k0)
    BY Zenon
  <1>4. /\ Counted'
        /\ lockOf' \in [Key -> LockId \cup {NoLock}]
        /\ lk' \in [LockId -> [token : BOOLEAN, refs : Nat]]
        /\ lockOf'[k0] = l
        /\ \A i \in Key : i # k0 \/ lockOf[i] # NoLock => lockOf'[i] = lockOf[i]
        /\ \A i \in Key : lockOf[i] # NoLock => lk'[lockOf[i]].token = lk[lockOf[i]].token
    <2> HIDE DEF Acquires
    <2>1. QED
      BY <1>1, <1>2, <1>3, CountAcquire, Zenon
  <1>5. \A i \in Jobs, k \in Key : i \in UsersAt(k) => lockOf[k] # NoLock
    BY Zenon DEF JobInv, Counted
  <1>6. OneToken'
    <2> SUFFICES ASSUME NEW k \in Key, NEW i \in Jobs, HasToken(i, k)'
                 PROVE  ~lk'[lockOf'[k]].token /\ \A h \in Jobs : HasToken(h, k)' => h = i
      BY Zenon DEF OneToken
    <2>1. HasToken(i, k) /\ \A h \in Jobs : HasToken(h, k)' => HasToken(h, k)
      BY Zenon
    <2>2. lockOf[k] # NoLock
      BY <2>1, HolderUses, Zenon
    <2>3. QED
      BY <2>1, <2>2, <1>4, Zenon DEF JobInv, OneToken
  <1>7. QED
    BY <1>4, <1>5, <1>6, Zenon

\* The pointers of operation i, as Pointers has them.
Points(i) ==
  /\ job[i].lock = IF job[i].st \in Over THEN NoLock ELSE lockOf[LockKey(i)]
  /\ job[i].boot = IF job[i].kind = "create" /\ job[i].st \in {"bootwait", "run", "call"}
                   THEN lockOf[job[i].vm] ELSE NoLock
  /\ job[i].st \in {"create", "bootwait"} => job[i].kind = "create"

\* An operation that does not move keeps its pointers while its locks stay.
LEMMA OthersPoint ==
  ASSUME JobInv, NEW i \in Jobs, job'[i] = job[i],
         \A k \in Key : i \in UsersAt(k) => lockOf'[k] = lockOf[k]
  PROVE  Points(i)'
  <1>1. LockKey(i) \in Key /\ job[i].vm \in Key /\ LockKey(i)' = LockKey(i)
    BY Zenon DEF JobInv, JobTypeOK, JobRecord, Key, LockKey
  <1>2. job[i].st \notin Over => lockOf'[LockKey(i)] = lockOf[LockKey(i)]
    BY <1>1, Zenon DEF UsersAt
  <1>3. job[i].kind = "create" /\ job[i].st \in {"bootwait", "run", "call"} => lockOf'[job[i].vm] = lockOf[job[i].vm]
    BY <1>1, Zenon DEF UsersAt
  <1>4. QED
    BY <1>1, <1>2, <1>3, Zenon DEF JobInv, Pointers, Points

\* A create that goes on to its boot becomes a user of its VM's lock.
LEMMA WithVMKeeps == ASSUME JobInv, NEW j \in Jobs, WithVM(j) PROVE JobInv'
  <1>1. PICK l \in LockId : /\ acquireLocked(job[j].vm, l)
                            /\ job' = [job EXCEPT ![j].st = "bootwait", ![j].boot = l]
    BY Zenon DEF WithVM
  <1> DEFINE r == [job[j] EXCEPT !.st = "bootwait", !.boot = l]
  <1>2. Moves(j, r)
    <2>1. job[j] \in JobRecord /\ job' = [job EXCEPT ![j] = r]
      BY <1>1, Zenon DEF JobInv, JobTypeOK
    <2>2. r \in JobRecord /\ r.kind = job[j].kind /\ r.vm = job[j].vm
      BY <2>1, Zenon DEF JobRecord, JobState
    <2>3. QED
      BY <2>1, <2>2, Zenon DEF Moves
  <1>3. /\ r.st = "bootwait" /\ r.boot = l /\ r.lock = job[j].lock
        /\ r.kind = "create" /\ job[j].kind = "create" /\ r.vm = job[j].vm /\ job[j].st = "create"
    BY DEF WithVM, JobInv, JobTypeOK, JobRecord, Pointers
  <1>4. PICK k0 \in Key : k0 = job[j].vm /\ k0 \in VMs
    BY <1>2, MovesAlone, Zenon
  <1>5. job'[j] = r /\ LockKey(j) = j /\ LockKey(j)' = j /\ k0 # j /\ j \in Key
    BY <1>2, <1>3, <1>4, MovesAlone, RegistryAssumption DEF LockKey, Key
  <1> HIDE DEF r
  <1>6. /\ j \notin UsersAt(k0) /\ j \in UsersAt(k0)' /\ j \in UsersAt(j)
        /\ \A k \in Key : k # k0 => (j \in UsersAt(k)' <=> j \in UsersAt(k))
    BY <1>3, <1>4, <1>5, Zenon DEF UsersAt, Over
  <1>7. \A k \in Key, i \in Jobs : HasToken(i, k)' => HasToken(i, k)
    <2>1. \A k \in Key : HasToken(j, k)' => HasToken(j, k)
      BY <1>3, <1>5, Zenon DEF HasToken
    <2>2. QED
      BY <2>1, <1>2, MovesAlone, Zenon
  <1>8. Acquires(j, k0, l)
    BY <1>1, <1>2, <1>4, <1>6, <1>7, MovesAlone, Zenon DEF Acquires
  <1>9. /\ Counted' /\ OneToken'
        /\ lockOf' \in [Key -> LockId \cup {NoLock}]
        /\ lk' \in [LockId -> [token : BOOLEAN, refs : Nat]]
        /\ lockOf'[k0] = l
        /\ \A i \in Jobs, k \in Key : i \in UsersAt(k) => lockOf'[k] = lockOf[k]
    BY <1>8, AcquiringMove, Zenon
  <1>10. JobTypeOK'
    BY <1>2, <1>9, MovesAlone, Zenon DEF WithVM, JobInv, JobTypeOK
  <1>11. \A i \in Jobs : i # j => Points(i)'
    BY <1>2, <1>9, MovesAlone, OthersPoint, Zenon
  <1>12. Points(j)'
    BY <1>3, <1>4, <1>5, <1>6, <1>9 DEF Points, JobInv, Pointers, Over
  <1>13. Pointers'
    BY <1>11, <1>12, Zenon DEF Pointers, Points
  <1>14. QED
    BY <1>9, <1>10, <1>13, Zenon DEF JobInv

\* SubmitResult: a new operation becomes a user of its lock.
LEMMA SubmitKeeps ==
  ASSUME JobInv, NEW j \in Jobs, NEW kind \in Kinds, NEW v \in VMs, Submit(j, kind, v)
  PROVE  JobInv'
  <1>1. PICK k0 \in Key : k0 = IF kind = "create" THEN j ELSE v
    BY Zenon DEF Key
  <1>2. PICK l \in LockId :
          /\ acquireLocked(k0, l)
          /\ job' = [job EXCEPT ![j] = [NoJob(v) EXCEPT !.st = "queued", !.kind = kind, !.lock = l]]
    BY <1>1, Zenon DEF Submit
  <1> DEFINE r == [NoJob(v) EXCEPT !.st = "queued", !.kind = kind, !.lock = l]
  <1>3. /\ r.st = "queued" /\ r.kind = kind /\ r.vm = v /\ r.lock = l /\ r.boot = NoLock
        /\ r \in JobRecord
    BY RegistryAssumption, Zenon DEF NoJob, JobRecord, JobState
  <1>4. job'[j] = r /\ (\A i \in Jobs : i # j => job'[i] = job[i]) /\ job' \in [Jobs -> JobRecord]
    BY <1>2, <1>3, Zenon DEF JobInv, JobTypeOK
  <1> HIDE DEF r
  <1>5. LockKey(j)' = k0 /\ \A i \in Jobs : i # j => LockKey(i)' = LockKey(i)
    BY <1>1, <1>3, <1>4, Zenon DEF LockKey
  <1>6. job[j].st = "none"
    BY Zenon DEF Submit
  <1>7. /\ j \notin UsersAt(k0) /\ j \in UsersAt(k0)'
        /\ \A k \in Key : k # k0 => (j \in UsersAt(k)' <=> j \in UsersAt(k))
    BY <1>3, <1>4, <1>5, <1>6, Zenon DEF UsersAt, Over
  <1>8. \A k, i : i # j => (i \in UsersAt(k)' <=> i \in UsersAt(k))
    BY <1>4, <1>5, Zenon DEF UsersAt
  <1>9. \A k \in Key, i \in Jobs : HasToken(i, k)' => HasToken(i, k)
    <2>1. \A k \in Key : ~HasToken(j, k)'
      BY <1>3, <1>4, Zenon DEF HasToken
    <2>2. \A k \in Key, i \in Jobs : i # j => (HasToken(i, k)' <=> HasToken(i, k))
      BY <1>4, <1>5, Zenon DEF HasToken
    <2>3. QED
      BY <2>1, <2>2, Zenon
  <1>10. Acquires(j, k0, l)
    BY <1>2, <1>7, <1>8, <1>9, Zenon DEF Acquires
  <1>11. /\ Counted' /\ OneToken'
         /\ lockOf' \in [Key -> LockId \cup {NoLock}]
         /\ lk' \in [LockId -> [token : BOOLEAN, refs : Nat]]
         /\ lockOf'[k0] = l
         /\ \A i \in Jobs, k \in Key : i \in UsersAt(k) => lockOf'[k] = lockOf[k]
    BY <1>10, AcquiringMove, Zenon
  <1>12. JobTypeOK'
    BY <1>4, <1>11, Zenon DEF Submit, JobInv, JobTypeOK
  <1>13. \A i \in Jobs : i # j => Points(i)'
    BY <1>4, <1>11, OthersPoint, Zenon
  <1>14. Points(j)'
    BY <1>3, <1>4, <1>5, <1>11, Zenon DEF Points, Over
  <1>15. Pointers'
    BY <1>13, <1>14, Zenon DEF Pointers, Points
  <1>16. QED
    BY <1>11, <1>12, <1>15, Zenon DEF JobInv

\* InterruptIf only makes contexts done.
LEMMA InterruptKeeps == ASSUME JobInv, InterruptIf(TRUE) PROVE JobInv'
  <1>1. \A j \in Jobs :
          /\ job'[j] \in JobRecord
          /\ job'[j].st = job[j].st /\ job'[j].kind = job[j].kind /\ job'[j].vm = job[j].vm
          /\ job'[j].lock = job[j].lock /\ job'[j].boot = job[j].boot
    BY ZenonT(30) DEF InterruptIf, Cancelled, JobInv, JobTypeOK, JobRecord
  <1>2. job' \in [Jobs -> JobRecord]
    <2>1. job' = [j \in Jobs |-> job'[j]]
      BY Zenon DEF InterruptIf, Cancelled
    <2>2. QED
      BY <2>1, <1>1, Zenon
  <1>3. \A j \in Jobs : LockKey(j)' = LockKey(j)
    BY <1>1, Zenon DEF LockKey
  <1>4. \A k \in Key : UsersAt(k)' = UsersAt(k)
    BY <1>1, <1>3, Zenon DEF UsersAt
  <1>5. \A k \in Key, j \in Jobs : HasToken(j, k)' <=> HasToken(j, k)
    BY <1>1, <1>3, Zenon DEF HasToken
  <1>6. UNCHANGED <<lockOf, lk, closing>> /\ paused' = TRUE
    BY Zenon DEF InterruptIf
  <1>7. JobTypeOK'
    BY <1>2, <1>6, Zenon DEF JobInv, JobTypeOK
  <1>8. Pointers'
    BY <1>1, <1>3, <1>6 DEF JobInv, Pointers
  <1>9. Counted'
    BY <1>4, <1>6, CountSame, Zenon
  <1>10. OneToken'
    BY <1>5, <1>6, Zenon DEF JobInv, OneToken
  <1>11. QED
    BY <1>7, <1>8, <1>9, <1>10, Zenon DEF JobInv

\* Resume, Seal and stuttering touch no operation and no lock.
LEMMA RestKeeps == ASSUME JobInv, Resume \/ Seal \/ UNCHANGED jobVars PROVE JobInv'
  <1>1. UNCHANGED <<job, lockOf, lk>> /\ paused' \in BOOLEAN /\ closing' \in BOOLEAN
    BY Zenon DEF JobInv, JobTypeOK, Resume, Seal, jobVars
  <1>2. JobTypeOK' /\ Pointers'
    BY <1>1, Zenon DEF JobInv, JobTypeOK, Pointers, LockKey
  <1>3. Counted'
    <2>1. \A k \in Key : UsersAt(k)' = UsersAt(k)
      BY <1>1, Zenon DEF UsersAt, LockKey
    <2>2. QED
      BY <2>1, <1>1, CountSame, Zenon
  <1>4. OneToken'
    <2>1. \A k \in Key, j \in Jobs : HasToken(j, k)' <=> HasToken(j, k)
      BY <1>1, Zenon DEF HasToken, LockKey
    <2>2. QED
      BY <2>1, <1>1, Zenon DEF JobInv, OneToken
  <1>5. QED
    BY <1>2, <1>3, <1>4, Zenon DEF JobInv

\* Every step of the registry keeps the invariant.
LEMMA JobInvNext == JobInv /\ [JobNext]_jobVars => JobInv'
  <1> SUFFICES ASSUME JobInv, [JobNext]_jobVars PROVE JobInv'
    BY Zenon
  <1>1. ASSUME NEW j \in Jobs, NEW kind \in Kinds, NEW v \in VMs, Submit(j, kind, v) PROVE JobInv'
    BY <1>1, SubmitKeeps, Zenon
  <1>2. ASSUME NEW j \in Jobs, JobStep(j) PROVE JobInv'
    <2>1. CASE Begin(j) \/ QueuedCancelled(j) \/ WithVM(j) \/ BootBegins(j) \/ BootCancelled(j)
      BY <2>1, BeginKeeps, QueuedCancelledKeeps, WithVMKeeps, BootBeginsKeeps, BootCancelledKeeps, Zenon
    <2>2. CASE Call(j) \/ Returns(j) \/ Finish(j)
      BY <2>2, CallKeeps, ReturnsKeeps, FinishKeeps, Zenon
    <2>3. CASE RunFails(j)
      BY <2>3, LeavesKeeps, Zenon DEF RunFails
    <2>4. ASSUME NEW ok \in BOOLEAN, CreateEnds(j, ok) \/ CallReturns(j, ok) PROVE JobInv'
      BY <2>4, CreateEndsKeeps, LeavesKeeps, Zenon DEF CallReturns
    <2>5. QED
      BY <1>2, <2>1, <2>2, <2>3, <2>4, Zenon DEF JobStep
  <1>3. QED
    BY <1>1, <1>2, InterruptKeeps, RestKeeps, Zenon DEF JobNext

\* Every lock is found by its users, is counted and has one token, in every
\* reachable state.
THEOREM RegistryInvariant == JobSpec => []JobInv
  BY JobInvInit, JobInvNext, PTL DEF JobSpec

\* The holder of a VM's token is one.
LEMMA ActingHolds ==
  ASSUME JobInv, NEW v \in VMs, NEW j \in Jobs, job[j].vm = v, job[j].st \in {"run", "call"}
  PROVE  HasToken(j, v) /\ v \in Key
  BY Zenon DEF JobInv, JobTypeOK, JobRecord, HasToken, LockKey, Key

\* Two operations never act on one VM at the same time (SubmitResult, WithVM,
\* acquireLocked, releaseLocked), however many operations and VMs there are.
THEOREM OneJobPerVMHolds == JobSpec => []OneJobPerVM
  <1>1. JobInv => OneJobPerVM
    BY ActingHolds, Zenon DEF OneJobPerVM, Acting, JobInv, OneToken
  <1>2. QED
    BY <1>1, RegistryInvariant, PTL

\* Every pointer to the lock of a key is to the one object the map holds, which
\* counts exactly its users, and the map forgets a key exactly with its last
\* user (acquireLocked, releaseLocked).
THEOREM LocksAreCountedHolds == JobSpec => []LocksAreCounted
  <1>1. ASSUME JobInv PROVE LocksAreCounted
    <2> SUFFICES ASSUME NEW k \in Key
                 PROVE  /\ \A j \in Users(k) : lockOf[k] \in {job[j].lock, job[j].boot}
                        /\ lockOf[k] = NoLock <=> Users(k) = {}
                        /\ lockOf[k] # NoLock => lk[lockOf[k]].refs = Cardinality(Users(k))
      BY Zenon DEF LocksAreCounted
    <2>1. \A j \in Jobs, i \in Key : j \in UsersAt(i) => lockOf[i] # NoLock
      BY <1>1, Zenon DEF JobInv, Counted
    <2>2. \A j \in Jobs : LockKey(j) \in Key /\ job[j].vm \in Key
      BY <1>1, Zenon DEF JobInv, JobTypeOK, JobRecord, Key, LockKey
    <2>3. \A j \in Jobs : job[j].lock # NoLock <=> job[j].st \notin Over
      <3>1. \A j \in Jobs : job[j].st \notin Over => j \in UsersAt(LockKey(j))
        BY Zenon DEF UsersAt
      <3>2. QED
        BY <1>1, <2>1, <2>2, <3>1, Zenon DEF JobInv, Pointers
    <2>4. \A j \in Jobs : job[j].boot # NoLock
                        <=> job[j].kind = "create" /\ job[j].st \in {"bootwait", "run", "call"}
      <3>1. \A j \in Jobs : job[j].kind = "create" /\ job[j].st \in {"bootwait", "run", "call"}
                            => j \in UsersAt(job[j].vm)
        BY Zenon DEF UsersAt
      <3>2. QED
        BY <1>1, <2>1, <2>2, <3>1, Zenon DEF JobInv, Pointers
    <2>5. \A j : j \in Users(k) <=> j \in UsersAt(k)
      BY <2>3, <2>4, Zenon DEF Users, UsersAt
    <2>6. Users(k) = UsersAt(k)
      BY <2>5, Zenon
    <2>7. \A j \in Users(k) : lockOf[k] \in {job[j].lock, job[j].boot}
      BY <1>1, <2>3, <2>4, Zenon DEF Users, JobInv, Pointers
    <2>8. QED
      BY <1>1, <2>6, <2>7, Zenon DEF JobInv, Counted
  <1>2. QED
    BY <1>1, RegistryInvariant, PTL

-----------------------------------------------------------------------------
(***************************************************************************)
(* JobRegistry implements Operations.                                      *)
(***************************************************************************)

Op == [j \in Jobs |-> Phase(job[j].st)]

On == [j \in Jobs |-> job[j].vm]

Told == {j \in Jobs : job[j].cancelled}

\* What a step of one operation is for the abstract specification.
LEMMA AbstractMove ==
  ASSUME JobInv, NEW j \in Jobs, NEW r, Moves(j, r), r.cancelled = job[j].cancelled
  PROVE  /\ Op' = [Op EXCEPT ![j] = Phase(r.st)]
         /\ On' = On /\ Told' = Told
         /\ Op[j] = Phase(job[j].st)
  <1>1. job'[j] = r /\ (\A i \in Jobs : i # j => job'[i] = job[i]) /\ r.vm = job[j].vm
    BY MovesAlone, Zenon DEF Moves
  <1>2. Op' = [Op EXCEPT ![j] = Phase(r.st)]
    BY <1>1, Zenon DEF Op
  <1>3. On' = On
    BY <1>1, Zenon DEF On
  <1>4. Told' = Told
    <2>1. \A i \in Jobs : job'[i].cancelled <=> job[i].cancelled
      BY <1>1, Zenon
    <2>2. QED
      BY <2>1, Zenon DEF Told
  <1>5. QED
    BY <1>2, <1>3, <1>4, Zenon DEF Op

\* A step that keeps the phase is a stutter.
LEMMA AbstractStutter ==
  ASSUME JobInv, NEW j \in Jobs, NEW r, Moves(j, r), r.cancelled = job[j].cancelled,
         Phase(r.st) = Phase(job[j].st), UNCHANGED <<paused, closing>>
  PROVE  UNCHANGED O!opVars
  <1>1. Op = [i \in Jobs |-> Op[i]]
    BY Zenon DEF Op
  <1>2. Op' = [Op EXCEPT ![j] = Op[j]] /\ On' = On /\ Told' = Told
    BY AbstractMove, Zenon
  <1>3. Op' = Op
    BY <1>1, <1>2, Zenon
  <1>4. QED
    BY <1>2, <1>3, Zenon DEF O!opVars, Op, On, Told

\* A step of j from one phase to the next, with its VM and its context as they
\* were.
MovesPhase(j, from, to) ==
  /\ Op[j] = from /\ Op' = [Op EXCEPT ![j] = to]
  /\ On' = On /\ Told' = Told /\ UNCHANGED <<paused, closing>>

\* Every step that keeps the context of its operation is of this kind.
LEMMA AbstractPhase ==
  ASSUME JobInv, NEW j \in Jobs, NEW r, Moves(j, r), r.cancelled = job[j].cancelled,
         UNCHANGED <<paused, closing>>
  PROVE  MovesPhase(j, Phase(job[j].st), Phase(r.st))
  BY AbstractMove, Zenon DEF MovesPhase

\* The steps of Operations, told by their phases.
LEMMA AbstractSteps ==
  ASSUME NEW j \in Jobs
  PROVE  /\ MovesPhase(j, "waiting", "leaving") => O!GiveUp(j)
         /\ MovesPhase(j, "acting", "leaving") \/ MovesPhase(j, "calling", "leaving") => O!Leave(j)
         /\ MovesPhase(j, "leaving", "over") => O!End(j)
         /\ MovesPhase(j, "acting", "calling") /\ ~job[j].cancelled => O!Calls(j)
         /\ MovesPhase(j, "waiting", "acting")
              /\ (\A i \in Jobs : job[i].vm = job[j].vm => job[i].st \notin {"run", "call"})
            => O!Enter(j)
  <1>1. MovesPhase(j, "waiting", "leaving") => O!GiveUp(j)
    BY Zenon DEF MovesPhase, Op, On, Told, O!GiveUp
  <1>2. MovesPhase(j, "acting", "leaving") \/ MovesPhase(j, "calling", "leaving") => O!Leave(j)
    BY Zenon DEF MovesPhase, Op, On, Told, O!Leave
  <1>3. MovesPhase(j, "leaving", "over") => O!End(j)
    BY Zenon DEF MovesPhase, Op, On, Told, O!End
  <1>4. MovesPhase(j, "acting", "calling") /\ ~job[j].cancelled => O!Calls(j)
    BY Zenon DEF MovesPhase, Op, On, Told, O!Calls
  <1>5. ASSUME MovesPhase(j, "waiting", "acting"),
               \A i \in Jobs : job[i].vm = job[j].vm => job[i].st \notin {"run", "call"}
        PROVE  O!Enter(j)
    <2>1. \A i \in Jobs : On[i] = On[j] => Op[i] \notin {"acting", "calling"}
      BY <1>5, Zenon DEF On, Op, Phase
    <2>2. QED
      BY <1>5, <2>1, Zenon DEF MovesPhase, Op, On, Told, O!Enter
  <1>6. QED
    BY <1>1, <1>2, <1>3, <1>4, <1>5, Zenon

\* While the token of a VM is in its channel, nobody acts on the VM.
LEMMA TokenFree ==
  ASSUME JobInv, NEW v \in VMs, lk[lockOf[v]].token
  PROVE  \A i \in Jobs : job[i].vm = v => job[i].st \notin {"run", "call"}
  BY ActingHolds, Zenon DEF JobInv, OneToken

\* A step of an operation is a step of Operations, or none.
LEMMA JobStepRefines ==
  ASSUME JobInv, NEW j \in Jobs, JobStep(j)
  PROVE  \/ O!Enter(j) \/ O!GiveUp(j) \/ O!Calls(j) \/ O!Leave(j) \/ O!End(j)
         \/ UNCHANGED O!opVars
  <1>0. job[j] \in JobRecord /\ job \in [Jobs -> JobRecord]
    BY Zenon DEF JobInv, JobTypeOK
  <1>1. CASE Begin(j)
    <2> DEFINE s == IF job[j].kind = "create" THEN "create" ELSE "run"
               r == [job[j] EXCEPT !.st = s]
    <2>1. /\ s \in {"create", "run"} /\ (s = "create" <=> job[j].kind = "create")
          /\ job' = [job EXCEPT ![j] = r]
      BY <1>1, Zenon DEF Begin
    <2> HIDE DEF s
    <2>2. Moves(j, r) /\ r.cancelled = job[j].cancelled /\ r.st = s
      BY <2>1, <1>0, Zenon DEF Moves, JobRecord, JobState
    <2>3. Phase(job[j].st) = "waiting" /\ (s = "create" => Phase(s) = "waiting") /\ (s = "run" => Phase(s) = "acting")
      BY <1>1, Zenon DEF Phase, Begin
    <2> HIDE DEF r
    <2>4. UNCHANGED <<paused, closing>>
      BY <1>1, Zenon DEF Begin
    <2>5. CASE s = "create"
      BY <2>2, <2>3, <2>4, <2>5, AbstractStutter, Zenon
    <2>6. CASE s = "run"
      <3>1. MovesPhase(j, "waiting", "acting")
        BY <2>2, <2>3, <2>4, <2>6, AbstractPhase, Zenon
      <3>2. job[j].vm \in VMs /\ LockKey(j) = job[j].vm /\ job[j].lock = lockOf[job[j].vm]
        BY <1>0, <1>1, <2>1, <2>6, Zenon DEF JobRecord, LockKey, Begin, JobInv, Pointers, Over
      <3>3. lk[lockOf[job[j].vm]].token
        BY <1>1, <3>2, Zenon DEF Begin, TakeToken
      <3>4. QED
        BY <3>1, <3>2, <3>3, TokenFree, AbstractSteps, Zenon
    <2>7. QED
      BY <2>1, <2>5, <2>6, Zenon
  <1>2. CASE QueuedCancelled(j)
    <2> DEFINE r == [job[j] EXCEPT !.st = "final", !.err = TRUE]
    <2>1. Moves(j, r) /\ r.cancelled = job[j].cancelled /\ Phase(r.st) = "leaving"
      BY <1>0, <1>2, Zenon DEF Moves, JobRecord, JobState, QueuedCancelled, Phase
    <2>2. Phase(job[j].st) = "waiting" /\ UNCHANGED <<paused, closing>>
      BY <1>2, Zenon DEF QueuedCancelled, Phase
    <2> HIDE DEF r
    <2>3. QED
      BY <2>1, <2>2, AbstractPhase, AbstractSteps, Zenon
  <1>3. CASE WithVM(j)
    <2>1. PICK l \in LockId : job' = [job EXCEPT ![j].st = "bootwait", ![j].boot = l]
      BY <1>3, Zenon DEF WithVM
    <2> DEFINE r == [job[j] EXCEPT !.st = "bootwait", !.boot = l]
    <2>2. job' = [job EXCEPT ![j] = r]
      BY <2>1, <1>0, Zenon
    <2>3. Moves(j, r) /\ r.cancelled = job[j].cancelled /\ Phase(r.st) = "waiting"
      BY <1>0, <2>2, Zenon DEF Moves, JobRecord, JobState, Phase
    <2>4. Phase(job[j].st) = "waiting" /\ UNCHANGED <<paused, closing>>
      BY <1>3, Zenon DEF WithVM, Phase
    <2> HIDE DEF r
    <2>5. QED
      BY <2>3, <2>4, AbstractStutter, Zenon
  <1>4. CASE BootBegins(j)
    <2> DEFINE r == [job[j] EXCEPT !.st = "run"]
    <2>1. Moves(j, r) /\ r.cancelled = job[j].cancelled /\ Phase(r.st) = "acting"
      BY <1>0, <1>4, Zenon DEF Moves, JobRecord, JobState, BootBegins, Phase
    <2>2. Phase(job[j].st) = "waiting" /\ UNCHANGED <<paused, closing>>
      BY <1>4, Zenon DEF BootBegins, Phase
    <2> HIDE DEF r
    <2>3. job[j].vm \in VMs /\ job[j].boot = lockOf[job[j].vm]
      BY <1>0, <1>4, Zenon DEF JobRecord, BootBegins, JobInv, Pointers
    <2>4. lk[lockOf[job[j].vm]].token
      BY <1>4, <2>3, Zenon DEF BootBegins, TakeToken
    <2>5. MovesPhase(j, "waiting", "acting")
      BY <2>1, <2>2, AbstractPhase, Zenon
    <2>6. QED
      BY <2>3, <2>4, <2>5, TokenFree, AbstractSteps, Zenon
  <1>5. CASE BootCancelled(j)
    <2> DEFINE r == [job[j] EXCEPT !.st = "end", !.err = TRUE, !.boot = NoLock]
    <2>1. Moves(j, r) /\ r.cancelled = job[j].cancelled /\ Phase(r.st) = "leaving"
      BY <1>0, <1>5, Zenon DEF Moves, JobRecord, JobState, BootCancelled, Phase
    <2>2. Phase(job[j].st) = "waiting" /\ UNCHANGED <<paused, closing>>
      BY <1>5, Zenon DEF BootCancelled, Phase
    <2> HIDE DEF r
    <2>3. QED
      BY <2>1, <2>2, AbstractPhase, AbstractSteps, Zenon
  <1>6. CASE Call(j)
    <2> DEFINE r == [job[j] EXCEPT !.st = "call"]
    <2>1. Moves(j, r) /\ r.cancelled = job[j].cancelled /\ Phase(r.st) = "calling"
      BY <1>0, <1>6, Zenon DEF Moves, JobRecord, JobState, Call, Phase
    <2>2. Phase(job[j].st) = "acting" /\ UNCHANGED <<paused, closing>> /\ ~job[j].cancelled
      BY <1>6, Zenon DEF Call, Phase
    <2> HIDE DEF r
    <2>3. QED
      BY <2>1, <2>2, AbstractPhase, AbstractSteps, Zenon
  <1>7. ASSUME NEW ok \in BOOLEAN, job[j].st \in {"run", "call"}, Leaves(j, ok) PROVE O!Leave(j)
    <2> DEFINE r == [job[j] EXCEPT !.st = "end", !.err = ~ok, !.boot = NoLock]
    <2>1. Moves(j, r) /\ r.cancelled = job[j].cancelled /\ Phase(r.st) = "leaving"
      BY <1>0, <1>7, Zenon DEF Moves, JobRecord, JobState, Leaves, Phase
    <2>2. Phase(job[j].st) \in {"acting", "calling"} /\ UNCHANGED <<paused, closing>>
      BY <1>7, Zenon DEF Leaves, Phase
    <2> HIDE DEF r
    <2>3. QED
      BY <2>1, <2>2, AbstractPhase, AbstractSteps, Zenon
  <1>8. CASE Returns(j)
    <2> DEFINE r == [job[j] EXCEPT !.st = "final", !.err = job[j].err \/ job[j].cancelled]
    <2>1. Moves(j, r) /\ r.cancelled = job[j].cancelled /\ Phase(r.st) = "leaving"
      BY <1>0, <1>8, Zenon DEF Moves, JobRecord, JobState, Returns, Phase
    <2>2. Phase(job[j].st) = "leaving" /\ UNCHANGED <<paused, closing>>
      BY <1>8, Zenon DEF Returns, Phase
    <2> HIDE DEF r
    <2>3. QED
      BY <2>1, <2>2, AbstractStutter, Zenon
  <1>9. CASE Finish(j)
    <2> DEFINE s == IF job[j].err THEN "failed" ELSE "succeeded"
               r == [job[j] EXCEPT !.st = s, !.lock = NoLock]
    <2>1. s \in {"failed", "succeeded"} /\ job' = [job EXCEPT ![j] = r]
      BY <1>9, Zenon DEF Finish
    <2> HIDE DEF s
    <2>2. Moves(j, r) /\ r.cancelled = job[j].cancelled /\ r.st = s
      BY <1>0, <2>1, Zenon DEF Moves, JobRecord, JobState
    <2>3. Phase(s) = "over" /\ Phase(job[j].st) = "leaving" /\ UNCHANGED <<paused, closing>>
      BY <2>1, <1>9, Zenon DEF Finish, Phase
    <2> HIDE DEF r
    <2>4. QED
      BY <2>2, <2>3, AbstractPhase, AbstractSteps, Zenon
  <1>10. ASSUME NEW ok \in BOOLEAN, CreateEnds(j, ok) PROVE O!GiveUp(j)
    <2> DEFINE r == [job[j] EXCEPT !.st = "end", !.err = ~ok]
    <2>1. Moves(j, r) /\ r.cancelled = job[j].cancelled /\ Phase(r.st) = "leaving"
      BY <1>0, <1>10, Zenon DEF Moves, JobRecord, JobState, CreateEnds, Phase
    <2>2. Phase(job[j].st) = "waiting" /\ UNCHANGED <<paused, closing>>
      BY <1>10, Zenon DEF CreateEnds, Phase
    <2> HIDE DEF r
    <2>3. QED
      BY <2>1, <2>2, AbstractPhase, AbstractSteps, Zenon
  <1>11. QED
    BY <1>1, <1>2, <1>3, <1>4, <1>5, <1>6, <1>7, <1>8, <1>9, <1>10, ZenonT(30)
       DEF JobStep, RunFails, CallReturns

\* SubmitResult is the abstract Accept: the new entry's context is not done.
LEMMA SubmitRefines ==
  ASSUME JobInv, NEW j \in Jobs, NEW kind \in Kinds, NEW v \in VMs, Submit(j, kind, v)
  PROVE  O!Accept(j, v)
  <1>1. PICK l \in LockId : job' = [job EXCEPT ![j] = [NoJob(v) EXCEPT !.st = "queued", !.kind = kind, !.lock = l]]
    BY Zenon DEF Submit
  <1> DEFINE r == [NoJob(v) EXCEPT !.st = "queued", !.kind = kind, !.lock = l]
  <1>2. r.st = "queued" /\ r.vm = v /\ r.cancelled = FALSE
    BY Zenon DEF NoJob
  <1>3. job'[j] = r /\ \A i \in Jobs : i # j => job'[i] = job[i]
    BY <1>1, Zenon DEF JobInv, JobTypeOK
  <1> HIDE DEF r
  <1>4. Op[j] = "none" /\ ~closing /\ ~paused /\ UNCHANGED <<paused, closing>>
    BY Zenon DEF Submit, Op, Phase
  <1>5. Op' = [Op EXCEPT ![j] = "waiting"]
    BY <1>2, <1>3, Zenon DEF Op, Phase
  <1>6. On' = [On EXCEPT ![j] = v]
    BY <1>2, <1>3, Zenon DEF On
  <1>7. Told' = Told \ {j}
    BY <1>2, <1>3, Zenon DEF Told
  <1>8. QED
    BY <1>4, <1>5, <1>6, <1>7, Zenon DEF O!Accept, Op, On, Told

\* InterruptIf reaches every operation that is not over.
LEMMA InterruptRefines == ASSUME JobInv, InterruptIf(TRUE) PROVE O!Interrupt(TRUE)
  <1>1. \A j \in Jobs :
          /\ job'[j].st = job[j].st /\ job'[j].vm = job[j].vm
          /\ job'[j].cancelled <=> job[j].cancelled \/ j \in Active
    BY Zenon DEF InterruptIf, Cancelled, JobInv, JobTypeOK, JobRecord
  <1>2. Op' = Op /\ On' = On
    BY <1>1, Zenon DEF Op, On
  <1>3. \A j \in Jobs : j \in Active <=> Op[j] \notin {"none", "over"}
    <2>1. \A j \in Jobs : job[j].st \in JobState
      BY Zenon DEF JobInv, JobTypeOK, JobRecord
    <2>2. QED
      BY <2>1, Zenon DEF Active, Op, Phase, JobState
  <1>4. Told' = Told \cup {j \in Jobs : Op[j] \notin {"none", "over"}}
    BY <1>1, <1>3, Zenon DEF Told
  <1>5. QED
    BY <1>2, <1>4, Zenon DEF O!Interrupt, O!Running, InterruptIf, Op, On, Told

\* The initial states correspond.
LEMMA InitRefines == JobInit => O!OpInit
  <1> SUFFICES ASSUME JobInit PROVE O!OpInit
    BY Zenon
  <1>1. PICK vm \in [Jobs -> VMs] : job = [j \in Jobs |-> NoJob(vm[j])]
    BY Zenon DEF JobInit
  <1>2. \A j \in Jobs : job[j].st = "none" /\ job[j].vm = vm[j] /\ job[j].cancelled = FALSE
    BY <1>1, Zenon DEF NoJob
  <1>3. Op = [j \in Jobs |-> "none"]
    BY <1>2, Zenon DEF Op, Phase
  <1>4. On \in [Jobs -> VMs] /\ Told = {}
    BY <1>2, Zenon DEF On, Told
  <1>5. QED
    BY <1>3, <1>4, Zenon DEF O!OpInit, JobInit, Op, On, Told

\* Every step of the registry is a step of Operations, or none.
LEMMA NextRefines == JobInv /\ [JobNext]_jobVars => [O!OpNext]_(O!opVars)
  <1> SUFFICES ASSUME JobInv, [JobNext]_jobVars PROVE [O!OpNext]_(O!opVars)
    BY Zenon
  <1>1. ASSUME NEW j \in Jobs, NEW kind \in Kinds, NEW v \in VMs, Submit(j, kind, v)
        PROVE  O!OpNext
    BY <1>1, SubmitRefines, Zenon DEF O!OpNext
  <1>2. ASSUME NEW j \in Jobs, JobStep(j) PROVE [O!OpNext]_(O!opVars)
    BY <1>2, JobStepRefines, Zenon DEF O!OpNext
  <1>3. CASE InterruptIf(TRUE)
    BY <1>3, InterruptRefines, Zenon DEF O!OpNext
  <1>4. CASE Resume
    BY <1>4, Zenon DEF Resume, O!OpNext, O!Resume
  <1>5. CASE Seal
    BY <1>5, Zenon DEF Seal, O!OpNext, O!Seal
  <1>6. CASE UNCHANGED jobVars
    BY <1>6, Zenon DEF jobVars, O!opVars
  <1>7. QED
    BY <1>1, <1>2, <1>3, <1>4, <1>5, <1>6, Zenon DEF JobNext

\* The registry implements the abstract specification of the operations
\* (SubmitResult, WithVM, InterruptIf, Resume, Seal): an operation enters its
\* callback only while no other one is inside for the same VM, and an
\* interruption tells every operation that is not over.
THEOREM RegistryImplementsOperations == JobSpec => ImplementsOperations
  <1>1. JobSpec => O!OpInit /\ [][O!OpNext]_(O!opVars)
    BY RegistryInvariant, InitRefines, NextRefines, PTL DEF JobSpec
  <1>2. QED
    BY <1>1, Zenon DEF ImplementsOperations, O!OpSpec
=============================================================================
