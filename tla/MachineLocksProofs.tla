------------------------- MODULE MachineLocksProofs -------------------------
(***************************************************************************)
(* Proofs about MachineLocks for any number of processes, machines, lock   *)
(* ids and inodes.                                                         *)
(***************************************************************************)
EXTENDS MachineLocks, TLAPS

Creating(c) == pc[c] \in {"scan", "reserved"}
Locking(c) == pc[c] \in {"resolved", "opened", "locked", "owned", "freeing", "freed"}
HasFile(c) == pc[c] \in {"opened", "locked", "owned", "freeing", "freed"}
Holds(c) == pc[c] \in {"locked", "owned", "freeing", "freed"}

\* A client has a machine, an open file and an flock exactly while it says so.
Locals == \A c \in Client :
            /\ pc[c] = "idle" <=> mach[c] = None
            /\ HasFile(c) <=> fd[c] # None
            /\ Creating(c) <=> nameLock = c
            /\ \A i \in Inode : flock[i] = c <=> (Holds(c) /\ fd[c] = i)

\* The id of a machine being created is known to its creator only.
CreatorAlone == \A c \in Client : Creating(c) =>
                  /\ config[mach[c]] = None
                  /\ \A d \in Client : mach[d] = mach[c] => d = c

\* The lock file of a stored machine is linked.
StoredLinked == \A m \in Machine : config[m] # None => file[config[m]] # None

\* A reservation is linked and belongs to no stored machine.
ReservedApart == \A c \in Client : pc[c] = "reserved" =>
                   /\ file[lid[c]] # None
                   /\ \A m \in Machine : config[m] # lid[c]

\* The entry a removal is about to unlink is the one it has open, and belongs
\* to no stored machine, reservation or other removal.
FreeingApart == \A c \in Client : pc[c] = "freeing" =>
                  /\ file[lid[c]] = fd[c]
                  /\ \A m \in Machine : config[m] # lid[c]
                  /\ \A d \in Client :
                       (pc[d] \in {"reserved", "freeing"} /\ lid[d] = lid[c]) => d = c

\* A removed machine has no row.
RemovedGone == \A c \in Client : pc[c] \in {"freeing", "freed"} => config[mach[c]] = None

\* While the store has the row, or the removal has yet to unlink the file,
\* everyone who locks the machine uses one lock id and one inode.
OneInode == \A c \in Client : Locking(c) =>
              /\ config[mach[c]] # None =>
                   /\ lid[c] = config[mach[c]]
                   /\ HasFile(c) => fd[c] = file[lid[c]]
              /\ \A d \in Client : (pc[d] = "freeing" /\ mach[d] = mach[c]) =>
                   /\ lid[c] = lid[d]
                   /\ HasFile(c) => fd[c] = fd[d]

\* lock_machine_config returns with the row it holds the lock of.
OwnedStored == \A c \in Client :
                 (pc[c] = "owned" /\ mode[c] = "lock") => config[mach[c]] = lid[c]

LockInv == /\ TypeOK
           /\ Locals
           /\ CreatorAlone
           /\ StoredLinked
           /\ DistinctLockIds
           /\ ReservedApart
           /\ FreeingApart
           /\ RemovedGone
           /\ OneInode
           /\ OwnedStored

-----------------------------------------------------------------------------
(***************************************************************************)
(* LockInv is inductive: one lemma per action, one step per conjunct.      *)
(***************************************************************************)

\* In the initial state nothing exists and nobody is busy.
LEMMA LockInvInit == Init => LockInv
  BY MaxLockIdAssumption, NoneAssumption
  DEF Init, LockInv, TypeOK, Locals, CreatorAlone, StoredLinked, DistinctLockIds,
      ReservedApart, FreeingApart, RemovedGone, OneInode, OwnedStored,
      Creating, Locking, HasFile, Holds, LockId, PC

\* A client that lets go of everything, returning or dying, disturbs nobody:
\* its lock file and its row stay as they are (LockGuard drop, process death).
LEMMA DropGuardsKeeps ==
  ASSUME LockInv, NEW c \in Client, DropGuards(c), UNCHANGED <<file, config>>
  PROVE  LockInv'
  <1> USE MaxLockIdAssumption, NoneAssumption
      DEF LockInv, LockId, PC, Creating, Locking, HasFile, Holds
  <1>1. TypeOK'
    BY DEF DropGuards, TypeOK, Locals
  <1>2. Locals'
    BY DEF DropGuards, Locals, TypeOK
  <1>3. CreatorAlone'
    BY DEF DropGuards, CreatorAlone, TypeOK, Locals
  <1>4. StoredLinked'
    BY Zenon DEF DropGuards, StoredLinked, TypeOK, ReservedApart, FreeingApart
  <1>5. DistinctLockIds'
    BY Zenon DEF DropGuards, DistinctLockIds, TypeOK, ReservedApart
  <1>6. ReservedApart'
    BY DEF DropGuards, ReservedApart, TypeOK, Locals, StoredLinked,
           FreeingApart
  <1>7. FreeingApart'
    BY DEF DropGuards, FreeingApart, TypeOK, Locals, StoredLinked,
           DistinctLockIds, ReservedApart, OneInode, OwnedStored
  <1>8. RemovedGone'
    BY DEF DropGuards, RemovedGone, TypeOK, Locals, CreatorAlone
  <1>9. OneInode'
    BY DEF DropGuards, OneInode, TypeOK, Locals, CreatorAlone, StoredLinked,
           DistinctLockIds, ReservedApart, FreeingApart, RemovedGone,
           OwnedStored
  <1>10. OwnedStored'
    BY DEF DropGuards, OwnedStored, TypeOK, Locals, CreatorAlone, OneInode
  <1> QED BY <1>1, <1>2, <1>3, <1>4, <1>5, <1>6, <1>7, <1>8, <1>9, <1>10, Zenon DEF LockInv

\* The id is fresh, so the new creator is the only one to know it.
LEMMA CreateBeginKeeps ==
  ASSUME LockInv, NEW c \in Client, NEW m \in Machine, CreateBegin(c, m)
  PROVE  LockInv'
  <1> USE MaxLockIdAssumption, NoneAssumption
      DEF LockInv, LockId, PC, Creating, Locking, HasFile, Holds
  <1>1. TypeOK'
    BY DEF CreateBegin, FreshId, TypeOK, Locals
  <1>2. Locals'
    BY DEF CreateBegin, FreshId, Locals, TypeOK
  <1>3. CreatorAlone'
    BY DEF CreateBegin, FreshId, CreatorAlone, TypeOK, Locals
  <1>4. StoredLinked'
    BY Zenon DEF CreateBegin, FreshId, StoredLinked, TypeOK, ReservedApart,
           FreeingApart
  <1>5. DistinctLockIds'
    BY Zenon DEF CreateBegin, FreshId, DistinctLockIds, TypeOK, ReservedApart
  <1>6. ReservedApart'
    BY DEF CreateBegin, FreshId, ReservedApart, TypeOK, Locals, StoredLinked,
           FreeingApart
  <1>7. FreeingApart'
    BY DEF CreateBegin, FreshId, FreeingApart, TypeOK, Locals, StoredLinked,
           DistinctLockIds, ReservedApart, OneInode, OwnedStored
  <1>8. RemovedGone'
    BY DEF CreateBegin, FreshId, RemovedGone, TypeOK, Locals, CreatorAlone
  <1>9. OneInode'
    BY DEF CreateBegin, FreshId, OneInode, TypeOK, Locals, CreatorAlone,
           StoredLinked, DistinctLockIds, ReservedApart, FreeingApart,
           RemovedGone, OwnedStored
  <1>10. OwnedStored'
    BY DEF CreateBegin, FreshId, OwnedStored, TypeOK, Locals, CreatorAlone,
           OneInode
  <1> QED BY <1>1, <1>2, <1>3, <1>4, <1>5, <1>6, <1>7, <1>8, <1>9, <1>10, Zenon DEF LockInv

\* Skipping a taken id (LockManager::allocate) only moves the scan.
LEMMA AllocateSkipKeeps ==
  ASSUME LockInv, NEW c \in Client, AllocateSkip(c)
  PROVE  LockInv'
  <1>1. CASE lid[c] < MaxLockId
    <2> USE <1>1, MaxLockIdAssumption, NoneAssumption
        DEF LockInv, LockId, PC, Creating, Locking, HasFile, Holds
    <2>1. TypeOK'
      <3>1. lid[c] + 1 \in LockId
        BY DEF TypeOK
      <3>2. lid' = [lid EXCEPT ![c] = lid[c] + 1]
        BY Zenon DEF AllocateSkip
      <3>3. UNCHANGED <<file, flock, config, nameLock, pc, mode, mach, fd>>
        BY Zenon DEF AllocateSkip
      <3> HIDE DEF LockId
      <3> QED BY <3>1, <3>2, <3>3, Zenon DEF TypeOK
    <2>2. Locals'
      BY DEF AllocateSkip, Locals, TypeOK
    <2>3. CreatorAlone'
      BY DEF AllocateSkip, CreatorAlone, TypeOK, Locals
    <2>4. StoredLinked'
      BY Zenon DEF AllocateSkip, StoredLinked, TypeOK, ReservedApart, FreeingApart
    <2>5. DistinctLockIds'
      BY Zenon DEF AllocateSkip, DistinctLockIds, TypeOK, ReservedApart
    <2>6. ReservedApart'
      BY DEF AllocateSkip, ReservedApart, TypeOK, Locals, StoredLinked,
           FreeingApart
    <2>7. FreeingApart'
      BY DEF AllocateSkip, FreeingApart, TypeOK, Locals, StoredLinked,
           DistinctLockIds, ReservedApart, OneInode, OwnedStored
    <2>8. RemovedGone'
      BY DEF AllocateSkip, RemovedGone, TypeOK, Locals, CreatorAlone
    <2>9. OneInode'
      BY DEF AllocateSkip, OneInode, TypeOK, Locals, CreatorAlone, StoredLinked,
           DistinctLockIds, ReservedApart, FreeingApart, RemovedGone,
           OwnedStored
    <2>10. OwnedStored'
      BY DEF AllocateSkip, OwnedStored, TypeOK, Locals, CreatorAlone, OneInode
    <2> QED BY <2>1, <2>2, <2>3, <2>4, <2>5, <2>6, <2>7, <2>8, <2>9, <2>10, Zenon DEF LockInv
  <1>2. CASE ~(lid[c] < MaxLockId)
    BY <1>2, DropGuardsKeeps, Zenon DEF AllocateSkip
  <1> QED BY <1>1, <1>2, Zenon

\* The entry was free, so no stored machine and no removal had its id.
LEMMA AllocateTakeKeeps ==
  ASSUME LockInv, NEW c \in Client, AllocateTake(c)
  PROVE  LockInv'
  <1> USE MaxLockIdAssumption, NoneAssumption
      DEF LockInv, LockId, PC, Creating, Locking, HasFile, Holds
  <1>1. TypeOK'
    BY DEF AllocateTake, Unused, TypeOK, Locals
  <1>2. Locals'
    BY DEF AllocateTake, Unused, Locals, TypeOK
  <1>3. CreatorAlone'
    BY DEF AllocateTake, Unused, CreatorAlone, TypeOK, Locals
  <1>4. StoredLinked'
    BY DEF AllocateTake, Unused, StoredLinked, TypeOK, ReservedApart,
           FreeingApart
  <1>5. DistinctLockIds'
    BY Zenon DEF AllocateTake, Unused, DistinctLockIds, TypeOK, ReservedApart
  <1>6. ReservedApart'
    BY DEF AllocateTake, Unused, ReservedApart, TypeOK, Locals, StoredLinked,
           FreeingApart
  <1>7. FreeingApart'
    BY DEF AllocateTake, Unused, FreeingApart, TypeOK, Locals, StoredLinked,
           DistinctLockIds, ReservedApart, OneInode, OwnedStored
  <1>8. RemovedGone'
    BY DEF AllocateTake, Unused, RemovedGone, TypeOK, Locals, CreatorAlone
  <1>9. OneInode'
    BY DEF AllocateTake, Unused, OneInode, TypeOK, Locals, CreatorAlone,
           StoredLinked, DistinctLockIds, ReservedApart, FreeingApart,
           RemovedGone, OwnedStored
  <1>10. OwnedStored'
    BY DEF AllocateTake, Unused, OwnedStored, TypeOK, Locals, CreatorAlone,
           OneInode
  <1> QED BY <1>1, <1>2, <1>3, <1>4, <1>5, <1>6, <1>7, <1>8, <1>9, <1>10, Zenon DEF LockInv

\* The reserved id was nobody's, and nobody else knows the machine.
LEMMA CommitKeeps ==
  ASSUME LockInv, NEW c \in Client, Commit(c)
  PROVE  LockInv'
  <1> USE MaxLockIdAssumption, NoneAssumption
      DEF LockInv, LockId, PC, Creating, Locking, HasFile, Holds
  <1>1. TypeOK'
    BY DEF Commit, DropGuards, TypeOK, Locals
  <1>2. Locals'
    BY DEF Commit, DropGuards, Locals, TypeOK
  <1>3. CreatorAlone'
    BY DEF Commit, DropGuards, CreatorAlone, TypeOK, Locals
  <1>4. StoredLinked'
    BY Zenon DEF Commit, DropGuards, StoredLinked, TypeOK, ReservedApart,
           FreeingApart
  <1>5. DistinctLockIds'
    BY DEF Commit, DropGuards, DistinctLockIds, TypeOK, ReservedApart
  <1>6. ReservedApart'
    BY DEF Commit, DropGuards, ReservedApart, TypeOK, Locals, StoredLinked,
           FreeingApart
  <1>7. FreeingApart'
    BY DEF Commit, DropGuards, FreeingApart, TypeOK, Locals, StoredLinked,
           DistinctLockIds, ReservedApart, OneInode, OwnedStored
  <1>8. RemovedGone'
    BY DEF Commit, DropGuards, RemovedGone, TypeOK, Locals, CreatorAlone
  <1>9. OneInode'
    BY DEF Commit, DropGuards, OneInode, TypeOK, Locals, CreatorAlone,
           StoredLinked, DistinctLockIds, ReservedApart, FreeingApart,
           RemovedGone, OwnedStored
  <1>10. OwnedStored'
    BY DEF Commit, DropGuards, OwnedStored, TypeOK, Locals, CreatorAlone,
           OneInode
  <1> QED BY <1>1, <1>2, <1>3, <1>4, <1>5, <1>6, <1>7, <1>8, <1>9, <1>10, Zenon DEF LockInv

\* The entry unlinked is the creator's own reservation.
LEMMA RollbackKeeps ==
  ASSUME LockInv, NEW c \in Client, Rollback(c)
  PROVE  LockInv'
  <1> USE MaxLockIdAssumption, NoneAssumption
      DEF LockInv, LockId, PC, Creating, Locking, HasFile, Holds
  <1>1. TypeOK'
    BY DEF Rollback, DropGuards, TypeOK, Locals
  <1>2. Locals'
    BY DEF Rollback, DropGuards, Locals, TypeOK
  <1>3. CreatorAlone'
    BY DEF Rollback, DropGuards, CreatorAlone, TypeOK, Locals
  <1>4. StoredLinked'
    BY DEF Rollback, DropGuards, StoredLinked, TypeOK, ReservedApart,
           FreeingApart
  <1>5. DistinctLockIds'
    BY Zenon DEF Rollback, DropGuards, DistinctLockIds, TypeOK, ReservedApart
  <1>6. ReservedApart'
    BY DEF Rollback, DropGuards, ReservedApart, TypeOK, Locals, StoredLinked,
           FreeingApart
  <1>7. FreeingApart'
    BY DEF Rollback, DropGuards, FreeingApart, TypeOK, Locals, StoredLinked,
           DistinctLockIds, ReservedApart, OneInode, OwnedStored
  <1>8. RemovedGone'
    BY DEF Rollback, DropGuards, RemovedGone, TypeOK, Locals, CreatorAlone
  <1>9. OneInode'
    BY DEF Rollback, DropGuards, OneInode, TypeOK, Locals, CreatorAlone,
           StoredLinked, DistinctLockIds, ReservedApart, FreeingApart,
           RemovedGone, OwnedStored
  <1>10. OwnedStored'
    BY DEF Rollback, DropGuards, OwnedStored, TypeOK, Locals, CreatorAlone,
           OneInode
  <1> QED BY <1>1, <1>2, <1>3, <1>4, <1>5, <1>6, <1>7, <1>8, <1>9, <1>10, Zenon DEF LockInv

\* The row exists, so no removal of that machine is under way.
LEMMA ResolveKeeps ==
  ASSUME LockInv, NEW c \in Client, NEW m \in Machine, NEW md \in {"lock", "try"}, Resolve(c, m, md)
  PROVE  LockInv'
  <1> USE MaxLockIdAssumption, NoneAssumption
      DEF LockInv, LockId, PC, Creating, Locking, HasFile, Holds
  <1>1. TypeOK'
    BY DEF Resolve, TypeOK, Locals
  <1>2. Locals'
    BY DEF Resolve, Locals, TypeOK
  <1>3. CreatorAlone'
    BY DEF Resolve, CreatorAlone, TypeOK, Locals
  <1>4. StoredLinked'
    BY Zenon DEF Resolve, StoredLinked, TypeOK, ReservedApart, FreeingApart
  <1>5. DistinctLockIds'
    BY Zenon DEF Resolve, DistinctLockIds, TypeOK, ReservedApart
  <1>6. ReservedApart'
    BY DEF Resolve, ReservedApart, TypeOK, Locals, StoredLinked, FreeingApart
  <1>7. FreeingApart'
    BY DEF Resolve, FreeingApart, TypeOK, Locals, StoredLinked,
           DistinctLockIds, ReservedApart, OneInode, OwnedStored
  <1>8. RemovedGone'
    BY DEF Resolve, RemovedGone, TypeOK, Locals, CreatorAlone
  <1>9. OneInode'
    BY DEF Resolve, OneInode, TypeOK, Locals, CreatorAlone, StoredLinked,
           DistinctLockIds, ReservedApart, FreeingApart, RemovedGone,
           OwnedStored
  <1>10. OwnedStored'
    BY DEF Resolve, OwnedStored, TypeOK, Locals, CreatorAlone, OneInode
  <1> QED BY <1>1, <1>2, <1>3, <1>4, <1>5, <1>6, <1>7, <1>8, <1>9, <1>10, Zenon DEF LockInv

\* A linked entry stays as it is; a recreated one is nobody's.
LEMMA OpenLockFileKeeps ==
  ASSUME LockInv, NEW c \in Client, OpenLockFile(c)
  PROVE  LockInv'
  <1> USE MaxLockIdAssumption, NoneAssumption
      DEF LockInv, LockId, PC, Creating, Locking, HasFile, Holds
  <1>1. TypeOK'
    BY DEF OpenLockFile, Unused, TypeOK, Locals
  <1>2. Locals'
    BY DEF OpenLockFile, Unused, Locals, TypeOK
  <1>3. CreatorAlone'
    BY DEF OpenLockFile, Unused, CreatorAlone, TypeOK, Locals
  <1>4. StoredLinked'
    BY DEF OpenLockFile, Unused, StoredLinked, TypeOK, ReservedApart,
           FreeingApart
  <1>5. DistinctLockIds'
    BY Zenon DEF OpenLockFile, Unused, DistinctLockIds, TypeOK, ReservedApart
  <1>6. ReservedApart'
    BY DEF OpenLockFile, Unused, ReservedApart, TypeOK, Locals, StoredLinked,
           FreeingApart
  <1>7. FreeingApart'
    BY DEF OpenLockFile, Unused, FreeingApart, TypeOK, Locals, StoredLinked,
           DistinctLockIds, ReservedApart, OneInode, OwnedStored
  <1>8. RemovedGone'
    BY DEF OpenLockFile, Unused, RemovedGone, TypeOK, Locals, CreatorAlone
  <1>9. OneInode'
    BY DEF OpenLockFile, Unused, OneInode, TypeOK, Locals, CreatorAlone,
           StoredLinked, DistinctLockIds, ReservedApart, FreeingApart,
           RemovedGone, OwnedStored
  <1>10. OwnedStored'
    BY DEF OpenLockFile, Unused, OwnedStored, TypeOK, Locals, CreatorAlone,
           OneInode
  <1> QED BY <1>1, <1>2, <1>3, <1>4, <1>5, <1>6, <1>7, <1>8, <1>9, <1>10, Zenon DEF LockInv

\* Nobody held the inode.
LEMMA FlockExclusiveKeeps ==
  ASSUME LockInv, NEW c \in Client, FlockExclusive(c)
  PROVE  LockInv'
  <1> USE MaxLockIdAssumption, NoneAssumption
      DEF LockInv, LockId, PC, Creating, Locking, HasFile, Holds
  <1>1. TypeOK'
    BY Zenon DEF FlockExclusive, TypeOK, Locals
  <1>2. Locals'
    BY DEF FlockExclusive, Locals, TypeOK
  <1>3. CreatorAlone'
    BY DEF FlockExclusive, CreatorAlone, TypeOK, Locals
  <1>4. StoredLinked'
    BY Zenon DEF FlockExclusive, StoredLinked, TypeOK, ReservedApart, FreeingApart
  <1>5. DistinctLockIds'
    BY Zenon DEF FlockExclusive, DistinctLockIds, TypeOK, ReservedApart
  <1>6. ReservedApart'
    BY DEF FlockExclusive, ReservedApart, TypeOK, Locals, StoredLinked,
           FreeingApart
  <1>7. FreeingApart'
    BY DEF FlockExclusive, FreeingApart, TypeOK, Locals, StoredLinked,
           DistinctLockIds, ReservedApart, OneInode, OwnedStored
  <1>8. RemovedGone'
    BY DEF FlockExclusive, RemovedGone, TypeOK, Locals, CreatorAlone
  <1>9. OneInode'
    BY DEF FlockExclusive, OneInode, TypeOK, Locals, CreatorAlone,
           StoredLinked, DistinctLockIds, ReservedApart, FreeingApart,
           RemovedGone, OwnedStored
  <1>10. OwnedStored'
    BY DEF FlockExclusive, OwnedStored, TypeOK, Locals, CreatorAlone, OneInode
  <1> QED BY <1>1, <1>2, <1>3, <1>4, <1>5, <1>6, <1>7, <1>8, <1>9, <1>10, Zenon DEF LockInv

\* Reading the row again (lock_machine_config) either finds it or lets go.
LEMMA ReresolveKeeps ==
  ASSUME LockInv, NEW c \in Client, Reresolve(c)
  PROVE  LockInv'
  <1>1. CASE config[mach[c]] = lid[c]
    <2> USE <1>1, MaxLockIdAssumption, NoneAssumption
        DEF LockInv, LockId, PC, Creating, Locking, HasFile, Holds
    <2>1. TypeOK'
      <3>1. pc' = [pc EXCEPT ![c] = "owned"]
        BY Zenon DEF Reresolve
      <3>2. UNCHANGED <<file, flock, config, nameLock, mode, mach, lid, fd>>
        BY Zenon DEF Reresolve
      <3> QED BY <3>1, <3>2, Zenon DEF TypeOK
    <2>2. Locals'
      BY DEF Reresolve, Locals, TypeOK
    <2>3. CreatorAlone'
      BY DEF Reresolve, CreatorAlone, TypeOK, Locals
    <2>4. StoredLinked'
      BY Zenon DEF Reresolve, StoredLinked, TypeOK, ReservedApart, FreeingApart
    <2>5. DistinctLockIds'
      BY Zenon DEF Reresolve, DistinctLockIds, TypeOK, ReservedApart
    <2>6. ReservedApart'
      BY DEF Reresolve, ReservedApart, TypeOK, Locals, StoredLinked,
           FreeingApart
    <2>7. FreeingApart'
      BY DEF Reresolve, FreeingApart, TypeOK, Locals, StoredLinked,
           DistinctLockIds, ReservedApart, OneInode, OwnedStored
    <2>8. RemovedGone'
      BY DEF Reresolve, RemovedGone, TypeOK, Locals, CreatorAlone
    <2>9. OneInode'
      BY DEF Reresolve, OneInode, TypeOK, Locals, CreatorAlone, StoredLinked,
           DistinctLockIds, ReservedApart, FreeingApart, RemovedGone,
           OwnedStored
    <2>10. OwnedStored'
      BY DEF Reresolve, OwnedStored, TypeOK, Locals, CreatorAlone, OneInode
    <2> QED BY <2>1, <2>2, <2>3, <2>4, <2>5, <2>6, <2>7, <2>8, <2>9, <2>10, Zenon DEF LockInv
  <1>2. CASE config[mach[c]] # lid[c]
    BY <1>2, DropGuardsKeeps, Zenon DEF Reresolve
  <1> QED BY <1>1, <1>2, Zenon

\* The remover owns the row; others in its place would hold the same inode.
LEMMA RemoveMachineRecordKeeps ==
  ASSUME LockInv, NEW c \in Client, RemoveMachineRecord(c)
  PROVE  LockInv'
  <1> USE MaxLockIdAssumption, NoneAssumption
      DEF LockInv, LockId, PC, Creating, Locking, HasFile, Holds
  <1>1. TypeOK'
    BY Zenon DEF RemoveMachineRecord, TypeOK, Locals
  <1>2. Locals'
    BY DEF RemoveMachineRecord, Locals, TypeOK
  <1>3. CreatorAlone'
    BY DEF RemoveMachineRecord, CreatorAlone, TypeOK, Locals
  <1>4. StoredLinked'
    BY Zenon DEF RemoveMachineRecord, StoredLinked, TypeOK, ReservedApart,
           FreeingApart
  <1>5. DistinctLockIds'
    BY Zenon DEF RemoveMachineRecord, DistinctLockIds, TypeOK, ReservedApart
  <1>6. ReservedApart'
    BY DEF RemoveMachineRecord, ReservedApart, TypeOK, Locals, StoredLinked,
           FreeingApart
  <1>7. FreeingApart'
    BY DEF RemoveMachineRecord, FreeingApart, TypeOK, Locals, StoredLinked,
           DistinctLockIds, ReservedApart, OneInode, OwnedStored
  <1>8. RemovedGone'
    BY DEF RemoveMachineRecord, RemovedGone, TypeOK, Locals, CreatorAlone
  <1>9. OneInode'
    BY DEF RemoveMachineRecord, OneInode, TypeOK, Locals, CreatorAlone,
           StoredLinked, DistinctLockIds, ReservedApart, FreeingApart,
           RemovedGone, OwnedStored
  <1>10. OwnedStored'
    BY DEF RemoveMachineRecord, OwnedStored, TypeOK, Locals, CreatorAlone,
           OneInode
  <1> QED BY <1>1, <1>2, <1>3, <1>4, <1>5, <1>6, <1>7, <1>8, <1>9, <1>10, Zenon DEF LockInv

\* The entry unlinked is the removed machine's own.
LEMMA FreeKeeps ==
  ASSUME LockInv, NEW c \in Client, Free(c)
  PROVE  LockInv'
  <1> USE MaxLockIdAssumption, NoneAssumption
      DEF LockInv, LockId, PC, Creating, Locking, HasFile, Holds
  <1>1. TypeOK'
    BY Zenon DEF Free, TypeOK, Locals
  <1>2. Locals'
    BY DEF Free, Locals, TypeOK
  <1>3. CreatorAlone'
    BY DEF Free, CreatorAlone, TypeOK, Locals
  <1>4. StoredLinked'
    BY DEF Free, StoredLinked, TypeOK, ReservedApart, FreeingApart
  <1>5. DistinctLockIds'
    BY Zenon DEF Free, DistinctLockIds, TypeOK, ReservedApart
  <1>6. ReservedApart'
    BY DEF Free, ReservedApart, TypeOK, Locals, StoredLinked, FreeingApart
  <1>7. FreeingApart'
    BY DEF Free, FreeingApart, TypeOK, Locals, StoredLinked, DistinctLockIds,
           ReservedApart, OneInode, OwnedStored
  <1>8. RemovedGone'
    BY DEF Free, RemovedGone, TypeOK, Locals, CreatorAlone
  <1>9. OneInode'
    BY DEF Free, OneInode, TypeOK, Locals, CreatorAlone, StoredLinked,
           DistinctLockIds, ReservedApart, FreeingApart, RemovedGone,
           OwnedStored
  <1>10. OwnedStored'
    BY DEF Free, OwnedStored, TypeOK, Locals, CreatorAlone, OneInode
  <1> QED BY <1>1, <1>2, <1>3, <1>4, <1>5, <1>6, <1>7, <1>8, <1>9, <1>10, Zenon DEF LockInv

\* Every step of the specification preserves the invariant.
LEMMA LockInvNext == LockInv /\ [Next]_vars => LockInv'
  <1> SUFFICES ASSUME LockInv, [Next]_vars PROVE LockInv'
    BY Zenon
  <1>1. CASE UNCHANGED vars
    <2>1. TypeOK' /\ Locals'
      BY <1>1 DEF vars, LockInv, TypeOK, Locals, Creating, HasFile, Holds
    <2>2. CreatorAlone' /\ StoredLinked' /\ DistinctLockIds'
      BY <1>1, Zenon DEF vars, LockInv, CreatorAlone, StoredLinked, DistinctLockIds, Creating
    <2>3. ReservedApart' /\ RemovedGone' /\ OwnedStored'
      BY <1>1, Zenon DEF vars, LockInv, ReservedApart, RemovedGone, OwnedStored
    <2>4. FreeingApart'
      BY <1>1, Zenon DEF vars, LockInv, FreeingApart
    <2>5. OneInode'
      BY <1>1, Zenon DEF vars, LockInv, OneInode, Locking, HasFile
    <2> QED BY <2>1, <2>2, <2>3, <2>4, <2>5, Zenon DEF LockInv
  <1>2. ASSUME NEW c \in Client, NEW m \in Machine, CreateBegin(c, m) PROVE LockInv'
    BY <1>2, CreateBeginKeeps, Zenon
  <1>3. ASSUME NEW c \in Client, AllocateSkip(c) PROVE LockInv'
    BY <1>3, AllocateSkipKeeps, Zenon
  <1>4. ASSUME NEW c \in Client, AllocateTake(c) PROVE LockInv'
    BY <1>4, AllocateTakeKeeps, Zenon
  <1>5. ASSUME NEW c \in Client, Commit(c) PROVE LockInv'
    BY <1>5, CommitKeeps, Zenon
  <1>6. ASSUME NEW c \in Client, Rollback(c) PROVE LockInv'
    BY <1>6, RollbackKeeps, Zenon
  <1>7. ASSUME NEW c \in Client, NEW m \in Machine, NEW md \in {"lock", "try"},
               Resolve(c, m, md)
        PROVE  LockInv'
    BY <1>7, ResolveKeeps, Zenon
  <1>8. ASSUME NEW c \in Client, OpenLockFile(c) PROVE LockInv'
    BY <1>8, OpenLockFileKeeps, Zenon
  <1>9. ASSUME NEW c \in Client, FlockExclusive(c) PROVE LockInv'
    BY <1>9, FlockExclusiveKeeps, Zenon
  <1>10. ASSUME NEW c \in Client, Reresolve(c) PROVE LockInv'
    BY <1>10, ReresolveKeeps, Zenon
  <1>11. ASSUME NEW c \in Client, RemoveMachineRecord(c) PROVE LockInv'
    BY <1>11, RemoveMachineRecordKeeps, Zenon
  <1>12. ASSUME NEW c \in Client, Free(c) PROVE LockInv'
    BY <1>12, FreeKeeps, Zenon
  <1>13. ASSUME NEW c \in Client, TryLockBusy(c) \/ Release(c) \/ Crash(c) PROVE LockInv'
    BY <1>13, DropGuardsKeeps, Zenon DEF TryLockBusy, Release, Crash
  <1> QED
    BY <1>1, <1>2, <1>3, <1>4, <1>5, <1>6, <1>7, <1>8, <1>9, <1>10, <1>11, <1>12,
       <1>13, Zenon DEF Next

-----------------------------------------------------------------------------
(***************************************************************************)
(* The inductive invariant holds in every reachable state of the lock      *)
(* manager (lock_manager.rs, lock_machine_config, MachineCreateGuard).     *)
(***************************************************************************)
THEOREM LockInvariant == Spec => []LockInv
  BY LockInvInit, LockInvNext, PTL DEF Spec

(***************************************************************************)
(* Operations on one machine are mutually exclusive, for any number of     *)
(* processes, machines, lock ids and inodes: owners of one machine have    *)
(* the same inode open, and an inode has one flock holder.                 *)
(***************************************************************************)
THEOREM LocksMutualExclusion == Spec => []MutualExclusion
  <1>1. LockInv => MutualExclusion
    BY NoneAssumption
    DEF LockInv, TypeOK, Locals, OneInode, MutualExclusion, RemovedGone,
        Locking, HasFile, Holds
  <1> QED BY <1>1, LockInvariant, PTL

(***************************************************************************)
(* Stored machines never share a lock id: LockManager::allocate hands out  *)
(* only ids whose file no stored machine, reservation or removal uses.     *)
(***************************************************************************)
THEOREM LocksDistinctIds == Spec => []DistinctLockIds
  BY LockInvariant, PTL DEF LockInv

(***************************************************************************)
(* No step of LockManager::free, of a rolled back create or of anything    *)
(* else replaces or removes the lock file of a machine that stays stored.  *)
(***************************************************************************)
THEOREM LocksNeverUnlinked == Spec => NeverUnlinksALiveLock
  <1> DEFINE Kept == \A m \in Machine :
                       (config[m] # None /\ config'[m] = config[m]) =>
                          file'[config[m]] = file[config[m]]
  <1>1. ASSUME LockInv, NEW c \in Client, AllocateTake(c) \/ OpenLockFile(c)
        PROVE  Kept
    BY <1>1, NoneAssumption
    DEF LockInv, TypeOK, StoredLinked, AllocateTake, OpenLockFile
  <1>2. ASSUME LockInv, NEW c \in Client, Rollback(c) PROVE Kept
    BY <1>2, NoneAssumption, Zenon DEF LockInv, TypeOK, ReservedApart, Rollback
  <1>3. ASSUME LockInv, NEW c \in Client, Free(c) PROVE Kept
    BY <1>3, NoneAssumption DEF LockInv, TypeOK, FreeingApart, Free
  <1>4. ASSUME file' = file PROVE Kept
    BY <1>4, Zenon
  <1>5. ASSUME Next PROVE \/ file' = file
                          \/ \E c \in Client : \/ AllocateTake(c) \/ OpenLockFile(c)
                                               \/ Rollback(c) \/ Free(c)
    BY <1>5, Zenon
    DEF Next, CreateBegin, AllocateSkip, Commit, Resolve, FlockExclusive,
        TryLockBusy, Reresolve, RemoveMachineRecord, Release, Crash
  <1>6. LockInv /\ [Next]_vars => [Kept]_vars
    BY <1>1, <1>2, <1>3, <1>4, <1>5, Zenon
  <1> QED BY <1>6, LockInvariant, PTL DEF Spec, NeverUnlinksALiveLock

=============================================================================
