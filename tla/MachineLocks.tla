---------------------------- MODULE MachineLocks ----------------------------
(***************************************************************************)
(* The advisory machine locks of libvm (lock_manager.rs) together with the *)
(* three code paths that use them: machine creation (machine/builder.rs),  *)
(* lock_machine_config with re-resolution under the lock, and the          *)
(* best-effort reconcile that locks with a configuration it read earlier   *)
(* (runtime/core.rs).                                                      *)
(*                                                                         *)
(* A lock file is a directory entry "locks/<id>" that names an inode;      *)
(* flock belongs to the inode, so a client that opened the file before it  *)
(* was unlinked waits on an inode that no path names any more.             *)
(***************************************************************************)
EXTENDS Naturals, FiniteSets

CONSTANTS Client,      \* processes using libvm
          Machine,     \* machine ids
          MaxLockId,   \* lock ids are 0..MaxLockId (the code: 0..=u32::MAX)
          Inode,       \* inodes of lock files
          None         \* "no inode", "no client", "no row"

LockId == 0..MaxLockId

ASSUME MaxLockIdAssumption == MaxLockId \in Nat
ASSUME NoneAssumption == /\ None \notin Client /\ None \notin Machine
                         /\ None \notin Inode /\ None \notin LockId

VARIABLES file,      \* locks/<id>: the inode the directory entry names
          flock,     \* who holds the exclusive flock of an inode
          config,    \* machine_config rows: the lock id of each stored machine
          nameLock,  \* holder of lock_machine_names
          pc,        \* where each client is
          mode,      \* "lock" (lock_machine_config) or "try" (best effort)
          mach,      \* the machine a client works on
          lid,       \* the lock id it scans, reserved or resolved
          fd         \* the lock file it has open

vars == <<file, flock, config, nameLock, pc, mode, mach, lid, fd>>

PC == {"idle", "scan", "reserved", "resolved", "opened", "locked", "owned",
       "freeing", "freed"}

TypeOK == /\ file \in [LockId -> Inode \cup {None}]
          /\ flock \in [Inode -> Client \cup {None}]
          /\ config \in [Machine -> LockId \cup {None}]
          /\ nameLock \in Client \cup {None}
          /\ pc \in [Client -> PC]
          /\ mode \in [Client -> {"lock", "try"}]
          /\ mach \in [Client -> Machine \cup {None}]
          /\ lid \in [Client -> LockId]
          /\ fd \in [Client -> Inode \cup {None}]

Init == /\ file = [l \in LockId |-> None]
        /\ flock = [i \in Inode |-> None]
        /\ config = [m \in Machine |-> None]
        /\ nameLock = None
        /\ pc = [c \in Client |-> "idle"]
        /\ mode = [c \in Client |-> "lock"]
        /\ mach = [c \in Client |-> None]
        /\ lid = [c \in Client |-> 0]
        /\ fd = [c \in Client |-> None]

\* An inode the file system may hand out: no path names it, nobody has it open.
Unused(i) == /\ \A l \in LockId : file[l] # i
             /\ \A c \in Client : fd[c] # i

\* MachineId::new is a random UUID: no row has it and no process refers to it.
FreshId(m) == config[m] = None /\ \A c \in Client : mach[c] # m

\* Every lock a client holds goes when its descriptors are closed, by a guard
\* going out of scope or by the process dying; its locals go too.
DropGuards(c) ==
  /\ pc' = [pc EXCEPT ![c] = "idle"]
  /\ fd' = [fd EXCEPT ![c] = None]
  /\ flock' = [i \in Inode |-> IF flock[i] = c THEN None ELSE flock[i]]
  /\ nameLock' = IF nameLock = c THEN None ELSE nameLock
  /\ mode' = [mode EXCEPT ![c] = "lock"]
  /\ mach' = [mach EXCEPT ![c] = None]
  /\ lid' = [lid EXCEPT ![c] = 0]

-----------------------------------------------------------------------------
(* Creating a machine: name lock, fresh id, reserve a lock id, commit. *)

CreateBegin(c, m) ==
  /\ pc[c] = "idle"
  /\ nameLock = None
  /\ FreshId(m)
  /\ nameLock' = c
  /\ pc' = [pc EXCEPT ![c] = "scan"]
  /\ mach' = [mach EXCEPT ![c] = m]
  /\ lid' = [lid EXCEPT ![c] = 0]
  /\ UNCHANGED <<file, flock, config, mode, fd>>

\* Mutant: the scan runs one past the last id.
AllocateSkipPastEnd(c) ==
  /\ pc[c] = "scan"
  /\ file[lid[c]] # None
  /\ lid' = [lid EXCEPT ![c] = lid[c] + 1]
  /\ UNCHANGED <<file, flock, config, nameLock, pc, mode, mach, fd>>

\* The id is taken (AlreadyExists): try the next one, or give up at the end.
AllocateSkip(c) ==
  /\ pc[c] = "scan"
  /\ file[lid[c]] # None
  /\ IF lid[c] < MaxLockId
     THEN /\ lid' = [lid EXCEPT ![c] = lid[c] + 1]
          /\ UNCHANGED <<flock, nameLock, pc, mode, mach, fd>>
     ELSE DropGuards(c)
  /\ UNCHANGED <<file, config>>

\* Mutant: create instead of create_new, so an entry that exists is taken.
AllocateTakeExisting(c) ==
  /\ pc[c] = "scan"
  /\ \E i \in Inode :
       /\ IF file[lid[c]] = None THEN Unused(i) ELSE i = file[lid[c]]
       /\ file' = [file EXCEPT ![lid[c]] = i]
  /\ pc' = [pc EXCEPT ![c] = "reserved"]
  /\ UNCHANGED <<flock, config, nameLock, mode, mach, lid, fd>>

\* create_lock_allocation: create_new makes the entry and closes the file.
AllocateTake(c) ==
  /\ pc[c] = "scan"
  /\ file[lid[c]] = None
  /\ \E i \in Inode :
       /\ Unused(i)
       /\ file' = [file EXCEPT ![lid[c]] = i]
  /\ pc' = [pc EXCEPT ![c] = "reserved"]
  /\ UNCHANGED <<flock, config, nameLock, mode, mach, lid, fd>>

Commit(c) ==
  /\ pc[c] = "reserved"
  /\ config' = [config EXCEPT ![mach[c]] = lid[c]]
  /\ DropGuards(c)
  /\ UNCHANGED file

\* MachineCreateGuard dropped uncommitted: the reservation is freed.
Rollback(c) ==
  /\ pc[c] = "reserved"
  /\ file' = [file EXCEPT ![lid[c]] = None]
  /\ DropGuards(c)
  /\ UNCHANGED config

-----------------------------------------------------------------------------
(* Locking a machine: read its row, open the lock file, flock, read again. *)

Resolve(c, m, md) ==
  /\ pc[c] = "idle"
  /\ config[m] # None
  /\ pc' = [pc EXCEPT ![c] = "resolved"]
  /\ mode' = [mode EXCEPT ![c] = md]
  /\ mach' = [mach EXCEPT ![c] = m]
  /\ lid' = [lid EXCEPT ![c] = config[m]]
  /\ UNCHANGED <<file, flock, config, nameLock, fd>>

\* open_lock_file opens with create(true): a freed entry comes back.
OpenLockFile(c) ==
  /\ pc[c] = "resolved"
  /\ \E i \in Inode :
       /\ IF file[lid[c]] = None THEN Unused(i) ELSE i = file[lid[c]]
       /\ file' = [file EXCEPT ![lid[c]] = i]
       /\ fd' = [fd EXCEPT ![c] = i]
  /\ pc' = [pc EXCEPT ![c] = "opened"]
  /\ UNCHANGED <<flock, config, nameLock, mode, mach, lid>>

\* The best-effort path goes on with the row it read before; lock_machine_config
\* has the row read again first.
FlockExclusive(c) ==
  /\ pc[c] = "opened"
  /\ flock[fd[c]] = None
  /\ flock' = [flock EXCEPT ![fd[c]] = c]
  /\ pc' = [pc EXCEPT ![c] = IF mode[c] = "try" THEN "owned" ELSE "locked"]
  /\ UNCHANGED <<file, config, nameLock, mode, mach, lid, fd>>

TryLockBusy(c) ==
  /\ pc[c] = "opened"
  /\ mode[c] = "try"
  /\ flock[fd[c]] # None
  /\ DropGuards(c)
  /\ UNCHANGED <<file, config>>

\* Mutant: the row is not read again once the flock is held.
ReresolveSkipped(c) ==
  /\ pc[c] = "locked"
  /\ pc' = [pc EXCEPT ![c] = "owned"]
  /\ UNCHANGED <<file, flock, config, nameLock, mode, mach, lid, fd>>

\* MachineNotFound, or the lock id of the row changed: the guard is dropped.
Reresolve(c) ==
  /\ pc[c] = "locked"
  /\ IF config[mach[c]] = lid[c]
     THEN pc' = [pc EXCEPT ![c] = "owned"] /\ UNCHANGED <<flock, nameLock, mode, mach, lid, fd>>
     ELSE DropGuards(c)
  /\ UNCHANGED <<file, config>>

-----------------------------------------------------------------------------
(* Removing a machine, releasing a lock, dying. *)

\* Mutant: the lock file is unlinked while the store still has the row.
RemoveMachineRecordFreesFirst(c) ==
  /\ pc[c] = "owned"
  /\ mode[c] = "lock"
  /\ file' = [file EXCEPT ![lid[c]] = None]
  /\ pc' = [pc EXCEPT ![c] = "freeing"]
  /\ UNCHANGED <<flock, config, nameLock, mode, mach, lid, fd>>

RemoveMachineRecord(c) ==
  /\ pc[c] = "owned"
  /\ mode[c] = "lock"
  /\ config' = [config EXCEPT ![mach[c]] = None]
  /\ pc' = [pc EXCEPT ![c] = "freeing"]
  /\ UNCHANGED <<file, flock, nameLock, mode, mach, lid, fd>>

\* LockManager::free: remove_file by path; NotFound is fine.
Free(c) ==
  /\ pc[c] = "freeing"
  /\ file' = [file EXCEPT ![lid[c]] = None]
  /\ pc' = [pc EXCEPT ![c] = "freed"]
  /\ UNCHANGED <<flock, config, nameLock, mode, mach, lid, fd>>

Release(c) ==
  /\ pc[c] \in {"owned", "freed"}
  /\ DropGuards(c)
  /\ UNCHANGED <<file, config>>

Crash(c) ==
  /\ pc[c] # "idle"
  /\ DropGuards(c)
  /\ UNCHANGED <<file, config>>

Next == \E c \in Client :
          \/ \E m \in Machine : CreateBegin(c, m)
          \/ AllocateSkip(c)
          \/ AllocateTake(c)
          \/ Commit(c)
          \/ Rollback(c)
          \/ \E m \in Machine, md \in {"lock", "try"} : Resolve(c, m, md)
          \/ OpenLockFile(c)
          \/ FlockExclusive(c)
          \/ TryLockBusy(c)
          \/ Reresolve(c)
          \/ RemoveMachineRecord(c)
          \/ Free(c)
          \/ Release(c)
          \/ Crash(c)

Spec == Init /\ [][Next]_vars

-----------------------------------------------------------------------------
(***************************************************************************)
(* Two processes never work on one machine at once: whoever took its lock  *)
(* through lock_machine_config or through the best-effort reconcile is     *)
(* alone on the inode, until the removal has freed it, although removal    *)
(* unlinks the file, ids are reused and a late open recreates a freed      *)
(* file.  (On a machine already removed the best-effort path can only fail *)
(* to save a row, whatever it holds.)                                      *)
(***************************************************************************)
MutualExclusion ==
  \A c, d \in Client :
    (/\ pc[c] \in {"owned", "freeing"}
     /\ pc[d] \in {"owned", "freeing"}
     /\ mach[c] = mach[d]
     /\ config[mach[c]] # None \/ pc[c] = "freeing") => c = d

(***************************************************************************)
(* "two live creates do not receive the same lock ID" (lock_manager.rs),   *)
(* across removals, rollbacks, crashes and tombstones: stored machines     *)
(* never share a lock id.                                                  *)
(***************************************************************************)
DistinctLockIds ==
  \A m, n \in Machine : (config[m] # None /\ config[m] = config[n]) => m = n

(***************************************************************************)
(* LockManager::free and the rollback of a create remove a file by path:   *)
(* the entry they remove is never the lock file of a stored machine.       *)
(***************************************************************************)
NeverUnlinksALiveLock ==
  [][\A m \in Machine :
       (config[m] # None /\ config'[m] = config[m]) =>
          file'[config[m]] = file[config[m]]]_vars

=============================================================================
