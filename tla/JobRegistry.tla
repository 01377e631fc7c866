------------------------------ MODULE JobRegistry ------------------------------
(***************************************************************************)
(* taild's registry of operations (app/taild/internal/jobs/registry.go).   *)
(* Every accepted operation is a goroutine that takes the token of its     *)
(* VM's lock, runs its callback and publishes its result.  A lock is an    *)
(* object found through the map `locks` and dropped from it with its last  *)
(* user; a goroutine keeps a pointer to it, so here locks have identities. *)
(* A create holds the lock of its own operation, and takes the lock of the *)
(* new VM with WithVM to boot it.                                          *)
(*                                                                         *)
(* What a callback does to its VM is one call to the daemon.  Progress     *)
(* lines, metrics and the pruning of old entries are left out.             *)
(***************************************************************************)
EXTENDS Naturals, FiniteSets

CONSTANTS Jobs,      \* operation ids
          VMs,
          LockId,    \* lock objects
          NoLock,
          Kinds,     \* "create", and any other operation as "start"
          JobLimit   \* Registry.limit

ASSUME RegistryAssumption ==
  /\ NoLock \notin LockId
  /\ VMs \cap Jobs = {}
  /\ Kinds \subseteq {"create", "start"}
  /\ JobLimit \in Nat
  /\ IsFiniteSet(Jobs)

VARIABLES job,       \* entries and their goroutines
          lockOf,    \* Registry.locks
          lk,        \* lock objects: the token in the channel, and refs
          paused,
          closing

jobVars == <<job, lockOf, lk, paused, closing>>

Key == VMs \cup Jobs

JobState == {"none", "queued", "create", "bootwait", "run", "call", "end", "final",
             "succeeded", "failed"}

NoJob(v) == [st |-> "none", kind |-> "start", vm |-> v, cancelled |-> FALSE, err |-> FALSE,
             lock |-> NoLock, boot |-> NoLock]

Active == {j \in Jobs : job[j].st \notin {"none", "succeeded", "failed"}}

\* The channel of Drained is closed: every goroutine is done.
Drained == Active = {}

LockKey(j) == IF job[j].kind = "create" THEN j ELSE job[j].vm

\* Goroutines inside the part of a callback that acts on v.
Acting(v) == {j \in Jobs : job[j].vm = v /\ job[j].st \in {"run", "call"}}

JobInit ==
  /\ \E vm \in [Jobs -> VMs] : job = [j \in Jobs |-> NoJob(vm[j])]
  /\ lockOf = [k \in Key |-> NoLock]
  /\ lk = [l \in LockId |-> [token |-> TRUE, refs |-> 0]]
  /\ paused = FALSE
  /\ closing = FALSE

-----------------------------------------------------------------------------
(* Locks.  A lock object nobody points to is free to stand for a new one.   *)

InUse == {lockOf[k] : k \in Key} \cup {job[j].lock : j \in Jobs} \cup {job[j].boot : j \in Jobs}

Fresh == CHOOSE l \in LockId : l \notin InUse

\* Mutant: the map is not consulted, every user makes a lock of its own.
acquireLockedNew(k, l) ==
  /\ l = Fresh /\ l \notin InUse
  /\ lockOf' = [lockOf EXCEPT ![k] = l]
  /\ lk' = [lk EXCEPT ![l] = [token |-> TRUE, refs |-> 1]]

acquireLocked(k, l) ==
  \/ /\ lockOf[k] = NoLock
     /\ l = Fresh /\ l \notin InUse
     /\ lockOf' = [lockOf EXCEPT ![k] = l]
     /\ lk' = [lk EXCEPT ![l] = [token |-> TRUE, refs |-> 1]]
  \/ /\ lockOf[k] # NoLock
     /\ l = lockOf[k]
     /\ lk' = [lk EXCEPT ![l].refs = @ + 1]
     /\ UNCHANGED lockOf

\* Mutant: the key disappears with the first of its users.
releaseLockedAlways(k, l) ==
  /\ lk' = [lk EXCEPT ![l].refs = @ - 1]
  /\ lockOf' = [lockOf EXCEPT ![k] = NoLock]

releaseLocked(k, l) ==
  /\ lk' = [lk EXCEPT ![l].refs = @ - 1]
  /\ lockOf' = IF lk[l].refs = 1 THEN [lockOf EXCEPT ![k] = NoLock] ELSE lockOf

TakeToken(l) ==
  /\ lk[l].token
  /\ lk' = [lk EXCEPT ![l].token = FALSE]

GiveToken(l) == lk' = [lk EXCEPT ![l].token = TRUE]

-----------------------------------------------------------------------------
(* SubmitResult: admission, then the goroutine.                             *)

\* The gate and the marker are the other conditions of admission (HostShutdown).
Submit(j, kind, v) ==
  /\ job[j].st = "none"
  /\ ~closing /\ ~paused
  /\ Cardinality(Active) < JobLimit
  /\ \E l \in LockId :
       /\ acquireLocked(IF kind = "create" THEN j ELSE v, l)
       /\ job' = [job EXCEPT ![j] = [NoJob(v) EXCEPT !.st = "queued", !.kind = kind, !.lock = l]]
  /\ UNCHANGED <<paused, closing>>

\* select: the token wins, even when the context is done as well.
Begin(j) ==
  /\ job[j].st = "queued"
  /\ TakeToken(job[j].lock)
  /\ job' = [job EXCEPT ![j].st = IF job[j].kind = "create" THEN "create" ELSE "run"]
  /\ UNCHANGED <<lockOf, paused, closing>>

\* Mutant: the reference is dropped here, and again with the result.
QueuedCancelledReleases(j) ==
  /\ job[j].st = "queued" /\ job[j].cancelled
  /\ releaseLocked(LockKey(j), job[j].lock)
  /\ job' = [job EXCEPT ![j].st = "final", ![j].err = TRUE]
  /\ UNCHANGED <<paused, closing>>

\* select: the context wins; the callback never runs.
QueuedCancelled(j) ==
  /\ job[j].st = "queued" /\ job[j].cancelled
  /\ job' = [job EXCEPT ![j].st = "final", ![j].err = TRUE]
  /\ UNCHANGED <<lockOf, lk, paused, closing>>

\* A create ends before its boot: it failed, or it was asked not to start.
CreateEnds(j, ok) ==
  /\ job[j].st = "create"
  /\ job' = [job EXCEPT ![j].st = "end", ![j].err = ~ok]
  /\ UNCHANGED <<lockOf, lk, paused, closing>>

\* The VM exists: WithVM registers as a user of its lock.
WithVM(j) ==
  /\ job[j].st = "create"
  /\ \E l \in LockId :
       /\ acquireLocked(job[j].vm, l)
       /\ job' = [job EXCEPT ![j].st = "bootwait", ![j].boot = l]
  /\ UNCHANGED <<paused, closing>>

BootBegins(j) ==
  /\ job[j].st = "bootwait"
  /\ TakeToken(job[j].boot)
  /\ job' = [job EXCEPT ![j].st = "run"]
  /\ UNCHANGED <<lockOf, paused, closing>>

\* WithVM's select: the context wins, and the deferred release runs.
BootCancelled(j) ==
  /\ job[j].st = "bootwait" /\ job[j].cancelled
  /\ releaseLocked(job[j].vm, job[j].boot)
  /\ job' = [job EXCEPT ![j].st = "end", ![j].err = TRUE, ![j].boot = NoLock]
  /\ UNCHANGED <<paused, closing>>

\* The callback calls the daemon; a call on a done context is not made.
Call(j) ==
  /\ job[j].st = "run" /\ ~job[j].cancelled
  /\ job' = [job EXCEPT ![j].st = "call"]
  /\ UNCHANGED <<lockOf, lk, paused, closing>>

\* The part that acts on the VM is over: for a create, WithVM's deferred calls
\* give the token back and drop the reference.
Leaves(j, ok) ==
  /\ job' = [job EXCEPT ![j].st = "end", ![j].err = ~ok, ![j].boot = NoLock]
  /\ IF job[j].kind = "create"
     THEN LET l == job[j].boot
              k == job[j].vm IN
          /\ lk' = [lk EXCEPT ![l] = [token |-> TRUE, refs |-> @.refs - 1]]
          /\ lockOf' = IF lk[l].refs = 1 THEN [lockOf EXCEPT ![k] = NoLock] ELSE lockOf
     ELSE UNCHANGED <<lk, lockOf>>
  /\ UNCHANGED <<paused, closing>>

\* The call returned; with a done context it returns before the work is over.
CallReturns(j, ok) ==
  /\ job[j].st = "call"
  /\ Leaves(j, ok)

\* The callback gives up before its call.
RunFails(j) ==
  /\ job[j].st = "run"
  /\ Leaves(j, FALSE)

\* Mutant: the token goes back when the callback is cancelled, not when it ends.
ReturnsEarly(j) ==
  /\ job[j].st = "end" \/ (job[j].st = "call" /\ job[j].cancelled)
  /\ GiveToken(job[j].lock)
  /\ job' = [job EXCEPT ![j].st = IF @ = "end" THEN "final" ELSE @]
  /\ UNCHANGED <<lockOf, paused, closing>>

\* After the callback: an interrupted operation fails, the token goes back.
Returns(j) ==
  /\ job[j].st = "end"
  /\ GiveToken(job[j].lock)
  /\ job' = [job EXCEPT ![j].st = "final", ![j].err = @ \/ job[j].cancelled]
  /\ UNCHANGED <<lockOf, paused, closing>>

\* Under the mutex: the result, the active count and the reference.
Finish(j) ==
  /\ job[j].st = "final"
  /\ releaseLocked(LockKey(j), job[j].lock)
  /\ job' = [job EXCEPT ![j].st = IF job[j].err THEN "failed" ELSE "succeeded", ![j].lock = NoLock]
  /\ UNCHANGED <<paused, closing>>

-----------------------------------------------------------------------------
(* InterruptIf, Resume and Seal.                                            *)

Cancelled(f) == [j \in Jobs |-> IF j \in Active THEN [f[j] EXCEPT !.cancelled = TRUE] ELSE f[j]]

\* InterruptIf: the predicate is evaluated under the mutex.
InterruptIf(shutdown) ==
  /\ shutdown
  /\ paused' = TRUE
  /\ job' = Cancelled(job)
  /\ UNCHANGED <<lockOf, lk, closing>>

Resume ==
  /\ paused' = FALSE
  /\ UNCHANGED <<job, lockOf, lk, closing>>

Seal ==
  /\ closing' = TRUE
  /\ UNCHANGED <<job, lockOf, lk, paused>>

JobStep(j) ==
  \/ Begin(j) \/ QueuedCancelled(j) \/ WithVM(j) \/ BootBegins(j) \/ BootCancelled(j)
  \/ Call(j) \/ RunFails(j) \/ Returns(j) \/ Finish(j)
  \/ \E ok \in BOOLEAN : CreateEnds(j, ok) \/ CallReturns(j, ok)

JobNext ==
  \/ \E j \in Jobs, kind \in Kinds, v \in VMs : Submit(j, kind, v)
  \/ \E j \in Jobs : JobStep(j)
  \/ InterruptIf(TRUE) \/ Resume \/ Seal

JobSpec == JobInit /\ [][JobNext]_jobVars

-----------------------------------------------------------------------------
(* Properties.                                                              *)

JobRecord == [st : JobState, kind : {"create", "start"}, vm : VMs, cancelled : BOOLEAN,
              err : BOOLEAN, lock : LockId \cup {NoLock}, boot : LockId \cup {NoLock}]

\* Types of the registry's variables.
JobTypeOK ==
  /\ job \in [Jobs -> JobRecord]
  /\ lockOf \in [Key -> LockId \cup {NoLock}]
  /\ lk \in [LockId -> [token : BOOLEAN, refs : Nat]]
  /\ paused \in BOOLEAN /\ closing \in BOOLEAN

\* Two operations never act on one VM at the same time, although the lock that
\* serializes them is made and dropped on demand and a create reaches it by
\* another way (SubmitResult, WithVM, releaseLocked).
OneJobPerVM == \A v \in VMs : \A i, j \in Acting(v) : i = j

\* Goroutines that point to the lock of key k.
Users(k) == {j \in Jobs : job[j].lock # NoLock /\ LockKey(j) = k}
            \cup {j \in Jobs : job[j].boot # NoLock /\ job[j].vm = k}

\* Every pointer to the lock of a key is to the one object the map holds, and
\* the map forgets a key exactly when its last user is gone (acquireLocked,
\* releaseLocked).
LocksAreCounted ==
  \A k \in Key :
    /\ \A j \in Users(k) : lockOf[k] \in {job[j].lock, job[j].boot}
    /\ lockOf[k] = NoLock <=> Users(k) = {}
    /\ lockOf[k] # NoLock => lk[lockOf[k]].refs = Cardinality(Users(k))

Phase(st) ==
  CASE st \in {"queued", "create", "bootwait"} -> "waiting"
    [] st = "run" -> "acting"
    [] st = "call" -> "calling"
    [] st \in {"end", "final"} -> "leaving"
    [] st \in {"succeeded", "failed"} -> "over"
    [] OTHER -> "none"

O == INSTANCE Operations WITH
       op <- [j \in Jobs |-> Phase(job[j].st)],
       on <- [j \in Jobs |-> job[j].vm],
       told <- {j \in Jobs : job[j].cancelled}

\* The registry, with its lock objects made and dropped on demand, its two ways
\* to the lock of a VM and its selects, does what the operations' abstract
\* specification promises: an operation has its VM to itself, an interruption
\* reaches every running one.
ImplementsOperations == O!OpSpec
=============================================================================
