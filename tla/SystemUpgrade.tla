----------------------------- MODULE SystemUpgrade -----------------------------
(***************************************************************************)
(* The system daemon replaces the VM that runs the container engine        *)
(* (app/cli/lib/daemon: upgrade.rs, supervisor.rs, provision.rs).  One     *)
(* process at a time, under the lifetime lock, drives the installation     *)
(* record, the VMs, the data disk and its backup; it may die between any   *)
(* two steps and every step may fail.  VMs outlive the daemon.             *)
(*                                                                         *)
(* VM 0 is the VM of the first setup and VM n the candidate of the n-th    *)
(* replacement; replacement n has operation id n.  The disk is the set of  *)
(* the writes on it: what booting a VM writes, and what its users write.   *)
(***************************************************************************)
EXTENDS Naturals

CONSTANTS None, MaxUpgrades   \* MaxUpgrades: bound on the replacements begun

Op == 1 .. MaxUpgrades
VM == 0 .. MaxUpgrades
Writes == VM \X {"boot", "user"}

\* UpgradeRecord: the upgrade in flight.
Upgrades == [op : Op, prev : VM, cand : Op \cup {None}, backup : BOOLEAN, complete : BOOLEAN]

\* None is none of the values it stands in for.
ASSUME UpgradeAssumption ==
  /\ MaxUpgrades \in Nat /\ None \notin Nat
  /\ \A u \in Upgrades : u # None
  /\ \A s \in SUBSET Writes : s # None

VARIABLES rec,      \* daemon.json: the active VM and the upgrade in flight
          vm,       \* libvm's view of the VMs of the installation
          disk,     \* the data image
          backup,   \* the backup file of each operation
          ops,      \* operations begun
          proven,   \* VMs that have reached Ready under the supervisor
          kept,     \* user writes no later upgrade may lose
          d         \* the daemon: program counter, where it returns to, operation

vars == <<rec, vm, disk, backup, ops, proven, kept, d>>

-----------------------------------------------------------------------------
At(pc) == d.pc = pc

Goto(pc) == d' = [d EXCEPT !.pc = pc]

SetVM(m, status) == vm' = [vm EXCEPT ![m] = status]

Stop(m) == SetVM(m, IF vm[m] = "live" THEN "stopped" ELSE vm[m])

\* Booting a VM attaches the data image and writes to it.
Start(m) == SetVM(m, "live") /\ disk' = disk \cup {<<m, "boot">>}

Pending == rec.up # None /\ ~rec.up.complete
Committed == rec.up # None /\ rec.up.complete

\* Calls of recover and finalize; finalize does nothing without a committed upgrade.
Recover(ret) == d' = [pc |-> "candidate", ret |-> ret, op |-> rec.up.op]
Finalize(ret) == IF Committed THEN d' = [d EXCEPT !.pc = "dropPrevious", !.ret = ret] ELSE Goto(ret)

-----------------------------------------------------------------------------
(* Supervisor::start and attempt.                                           *)

DaemonStart ==
  /\ At("down") /\ Goto("attempt")
  /\ UNCHANGED <<rec, vm, disk, backup, ops, proven, kept>>

\* An interrupted upgrade is recovered before anything else.
Attempt ==
  /\ At("attempt")
  /\ IF Pending THEN Recover("ensure") ELSE Goto("ensure")
  /\ UNCHANGED <<rec, vm, disk, backup, ops, proven, kept>>

\* Mutant: a committed upgrade is retried for ever.
AttemptFailsNoRollback ==
  /\ d.pc \in {"attempt", "ensure", "saveMachine", "boot", "await"}
  /\ Goto("attempt")
  /\ UNCHANGED <<rec, vm, disk, backup, ops, proven, kept>>

\* A failed attempt is retried; a committed upgrade is rolled back first.
AttemptFails ==
  /\ d.pc \in {"attempt", "ensure", "saveMachine", "boot", "await"}
  /\ IF Committed THEN Recover("attempt") ELSE Goto("attempt")
  /\ UNCHANGED <<rec, vm, disk, backup, ops, proven, kept>>

\* ensure_system_machine: the recorded VM must exist; without a recorded one,
\* a VM of this installation is adopted or created.
EnsureMachine ==
  /\ At("ensure")
  /\ IF rec.machine = None
     THEN SetVM(0, IF vm[0] = "absent" THEN "stopped" ELSE vm[0])
     ELSE vm[rec.machine] # "absent" /\ UNCHANGED vm
  /\ Goto("saveMachine")
  /\ UNCHANGED <<rec, disk, backup, ops, proven, kept>>

SaveMachine ==
  /\ At("saveMachine")
  /\ rec' = [rec EXCEPT !.machine = IF @ = None THEN 0 ELSE @]
  /\ Goto("boot")
  /\ UNCHANGED <<vm, disk, backup, ops, proven, kept>>

\* A live VM is adopted.
BootMachine ==
  /\ At("boot")
  /\ IF vm[rec.machine] = "live" THEN UNCHANGED <<vm, disk>> ELSE Start(rec.machine)
  /\ Goto("await")
  /\ UNCHANGED <<rec, backup, ops, proven, kept>>

\* The engine is reachable: Ready, then finalize (after_ready).
Ready ==
  /\ At("await") /\ vm[rec.machine] = "live"
  /\ proven' = proven \cup {rec.machine}
  /\ Finalize("supervise")
  /\ UNCHANGED <<rec, vm, disk, backup, ops, kept>>

-----------------------------------------------------------------------------
(* finalize.                                                                *)

\* Stop and remove the previous VM, if it is still there.
DropPrevious ==
  /\ At("dropPrevious")
  /\ SetVM(rec.up.prev, "absent")
  /\ Goto("dropBackup")
  /\ UNCHANGED <<rec, disk, backup, ops, proven, kept>>

DropBackup ==
  /\ At("dropBackup")
  /\ backup' = [backup EXCEPT ![rec.up.op] = None]
  /\ Goto("saveFinal")
  /\ UNCHANGED <<rec, vm, disk, ops, proven, kept>>

SaveFinal ==
  /\ At("saveFinal")
  /\ rec' = [rec EXCEPT !.up = None]
  /\ Goto(d.ret)
  /\ UNCHANGED <<vm, disk, backup, ops, proven, kept>>

\* Logged by after_ready, reported by update; the VM is supervised either way.
FinalizeFails ==
  /\ d.pc \in {"dropPrevious", "dropBackup", "saveFinal"}
  /\ Goto("supervise")
  /\ UNCHANGED <<rec, vm, disk, backup, ops, proven, kept>>

-----------------------------------------------------------------------------
(* Supervisor::update and replace.                                          *)

\* Mutant: an earlier upgrade is not finished before a new one begins.
UpdateFoundUnfinished ==
  /\ At("supervise") /\ ops < MaxUpgrades
  /\ Goto("qualify")
  /\ UNCHANGED <<rec, vm, disk, backup, ops, proven, kept>>

\* The reference names a new manifest.
UpdateFound ==
  /\ At("supervise") /\ ops < MaxUpgrades
  /\ Finalize("qualify")
  /\ UNCHANGED <<rec, vm, disk, backup, ops, proven, kept>>

QualifyFails ==
  /\ At("qualify") /\ Goto("supervise")
  /\ UNCHANGED <<rec, vm, disk, backup, ops, proven, kept>>

\* The image qualified: stop the engine and its VM; a failure restarts it.
StopActive ==
  /\ At("qualify")
  /\ \/ Stop(rec.machine) /\ Goto("savePending")
     \/ UNCHANGED vm /\ Goto("attempt")
  /\ UNCHANGED <<rec, disk, backup, ops, proven, kept>>

SavePending ==
  /\ At("savePending") /\ rec.up = None /\ vm[rec.machine] # "absent"
  /\ Stop(rec.machine)
  /\ ops' = ops + 1
  /\ rec' = [rec EXCEPT !.up = [op |-> ops + 1, prev |-> rec.machine, cand |-> None,
                                backup |-> FALSE, complete |-> FALSE]]
  /\ Goto("copy")
  /\ UNCHANGED <<disk, backup, proven, kept>>

\* Mutant: a backup file that is already there is reused.
CopyDiskReusing ==
  /\ At("copy")
  /\ LET old == {o \in Op : backup[o] # None}
     IN backup' = [backup EXCEPT ![rec.up.op] =
                     IF old = {} THEN disk ELSE backup[CHOOSE o \in old : TRUE]]
  /\ Goto("saveBackup")
  /\ UNCHANGED <<rec, vm, disk, ops, proven, kept>>

\* sparse_copy: written under another name, synced and renamed.
CopyDisk ==
  /\ At("copy")
  /\ backup' = [backup EXCEPT ![rec.up.op] = disk]
  /\ Goto("saveBackup")
  /\ UNCHANGED <<rec, vm, disk, ops, proven, kept>>

SaveBackup ==
  /\ At("saveBackup")
  /\ rec' = [rec EXCEPT !.up.backup = TRUE]
  /\ Goto("create")
  /\ UNCHANGED <<vm, disk, backup, ops, proven, kept>>

CreateCandidate ==
  /\ At("create") /\ SetVM(rec.up.op, "stopped") /\ Goto("saveCandidate")
  /\ UNCHANGED <<rec, disk, backup, ops, proven, kept>>

SaveCandidate ==
  /\ At("saveCandidate")
  /\ rec' = [rec EXCEPT !.up.cand = rec.up.op]
  /\ Goto("validate")
  /\ UNCHANGED <<vm, disk, backup, ops, proven, kept>>

\* validate_candidate: boot it on the data disk and activate the engine ...
ValidateCandidate ==
  /\ At("validate") /\ Start(rec.up.cand) /\ Goto("stopCandidate")
  /\ UNCHANGED <<rec, backup, ops, proven, kept>>

\* ... then stop that run.
StopCandidate ==
  /\ At("stopCandidate") /\ Stop(rec.up.cand) /\ Goto("commit")
  /\ UNCHANGED <<rec, disk, backup, ops, proven, kept>>

\* Mutant: the active VM is not switched.
CommitKeepsMachine ==
  /\ At("commit")
  /\ rec' = [rec EXCEPT !.up.complete = TRUE]
  /\ Goto("attempt")
  /\ UNCHANGED <<vm, disk, backup, ops, proven, kept>>

\* The save may fail after the record was renamed into place.
Commit ==
  /\ At("commit")
  /\ rec' = [rec EXCEPT !.machine = rec.up.cand, !.up.complete = TRUE]
  /\ Goto("attempt") \/ Recover("attempt")
  /\ UNCHANGED <<vm, disk, backup, ops, proven, kept>>

\* A failure restores the recorded transaction, if there is one.
ReplaceFails ==
  /\ d.pc \in {"savePending", "copy", "saveBackup", "create", "saveCandidate", "validate",
               "stopCandidate", "commit"}
  /\ IF rec.up = None THEN Goto("attempt") ELSE Recover("attempt")
  /\ UNCHANGED <<rec, vm, disk, backup, ops, proven, kept>>

-----------------------------------------------------------------------------
(* recover.                                                                 *)

\* The recorded candidate must exist; an unrecorded one is found by its name.
Found == vm[d.op] # "absent"

\* Mutant: the candidate is removed at once.
RecoverCandidateRemoved ==
  /\ At("candidate") /\ (rec.up.cand # None => Found)
  /\ SetVM(d.op, "absent")
  /\ Goto("previous")
  /\ UNCHANGED <<rec, disk, backup, ops, proven, kept>>

\* Mutant: the candidate is left as it is.
RecoverCandidateRunning ==
  /\ At("candidate") /\ (rec.up.cand # None => Found)
  /\ Goto("previous")
  /\ UNCHANGED <<rec, vm, disk, backup, ops, proven, kept>>

RecoverCandidate ==
  /\ At("candidate") /\ (rec.up.cand # None => Found)
  /\ Stop(d.op)
  /\ Goto("previous")
  /\ UNCHANGED <<rec, disk, backup, ops, proven, kept>>

RecoverPrevious ==
  /\ At("previous") /\ vm[rec.up.prev] # "absent"
  /\ Stop(rec.up.prev)
  /\ Goto("restore")
  /\ UNCHANGED <<rec, disk, backup, ops, proven, kept>>

\* Mutant: the backup is restored only when the upgrade was committed.
RestoreCommitted ==
  /\ At("restore")
  /\ disk' = IF rec.up.complete /\ backup[d.op] # None THEN backup[d.op] ELSE disk
  /\ Goto("saveRestored")
  /\ UNCHANGED <<rec, vm, backup, ops, proven, kept>>

\* Without a recorded backup there must be no candidate.
Restore ==
  /\ At("restore")
  /\ IF rec.up.backup THEN backup[d.op] # None /\ disk' = backup[d.op]
                      ELSE ~Found /\ UNCHANGED disk
  /\ Goto("saveRestored")
  /\ UNCHANGED <<rec, vm, backup, ops, proven, kept>>

SaveRestored ==
  /\ At("saveRestored")
  /\ rec' = [machine |-> rec.up.prev, up |-> None]
  /\ Goto("dropCandidate")
  /\ UNCHANGED <<vm, disk, backup, ops, proven, kept>>

\* A candidate that cannot be removed is only logged.
DropCandidate ==
  /\ At("dropCandidate")
  /\ SetVM(d.op, "absent") \/ UNCHANGED vm
  /\ Goto("dropRestored")
  /\ UNCHANGED <<rec, disk, backup, ops, proven, kept>>

DropRestored ==
  /\ At("dropRestored")
  /\ backup' = [backup EXCEPT ![d.op] = None]
  /\ Goto(d.ret)
  /\ UNCHANGED <<rec, vm, disk, ops, proven, kept>>

\* A failed recovery fails the attempt that began it, and is fatal elsewhere.
RecoverFails ==
  /\ d.pc \in {"candidate", "previous", "restore", "saveRestored", "dropCandidate",
               "dropRestored"}
  /\ Goto(IF d.ret = "ensure" THEN "attempt" ELSE "down")
  /\ UNCHANGED <<rec, vm, disk, backup, ops, proven, kept>>

-----------------------------------------------------------------------------
(* The daemon's end, the VMs and their users.                               *)

\* The daemon crashes, or is asked to detach: the VMs go on.
DaemonStops ==
  /\ ~At("down") /\ Goto("down")
  /\ UNCHANGED <<rec, vm, disk, backup, ops, proven, kept>>

\* daemon down, after the daemon has gone.
StopInstallation ==
  /\ At("down")
  /\ vm' = [m \in VM |-> IF vm[m] = "live" THEN "stopped" ELSE vm[m]]
  /\ UNCHANGED <<rec, disk, backup, ops, proven, kept, d>>

VmExits(m) ==
  /\ vm[m] = "live" /\ SetVM(m, "stopped")
  /\ UNCHANGED <<rec, disk, backup, ops, proven, kept, d>>

\* A user of the engine writes.  Only what an upgrade not yet final wrote may
\* be lost.
UserWrite(m) ==
  /\ vm[m] = "live"
  /\ disk' = disk \cup {<<m, "user">>}
  /\ kept' = IF rec.up # None /\ rec.up.op = m THEN kept ELSE kept \cup {<<m, "user">>}
  /\ UNCHANGED <<rec, vm, backup, ops, proven, d>>

Init == /\ rec = [machine |-> None, up |-> None]
        /\ vm = [m \in VM |-> "absent"]
        /\ disk = {} /\ kept = {}
        /\ backup = [o \in Op |-> None]
        /\ ops = 0 /\ proven = {}
        /\ d = [pc |-> "down", ret |-> "attempt", op |-> 0]

Starting == Attempt \/ EnsureMachine \/ SaveMachine \/ BootMachine \/ Ready
Finalizing == DropPrevious \/ DropBackup \/ SaveFinal
Replacing == SavePending \/ CopyDisk \/ SaveBackup \/ CreateCandidate \/ SaveCandidate
             \/ ValidateCandidate \/ StopCandidate \/ Commit
Recovering == RecoverCandidate \/ RecoverPrevious \/ Restore \/ SaveRestored \/ DropCandidate
              \/ DropRestored

Next == \/ DaemonStart \/ Starting \/ Finalizing \/ Replacing \/ Recovering
        \/ UpdateFound \/ QualifyFails \/ StopActive
        \/ AttemptFails \/ FinalizeFails \/ ReplaceFails \/ RecoverFails
        \/ DaemonStops \/ StopInstallation
        \/ \E m \in VM : VmExits(m) \/ UserWrite(m)

Spec == Init /\ [][Next]_vars

(***************************************************************************)
(* The service manager restarts the daemon and the daemon's waits have     *)
(* deadlines, so an attempt that is made again and again ends, Ready or    *)
(* not; and a step of a recovery that is retried succeeds in the end.      *)
(* Nothing says that a VM ever becomes Ready.                              *)
(***************************************************************************)
Fairness ==
  /\ WF_vars(DaemonStart)
  /\ WF_vars(AttemptFails) /\ WF_vars(RecoverFails) /\ WF_vars(Replacing \/ ReplaceFails)
  /\ SF_vars(Attempt) /\ SF_vars(EnsureMachine) /\ SF_vars(SaveMachine)
  /\ SF_vars(BootMachine) /\ SF_vars(At("await") /\ (Ready \/ AttemptFails))
  /\ SF_vars(RecoverCandidate) /\ SF_vars(RecoverPrevious) /\ SF_vars(Restore)
  /\ SF_vars(SaveRestored)

FairSpec == Spec /\ Fairness

-----------------------------------------------------------------------------
(* Properties.                                                              *)

PCs == {"down", "attempt", "ensure", "saveMachine", "boot", "await", "dropPrevious",
        "dropBackup", "saveFinal", "supervise", "qualify", "savePending", "copy", "saveBackup",
        "create", "saveCandidate", "validate", "stopCandidate", "commit", "candidate",
        "previous", "restore", "saveRestored", "dropCandidate", "dropRestored"}

\* Every variable has its type, and the record is one its own validation
\* (UpgradeRecord::validate) accepts.
TypeOK ==
  /\ rec \in [machine : VM \cup {None}, up : Upgrades \cup {None}]
  /\ rec.up # None =>
       /\ rec.up.cand # None => rec.up.backup
       /\ rec.up.complete => rec.up.cand # None /\ rec.up.cand = rec.machine
       /\ rec.up.cand # rec.up.prev
  /\ vm \in [VM -> {"absent", "stopped", "live"}]
  /\ disk \subseteq Writes /\ kept \subseteq Writes
  /\ DOMAIN backup = Op /\ \A o \in Op : backup[o] = None \/ backup[o] \subseteq Writes
  /\ ops \in 0 .. MaxUpgrades /\ proven \subseteq VM
  /\ d \in [pc : PCs, ret : {"attempt", "ensure", "supervise", "qualify"}, op : VM]

\* The data image is never attached to two running VMs.
SingleWriter == \A m, n \in VM : vm[m] = "live" /\ vm[n] = "live" => m = n

\* A crash at any point leaves a record recover or finalize can act on: the
\* active VM exists, and until a commit so do the previous VM, the recorded
\* candidate and the recorded backup.
RecordIsActionable ==
  /\ rec.machine # None => vm[rec.machine] # "absent"
  /\ Pending => /\ vm[rec.up.prev] # "absent"
                /\ rec.up.cand # None => vm[rec.up.cand] # "absent"
                /\ IF rec.up.backup THEN backup[rec.up.op] # None
                                    ELSE vm[rec.up.op] = "absent"

\* A VM never runs on data a later image has written: a rollback puts the old
\* image back together with its data.
NoNewerData == \A m \in VM : vm[m] = "live" => \A w \in disk : w[1] <= m

\* What users wrote before an upgrade, or after it became final, survives every
\* later upgrade, rollback and crash.
KeptWritesSurvive == kept \subseteq disk

\* The data image is replaced only while no VM runs on it.
RestoresAlone ==
  [][At("restore") /\ d'.pc = "saveRestored" => \A m \in VM : vm[m] # "live"]_vars

\* A failed update only ever rolls back an upgrade whose VM never was Ready in
\* the hands of this daemon: update finishes the earlier one first.
UpdateUndoesItsOwn ==
  [][d.pc \in {"savePending", "copy", "saveBackup", "create", "saveCandidate", "validate",
               "stopCandidate", "commit"} /\ d'.pc = "candidate"
       => rec.up.op \notin proven]_vars

\* An upgrade whose VM never becomes Ready is undone in the end, whatever
\* fails or crashes on the way (roll_back_unproven_upgrade).
UnprovenIsUndone ==
  rec.up # None ~> rec.up = None \/ (rec.up # None /\ rec.up.op \in proven)

\* User data survives the replacement of the system VM: one VM at a time writes the
\* data image, no VM reads data of a newer one, and kept writes are never lost.
DataIsSafe == SingleWriter /\ NoNewerData /\ KeptWritesSurvive

=============================================================================
