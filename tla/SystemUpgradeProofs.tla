-------------------------- MODULE SystemUpgradeProofs --------------------------
(***************************************************************************)
(* Proofs about the replacement of the system VM.                          *)
(***************************************************************************)
EXTENDS SystemUpgrade, TLAPS

UpdatePCs == {"copy", "saveBackup", "create", "saveCandidate", "validate", "stopCandidate",
              "commit"}
FinalPCs == {"dropPrevious", "dropBackup", "saveFinal"}
RecoverPCs == {"candidate", "previous", "restore", "saveRestored"}
DropPCs == {"dropCandidate", "dropRestored"}

\* The type of everything that outlives the daemon, and of the daemon.
StateType ==
  /\ rec \in [machine : VM \cup {None}, up : Upgrades \cup {None}]
  /\ rec.up # None =>
       /\ rec.up.cand # None => rec.up.backup
       /\ rec.up.complete => rec.up.cand # None /\ rec.up.cand = rec.machine
       /\ rec.up.cand # rec.up.prev
  /\ vm \in [VM -> {"absent", "stopped", "live"}]
  /\ disk \subseteq Writes /\ kept \subseteq Writes
  /\ DOMAIN backup = Op /\ \A o \in Op : backup[o] = None \/ backup[o] \subseteq Writes
  /\ ops \in 0 .. MaxUpgrades /\ proven \subseteq VM
  /\ backup = [o \in Op |-> backup[o]]

DaemonType == d \in [pc : PCs, ret : {"attempt", "ensure", "supervise", "qualify"}, op : VM]

\* VMs, backups and operations are numbered in the order they are begun.
Numbers ==
  /\ rec.machine # None => rec.machine <= ops
  /\ rec.up # None => /\ rec.up.op <= ops /\ rec.up.prev < rec.up.op
                      /\ rec.up.cand \in {None, rec.up.op}
                      /\ rec.up.complete => rec.machine = rec.up.op
                      /\ ~rec.up.complete => rec.machine = rec.up.prev
  /\ \A m \in VM : m > ops => vm[m] = "absent" /\ m \notin proven
  /\ \A o \in Op : o > ops => backup[o] = None

\* The one VM the record says may run.
LiveOnes == \A m \in VM : vm[m] = "live" =>
  /\ Pending => m = rec.up.cand
  /\ ~Pending => m = rec.machine

Below(s, m) == \A w \in s : w[1] <= m

\* What is on the data image and in the backup of the upgrade in flight.
Data ==
  /\ rec.up = None /\ rec.machine = None => disk = {}
  /\ rec.up = None /\ rec.machine # None => Below(disk, rec.machine)
  /\ rec.up # None => /\ rec.up.cand = None => Below(disk, rec.up.prev)
                      /\ rec.up.cand # None => Below(disk, rec.up.op)
  /\ kept \subseteq disk
  /\ rec.up # None /\ backup[rec.up.op] # None =>
       Below(backup[rec.up.op], rec.up.prev) /\ kept \subseteq backup[rec.up.op]

\* A pending upgrade's VM never was Ready.
Unproven == Pending => rec.up.op \notin proven

StateInv == StateType /\ Numbers /\ LiveOnes /\ Data /\ RecordIsActionable /\ Unproven

\* What the daemon has established when it is at a program counter.
Places ==
  /\ d.pc \in {"ensure", "saveMachine", "boot", "await", "supervise"} => ~Pending
  /\ d.pc \in {"boot", "await", "supervise"} => rec.machine # None
  /\ d.pc = "saveMachine" /\ rec.machine = None => vm[0] # "absent"
  /\ d.pc \in FinalPCs => Committed /\ d.ret \in {"supervise", "qualify"}
  /\ d.pc \in {"qualify", "savePending"} => rec.up = None /\ rec.machine # None
  /\ d.pc \in {"qualify", "savePending"} => ops < MaxUpgrades
  /\ d.pc \in FinalPCs /\ d.ret = "qualify" => ops < MaxUpgrades
  /\ d.pc = "savePending" => vm[rec.machine] # "live"
  /\ d.pc \in UpdatePCs => Pending
  /\ d.pc \in {"copy", "saveBackup"} => ~rec.up.backup
  /\ d.pc = "saveBackup" => backup[rec.up.op] # None
  /\ d.pc \in {"create", "saveCandidate"} => rec.up.backup /\ rec.up.cand = None
  /\ d.pc = "saveCandidate" => vm[rec.up.op] # "absent"
  /\ d.pc \in {"validate", "stopCandidate", "commit"} => rec.up.cand # None
  /\ d.pc = "commit" => vm[rec.up.cand] # "live"
  /\ d.pc \in RecoverPCs => rec.up # None /\ d.op = rec.up.op
  /\ d.pc \in RecoverPCs \cup DropPCs => d.ret \in {"attempt", "ensure"}
  /\ d.pc \in {"previous", "restore", "saveRestored"} => vm[d.op] # "live"
  /\ d.pc \in {"restore", "saveRestored"} => vm[rec.up.prev] = "stopped"
  /\ d.pc = "saveRestored" => Below(disk, rec.up.prev)
  /\ d.pc \in DropPCs => rec.up = None /\ d.op # rec.machine /\ d.op \in Op

UpInv == StateInv /\ DaemonType /\ Places

-----------------------------------------------------------------------------
\* The first state.
LEMMA InitInv == Init => UpInv
<1> SUFFICES ASSUME Init PROVE UpInv
  BY Zenon
<1>1. StateType
  BY UpgradeAssumption DEF Init, StateType, VM, Op
<1>2. Numbers /\ LiveOnes /\ Data /\ RecordIsActionable /\ Unproven
  BY UpgradeAssumption, Zenon DEF Init, Numbers, LiveOnes, Data, RecordIsActionable, Unproven, Pending, VM, Op
<1>3. DaemonType
  BY UpgradeAssumption DEF Init, DaemonType, PCs, VM
<1>4. Places
  BY Zenon DEF Init, Places, UpdatePCs, FinalPCs, RecoverPCs, DropPCs
<1> QED BY <1>1, <1>2, <1>3, <1>4, Zenon DEF UpInv, StateInv

\* A step of the daemon alone keeps the invariant of the state.
LEMMA StateKept ==
  ASSUME StateInv, UNCHANGED <<rec, vm, disk, backup, ops, proven, kept>>
  PROVE  StateInv'
BY DEF StateInv, StateType, Numbers, LiveOnes, Data, RecordIsActionable, Unproven, Pending,
       Below

\* Stopping VMs that run keeps the invariant of the state.
Quiets == /\ vm' \in [VM -> {"absent", "stopped", "live"}]
          /\ \A m \in VM : vm'[m] = vm[m] \/ (vm[m] = "live" /\ vm'[m] = "stopped")

\* Stopping VMs keeps the invariant of the state,
LEMMA QuietState ==
  ASSUME StateInv, Quiets, UNCHANGED <<rec, disk, backup, ops, proven, kept>>
  PROVE  StateInv'
<1>1. StateType'
  BY DEF StateInv, StateType, Quiets
<1>2. Numbers'
  BY Zenon DEF StateInv, Numbers, Quiets
<1>3. LiveOnes'
  BY Zenon DEF StateInv, LiveOnes, Quiets, Pending
<1>4. Data' /\ Unproven'
  BY Zenon DEF StateInv, Data, Unproven, Pending, Below
<1>5. RecordIsActionable'
  <2>1. \A m \in VM : vm[m] # "absent" => vm'[m] # "absent"
    BY Zenon DEF Quiets
  <2>2. \A m \in VM : vm[m] = "absent" => vm'[m] = "absent"
    BY Zenon DEF Quiets
  <2>3. rec.machine # None => rec.machine \in VM
    BY Zenon DEF StateInv, StateType
  <2>4. rec.up # None => rec.up.op \in VM /\ rec.up.prev \in VM /\ rec.up.cand \in VM \cup {None}
    BY DEF StateInv, StateType, Upgrades, Op, VM
  <2> QED BY <2>1, <2>2, <2>3, <2>4, Zenon DEF StateInv, RecordIsActionable, Pending
<1> QED BY <1>1, <1>2, <1>3, <1>4, <1>5, Zenon DEF StateInv

\* and that is all that Stop does.
LEMMA StopQuiets ==
  ASSUME StateType, NEW m \in VM, Stop(m)
  PROVE  Quiets /\ vm'[m] # "live"
BY Zenon DEF StateType, Stop, SetVM, Quiets

\* What the types say of the record.
LEMMA RecordTypes ==
  ASSUME StateType
  PROVE  /\ rec.machine \in VM \cup {None}
         /\ rec.up # None => /\ rec.up \in Upgrades
                             /\ rec.up.op \in Op /\ rec.up.op \in VM /\ rec.up.prev \in VM
                             /\ rec.up.cand \in Op \cup {None}
                             /\ rec.up.cand # None => rec.up.cand \in VM
BY UpgradeAssumption DEF StateType, Upgrades, Op, VM

-----------------------------------------------------------------------------
\* The steps of the daemon that change nothing else.

\* The daemon moves and changes nothing else of itself.
LEMMA GoesTo ==
  ASSUME DaemonType, NEW p \in PCs, Goto(p)
  PROVE  DaemonType' /\ d'.pc = p /\ d'.ret = d.ret /\ d'.op = d.op
BY Zenon DEF DaemonType, Goto

\* The daemon turns to the recovery of the update it finds.
LEMMA Recovers ==
  ASSUME StateType, rec.up # None, NEW r \in {"attempt", "ensure"}, Recover(r)
  PROVE  DaemonType' /\ d'.pc = "candidate" /\ d'.ret = r /\ d'.op = rec.up.op
BY RecordTypes, Zenon DEF Recover, DaemonType, PCs

\* The daemon turns to the end of a committed update.
LEMMA Finalizes ==
  ASSUME DaemonType, NEW r \in {"supervise", "qualify"}, Finalize(r)
  PROVE  /\ DaemonType' /\ d'.op = d.op
         /\ \/ Committed /\ d'.pc = "dropPrevious" /\ d'.ret = r
            \/ ~Committed /\ d'.pc = r /\ d'.ret = d.ret
<1>1. CASE Committed
  BY <1>1, Zenon DEF Finalize, DaemonType, PCs
<1>2. CASE ~Committed
  BY <1>2, GoesTo, Zenon DEF Finalize, PCs
<1> QED BY <1>1, <1>2, Zenon

\* A daemon at a place that needs nothing.
LEMMA AtRest ==
  ASSUME d'.pc \in {"down", "attempt"}
  PROVE  Places'
BY Zenon DEF Places, UpdatePCs, FinalPCs, RecoverPCs, DropPCs

\* A recovery begins.
LEMMA AtCandidate ==
  ASSUME d'.pc = "candidate", d'.ret \in {"attempt", "ensure"}, rec'.up # None,
         d'.op = rec'.up.op
  PROVE  Places'
BY Zenon DEF Places, UpdatePCs, FinalPCs, RecoverPCs, DropPCs

\* The daemon starts and loads the record.
LEMMA DaemonStartStep == ASSUME UpInv, DaemonStart PROVE UpInv'
<1>1. StateInv' BY StateKept, Zenon DEF UpInv, DaemonStart
<1>2. DaemonType' /\ d'.pc = "attempt" BY GoesTo, Zenon DEF UpInv, DaemonStart, PCs
<1> QED BY <1>1, <1>2, AtRest, Zenon DEF UpInv

\* An attempt looks at the record and chooses.
LEMMA AttemptStep == ASSUME UpInv, Attempt PROVE UpInv'
<1>1. StateInv' /\ UNCHANGED rec BY StateKept, Zenon DEF UpInv, Attempt
<1>2. CASE Pending
  <2>1. DaemonType' /\ d'.pc = "candidate" /\ d'.ret = "ensure" /\ d'.op = rec.up.op
    BY <1>2, Recovers, Zenon DEF UpInv, StateInv, Attempt, Pending
  <2> QED BY <1>1, <1>2, <2>1, AtCandidate, Zenon DEF UpInv, Pending
<1>3. CASE ~Pending
  <2>1. DaemonType' /\ d'.pc = "ensure"
    BY <1>3, GoesTo, Zenon DEF UpInv, Attempt, PCs
  <2>2. Places'
    BY <1>1, <1>3, <2>1, Zenon DEF Places, UpdatePCs, FinalPCs, RecoverPCs, DropPCs, Pending
  <2> QED BY <1>1, <2>1, <2>2, Zenon DEF UpInv
<1> QED BY <1>2, <1>3, Zenon

\* An attempt fails before it changed anything.
LEMMA AttemptFailsStep == ASSUME UpInv, AttemptFails PROVE UpInv'
<1>1. StateInv' /\ UNCHANGED rec BY StateKept, Zenon DEF UpInv, AttemptFails
<1>2. CASE Committed
  <2>1. DaemonType' /\ d'.pc = "candidate" /\ d'.ret = "attempt" /\ d'.op = rec.up.op
    BY <1>2, Recovers, Zenon DEF UpInv, StateInv, AttemptFails, Committed
  <2> QED BY <1>1, <1>2, <2>1, AtCandidate, Zenon DEF UpInv, Committed
<1>3. CASE ~Committed
  <2>1. DaemonType' /\ d'.pc = "attempt"
    BY <1>3, GoesTo, Zenon DEF UpInv, AttemptFails, PCs
  <2> QED BY <1>1, <2>1, AtRest, Zenon DEF UpInv
<1> QED BY <1>2, <1>3, Zenon

\* The end of a committed update fails.
LEMMA FinalizeFailsStep == ASSUME UpInv, FinalizeFails PROVE UpInv'
<1>1. StateInv' /\ UNCHANGED rec BY StateKept, Zenon DEF UpInv, FinalizeFails
<1>2. DaemonType' /\ d'.pc = "supervise" BY GoesTo, Zenon DEF UpInv, FinalizeFails, PCs
<1>3. Committed
  BY Zenon DEF UpInv, Places, FinalizeFails, FinalPCs
<1>4. rec.machine # None
  BY <1>3, Zenon DEF UpInv, StateInv, StateType, Committed
<1>5. Places'
  BY <1>1, <1>2, <1>3, <1>4, Zenon
  DEF Places, Pending, Committed, UpdatePCs, FinalPCs, RecoverPCs, DropPCs
<1> QED BY <1>1, <1>2, <1>5, Zenon DEF UpInv

\* A newer system image is found.
LEMMA UpdateFoundStep == ASSUME UpInv, UpdateFound PROVE UpInv'
<1>1. StateInv' /\ UNCHANGED <<rec, ops>> /\ ops < MaxUpgrades
  BY StateKept, Zenon DEF UpInv, UpdateFound
<1>2. ~Pending /\ rec.machine # None
  BY Zenon DEF UpInv, Places, UpdateFound, At
<1>3. /\ DaemonType'
      /\ \/ Committed /\ d'.pc = "dropPrevious" /\ d'.ret = "qualify"
         \/ ~Committed /\ d'.pc = "qualify"
  BY Finalizes, Zenon DEF UpInv, UpdateFound
<1>4. Places'
  BY <1>1, <1>2, <1>3, Zenon
  DEF Places, Pending, Committed, UpdatePCs, FinalPCs, RecoverPCs, DropPCs
<1> QED BY <1>1, <1>3, <1>4, Zenon DEF UpInv

\* The image does not qualify.
LEMMA QualifyFailsStep == ASSUME UpInv, QualifyFails PROVE UpInv'
<1>1. StateInv' /\ UNCHANGED rec BY StateKept, Zenon DEF UpInv, QualifyFails
<1>2. DaemonType' /\ d'.pc = "supervise" BY GoesTo, Zenon DEF UpInv, QualifyFails, PCs
<1>3. rec.up = None /\ rec.machine # None
  BY Zenon DEF UpInv, Places, QualifyFails, At
<1>4. Places'
  BY <1>1, <1>2, <1>3, Zenon DEF Places, Pending, UpdatePCs, FinalPCs, RecoverPCs, DropPCs
<1> QED BY <1>1, <1>2, <1>4, Zenon DEF UpInv

\* A step of the replacement fails: recovery follows.
LEMMA ReplaceFailsStep == ASSUME UpInv, ReplaceFails PROVE UpInv'
<1>1. StateInv' /\ UNCHANGED rec BY StateKept, Zenon DEF UpInv, ReplaceFails
<1>2. CASE rec.up # None
  <2>1. DaemonType' /\ d'.pc = "candidate" /\ d'.ret = "attempt" /\ d'.op = rec.up.op
    BY <1>2, Recovers, Zenon DEF UpInv, StateInv, ReplaceFails
  <2> QED BY <1>1, <1>2, <2>1, AtCandidate, Zenon DEF UpInv
<1>3. CASE rec.up = None
  <2>1. DaemonType' /\ d'.pc = "attempt"
    BY <1>3, GoesTo, Zenon DEF UpInv, ReplaceFails, PCs
  <2> QED BY <1>1, <2>1, AtRest, Zenon DEF UpInv
<1> QED BY <1>2, <1>3, Zenon

\* A step of the recovery fails: it is tried again later.
LEMMA RecoverFailsStep == ASSUME UpInv, RecoverFails PROVE UpInv'
<1>1. StateInv' BY StateKept, Zenon DEF UpInv, RecoverFails
<1> DEFINE p == IF d.ret = "ensure" THEN "attempt" ELSE "down"
<1>2. p \in {"down", "attempt"} /\ Goto(p)
  BY Zenon DEF RecoverFails
<1> HIDE DEF p
<1>3. DaemonType' /\ d'.pc \in {"down", "attempt"}
  BY <1>2, GoesTo, Zenon DEF UpInv, PCs
<1> QED BY <1>1, <1>3, AtRest, Zenon DEF UpInv

\* The daemon stops or dies at any point.
LEMMA DaemonStopsStep == ASSUME UpInv, DaemonStops PROVE UpInv'
<1>1. StateInv' BY StateKept, Zenon DEF UpInv, DaemonStops
<1>2. DaemonType' /\ d'.pc = "down" BY GoesTo, Zenon DEF UpInv, DaemonStops, PCs
<1> QED BY <1>1, <1>2, AtRest, Zenon DEF UpInv

-----------------------------------------------------------------------------
\* The steps that stop VMs.

\* The installation is stopped under it.
LEMMA StopInstallationStep == ASSUME UpInv, StopInstallation PROVE UpInv'
<1>1. Quiets BY Zenon DEF StopInstallation, Quiets, UpInv, StateInv, StateType
<1>2. StateInv' BY <1>1, QuietState, Zenon DEF UpInv, StopInstallation
<1>3. DaemonType' /\ d'.pc = "down" BY Zenon DEF UpInv, StopInstallation, At, DaemonType
<1> QED BY <1>2, <1>3, AtRest, Zenon DEF UpInv

\* A VM goes down by itself.
LEMMA VmExitsStep == ASSUME UpInv, NEW m \in VM, VmExits(m) PROVE UpInv'
<1>1. Quiets BY Zenon DEF VmExits, SetVM, Quiets, UpInv, StateInv, StateType
<1>2. StateInv' BY <1>1, QuietState, Zenon DEF UpInv, VmExits
<1>3. DaemonType' BY Zenon DEF UpInv, VmExits, DaemonType
<1>4. \A i \in VM : /\ vm[i] # "live" => vm'[i] = vm[i]
                    /\ vm[i] # "absent" => vm'[i] # "absent"
  BY <1>1, Zenon DEF Quiets
<1>5. /\ rec.machine \in VM \cup {None} /\ 0 \in VM /\ d.op \in VM
      /\ rec.up # None => rec.up.op \in VM /\ rec.up.prev \in VM
                          /\ (rec.up.cand # None => rec.up.cand \in VM)
  BY RecordTypes, UpgradeAssumption DEF UpInv, StateInv, DaemonType, VM
<1>6. Places /\ UNCHANGED <<rec, disk, backup, ops, d>>
  BY Zenon DEF UpInv, VmExits
<1>7. Places'
  BY <1>4, <1>5, <1>6
  DEF Places, UpdatePCs, FinalPCs, RecoverPCs, DropPCs, Pending, Committed, Below
<1> QED BY <1>2, <1>3, <1>7, Zenon DEF UpInv

\* The active VM is stopped for the update.
LEMMA StopActiveStep == ASSUME UpInv, StopActive PROVE UpInv'
<1>1. rec.up = None /\ rec.machine # None /\ rec.machine \in VM /\ ops < MaxUpgrades
  BY RecordTypes, Zenon DEF UpInv, StateInv, Places, StopActive, At
<1>2. CASE Stop(rec.machine) /\ Goto("savePending")
  <2>1. Quiets /\ vm'[rec.machine] # "live"
    BY <1>1, <1>2, StopQuiets, Zenon DEF UpInv, StateInv
  <2>2. StateInv' BY <2>1, QuietState, Zenon DEF UpInv, StopActive
  <2>3. DaemonType' /\ d'.pc = "savePending" BY <1>2, GoesTo, Zenon DEF UpInv, PCs
  <2>4. Places'
    BY <1>1, <2>1, <2>3, Zenon
    DEF StopActive, Places, UpdatePCs, FinalPCs, RecoverPCs, DropPCs
  <2> QED BY <2>2, <2>3, <2>4, Zenon DEF UpInv
<1>3. CASE UNCHANGED vm /\ Goto("attempt")
  <2>1. StateInv' BY <1>3, StateKept, Zenon DEF UpInv, StopActive
  <2>2. DaemonType' /\ d'.pc = "attempt" BY <1>3, GoesTo, Zenon DEF UpInv, PCs
  <2> QED BY <2>1, <2>2, AtRest, Zenon DEF UpInv
<1> QED BY <1>2, <1>3, Zenon DEF StopActive

\* The candidate is stopped after validation.
LEMMA StopCandidateStep == ASSUME UpInv, StopCandidate PROVE UpInv'
<1>1. Pending /\ rec.up # None /\ rec.up.cand # None /\ rec.up.cand \in VM
  BY RecordTypes, Zenon DEF UpInv, StateInv, Places, StopCandidate, At, UpdatePCs, Pending
<1>2. Quiets /\ vm'[rec.up.cand] # "live"
  BY <1>1, StopQuiets, Zenon DEF UpInv, StateInv, StopCandidate
<1>3. StateInv' BY <1>2, QuietState, Zenon DEF UpInv, StopCandidate
<1>4. DaemonType' /\ d'.pc = "commit" BY GoesTo, Zenon DEF UpInv, PCs, StopCandidate
<1>5. Places'
  BY <1>1, <1>2, <1>4, Zenon
  DEF StopCandidate, Places, UpdatePCs, FinalPCs, RecoverPCs, DropPCs, Pending
<1> QED BY <1>3, <1>4, <1>5, Zenon DEF UpInv

\* Recovery stops the candidate,
LEMMA RecoverCandidateStep == ASSUME UpInv, RecoverCandidate PROVE UpInv'
<1>1. /\ rec.up # None /\ d.op = rec.up.op /\ d.op \in VM
      /\ d.ret \in {"attempt", "ensure"}
  BY Zenon DEF UpInv, DaemonType, Places, RecoverCandidate, At, RecoverPCs
<1>2. Quiets /\ vm'[d.op] # "live"
  BY <1>1, StopQuiets, Zenon DEF UpInv, StateInv, RecoverCandidate
<1>3. StateInv' BY <1>2, QuietState, Zenon DEF UpInv, RecoverCandidate
<1>4. DaemonType' /\ d'.pc = "previous" /\ d'.op = d.op /\ d'.ret = d.ret
  BY GoesTo, Zenon DEF UpInv, PCs, RecoverCandidate
<1>5. Places'
  BY <1>1, <1>2, <1>4, Zenon
  DEF RecoverCandidate, Places, UpdatePCs, FinalPCs, RecoverPCs, DropPCs
<1> QED BY <1>3, <1>4, <1>5, Zenon DEF UpInv

\* and then makes sure of the previous VM.
LEMMA RecoverPreviousStep == ASSUME UpInv, RecoverPrevious PROVE UpInv'
<1>1. /\ rec.up # None /\ d.op = rec.up.op /\ d.op \in VM /\ rec.up.prev \in VM
      /\ d.ret \in {"attempt", "ensure"} /\ vm[d.op] # "live"
  BY RecordTypes, Zenon DEF UpInv, StateInv, DaemonType, Places, RecoverPrevious, At, RecoverPCs
<1>2. Quiets /\ vm'[rec.up.prev] # "live"
  BY <1>1, StopQuiets, Zenon DEF UpInv, StateInv, RecoverPrevious
<1>3. StateInv' BY <1>2, QuietState, Zenon DEF UpInv, RecoverPrevious
<1>4. DaemonType' /\ d'.pc = "restore" /\ d'.op = d.op /\ d'.ret = d.ret
  BY GoesTo, Zenon DEF UpInv, PCs, RecoverPrevious
<1>5. vm'[d.op] # "live" /\ vm'[rec.up.prev] = "stopped"
  BY <1>1, <1>2, Zenon DEF Quiets, RecoverPrevious
<1>6. Places'
  BY <1>1, <1>4, <1>5, Zenon
  DEF RecoverPrevious, Places, UpdatePCs, FinalPCs, RecoverPCs, DropPCs
<1> QED BY <1>3, <1>4, <1>6, Zenon DEF UpInv

-----------------------------------------------------------------------------
\* The steps that start, create or remove VMs, or save the record.

\* The first VM is created before it is recorded.
LEMMA EnsureMachineStep == ASSUME UpInv, EnsureMachine PROVE UpInv'
<1>1. ~Pending BY Zenon DEF UpInv, Places, EnsureMachine, At
<1>2. DaemonType' /\ d'.pc = "saveMachine" BY GoesTo, Zenon DEF UpInv, PCs, EnsureMachine
<1>3. UNCHANGED <<rec, disk, backup, ops, proven, kept>> BY Zenon DEF EnsureMachine
<1>4. CASE rec.machine # None
  <2>1. UNCHANGED vm BY <1>4, Zenon DEF EnsureMachine
  <2>2. StateInv' BY <1>3, <2>1, StateKept, Zenon DEF UpInv
  <2>3. Places'
    BY <1>1, <1>2, <1>3, <1>4, <2>1, Zenon
    DEF Places, UpdatePCs, FinalPCs, RecoverPCs, DropPCs, Pending
  <2> QED BY <1>2, <2>2, <2>3, Zenon DEF UpInv
<1>5. CASE rec.machine = None
  <2>1. rec.up = None
    <3>1. rec.up # None => rec.machine = rec.up.op \/ rec.machine = rec.up.prev
      BY RecordTypes, Zenon DEF UpInv, StateInv, Numbers, Upgrades, StateType
    <3> QED BY <1>5, <3>1, RecordTypes, UpgradeAssumption DEF UpInv, StateInv, VM
  <2>2. 0 \in VM BY UpgradeAssumption DEF VM
  <2>3. /\ vm' \in [VM -> {"absent", "stopped", "live"}] /\ vm'[0] # "absent"
        /\ vm[0] = "absent" => vm'[0] = "stopped"
        /\ vm[0] # "absent" => vm'[0] = vm[0]
        /\ \A m \in VM : m # 0 => vm'[m] = vm[m]
    BY <1>5, <2>2 DEF UpInv, StateInv, StateType, EnsureMachine, SetVM
  <2>4. StateType' BY <1>3, <2>3 DEF UpInv, StateInv, StateType
  <2>5. \A m \in VM : vm'[m] = "live" => vm[m] = "live" BY <2>3, Zenon
  <2>6. Numbers'
    <3>1. ops \in Nat /\ \A m \in VM : m \in Nat
      BY UpgradeAssumption DEF UpInv, StateInv, StateType, VM
    <3>2. \A m \in VM : m > ops => m # 0
      BY <3>1
    <3> QED BY <1>3, <2>3, <3>2, Zenon DEF UpInv, StateInv, Numbers
  <2>7. LiveOnes' BY <1>3, <2>5, Zenon DEF UpInv, StateInv, LiveOnes, Pending
  <2>8. Data' /\ RecordIsActionable' /\ Unproven'
    BY <1>3, <1>5, <2>1, Zenon DEF UpInv, StateInv, Data, RecordIsActionable, Unproven, Pending, Below
  <2>9. Places'
    BY <1>2, <1>3, <2>1, <2>3, Zenon DEF Places, UpdatePCs, FinalPCs, RecoverPCs, DropPCs, Pending
  <2> QED BY <1>2, <2>4, <2>6, <2>7, <2>8, <2>9, Zenon DEF UpInv, StateInv
<1> QED BY <1>4, <1>5, Zenon

\* The first VM is recorded.
LEMMA SaveMachineStep == ASSUME UpInv, SaveMachine PROVE UpInv'
<1>1. ~Pending /\ (rec.machine = None => vm[0] # "absent")
  BY Zenon DEF UpInv, Places, SaveMachine, At
<1>2. DaemonType' /\ d'.pc = "boot" BY GoesTo, Zenon DEF UpInv, PCs, SaveMachine
<1>3. UNCHANGED <<vm, disk, backup, ops, proven, kept>> BY Zenon DEF SaveMachine
<1>4. 0 \in VM /\ 0 # None BY UpgradeAssumption DEF VM
<1>5. CASE rec.machine # None
  <2>1. rec' = rec BY <1>5, Zenon DEF SaveMachine, UpInv, StateInv, StateType
  <2>2. StateInv' BY <1>3, <2>1, StateKept, Zenon DEF UpInv
  <2>3. Places'
    BY <1>1, <1>2, <1>5, <2>1, Zenon
    DEF Places, UpdatePCs, FinalPCs, RecoverPCs, DropPCs, Pending
  <2> QED BY <1>2, <2>2, <2>3, Zenon DEF UpInv
<1>6. CASE rec.machine = None
  <2>1. rec.up = None
    <3>1. rec.up # None => rec.machine = rec.up.op \/ rec.machine = rec.up.prev
      BY RecordTypes, Zenon DEF UpInv, StateInv, Numbers, Upgrades, StateType
    <3> QED BY <1>6, <3>1, RecordTypes, UpgradeAssumption DEF UpInv, StateInv, VM
  <2>2. rec'.machine = 0 /\ rec'.up = None
        /\ rec' \in [machine : VM \cup {None}, up : Upgrades \cup {None}]
    BY <1>4, <1>6, <2>1, Zenon DEF SaveMachine, UpInv, StateInv, StateType
  <2>3. StateType' BY <1>3, <2>2, Zenon DEF UpInv, StateInv, StateType
  <2>4. Numbers'
    BY <1>3, <2>2, UpgradeAssumption DEF UpInv, StateInv, StateType, Numbers
  <2>5. LiveOnes'
    <3>1. \A m \in VM : vm[m] # "live"
      BY <1>6, <2>1, UpgradeAssumption DEF UpInv, StateInv, LiveOnes, Pending, VM
    <3> QED BY <1>3, <3>1, Zenon DEF LiveOnes
  <2>6. Data'
    BY <1>3, <1>4, <1>6, <2>1, <2>2, Zenon DEF UpInv, StateInv, Data, Below
  <2>7. RecordIsActionable' /\ Unproven'
    BY <1>1, <1>3, <1>6, <2>2, Zenon DEF RecordIsActionable, Unproven, Pending
  <2>8. Places'
    BY <1>2, <1>4, <2>2, Zenon DEF Places, UpdatePCs, FinalPCs, RecoverPCs, DropPCs, Pending
  <2> QED BY <1>2, <2>3, <2>4, <2>5, <2>6, <2>7, <2>8, Zenon DEF UpInv, StateInv
<1> QED BY <1>5, <1>6, Zenon

\* The recorded VM is booted, and writes from now on.
LEMMA BootMachineStep == ASSUME UpInv, BootMachine PROVE UpInv'
<1>1. ~Pending /\ rec.machine # None /\ rec.machine \in VM
  BY RecordTypes, Zenon DEF UpInv, StateInv, Places, BootMachine, At
<1>2. DaemonType' /\ d'.pc = "await" BY GoesTo, Zenon DEF UpInv, PCs, BootMachine
<1>3. UNCHANGED <<rec, backup, ops, proven, kept>> BY Zenon DEF BootMachine
<1>4. CASE vm[rec.machine] = "live"
  <2>1. UNCHANGED <<vm, disk>> BY <1>4, Zenon DEF BootMachine
  <2>2. StateInv' BY <1>3, <2>1, StateKept, Zenon DEF UpInv
  <2>3. Places'
    BY <1>1, <1>2, <1>3, <2>1, Zenon DEF Places, UpdatePCs, FinalPCs, RecoverPCs, DropPCs, Pending
  <2> QED BY <1>2, <2>2, <2>3, Zenon DEF UpInv
<1>5. CASE vm[rec.machine] # "live"
  <2> PICK a \in VM : a = rec.machine
    BY <1>1, Zenon
  <2>1. /\ vm' \in [VM -> {"absent", "stopped", "live"}] /\ vm'[a] = "live"
        /\ \A m \in VM : m # a => vm'[m] = vm[m]
        /\ disk' = disk \cup {<<a, "boot">>}
    BY <1>5, Zenon DEF BootMachine, Start, SetVM, UpInv, StateInv, StateType
  <2>2. <<a, "boot">> \in Writes /\ a \in Nat /\ a <= ops
    BY <1>1, UpgradeAssumption DEF Writes, VM, UpInv, StateInv, Numbers
  <2>3. StateType' BY <1>3, <2>1, <2>2 DEF UpInv, StateInv, StateType
  <2>4. Numbers'
    <3>1. \A m \in VM : m > ops => m # a
      BY <2>2, UpgradeAssumption DEF UpInv, StateInv, StateType, VM
    <3> QED BY <1>3, <2>1, <3>1, Zenon DEF UpInv, StateInv, Numbers
  <2>5. LiveOnes'
    BY <1>1, <1>3, <2>1, Zenon DEF UpInv, StateInv, LiveOnes, Pending
  <2>6. Data'
    <3>1. Below(disk, a)
      BY <1>1, Zenon DEF UpInv, StateInv, StateType, Data, Numbers, Pending
    <3>2. Below(disk', a)
      BY <2>1, <2>2, <3>1 DEF Below
    <3>3. rec.up # None => rec.up.op = a /\ rec.up.cand # None
      BY <1>1, Zenon DEF UpInv, StateInv, StateType, Numbers, Pending
    <3>4. kept' \subseteq disk'
      BY <1>3, <2>1, Zenon DEF UpInv, StateInv, Data
    <3> QED BY <1>1, <1>3, <3>2, <3>3, <3>4, Zenon DEF UpInv, StateInv, Data, Below
  <2>7. RecordIsActionable' /\ Unproven'
    BY <1>1, <1>3, <2>1, Zenon DEF RecordIsActionable, Unproven, Pending
  <2>8. Places'
    BY <1>1, <1>2, <1>3, Zenon DEF Places, UpdatePCs, FinalPCs, RecoverPCs, DropPCs, Pending
  <2> QED BY <1>2, <2>3, <2>4, <2>5, <2>6, <2>7, <2>8, Zenon DEF UpInv, StateInv
<1> QED BY <1>4, <1>5, Zenon

\* The VM is ready: what it wrote is to be kept.
LEMMA ReadyStep == ASSUME UpInv, Ready PROVE UpInv'
<1>1. ~Pending /\ rec.machine # None /\ rec.machine \in VM
  BY RecordTypes, Zenon DEF UpInv, StateInv, Places, Ready, At
<1>2. /\ DaemonType'
      /\ \/ Committed /\ d'.pc = "dropPrevious" /\ d'.ret = "supervise"
         \/ ~Committed /\ d'.pc = "supervise"
  BY Finalizes, Zenon DEF UpInv, Ready
<1>3. UNCHANGED <<rec, vm, disk, backup, ops, kept>> /\ proven' = proven \cup {rec.machine}
  BY Zenon DEF Ready
<1>4. StateType' BY <1>1, <1>3, Zenon DEF UpInv, StateInv, StateType
<1>5. Numbers'
  <2>1. rec.machine <= ops /\ rec.machine \in Nat /\ ops \in Nat /\ \A m \in VM : m \in Nat
    BY <1>1, UpgradeAssumption DEF UpInv, StateInv, StateType, Numbers, VM
  <2>2. \A m \in VM : m > ops => m # rec.machine
    BY <2>1
  <2> QED BY <1>3, <2>2, Zenon DEF UpInv, StateInv, Numbers
<1>6. LiveOnes' /\ Data' /\ RecordIsActionable' /\ Unproven'
  BY <1>1, <1>3, Zenon
  DEF UpInv, StateInv, LiveOnes, Data, RecordIsActionable, Unproven, Pending, Below
<1>7. Places'
  BY <1>1, <1>2, <1>3, Zenon
  DEF Places, Pending, Committed, UpdatePCs, FinalPCs, RecoverPCs, DropPCs
<1> QED BY <1>2, <1>4, <1>5, <1>6, <1>7, Zenon DEF UpInv, StateInv

-----------------------------------------------------------------------------
\* The steps of finalize.

\* The previous VM is removed,
LEMMA DropPreviousStep == ASSUME UpInv, DropPrevious PROVE UpInv'
<1>1. /\ Committed /\ d.ret \in {"supervise", "qualify"}
      /\ d.ret = "qualify" => ops < MaxUpgrades
  BY Zenon DEF UpInv, Places, DropPrevious, At, FinalPCs
<1>2. DaemonType' /\ d'.pc = "dropBackup" /\ d'.ret = d.ret
  BY GoesTo, Zenon DEF UpInv, PCs, DropPrevious
<1>3. UNCHANGED <<rec, disk, backup, ops, proven, kept>> BY Zenon DEF DropPrevious
<1>4. rec.up # None /\ rec.up.prev \in VM /\ rec.machine = rec.up.op /\ rec.machine # rec.up.prev
  <2>1. rec.up # None /\ rec.up.op \in VM /\ rec.up.prev \in VM /\ rec.up.prev < rec.up.op
        /\ rec.machine = rec.up.op
    BY <1>1, RecordTypes, Zenon DEF UpInv, StateInv, Numbers, Committed
  <2> QED BY <2>1, UpgradeAssumption DEF VM
<1>5. /\ vm' \in [VM -> {"absent", "stopped", "live"}] /\ vm'[rec.up.prev] = "absent"
      /\ \A m \in VM : m # rec.up.prev => vm'[m] = vm[m]
  BY <1>4, Zenon DEF DropPrevious, SetVM, UpInv, StateInv, StateType
<1>6. StateType' BY <1>3, <1>5 DEF UpInv, StateInv, StateType
<1>7. Numbers' BY <1>3, <1>5, Zenon DEF UpInv, StateInv, Numbers
<1>8. LiveOnes' BY <1>3, <1>5, Zenon DEF UpInv, StateInv, LiveOnes, Pending
<1>9. Data' /\ Unproven' BY <1>3, Zenon DEF UpInv, StateInv, Data, Unproven, Pending, Below
<1>10. RecordIsActionable'
  <2>1. rec.machine \in VM \cup {None}
    BY RecordTypes, Zenon DEF UpInv, StateInv
  <2> QED BY <1>1, <1>3, <1>4, <1>5, <2>1, Zenon
          DEF UpInv, StateInv, RecordIsActionable, Pending, Committed
<1>11. Places'
  BY <1>1, <1>2, <1>3, Zenon DEF Places, Committed, UpdatePCs, FinalPCs, RecoverPCs, DropPCs
<1> QED BY <1>2, <1>6, <1>7, <1>8, <1>9, <1>10, <1>11, Zenon DEF UpInv, StateInv

\* the backup is,
LEMMA DropBackupStep == ASSUME UpInv, DropBackup PROVE UpInv'
<1>1. /\ Committed /\ d.ret \in {"supervise", "qualify"}
      /\ d.ret = "qualify" => ops < MaxUpgrades
  BY Zenon DEF UpInv, Places, DropBackup, At, FinalPCs
<1>2. DaemonType' /\ d'.pc = "saveFinal" /\ d'.ret = d.ret
  BY GoesTo, Zenon DEF UpInv, PCs, DropBackup
<1>3. UNCHANGED <<rec, vm, disk, ops, proven, kept>> BY Zenon DEF DropBackup
<1>4. rec.up # None /\ rec.up.op \in Op
  BY <1>1, RecordTypes, Zenon DEF UpInv, StateInv, Committed
<1>5. /\ backup' = [o \in Op |-> backup'[o]] /\ DOMAIN backup' = Op
      /\ backup'[rec.up.op] = None
      /\ \A o \in Op : o # rec.up.op => backup'[o] = backup[o]
  BY <1>4, Zenon DEF DropBackup, UpInv, StateInv, StateType
<1>6. StateType'
  BY <1>3, <1>5, Zenon DEF UpInv, StateInv, StateType
<1>7. Numbers' BY <1>3, <1>5, Zenon DEF UpInv, StateInv, Numbers
<1>8. LiveOnes' BY <1>3, Zenon DEF UpInv, StateInv, LiveOnes, Pending
<1>9. Data' /\ Unproven' BY <1>3, <1>5, Zenon DEF UpInv, StateInv, Data, Unproven, Pending, Below
<1>10. RecordIsActionable'
  BY <1>1, <1>3, Zenon DEF UpInv, StateInv, RecordIsActionable, Pending, Committed
<1>11. Places'
  BY <1>1, <1>2, <1>3, Zenon DEF Places, Committed, UpdatePCs, FinalPCs, RecoverPCs, DropPCs
<1> QED BY <1>2, <1>6, <1>7, <1>8, <1>9, <1>10, <1>11, Zenon DEF UpInv, StateInv

\* and the record forgets the update.
LEMMA SaveFinalStep == ASSUME UpInv, SaveFinal PROVE UpInv'
<1>1. /\ Committed /\ d.ret \in {"supervise", "qualify"}
      /\ d.ret = "qualify" => ops < MaxUpgrades
  BY Zenon DEF UpInv, Places, SaveFinal, At, FinalPCs
<1>2. DaemonType' /\ d'.pc = d.ret
  BY <1>1, GoesTo, Zenon DEF UpInv, PCs, SaveFinal
<1>3. UNCHANGED <<vm, disk, backup, ops, proven, kept>> BY Zenon DEF SaveFinal
<1>4. /\ rec.up # None /\ rec.machine = rec.up.op /\ rec.machine \in VM /\ rec.up.cand # None
  BY <1>1, RecordTypes, Zenon DEF UpInv, StateInv, StateType, Numbers, Committed
<1>5. /\ rec' \in [machine : VM \cup {None}, up : Upgrades \cup {None}]
      /\ rec'.up = None /\ rec'.machine = rec.machine
  BY Zenon DEF SaveFinal, UpInv, StateInv, StateType
<1>6. rec.machine # None BY <1>4, UpgradeAssumption DEF VM
<1>7. StateType' BY <1>3, <1>5, Zenon DEF UpInv, StateInv, StateType
<1>8. Numbers' BY <1>3, <1>5, Zenon DEF UpInv, StateInv, Numbers
<1>9. LiveOnes' BY <1>1, <1>3, <1>5, Zenon DEF UpInv, StateInv, LiveOnes, Pending, Committed
<1>10. Data' /\ Unproven'
  BY <1>3, <1>4, <1>5, <1>6, Zenon DEF UpInv, StateInv, Data, Unproven, Pending, Below
<1>11. RecordIsActionable'
  BY <1>3, <1>5, Zenon DEF UpInv, StateInv, RecordIsActionable, Pending
<1>12. Places'
  BY <1>1, <1>2, <1>3, <1>5, <1>6, Zenon
  DEF Places, Pending, UpdatePCs, FinalPCs, RecoverPCs, DropPCs
<1> QED BY <1>2, <1>7, <1>8, <1>9, <1>10, <1>11, <1>12, Zenon DEF UpInv, StateInv

-----------------------------------------------------------------------------
\* The steps of replace.

\* The update is recorded before anything is done for it.
LEMMA SavePendingStep == ASSUME UpInv, SavePending PROVE UpInv'
<1>1. /\ rec.up = None /\ rec.machine # None /\ rec.machine \in VM
      /\ vm[rec.machine] # "live" /\ ops < MaxUpgrades
  BY RecordTypes, Zenon DEF UpInv, StateInv, Places, SavePending, At
<1> PICK a \in VM : a = rec.machine
  BY <1>1, Zenon
<1>2. DaemonType' /\ d'.pc = "copy"
  BY GoesTo, Zenon DEF UpInv, PCs, SavePending
<1>3. UNCHANGED <<disk, backup, proven, kept>> /\ ops' = ops + 1 BY Zenon DEF SavePending
<1>4. Quiets /\ vm'[a] # "live"
  BY <1>1, StopQuiets, Zenon DEF UpInv, StateInv, SavePending
<1>5. /\ ops \in Nat /\ ops + 1 \in Op /\ ops + 1 \in VM /\ a \in Nat /\ a <= ops
      /\ a # None /\ ops + 1 # None
  BY <1>1, UpgradeAssumption DEF UpInv, StateInv, StateType, Numbers, VM, Op
<1> DEFINE u == [op |-> ops + 1, prev |-> a, cand |-> None, backup |-> FALSE,
                 complete |-> FALSE]
<1>6. u \in Upgrades /\ u.op = ops + 1 /\ u.prev = a /\ u.cand = None /\ ~u.backup /\ ~u.complete
  BY <1>5, Zenon DEF Upgrades
<1>7. rec' = [rec EXCEPT !.up = u]
  BY Zenon DEF SavePending
<1> HIDE DEF u
<1>8. /\ rec' \in [machine : VM \cup {None}, up : Upgrades \cup {None}]
      /\ rec'.up = u /\ rec'.machine = a /\ rec'.up # None
  BY <1>6, <1>7, UpgradeAssumption, Zenon DEF UpInv, StateInv, StateType
<1>9. Pending' BY <1>6, <1>8, Zenon DEF Pending
<1>10. StateType'
  BY <1>3, <1>4, <1>5, <1>6, <1>8 DEF UpInv, StateInv, StateType, Quiets, Op
<1>11. Numbers'
  <2>1. \A m \in VM : m > ops + 1 => m > ops
    BY <1>5 DEF VM
  <2>2. \A o \in Op : o > ops + 1 => o > ops
    BY <1>5 DEF Op
  <2>3. \A m \in VM : m > ops + 1 => vm'[m] = "absent" /\ m \notin proven
    BY <1>4, <2>1, Zenon DEF UpInv, StateInv, Numbers, Quiets
  <2>4. \A o \in Op : o > ops + 1 => backup[o] = None
    BY <2>2, Zenon DEF UpInv, StateInv, Numbers
  <2> QED BY <1>3, <1>5, <1>6, <1>8, <2>3, <2>4 DEF Numbers
<1>12. vm[ops + 1] = "absent" /\ ops + 1 \notin proven /\ backup[ops + 1] = None
  BY <1>5 DEF UpInv, StateInv, Numbers
<1>13. \A m \in VM : vm'[m] # "live"
  <2>1. \A m \in VM : vm[m] # "live"
    BY <1>1, Zenon DEF UpInv, StateInv, LiveOnes, Pending
  <2> QED BY <1>4, <2>1, Zenon DEF Quiets
<1>14. LiveOnes' BY <1>13, Zenon DEF LiveOnes
<1>15. Data'
  BY <1>1, <1>3, <1>6, <1>8, <1>12, Zenon DEF UpInv, StateInv, Data, Below
<1>16. RecordIsActionable' /\ Unproven'
  <2>1. vm[a] # "absent" /\ vm'[a] # "absent" /\ vm'[ops + 1] = "absent"
    BY <1>1, <1>4, <1>5, <1>12, Zenon DEF Quiets, SavePending
  <2> QED BY <1>3, <1>6, <1>8, <1>12, <2>1, Zenon DEF RecordIsActionable, Unproven, Pending
<1>17. Places'
  BY <1>2, <1>6, <1>8, <1>9, Zenon DEF Places, UpdatePCs, FinalPCs, RecoverPCs, DropPCs
<1> QED BY <1>2, <1>10, <1>11, <1>14, <1>15, <1>16, <1>17, Zenon DEF UpInv, StateInv

\* The disk is copied,
LEMMA CopyDiskStep == ASSUME UpInv, CopyDisk PROVE UpInv'
<1>1. Pending /\ ~rec.up.backup
  BY Zenon DEF UpInv, Places, CopyDisk, At, UpdatePCs
<1>2. DaemonType' /\ d'.pc = "saveBackup" BY GoesTo, Zenon DEF UpInv, PCs, CopyDisk
<1>3. UNCHANGED <<rec, vm, disk, ops, proven, kept>> BY Zenon DEF CopyDisk
<1>4. rec.up # None /\ rec.up.op \in Op /\ rec.up.cand = None /\ disk # None
  BY <1>1, RecordTypes, UpgradeAssumption, Zenon DEF UpInv, StateInv, StateType, Pending
<1>5. /\ backup' = [o \in Op |-> backup'[o]] /\ DOMAIN backup' = Op
      /\ backup'[rec.up.op] = disk
      /\ \A o \in Op : o # rec.up.op => backup'[o] = backup[o]
  BY <1>4, Zenon DEF CopyDisk, UpInv, StateInv, StateType
<1>6. StateType'
  <2>1. \A o \in Op : backup'[o] = None \/ backup'[o] \subseteq Writes
    BY <1>5, Zenon DEF UpInv, StateInv, StateType
  <2> QED BY <1>3, <1>5, <2>1, Zenon DEF UpInv, StateInv, StateType
<1>7. Numbers'
  <2>1. \A o \in Op : o > ops => o # rec.up.op
    BY <1>4, UpgradeAssumption DEF UpInv, StateInv, StateType, Numbers, Op
  <2> QED BY <1>3, <1>5, <2>1, Zenon DEF UpInv, StateInv, Numbers
<1>8. LiveOnes' /\ Unproven' BY <1>3, Zenon DEF UpInv, StateInv, LiveOnes, Unproven, Pending
<1>9. Data'
  BY <1>3, <1>4, <1>5, Zenon DEF UpInv, StateInv, Data, Below
<1>10. RecordIsActionable'
  BY <1>1, <1>3, Zenon DEF UpInv, StateInv, RecordIsActionable, Pending
<1>11. Places'
  BY <1>1, <1>2, <1>3, <1>4, <1>5, Zenon
  DEF Places, Pending, UpdatePCs, FinalPCs, RecoverPCs, DropPCs
<1> QED BY <1>2, <1>6, <1>7, <1>8, <1>9, <1>10, <1>11, Zenon DEF UpInv, StateInv

\* and the record says so.
LEMMA SaveBackupStep == ASSUME UpInv, SaveBackup PROVE UpInv'
<1>1. Pending /\ ~rec.up.backup /\ backup[rec.up.op] # None
  BY Zenon DEF UpInv, Places, SaveBackup, At, UpdatePCs
<1>2. DaemonType' /\ d'.pc = "create" BY GoesTo, Zenon DEF UpInv, PCs, SaveBackup
<1>3. UNCHANGED <<vm, disk, backup, ops, proven, kept>> BY Zenon DEF SaveBackup
<1>4. rec.up # None /\ rec.up \in Upgrades /\ rec.up.cand = None
  BY <1>1, RecordTypes, Zenon DEF UpInv, StateInv, StateType, Pending
<1>5. /\ rec'.machine = rec.machine /\ rec'.up \in Upgrades
      /\ rec'.up.op = rec.up.op /\ rec'.up.prev = rec.up.prev /\ rec'.up.cand = None
      /\ rec'.up.backup /\ ~rec'.up.complete
      /\ rec' \in [machine : VM \cup {None}, up : Upgrades \cup {None}]
  BY <1>1, <1>4, Zenon DEF SaveBackup, UpInv, StateInv, StateType, Upgrades, Pending
<1>6. rec'.up # None BY <1>5, UpgradeAssumption, Zenon
<1>7. StateType'
  BY <1>3, <1>4, <1>5, <1>6, Zenon DEF UpInv, StateInv, StateType
<1>8. Numbers'
  BY <1>1, <1>3, <1>4, <1>5, Zenon DEF UpInv, StateInv, Numbers, Pending
<1>9. LiveOnes' /\ Unproven'
  BY <1>1, <1>3, <1>4, <1>5, <1>6, Zenon DEF UpInv, StateInv, LiveOnes, Unproven, Pending
<1>10. Data'
  BY <1>3, <1>4, <1>5, <1>6, Zenon DEF UpInv, StateInv, Data, Below
<1>11. RecordIsActionable'
  BY <1>1, <1>3, <1>4, <1>5, <1>6, Zenon DEF UpInv, StateInv, RecordIsActionable, Pending
<1>12. Places'
  BY <1>2, <1>5, <1>6, Zenon DEF Places, Pending, UpdatePCs, FinalPCs, RecoverPCs, DropPCs
<1> QED BY <1>2, <1>7, <1>8, <1>9, <1>10, <1>11, <1>12, Zenon DEF UpInv, StateInv

\* The candidate is created,
LEMMA CreateCandidateStep == ASSUME UpInv, CreateCandidate PROVE UpInv'
<1>1. Pending /\ rec.up.backup /\ rec.up.cand = None
  BY Zenon DEF UpInv, Places, CreateCandidate, At, UpdatePCs
<1>2. DaemonType' /\ d'.pc = "saveCandidate" BY GoesTo, Zenon DEF UpInv, PCs, CreateCandidate
<1>3. UNCHANGED <<rec, disk, backup, ops, proven, kept>> BY Zenon DEF CreateCandidate
<1>4. rec.up # None /\ rec.up.op \in VM /\ rec.up.op \in Op /\ rec.up.prev \in VM
  BY <1>1, RecordTypes, Zenon DEF UpInv, StateInv, Pending
<1>5. /\ vm' \in [VM -> {"absent", "stopped", "live"}] /\ vm'[rec.up.op] = "stopped"
      /\ \A m \in VM : m # rec.up.op => vm'[m] = vm[m]
  BY <1>4, Zenon DEF CreateCandidate, SetVM, UpInv, StateInv, StateType
<1>6. StateType' BY <1>3, <1>5 DEF UpInv, StateInv, StateType
<1>7. Numbers'
  <2>1. \A m \in VM : m > ops => m # rec.up.op
    BY <1>4, UpgradeAssumption DEF UpInv, StateInv, StateType, Numbers, VM
  <2> QED BY <1>3, <1>5, <2>1, Zenon DEF UpInv, StateInv, Numbers
<1>8. LiveOnes' BY <1>3, <1>5, Zenon DEF UpInv, StateInv, LiveOnes, Pending
<1>9. Data' /\ Unproven' BY <1>3, Zenon DEF UpInv, StateInv, Data, Unproven, Pending, Below
<1>10. RecordIsActionable'
  <2>1. \A m \in VM : vm[m] # "absent" => vm'[m] # "absent"
    BY <1>5, Zenon
  <2>2. rec.machine \in VM \cup {None}
    BY RecordTypes, Zenon DEF UpInv, StateInv
  <2> QED BY <1>1, <1>3, <1>4, <2>1, <2>2, Zenon DEF UpInv, StateInv, RecordIsActionable, Pending
<1>11. Places'
  BY <1>1, <1>2, <1>3, <1>5, Zenon DEF Places, Pending, UpdatePCs, FinalPCs, RecoverPCs, DropPCs
<1> QED BY <1>2, <1>6, <1>7, <1>8, <1>9, <1>10, <1>11, Zenon DEF UpInv, StateInv

\* and recorded.
LEMMA SaveCandidateStep == ASSUME UpInv, SaveCandidate PROVE UpInv'
<1>1. Pending /\ rec.up.backup /\ rec.up.cand = None /\ vm[rec.up.op] # "absent"
  BY Zenon DEF UpInv, Places, SaveCandidate, At, UpdatePCs
<1>2. DaemonType' /\ d'.pc = "validate" BY GoesTo, Zenon DEF UpInv, PCs, SaveCandidate
<1>3. UNCHANGED <<vm, disk, backup, ops, proven, kept>> BY Zenon DEF SaveCandidate
<1>4. /\ rec.up # None /\ rec.up \in Upgrades /\ rec.up.op \in Op /\ rec.up.prev \in VM
      /\ rec.up.op # None
  BY <1>1, RecordTypes, UpgradeAssumption DEF UpInv, StateInv, Pending, Op
<1>5. /\ rec'.machine = rec.machine /\ rec'.up \in Upgrades
      /\ rec'.up.op = rec.up.op /\ rec'.up.prev = rec.up.prev /\ rec'.up.cand = rec.up.op
      /\ rec'.up.backup /\ ~rec'.up.complete
      /\ rec' \in [machine : VM \cup {None}, up : Upgrades \cup {None}]
  BY <1>1, <1>4, Zenon DEF SaveCandidate, UpInv, StateInv, StateType, Upgrades, Pending
<1>6. rec'.up # None BY <1>5, UpgradeAssumption, Zenon
<1>7. rec.up.prev < rec.up.op /\ rec.up.prev # rec.up.op
  BY <1>4, UpgradeAssumption DEF UpInv, StateInv, Numbers, VM, Op
<1>8. StateType'
  BY <1>3, <1>4, <1>5, <1>6, <1>7, Zenon DEF UpInv, StateInv, StateType
<1>9. Numbers'
  BY <1>1, <1>3, <1>4, <1>5, Zenon DEF UpInv, StateInv, Numbers, Pending
<1>10. LiveOnes' /\ Unproven'
  <2>1. \A m \in VM : vm[m] # "live"
    BY <1>1, UpgradeAssumption DEF UpInv, StateInv, LiveOnes, VM
  <2> QED BY <1>1, <1>3, <1>4, <1>5, <1>6, <2>1, Zenon DEF UpInv, StateInv, LiveOnes, Unproven, Pending
<1>11. Data'
  <2>1. \A w \in disk : w[1] \in VM
    BY Zenon DEF UpInv, StateInv, StateType, Writes
  <2>2. Below(disk, rec.up.prev)
    BY <1>1, <1>4, Zenon DEF UpInv, StateInv, Data
  <2>3. Below(disk, rec.up.op)
    BY <1>4, <1>7, <2>1, <2>2, UpgradeAssumption DEF Below, VM, Op
  <2> QED BY <1>3, <1>4, <1>5, <1>6, <2>3, Zenon DEF UpInv, StateInv, Data, Below
<1>12. RecordIsActionable'
  BY <1>1, <1>3, <1>4, <1>5, <1>6, Zenon DEF UpInv, StateInv, RecordIsActionable, Pending
<1>13. Places'
  BY <1>2, <1>4, <1>5, <1>6, Zenon DEF Places, Pending, UpdatePCs, FinalPCs, RecoverPCs, DropPCs
<1> QED BY <1>2, <1>8, <1>9, <1>10, <1>11, <1>12, <1>13, Zenon DEF UpInv, StateInv

\* The candidate is booted on the disk and proves itself, or not.
LEMMA ValidateCandidateStep == ASSUME UpInv, ValidateCandidate PROVE UpInv'
<1>1. Pending /\ rec.up.cand # None
  BY Zenon DEF UpInv, Places, ValidateCandidate, At, UpdatePCs
<1>2. DaemonType' /\ d'.pc = "stopCandidate" BY GoesTo, Zenon DEF UpInv, PCs, ValidateCandidate
<1>3. UNCHANGED <<rec, backup, ops, proven, kept>> BY Zenon DEF ValidateCandidate
<1>4. rec.up # None /\ rec.up.op \in VM /\ rec.up.cand = rec.up.op /\ rec.up.op <= ops
  BY <1>1, RecordTypes, Zenon DEF UpInv, StateInv, Pending, Numbers
<1> PICK a \in VM : a = rec.up.op
  BY <1>4, Zenon
<1>5. /\ vm' \in [VM -> {"absent", "stopped", "live"}] /\ vm'[a] = "live"
      /\ \A m \in VM : m # a => vm'[m] = vm[m]
      /\ disk' = disk \cup {<<a, "boot">>}
  BY <1>4, Zenon DEF ValidateCandidate, Start, SetVM, UpInv, StateInv, StateType
<1>6. <<a, "boot">> \in Writes /\ a \in Nat /\ a <= ops
  BY <1>4, UpgradeAssumption DEF Writes, VM
<1>7. StateType' BY <1>3, <1>5, <1>6 DEF UpInv, StateInv, StateType
<1>8. Numbers'
  <2>1. \A m \in VM : m > ops => m # a
    BY <1>6, UpgradeAssumption DEF UpInv, StateInv, StateType, VM
  <2> QED BY <1>3, <1>5, <2>1, Zenon DEF UpInv, StateInv, Numbers
<1>9. LiveOnes'
  BY <1>1, <1>3, <1>4, <1>5, Zenon DEF UpInv, StateInv, LiveOnes, Pending
<1>10. Data'
  <2>1. Below(disk, a)
    BY <1>1, <1>4, Zenon DEF UpInv, StateInv, Data
  <2>2. Below(disk', a)
    BY <1>5, <1>6, <2>1 DEF Below
  <2>3. kept' \subseteq disk'
    BY <1>3, <1>5, Zenon DEF UpInv, StateInv, Data
  <2> QED BY <1>1, <1>3, <1>4, <2>2, <2>3, Zenon DEF UpInv, StateInv, Data, Below
<1>11. RecordIsActionable' /\ Unproven'
  <2>1. \A m \in VM : vm[m] # "absent" => vm'[m] # "absent"
    BY <1>5, Zenon
  <2>2. rec.machine \in VM \cup {None} /\ rec.up.prev \in VM /\ rec.up.backup
    BY <1>1, <1>4, RecordTypes, Zenon DEF UpInv, StateInv, StateType
  <2> QED BY <1>1, <1>3, <1>4, <2>1, <2>2, Zenon
          DEF UpInv, StateInv, RecordIsActionable, Unproven, Pending
<1>12. Places'
  BY <1>1, <1>2, <1>3, Zenon DEF Places, Pending, UpdatePCs, FinalPCs, RecoverPCs, DropPCs
<1> QED BY <1>2, <1>7, <1>8, <1>9, <1>10, <1>11, <1>12, Zenon DEF UpInv, StateInv

\* The update is committed by one save of the record.
LEMMA CommitStep == ASSUME UpInv, Commit PROVE UpInv'
<1>1. Pending /\ rec.up.cand # None /\ vm[rec.up.cand] # "live"
  BY Zenon DEF UpInv, Places, Commit, At, UpdatePCs
<1>2. UNCHANGED <<vm, disk, backup, ops, proven, kept>> BY Zenon DEF Commit
<1>3. /\ rec.up # None /\ rec.up \in Upgrades /\ rec.up.op \in VM /\ rec.up.cand = rec.up.op
      /\ rec.up.prev \in VM /\ rec.up.backup /\ rec.up.prev < rec.up.op /\ rec.up.op # None
      /\ rec.up.prev # rec.up.cand
  BY <1>1, RecordTypes, UpgradeAssumption, Zenon DEF UpInv, StateInv, StateType, Numbers, Pending, VM
<1>4. /\ rec'.machine = rec.up.op /\ rec'.up \in Upgrades
      /\ rec'.up.op = rec.up.op /\ rec'.up.prev = rec.up.prev /\ rec'.up.cand = rec.up.op
      /\ rec'.up.backup /\ rec'.up.complete
      /\ rec' \in [machine : VM \cup {None}, up : Upgrades \cup {None}]
  BY <1>3, Zenon DEF Commit, UpInv, StateInv, StateType, Upgrades
<1>5. rec'.up # None BY <1>4, UpgradeAssumption, Zenon
<1>6. StateType'
  BY <1>2, <1>3, <1>4, <1>5, Zenon DEF UpInv, StateInv, StateType
<1>7. Numbers'
  BY <1>2, <1>3, <1>4, Zenon DEF UpInv, StateInv, Numbers
<1>8. LiveOnes' /\ Unproven'
  <2>1. \A m \in VM : vm[m] # "live"
    BY <1>1, Zenon DEF UpInv, StateInv, LiveOnes
  <2> QED BY <1>2, <1>4, <2>1, Zenon DEF LiveOnes, Unproven, Pending
<1>9. Data'
  BY <1>1, <1>2, <1>3, <1>4, <1>5, Zenon DEF UpInv, StateInv, Data, Below
<1>10. RecordIsActionable'
  BY <1>1, <1>2, <1>3, <1>4, Zenon DEF UpInv, StateInv, RecordIsActionable, Pending
<1>11. CASE Goto("attempt")
  <2>1. DaemonType' /\ d'.pc = "attempt" BY <1>11, GoesTo, Zenon DEF UpInv, PCs
  <2> QED BY <1>6, <1>7, <1>8, <1>9, <1>10, <2>1, AtRest, Zenon DEF UpInv, StateInv
<1>12. CASE Recover("attempt")
  <2>1. DaemonType' /\ d'.pc = "candidate" /\ d'.ret = "attempt" /\ d'.op = rec.up.op
    BY <1>3, <1>12, Recovers, Zenon DEF UpInv, StateInv
  <2> QED BY <1>4, <1>5, <1>6, <1>7, <1>8, <1>9, <1>10, <2>1, AtCandidate, Zenon DEF UpInv, StateInv
<1> QED BY <1>11, <1>12, Zenon DEF Commit

-----------------------------------------------------------------------------
\* The steps of recover that change the image, the record or the backups.

\* The backup is put back,
LEMMA RestoreStep == ASSUME UpInv, Restore PROVE UpInv'
<1>1. /\ rec.up # None /\ d.op = rec.up.op /\ d.ret \in {"attempt", "ensure"}
      /\ vm[d.op] # "live" /\ vm[rec.up.prev] = "stopped"
  BY Zenon DEF UpInv, Places, Restore, At, RecoverPCs
<1>2. DaemonType' /\ d'.pc = "saveRestored" /\ d'.op = d.op /\ d'.ret = d.ret
  BY GoesTo, Zenon DEF UpInv, PCs, Restore
<1>3. UNCHANGED <<rec, vm, backup, ops, proven, kept>> BY Zenon DEF Restore
<1>4. rec.up.op \in Op /\ rec.up.op \in VM /\ rec.up.prev \in VM /\ rec.up.prev < rec.up.op
  BY <1>1, RecordTypes, Zenon DEF UpInv, StateInv, Numbers
<1>5. disk' \subseteq Writes /\ kept \subseteq disk' /\ Below(disk', rec.up.prev)
  <2>1. CASE rec.up.backup
    BY <1>1, <1>4, <2>1 DEF Restore, UpInv, StateInv, StateType, Data
  <2>2. CASE ~rec.up.backup
    <3>1. disk' = disk /\ rec.up.cand = None
      BY <1>1, <2>2, Zenon DEF Restore, UpInv, StateInv, StateType
    <3> QED BY <1>1, <3>1, Zenon DEF UpInv, StateInv, StateType, Data
  <2> QED BY <2>1, <2>2, Zenon
<1>6. StateType' BY <1>3, <1>5, Zenon DEF UpInv, StateInv, StateType
<1>7. Numbers' /\ LiveOnes' /\ RecordIsActionable' /\ Unproven'
  BY <1>3, Zenon DEF UpInv, StateInv, Numbers, LiveOnes, RecordIsActionable, Unproven, Pending
<1>8. Data'
  <2>1. \A w \in disk' : w[1] \in VM
    BY <1>5, Zenon DEF Writes
  <2>2. Below(disk', rec.up.op)
    BY <1>4, <1>5, <2>1, UpgradeAssumption DEF Below, VM
  <2> QED BY <1>1, <1>3, <1>5, <2>2, Zenon DEF UpInv, StateInv, Data, Below
<1>9. Places'
  BY <1>1, <1>2, <1>3, <1>5, Zenon
  DEF Places, UpdatePCs, FinalPCs, RecoverPCs, DropPCs, Below
<1> QED BY <1>2, <1>6, <1>7, <1>8, <1>9, Zenon DEF UpInv, StateInv

\* and the record says so.
LEMMA SaveRestoredStep == ASSUME UpInv, SaveRestored PROVE UpInv'
<1>1. /\ rec.up # None /\ d.op = rec.up.op /\ d.ret \in {"attempt", "ensure"}
      /\ vm[d.op] # "live" /\ vm[rec.up.prev] = "stopped" /\ Below(disk, rec.up.prev)
  BY Zenon DEF UpInv, Places, SaveRestored, At, RecoverPCs
<1>2. DaemonType' /\ d'.pc = "dropCandidate" /\ d'.op = d.op /\ d'.ret = d.ret
  BY GoesTo, Zenon DEF UpInv, PCs, SaveRestored
<1>3. UNCHANGED <<vm, disk, backup, ops, proven, kept>> BY Zenon DEF SaveRestored
<1>4. /\ rec.up.op \in Op /\ rec.up.prev \in VM /\ rec.up.prev # rec.up.op
      /\ rec.up.prev <= ops /\ rec.up.prev # None
  <2>1. rec.up.op \in Op /\ rec.up.prev \in VM /\ rec.up.prev < rec.up.op /\ rec.up.op <= ops
    BY <1>1, RecordTypes, Zenon DEF UpInv, StateInv, Numbers
  <2> QED BY <2>1, UpgradeAssumption DEF Op, VM, UpInv, StateInv, StateType
<1>5. /\ rec'.machine = rec.up.prev /\ rec'.up = None
      /\ rec' \in [machine : VM \cup {None}, up : Upgrades \cup {None}]
  BY <1>4, Zenon DEF SaveRestored
<1>6. StateType' BY <1>3, <1>5, Zenon DEF UpInv, StateInv, StateType
<1>7. Numbers' BY <1>3, <1>4, <1>5, Zenon DEF UpInv, StateInv, Numbers
<1>8. LiveOnes'
  <2>1. \A m \in VM : vm[m] # "live"
    <3>1. Pending \/ Committed
      BY <1>1, Zenon DEF Pending, Committed
    <3>2. \A m \in VM : vm[m] = "live" => m = rec.up.op
      BY <1>1, <3>1, RecordTypes, UpgradeAssumption, SMTT(30)
      DEF UpInv, StateInv, LiveOnes, Numbers, Pending, Committed, VM
    <3> QED BY <1>1, <3>2, Zenon
  <2> QED BY <1>3, <2>1, Zenon DEF LiveOnes
<1>9. Data'
  BY <1>1, <1>3, <1>4, <1>5, Zenon DEF UpInv, StateInv, Data, Below
<1>10. RecordIsActionable' /\ Unproven'
  BY <1>1, <1>3, <1>5, Zenon DEF RecordIsActionable, Unproven, Pending
<1>11. Places'
  BY <1>1, <1>2, <1>4, <1>5, Zenon DEF Places, UpdatePCs, FinalPCs, RecoverPCs, DropPCs
<1> QED BY <1>2, <1>6, <1>7, <1>8, <1>9, <1>10, <1>11, Zenon DEF UpInv, StateInv

\* The failed candidate is removed,
LEMMA DropCandidateStep == ASSUME UpInv, DropCandidate PROVE UpInv'
<1>1. /\ rec.up = None /\ d.op # rec.machine /\ d.op \in Op /\ d.op \in VM
      /\ d.ret \in {"attempt", "ensure"}
  BY Zenon DEF UpInv, DaemonType, Places, DropCandidate, At, DropPCs, RecoverPCs
<1>2. DaemonType' /\ d'.pc = "dropRestored" /\ d'.op = d.op /\ d'.ret = d.ret
  BY GoesTo, Zenon DEF UpInv, PCs, DropCandidate
<1>3. UNCHANGED <<rec, disk, backup, ops, proven, kept>> BY Zenon DEF DropCandidate
<1>4. /\ vm' \in [VM -> {"absent", "stopped", "live"}]
      /\ \A m \in VM : vm'[m] = vm[m] \/ (m = d.op /\ vm'[m] = "absent")
  BY <1>1, Zenon DEF DropCandidate, SetVM, UpInv, StateInv, StateType
<1>5. StateType' BY <1>3, <1>4 DEF UpInv, StateInv, StateType
<1>6. Numbers' BY <1>3, <1>4, Zenon DEF UpInv, StateInv, Numbers
<1>7. LiveOnes' BY <1>3, <1>4, Zenon DEF UpInv, StateInv, LiveOnes, Pending
<1>8. Data' /\ Unproven' BY <1>3, Zenon DEF UpInv, StateInv, Data, Unproven, Pending, Below
<1>9. RecordIsActionable'
  <2>1. rec.machine \in VM \cup {None}
    BY RecordTypes, Zenon DEF UpInv, StateInv
  <2> QED BY <1>1, <1>3, <1>4, <2>1, Zenon DEF UpInv, StateInv, RecordIsActionable, Pending
<1>10. Places'
  BY <1>1, <1>2, <1>3, Zenon DEF Places, UpdatePCs, FinalPCs, RecoverPCs, DropPCs
<1> QED BY <1>2, <1>5, <1>6, <1>7, <1>8, <1>9, <1>10, Zenon DEF UpInv, StateInv

\* and the backup that was put back.
LEMMA DropRestoredStep == ASSUME UpInv, DropRestored PROVE UpInv'
<1>1. rec.up = None /\ d.op \in Op /\ d.ret \in {"attempt", "ensure"}
  BY Zenon DEF UpInv, Places, DropRestored, At, DropPCs, RecoverPCs
<1>2. DaemonType' /\ d'.pc \in {"attempt", "ensure"}
  BY <1>1, GoesTo, Zenon DEF UpInv, PCs, DropRestored
<1>3. UNCHANGED <<rec, vm, disk, ops, proven, kept>> BY Zenon DEF DropRestored
<1>4. /\ backup' = [o \in Op |-> backup'[o]] /\ DOMAIN backup' = Op
      /\ \A o \in Op : backup'[o] = None \/ backup'[o] = backup[o]
  BY <1>1, Zenon DEF DropRestored, UpInv, StateInv, StateType
<1>5. StateType'
  <2>1. \A o \in Op : backup'[o] = None \/ backup'[o] \subseteq Writes
    BY <1>4, Zenon DEF UpInv, StateInv, StateType
  <2> QED BY <1>3, <1>4, <2>1, Zenon DEF UpInv, StateInv, StateType
<1>6. Numbers' BY <1>3, <1>4, Zenon DEF UpInv, StateInv, Numbers
<1>7. LiveOnes' /\ Unproven' BY <1>3, Zenon DEF UpInv, StateInv, LiveOnes, Unproven, Pending
<1>8. Data' /\ RecordIsActionable'
  BY <1>1, <1>3, Zenon DEF UpInv, StateInv, Data, RecordIsActionable, Pending, Below
<1>9. Places'
  BY <1>1, <1>2, <1>3, Zenon DEF Places, UpdatePCs, FinalPCs, RecoverPCs, DropPCs, Pending
<1> QED BY <1>2, <1>5, <1>6, <1>7, <1>8, <1>9, Zenon DEF UpInv, StateInv

\* A user writes: what an upgrade not yet final wrote is not kept.
LEMMA UserWriteStep == ASSUME UpInv, NEW m \in VM, UserWrite(m) PROVE UpInv'
<1>1. UNCHANGED <<rec, vm, backup, ops, proven, d>> /\ disk' = disk \cup {<<m, "user">>}
  BY Zenon DEF UserWrite
<1>2. <<m, "user">> \in Writes /\ m \in Nat BY UpgradeAssumption DEF Writes, VM
<1>3. /\ rec.up = None => m = rec.machine /\ rec.machine # None
      /\ rec.up # None => m = rec.up.op /\ rec.up.cand # None
  <2>1. vm[m] = "live" /\ m # None BY UpgradeAssumption DEF UserWrite, VM
  <2>2. CASE Pending
    BY <2>1, <2>2, Zenon DEF UpInv, StateInv, LiveOnes, Numbers, Pending
  <2>3. CASE ~Pending
    BY <2>1, <2>3, Zenon DEF UpInv, StateInv, StateType, LiveOnes, Numbers, Pending
  <2> QED BY <2>2, <2>3, Zenon
<1>4. /\ rec.up # None => kept' = kept
      /\ kept' = kept \/ kept' = kept \cup {<<m, "user">>}
  BY <1>3, Zenon DEF UserWrite
<1>5. StateType' BY <1>1, <1>2, <1>4, Zenon DEF UpInv, StateInv, StateType
<1>6. Numbers' /\ LiveOnes' /\ RecordIsActionable' /\ Unproven'
  BY <1>1, Zenon DEF UpInv, StateInv, Numbers, LiveOnes, RecordIsActionable, Unproven, Pending
<1>7. Data'
  <2>1. Below(disk, m)
    BY <1>3, Zenon DEF UpInv, StateInv, Data
  <2>2. Below(disk', m)
    BY <1>1, <1>2, <2>1 DEF Below
  <2>3. kept' \subseteq disk'
    BY <1>1, <1>4, Zenon DEF UpInv, StateInv, Data
  <2>4. CASE rec.up = None
    BY <1>1, <1>3, <2>2, <2>3, <2>4, Zenon DEF Data, Below
  <2>5. CASE rec.up # None
    BY <1>1, <1>3, <1>4, <2>2, <2>3, <2>5, Zenon DEF UpInv, StateInv, Data, Below
  <2> QED BY <2>4, <2>5, Zenon
<1>8. Places'
  <2>1. d.pc # "saveRestored"
    <3>1. SUFFICES ASSUME d.pc = "saveRestored" PROVE FALSE
      BY Zenon
    <3>2. rec.up # None /\ d.op = rec.up.op /\ vm[d.op] # "live"
      BY <3>1, Zenon DEF UpInv, Places, RecoverPCs
    <3> QED BY <1>3, <3>2, Zenon DEF UserWrite
  <2>2. d'.pc # "saveRestored"
    BY <1>1, <2>1, Zenon
  <2> QED BY <1>1, <2>2, ZenonT(30)
          DEF UpInv, Places, UpdatePCs, FinalPCs, RecoverPCs, DropPCs, Pending, Committed
<1>9. DaemonType' BY <1>1, Zenon DEF UpInv, DaemonType
<1> QED BY <1>5, <1>6, <1>7, <1>8, <1>9, Zenon DEF UpInv, StateInv

-----------------------------------------------------------------------------
\* Every step keeps the invariant.
LEMMA NextInv == ASSUME UpInv, [Next]_vars PROVE UpInv'
<1>1. CASE Starting
  BY <1>1, AttemptStep, EnsureMachineStep, SaveMachineStep, BootMachineStep, ReadyStep, Zenon
  DEF Starting
<1>2. CASE Finalizing
  BY <1>2, DropPreviousStep, DropBackupStep, SaveFinalStep, Zenon DEF Finalizing
<1>3. CASE Replacing
  BY <1>3, SavePendingStep, CopyDiskStep, SaveBackupStep, CreateCandidateStep,
     SaveCandidateStep, ValidateCandidateStep, StopCandidateStep, CommitStep, Zenon
  DEF Replacing
<1>4. CASE Recovering
  BY <1>4, RecoverCandidateStep, RecoverPreviousStep, RestoreStep, SaveRestoredStep,
     DropCandidateStep, DropRestoredStep, Zenon
  DEF Recovering
<1>5. CASE DaemonStart \/ UpdateFound \/ QualifyFails \/ StopActive
  BY <1>5, DaemonStartStep, UpdateFoundStep, QualifyFailsStep, StopActiveStep, Zenon
<1>6. CASE AttemptFails \/ FinalizeFails \/ ReplaceFails \/ RecoverFails
  BY <1>6, AttemptFailsStep, FinalizeFailsStep, ReplaceFailsStep, RecoverFailsStep, Zenon
<1>7. CASE DaemonStops \/ StopInstallation
  BY <1>7, DaemonStopsStep, StopInstallationStep, Zenon
<1>8. CASE \E m \in VM : VmExits(m) \/ UserWrite(m)
  BY <1>8, VmExitsStep, UserWriteStep, Zenon
<1>9. CASE UNCHANGED vars
  <2>1. StateInv' BY <1>9, StateKept, Zenon DEF UpInv, vars
  <2>2. UNCHANGED <<rec, vm, disk, backup, ops, d>> BY <1>9, Zenon DEF vars
  <2>3. DaemonType' /\ Places'
    BY <2>2, SMTT(30) DEF UpInv, DaemonType, Places, Pending, Committed, Below
  <2> QED BY <2>1, <2>3, Zenon DEF UpInv
<1> QED BY <1>1, <1>2, <1>3, <1>4, <1>5, <1>6, <1>7, <1>8, <1>9, Zenon DEF Next

\* The inductive invariant of the upgrade: whatever fails, and wherever the
\* daemon dies, record, VMs, data image and backup fit together.
THEOREM UpgradeInvariant == Spec => []UpInv
BY InitInv, NextInv, PTL DEF Spec

\* The parts of the invariant about types are the type invariant.
LEMMA InvIsTyped == ASSUME UpInv PROVE TypeOK
BY Zenon DEF UpInv, StateInv, StateType, DaemonType, TypeOK

\* The record the daemon reads back always passes UpgradeRecord::validate, and
\* every variable has its type.
THEOREM UpgradeIsTyped == Spec => []TypeOK
BY UpgradeInvariant, InvIsTyped, PTL

\* A crash at any point leaves a record recover or finalize can act on.
THEOREM RecordAlwaysActionable == Spec => []RecordIsActionable
<1>1. UpInv => RecordIsActionable
  BY Zenon DEF UpInv, StateInv
<1> QED BY <1>1, UpgradeInvariant, PTL

\* One VM at a time writes the data image, no VM runs on data of a newer image,
\* and no write of a user that must be kept is lost, by whatever sequence of
\* upgrades, rollbacks and crashes.
THEOREM DataAlwaysSafe == Spec => []DataIsSafe
<1>1. ASSUME UpInv PROVE DataIsSafe
  <2>1. SingleWriter
    BY <1>1, Zenon DEF UpInv, StateInv, LiveOnes, SingleWriter
  <2>2. KeptWritesSurvive
    BY <1>1, Zenon DEF UpInv, StateInv, Data, KeptWritesSurvive
  <2>3. ASSUME NEW m \in VM, vm[m] = "live" PROVE Below(disk, m)
    <3>1. m # None BY UpgradeAssumption DEF VM
    <3>2. CASE Pending
      BY <1>1, <2>3, <3>1, <3>2, Zenon DEF UpInv, StateInv, LiveOnes, Numbers, Data, Pending
    <3>3. CASE ~Pending
      BY <1>1, <2>3, <3>1, <3>3, Zenon DEF UpInv, StateInv, StateType, LiveOnes, Numbers, Data, Pending
    <3> QED BY <3>2, <3>3, Zenon
  <2>4. NoNewerData
    BY <2>3, Zenon DEF NoNewerData, Below
  <2> QED BY <2>1, <2>2, <2>4, Zenon DEF DataIsSafe
<1> QED BY <1>1, UpgradeInvariant, PTL

\* The data image is replaced only while no VM runs on it.
THEOREM RestoreIsAlone == Spec => RestoresAlone
<1>1. ASSUME UpInv, At("restore") PROVE \A m \in VM : vm[m] # "live"
  <2>1. rec.up # None /\ d.op = rec.up.op /\ vm[d.op] # "live"
    BY <1>1, Zenon DEF UpInv, Places, At, RecoverPCs
  <2>2. \A m \in VM : vm[m] = "live" => m = rec.up.op
    BY <1>1, <2>1, UpgradeAssumption, SMTT(30)
    DEF UpInv, StateInv, StateType, LiveOnes, Numbers, Pending, VM
  <2> QED BY <2>1, <2>2, Zenon
<1>2. UpInv => [At("restore") /\ d'.pc = "saveRestored" => \A m \in VM : vm[m] # "live"]_vars
  BY <1>1, Zenon
<1> QED BY <1>2, UpgradeInvariant, PTL DEF RestoresAlone

\* A failed update only ever rolls back an upgrade whose VM never was Ready.
THEOREM UpdateOnlyUndoesItsOwn == Spec => UpdateUndoesItsOwn
<1> DEFINE A == d.pc \in {"savePending", "copy", "saveBackup", "create", "saveCandidate",
                          "validate", "stopCandidate", "commit"} /\ d'.pc = "candidate"
                  => rec.up.op \notin proven
<1>1. ASSUME UpInv, [Next]_vars PROVE [A]_vars
  <2>1. SUFFICES ASSUME Next, d.pc \in UpdatePCs \cup {"savePending"}, d'.pc = "candidate"
                 PROVE  rec.up.op \notin proven
    BY <1>1, Zenon DEF UpdatePCs
  <2>2. CASE d.pc \in UpdatePCs
    BY <1>1, <2>2, Zenon DEF UpInv, StateInv, Places, Unproven
  <2>3. CASE d.pc = "savePending"
    <3>1. rec.up = None
      BY <1>1, <2>3, Zenon DEF UpInv, Places
    <3>2. DaemonType
      BY <1>1, Zenon DEF UpInv
    <3>3. SavePending \/ ReplaceFails \/ DaemonStops \/ \E m \in VM : VmExits(m) \/ UserWrite(m)
      BY <2>1, <2>3, Zenon
      DEF Next, Starting, Finalizing, Replacing, Recovering, DaemonStart, Attempt,
          EnsureMachine, SaveMachine, BootMachine, Ready, DropPrevious, DropBackup, SaveFinal,
          CopyDisk, SaveBackup, CreateCandidate, SaveCandidate, ValidateCandidate,
          StopCandidate, Commit, RecoverCandidate, RecoverPrevious, Restore, SaveRestored,
          DropCandidate, DropRestored, UpdateFound, QualifyFails, StopActive, AttemptFails,
          FinalizeFails, RecoverFails, StopInstallation, At
    <3>4. d'.pc # "candidate"
      BY <2>3, <3>1, <3>2, <3>3, Zenon
      DEF SavePending, ReplaceFails, DaemonStops, VmExits, UserWrite, Goto, DaemonType
    <3> QED BY <2>1, <3>4, Zenon
  <2> QED BY <2>1, <2>2, <2>3, Zenon
<1>2. UpdateUndoesItsOwn <=> [][A]_vars
  BY Zenon DEF UpdateUndoesItsOwn
<1> HIDE DEF A
<1> QED BY <1>1, <1>2, UpgradeInvariant, PTL DEF Spec
=============================================================================
