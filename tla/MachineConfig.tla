---------------------------- MODULE MachineConfig ----------------------------
(***************************************************************************)
(* How a machine's configuration is made, changed, launched and shown:     *)
(* libvm machine/builder.rs (create), machine/config.rs (update,           *)
(* replace_config, set_network), runtime/core.rs (validation, launch       *)
(* inputs, inspect), machine/root_disk.rs, for callers in the process of   *)
(* the library and for callers of the daemon, whose requests and answers   *)
(* cross the control wire (ControlWire).                                   *)
(*                                                                         *)
(* The configuration is kept twice, as a row of the database and as a spec *)
(* file in the machine's directory; its disk has a third life of its own.  *)
(* MachineLocks models the locks themselves: here a lock is its holder.    *)
(***************************************************************************)
EXTENDS ControlWire, VmSpecs

CONSTANTS
    Machines,           \* the machine ids
    NoHolder,           \* nobody
    IMAGE,              \* the size of the image a machine is created from
    ConfigScopes        \* [ops, db, faults]: the operations, one a caller

VARIABLES
    cfgScope,           \* the element of ConfigScopes under way
    db,                 \* machine |-> {} or {its row}
    specFile,           \* machine |-> {} or {the spec in its directory}
    raw,                \* machine |-> the size of its root disk
    tailscaleDir,       \* the machines with a tailscale state directory
    running,            \* machine |-> {} or {the spec its VM was launched with}
    mlock, nlock,       \* holders of the machine locks and of the name lock
    caller,             \* caller |-> [pc, req, cfg, base, undo]
    told,               \* caller |-> {} or {its answer}
    networks            \* the defined named networks

configVars == <<cfgScope, db, specFile, raw, tailscaleDir, running, mlock, nlock, caller, told, networks>>

ConfigCallers == DOMAIN cfgScope.ops
Of(p) == cfgScope.ops[p].machine
Kind(p) == cfgScope.ops[p].kind
Row(m) == CHOOSE c \in db[m] : TRUE
One(s) == CHOOSE x \in s : TRUE
Else(s, default) == IF s = {} THEN default ELSE One(s)

NoNetwork == [kind |-> "None", name |-> "", policy |-> {}, publish |-> {}]
Private(policy, publish) == [kind |-> "Private", name |-> "", policy |-> policy, publish |-> publish]
Named(n) == [kind |-> "Named", name |-> n, policy |-> {}, publish |-> {}]
NoUpdate == [name |-> {}, labels |-> {}, cpus |-> {}, memory |-> {}, disk |-> {}, vsock |-> {},
             forwards |-> {}, network |-> {}, policy |-> {}, publish |-> {}, agent |-> {}, user |-> {}]

ConfigInit ==
    /\ cfgScope \in ConfigScopes
    /\ db = cfgScope.db
    /\ specFile = [m \in Machines |-> {c.spec : c \in db[m]}]
    /\ raw = [m \in Machines |-> IF db[m] = {} THEN 0 ELSE IMAGE]
    /\ tailscaleDir = {} /\ running = [m \in Machines |-> {}]
    /\ mlock = [m \in Machines |-> NoHolder] /\ nlock = NoHolder
    /\ caller = [p \in ConfigCallers |-> [pc |-> "ask", req |-> {}, cfg |-> {}, base |-> {}, undo |-> {}]]
    /\ told = [p \in ConfigCallers |-> {}]
    /\ networks = {"n1"}

-----------------------------------------------------------------------------
At_(p, where) == caller[p].pc = where
GoTo(p, where) == caller' = [caller EXCEPT ![p].pc = where]

\* An answer drops the guards, and with them the locks.
Answer(p, answer) ==
    /\ caller' = [caller EXCEPT ![p].pc = "done"]
    /\ told' = [told EXCEPT ![p] = {answer}]
    /\ mlock' = [m \in Machines |-> IF mlock[m] = p THEN NoHolder ELSE mlock[m]]
    /\ nlock' = IF nlock = p THEN NoHolder ELSE nlock

\* An error, as the library returns it or as the daemon's client rebuilds it.
Refuse(p, variant) ==
    Answer(p, [ok |-> FALSE,
               error |-> IF cfgScope.ops[p].via = "daemon" THEN ErrorSeen(NativeError(variant)).variant ELSE variant])

-----------------------------------------------------------------------------
(* Validation *)

\* core.rs validate_tailscale_vsock: whether a tailscale node is declared, {} if that is refused.
DeclaresTailscale(network) == network.kind = "Private" /\ "ts" \in network.policy
validate_tailscale_vsock(network, spec) == DeclaresTailscale(network) => effective_vsock_enabled(spec.vsock)

validate_machine_network_config(network) ==
    CASE network.kind = "Private" -> "bad" \notin network.policy
      [] network.kind = "Named"   -> network.name \in networks
      [] OTHER                    -> TRUE

\* machine/reference.rs validate_new_machine_name
DnsLabels == {"a", "b", "c"}

\* The mebibytes of a request, as many as the spec has room for (machine/memory.rs).
MemoryFits(memory) == \A m \in memory : m # 0 /\ CeilMib(m) <= U32MAX

\* builder.rs create_machine_config_with_name, before the image is materialized.
CreateProblem(c) ==
    CASE c.disk = {0} -> "InvalidCreateRequest"
      [] c.name \notin DnsLabels -> "InvalidMachineName"
      [] c.cpus = {0} \/ ~MemoryFits(c.memory) -> "InvalidCreateRequest"
      [] ~SpecValid([vsock |-> c.vsock, mounts |-> <<>>, forwards |-> c.forwards]) -> "InvalidMachineConfig"
      [] ~validate_machine_network_config(Else(c.network, Private({}, {}))) -> "NetworkRuntime"
      [] ~validate_tailscale_vsock(Else(c.network, Private({}, {})), [vsock |-> c.vsock]) -> "NetworkRuntime"
      [] OTHER -> ""

\* config.rs update, before the locks.
UpdateProblem(u) ==
    CASE \E n \in u.network : ~validate_machine_network_config(n) -> "NetworkRuntime"
      [] u.network # {} /\ (u.policy # {} \/ u.publish # {}) -> "InvalidMachineUpdate"
      [] u = NoUpdate \/ u.cpus = {0} \/ ~MemoryFits(u.memory) \/ u.disk = {0} -> "InvalidMachineUpdate"
      [] OTHER -> ""

Problem(p, req) ==
    CASE Kind(p) = "create" -> CreateProblem(req)
      [] Kind(p) = "update" -> UpdateProblem(req)
      [] Kind(p) = "network" -> IF validate_machine_network_config(req) THEN "" ELSE "NetworkRuntime"
      [] OTHER -> ""

-----------------------------------------------------------------------------
(* The request *)

\* A caller of the daemon encodes the request (management.rs), the daemon decodes it
\* (control/machine.rs, control/network.rs); a caller of the library passes it on.
CreateReceived(req) == create_from_wire(create_to_wire(req))
UpdateReceived(req) == update_from_wire(update_to_wire(req))
NetworkReceived(req) == network_from_wire(network_to_wire(req))
Received(p) ==
    LET req == cfgScope.ops[p].req
    IN CASE cfgScope.ops[p].via = "local" -> {req}
         [] Kind(p) = "create" -> CreateReceived(req)
         [] Kind(p) = "update" -> UpdateReceived(req)
         [] Kind(p) = "network" -> NetworkReceived(req)
         [] OTHER -> {req}

Ask_(p) ==
    /\ At_(p, "ask")
    /\ IF Received(p) = {}
       THEN Answer(p, [ok |-> FALSE, error |-> "Rpc"])
       ELSE /\ caller' = [caller EXCEPT ![p].pc = "check", ![p].req = Received(p)]
            /\ UNCHANGED <<told, mlock, nlock>>
    /\ UNCHANGED <<cfgScope, db, specFile, raw, tailscaleDir, running, networks>>

\* The checks that need no lock: a named network may be gone when the row is saved.
Check(p) ==
    /\ At_(p, "check")
    /\ LET req == One(caller[p].req)
           problem == Problem(p, req)
       IN IF problem # "" THEN Refuse(p, problem)
          ELSE /\ GoTo(p, CASE Kind(p) = "list" -> "inventory"
                            [] Kind(p) = "create" \/ (Kind(p) = "update" /\ req.name # {}) -> "names"
                            [] OTHER -> "lock")
               /\ UNCHANGED <<told, mlock, nlock>>
    /\ UNCHANGED <<cfgScope, db, specFile, raw, tailscaleDir, running, networks>>

\* core.rs lock_machine_names: a file lock, waited for.
LockNames(p) ==
    /\ At_(p, "names") /\ nlock = NoHolder
    /\ nlock' = p
    /\ GoTo(p, IF Kind(p) = "create" THEN "guard" ELSE "lock")
    /\ UNCHANGED <<cfgScope, db, specFile, raw, tailscaleDir, running, mlock, told, networks>>


\* core.rs lock_machine_config: the row is read again under the lock.
LockMachine(p) ==
    /\ At_(p, "lock") /\ mlock[Of(p)] = NoHolder
    /\ IF db[Of(p)] = {} THEN Refuse(p, "MachineNotFound")
       ELSE /\ mlock' = [mlock EXCEPT ![Of(p)] = p]
            /\ caller' = [caller EXCEPT ![p].pc = IF Kind(p) = "start" THEN "launch" ELSE "apply",
                                        ![p].cfg = db[Of(p)], ![p].base = db[Of(p)]]
            /\ UNCHANGED <<told, nlock>>
    /\ UNCHANGED <<cfgScope, db, specFile, raw, tailscaleDir, running, networks>>

-----------------------------------------------------------------------------
(* Changing a configuration *)

NamesOfOthers(m) == {c.name : c \in UNION {db[o] : o \in Machines \ {m}}}

\* config.rs apply_network_policy_update and apply_guest_publish_update
NetworkAfter(network, u) ==
    LET new == Else(u.network, network)
        policy == IF u.policy = {} THEN new.policy ELSE IF One(u.policy).to = "Clear" THEN {} ELSE {One(u.policy).with}
        publish == IF u.publish = {} THEN new.publish ELSE IF One(u.publish).to = "Clear" THEN {} ELSE {One(u.publish).with}
    IN [new EXCEPT !.policy = policy, !.publish = publish]

SpecAfter(spec, u) ==
    [cpus |-> IF u.cpus = {} THEN spec.cpus ELSE u.cpus,
     memory |-> IF u.memory = {} THEN spec.memory ELSE {CeilMib(m) : m \in u.memory},
     forwards |-> Else(u.forwards, spec.forwards), mounts |-> spec.mounts,
     vsock |-> IF u.vsock = {} THEN spec.vsock ELSE u.vsock]

SpecChanges(u) == u.cpus # {} \/ u.memory # {} \/ u.forwards # {} \/ u.vsock # {}

\* config.rs update, from the machine's row to the new one.
Updated(c, u) ==
    [c EXCEPT !.name = Else(u.name, @), !.labels = IF u.labels = {} THEN @ ELSE u.labels,
              !.disk = Else(u.disk, @), !.spec = SpecAfter(@, u), !.network = NetworkAfter(@, u),
              !.agent = Else(u.agent, @),
              !.user = IF u.user = {} THEN @ ELSE IF One(u.user).to = "Clear" THEN {} ELSE {One(u.user).with}]

\* config.rs update, the checks of the new row: growth is measured against the disk as it
\* is, not against the size the row already asks for.
UpdatedProblem(p, c, u) ==
    LET new == Updated(c, u)
        renames == u.name # {} /\ u.name # {c.name}
    IN CASE running[Of(p)] # {} -> "MachineAlreadyRunning"
         [] renames /\ u.name \ DnsLabels # {} -> "InvalidMachineName"
         [] renames /\ ~validate_tailscale_vsock(c.network, c.spec) -> "NetworkRuntime"
         [] renames /\ DeclaresTailscale(c.network) -> "InvalidMachineUpdate"
         [] renames /\ u.name \cap NamesOfOthers(Of(p)) # {} -> "InvalidMachineUpdate"
         [] \E s \in u.disk : s < raw[Of(p)] -> "InvalidMachineUpdate"
         [] (u.policy # {} \/ u.publish # {}) /\ Else(u.network, c.network).kind # "Private" -> "InvalidMachineUpdate"
         [] u.policy # {} /\ ~validate_machine_network_config(new.network) -> "NetworkRuntime"
         [] ~validate_tailscale_vsock(new.network, new.spec) -> "NetworkRuntime"
         [] SpecChanges(u) /\ ~SpecValid(new.spec) -> "InvalidMachineConfig"
         [] OTHER -> ""

\* config.rs replace_config and set_network
ReplacedProblem(p, c, new) ==
    CASE running[Of(p)] # {} -> "MachineAlreadyRunning"
      [] Kind(p) = "replace" /\ ~SpecValid(new.spec) -> "InvalidMachineConfig"
      [] ~validate_tailscale_vsock(new.network, new.spec) -> "NetworkRuntime"
      [] OTHER -> ""

New(p) ==
    LET c == One(caller[p].cfg)
        req == One(caller[p].req)
    IN CASE Kind(p) = "update" -> Updated(c, req)
         [] Kind(p) = "replace" -> [c EXCEPT !.spec = req]
         [] OTHER -> [c EXCEPT !.network = req]

Apply_(p) ==
    /\ At_(p, "apply")
    /\ LET c == One(caller[p].cfg)
           req == One(caller[p].req)
           problem == IF Kind(p) = "update" THEN UpdatedProblem(p, c, req) ELSE ReplacedProblem(p, c, New(p))
           file == Kind(p) = "replace" \/ (Kind(p) = "update" /\ SpecChanges(req))
       IN /\ IF problem # "" THEN Refuse(p, problem)
             ELSE /\ caller' = [caller EXCEPT ![p].pc = IF file THEN "file" ELSE "save", ![p].cfg = {New(p)},
                                              ![p].undo = IF file THEN {c.spec} ELSE {}]
                  /\ UNCHANGED <<told, mlock, nlock>>
          /\ tailscaleDir' = IF /\ Kind(p) # "replace" /\ DeclaresTailscale(New(p).network)
                                /\ problem \in {"", "InvalidMachineConfig"}
                             THEN tailscaleDir \cup {Of(p)} ELSE tailscaleDir
    /\ UNCHANGED <<cfgScope, db, specFile, raw, running, networks>>

\* write_machine_config; a failure returns at once and leaves what was written.
WriteSpec(p) ==
    /\ At_(p, "file")
    /\ \/ /\ specFile' = [specFile EXCEPT ![Of(p)] = {One(caller[p].cfg).spec}]
          /\ GoTo(p, "save") /\ UNCHANGED <<told, mlock, nlock>>
       \/ /\ "write" \in cfgScope.faults
          /\ \E left \in {{}, specFile[Of(p)]} : specFile' = [specFile EXCEPT ![Of(p)] = left]
          /\ Refuse(p, "Io")
    /\ UNCHANGED <<cfgScope, db, raw, tailscaleDir, running, networks>>

\* save_machine_config; the name is unique in the table.  A failure restores the spec file.
Save(p) ==
    /\ At_(p, "save")
    /\ LET c == One(caller[p].cfg)
       IN \/ /\ c.name \notin NamesOfOthers(Of(p))
             /\ db' = [db EXCEPT ![Of(p)] = {c}]
             /\ GoTo(p, "show") /\ UNCHANGED <<specFile, told, mlock, nlock>>
          \/ /\ c.name \in NamesOfOthers(Of(p)) \/ "save" \in cfgScope.faults
             /\ \/ specFile' = IF caller[p].undo = {} THEN specFile
                               ELSE [specFile EXCEPT ![Of(p)] = caller[p].undo]
                \/ "write" \in cfgScope.faults /\ UNCHANGED specFile
             /\ Refuse(p, "Database") /\ UNCHANGED db
    /\ UNCHANGED <<cfgScope, raw, tailscaleDir, running, networks>>

-----------------------------------------------------------------------------
(* Creating a machine *)

\* builder.rs: defaults, rounded memory, the row of the new machine.
Created(c) ==
    [name |-> c.name, labels |-> c.labels, disk |-> Else(c.disk, IMAGE),
     spec |-> [cpus |-> IF c.cpus = {} THEN {1} ELSE c.cpus,
               memory |-> IF c.memory = {} THEN {1} ELSE {CeilMib(m) : m \in c.memory},
               forwards |-> c.forwards, mounts |-> <<>>, vsock |-> c.vsock],
     network |-> Else(c.network, Private({}, {})), agent |-> c.agent, user |-> c.user]

\* create_machine_guard, then the root disk: copied, and grown to the size asked for
\* (resize_raw_disk refuses to shrink it).  The name lock is held.
Guard_(p) ==
    /\ At_(p, "guard")
    /\ LET c == Created(One(caller[p].req))
       IN CASE c.name \in NamesOfOthers(Of(p)) ->
                 Refuse(p, "MachineAlreadyExists") /\ UNCHANGED <<specFile, raw, tailscaleDir>>
            [] c.name \notin NamesOfOthers(Of(p)) /\ c.disk < IMAGE ->
                 Refuse(p, "RootDisk") /\ UNCHANGED <<specFile, raw, tailscaleDir>>
            [] OTHER ->
                 /\ caller' = [caller EXCEPT ![p].pc = "commit", ![p].cfg = {c}]
                 /\ specFile' = [specFile EXCEPT ![Of(p)] = {c.spec}]
                 /\ raw' = [raw EXCEPT ![Of(p)] = c.disk]
                 /\ tailscaleDir' = IF DeclaresTailscale(c.network) THEN tailscaleDir \cup {Of(p)} ELSE tailscaleDir
                 /\ UNCHANGED <<told, mlock, nlock>>
    /\ UNCHANGED <<cfgScope, db, running, networks>>

\* MachineCreateGuard::commit, or its Drop, which removes the directory.
CommitCreate(p) ==
    /\ At_(p, "commit")
    /\ \/ /\ db' = [db EXCEPT ![Of(p)] = caller[p].cfg]
          /\ GoTo(p, "show") /\ UNCHANGED <<specFile, raw, tailscaleDir, told, mlock, nlock>>
       \/ /\ "save" \in cfgScope.faults
          /\ specFile' = [specFile EXCEPT ![Of(p)] = {}] /\ raw' = [raw EXCEPT ![Of(p)] = 0]
          /\ tailscaleDir' = tailscaleDir \ {Of(p)}
          /\ Refuse(p, "Database") /\ UNCHANGED db
    /\ UNCHANGED <<cfgScope, running, networks>>

-----------------------------------------------------------------------------
(* Launching and showing *)

\* lifecycle.rs start: the disk grows to the size of the row (reconcile_root_disk_size), the
\* launch spec is made from the row and overwrites the spec file (prepare_vmm_launch_inputs).
Launch(p) ==
    /\ At_(p, "launch")
    /\ LET c == One(caller[p].cfg)
       IN CASE running[Of(p)] # {} -> Refuse(p, "MachineAlreadyRunning") /\ UNCHANGED <<raw, specFile, running>>
            [] running[Of(p)] = {} /\ c.disk < raw[Of(p)] ->
                 Refuse(p, "RootDisk") /\ UNCHANGED <<raw, specFile, running>>
            [] OTHER -> /\ raw' = [raw EXCEPT ![Of(p)] = c.disk]
                        /\ specFile' = [specFile EXCEPT ![Of(p)] = {c.spec}]
                        /\ running' = [running EXCEPT ![Of(p)] = {c.spec}]
                        /\ GoTo(p, "show") /\ UNCHANGED <<told, mlock, nlock>>
    /\ UNCHANGED <<cfgScope, db, tailscaleDir, networks>>

\* core.rs machine_inspect_data, over the caller's copy of the row, and the snapshot's way
\* back to a caller of the daemon.
machine_inspect_data(m, c) ==
    [id |-> m, name |-> c.name, labels |-> c.labels, disk |-> c.disk, spec |-> c.spec,
     network |-> c.network, agent |-> c.agent, user |-> c.user, modified |-> 1,
     status |-> IF running[m] # {} THEN "Running" ELSE "Stopped",
     observation |-> "Observed", issues |-> {}]

Show(p) ==
    /\ At_(p, "show")
    /\ LET data == machine_inspect_data(Of(p), One(caller[p].cfg))
           seen == IF cfgScope.ops[p].via = "local" THEN {data} ELSE snapshot_from_wire(snapshot_to_wire(data))
       IN Answer(p, IF seen = {} THEN [ok |-> FALSE, error |-> "InvalidResponse"]
                    ELSE [ok |-> TRUE, data |-> One(seen)])
    /\ UNCHANGED <<cfgScope, db, specFile, raw, tailscaleDir, running, networks>>

\* core.rs inventory: the rows are read at once, each is then observed by itself, and an
\* entry whose configuration cannot be read keeps its identity.
ReadInventory(p) ==
    /\ At_(p, "inventory")
    /\ \E corrupt \in IF "corrupt" \in cfgScope.faults THEN SUBSET Machines ELSE {{}} :
          caller' = [caller EXCEPT ![p].pc = "observe",
                        ![p].base = {[id |-> m, name |-> Row(m).name, config |-> IF m \in corrupt THEN {} ELSE db[m]]
                                       : m \in {x \in Machines : db[x] # {}}}]
    /\ UNCHANGED <<cfgScope, db, specFile, raw, tailscaleDir, running, mlock, nlock, told, networks>>

observe_inventory_record(r) ==
    [id |-> r.id, name |-> r.name, issues |-> IF r.config = {} THEN {"Configuration"} ELSE {},
     data |-> {machine_inspect_data(r.id, c) : c \in r.config}]

Observe(p) ==
    /\ At_(p, "observe")
    /\ LET entries == {observe_inventory_record(r) : r \in caller[p].base}
           seen == IF cfgScope.ops[p].via = "local" THEN {{e} : e \in entries}
                   ELSE {inventory_from_wire(inventory_to_wire(e)) : e \in entries}
       IN Answer(p, IF {} \in seen THEN [ok |-> FALSE, error |-> "InvalidResponse"]
                    ELSE [ok |-> TRUE, data |-> UNION seen])
    /\ UNCHANGED <<cfgScope, db, specFile, raw, tailscaleDir, running, networks>>

\* The VM of a machine ends; a network definition is removed, whoever uses it.
RunEnds(m) ==
    /\ running[m] # {}
    /\ running' = [running EXCEPT ![m] = {}]
    /\ UNCHANGED <<cfgScope, db, specFile, raw, tailscaleDir, mlock, nlock, caller, told, networks>>

remove_network_definition(n) ==
    /\ n \in networks /\ "networks" \in cfgScope.faults
    /\ networks' = networks \ {n}
    /\ UNCHANGED <<cfgScope, db, specFile, raw, tailscaleDir, running, mlock, nlock, caller, told>>

\* The process of a caller dies: its locks are file locks, its files stay.
Dies(p) ==
    /\ "crash" \in cfgScope.faults /\ caller[p].pc \notin {"done", "dead"}
    /\ caller' = [caller EXCEPT ![p].pc = "dead"]
    /\ mlock' = [m \in Machines |-> IF mlock[m] = p THEN NoHolder ELSE mlock[m]]
    /\ nlock' = IF nlock = p THEN NoHolder ELSE nlock
    /\ UNCHANGED <<cfgScope, db, specFile, raw, tailscaleDir, running, told, networks>>

CallerStep(p) ==
    \/ Ask_(p) \/ Check(p) \/ LockNames(p) \/ LockMachine(p) \/ Apply_(p) \/ WriteSpec(p) \/ Save(p)
    \/ Guard_(p) \/ CommitCreate(p) \/ Launch(p) \/ Show(p) \/ ReadInventory(p) \/ Observe(p)

ConfigNext ==
    \/ \E p \in ConfigCallers : CallerStep(p) \/ Dies(p)
    \/ \E m \in Machines : RunEnds(m)
    \/ \E n \in networks : remove_network_definition(n)

ConfigSpec == ConfigInit /\ [][ConfigNext]_configVars

-----------------------------------------------------------------------------
(* Properties *)

\* The rows, the files, the disks and the VMs agree: names are unique, a VM runs what its
\* row says as long as it runs, a declared tailscale node has its vsock and its directory,
\* every stored spec is valid however it was put together (a forward never takes the name
\* of the vsock socket that a later update enables), and a disk is never larger than its row asks for, so that no start is refused for it.
StoresAgree ==
    /\ \A m, o \in Machines : m # o => {c.name : c \in db[m]} \cap {c.name : c \in db[o]} = {}
    /\ \A m \in Machines : running[m] # {} => running[m] = {Row(m).spec}
    /\ \A m \in Machines : db[m] # {} => /\ raw[m] \in IMAGE..Row(m).disk /\ SpecValid(Row(m).spec)
                                         /\ validate_tailscale_vsock(Row(m).network, Row(m).spec)
                                         /\ DeclaresTailscale(Row(m).network) => m \in tailscaleDir
    /\ ({"write", "crash"} \cap cfgScope.faults = {} /\ \A p \in ConfigCallers : caller[p].pc = "done")
          => \A m \in Machines : specFile[m] = {c.spec : c \in db[m]}

\* No update is lost: whoever is about to save a row still holds the row that is in the
\* table, so the fields it was not asked to change keep what others put there.
NothingIsLost ==
    \A p \in ConfigCallers : caller[p].pc \in {"file", "save"} => caller[p].base = db[Of(p)]

\* An answer shows what was asked for, memory rounded up to whole mebibytes, to callers of
\* the daemon and of the library alike; a list has every machine of one moment, the broken
\* ones included, and no name twice; a snapshot the daemon sends is one its client takes.
Asked(p, d) ==
    LET req == cfgScope.ops[p].req
    IN CASE Kind(p) = "update" ->
              /\ \A n \in req.name : d.name = n
              /\ \A k \in req.cpus : d.spec.cpus = {k}
              /\ \A b \in req.memory : \A mib \in d.spec.memory : mib * MIB >= b /\ (mib - 1) * MIB < b
              /\ \A s \in req.disk : d.disk = s
              /\ \A n \in req.network : d.network = n
              /\ \A a \in req.agent : d.agent = a
         [] Kind(p) = "create" ->
              /\ d.name = req.name /\ d.agent = req.agent /\ d.user = req.user
              /\ \A b \in req.memory : \A mib \in d.spec.memory : mib * MIB >= b /\ (mib - 1) * MIB < b
              /\ \A n \in req.network : d.network = n
         [] Kind(p) = "network" -> d.network = req
         [] Kind(p) = "replace" -> d.spec = req
         [] Kind(p) = "list" -> /\ {e.id : e \in d} = {r.id : r \in caller[p].base}
                                /\ \A e, o \in d : e # o => e.name # o.name
         [] OTHER -> d.id = Of(p)
AnswersAsAsked ==
    \A p \in ConfigCallers : \A a \in told[p] : IF a.ok THEN Asked(p, a.data) ELSE a.error # "InvalidResponse"

\* Every enumeration returns from the wire as it went out, no two names share a number, and
\* no error of one kind is rebuilt as another one.
WireIsFaithful ==
    /\ \A e \in EnumPairs : \A v \in DOMAIN e[1] : e[1][v] \in DOMAIN e[2] /\ e[2][e[1][v]] = v
    /\ \A e \in EnumPairs : \A n \in DOMAIN e[2] : e[2][n] \in DOMAIN e[1]
    /\ \A t \in -LASTSECOND..LASTSECOND :
          timestamp_seconds(seconds_to_wire(t)) = {t} /\ millis_from_wire(timestamp_millis(t)) = {t}
    /\ \A v \in Carrying \cup {"MachineAlreadyRunning", "MachineNotRunning", "MachineStaleGeneration",
                               "MonitorConnection", "InvalidMachineUpdate", "NetworkRuntime", "Io"} :
          \A r \in DOMAIN launch_reason_to_wire : \A now \in {{}, {"r2"}} :
             LET e == [variant |-> v, reference |-> "m", requested |-> "r1", current |-> now, reason |-> r]
                 back == status_to_native_error(native_error_to_status(e))
             IN /\ \A b \in back : b.variant = v /\ b.reference = "m"
                /\ v = "MachineStaleGeneration" => \A b \in back : b.requested = "r1" /\ b.current = now
                /\ v \in Carrying \cup {"MachineAlreadyRunning", "MachineNotRunning",
                                        "MachineStaleGeneration", "MonitorConnection"} => back # {}
    /\ \A r \in DOMAIN launch_reason_to_wire :
          LET e == [NativeError("EntrypointLaunchFailed") EXCEPT !.reason = r]
          IN status_to_native_error(native_error_to_status(e)) = {e}

\* The mounts of a spec reach the backend under distinct short tags, and a tag that fits is
\* the one the guest was promised, wherever the generated ones fall.
TagsToMount == {[text |-> "a", n |-> 0, long |-> FALSE, absolute |-> TRUE], Generated(0), Generated(1),
                [text |-> "l", n |-> 1, long |-> TRUE, absolute |-> TRUE],
                [text |-> "l", n |-> 2, long |-> TRUE, absolute |-> FALSE]}
MountsAreDistinct ==
    \A n \in 0..4 : \A tags \in {t \in [1..n -> TagsToMount] : IsInjective(t)} :
        LET mounts == [i \in 1..n |-> [source |-> "s", tag |-> tags[i]]]
            out == project_mounts(mounts)
        IN /\ MountsValid(mounts) /\ Len(out) = n
           /\ \A i, j \in 1..n : i # j => out[i].backend # out[j].backend
           /\ \A i \in 1..n : ~out[i].backend.long /\ (~tags[i].long => out[i].backend = tags[i])

=============================================================================
