------------------------------- MODULE Reports -------------------------------
(***************************************************************************)
(* The path of one report from the guest to the caller of the control API. *)
(* The agent builds a status or a metrics report (guest/agent: rpc.rs,     *)
(* handoff.rs, provision/mod.rs, metrics.rs), the monitor validates it     *)
(* before it stores it (virt/vmm/src/state.rs), the library decodes what   *)
(* the monitor answers (libvm machine/streams.rs), and the daemon and its  *)
(* client carry it over the control wire (vm-control readiness.rs).  Each  *)
(* hop has its own rules, written apart; this module asks whether they fit.*)
(*                                                                         *)
(* A report is a function from field names to values.  A text is its       *)
(* length, in units in which the protocol's limits keep their order, and   *)
(* whether it holds a NUL byte.  A second has NANOS parts.                 *)
(***************************************************************************)
EXTENDS Integers, Sequences, FiniteSets, TLC

CONSTANTS
    NANOS,              \* the parts of a second
    SECONDS,            \* the largest second of a protocol timestamp
    ReportScopes        \* the reports the agent may build, as [kind, field, value]

VARIABLES
    variant,            \* the element of ReportScopes under way
    hopName,            \* the hop the report has reached
    built,              \* the agent's report
    native,             \* what the library decoded
    carried             \* the report on the control wire, then the client's

reportVars == <<variant, hopName, built, native, carried>>

-----------------------------------------------------------------------------
(* Values *)

Missing == [is |-> "missing"]
Text(n) == [is |-> "text", len |-> n, nul |-> FALSE]
NulText(n) == [is |-> "text", len |-> n, nul |-> TRUE]
Number(n) == [is |-> "number", n |-> n]
Time(s, n) == [is |-> "time", s |-> s, n |-> n]
Words(ws) == [is |-> "list", ws |-> ws]
Present == [is |-> "present"]

\* The protocol's limits; PATH and DIAGNOSTIC differ by one byte.
MAX_CODE_BYTES == 1
MAX_INFO_BYTES == 2
MAX_PATH_BYTES == 3
MAX_DIAGNOSTIC_BYTES == 4
MAX_ENTRIES == 2

SystemTexts == {"system.kernel_version", "system.os_name", "system.os_version",
                "system.architecture", "system.hostname"}
BootTexts == {"boot.requested_init", "boot.handoff_init_path", "boot.agent_path", "boot.message"}
StepTexts == {"step.backend", "step.message", "step.error_chain"}
Times == {"observed_at", "provisioning.started_at", "provisioning.finished_at"}

-----------------------------------------------------------------------------
(* The agent *)

\* rpc.rs bounded_text: 512 bytes, above the limit of a code and below the
\* limit of a diagnostic; the codes themselves are constants.
bounded_text(v) == [v EXCEPT !.len = IF v.len > MAX_INFO_BYTES THEN MAX_INFO_BYTES ELSE v.len]

\* rpc.rs status: code and message by state, empty ones replaced.
Detail(state, message) ==
    CASE state = 2 -> <<Missing, Missing>>
      [] state = 1 -> IF message.len = 0 THEN <<Missing, Missing>>
                      ELSE <<Text(1), bounded_text(message)>>
      [] OTHER     -> <<Text(1), IF message.len = 0 THEN Text(1) ELSE bounded_text(message)>>


\* provision/mod.rs timestamp_after: the start plus the monotonic time passed,
\* whatever the wall clock did meanwhile, capped at the last timestamp.
timestamp_after(t, d) ==
    LET n == t.n + d.n
        s == t.s + d.s + n \div NANOS
    IN IF s <= SECONDS THEN Time(s, n % NANOS) ELSE Time(SECONDS, NANOS - 1)

\* handoff.rs BootMode::report
BootFields(mode, init) ==
    ("boot" :> Present) @@ ("boot.mode" :> Number(mode))
    @@ ("boot.requested_init" :> IF mode = 1 THEN Missing ELSE init)
    @@ ("boot.handoff_init_path" :> IF mode = 3 THEN init ELSE Missing)
    @@ ("boot.probed_init_paths" :> Words(IF mode = 1 \/ init.len = 0 THEN <<>> ELSE <<init>>))
    @@ ("boot.agent_path" :> Text(1)) @@ ("boot.message" :> Text(1))
    @@ ("boot.agent_pid" :> Number(1)) @@ ("boot.agent_is_pid1" :> Number(1))

\* provision/mod.rs finish and StepRecord::into_report: nothing bounds the chain,
\* which holds the output of a failed command.
ProvisionFields(started, took, status, policy, chain) ==
    ("provisioning" :> Present)
    @@ ("provisioning.status" :> Number(IF status \in {1, 3} THEN 1 ELSE IF policy = 2 THEN 4 ELSE 2))
    @@ ("provisioning.started_at" :> started)
    @@ ("provisioning.finished_at" :> timestamp_after(started, took))
    @@ ("provisioning.duration" :> took) @@ ("provisioning.message" :> Text(1))
    @@ ("provisioning.steps" :> Words(<<Text(1)>>))
    @@ ("step.id" :> Text(1)) @@ ("step.status" :> Number(status))
    @@ ("step.failure_policy" :> Number(policy)) @@ ("step.changed" :> Number(0))
    @@ ("step.backend" :> Missing) @@ ("step.message" :> Text(1))
    @@ ("step.error_chain" :> IF status = 2 THEN chain ELSE Text(0)) @@ ("step.duration" :> took)

\* host/info.rs get_system_info
SystemFields(name, addresses) ==
    ("system" :> Present) @@ [f \in SystemTexts |-> IF f = "system.os_name" THEN name ELSE Text(1)]
    @@ ("system.ip_addresses" :> Words(addresses))

\* rpc.rs status and publish_with_ssh
StatusReport(v) ==
    ("observed_at" :> v.at) @@ ("state" :> Number(v.state))
    @@ ("code" :> Detail(v.state, v.message)[1]) @@ ("message" :> Detail(v.state, v.message)[2])
    @@ SystemFields(v.name, v.addresses) @@ BootFields(v.mode, v.init)
    @@ ProvisionFields(v.at, v.took, v.step, v.policy, v.chain)
    @@ ("ssh" :> IF v.state = 2 THEN Present ELSE Missing)
    @@ ("ssh.backend" :> Number(v.backend)) @@ ("ssh.port" :> Number(22))
    @@ ("ssh.config_verified" :> Number(1))

\* metrics.rs collect: filesystems, network_interfaces and block_devices are sorted,
\* one entry a name, at most MAX_ENTRIES; used is what is not free.
MetricsReport(v) ==
    LET names == [i \in 1..Cardinality(v.mounts) |->
                    CHOOSE m \in v.mounts : Cardinality({o \in v.mounts : o < m}) = i - 1]
        used == IF v.free > v.total THEN 0 ELSE v.total - v.free
    IN ("observed_at" :> v.at) @@ ("metrics.cpus" :> v.cpus)
       @@ ("metrics.filesystems" :>
             Words([i \in 1..(IF Len(names) < MAX_ENTRIES THEN Len(names) ELSE MAX_ENTRIES) |->
                      [name |-> names[i], mount |-> v.mount, total |-> v.total,
                       used |-> used, available |-> v.available]]))

-----------------------------------------------------------------------------
(* The monitor: virt/vmm/src/state.rs *)

text(v, maximum, nonempty) == v.is = "text" /\ (nonempty => v.len > 0) /\ v.len <= maximum
optional(v, maximum) == v = Missing \/ text(v, maximum, FALSE)
required(v, maximum) == text(v, maximum, TRUE)
required_enum(v, n) == v.is = "number" /\ v.n \in 1..n
validate_timestamp(v) == v.is = "time" /\ v.s \in -SECONDS..SECONDS /\ v.n \in 0..(NANOS - 1)
validate_duration(v) == v.is = "time" /\ v.s >= 0 /\ v.n \in 0..(NANOS - 1)
Instant(v) == v.s * NANOS + v.n

validate_detail(r) ==
    /\ optional(r["code"], MAX_CODE_BYTES) /\ optional(r["message"], MAX_DIAGNOSTIC_BYTES)
    /\ CASE r["state"].n = 1 -> \/ r["code"] = Missing /\ r["message"] = Missing
                                \/ required(r["code"], MAX_CODE_BYTES)
                                   /\ required(r["message"], MAX_DIAGNOSTIC_BYTES)
         [] r["state"].n = 2 -> r["code"] = Missing /\ r["message"] = Missing
         [] OTHER            -> required(r["code"], MAX_CODE_BYTES)
                                /\ required(r["message"], MAX_DIAGNOSTIC_BYTES)

validate_system(r) ==
    /\ \A f \in SystemTexts : optional(r[f], MAX_INFO_BYTES)
    /\ Len(r["system.ip_addresses"].ws) <= MAX_ENTRIES
    /\ \A i \in DOMAIN r["system.ip_addresses"].ws :
         text(r["system.ip_addresses"].ws[i], MAX_INFO_BYTES, TRUE)

validate_boot(r) ==
    /\ required_enum(r["boot.mode"], 3)
    /\ \A f \in BootTexts : optional(r[f], MAX_INFO_BYTES)
    /\ Len(r["boot.probed_init_paths"].ws) <= MAX_ENTRIES
    /\ \A i \in DOMAIN r["boot.probed_init_paths"].ws :
         text(r["boot.probed_init_paths"].ws[i], MAX_PATH_BYTES, TRUE)

validate_provisioning(r) ==
    /\ required_enum(r["provisioning.status"], 4)
    /\ validate_timestamp(r["provisioning.started_at"])
    /\ validate_timestamp(r["provisioning.finished_at"])
    /\ Instant(r["provisioning.finished_at"]) >= Instant(r["provisioning.started_at"])
    /\ validate_duration(r["provisioning.duration"])
    /\ optional(r["provisioning.message"], MAX_DIAGNOSTIC_BYTES)
    /\ Len(r["provisioning.steps"].ws) <= MAX_ENTRIES
    /\ required(r["step.id"], MAX_INFO_BYTES)
    /\ required_enum(r["step.status"], 4) /\ required_enum(r["step.failure_policy"], 2)
    /\ \A f \in StepTexts : optional(r[f], MAX_DIAGNOSTIC_BYTES)
    /\ validate_duration(r["step.duration"])

validate_status_report(r) ==
    /\ r["ssh"] = Present => required_enum(r["ssh.backend"], 3) /\ r["ssh.port"].n = 22
                             /\ r["ssh.config_verified"].n = 1
    /\ validate_timestamp(r["observed_at"])
    /\ required_enum(r["state"], 3)
    /\ validate_detail(r) /\ validate_system(r) /\ validate_boot(r) /\ validate_provisioning(r)

totals(m) == m.used + m.available <= m.total

validate_named_metrics(ms) ==
    /\ Len(ms) <= MAX_ENTRIES
    /\ \A i \in DOMAIN ms : text(ms[i].mount, MAX_INFO_BYTES, TRUE) /\ totals(ms[i])
    /\ \A i \in 2..Len(ms) : ms[i - 1].name < ms[i].name

validate_metrics(r) ==
    /\ validate_timestamp(r["observed_at"])
    /\ r["metrics.cpus"].is = "number" /\ r["metrics.cpus"].n > 0
    /\ validate_named_metrics(r["metrics.filesystems"].ws)

Validates(kind, r) == IF kind = "status" THEN validate_status_report(r) ELSE validate_metrics(r)

-----------------------------------------------------------------------------
(* The library: libvm machine/streams.rs.  It keeps every field, with times as
   instants. *)

required_text(v, maximum) == required(v, maximum) /\ ~v.nul
optional_text(v, maximum) == v = Missing \/ (text(v, maximum, FALSE) /\ ~v.nul)

\* timestamp: seconds and parts as an instant, before or after the epoch.
timestamp(v) ==
    IF v.s >= 0 THEN v.s * NANOS + v.n ELSE 0 - (0 - v.s) * NANOS + v.n

DecodesSystem(r) ==
    /\ Len(r["system.ip_addresses"].ws) <= MAX_ENTRIES
    /\ \A i \in DOMAIN r["system.ip_addresses"].ws :
         required_text(r["system.ip_addresses"].ws[i], MAX_INFO_BYTES)
    /\ \A f \in SystemTexts : optional_text(r[f], MAX_INFO_BYTES)

DecodesBoot(r) ==
    /\ required_enum(r["boot.mode"], 3)
    /\ \A f \in BootTexts \ {"boot.message"} : optional_text(r[f], MAX_PATH_BYTES)
    /\ Len(r["boot.probed_init_paths"].ws) <= MAX_ENTRIES
    /\ \A i \in DOMAIN r["boot.probed_init_paths"].ws :
         required_text(r["boot.probed_init_paths"].ws[i], MAX_PATH_BYTES)
    /\ r["boot.agent_pid"] # Missing /\ r["boot.agent_is_pid1"] # Missing
    /\ optional_text(r["boot.message"], MAX_DIAGNOSTIC_BYTES)

DecodesProvisioning(r) ==
    /\ Len(r["provisioning.steps"].ws) <= MAX_ENTRIES
    /\ validate_timestamp(r["provisioning.started_at"])
    /\ validate_timestamp(r["provisioning.finished_at"])
    /\ timestamp(r["provisioning.finished_at"]) >= timestamp(r["provisioning.started_at"])
    /\ validate_duration(r["provisioning.duration"]) /\ required_enum(r["provisioning.status"], 4)
    /\ optional_text(r["provisioning.message"], MAX_DIAGNOSTIC_BYTES)

DecodesStep(r) ==
    /\ required_text(r["step.id"], MAX_INFO_BYTES)
    /\ required_enum(r["step.status"], 4) /\ required_enum(r["step.failure_policy"], 2)
    /\ r["step.changed"] # Missing
    /\ \A f \in StepTexts : optional_text(r[f], MAX_DIAGNOSTIC_BYTES)
    /\ validate_duration(r["step.duration"])

DecodesStatus(r) ==
    /\ validate_timestamp(r["observed_at"]) /\ required_enum(r["state"], 3)
    /\ optional_text(r["code"], MAX_CODE_BYTES) /\ optional_text(r["message"], MAX_DIAGNOSTIC_BYTES)
    /\ DecodesSystem(r) /\ DecodesBoot(r) /\ DecodesProvisioning(r) /\ DecodesStep(r)
    /\ r["ssh"] = Present => required_enum(r["ssh.backend"], 3) /\ r["ssh.port"].n = 22
                             /\ r["ssh.config_verified"].n = 1

DecodesMetrics(r) ==
    /\ validate_timestamp(r["observed_at"])
    /\ r["metrics.cpus"].is = "number" /\ r["metrics.cpus"].n > 0
    /\ Len(r["metrics.filesystems"].ws) <= MAX_ENTRIES
    /\ \A i \in DOMAIN r["metrics.filesystems"].ws :
         required_text(r["metrics.filesystems"].ws[i].mount, MAX_PATH_BYTES)
         /\ totals(r["metrics.filesystems"].ws[i])

Decodes(kind, r) == IF kind = "status" THEN DecodesStatus(r) ELSE DecodesMetrics(r)

\* protocol_enum!: the variants by number, and the SSH backends by name.
protocol_enum ==
    ("state" :> <<"Starting", "Ready", "Failed">>)
    @@ ("boot.mode" :> <<"Standard", "AgentPid1", "InitChild">>)
    @@ ("provisioning.status" :> <<"Succeeded", "Degraded", "Skipped", "FailedBoot">>)
    @@ ("step.status" :> <<"Succeeded", "Failed", "Skipped", "Unsupported">>)
    @@ ("step.failure_policy" :> <<"BestEffort", "FailBoot">>)
    @@ ("ssh.backend" :> <<"Native", "OpenSsh", "SystemdOpenSsh">>)
Enums == DOMAIN protocol_enum

Decoded(r) ==
    [f \in DOMAIN r |-> CASE f \in Times -> [is |-> "instant", t |-> timestamp(r[f])]
                          [] f \in Enums -> [is |-> "variant", name |-> protocol_enum[f][r[f].n]]
                          [] OTHER       -> r[f]]

-----------------------------------------------------------------------------
(* The control wire: vm-control readiness.rs *)

\* system_time_to_wire: before the epoch the parts count up from the second below.
system_time_to_wire(t) ==
    LET d == 0 - t IN
    CASE t >= 0         -> Time(t \div NANOS, t % NANOS)
      [] d % NANOS = 0  -> Time(0 - d \div NANOS, 0)
      [] OTHER          -> Time(0 - d \div NANOS - 1, NANOS - (d % NANOS))

\* system_time_from_wire
system_time_from_wire(v) ==
    CASE v.s >= 0 -> v.s * NANOS + v.n
      [] v.n = 0  -> v.s * NANOS
      [] OTHER    -> 0 - ((0 - v.s - 1) * NANOS + (NANOS - v.n))

\* agent_state_to, guest_boot_mode_to, provision_state_to, step_state_to,
\* failure_policy_to, ssh_backend_to and their inverses.
wire_enum ==
    ("state" :> <<"Starting", "Ready", "Failed">>)
    @@ ("ssh.backend" :> <<"Native", "OpenSsh", "SystemdOpenSsh">>)
    @@ ("boot.mode" :> <<"Standard", "AgentPid1", "InitChild">>)
    @@ ("provisioning.status" :> <<"Succeeded", "Degraded", "Skipped", "FailedBoot">>)
    @@ ("step.status" :> <<"Succeeded", "Failed", "Skipped", "Unsupported">>)
    @@ ("step.failure_policy" :> <<"BestEffort", "FailBoot">>)
to_enum(f, name) == CHOOSE n \in DOMAIN wire_enum[f] : wire_enum[f][n] = name

report_to_wire(x) ==
    [f \in DOMAIN x |-> CASE f \in Times -> system_time_to_wire(x[f].t)
                          [] f \in Enums -> Number(to_enum(f, x[f].name))
                          [] OTHER       -> x[f]]

report_from_wire(w) ==
    [f \in DOMAIN w |-> CASE f \in Times -> [is |-> "instant", t |-> system_time_from_wire(w[f])]
                          [] f \in Enums -> [is |-> "variant", name |-> wire_enum[f][w[f].n]]
                          [] OTHER       -> w[f]]

ReadsFromWire(w) ==
    /\ \A f \in Times \cap DOMAIN w : validate_timestamp(w[f])
    /\ \A f \in Enums \cap DOMAIN w : w[f].n \in DOMAIN wire_enum[f]

-----------------------------------------------------------------------------
Nothing == [f \in {} |-> Missing]

ReportsInit ==
    /\ variant \in ReportScopes
    /\ hopName = "agent" /\ built = Nothing /\ native = Nothing /\ carried = Nothing

AgentBuilds ==
    /\ hopName = "agent" /\ hopName' = "monitor"
    /\ built' = IF variant.kind = "status" THEN StatusReport(variant) ELSE MetricsReport(variant)
    /\ UNCHANGED <<variant, native, carried>>

\* observe_status and observe_metrics: an invalid report ends the stream.
MonitorValidates ==
    /\ hopName = "monitor"
    /\ hopName' = IF Validates(variant.kind, built) THEN "library" ELSE "rejected"
    /\ UNCHANGED <<variant, built, native, carried>>

LibraryDecodes ==
    /\ hopName = "library"
    /\ IF Decodes(variant.kind, built)
       THEN hopName' = "daemon" /\ native' = Decoded(built)
       ELSE hopName' = "undecodable" /\ UNCHANGED native
    /\ UNCHANGED <<variant, built, carried>>

DaemonEncodes ==
    /\ hopName = "daemon" /\ hopName' = "client" /\ carried' = report_to_wire(native)
    /\ UNCHANGED <<variant, built, native>>

ClientDecodes ==
    /\ hopName = "client"
    /\ IF ReadsFromWire(carried)
       THEN hopName' = "done" /\ carried' = report_from_wire(carried)
       ELSE hopName' = "unreadable" /\ UNCHANGED carried
    /\ UNCHANGED <<variant, built, native>>

ReportsNext == AgentBuilds \/ MonitorValidates \/ LibraryDecodes \/ DaemonEncodes \/ ClientDecodes

ReportsSpec == ReportsInit /\ [][ReportsNext]_reportVars

-----------------------------------------------------------------------------
\* The lengths and counts that the agent takes from the guest without a bound of
\* its own: the output of a failed provisioner, the name in /etc/os-release, the
\* init path, the number of addresses, the mount points, and a processor count it
\* may fail to read.
WithinBounds ==
    IF variant.kind = "status"
    THEN /\ variant.step = 2 => variant.chain.len <= MAX_DIAGNOSTIC_BYTES
         /\ variant.name.len <= MAX_INFO_BYTES
         /\ variant.mode = 1 \/ variant.init.len <= MAX_INFO_BYTES
         /\ Len(variant.addresses) <= MAX_ENTRIES
    ELSE /\ variant.mounts = {} \/ variant.mount.len <= MAX_INFO_BYTES
         /\ variant.cpus # Missing

\* A text of the guest with a NUL byte, which only the library refuses.
HoldsNul ==
    variant.kind = "status" /\ (\/ variant.chain.nul /\ variant.step = 2
                                \/ variant.message.nul /\ variant.state # 2)

TimesRoundTrip ==
    \A t \in (0 - SECONDS * NANOS)..(SECONDS * NANOS + NANOS - 1) :
        /\ validate_timestamp(system_time_to_wire(t))
        /\ system_time_from_wire(system_time_to_wire(t)) = t
        /\ timestamp(system_time_to_wire(t)) = t


=============================================================================
