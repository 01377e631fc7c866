----------------------------- MODULE ControlWire -----------------------------
(***************************************************************************)
(* The conversions between the library's values and the messages of the    *)
(* daemon's control API (common/vm-control).  Every type has two functions *)
(* written apart, one to the wire and one from it, and the second refuses  *)
(* what the first would never write.                                       *)
(*                                                                         *)
(* A message is a function from field names to sets: an absent field is    *)
(* {}, a present one has one element, a list has several (nothing here     *)
(* depends on the order of a list).  A conversion of one value yields the  *)
(* set of its result, {} when the value is refused.                        *)
(***************************************************************************)
EXTENDS Integers, Sequences, FiniteSets, TLC

CONSTANTS
    MIB,                \* the bytes of a mebibyte
    U8MAX,              \* the largest number of virtual CPUs
    U32MAX,             \* the largest number of mebibytes
    MILLIS,             \* the milliseconds of a second
    LASTSECOND          \* the largest second of a protocol timestamp

WireNul == "path with NUL"
NotUuid == "no uuid"
BadPolicy == "no policy"

-----------------------------------------------------------------------------
(* Enumerations: the number of each name, and the name of each number. *)

retention_to_wire == ("Persistent" :> 1) @@ ("Ephemeral" :> 2)
retention_from_wire == <<"Persistent", "Ephemeral">>
publish_to_wire == ("Loopback" :> 1) @@ ("Any" :> 2)
publish_from_wire == <<"Loopback", "Any">>
issue_to_wire == ("Lifecycle" :> 1) @@ ("Telemetry" :> 2) @@ ("Network" :> 3) @@ ("Rootfs" :> 4)
                 @@ ("Configuration" :> 5)
issue_from_wire == <<"Lifecycle", "Telemetry", "Network", "Rootfs", "Configuration">>
observation_to_wire == ("Observed" :> 1) @@ ("LastKnown" :> 2) @@ ("Unavailable" :> 3)
observation_from_wire == <<"Observed", "LastKnown", "Unavailable">>
pull_policy_to_wire == ("IfMissing" :> 1) @@ ("Always" :> 2) @@ ("Never" :> 3)
pull_policy_from_wire == <<"IfMissing", "Always", "Never">>
launch_reason_to_wire ==
    ("Unspecified" :> 0) @@ ("CommandNotFound" :> 1) @@ ("InvalidProcessSpec" :> 2)
    @@ ("WorkingDirectoryNotFound" :> 3) @@ ("WorkingDirectoryNotDirectory" :> 4)
    @@ ("InvalidIdentity" :> 5) @@ ("IdentityNotFound" :> 6) @@ ("PermissionDenied" :> 7)
    @@ ("SpawnFailed" :> 8) @@ ("CancelledBeforeStart" :> 9)
launch_reason_from_wire ==
    (0 :> "Unspecified") @@ <<"CommandNotFound", "InvalidProcessSpec", "WorkingDirectoryNotFound",
      "WorkingDirectoryNotDirectory", "InvalidIdentity", "IdentityNotFound", "PermissionDenied",
      "SpawnFailed", "CancelledBeforeStart">>
exit_to_wire == ("Clean" :> 1) @@ ("Error" :> 2) @@ ("AlreadyStopped" :> 3) @@ ("Forced" :> 4)
                @@ ("Unknown" :> 5)
exit_from_wire == <<"Clean", "Error", "AlreadyStopped", "Forced", "Unknown">>
readiness_reason_to ==
    ("VmStarting" :> 1) @@ ("VmStopping" :> 2) @@ ("VmStopped" :> 3) @@ ("VmFailed" :> 4)
    @@ ("AgentNotRequired" :> 5) @@ ("AgentUnavailable" :> 6) @@ ("AgentStatusStale" :> 7)
    @@ ("GuestStarting" :> 8) @@ ("GuestFailed" :> 9) @@ ("GuestReportedReady" :> 10)
readiness_reason_from ==
    <<"VmStarting", "VmStopping", "VmStopped", "VmFailed", "AgentNotRequired", "AgentUnavailable",
      "AgentStatusStale", "GuestStarting", "GuestFailed", "GuestReportedReady">>
readiness_to_wire == ("Ready" :> 1) @@ ("Terminal" :> 2) @@ ("TimedOut" :> 3)
readiness_from_wire == <<"Ready", "Terminal", "TimedOut">>
slot_to_wire == ("Value" :> 1) @@ ("OAuthAccessToken" :> 2) @@ ("OAuthExpiresAt" :> 3)
                @@ ("OAuthAccountId" :> 4)
slot_from_wire == <<"Value", "OAuthAccessToken", "OAuthExpiresAt", "OAuthAccountId">>
log_source_to_wire == ("Monitor" :> 2) @@ ("Serial" :> 3) @@ ("Exec" :> 4) @@ ("Network" :> 5)
                      @@ ("NetworkAudit" :> 6)
log_source_from_wire == (2 :> "Monitor") @@ (3 :> "Serial") @@ (4 :> "Exec") @@ (5 :> "Network")
                        @@ (6 :> "NetworkAudit")
definition_to_wire == ("Nat" :> 1) @@ ("Bridge" :> 2) @@ ("Isolated" :> 3)
definition_from_wire == <<"Nat", "Bridge", "Isolated">>
vm_state_to == ("Starting" :> 1) @@ ("Running" :> 2) @@ ("Stopping" :> 3) @@ ("Stopped" :> 4)
               @@ ("Failed" :> 5)
vm_state_from == <<"Starting", "Running", "Stopping", "Stopped", "Failed">>

EnumPairs ==
    {<<retention_to_wire, retention_from_wire>>, <<publish_to_wire, publish_from_wire>>,
     <<issue_to_wire, issue_from_wire>>, <<observation_to_wire, observation_from_wire>>,
     <<pull_policy_to_wire, pull_policy_from_wire>>, <<launch_reason_to_wire, launch_reason_from_wire>>,
     <<exit_to_wire, exit_from_wire>>, <<readiness_reason_to, readiness_reason_from>>,
     <<readiness_to_wire, readiness_from_wire>>, <<slot_to_wire, slot_from_wire>>,
     <<log_source_to_wire, log_source_from_wire>>, <<definition_to_wire, definition_from_wire>>,
     <<vm_state_to, vm_state_from>>}

EnumOut(to, v) == IF v \in DOMAIN to THEN {to[v]} ELSE {}
EnumIn(from, v) == IF v \in DOMAIN from THEN {from[v]} ELSE {}

-----------------------------------------------------------------------------
(* Values *)

path_from_wire(v) == IF v = WireNul THEN {} ELSE {v}
validate_uuid(v) == IF v = NotUuid THEN {} ELSE {v}
policy_from_wire(v) == IF v = BadPolicy THEN {} ELSE {v}
cpu_from_wire(v) == IF v \in 1..U8MAX THEN {v} ELSE {}
CeilMib(v) == (v + MIB - 1) \div MIB
memory_from_wire(v) == IF v = 0 \/ CeilMib(v) > U32MAX THEN {} ELSE {v}
spec_memory_to_wire(v) == v * MIB
spec_memory_from_wire(v) == IF v % MIB = 0 /\ v \div MIB <= U32MAX THEN {v \div MIB} ELSE {}

seconds_to_wire(v) == [s |-> v, n |-> 0]
timestamp_seconds(v) == IF v.n = 0 /\ v.s \in -LASTSECOND..LASTSECOND THEN {v.s} ELSE {}
timestamp_millis(v) == [s |-> v \div MILLIS, n |-> v % MILLIS]
millis_from_wire(v) == IF v.n \in 0..(MILLIS - 1) THEN {v.s * MILLIS + v.n} ELSE {}

\* MachineAgent: [mode, path], the path only of a custom agent.
agent_to_wire(v) == [mode |-> ("Default" :> "DefaultAgent" @@ "Disabled" :> "None"
                               @@ "Custom" :> "CustomPath")[v.mode], path |-> v.path]
agent_from_wire(v) ==
    LET mode == "DefaultAgent" :> "Default" @@ "None" :> "Disabled" @@ "CustomPath" :> "Custom"
    IN IF v.mode \in DOMAIN mode /\ v.path # {WireNul}
       THEN {[mode |-> mode[v.mode], path |-> v.path]} ELSE {}

\* MachineNetworkConfig: [kind, name, policy, publish].
network_to_wire(v) == [v EXCEPT !.publish = {publish_to_wire[b] : b \in @}]
network_from_wire(v) ==
    IF v.kind \in {"None", "Named", "Private"} /\ (\A p \in v.policy : policy_from_wire(p) # {})
       /\ \A b \in v.publish : EnumIn(publish_from_wire, b) # {}
    THEN {[v EXCEPT !.publish = {publish_from_wire[b] : b \in @}]} ELSE {}

\* A partial update of the policy: Set with a value, or Clear.
change_from_wire(v) ==
    IF v.to = "Clear" THEN {v} ELSE {[v EXCEPT !.with = x] : x \in policy_from_wire(v.with)}

\* The forwards of a spec (VmSpecs): paths without NUL, Unix modes of nine bits.
forwards_from_wire(forwards) ==
    IF \A i \in DOMAIN forwards :
          /\ \A mode \in forwards[i].mode : mode <= 511
          /\ WireNul \notin {forwards[i].listen.path.text, forwards[i].connect.path.text}
    THEN {forwards} ELSE {}

OkEach(values, In(_)) == \A v \in values : In(v) # {}
EachIn(values, In(_)) == UNION {In(v) : v \in values}

-----------------------------------------------------------------------------
(* Messages *)

\* updates.rs update_to_wire and update_from_wire
update_to_wire(u) ==
    [u EXCEPT !.network = {network_to_wire(n) : n \in @}, !.agent = {agent_to_wire(a) : a \in @}]

update_from_wireUncheckedMemory(u) ==
    IF /\ OkEach(u.cpus, cpu_from_wire) /\ OkEach(u.forwards, forwards_from_wire)
       /\ OkEach(u.network, network_from_wire) /\ OkEach(u.agent, agent_from_wire)
    THEN {[u EXCEPT !.network = EachIn(@, network_from_wire), !.agent = EachIn(@, agent_from_wire),
                    !.memory = {m % (MIB * (U32MAX + 1)) : m \in @}]}
    ELSE {}

update_from_wire(u) ==
    IF /\ OkEach(u.cpus, cpu_from_wire) /\ OkEach(u.memory, memory_from_wire)
       /\ OkEach(u.forwards, forwards_from_wire) /\ OkEach(u.network, network_from_wire)
       /\ OkEach(u.agent, agent_from_wire)
       /\ \A c \in u.policy : change_from_wire(c) # {}
    THEN {[u EXCEPT !.network = EachIn(@, network_from_wire), !.agent = EachIn(@, agent_from_wire)]}
    ELSE {}

\* updates.rs create_to_wire and create_from_wire; requests.rs: the source of the root disk.
create_to_wire(c) ==
    [c EXCEPT !.network = {network_to_wire(n) : n \in @}, !.agent = agent_to_wire(@),
              !.retention = retention_to_wire[@]]

create_from_wire(c) ==
    IF /\ OkEach(c.cpus, cpu_from_wire) /\ OkEach(c.memory, memory_from_wire)
       /\ forwards_from_wire(c.forwards) # {} /\ OkEach(c.network, network_from_wire)
       /\ OkEach(c.disks, path_from_wire) /\ agent_from_wire(c.agent) # {}
       /\ EnumIn(retention_from_wire, c.retention) # {}
    THEN {[c EXCEPT !.network = EachIn(@, network_from_wire), !.agent = CHOOSE a \in agent_from_wire(@) : TRUE,
                    !.retention = retention_from_wire[@]]}
    ELSE {}

\* spec.rs, as far as the snapshot of a machine shows it.
spec_to_wire(s) == [s EXCEPT !.memory = {spec_memory_to_wire(m) : m \in @}]
spec_from_wire(s) ==
    IF OkEach(s.cpus, cpu_from_wire) /\ OkEach(s.memory, spec_memory_from_wire)
       /\ forwards_from_wire(s.forwards) # {}
    THEN {[s EXCEPT !.memory = EachIn(@, spec_memory_from_wire)]} ELSE {}

\* snapshots.rs snapshot_to_wire and snapshot_from_wire
snapshot_to_wire(d) ==
    [d EXCEPT !.spec = spec_to_wire(@), !.network = network_to_wire(@), !.agent = agent_to_wire(@),
              !.observation = observation_to_wire[@], !.issues = {issue_to_wire[i] : i \in @},
              !.modified = seconds_to_wire(@)]

snapshot_from_wire(d) ==
    IF /\ validate_uuid(d.id) # {} /\ spec_from_wire(d.spec) # {} /\ network_from_wire(d.network) # {}
       /\ agent_from_wire(d.agent) # {} /\ EnumIn(observation_from_wire, d.observation) # {}
       /\ (\A i \in d.issues : EnumIn(issue_from_wire, i) # {}) /\ timestamp_seconds(d.modified) # {}
    THEN {[d EXCEPT !.spec = CHOOSE s \in spec_from_wire(@) : TRUE,
                    !.network = CHOOSE n \in network_from_wire(@) : TRUE,
                    !.agent = CHOOSE a \in agent_from_wire(@) : TRUE,
                    !.observation = observation_from_wire[@], !.issues = {issue_from_wire[i] : i \in @},
                    !.modified = @.s]}
    ELSE {}

\* snapshots.rs inventory_to_wire and inventory_from_wire: the data must be of the entry's machine.
inventory_to_wire(e) ==
    [e EXCEPT !.data = {snapshot_to_wire(d) : d \in @}, !.issues = {issue_to_wire[i] : i \in @}]

inventory_from_wire(e) ==
    IF validate_uuid(e.id) # {} /\ \A d \in e.data : snapshot_from_wire(d) # {} /\ d.id = e.id /\ d.name = e.name
    THEN {[e EXCEPT !.data = EachIn(@, snapshot_from_wire), !.issues = {issue_from_wire[i] : i \in @}]} ELSE {}

-----------------------------------------------------------------------------
(* Errors: errors.rs *)

Carrying == {"MachineNotFound", "ImageNotFound", "MachineAlreadyExists", "MachineIdAlreadyExists",
             "ImageReferenceRejected"}

\* kind, code and RPC status of a variant; the others are internal.
native_error_to_status(e) ==
    LET common == [kind |-> 8, code |-> 7, status |-> "Internal", variant |-> e.variant,
                   reference |-> {}, expected |-> {}, current |-> {}, reason |-> {}]
    IN CASE e.variant = "MachineAlreadyRunning" ->
              [common EXCEPT !.kind = 4, !.code = 1, !.status = "FailedPrecondition", !.reference = {e.reference}]
         [] e.variant = "MachineNotRunning" ->
              [common EXCEPT !.kind = 4, !.code = 2, !.status = "FailedPrecondition", !.reference = {e.reference}]
         [] e.variant = "MachineStaleGeneration" ->
              [common EXCEPT !.kind = 4, !.code = 3, !.status = "FailedPrecondition",
                             !.reference = {e.reference}, !.expected = {e.requested}, !.current = e.current]
         [] e.variant = "MonitorConnection" ->
              [common EXCEPT !.kind = 7, !.code = 4, !.status = "Unavailable", !.reference = {e.reference}]
         [] e.variant = "EntrypointLaunchFailed" ->
              [common EXCEPT !.kind = 4, !.code = IF e.reason = "CommandNotFound" THEN 6 ELSE 5,
                             !.status = "FailedPrecondition", !.reason = {launch_reason_to_wire[e.reason]}]
         [] e.variant \in {"MachineNotFound", "ImageNotFound"} ->
              [common EXCEPT !.kind = 2, !.status = "NotFound", !.reference = {e.reference}]
         [] e.variant \in {"MachineAlreadyExists", "MachineIdAlreadyExists"} ->
              [common EXCEPT !.kind = 3, !.status = "AlreadyExists", !.reference = {e.reference}]
         [] e.variant = "ImageReferenceRejected" ->
              [common EXCEPT !.kind = 1, !.status = "InvalidArgument", !.reference = {e.reference}]
         [] e.variant \in {"InvalidMachineName", "InvalidCreateRequest", "InvalidMachineUpdate",
                           "InvalidMachineConfig"} ->
              [common EXCEPT !.kind = 1, !.status = "InvalidArgument"]
         [] e.variant \in {"ImageInUse", "MissingNetworkSecrets"} ->
              [common EXCEPT !.kind = 4, !.status = "FailedPrecondition"]
         [] e.variant = "NetworkRuntime" -> [common EXCEPT !.kind = 7, !.status = "Unavailable"]
         [] OTHER -> common

NativeError(variant) == [variant |-> variant, reference |-> "", requested |-> "", current |-> {}, reason |-> "Unspecified"]

\* {} where the caller keeps the RPC status as it is.
status_to_native_error(s) ==
    LET referring(v) == {[NativeError(v) EXCEPT !.reference = r] : r \in s.reference}
        reasons == UNION {EnumIn(launch_reason_from_wire, r) : r \in s.reason}
    IN CASE s.kind \notin 1..8 -> {}
         [] s.code = 1 -> referring("MachineAlreadyRunning")
         [] s.code = 2 -> referring("MachineNotRunning")
         [] s.code = 3 -> {[e EXCEPT !.requested = x, !.current = s.current] :
                             e \in referring("MachineStaleGeneration"), x \in s.expected}
         [] s.code = 4 -> referring("MonitorConnection")
         [] s.code \in {5, 6} -> {[NativeError("EntrypointLaunchFailed") EXCEPT !.reason = r] :
                                    r \in {x \in reasons : (s.code = 6) <=> (x = "CommandNotFound")}}
         [] s.code = 7 -> IF s.variant \in Carrying THEN referring(s.variant) ELSE {}
         [] OTHER -> {}

\* app/cli and the clients: what a caller is told when an operation fails.
ErrorSeen(e) ==
    LET s == native_error_to_status(e)
        n == status_to_native_error(s)
    IN IF n = {} THEN [variant |-> "Rpc", status |-> s.status]
       ELSE [variant |-> (CHOOSE x \in n : TRUE).variant, status |-> s.status]
=============================================================================
