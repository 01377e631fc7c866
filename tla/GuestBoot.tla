------------------------------ MODULE GuestBoot ------------------------------
(***************************************************************************)
(* The guest agent from its start to the status the monitor holds of it:   *)
(* preparing the process, handing PID 1 to the guest's init, provisioning  *)
(* step by step, bringing up SSH and the forward dialer, and publishing    *)
(* each state in a watch channel (guest/agent: main.rs, handoff.rs,        *)
(* provision/mod.rs, rpc.rs); and the monitor's status stream, which reads *)
(* the channel, validates what it reads and reconnects (virt/vmm/guest.rs).*)
(* A stream that is slow sees only the latest status, and a shutdown may   *)
(* end it before it has seen the last one.                                 *)
(***************************************************************************)
EXTENDS Integers, Sequences, FiniteSets, SequencesExt

CONSTANT BootScopes     \* [init, plan, enabled, own, chains, faults]: see the fields below

(* init: what runs as PID 1, "standard" (not the agent), "none" (no init found) or
   "child" (the agent forks and the parent becomes the init); plan: the provisioners
   in order, each [id, requires, policy]; enabled: whether provisioning is; own:
   whether the agent owns the SSH listener; chains: the error texts a failing
   provisioner can leave; faults: the stages that may fail. *)

VARIABLES
    bootScope,
    agentAt,            \* the stage of run_agent
    bootMode,           \* BootMode, once decided
    stepsDone,          \* the steps recorded so far
    failedBoot,         \* ProvisionRun::failed_boot
    pub,                \* the watch channel: the status and its version
    serving,            \* the gRPC server accepts
    ending,             \* the shutdown flag the streams watch
    watch,              \* the monitor's stream: open, initial, the version seen
    hostSees,           \* the status in the monitor's store
    refused             \* the version the monitor last found invalid

bootVars == <<bootScope, agentAt, bootMode, stepsDone, failedBoot, pub, serving, ending,
              watch, hostSees, refused>>

NoStatus == [state |-> "none", code |-> "none", prov |-> <<>>, overall |-> "none", ssh |-> FALSE]
Fault(f) == f \in bootScope.faults
Plan == bootScope.plan

-----------------------------------------------------------------------------
(* rpc.rs *)

\* publish_with_ssh: a status with the same content is not sent again.
publish(state, code, prov, overall, ssh) ==
    LET next == [state |-> state, code |-> code, prov |-> prov, overall |-> overall, ssh |-> ssh]
    IN pub' = IF pub.status = next THEN pub ELSE [status |-> next, version |-> pub.version + 1]

\* fail: keeps the provisioning report of the status it replaces.
fail ==
    publish("failed", "AGENT_FAILURE", pub.status.prov, pub.status.overall, FALSE)

\* AgentServer::drop and shutdown: the flag first, then the server.
StopsServing == serving' = FALSE /\ ending' = TRUE

\* A stage that fails: the failure is published and run_agent returns, which drops
\* the server.
FailsAt(stage, f) ==
    /\ agentAt = stage /\ Fault(f)
    /\ fail /\ agentAt' = "gone" /\ StopsServing
    /\ UNCHANGED <<bootScope, bootMode, stepsDone, failedBoot, watch, hostSees, refused>>

-----------------------------------------------------------------------------
(* main.rs, handoff.rs *)

\* select_agent_mode, prepare_agent_process: early provisioning and the SSH trust,
\* before PID 1 is handed over.
AgentPrepares ==
    /\ agentAt = "prepare"
    /\ agentAt' = "handoff" \/ (Fault("prepare") /\ agentAt' = "gone")
    /\ UNCHANGED <<bootScope, bootMode, stepsDone, failedBoot, pub, serving, ending, watch,
                   hostSees, refused>>

\* maybe_handoff_init: with an executable init the agent goes on in the child and
\* the parent executes it; without one the agent stays PID 1.
AgentHandsOff ==
    /\ agentAt = "handoff"
    /\ \/ agentAt' = "serve"
          /\ bootMode' = CASE bootScope.init = "standard" -> "Standard"
                           [] bootScope.init = "none"     -> "AgentPid1"
                           [] OTHER                       -> "InitChild"
       \/ Fault("handoff") /\ bootScope.init # "standard" /\ agentAt' = "gone" /\ UNCHANGED bootMode
    /\ UNCHANGED <<bootScope, stepsDone, failedBoot, pub, serving, ending, watch, hostSees, refused>>

\* AgentServer::start and serve
AgentServes ==
    /\ agentAt = "serve"
    /\ \/ /\ agentAt' = "provision" /\ serving' = TRUE
          /\ pub' = [status |-> [NoStatus EXCEPT !.state = "starting", !.code = "STARTING"], version |-> 1]
       \/ Fault("bind") /\ agentAt' = "gone" /\ UNCHANGED <<pub, serving>>
    /\ UNCHANGED <<bootScope, bootMode, stepsDone, failedBoot, ending, watch, hostSees, refused>>

-----------------------------------------------------------------------------
(* provision/mod.rs *)

Positions(id) == {i \in DOMAIN Plan : Plan[i].id = id}

\* ProvisionerPlan::new and validate_dependencies
PlanIsValid ==
    /\ \A i, j \in DOMAIN Plan : Plan[i].id = Plan[j].id => i = j
    /\ \A i \in DOMAIN Plan : \A d \in Plan[i].requires : \E j \in Positions(d) : j < i

\* blocking_dependency
Blocked(p) ==
    \E d \in p.requires : ~\E i \in DOMAIN stepsDone :
        stepsDone[i].id = d /\ stepsDone[i].status = "succeeded"

StepOf(p, status, chain) == [id |-> p.id, status |-> status, policy |-> p.policy, chain |-> chain]

\* run: on to the next provisioner, unless the last one failed the boot.
MoreSteps == ~failedBoot /\ Len(stepsDone) < Len(Plan)


\* record_outcome and record_failure: an unsupported or failed provisioner fails
\* the boot when its policy says so.
record(p, status, chain) ==
    /\ stepsDone' = Append(stepsDone, StepOf(p, status, chain))
    /\ failedBoot' = (failedBoot \/ (status \in {"unsupported", "failed"} /\ p.policy = "FailBoot"))

\* step: skipped when a dependency did not succeed, else applied.
ProvisionStep ==
    /\ agentAt = "provision" /\ bootScope.enabled /\ PlanIsValid /\ MoreSteps
    /\ LET p == Plan[Len(stepsDone) + 1] IN
       IF Blocked(p) THEN record(p, "skipped", "")
       ELSE \/ \E status \in {"succeeded", "skipped", "unsupported"} : record(p, status, "")
            \/ \E chain \in bootScope.chains : record(p, "failed", chain)
    /\ UNCHANGED <<bootScope, agentAt, bootMode, pub, serving, ending, watch, hostSees, refused>>

Problems == {i \in DOMAIN stepsDone : stepsDone[i].status \in {"failed", "unsupported"}}

\* finish
Overall ==
    CASE ~bootScope.enabled -> "Skipped"
      [] failedBoot         -> "FailedBoot"
      [] Problems = {}      -> "Succeeded"
      [] OTHER              -> "Degraded"

\* run_provisioning returns and update publishes; an invalid plan is an error.
ProvisioningEnds ==
    /\ agentAt = "provision" /\ (~bootScope.enabled \/ (PlanIsValid /\ ~MoreSteps))
    /\ publish("starting", "PROVISIONING_COMPLETE", stepsDone, Overall, FALSE)
    /\ agentAt' = "trust"
    /\ UNCHANGED <<bootScope, bootMode, stepsDone, failedBoot, serving, ending, watch, hostSees, refused>>

PlanRejected ==
    /\ agentAt = "provision" /\ bootScope.enabled /\ ~PlanIsValid
    /\ fail /\ agentAt' = "shutdown"
    /\ UNCHANGED <<bootScope, bootMode, stepsDone, failedBoot, serving, ending, watch, hostSees, refused>>

-----------------------------------------------------------------------------
(* main.rs run_agent, after provisioning *)

\* verify_trust, then the failed-boot check
TrustVerified ==
    /\ agentAt = "trust"
    /\ IF failedBoot THEN fail /\ agentAt' = "shutdown"
       ELSE agentAt' = "ssh" /\ UNCHANGED pub
    /\ UNCHANGED <<bootScope, bootMode, stepsDone, failedBoot, serving, ending, watch, hostSees, refused>>

\* SshService::new, the vsock listener (the agent's own, or the one systemd already
\* holds, which must be CA-only), wait_ready, and the forward dialer.
SshStarts ==
    /\ agentAt = "ssh" /\ agentAt' = IF bootScope.own THEN "ready" ELSE "dialer"
    /\ UNCHANGED <<bootScope, bootMode, stepsDone, failedBoot, pub, serving, ending, watch,
                   hostSees, refused>>

SshAnswers ==
    /\ agentAt = "ready" /\ agentAt' = "dialer"
    /\ UNCHANGED <<bootScope, bootMode, stepsDone, failedBoot, pub, serving, ending, watch,
                   hostSees, refused>>

AgentReady ==
    /\ agentAt = "dialer" /\ agentAt' = "running"
    /\ publish("ready", "none", stepsDone, Overall, TRUE)
    /\ UNCHANGED <<bootScope, bootMode, stepsDone, failedBoot, serving, ending, watch, hostSees, refused>>

StageFails ==
    FailsAt("trust", "trust") \/ FailsAt("ssh", "ssh") \/ FailsAt("ready", "ready") \/ FailsAt("dialer", "dialer")

\* The select at the end of run_agent: a server task ended, or PID 1 is shutting down.
AgentStops ==
    /\ agentAt = "running" /\ agentAt' = "shutdown"
    /\ Fault("task") \/ (Fault("pid1") /\ bootMode = "AgentPid1")
    /\ UNCHANGED <<bootScope, bootMode, stepsDone, failedBoot, pub, serving, ending, watch,
                   hostSees, refused>>

AgentShutsDown ==
    /\ agentAt = "shutdown" /\ agentAt' = "gone" /\ StopsServing
    /\ UNCHANGED <<bootScope, bootMode, stepsDone, failedBoot, pub, watch, hostSees, refused>>

-----------------------------------------------------------------------------
(* The status stream: watch_status in the guest, status_stream in the monitor *)

MonitorConnects ==
    /\ ~watch.open /\ serving /\ watch' = [open |-> TRUE, initial |-> TRUE, seen |-> 0]
    /\ UNCHANGED <<bootScope, agentAt, bootMode, stepsDone, failedBoot, pub, serving, ending,
                   hostSees, refused>>

\* validate_status_report bounds every error chain.
Valid(status) == \A i \in DOMAIN status.prov : status.prov[i].chain # "long"

\* The initial snapshot, then each change the stream wakes for; an invalid report
\* ends the stream and the monitor connects again after its backoff.
MonitorReceives ==
    /\ watch.open /\ (watch.initial \/ watch.seen # pub.version)
    /\ IF Valid(pub.status)
       THEN /\ watch' = [open |-> TRUE, initial |-> FALSE, seen |-> pub.version]
            /\ hostSees' = pub.status /\ UNCHANGED refused
       ELSE /\ watch' = [open |-> FALSE, initial |-> FALSE, seen |-> 0]
            /\ refused' = pub.version /\ UNCHANGED hostSees
    /\ UNCHANGED <<bootScope, agentAt, bootMode, stepsDone, failedBoot, pub, serving, ending>>

\* The shutdown flag ends the stream, whatever it has not sent yet.
WatchEnds ==
    /\ watch.open /\ ending
    /\ watch' = [open |-> FALSE, initial |-> FALSE, seen |-> 0]
    /\ UNCHANGED <<bootScope, agentAt, bootMode, stepsDone, failedBoot, pub, serving, ending,
                   hostSees, refused>>

GuestBootInit ==
    /\ bootScope \in BootScopes
    /\ agentAt = "prepare" /\ bootMode = "none" /\ stepsDone = <<>> /\ failedBoot = FALSE
    /\ pub = [status |-> NoStatus, version |-> 0]
    /\ serving = FALSE /\ ending = FALSE
    /\ watch = [open |-> FALSE, initial |-> FALSE, seen |-> 0]
    /\ hostSees = NoStatus /\ refused = 0

GuestBootNext ==
    \/ AgentPrepares \/ AgentHandsOff \/ AgentServes
    \/ ProvisionStep \/ ProvisioningEnds \/ PlanRejected
    \/ TrustVerified \/ SshStarts \/ SshAnswers \/ AgentReady \/ StageFails
    \/ AgentStops \/ AgentShutsDown
    \/ MonitorConnects \/ MonitorReceives \/ WatchEnds

GuestBootSpec == GuestBootInit /\ [][GuestBootNext]_bootVars

-----------------------------------------------------------------------------
\* The monitor holds a guest ready only when its agent did become ready: no
\* provisioner that fails the boot failed or was unsupported, and the listener is
\* part of the report.
ReadyIsEarned ==
    hostSees.state = "ready" =>
        /\ agentAt \in {"running", "shutdown", "gone"} /\ hostSees.ssh
        /\ \A i \in DOMAIN hostSees.prov :
             hostSees.prov[i].policy = "FailBoot" => hostSees.prov[i].status \in {"succeeded", "skipped"}

\* Provisioning runs in order, applies nothing after a step that fails the boot, and
\* nothing whose dependency did not succeed; the overall status says what the steps say.
StepsAreInOrder ==
    /\ \A i \in DOMAIN stepsDone :
         /\ stepsDone[i].id = Plan[i].id
         /\ (stepsDone[i].policy = "FailBoot" /\ i \in Problems) => i = Len(stepsDone)
         /\ (\E d \in Plan[i].requires : \E j \in 1..(i - 1) :
                stepsDone[j].id = d /\ stepsDone[j].status # "succeeded") => stepsDone[i].status = "skipped"
    /\ pub.status.overall = "Succeeded" => \A i \in DOMAIN pub.status.prov : i \notin Problems
    /\ pub.status.overall = "FailedBoot" => pub.status.state # "ready"

\* A stream that has caught up shows the agent's latest status: no change is lost
\* between the snapshots, and a failure published while the server still runs is
\* seen or its stream ended.
StatusCatchesUp ==
    (watch.open /\ ~watch.initial /\ watch.seen = pub.version) => hostSees = pub.status


\* A guest whose provisioning went on after best-effort failures becomes ready for
\* the host too: the monitor refuses no report of a ready agent (provision/mod.rs
\* reports "guest reconciliation finished with failures; agent will continue").
ReadyAgentIsSeen ==
    ~(agentAt = "running" /\ pub.status.state = "ready" /\ refused = pub.version)

=============================================================================
