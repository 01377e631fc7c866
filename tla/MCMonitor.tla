------------------------------ MODULE MCMonitor ------------------------------
(***************************************************************************)
(* The parts of the monitor process and of its worker, each on its own small*)
(* instances: a behaviour is about one part.                                *)
(***************************************************************************)
EXTENDS InstanceStore, Forwards, VmmRun, VsockMux, Execution

VARIABLE part \* the component this behaviour is about

StoreScopes == {[agents |-> 1, disturb |-> 2, who |-> {}],
                [agents |-> 1, disturb |-> 1, who |-> {"forward"}],
                [agents |-> 1, disturb |-> 1, who |-> {"waiter"}],
                [agents |-> 1, disturb |-> 0, who |-> {"metrics"}],
                [agents |-> 2, disturb |-> 0, who |-> {}]}

CONSTANTS i1, o1, o2
FwdInstances == {[use |-> {i1, o1}, machine |-> {i1}, ready |-> 2, limit |-> 1],
                 [use |-> {i1, o1}, machine |-> {}, ready |-> 1, limit |-> 1],
                 [use |-> {i1, o1}, machine |-> {o1}, ready |-> 2, limit |-> 1],
                 [use |-> {o1, o2}, machine |-> {}, ready |-> 1, limit |-> 2]}

RunInstance(h, c, r, l, n, o, k, f) ==
  [host |-> h, command |-> c, runner |-> r, listens |-> l, signals |-> n, orphan |-> o, crash |-> k, faults |-> f]
RunInstances == {RunInstance("linux", FALSE, FALSE, TRUE, 0, FALSE, FALSE, FALSE),
                 RunInstance("linux", FALSE, FALSE, FALSE, 1, FALSE, FALSE, FALSE),
                 RunInstance("macos", FALSE, FALSE, FALSE, 1, FALSE, FALSE, TRUE),
                 RunInstance("linux", TRUE, FALSE, FALSE, 0, TRUE, FALSE, TRUE),
                 RunInstance("linux", FALSE, TRUE, FALSE, 0, FALSE, TRUE, TRUE)}

MuxInstances == {[hosts |-> {11, 12}, leases |-> 1], [hosts |-> {11}, leases |-> 2]}

ExInstance(u, o, c, e) == [use |-> u, outs |-> o, controls |-> c, env |-> e]
ExInstances == {ExInstance({1}, 1, 0, {"stall", "stop"}),
                ExInstance({1, 2}, 0, 0, {}),
                ExInstance({1}, 2, 1, {"held"}),
                ExInstance({1}, 0, 2, {}),
                ExInstance({1}, 0, 1, {"faults", "stop"}),
                ExInstance({1}, 1, 0, {"faults", "identity"})}

Parts == {"store", "forwards", "run", "mux", "exec"}

IdleScenarios == CHOOSE s \in Scenarios : TRUE
IdleFwdScopes == CHOOSE s \in FwdScopes : TRUE
IdleRunScopes == CHOOSE s \in RunScopes : TRUE
IdleMuxScopes == CHOOSE s \in MuxScopes : TRUE
IdleExScopes == CHOOSE s \in ExScopes : TRUE

MonitorInit ==
  /\ part \in Parts
  /\ (part # "store" => scenario = IdleScenarios) /\ StoreInit
  /\ (part # "forwards" => fwdScope = IdleFwdScopes) /\ FwdInit
  /\ (part # "run" => runScope = IdleRunScopes) /\ RunInit
  /\ (part # "mux" => muxScope = IdleMuxScopes) /\ MuxInit
  /\ (part # "exec" => exScope = IdleExScopes) /\ ExInit

MonitorNext ==
  \/ part = "store" /\ StoreNext /\ UNCHANGED <<part, fwdVars, runVars, muxVars, exVars>>
  \/ part = "forwards" /\ FwdNext /\ UNCHANGED <<part, storeVars, runVars, muxVars, exVars>>
  \/ part = "run" /\ RunNext /\ UNCHANGED <<part, storeVars, fwdVars, muxVars, exVars>>
  \/ part = "mux" /\ MuxNext /\ UNCHANGED <<part, storeVars, fwdVars, runVars, exVars>>
  \/ part = "exec" /\ ExNext /\ UNCHANGED <<part, storeVars, fwdVars, runVars, muxVars>>

MonitorVars == <<part, storeVars, fwdVars, runVars, muxVars, exVars>>

MonitorSpec == MonitorInit /\ [][MonitorNext]_MonitorVars

==============================================================================
