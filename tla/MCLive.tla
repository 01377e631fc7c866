------------------------------- MODULE MCLive -------------------------------
(***************************************************************************)
(* The liveness properties of the parts, each under the fairness of its own *)
(* tasks.                                                                   *)
(***************************************************************************)
EXTENDS InstanceStore, Forwards

VARIABLE part \* the component this behaviour is about

StoreScopes == {[agents |-> 1, disturb |-> 1, who |-> {"forward"}],
                [agents |-> 2, disturb |-> 0, who |-> {}]}

CONSTANTS i1, o1, o2
FwdInstances == {[use |-> {i1}, machine |-> {}, ready |-> 2, limit |-> 1],
                 [use |-> {i1, o1}, machine |-> {i1}, ready |-> 1, limit |-> 1]}

Parts == {"store", "forwards"}

IdleScenarios == CHOOSE s \in Scenarios : TRUE
IdleFwdScopes == CHOOSE s \in FwdScopes : TRUE

LiveInit ==
  /\ part \in Parts
  /\ (part # "store" => scenario = IdleScenarios) /\ StoreInit
  /\ (part # "forwards" => fwdScope = IdleFwdScopes) /\ FwdInit

LiveNext ==
  \/ part = "store" /\ StoreNext /\ UNCHANGED <<part, fwdVars>>
  \/ part = "forwards" /\ FwdNext /\ UNCHANGED <<part, storeVars>>

LiveVars == <<part, storeVars, fwdVars>>

\* The runtime runs the threads, and the guest task polls its supervisors in
\* turn: one that is ready again and again makes progress (SF).  A live agent
\* sends heartbeats, and an attempt ends within its budget.  Nothing says that
\* the guest becomes ready, that the VM stops or that a waiter gives up.
StoreFair ==
  /\ \A t \in Threads : WF_stepVars(part = "store" /\ Publish(t))
  /\ SF_stepVars(part = "store" /\ (StatusConnects \/ StatusEnds))
  /\ SF_stepVars(part = "store" /\ StatusReceived)
  /\ SF_stepVars(part = "store" /\ (SshLooks \/ SshInvalidated))
  /\ SF_stepVars(part = "store" /\ (SshVerified \/ SshFailed))
  /\ WF_stepVars(part = "store" /\ WaitLooks)

\* The tasks of the monitor run; the ready agent, the clients, the guest's
\* answers to Listen and the 30 seconds of a parked connection are left open.
FwdFair ==
  /\ WF_workVars(part = "forwards" /\ (SupTop \/ SupEntries \/ SupEach \/ SupChanged \/ SupChecked))
  /\ WF_workVars(part = "forwards" /\ ShutdownCloses)
  /\ \A f \in Fwd :
       /\ WF_workVars(part = "forwards" /\ (OpenFails(f) \/ OpenLists(f) \/ OpenApplies(f) \/ RemoveDone(f)))
       /\ WF_workVars(part = "forwards" /\ ServeChanged(f))

LiveSpec == LiveInit /\ [][LiveNext]_LiveVars /\ StoreFair /\ FwdFair

==============================================================================
