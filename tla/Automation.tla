----------------------------- MODULE Automation -----------------------------
(***************************************************************************)
(* handleRunScript end to end: the coordinator's Scheduler runs one task   *)
(* per device, the task's ExecuteFn calls ExecuteScript of the provider,   *)
(* and the provider's Runner executes the script.  The HTTP request may be *)
(* cancelled and the connection to the provider lost while the runner is   *)
(* at work.  The run of a task bears the task's name.                      *)
(***************************************************************************)
EXTENDS Scheduler, Runner

ASSUME AutomationAssumption ==
  /\ Run = Task
  /\ Phone = Device
  /\ PhoneOf = SerialOf

VARIABLE rpc  \* per task: the call is "none", "open", "closed" or "abandoned"

autoVars == <<schedVars, runVars, rpc>>

AutoInit ==
  /\ SchedInit
  /\ RunInit
  /\ rpc = [t \in Task |-> "none"]

SetRpc(t, v) == rpc' = [rpc EXCEPT ![t] = v]

\* No provider, no connection, or ExecuteScript fails before it runs.
ExecuteRefused(t) ==
  /\ rpc[t] = "none"
  /\ Report(t)
  /\ SetRpc(t, "closed")
  /\ UNCHANGED runVars

ExecuteScript(t) ==
  /\ pc[t] = "running"
  /\ rpc[t] = "none"
  /\ SetRpc(t, "open")
  /\ Start(t)
  /\ UNCHANGED schedVars

\* Mutant of ExecuteReturns: ExecuteScript answers before the run is over.
MutExecuteReturnsEarly(t) ==
  /\ rpc[t] = "open"
  /\ Report(t)
  /\ SetRpc(t, "closed")
  /\ UNCHANGED runVars

\* The run is over and its report is the task's.
ExecuteReturns(t) ==
  /\ rpc[t] = "open"
  /\ at[t] = "returned"
  /\ Report(t)
  /\ SetRpc(t, "closed")
  /\ UNCHANGED runVars

\* Mutant of ExecuteAbandoned: the task of a cancelled request ends without
\* its deferred functions.
MutExecuteAbandonedBusy(t) ==
  /\ rpc[t] = "open"
  /\ pc' = [pc EXCEPT ![t] = "done"]
  /\ result' = [result EXCEPT ![t] = "report"]
  /\ SetRpc(t, "abandoned")
  /\ UNCHANGED <<called, activeRuns, runVars>>

\* The call fails at once, at the coordinator, when the HTTP client is gone
\* (r.Context() is cancelled) or the connection to the provider breaks.
ExecuteAbandoned(t) ==
  /\ rpc[t] = "open"
  /\ Report(t)
  /\ SetRpc(t, "abandoned")
  /\ UNCHANGED runVars

\* The provider learns, later, that nobody waits for the run.
ProviderNotices(t) ==
  /\ rpc[t] = "abandoned"
  /\ Cancel(t)
  /\ UNCHANGED <<schedVars, rpc>>

SchedulerStep ==
  /\ \/ \E b \in Batch : RunParallel(b) \/ Return(b)
     \/ \E t \in Task : Refuse(t) \/ Acquire(t) \/ Unlock(t)
  /\ UNCHANGED <<runVars, rpc>>

RunnerStep(t) == RunStep(t) /\ UNCHANGED <<schedVars, rpc>>

AutoNext ==
  \/ SchedulerStep
  \/ \E t \in Task : \/ ExecuteRefused(t) \/ ExecuteScript(t) \/ ExecuteReturns(t)
                     \/ ExecuteAbandoned(t) \/ ProviderNotices(t) \/ RunnerStep(t)
  \/ \E d \in Device : Flip(d) /\ UNCHANGED <<schedVars, rpc>>

AutoSpec == AutoInit /\ [][AutoNext]_autoVars

\* A runner's goroutine is scheduled and its driver calls end.  Those of the steps
\* have the context of the call or a time limit; Terminate in the clean-up and
\* EnsureSession have none, and the code relies on the device to answer them.
FairAutoSpec == AutoSpec /\ \A t \in Task : WF_autoVars(RunnerStep(t))

-----------------------------------------------------------------------------
Active(t) == at[t] \notin {"off", "returned"}

\* Two runners work on one device only if the coordinator gave one of them
\* up: without cancellations and broken connections the scheduler's lock
\* covers the work on the device, clean-up included.
OverlapOnlyAbandoned ==
  \A t, u \in Task :
    t # u /\ SerialOf[t] = SerialOf[u] /\ Active(t) /\ Active(u) =>
      "abandoned" \in {rpc[t], rpc[u]}

\* "enforcing that only one task runs per device serial at a time"
\* (scheduler.go).  The code does not have this property once a request is
\* cancelled.
OneRunPerDevice ==
  \A t, u \in Task :
    SerialOf[t] = SerialOf[u] /\ Active(t) /\ Active(u) => t = u
=============================================================================
