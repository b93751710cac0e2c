----------------------------- MODULE Scheduler -----------------------------
(***************************************************************************)
(* Scheduler.RunParallel (internal/automation/scheduler.go): batches of    *)
(* automation tasks, one goroutine per task, at most one task per device   *)
(* at a time.  Several calls of RunParallel share one Scheduler.           *)
(***************************************************************************)
CONSTANTS
  Task,        \* the tasks of all batches
  Batch,       \* calls of RunParallel
  Device,      \* device serials
  BatchOf,     \* the batch a task belongs to
  SerialOf     \* the device a task runs on

ASSUME SchedulerAssumption ==
  /\ BatchOf \in [Task -> Batch]
  /\ SerialOf \in [Task -> Device]

VARIABLES
  called,      \* per batch: "no", "waiting" in wg.Wait, "returned"
  pc,          \* per task: its goroutine
  activeRuns,  \* serials in the map Scheduler.activeRuns
  result       \* per task: "none", "busy", "report"

schedVars == <<called, pc, activeRuns, result>>

TaskPC == {"unborn", "spawned", "running", "reported", "done"}

SchedInit ==
  /\ called = [b \in Batch |-> "no"]
  /\ pc = [t \in Task |-> "unborn"]
  /\ activeRuns = {}
  /\ result = [t \in Task |-> "none"]

-----------------------------------------------------------------------------
RunParallel(b) ==
  /\ called[b] = "no"
  /\ called' = [called EXCEPT ![b] = "waiting"]
  /\ pc' = [t \in Task |-> IF BatchOf[t] = b THEN "spawned" ELSE pc[t]]
  /\ UNCHANGED <<activeRuns, result>>

\* The goroutine finds its device busy, under s.mu, and reports an error.
Refuse(t) ==
  /\ pc[t] = "spawned"
  /\ SerialOf[t] \in activeRuns
  /\ pc' = [pc EXCEPT ![t] = "done"]
  /\ result' = [result EXCEPT ![t] = "busy"]
  /\ UNCHANGED <<called, activeRuns>>

\* ... or marks the device busy and runs the script.
Acquire(t) ==
  /\ pc[t] = "spawned"
  /\ SerialOf[t] \notin activeRuns
  /\ pc' = [pc EXCEPT ![t] = "running"]
  /\ activeRuns' = activeRuns \cup {SerialOf[t]}
  /\ UNCHANGED <<called, result>>

\* ExecuteFn returns; its report or its error is the result.
Report(t) ==
  /\ pc[t] = "running"
  /\ pc' = [pc EXCEPT ![t] = "reported"]
  /\ result' = [result EXCEPT ![t] = "report"]
  /\ UNCHANGED <<called, activeRuns>>

\* Mutant of Unlock: the device stays marked busy.
MutUnlockNothing(t) ==
  /\ pc[t] = "reported"
  /\ pc' = [pc EXCEPT ![t] = "done"]
  /\ UNCHANGED <<called, activeRuns, result>>

\* The deferred functions: the device is free again, then wg.Done.
Unlock(t) ==
  /\ pc[t] = "reported"
  /\ pc' = [pc EXCEPT ![t] = "done"]
  /\ activeRuns' = activeRuns \ {SerialOf[t]}
  /\ UNCHANGED <<called, result>>

\* wg.Wait returns.
Return(b) ==
  /\ called[b] = "waiting"
  /\ \A t \in Task : BatchOf[t] = b => pc[t] = "done"
  /\ called' = [called EXCEPT ![b] = "returned"]
  /\ UNCHANGED <<pc, activeRuns, result>>

-----------------------------------------------------------------------------
SchedNext ==
  \/ \E b \in Batch : RunParallel(b) \/ Return(b)
  \/ \E t \in Task : Refuse(t) \/ Acquire(t) \/ Report(t) \/ Unlock(t)

SchedSpec == SchedInit /\ [][SchedNext]_schedVars

-----------------------------------------------------------------------------
SchedTypeOK ==
  /\ called \in [Batch -> {"no", "waiting", "returned"}]
  /\ pc \in [Task -> TaskPC]
  /\ activeRuns \subseteq Device
  /\ result \in [Task -> {"none", "busy", "report"}]

\* The task holds its device.
Holds(t) == pc[t] \in {"running", "reported"}

\* "only one task runs per device serial at a time" (scheduler.go), over the
\* tasks of one batch and of batches that run at the same time.
OneTaskPerDevice ==
  \A t, u \in Task : Holds(t) /\ Holds(u) /\ SerialOf[t] = SerialOf[u] => t = u

\* A device is marked busy only while one of its tasks holds it: no
\* interleaving leaves a device refused for ever.
BusyHasTask ==
  \A d \in activeRuns : \E t \in Task : Holds(t) /\ SerialOf[t] = d

\* When RunParallel returns, every result of its batch has been stored.
ResultsComplete ==
  \A b \in Batch, t \in Task :
    called[b] = "returned" /\ BatchOf[t] = b => result[t] # "none"

\* What RunParallel promises, whatever batches run at the same time.
BatchesSafe == OneTaskPerDevice /\ BusyHasTask /\ ResultsComplete
=============================================================================
