-------------------------- MODULE AutomationProofs --------------------------
(***************************************************************************)
(* Running scripts, for any number of batches, tasks, devices and any      *)
(* scripts: the scheduler by itself, its implementation by the calls of    *)
(* ExecuteScript, and the reports and the clean-up of the runners.         *)
(***************************************************************************)
EXTENDS Automation, TLAPS

-----------------------------------------------------------------------------
(* The scheduler by itself.                                                *)

\* A task that holds its device has marked it busy: this makes the check in
\* Acquire sufficient.
HeldIsBusy == \A t \in Task : Holds(t) => SerialOf[t] \in activeRuns

\* A goroutine that is done has stored its result, and a batch that has
\* returned has only such goroutines.
DoneHasResult ==
  /\ \A t \in Task : pc[t] \in {"reported", "done"} => result[t] # "none"
  /\ \A b \in Batch, t \in Task :
       called[b] = "returned" /\ BatchOf[t] = b => pc[t] = "done"

SchedInv ==
  /\ SchedTypeOK
  /\ HeldIsBusy
  /\ OneTaskPerDevice
  /\ BusyHasTask
  /\ DoneHasResult

\* RunParallel spawns goroutines of its own batch only, none of which was
\* alive before.
LEMMA SpawnFresh ==
  ASSUME SchedInv, NEW b \in Batch, RunParallel(b),
         \A t \in Task : BatchOf[t] = b => pc[t] = "unborn"
  PROVE  SchedInv'
<1> USE SchedulerAssumption
    DEF SchedInv, SchedTypeOK, TaskPC, HeldIsBusy, Holds, OneTaskPerDevice,
        BusyHasTask, DoneHasResult, RunParallel
<1>1. \A t \in Task : Holds(t)' <=> Holds(t)
  OBVIOUS
<1>2. SchedTypeOK' /\ HeldIsBusy' /\ OneTaskPerDevice'
  BY <1>1
<1>3. BusyHasTask'
  BY <1>1
<1>4. DoneHasResult'
  OBVIOUS
<1> QED BY <1>2, <1>3, <1>4

\* Tasks of a batch that was not called have not been spawned.
NotCalledUnborn ==
  \A t \in Task : called[BatchOf[t]] = "no" => pc[t] = "unborn"

LEMMA SchedStep ==
  ASSUME SchedInv, NotCalledUnborn, SchedNext
  PROVE  SchedInv' /\ NotCalledUnborn'
<1> USE SchedulerAssumption
    DEF SchedInv, SchedTypeOK, TaskPC, HeldIsBusy, Holds, OneTaskPerDevice,
        BusyHasTask, DoneHasResult, NotCalledUnborn
<1>1. ASSUME NEW b \in Batch, RunParallel(b)
      PROVE  SchedInv' /\ NotCalledUnborn'
  <2>1. SchedInv'
    BY <1>1, SpawnFresh DEF RunParallel
  <2>2. NotCalledUnborn'
    BY <1>1 DEF RunParallel
  <2> QED BY <2>1, <2>2
<1>2. ASSUME NEW b \in Batch, Return(b)
      PROVE  SchedInv' /\ NotCalledUnborn'
  BY <1>2 DEF Return
<1>3. ASSUME NEW t \in Task, Refuse(t)
      PROVE  SchedInv' /\ NotCalledUnborn'
  <2>1. \A u \in Task : Holds(u)' <=> Holds(u)
    BY <1>3 DEF Refuse
  <2>2. BusyHasTask'
    BY <1>3, <2>1 DEF Refuse
  <2> QED BY <1>3, <2>1, <2>2 DEF Refuse
<1>4. ASSUME NEW t \in Task, Acquire(t)
      PROVE  SchedInv' /\ NotCalledUnborn'
  <2>1. \A u \in Task : u # t => (Holds(u)' <=> Holds(u))
    BY <1>4 DEF Acquire
  <2>2. Holds(t)' /\ \A u \in Task : Holds(u) => SerialOf[u] # SerialOf[t]
    BY <1>4 DEF Acquire
  <2>3. OneTaskPerDevice'
    BY <2>1, <2>2
  <2>4. BusyHasTask'
    <3> TAKE d \in activeRuns'
    <3>1. CASE d = SerialOf[t]
      BY <2>2, <3>1
    <3>2. CASE d # SerialOf[t]
      <4>1. PICK u \in Task : Holds(u) /\ SerialOf[u] = d
        BY <1>4, <3>2 DEF Acquire
      <4>2. u # t
        BY <3>2, <4>1
      <4> QED BY <2>1, <4>1, <4>2
    <3> QED BY <3>1, <3>2
  <2>5. SchedTypeOK' /\ HeldIsBusy' /\ DoneHasResult' /\ NotCalledUnborn'
    BY <1>4 DEF Acquire
  <2> QED BY <2>3, <2>4, <2>5
<1>5. ASSUME NEW t \in Task, Report(t)
      PROVE  SchedInv' /\ NotCalledUnborn'
  <2>1. \A u \in Task : Holds(u)' <=> Holds(u)
    BY <1>5 DEF Report
  <2>2. BusyHasTask'
    BY <1>5, <2>1 DEF Report
  <2> QED BY <1>5, <2>1, <2>2 DEF Report
<1>6. ASSUME NEW t \in Task, Unlock(t)
      PROVE  SchedInv' /\ NotCalledUnborn'
  <2>1. Holds(t) /\ ~Holds(t)' /\ \A u \in Task : u # t => (Holds(u)' <=> Holds(u))
    BY <1>6 DEF Unlock
  <2>2. HeldIsBusy'
    BY <1>6, <2>1 DEF Unlock
  <2>3. BusyHasTask'
    <3> TAKE d \in activeRuns'
    <3>1. d \in activeRuns /\ d # SerialOf[t]
      BY <1>6 DEF Unlock
    <3>2. PICK u \in Task : Holds(u) /\ SerialOf[u] = d
      BY <3>1
    <3> QED BY <2>1, <3>1, <3>2
  <2>4. SchedTypeOK' /\ OneTaskPerDevice' /\ DoneHasResult' /\ NotCalledUnborn'
    BY <1>6, <2>1 DEF Unlock
  <2> QED BY <2>2, <2>3, <2>4
<1> QED BY <1>1, <1>2, <1>3, <1>4, <1>5, <1>6 DEF SchedNext

\* RunParallel's promises hold for any batches, tasks and devices: one task
\* per device, no device left busy, all results stored on return.
THEOREM SchedulerSafety == SchedSpec => []BatchesSafe
<1>1. SchedInit => SchedInv /\ NotCalledUnborn
  BY SchedulerAssumption
  DEF SchedInit, SchedInv, SchedTypeOK, TaskPC, HeldIsBusy, Holds,
      OneTaskPerDevice, BusyHasTask, DoneHasResult, NotCalledUnborn
<1>2. ASSUME SchedInv, NotCalledUnborn, UNCHANGED schedVars
      PROVE  SchedInv' /\ NotCalledUnborn'
  BY <1>2 DEF schedVars, SchedInv, SchedTypeOK, HeldIsBusy, Holds,
              OneTaskPerDevice, BusyHasTask, DoneHasResult, NotCalledUnborn
<1>3. SchedInv /\ NotCalledUnborn /\ [SchedNext]_schedVars
      => SchedInv' /\ NotCalledUnborn'
  BY <1>2, SchedStep
<1>4. SchedInv => BatchesSafe
  BY DEF SchedInv, DoneHasResult, ResultsComplete, BatchesSafe
<1> QED BY <1>1, <1>3, <1>4, PTL DEF SchedSpec

-----------------------------------------------------------------------------
(* The scheduler, the calls and the runners.                               *)

\* A runner, a provider or a screen never touches the scheduler's state; the
\* calls of ExecuteScript touch it as Report does.
LEMMA AutoStepSimulates ==
  ASSUME [AutoNext]_autoVars
  PROVE  [SchedNext]_schedVars
<1>1. CASE SchedulerStep
  BY <1>1 DEF SchedulerStep, SchedNext
<1>2. ASSUME NEW t \in Task, ExecuteRefused(t) \/ ExecuteReturns(t) \/ ExecuteAbandoned(t)
      PROVE  SchedNext
  BY <1>2 DEF ExecuteRefused, ExecuteReturns, ExecuteAbandoned, SchedNext
<1>3. ASSUME NEW t \in Task, ExecuteScript(t) \/ ProviderNotices(t) \/ RunnerStep(t)
      PROVE  UNCHANGED schedVars
  BY <1>3 DEF ExecuteScript, ProviderNotices, RunnerStep
<1>4. ASSUME NEW d \in Device, Flip(d), UNCHANGED <<schedVars, rpc>>
      PROVE  UNCHANGED schedVars
  BY <1>4
<1>5. CASE UNCHANGED autoVars
  BY <1>5 DEF autoVars
<1> QED BY <1>1, <1>2, <1>3, <1>4, <1>5 DEF AutoNext

-----------------------------------------------------------------------------
Point == {"off", "step", "do", "locators", "coords", "failed", "cleanup",
          "returned"}

\* A step of a runner moves no other runner, and only one that is active.
LEMMA RunStepLocal ==
  ASSUME at \in [Run -> Point], NEW r \in Run, RunStep(r)
  PROVE  /\ Active(r)
         /\ at' \in [Run -> Point]
         /\ \A u \in Run : u # r => at'[u] = at[u]
<1> USE DEF Goto, Active, Point
<1>1. ASSUME NEW rest, Passed(r, rest)
      PROVE  at' \in [Run -> Point] /\ \A u \in Run : u # r => at'[u] = at[u]
  BY <1>1 DEF Passed
<1>2. ASSUME Failed(r)
      PROVE  at' \in [Run -> Point] /\ \A u \in Run : u # r => at'[u] = at[u]
  BY <1>2 DEF Failed
<1>3. CASE Attempt(r) \/ StepFailed(r) \/ Cleanup(r)
  BY <1>3 DEF Attempt, StepFailed, Cleanup
<1>4. CASE Launch(r) \/ Terminate(r) \/ Swipe(r) \/ Input(r) \/ If(r)
  BY <1>1, <1>2, <1>4 DEF Launch, Terminate, Swipe, Input, If, Doing
<1>5. CASE Wait(r) \/ AssertSees(r) \/ AssertEnds(r)
  BY <1>1, <1>2, <1>5 DEF Wait, AssertSees, AssertEnds, Doing
<1>6. CASE ClickSearch(r) \/ ClickCancelled(r) \/ ClickTarget(r)
  BY <1>1, <1>2, <1>6 DEF ClickSearch, ClickCancelled, ClickTarget, Searching, Tap, Doing
<1>7. CASE ClickLocators(r)
  BY <1>1, <1>2, <1>7 DEF ClickLocators, Doing, stepVars
<1>8. CASE ClickLegacy(r) \/ ClickCoords(r)
  BY <1>1, <1>2, <1>8 DEF ClickLegacy, ClickCoords, Tap, Doing
<1> QED BY <1>3, <1>4, <1>5, <1>6, <1>7, <1>8 DEF RunStep, StepAction

\* An open call belongs to a task that runs, and the call of an active
\* runner is open or abandoned: with the scheduler's own invariant this gives OverlapOnlyAbandoned.
CallInv ==
  /\ at \in [Run -> Point]
  /\ rpc \in [Task -> {"none", "open", "closed", "abandoned"}]
  /\ \A t \in Task : rpc[t] = "open" => pc[t] = "running"
  /\ \A t \in Task : Active(t) => rpc[t] \in {"open", "abandoned"}

LEMMA CallStep ==
  ASSUME CallInv, SchedTypeOK, NotCalledUnborn, [AutoNext]_autoVars
  PROVE  CallInv'
<1> USE AutomationAssumption, SchedulerAssumption
    DEF CallInv, Active, SchedTypeOK, TaskPC, NotCalledUnborn
<1>1. CASE SchedulerStep
  <2>1. at' = at /\ rpc' = rpc
    BY <1>1 DEF SchedulerStep, runVars
  <2>2. \A t \in Task : pc[t] = "running" => pc'[t] = "running"
    BY <1>1 DEF SchedulerStep, RunParallel, Return, Refuse, Acquire, Unlock
  <2> QED BY <2>1, <2>2
<1>2. ASSUME NEW t \in Task, ExecuteRefused(t) \/ ExecuteReturns(t) \/ ExecuteAbandoned(t)
      PROVE  CallInv'
  BY <1>2 DEF ExecuteRefused, ExecuteReturns, ExecuteAbandoned, Report, SetRpc, runVars
<1>3. ASSUME NEW t \in Task, ExecuteScript(t)
      PROVE  CallInv'
  BY <1>3 DEF ExecuteScript, Start, Goto, SetRpc, schedVars, Point
<1>4. ASSUME NEW t \in Task, ProviderNotices(t)
      PROVE  CallInv'
  BY <1>4 DEF ProviderNotices, Cancel, schedVars
<1>5. ASSUME NEW t \in Task, RunnerStep(t)
      PROVE  CallInv'
  <2>1. /\ Active(t)
        /\ at' \in [Run -> Point]
        /\ \A u \in Run : u # t => at'[u] = at[u]
    BY <1>5, RunStepLocal DEF RunnerStep
  <2>2. pc' = pc /\ rpc' = rpc
    BY <1>5 DEF RunnerStep, schedVars
  <2> QED BY <2>1, <2>2
<1>6. ASSUME NEW d \in Device, Flip(d), UNCHANGED <<schedVars, rpc>>
      PROVE  CallInv'
  BY <1>6 DEF Flip, schedVars
<1>7. CASE UNCHANGED autoVars
  BY <1>7 DEF autoVars, schedVars, runVars
<1> QED BY <1>1, <1>2, <1>3, <1>4, <1>5, <1>6, <1>7 DEF AutoNext

\* Two runners meet on a device only after the coordinator has given one of
\* them up, for any tasks, scripts, faults and screens.
THEOREM OverlapSafety == AutoSpec => []OverlapOnlyAbandoned
<1>1. AutoInit => CallInv /\ SchedInv /\ NotCalledUnborn
  <2>1. AutoInit => CallInv
    BY AutomationAssumption DEF AutoInit, RunInit, CallInv, Active, Point
  <2>2. SchedInit => SchedInv /\ NotCalledUnborn
    BY SchedulerAssumption
    DEF SchedInit, SchedInv, SchedTypeOK, TaskPC, HeldIsBusy, Holds,
        OneTaskPerDevice, BusyHasTask, DoneHasResult, NotCalledUnborn
  <2> QED BY <2>1, <2>2 DEF AutoInit
<1>2. ASSUME SchedInv, NotCalledUnborn, [SchedNext]_schedVars
      PROVE  SchedInv' /\ NotCalledUnborn'
  <2>1. CASE UNCHANGED schedVars
    BY <1>2, <2>1
    DEF schedVars, SchedInv, SchedTypeOK, HeldIsBusy, Holds, OneTaskPerDevice,
        BusyHasTask, DoneHasResult, NotCalledUnborn
  <2> QED BY <1>2, <2>1, SchedStep
<1>3. CallInv /\ SchedInv /\ NotCalledUnborn /\ [AutoNext]_autoVars
      => CallInv' /\ SchedInv' /\ NotCalledUnborn'
  BY <1>2, AutoStepSimulates, CallStep DEF SchedInv
<1>4. CallInv /\ SchedInv => OverlapOnlyAbandoned
  BY DEF CallInv, SchedInv, OneTaskPerDevice, Holds, OverlapOnlyAbandoned
<1> QED BY <1>1, <1>3, <1>4, PTL DEF AutoSpec

-----------------------------------------------------------------------------
(* The runners.                                                            *)

Doings == {"do", "locators", "coords"}

\* One more step of the script has passed.
StepPassed(r) ==
  /\ at[r] \in Doings /\ at' = [at EXCEPT ![r] = "step"]
  /\ results' = [results EXCEPT ![r] = Append(@, TRUE)]
  /\ LET s == script[r][step[r]] IN
       launched' = [launched EXCEPT ![r] =
                      @ \cup IF s.kind = "launch" THEN {s.package} ELSE {}]
  /\ step' = [step EXCEPT ![r] = @ + 1]

\* Nothing is reported: the step goes on, is tried again or has failed.
StepGoesOn(r) ==
  /\ at[r] \in Doings
  /\ \E l \in Doings \cup {"step", "failed"} : at' = [at EXCEPT ![r] = l]
  /\ UNCHANGED <<step, results, launched>>

\* Only run r starts applications in its name.
AppsOf(r) ==
  /\ DOMAIN apps' = DOMAIN apps
  /\ \A d \in Phone : \A a \in apps'[d] : a \in apps[d] \/ a[2] = r

\* Whatever the handlers of a step do, it passes once or is not reported yet.
LEMMA HandlersStep ==
  ASSUME at \in [Run -> Point], DOMAIN apps = Phone, faults \in Nat, NEW r \in Run, StepAction(r)
  PROVE  /\ StepPassed(r) \/ StepGoesOn(r)
         /\ AppsOf(r) /\ faults' \in {faults, faults + 1} /\ script' = script
<1> USE DEF Goto, Doings
<1>1. ASSUME NEW rest, at[r] \in Doings, Passed(r, rest)
      PROVE  (StepPassed(r) \/ StepGoesOn(r)) /\ script' = script
  BY <1>1 DEF Passed, StepPassed, StepGoesOn, reportVars
<1>2. ASSUME at[r] \in Doings, Failed(r)
      PROVE  StepGoesOn(r) /\ script' = script
  BY <1>2 DEF Failed, StepGoesOn, reportVars
<1>3. Succeeds(r) \/ Fails(r) \/ UNCHANGED faults => faults' \in {faults, faults + 1}
  BY DEF Succeeds, Fails
<1>4. UNCHANGED apps => AppsOf(r)
  BY DEF AppsOf
<1>5. PhoneOf[r] \in Phone
  BY RunnerAssumption
<1>6. ASSUME NEW p PROVE /\ apps' = With(PhoneOf[r], p, r) => AppsOf(r)
                         /\ apps' = Without(PhoneOf[r], p) => AppsOf(r)
  BY <1>5 DEF AppsOf, With, Without
<1>7. CASE Launch(r)
  <2>1. at[r] \in Doings
    BY <1>7 DEF Launch, Doing
  <2> QED BY <1>1, <1>2, <1>3, <1>4, <1>6, <1>7, <2>1 DEF Launch
<1>8. CASE Terminate(r)
  <2>1. at[r] \in Doings
    BY <1>8 DEF Terminate, Doing
  <2> QED BY <1>1, <1>2, <1>3, <1>4, <1>6, <1>8, <2>1 DEF Terminate
<1>9. CASE Swipe(r) \/ Input(r) \/ If(r)
  <2>1. at[r] \in Doings
    BY <1>9 DEF Swipe, Input, If, Doing
  <2>2. /\ Failed(r) \/ \E rest : Passed(r, rest)
        /\ Succeeds(r) \/ Fails(r) \/ UNCHANGED faults
        /\ UNCHANGED apps
    BY <1>9 DEF Swipe, Input, If
  <2> QED BY <1>1, <1>2, <1>3, <1>4, <2>1, <2>2
<1>10. CASE Wait(r) \/ AssertEnds(r)
  <2>1. at[r] \in Doings
    BY <1>10 DEF Wait, AssertEnds, Doing
  <2>2. /\ Passed(r, Tail(todo[r])) \/ Failed(r)
        /\ Fails(r) \/ UNCHANGED faults
        /\ UNCHANGED apps
    BY <1>10 DEF Wait, AssertEnds
  <2> QED BY <1>1, <1>2, <1>3, <1>4, <2>1, <2>2
<1>11. CASE AssertSees(r)
  <2>1. at[r] = "do" /\ at' = at /\ UNCHANGED <<step, results, launched, script, apps, faults>>
    BY <1>11 DEF AssertSees, Doing, reportVars, deviceVars
  <2>2. at' = [at EXCEPT ![r] = "do"]
    BY <2>1
  <2> QED BY <1>3, <1>4, <2>1, <2>2 DEF StepGoesOn
<1>12. CASE ClickSearch(r)
  <2>1. /\ at[r] = "do" /\ UNCHANGED <<step, results, launched, script, apps, faults>>
        /\ at' = at \/ \E l \in Doings : at' = [at EXCEPT ![r] = l]
    BY <1>12 DEF ClickSearch, Searching, Doing, reportVars
  <2>2. at' = at => at' = [at EXCEPT ![r] = "do"]
    BY <2>1
  <2> QED BY <1>3, <1>4, <2>1, <2>2 DEF StepGoesOn
<1>13. CASE ClickCancelled(r) \/ ClickTarget(r)
  <2>1. at[r] \in Doings
    BY <1>13 DEF ClickCancelled, ClickTarget, Searching, Doing
  <2> QED BY <1>1, <1>2, <1>3, <1>4, <1>13, <2>1 DEF ClickCancelled, ClickTarget, Tap, deviceVars
<1>14. CASE ClickLocators(r)
  <2>1. at[r] \in Doings
    BY <1>14 DEF ClickLocators, Doing
  <2>2. ASSUME Goto(r, "coords"), UNCHANGED <<script, stepVars, reportVars, cancelled>>
        PROVE  StepGoesOn(r) /\ script' = script
    BY <2>1, <2>2 DEF StepGoesOn, stepVars, reportVars
  <2>3. ASSUME UNCHANGED <<script, at, step, attempt, todo, matched, reportVars, cancelled,
                           faults>>
        PROVE  StepGoesOn(r) /\ script' = script
    <3>1. at' = [at EXCEPT ![r] = at[r]]
      BY <2>3
    <3> QED BY <2>1, <2>3, <3>1 DEF StepGoesOn, reportVars
  <2> HIDE DEF Goto
  <2>4. /\ StepPassed(r) \/ StepGoesOn(r)
        /\ Succeeds(r) \/ Fails(r) \/ UNCHANGED faults
        /\ script' = script /\ UNCHANGED apps
    BY <1>1, <1>2, <1>14, <2>1, <2>2, <2>3 DEF ClickLocators
  <2> QED BY <1>3, <1>4, <2>4
<1>15. CASE ClickLegacy(r) \/ ClickCoords(r)
  <2>1. at[r] \in Doings
    BY <1>15 DEF ClickLegacy, ClickCoords, Doing
  <2>2. ASSUME Goto(r, "coords"), UNCHANGED <<script, stepVars, reportVars, cancelled, faults>>
        PROVE  StepGoesOn(r) /\ script' = script
    BY <2>1, <2>2 DEF StepGoesOn, stepVars, reportVars
  <2> HIDE DEF Goto
  <2>3. /\ \/ Passed(r, Tail(todo[r])) \/ Failed(r)
           \/ Goto(r, "coords") /\ UNCHANGED <<script, stepVars, reportVars, cancelled, faults>>
        /\ Succeeds(r) \/ Fails(r) \/ UNCHANGED faults
        /\ UNCHANGED apps
    BY <1>15 DEF ClickLegacy, ClickCoords, Tap
  <2> QED BY <1>1, <1>2, <1>3, <1>4, <2>1, <2>2, <2>3
<1> QED BY <1>7, <1>8, <1>9, <1>10, <1>11, <1>12, <1>13, <1>14, <1>15 DEF StepAction

\* The report so far: up to the step at hand all steps have passed; once the loop
\* is left, either the last one failed or the script is at its end.
Reported(r) ==
  LET n == Len(results[r]) IN
  /\ at[r] \in {"cleanup", "returned"} =>
       \/ n = Len(script[r]) /\ \A k \in 1..n : results[r][k]
       \/ n # 0 /\ ~results[r][n] /\ \A k \in 1..n : k # n => results[r][k]
  /\ at[r] \notin {"cleanup", "returned"} =>
       n = step[r] - 1 /\ n <= Len(script[r]) /\ \A k \in 1..n : results[r][k]
  /\ at[r] \in Doings \cup {"failed"} => n < Len(script[r])

\* What the clean-up will stop, and has stopped.
Recorded(r) ==
  /\ \A k \in 1..Len(results[r]) :
       script[r][k].kind = "launch" /\ results[r][k] => script[r][k].package \in launched[r]
  /\ at[r] = "returned" /\ faults = 0 =>
       \A p \in launched[r] : <<p, r>> \notin apps[PhoneOf[r]]

RunnersInv ==
  /\ at \in [Run -> Point]
  /\ DOMAIN apps = Phone /\ launched = [r \in Run |-> launched[r]] /\ faults \in Nat
  /\ step \in [Run -> Nat] /\ results \in [Run -> Seq(BOOLEAN)]
  /\ \A r \in Run : Len(script[r]) \in Nat
  /\ \A r \in Run : Reported(r) /\ Recorded(r)

\* What a step of run r leaves alone.
LEMMA OtherRuns ==
  ASSUME RunnersInv, NEW r \in Run, script' = script, AppsOf(r),
         faults' \in {faults, faults + 1}, NEW l \in Point, at' = [at EXCEPT ![r] = l],
         NEW n \in Nat, step' = [step EXCEPT ![r] = n],
         NEW s \in Seq(BOOLEAN), results' = [results EXCEPT ![r] = s],
         NEW ps, launched' = [launched EXCEPT ![r] = ps],
         (Reported(r) /\ Recorded(r))'
  PROVE  RunnersInv'
<1> USE DEF RunnersInv
<1>1. PhoneOf \in [Run -> Phone]
  BY RunnerAssumption
<1>2. /\ at' \in [Run -> Point] /\ DOMAIN apps' = Phone /\ (launched = [u \in Run |-> launched[u]])'
      /\ faults' \in Nat /\ step' \in [Run -> Nat] /\ results' \in [Run -> Seq(BOOLEAN)]
  <2>1. launched' = [u \in Run |-> IF u = r THEN ps ELSE launched[u]]
    OBVIOUS
  <2>2. (launched = [u \in Run |-> launched[u]])'
    BY <2>1
  <2>3. at' \in [Run -> Point] /\ DOMAIN apps' = Phone /\ faults' \in Nat
    BY DEF AppsOf
  <2>4. step' \in [Run -> Nat] /\ results' \in [Run -> Seq(BOOLEAN)]
    OBVIOUS
  <2> QED BY <2>2, <2>3, <2>4
<1>3. ASSUME NEW u \in Run, u # r PROVE (Reported(u) /\ Recorded(u))'
  <2>1. /\ at'[u] = at[u] /\ step'[u] = step[u] /\ results'[u] = results[u]
        /\ launched'[u] = launched[u]
    BY <1>3
  <2>2. Reported(u)'
    BY <2>1 DEF Reported
  <2>3. ASSUME NEW p, <<p, u>> \notin apps[PhoneOf[u]] PROVE <<p, u>> \notin apps'[PhoneOf[u]]
    <3>1. PhoneOf[u] \in Phone /\ <<p, u>>[2] = u
      BY <1>1
    <3> QED BY <1>3, <2>3, <3>1 DEF AppsOf
  <2>4. faults' = 0 => faults = 0
    OBVIOUS
  <2> QED BY <2>1, <2>2, <2>3, <2>4 DEF Recorded
<1> QED BY <1>2, <1>3

LEMMA RunnersStep ==
  ASSUME RunnersInv, NEW r \in Run, RunStep(r)
  PROVE  RunnersInv'
<1> USE DEF RunnersInv
<1>0. /\ at[r] \in Point /\ step[r] \in Nat /\ results[r] \in Seq(BOOLEAN)
      /\ Len(results[r]) \in Nat /\ Len(script[r]) \in Nat /\ Reported(r) /\ Recorded(r)
      /\ PhoneOf[r] \in Phone
  BY RunnerAssumption
<1>1. /\ step = [step EXCEPT ![r] = step[r]] /\ results = [results EXCEPT ![r] = results[r]]
      /\ launched = [launched EXCEPT ![r] = launched[r]] /\ (UNCHANGED apps => AppsOf(r))
  BY DEF AppsOf
<1>2. CASE StepPassed(r) /\ AppsOf(r) /\ faults' \in {faults, faults + 1} /\ script' = script
  <2> DEFINE s == Append(results[r], TRUE)
             k == step[r]
             ps == launched[r] \cup IF script[r][k].kind = "launch" THEN {script[r][k].package} ELSE {}
  <2>1. /\ at' = [at EXCEPT ![r] = "step"] /\ step' = [step EXCEPT ![r] = k + 1]
        /\ results' = [results EXCEPT ![r] = s] /\ launched' = [launched EXCEPT ![r] = ps]
    BY <1>2 DEF StepPassed
  <2>2. /\ at'[r] = "step" /\ step'[r] = k + 1 /\ results'[r] = s /\ launched'[r] = ps
    BY <2>1
  <2>3. /\ s \in Seq(BOOLEAN) /\ Len(s) = Len(results[r]) + 1
        /\ \A i \in 1..Len(results[r]) : s[i] = results[r][i]
        /\ s[Len(results[r]) + 1] = TRUE
    BY <1>0
  <2>4. /\ Len(results[r]) = k - 1 /\ Len(results[r]) < Len(script[r])
        /\ \A i \in 1..Len(results[r]) : results[r][i]
    BY <1>0, <1>2 DEF StepPassed, Reported, Doings
  <2> HIDE DEF s
  <2>5. Reported(r)'
    <3>1. \A i \in 1..Len(s) : s[i]
      <4> TAKE i \in 1..Len(s)
      <4>1. i \in 1..Len(results[r]) \/ i = Len(results[r]) + 1
        BY <1>0, <2>3
      <4> QED BY <2>3, <2>4, <4>1
    <3> QED BY <1>0, <1>2, <2>2, <2>3, <2>4, <3>1 DEF Reported, Doings
  <2>6. Recorded(r)'
    <3>1. ASSUME NEW i \in 1..Len(s), script[r][i].kind = "launch"
          PROVE  script[r][i].package \in ps
      <4>1. CASE i = k
        BY <3>1, <4>1
      <4>2. CASE i # k
        <5>1. i \in 1..Len(results[r])
          BY <1>0, <2>3, <2>4, <4>2
        <5> QED BY <1>0, <2>4, <3>1, <5>1 DEF Recorded
      <4> QED BY <4>1, <4>2
    <3> HIDE DEF ps, k
    <3> QED BY <1>2, <2>2, <3>1 DEF Recorded
  <2>7. k + 1 \in Nat /\ "step" \in Point
    BY <1>0 DEF Point
  <2> HIDE DEF ps, k
  <2> QED BY <1>2, <2>1, <2>3, <2>5, <2>6, <2>7, OtherRuns
<1>3. CASE StepGoesOn(r) /\ AppsOf(r) /\ faults' \in {faults, faults + 1} /\ script' = script
  <2>1. PICK l \in Doings \cup {"step", "failed"} : at' = [at EXCEPT ![r] = l]
    BY <1>3 DEF StepGoesOn
  <2>2. UNCHANGED <<step, results, launched>> /\ at[r] \in Doings /\ l \in Point
    BY <1>3 DEF StepGoesOn, Doings, Point
  <2>3. at'[r] = l
    BY <2>1
  <2>4. (Reported(r) /\ Recorded(r))'
    BY <1>0, <1>3, <2>2, <2>3 DEF Reported, Recorded, Doings
  <2> QED BY <1>0, <1>1, <1>3, <2>1, <2>2, <2>4, OtherRuns
<1>4. CASE Attempt(r)
  <2>1. PICK l \in {"cleanup", "failed", "do"} :
          /\ at' = [at EXCEPT ![r] = l]
          /\ (l = "cleanup") <=> (step[r] > Len(script[r]))
    BY <1>4 DEF Attempt, Goto
  <2>2. at[r] = "step" /\ UNCHANGED <<step, results, launched, script, apps, faults>>
    BY <1>4 DEF Attempt, reportVars, deviceVars
  <2>3. at'[r] = l /\ l \in Point
    BY <2>1 DEF Point
  <2>4. (Reported(r) /\ Recorded(r))'
    BY <1>0, <2>1, <2>2, <2>3 DEF Reported, Recorded, Doings
  <2> QED BY <1>0, <1>1, <2>1, <2>2, <2>3, <2>4, OtherRuns
<1>5. CASE StepFailed(r)
  <2> DEFINE s == Append(results[r], FALSE)
  <2>1. /\ at' = [at EXCEPT ![r] = "cleanup"] /\ results' = [results EXCEPT ![r] = s]
        /\ at[r] = "failed" /\ UNCHANGED <<step, launched, script, apps, faults>>
    BY <1>5 DEF StepFailed, Goto, stepVars, deviceVars
  <2>2. at'[r] = "cleanup" /\ results'[r] = s
    BY <2>1
  <2>3. /\ s \in Seq(BOOLEAN) /\ Len(s) = Len(results[r]) + 1
        /\ \A i \in 1..Len(results[r]) : s[i] = results[r][i]
        /\ s[Len(results[r]) + 1] = FALSE
    BY <1>0
  <2> HIDE DEF s
  <2>4. \A i \in 1..Len(s) : i # Len(s) => i \in 1..Len(results[r]) /\ s[i]
    <3>1. \A i \in 1..Len(results[r]) : results[r][i]
      BY <1>0, <2>1 DEF Reported
    <3>2. \A i \in 1..Len(s) : i # Len(s) => i \in 1..Len(results[r])
      BY <1>0, <2>3
    <3> QED BY <2>3, <3>1, <3>2
  <2>5. Reported(r)'
    BY <1>0, <2>1, <2>2, <2>3, <2>4 DEF Reported, Doings
  <2>6. Recorded(r)'
    <3>1. ASSUME NEW i \in 1..Len(s), script[r][i].kind = "launch", s[i]
          PROVE  script[r][i].package \in launched[r]
      <4>1. i # Len(s)
        BY <1>0, <2>3, <3>1
      <4>2. i \in 1..Len(results[r]) /\ results[r][i]
        BY <2>3, <2>4, <3>1, <4>1
      <4> QED BY <1>0, <3>1, <4>2 DEF Recorded
    <3> QED BY <2>1, <2>2, <3>1 DEF Recorded
  <2> QED BY <1>0, <1>1, <2>1, <2>3, <2>5, <2>6, OtherRuns DEF Point
<1>6. CASE Cleanup(r)
  <2>1. /\ at' = [at EXCEPT ![r] = "returned"] /\ at[r] = "cleanup"
        /\ UNCHANGED <<step, results, launched, script>>
        /\ faults' \in {faults, faults + 1} /\ DOMAIN apps' = Phone
        /\ \A d \in Phone : apps'[d] \subseteq apps[d]
    <3>1. /\ at' = [at EXCEPT ![r] = "returned"] /\ at[r] = "cleanup"
          /\ UNCHANGED <<step, results, launched, script>>
          /\ faults' \in {faults, faults + 1}
      BY <1>6 DEF Cleanup, Goto, stepVars, reportVars
    <3>2. \E x \in SUBSET apps[PhoneOf[r]] : apps' = [apps EXCEPT ![PhoneOf[r]] = x]
      BY <1>6 DEF Cleanup, Unstopped
    <3> QED BY <1>0, <3>1, <3>2
  <2>2. at'[r] = "returned" /\ AppsOf(r)
    BY <2>1 DEF AppsOf
  <2>3. ASSUME faults' = 0, NEW p \in launched[r] PROVE <<p, r>> \notin apps'[PhoneOf[r]]
    <3>1. apps' = [apps EXCEPT ![PhoneOf[r]] = @ \ Unstopped(r)]
      BY <1>6, <2>3 DEF Cleanup
    <3> QED BY <1>0, <2>3, <3>1 DEF Unstopped
  <2>4. (Reported(r) /\ Recorded(r))'
    BY <1>0, <2>1, <2>2, <2>3 DEF Reported, Recorded, Doings
  <2> QED BY <1>0, <1>1, <2>1, <2>2, <2>4, OtherRuns DEF Point
<1>7. CASE StepAction(r)
  BY <1>2, <1>3, <1>7, HandlersStep
<1> QED BY <1>4, <1>5, <1>6, <1>7 DEF RunStep

LEMMA RunnersInitInv == RunInit => RunnersInv
<1> SUFFICES ASSUME RunInit PROVE RunnersInv
  OBVIOUS
<1>1. \A r \in Run : Len(script[r]) \in Nat
  BY RunnerAssumption DEF RunInit
<1>2. /\ at \in [Run -> Point] /\ DOMAIN apps = Phone /\ launched = [r \in Run |-> launched[r]]
      /\ faults \in Nat /\ step \in [Run -> Nat] /\ results \in [Run -> Seq(BOOLEAN)]
  BY DEF RunInit, Point
<1>3. ASSUME NEW r \in Run PROVE Reported(r) /\ Recorded(r)
  BY <1>1 DEF RunInit, Reported, Recorded, Doings
<1> QED BY <1>1, <1>2, <1>3 DEF RunnersInv

LEMMA RunnersAutoStep == RunnersInv /\ [AutoNext]_autoVars => RunnersInv'
<1> SUFFICES ASSUME RunnersInv, [AutoNext]_autoVars PROVE RunnersInv'
  OBVIOUS
<1>1. ASSUME UNCHANGED <<script, at, step, results, launched, apps, faults>>
      PROVE  RunnersInv'
  BY <1>1 DEF RunnersInv, Reported, Recorded
<1>2. CASE SchedulerStep \/ UNCHANGED autoVars
  BY <1>1, <1>2 DEF SchedulerStep, autoVars, runVars, stepVars, reportVars, deviceVars
<1>3. ASSUME NEW t \in Task, \/ ExecuteRefused(t) \/ ExecuteReturns(t) \/ ExecuteAbandoned(t)
                             \/ ProviderNotices(t)
      PROVE  RunnersInv'
  BY <1>1, <1>3 DEF ExecuteRefused, ExecuteReturns, ExecuteAbandoned, ProviderNotices, Cancel,
                    runVars, stepVars, reportVars, deviceVars
<1>4. ASSUME NEW t \in Task, ExecuteScript(t) PROVE RunnersInv'
  <2>1. /\ t \in Run /\ at' = [at EXCEPT ![t] = "step"] /\ at[t] = "off"
        /\ UNCHANGED <<script, step, results, launched, apps, faults>>
    BY <1>4, AutomationAssumption
       DEF ExecuteScript, Start, Goto, stepVars, reportVars, deviceVars
  <2>2. at' \in [Run -> Point]
    BY <2>1 DEF RunnersInv, Point
  <2>3. ASSUME NEW r \in Run PROVE (Reported(r) /\ Recorded(r))'
    BY <2>1 DEF RunnersInv, Reported, Recorded, Doings
  <2> QED BY <2>1, <2>2, <2>3 DEF RunnersInv
<1>5. ASSUME NEW t \in Task, RunnerStep(t) PROVE RunnersInv'
  BY <1>5, RunnersStep, AutomationAssumption DEF RunnerStep
<1>6. ASSUME NEW d \in Device, Flip(d) PROVE RunnersInv'
  BY <1>1, <1>6 DEF Flip, stepVars, reportVars
<1> QED BY <1>2, <1>3, <1>4, <1>5, <1>6 DEF AutoNext

LEMMA RunnersInvariant == AutoSpec => []RunnersInv
<1>1. AutoInit => RunnersInv
  BY RunnersInitInv DEF AutoInit
<1> QED BY <1>1, RunnersAutoStep, PTL DEF AutoSpec

\* The report of a run that has returned is the script's: all its steps passed, or
\* the last one reported is the one that failed, for any scripts and screens.
THEOREM ReportsFaithful == AutoSpec => []ReportFaithful
<1>1. RunnersInv => ReportFaithful
  <2> SUFFICES ASSUME RunnersInv, NEW r \in Run, at[r] = "returned"
               PROVE  LET n == Len(results[r]) IN
                        /\ \A k \in 1..n : ~results[r][k] => k = n
                        /\ (\A k \in 1..n : results[r][k]) => n = Len(script[r])
    BY DEF ReportFaithful
  <2>1. Reported(r) /\ Len(results[r]) \in Nat
    BY DEF RunnersInv
  <2> QED BY <2>1 DEF Reported
<1> QED BY <1>1, RunnersInvariant, PTL

\* The deferred clean-up stops what the launch steps of the run started, unless a
\* driver call fails by itself, for any number of runs on the device.
THEOREM LaunchedStopped == AutoSpec => []LaunchedAppsStopped
<1>1. RunnersInv => LaunchedAppsStopped
  BY DEF RunnersInv, Recorded, LaunchedAppsStopped
<1> QED BY <1>1, RunnersInvariant, PTL
=============================================================================
