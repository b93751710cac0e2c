------------------------------- MODULE Runner -------------------------------
(***************************************************************************)
(* Runner.Run (internal/automation): the provider executes scripts step by *)
(* step, with retries, polling, fallbacks and a clean-up, while the screen *)
(* of the device changes by itself, driver calls fail and the context of   *)
(* the call may be cancelled.                                              *)
(*                                                                         *)
(* All steps that look for an element look for the same one: an element is *)
(* on the screen or it is not.  Which elements match is the matter of the  *)
(* locator package.                                                        *)
(***************************************************************************)
EXTENDS Naturals, Sequences

CONSTANTS
  Run,        \* executions of Runner.Run
  Phone,      \* device serials
  PhoneOf,    \* the device of a run
  Package,    \* application packages
  Scripts,    \* the scripts the runs may have been given
  MaxRetries, \* maxRetries, 2 in the code
  MaxScrolls, \* maxScrolls, 3 in the code
  MaxFault,   \* bound: driver calls that fail by themselves
  MaxFlip     \* bound: changes of the screens

ASSUME RunnerAssumption ==
  /\ PhoneOf \in [Run -> Phone]
  /\ \A f \in Scripts : DOMAIN f = Run /\ \A r \in Run : Len(f[r]) \in Nat
  /\ MaxRetries \in Nat
  /\ MaxScrolls \in Nat
  /\ MaxFault \in Nat
  /\ MaxFlip \in Nat

VARIABLES
  script,     \* per run: its steps
  at,         \* per run: what it does
  step,       \* per run: index of the step
  attempt,    \* per run: retries of the step so far
  todo,       \* per run: steps and block steps left in this attempt
  matched,    \* per run: matchedNode of the polling handlers is set
  tries,      \* per run: scrolls or locators used up by the handler
  launched,   \* per run: launchedPackages
  results,    \* per run: success of each finished step
  cancelled,  \* per run: its context is cancelled
  apps,       \* per device: <<package, run that launched it>>
  visible,    \* per device: the element is on the screen
  faults,     \* driver failures so far
  flips       \* screen changes so far

stepVars == <<step, attempt, todo, matched, tries>>
reportVars == <<launched, results>>
deviceVars == <<apps, visible, faults, flips>>
runVars == <<script, at, stepVars, reportVars, cancelled, deviceVars>>

RunInit ==
  /\ script \in Scripts
  /\ at = [r \in Run |-> "off"]
  /\ step = [r \in Run |-> 1]
  /\ attempt = [r \in Run |-> 0]
  /\ todo = [r \in Run |-> <<>>]
  /\ matched = [r \in Run |-> FALSE]
  /\ tries = [r \in Run |-> 0]
  /\ launched = [r \in Run |-> {}]
  /\ results = [r \in Run |-> <<>>]
  /\ cancelled = [r \in Run |-> FALSE]
  /\ apps = [d \in Phone |-> {}]
  /\ visible \in [Phone -> BOOLEAN]
  /\ faults = 0
  /\ flips = 0

-----------------------------------------------------------------------------
(***************************************************************************)
(* The driver.  A call whose context is cancelled fails; any other call    *)
(* may fail while faults last.                                             *)
(***************************************************************************)
Succeeds(r) == ~cancelled[r] /\ UNCHANGED faults
Fails(r) == IF cancelled[r] THEN UNCHANGED faults
            ELSE faults < MaxFault /\ faults' = faults + 1

OnScreen(r) == visible[PhoneOf[r]]
Without(d, p) == [apps EXCEPT ![d] = {a \in @ : a[1] # p}]
With(d, p, r) == [apps EXCEPT ![d] = {a \in @ : a[1] # p} \cup {<<p, r>>}]

\* The screen changes by itself.
Flip(d) ==
  /\ flips < MaxFlip
  /\ flips' = flips + 1
  /\ visible' = [visible EXCEPT ![d] = ~@]
  /\ UNCHANGED <<script, at, stepVars, reportVars, cancelled, apps, faults>>

Cancel(r) ==
  /\ at[r] \notin {"off", "returned"}
  /\ ~cancelled[r]
  /\ cancelled' = [cancelled EXCEPT ![r] = TRUE]
  /\ UNCHANGED <<script, at, stepVars, reportVars, deviceVars>>

-----------------------------------------------------------------------------
(***************************************************************************)
(* Run: the loops over steps and attempts.                                 *)
(***************************************************************************)
Goto(r, l) == at' = [at EXCEPT ![r] = l]
Current(r) == Head(todo[r])

Start(r) ==
  /\ at[r] = "off"
  /\ Goto(r, "step")
  /\ UNCHANGED <<script, stepVars, reportVars, cancelled, deviceVars>>

\* The head of the loop over attempts, or the end of the loop over steps.
Attempt(r) ==
  /\ at[r] = "step"
  /\ IF step[r] > Len(script[r]) THEN Goto(r, "cleanup") /\ UNCHANGED todo
     ELSE IF cancelled[r] THEN Goto(r, "failed") /\ UNCHANGED todo
     ELSE Goto(r, "do") /\ todo' = [todo EXCEPT ![r] = <<script[r][step[r]]>>]
  /\ UNCHANGED <<script, step, attempt, matched, tries, reportVars, cancelled,
                 deviceVars>>

\* runStep of the current (block) step ends well: the next step of the block
\* follows, or the step has succeeded.  Only a launch that is a step of the
\* script itself is recorded, not one in a block of an if.
Passed(r, rest) ==
  /\ todo' = [todo EXCEPT ![r] = rest]
  /\ matched' = [matched EXCEPT ![r] = FALSE]
  /\ tries' = [tries EXCEPT ![r] = 0]
  /\ IF rest # <<>> THEN Goto(r, "do") /\ UNCHANGED <<step, attempt, reportVars>>
     ELSE /\ results' = [results EXCEPT ![r] = Append(@, TRUE)]
          /\ LET s == script[r][step[r]] IN
               launched' = [launched EXCEPT ![r] =
                              @ \cup IF s.kind = "launch" THEN {s.package} ELSE {}]
          /\ step' = [step EXCEPT ![r] = @ + 1]
          /\ attempt' = [attempt EXCEPT ![r] = 0]
          /\ Goto(r, "step")
  /\ UNCHANGED <<script, cancelled>>

Retried(r) ==
  /\ script[r][step[r]].kind \notin {"assert", "wait"}
  /\ attempt[r] < MaxRetries

\* ... or with an error, which ends the blocks around it too.  The step is
\* tried again or has failed.
Failed(r) ==
  /\ todo' = [todo EXCEPT ![r] = <<>>]
  /\ matched' = [matched EXCEPT ![r] = FALSE]
  /\ tries' = [tries EXCEPT ![r] = 0]
  /\ IF Retried(r) THEN Goto(r, "step") /\ attempt' = [attempt EXCEPT ![r] = @ + 1]
                   ELSE Goto(r, "failed") /\ UNCHANGED attempt
  /\ UNCHANGED <<script, step, reportVars, cancelled>>

\* Mutant of StepFailed: the run goes on with the next step.
MutStepFailedGoesOn(r) ==
  /\ at[r] = "failed"
  /\ results' = [results EXCEPT ![r] = Append(@, FALSE)]
  /\ step' = [step EXCEPT ![r] = @ + 1]
  /\ attempt' = [attempt EXCEPT ![r] = 0]
  /\ Goto(r, "step")
  /\ UNCHANGED <<script, todo, matched, tries, launched, cancelled, deviceVars>>

\* The result is stored, a screenshot tried, and the loop left.
StepFailed(r) ==
  /\ at[r] = "failed"
  /\ results' = [results EXCEPT ![r] = Append(@, FALSE)]
  /\ Goto(r, "cleanup")
  /\ UNCHANGED <<script, stepVars, launched, cancelled, deviceVars>>

Unstopped(r) == {a \in apps[PhoneOf[r]] : a[1] \in launched[r]}

\* Mutant of Cleanup: Terminate gets the context of the run.
MutCleanupCtx(r) ==
  /\ at[r] = "cleanup"
  /\ Goto(r, "returned")
  /\ apps' = IF cancelled[r] THEN apps
             ELSE [apps EXCEPT ![PhoneOf[r]] = @ \ Unstopped(r)]
  /\ UNCHANGED <<script, stepVars, reportVars, cancelled, visible, faults, flips>>

\* The deferred function: the recorded packages are stopped, with a context
\* that cannot be cancelled, whoever launched them last.  A failure leaves
\* some of them running.
Cleanup(r) ==
  /\ at[r] = "cleanup"
  /\ Goto(r, "returned")
  /\ LET d == PhoneOf[r] IN
     \/ apps' = [apps EXCEPT ![d] = @ \ Unstopped(r)] /\ UNCHANGED faults
     \/ /\ faults < MaxFault
        /\ faults' = faults + 1
        /\ \E left \in SUBSET Unstopped(r) :
             apps' = [apps EXCEPT ![d] = (@ \ Unstopped(r)) \cup left]
  /\ UNCHANGED <<script, stepVars, reportVars, cancelled, visible, flips>>

-----------------------------------------------------------------------------
(***************************************************************************)
(* runStep and the handlers.                                               *)
(***************************************************************************)
Doing(r, k) == at[r] = "do" /\ Current(r).kind = k

\* A launch that fails may have launched the application.
Launch(r) ==
  /\ Doing(r, "launch")
  /\ LET up == With(PhoneOf[r], Current(r).package, r) IN
     \/ Succeeds(r) /\ apps' = up /\ Passed(r, Tail(todo[r]))
     \/ Fails(r) /\ apps' \in {apps, up} /\ Failed(r)
  /\ UNCHANGED <<visible, flips>>

Terminate(r) ==
  /\ Doing(r, "terminate")
  /\ LET down == Without(PhoneOf[r], Current(r).package) IN
     \/ Succeeds(r) /\ apps' = down /\ Passed(r, Tail(todo[r]))
     \/ Fails(r) /\ apps' \in {apps, down} /\ Failed(r)
  /\ UNCHANGED <<visible, flips>>

Swipe(r) ==
  /\ Doing(r, "swipe")
  /\ \/ Succeeds(r) /\ Passed(r, Tail(todo[r]))
     \/ Fails(r) /\ Failed(r)
  /\ UNCHANGED <<apps, visible, flips>>

\* handleInput.  Its search for a field to focus, by target, by selector and
\* by focus, only decides whether it taps before it types.
Input(r) ==
  /\ Doing(r, "input")
  /\ \/ Succeeds(r) /\ Passed(r, Tail(todo[r]))
     \/ Fails(r) /\ Failed(r)
  /\ UNCHANGED <<apps, visible, flips>>

\* evaluateCondition; a failed dump counts as absent.
If(r) ==
  /\ Doing(r, "if")
  /\ \E met \in {OnScreen(r), FALSE} :
       /\ IF met = OnScreen(r) THEN UNCHANGED faults ELSE Fails(r)
       /\ Passed(r, (IF met THEN Current(r).then ELSE Current(r).else) \o Tail(todo[r]))
  /\ UNCHANGED <<apps, visible, flips>>

\* waitForElement, and the loops of its kind in handleWait and handleAssert.
ConditionMet(r, hidden) == ~cancelled[r] /\ hidden # OnScreen(r)

\* handleWait.  With a target, a failed dump counts as absent; without one
\* waitForElement wants a dump to tell that the element is hidden.  Turns of
\* the loop that decide nothing are left out.
Wait(r) ==
  /\ Doing(r, "wait")
  /\ LET s == Current(r) IN
     \/ ConditionMet(r, s.hidden) /\ UNCHANGED faults
        /\ Passed(r, Tail(todo[r]))
     \/ ~cancelled[r] /\ s.hidden /\ s.target /\ Fails(r) /\ Passed(r, Tail(todo[r]))
     \/ UNCHANGED faults /\ Failed(r)
  /\ UNCHANGED <<apps, visible, flips>>

\* handleAssert finds the target of an assert that it is hidden: matchedNode
\* stays set for the rest of the loop.
AssertSees(r) ==
  /\ Doing(r, "assert")
  /\ Current(r).hidden /\ Current(r).target /\ ~matched[r]
  /\ ~cancelled[r]
  /\ OnScreen(r)
  /\ matched' = [matched EXCEPT ![r] = TRUE]
  /\ UNCHANGED <<script, at, step, attempt, todo, tries, reportVars, cancelled,
                 deviceVars>>

\* handleAssert ends: the condition holds (the text that "equals" and
\* "contains" compare may be wrong), a dump fails where the target should be
\* hidden, or the time is over.
AssertEnds(r) ==
  /\ Doing(r, "assert")
  /\ LET s == Current(r) IN
     \/ ConditionMet(r, s.hidden) /\ ~matched[r] /\ UNCHANGED faults
        /\ Passed(r, Tail(todo[r]))
     \/ ~cancelled[r] /\ ~matched[r] /\ s.hidden /\ s.target /\ Fails(r)
        /\ Passed(r, Tail(todo[r]))
     \/ UNCHANGED faults /\ Failed(r)
  /\ UNCHANGED <<apps, visible, flips>>

\* One tap, by the agent or by adb.
Tap(r) ==
  \/ Succeeds(r) /\ Passed(r, Tail(todo[r]))
  \/ Fails(r) /\ Failed(r)

\* autoScrollToFind: the swipe may bring the element onto the screen.
Scroll(r) ==
  /\ tries' = [tries EXCEPT ![r] = @ + 1]
  /\ \E found \in BOOLEAN :
       /\ visible' = [visible EXCEPT ![PhoneOf[r]] = found]
       /\ matched' = [matched EXCEPT ![r] = found]

Searching(r) == Doing(r, "click") /\ Current(r).target /\ ~matched[r]

\* handleClickWithTarget, its loop: find the element, scroll for it, or give
\* up.  A dump that fails starts the next turn at once.
ClickSearch(r) ==
  /\ Searching(r)
  /\ ~cancelled[r]
  /\ \/ OnScreen(r) /\ matched' = [matched EXCEPT ![r] = TRUE]
        /\ UNCHANGED <<at, tries, visible>>
     \/ ~OnScreen(r) /\ tries[r] < MaxScrolls /\ Scroll(r) /\ UNCHANGED at
     \/ /\ ~OnScreen(r)
        /\ Goto(r, IF Current(r).locators = 0 THEN "coords" ELSE "locators")
        /\ tries' = [tries EXCEPT ![r] = 0]
        /\ UNCHANGED <<matched, visible>>
  /\ UNCHANGED <<script, step, attempt, todo, reportVars, cancelled, apps,
                 faults, flips>>

\* Mutant of ClickCancelled: the loop does not look at the context.  Every
\* dump fails from now on, and the loop never ends.
MutClickCancelledDeaf(r) == FALSE

ClickCancelled(r) ==
  /\ Searching(r)
  /\ cancelled[r]
  /\ Failed(r)
  /\ UNCHANGED deviceVars

ClickTarget(r) ==
  /\ Doing(r, "click")
  /\ Current(r).target /\ matched[r]
  /\ Tap(r)
  /\ UNCHANGED <<apps, visible, flips>>

\* findByLocatorWithWait
LocatorFinds(r) == ~cancelled[r] /\ OnScreen(r)

\* handleClickWithLocators: each locator in turn, the coordinates at the end.
\* An error makes handleClickWithTarget tap its own coordinates.
ClickLocators(r) ==
  /\ \/ at[r] = "locators"
     \/ Doing(r, "click") /\ ~Current(r).target /\ Current(r).locators > 0
  /\ LET s == Current(r)
         Error == IF s.target
                  THEN /\ Goto(r, "coords")
                       /\ UNCHANGED <<script, stepVars, reportVars, cancelled>>
                  ELSE Failed(r)
     IN \/ /\ tries[r] < s.locators /\ LocatorFinds(r)
           /\ \/ Succeeds(r) /\ Passed(r, Tail(todo[r]))
              \/ Fails(r) /\ Error
        \/ /\ tries[r] < s.locators
           /\ tries' = [tries EXCEPT ![r] = @ + 1]
           /\ UNCHANGED <<script, at, step, attempt, todo, matched, reportVars,
                          cancelled, faults>>
        \/ /\ tries[r] = s.locators
           /\ \/ s.coords /\ Succeeds(r) /\ Passed(r, Tail(todo[r]))
              \/ s.coords /\ Fails(r) /\ Error
              \/ ~s.coords /\ UNCHANGED faults /\ Error
  /\ UNCHANGED <<apps, visible, flips>>

\* handleClickLegacy: the selector, else the coordinates.
ClickLegacy(r) ==
  /\ Doing(r, "click")
  /\ ~Current(r).target /\ Current(r).locators = 0
  /\ \/ ConditionMet(r, FALSE) /\ Tap(r)
     \/ /\ Goto(r, "coords")
        /\ UNCHANGED <<script, stepVars, reportVars, cancelled, faults>>
  /\ UNCHANGED <<apps, visible, flips>>

ClickCoords(r) ==
  /\ at[r] = "coords"
  /\ \/ Current(r).coords /\ Tap(r)
     \/ ~Current(r).coords /\ Failed(r) /\ UNCHANGED faults
  /\ UNCHANGED <<apps, visible, flips>>

StepAction(r) ==
  \/ Launch(r) \/ Terminate(r) \/ Swipe(r) \/ Input(r) \/ If(r)
  \/ Wait(r) \/ AssertSees(r) \/ AssertEnds(r)
  \/ ClickSearch(r) \/ ClickCancelled(r) \/ ClickTarget(r) \/ ClickLocators(r)
  \/ ClickLegacy(r) \/ ClickCoords(r)

RunStep(r) ==
  \/ Attempt(r) \/ StepFailed(r) \/ Cleanup(r)
  \/ StepAction(r)

-----------------------------------------------------------------------------
(***************************************************************************)
(* Properties.                                                             *)
(***************************************************************************)
RunTypeOK ==
  /\ at \in [Run -> {"off", "step", "do", "locators", "coords", "failed",
                     "cleanup", "returned"}]
  /\ \A r \in Run : /\ step[r] \in 1..Len(script[r]) + 1
                    /\ Len(results[r]) \in {step[r] - 1, step[r]}
                    /\ at[r] \in {"do", "locators", "coords"} <=> todo[r] # <<>>
  /\ attempt \in [Run -> 0..MaxRetries]
  /\ matched \in [Run -> BOOLEAN]
  /\ tries \in [Run -> Nat]
  /\ launched \in [Run -> SUBSET Package]
  /\ cancelled \in [Run -> BOOLEAN]
  /\ apps \in [Phone -> SUBSET (Package \X Run)]
  /\ visible \in [Phone -> BOOLEAN]
  /\ faults \in 0..MaxFault
  /\ flips \in 0..MaxFlip

\* The report of a run tells what was done: either all steps of the script
\* passed, or the last reported step is the only one that failed and none
\* was tried after it.
ReportFaithful ==
  \A r \in Run : at[r] = "returned" =>
    LET n == Len(results[r]) IN
      /\ \A k \in 1..n : ~results[r][k] => k = n
      /\ (\A k \in 1..n : results[r][k]) => n = Len(script[r])

\* A run that has returned leaves no application running that a launch step
\* of it started, even if it failed or was cancelled, unless a driver call
\* failed by itself.
LaunchedAppsStopped ==
  \A r \in Run : at[r] = "returned" /\ faults = 0 =>
    \A k \in 1..Len(results[r]) :
      script[r][k].kind = "launch" /\ results[r][k] =>
        <<script[r][k].package, r>> \notin apps[PhoneOf[r]]

\* A run whose context is cancelled returns, whichever loop it is in.
CancelledRunReturns == \A r \in Run : cancelled[r] ~> at[r] = "returned"

\* No application launched by a run, in a block of an if or by a launch that
\* failed, outlives it.  The code does not have this property.
AllAppsStopped ==
  \A r \in Run : at[r] = "returned" =>
    \A a \in apps[PhoneOf[r]] : a[2] # r
=============================================================================
