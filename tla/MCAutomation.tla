---------------------------- MODULE MCAutomation ----------------------------
(***************************************************************************)
(* TLC instance of Automation: a request with two tasks for one device,    *)
(* either of which may find it busy or free.  The first runs one of a set  *)
(* of scripts that between them use every kind of step and every fallback  *)
(* of a click; the second launches the same application.                   *)
(***************************************************************************)
EXTENDS Automation, TLC

CONSTANTS t1, t2, b1, d1, p1, p2

MCBatchOf == [t \in Task |-> b1]
MCSerialOf == [t \in Task |-> d1]

LaunchOf(p) == [kind |-> "launch", package |-> p]
TerminateOf(p) == [kind |-> "terminate", package |-> p]
Click(target, locators, coords) ==
  [kind |-> "click", target |-> target, locators |-> locators, coords |-> coords]
WaitFor(target, hidden) == [kind |-> "wait", target |-> target, hidden |-> hidden]
AssertThat(target, hidden) ==
  [kind |-> "assert", target |-> target, hidden |-> hidden]

FirstScripts ==
  {<<LaunchOf(p1), Click(TRUE, 1, TRUE)>>,
   <<Click(TRUE, 0, FALSE), TerminateOf(p1)>>,
   <<Click(FALSE, 1, FALSE)>>,
   <<Click(FALSE, 0, TRUE), [kind |-> "input"]>>,
   <<LaunchOf(p1), AssertThat(TRUE, TRUE)>>,
   <<WaitFor(TRUE, TRUE), AssertThat(FALSE, FALSE)>>,
   <<[kind |-> "if", then |-> <<LaunchOf(p2), AssertThat(TRUE, TRUE)>>,
                     else |-> <<[kind |-> "swipe"]>>],
     LaunchOf(p1)>>}

MCScripts == {t1 :> s @@ t2 :> <<LaunchOf(p1)>> : s \in FirstScripts}
=============================================================================
