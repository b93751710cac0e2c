------------------------------ MODULE MCStream ------------------------------
(***************************************************************************)
(* The three sides of the stream manager on small instances.  They share   *)
(* no variable of the model, so each is explored while the others rest.    *)
(***************************************************************************)
EXTENDS StreamHub, ControlPath, IosTouch

CONSTANT
  MaxTotal       \* bound: frames of all captures

VARIABLE side    \* the side that is explored

streamVars == <<hubVars, ctlVars, touchVars, side>>

StreamInit ==
  /\ side \in {"video", "control", "touch"}
  /\ HubInit /\ CtlInit /\ TouchInit
  /\ \A v, w \in Viewer : st[v] = "out" /\ st[w] = "out" => v = w
  /\ side # "video" => platform = "ios" /\ \A v \in Viewer : st[v] = "refused"
  /\ side # "touch" => \A x \in Point, s \in Size :
                         origin <= x /\ window = CHOOSE t \in Size : TRUE

VideoStep ==
  /\ side = "video" /\ HubNext
  /\ Len(log'[1]) + Len(log'[MaxCaptures]) <= MaxTotal
  /\ UNCHANGED <<ctlVars, touchVars, side>>

ControlStep == side = "control" /\ CtlNext /\ UNCHANGED <<hubVars, touchVars, side>>

TouchStep == side = "touch" /\ TouchNext /\ UNCHANGED <<hubVars, ctlVars, side>>

StreamNext == VideoStep \/ ControlStep \/ TouchStep

StreamSpec ==
  /\ StreamInit /\ [][StreamNext]_streamVars
  /\ HubFairness /\ CtlFairness

=============================================================================
