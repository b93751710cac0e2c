----------------------------- MODULE Recording -----------------------------
(***************************************************************************)
(* Recording a script: the WebSocket handler of the stream manager turns   *)
(* gestures into goroutines that append raw events to the device's         *)
(* recording session (recorder.go), and STOP_RECORDING compiles the raw    *)
(* events into a script (compiler.go).                                     *)
(*                                                                         *)
(* One device with one client.  A text is named by the gesture that typed  *)
(* it; what a click's XML dump says about a spot is the constant NodeAt.   *)
(***************************************************************************)
EXTENDS Naturals, SequencesExt

CONSTANTS
  Spot,        \* places on the screen
  Near,        \* pairs of spots less than 0.01 apart
  NodeAt,      \* the UI element at a spot: [id, edit], or NoNode
  NoNode,
  NoId,        \* an element without a resource id
  MaxGesture,  \* bound: gestures made while recording
  MaxSession   \* bound: recordings started

ASSUME RecordingAssumption ==
  /\ Near \subseteq Spot \X Spot
  /\ \A p \in Spot : <<p, p>> \in Near
  /\ DOMAIN NodeAt = Spot
  /\ MaxGesture \in Nat
  /\ MaxSession \in Nat

VARIABLES
  made,      \* the gestures so far, each with the session it was made in
  current,   \* the device's entry in RecorderManager.sessions, 0 when absent
  started,   \* sessions created so far
  events,    \* the Events of each session
  rec,       \* the goroutine that records a gesture
  holds,     \* the session the goroutine has looked up
  stopping,  \* the session whose STOP_RECORDING is under way, 0 when none
  script     \* per session: <<>>, or <<raw events, compiled steps>>

recVars == <<made, current, started, events, rec, holds, stopping, script>>

Gesture == 1..MaxGesture
SessionNo == 1..MaxSession

RecInit ==
  /\ made = <<>>
  /\ current = 0
  /\ started = 0
  /\ events = [s \in SessionNo |-> <<>>]
  /\ rec = [g \in Gesture |-> "none"]
  /\ holds = [g \in Gesture |-> 0]
  /\ stopping = 0
  /\ script = [s \in SessionNo |-> <<>>]

-----------------------------------------------------------------------------
(***************************************************************************)
(* CompileScript.                                                          *)
(***************************************************************************)
LaunchSteps == <<[kind |-> "launch"], [kind |-> "wait"], [kind |-> "assert"]>>
FinalSteps == <<[kind |-> "terminate"], [kind |-> "wait"]>>

\* Without a dump, or without an element at the spot, a click has no target.
CompileClick(e) ==
  [kind |-> "click", spot |-> e.spot,
   target |-> IF e.xml THEN NodeAt[e.spot] ELSE NoNode]

Compile1(e) ==
  CASE e.kind = "launch" -> LaunchSteps
    [] e.kind = "click"  -> <<CompileClick(e)>>
    [] e.kind = "text"   -> <<[kind |-> "input", text |-> <<e.gesture>>, target |-> NoNode]>>
    [] e.kind = "swipe"  -> <<[kind |-> "swipe", gesture |-> e.gesture]>>

\* The same resource id, or almost the same place.
SameClick(a, b) ==
  \/ /\ NoNode \notin {a.target, b.target}
     /\ a.target.id = b.target.id
     /\ a.target.id # NoId
  \/ <<a.spot, b.spot>> \in Near

Duplicates(out, s) ==
  /\ out # <<>>
  /\ s.kind = "click"
  /\ Last(out).kind = "click"
  /\ SameClick(Last(out), s)

\* The element a text that follows these steps is typed into, if known.
FieldAfter(out) ==
  IF out # <<>> /\ Last(out).kind = "click" /\ Last(out).target # NoNode
       /\ Last(out).target.edit
  THEN Last(out).target
  ELSE NoNode

Flush(acc) ==
  IF acc.text = <<>> THEN acc.out
  ELSE Append(acc.out, [kind |-> "input", text |-> acc.text, target |-> acc.target])

\* Mutant of OptimizeStep: a pending input is not written out before a step.
MutNoFlush(acc, s) ==
  IF s.kind = "input"
  THEN [acc EXCEPT !.text = @ \o s.text]
  ELSE [acc EXCEPT !.out = IF Duplicates(@, s) THEN @ ELSE Append(@, s)]

\* One turn of the loop of optimizeSteps; acc.text is the pending input.
OptimizeStep(acc, s) ==
  IF s.kind = "input"
  THEN [acc EXCEPT !.text = @ \o s.text,
                   !.target = IF acc.text = <<>> THEN FieldAfter(acc.out) ELSE @]
  ELSE LET out == Flush(acc) IN
       [out |-> IF Duplicates(out, s) THEN out ELSE Append(out, s),
        text |-> <<>>, target |-> NoNode]

\* The loop of optimizeSteps: what it has after each of its turns.
Turns(steps) ==
  LET acc[n \in 0..Len(steps)] ==
        IF n = 0 THEN [out |-> <<>>, text |-> <<>>, target |-> NoNode]
        ELSE OptimizeStep(acc[n - 1], steps[n])
  IN acc

OptimizeSteps(steps) == Flush(Turns(steps)[Len(steps)])

\* The loop of CompileScript: the steps of the first n events.
StepsOf(raw) ==
  LET steps[n \in 0..Len(raw)] ==
        IF n = 0 THEN <<>> ELSE steps[n - 1] \o Compile1(raw[n])
  IN steps

CompileScript(raw) ==
  LET last == IF \E i \in DOMAIN raw : raw[i].kind = "launch" THEN FinalSteps ELSE <<>>
  IN OptimizeSteps(StepsOf(raw)[Len(raw)]) \o last

-----------------------------------------------------------------------------
(***************************************************************************)
(* The messages of the client.  The handler reads the next one when it is  *)
(* done with the last.                                                     *)
(***************************************************************************)

\* A recording under way is replaced.  The foreground package, if it can be
\* found out, is launched first.
StartRecording ==
  /\ stopping = 0
  /\ started < MaxSession
  /\ started' = started + 1
  /\ current' = started + 1
  /\ \E first \in {<<>>, <<[kind |-> "launch"]>>} :
       events' = [events EXCEPT ![started + 1] = first]
  /\ UNCHANGED <<made, rec, holds, stopping, script>>

\* A touch while recording: a goroutine records it.
Touch(touch) ==
  /\ stopping = 0
  /\ current # 0
  /\ Len(made) < MaxGesture
  /\ made' = Append(made, touch)
  /\ rec' = [rec EXCEPT ![Len(made) + 1] = "spawned"]
  /\ UNCHANGED <<current, started, events, holds, stopping, script>>

\* A text is recorded at once.
RecordTextInput ==
  /\ stopping = 0
  /\ current # 0
  /\ Len(made) < MaxGesture
  /\ LET g == Len(made) + 1 IN
       /\ made' = Append(made, [kind |-> "text", session |-> current])
       /\ events' = [events EXCEPT ![current] = Append(@, [kind |-> "text", gesture |-> g])]
       /\ rec' = [rec EXCEPT ![g] = "ended"]
  /\ UNCHANGED <<current, started, holds, stopping, script>>

\* StopRecording takes the session off the map under m.mu ...
StopRecording ==
  /\ stopping = 0
  /\ current # 0
  /\ stopping' = current
  /\ current' = 0
  /\ UNCHANGED <<made, started, events, rec, holds, script>>

\* ... and reads its events under session.mu.  The script is sent back.
ReturnScript ==
  /\ stopping # 0
  /\ script' = [script EXCEPT ![stopping] = <<events[stopping], CompileScript(events[stopping])>>]
  /\ stopping' = 0
  /\ UNCHANGED <<made, current, started, events, rec, holds>>

-----------------------------------------------------------------------------
(***************************************************************************)
(* The goroutine of a touch.                                               *)
(***************************************************************************)
RecGoto(g, pc) == rec' = [rec EXCEPT ![g] = pc]

\* No device in the registry any more, or no session.
RecordNothing(g) ==
  /\ rec[g] = "spawned"
  /\ RecGoto(g, "dropped")
  /\ UNCHANGED <<made, current, started, events, holds, stopping, script>>

LookUp(g) ==
  /\ rec[g] = "spawned"
  /\ current # 0
  /\ holds' = [holds EXCEPT ![g] = current]
  /\ RecGoto(g, IF made[g].kind = "click" THEN "dumping" ELSE "found")
  /\ UNCHANGED <<made, current, started, events, stopping, script>>

AppendEvent(g, e) ==
  /\ events' = [events EXCEPT ![holds[g]] = Append(@, e)]
  /\ RecGoto(g, "ended")
  /\ UNCHANGED <<made, current, started, holds, stopping, script>>

RecordSwipe(g) ==
  /\ rec[g] = "found"
  /\ AppendEvent(g, [kind |-> "swipe", gesture |-> g])

\* Mutant of RecordClick: a failed dump ends the goroutine.
MutDumpRequired(g) ==
  /\ rec[g] = "dumping"
  /\ \/ AppendEvent(g, [kind |-> "click", gesture |-> g, spot |-> made[g].spot, xml |-> TRUE])
     \/ /\ RecGoto(g, "ended")
        /\ UNCHANGED <<made, current, started, events, holds, stopping, script>>

\* A click whose dump failed is recorded without it.
RecordClick(g) ==
  /\ rec[g] = "dumping"
  /\ \E xml \in BOOLEAN :
       AppendEvent(g, [kind |-> "click", gesture |-> g, spot |-> made[g].spot, xml |-> xml])

-----------------------------------------------------------------------------
RecordStep(g) == RecordNothing(g) \/ LookUp(g) \/ RecordSwipe(g) \/ RecordClick(g)

RecNext ==
  \/ StartRecording \/ StopRecording \/ ReturnScript \/ RecordTextInput
  \/ \E p \in Spot : Touch([kind |-> "click", spot |-> p, session |-> current])
  \/ Touch([kind |-> "swipe", session |-> current])
  \/ \E g \in Gesture : RecordStep(g)

RecSpec == RecInit /\ [][RecNext]_recVars

-----------------------------------------------------------------------------
RecTypeOK ==
  /\ Len(made) \in 0..MaxGesture
  /\ current \in 0..started
  /\ started \in 0..MaxSession
  /\ stopping \in 0..started
  /\ rec \in [Gesture -> {"none", "spawned", "dumping", "found", "ended", "dropped"}]
  /\ holds \in [Gesture -> 0..started]
  /\ \A s \in SessionNo : /\ Len(events[s]) <= MaxGesture + 1
                          /\ Len(script[s]) \in {0, 2}

Recorded(s, g) ==
  \E i \in DOMAIN events[s] : /\ events[s][i].kind # "launch"
                              /\ events[s][i].gesture = g

\* No gesture is lost or doubled while its recording goes on: every gesture
\* whose goroutine has ended is in the session exactly once, with or without
\* a dump, in whatever order the goroutines end.
GesturesRecorded ==
  \A g \in DOMAIN made :
    LET s == made[g].session IN
      s = current /\ rec[g] = "ended" =>
        \E i \in DOMAIN events[s] :
          \A j \in DOMAIN events[s] :
            events[s][j].kind # "launch" /\ events[s][j].gesture = g <=> i = j

(***************************************************************************)
(* What a script does to a device, one touch or text at a time.            *)
(***************************************************************************)
Played(s) ==
  CASE s.kind = "input" -> [i \in DOMAIN s.text |-> [kind |-> "text", gesture |-> s.text[i]]]
    [] s.kind \in {"click", "swipe", "launch"} -> <<s>>
    [] OTHER -> <<>>

\* What the user did.
Done(e) == IF e.kind = "click" THEN CompileClick(e) ELSE e

\* The p-th thing that step k does, for all k and p.
Acts(steps) ==
  UNION {{<<k, p>> : p \in DOMAIN Played(steps[k])} : k \in DOMAIN steps}
Act(steps, a) == Played(steps[a[1]])[a[2]]
Earlier(a, b) == a[1] < b[1] \/ (a[1] = b[1] /\ a[2] < b[2])

\* act says which thing the steps do stands for which event.
StandsFor(act, raw, steps) ==
  /\ \A a \in Acts(steps) : \E i \in DOMAIN raw : act[i] = a
  /\ \A i, j \in DOMAIN raw : i < j => act[i] = act[j] \/ Earlier(act[i], act[j])
  /\ \A i \in DOMAIN raw : \E j \in 1..i :
       /\ act[j] = act[i] /\ \A m \in 1..(j - 1) : act[m] # act[i]
       /\ Act(steps, act[j]) = Done(raw[j])
       /\ i # j => /\ raw[i].kind = "click" /\ raw[j].kind = "click"
                   /\ SameClick(CompileClick(raw[j]), CompileClick(raw[i]))

Faithful(raw, steps) ==
  \E act \in [DOMAIN raw -> Acts(steps)] : StandsFor(act, raw, steps)

\* A compiled script does what was recorded, in the recorded order, and nothing
\* else: texts are only joined, and only clicks right after an equal click are
\* left out.
ScriptFaithful ==
  \A s \in SessionNo : script[s] # <<>> => Faithful(script[s][1], script[s][2])

(***************************************************************************)
(* What the recorder does not guarantee.                                   *)
(***************************************************************************)

\* The events of a session are in the order of the gestures.  The code does
\* not have this property: a click waits for its dump, a later text does not.
RecordedInOrder ==
  \A s \in SessionNo : \A i, j \in DOMAIN events[s] :
    /\ i < j
    /\ "launch" \notin {events[s][i].kind, events[s][j].kind}
    => events[s][i].gesture < events[s][j].gesture

\* A session holds only gestures made in it.  The code does not have this
\* property: a slow goroutine may look the session up after a restart.
NoForeignGesture ==
  \A s \in SessionNo, g \in DOMAIN made : Recorded(s, g) => made[g].session = s
=============================================================================
