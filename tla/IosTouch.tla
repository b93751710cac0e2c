------------------------------ MODULE IosTouch ------------------------------
(***************************************************************************)
(* How the input of the users of an iOS device reaches WebDriverAgent      *)
(* (src/internal/stream/ws.go): every WebSocket handler of the capture     *)
(* updates the one gesture it keeps, and each finished touch, key or text  *)
(* is carried out by a goroutine of its own.  A touch is a tap or a swipe  *)
(* by the distance of its ends; MOVE only sets fields that nothing reads.  *)
(***************************************************************************)
EXTENDS Naturals, Sequences

CONSTANTS
  Hand,        \* WebSocket clients of one capture
  Point,       \* positions on the screen
  Size,        \* sizes of the window, one per orientation
  MaxJobs      \* bound: touches, keys and texts

ASSUME TouchAssumption == MaxJobs \in Nat /\ Size # {} /\ "unknown" \notin Size

Unknown == "unknown"       \* logicalWidth <= 0
Default == "default"       \* 375 x 812

VARIABLES
  origin,       \* s.gesture.startX and startY
  pressed,     \* history: pressed[c], where client c went down last
  logical,     \* s.logicalWidth and s.logicalHeight, or Unknown
  window,      \* the size of the window on the device
  jobs,        \* jobs[j]: the goroutine of the j-th input, with what it copied
  touches,     \* history: touches[j], where the gesture began and ended
  acts         \* what WebDriverAgent has carried out

touchVars == <<origin, pressed, logical, window, jobs, touches, acts>>

TouchInit ==
  /\ origin \in Point
  /\ pressed = [c \in Hand |-> origin]
  /\ logical = Unknown
  /\ window \in Size
  /\ jobs = <<>> /\ touches = <<>> /\ acts = <<>>

\* action 0: DOWN
Down(c, x) ==
  /\ Len(jobs) < MaxJobs
  /\ origin' = x
  /\ pressed' = [pressed EXCEPT ![c] = x]
  /\ UNCHANGED <<logical, window, jobs, touches, acts>>

Spawn(c, kind, at, from, to, size) ==
  /\ Len(jobs) < MaxJobs
  /\ jobs' = Append(jobs, [kind |-> kind, at |-> at, from |-> from, to |-> to,
                           size |-> size])
  /\ touches' = Append(touches, [from |-> origin, to |-> to, own |-> pressed[c]])
  /\ UNCHANGED <<origin, pressed, logical, window, acts>>

\* action 1: UP.  The goroutine gets copies of the gesture and of the size.
Up(c, x) == Spawn(c, "touch", "ensure", origin, x, logical)

\* Keys: "button" stands for those that WebDriverAgent presses or types itself,
\* "edge" for the swipes of Back and Recents, which read the size when they run.
Key(c, kind) == Spawn(c, kind, "ensure", origin, origin, Unknown)

\* Text is sent without asking for a session first.
Text(c) == Spawn(c, "text", "act", origin, origin, Unknown)

Job(j, at, size) == jobs' = [jobs EXCEPT ![j].at = at, ![j].size = size]

EnsureSession(j, ok) ==
  /\ jobs[j].at = "ensure"
  /\ Job(j, CASE ~ok -> "ended"
              [] ok /\ jobs[j].kind = "button" -> "act"
              [] OTHER -> "size",
         IF jobs[j].kind = "edge" THEN logical ELSE jobs[j].size)
  /\ UNCHANGED <<origin, pressed, logical, window, touches, acts>>

\* A size that is not known yet is asked for, and kept for the capture.
GetWindowSize(j, ok) ==
  /\ jobs[j].at = "size"
  /\ IF jobs[j].size # Unknown
     THEN ok /\ Job(j, "act", jobs[j].size) /\ UNCHANGED logical
     ELSE /\ Job(j, "act", IF ok THEN window ELSE Default)
          /\ logical' = IF ok THEN window ELSE logical
  /\ UNCHANGED <<origin, pressed, window, touches, acts>>

\* Mutant of Act: the goroutine reads the gesture when it is about to use it.
MutActLate(j, ok) ==
  /\ jobs[j].at = "act"
  /\ Job(j, "ended", jobs[j].size)
  /\ acts' = IF ok THEN Append(acts, [job |-> j, from |-> origin,
                                      to |-> jobs[j].to, size |-> jobs[j].size])
             ELSE acts
  /\ UNCHANGED <<origin, pressed, logical, window, touches>>

Act(j, ok) ==
  /\ jobs[j].at = "act"
  /\ Job(j, "ended", jobs[j].size)
  /\ acts' = IF ok THEN Append(acts, [job |-> j, from |-> jobs[j].from,
                                      to |-> jobs[j].to, size |-> jobs[j].size])
             ELSE acts
  /\ UNCHANGED <<origin, pressed, logical, window, touches>>

\* External: the device is turned.
Rotate ==
  /\ Len(jobs) < MaxJobs
  /\ window' \in Size \ {window}
  /\ UNCHANGED <<origin, pressed, logical, jobs, touches, acts>>

TouchNext ==
  \/ \E c \in Hand, x \in Point : Down(c, x) \/ Up(c, x)
  \/ \E c \in Hand : Key(c, "button") \/ Key(c, "edge") \/ Text(c)
  \/ \E j \in 1..Len(jobs), ok \in BOOLEAN :
       EnsureSession(j, ok) \/ GetWindowSize(j, ok) \/ Act(j, ok)
  \/ Rotate

TouchSpec == TouchInit /\ [][TouchNext]_touchVars

-----------------------------------------------------------------------------
TouchTypeOK ==
  /\ origin \in Point /\ pressed \in [Hand -> Point]
  /\ logical \in Size \cup {Unknown} /\ window \in Size
  /\ jobs \in Seq([kind : {"touch", "button", "edge", "text"},
                   at : {"ensure", "size", "act", "ended"},
                   from : Point, to : Point, size : Size \cup {Unknown, Default}])
  /\ Len(touches) = Len(jobs) /\ Len(acts) <= Len(jobs)

\* WebDriverAgent carries out the gesture the capture had when the finger left
\* the screen, although the next one may begin before the goroutine has its
\* session and its size; each at most once, and never with a size of zero.
GesturesFaithful ==
  /\ \A i \in 1..Len(acts) :
       LET a == acts[i] IN
       /\ a.from = touches[a.job].from /\ a.to = touches[a.job].to
       /\ jobs[a.job].kind \in {"touch", "edge"} => a.size # Unknown
       /\ jobs[a.job].at = "ended"
  /\ \A i, k \in 1..Len(acts) : acts[i].job = acts[k].job => i = k

\* Not held.  A gesture begins where its own client went down: the capture keeps
\* one gesture for all its clients.
GestureOwn ==
  \A i \in 1..Len(acts) :
    jobs[acts[i].job].kind = "touch" => acts[i].from = touches[acts[i].job].own

\* Not held.  Gestures are carried out in the order they were made.
GesturesInOrder ==
  \A i, k \in 1..Len(acts) : i < k => acts[i].job < acts[k].job

\* Not held.  A touch is scaled by the size the window has: the size is asked for
\* once in a capture, and the device may be turned.
SizeCurrent ==
  [][\A i \in DOMAIN acts' \ DOMAIN acts :
       acts'[i].size \in {window, Default, Unknown}]_touchVars
=============================================================================
