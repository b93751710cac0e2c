-------------------------------- MODULE Feed --------------------------------
(***************************************************************************)
(* What the stream manager promises the viewers of a capture, without the  *)
(* cache, the channels and the goroutines that make it work: a viewer gets *)
(* the frames of one capture in order, from the last key frame before it   *)
(* joined, and misses one only when too many are waiting for it.           *)
(***************************************************************************)
EXTENDS Naturals, Sequences

CONSTANTS
  Capture,   \* captures, one after the other on one device
  Viewer,    \* clients that watch a capture
  Cap        \* Cap[v]: frames that may wait for viewer v, at least one

VARIABLES
  log,       \* log[g]: the frames of capture g, "key" or "delta"
  of,        \* of[v]: the capture v watches
  members,   \* viewers that are being served
  view,      \* view[v]: numbers of the frames meant for v
  sent       \* sent[v]: how many of them have been written to v

feedVars == <<log, of, members, view, sent>>

Frame == {"key", "delta"}

\* The frames from the last key frame on.
Keys(l) == {i \in 1..Len(l) : l[i] = "key"}
LastKey(l) == CHOOSE i \in Keys(l) : \A j \in Keys(l) : j <= i
Gop(l) ==
  IF Keys(l) = {} THEN <<>>
  ELSE [i \in 1..(Len(l) - LastKey(l) + 1) |-> LastKey(l) + i - 1]

FeedInit ==
  /\ log = [g \in Capture |-> <<>>]
  /\ of \in [Viewer -> Capture]
  /\ members = {}
  /\ view = [v \in Viewer |-> <<>>]
  /\ sent = [v \in Viewer |-> 0]

\* A capture starts with a key frame.  A viewer may be passed over only when
\* Cap frames are waiting for it.
FeedPublish(g, f) ==
  /\ log[g] = <<>> => f = "key"
  /\ log' = [log EXCEPT ![g] = Append(@, f)]
  /\ \E missed \in SUBSET {v \in members : of[v] = g} :
       /\ \A v \in missed : Len(view[v]) - sent[v] >= Cap[v]
       /\ view' = [v \in Viewer |->
                     IF v \in members \ missed /\ of[v] = g
                     THEN Append(view[v], Len(log[g]) + 1) ELSE view[v]]
  /\ UNCHANGED <<of, members, sent>>

FeedJoin(v, g) ==
  /\ v \notin members
  /\ view[v] = <<>> /\ sent[v] = 0
  /\ of' = [of EXCEPT ![v] = g]
  /\ members' = members \cup {v}
  /\ view' = [view EXCEPT ![v] = Gop(log[g])]
  /\ UNCHANGED <<log, sent>>

FeedWrite(v) ==
  /\ sent[v] < Len(view[v])
  /\ sent' = [sent EXCEPT ![v] = @ + 1]
  /\ UNCHANGED <<log, of, members, view>>

FeedLeave(v) ==
  /\ v \in members
  /\ members' = members \ {v}
  /\ UNCHANGED <<log, of, view, sent>>

FeedNext ==
  \/ \E g \in Capture, f \in Frame : FeedPublish(g, f)
  \/ \E v \in Viewer : FeedWrite(v) \/ FeedLeave(v)
  \/ \E v \in Viewer, g \in Capture : FeedJoin(v, g)

FeedSpec == FeedInit /\ [][FeedNext]_feedVars

-----------------------------------------------------------------------------
FeedTypeOK ==
  /\ log \in [Capture -> Seq(Frame)]
  /\ of \in [Viewer -> Capture]
  /\ members \subseteq Viewer
  /\ view \in [Viewer -> Seq(Nat)]
  /\ sent \in [Viewer -> Nat]

\* What a decoder needs of the stream of one viewer: it begins at a key frame
\* of the capture and no frame comes twice or before an earlier one, whenever
\* the viewer joined and however often it was passed over (readAndMux,
\* addClientAndGetCache).
ViewsDecodable ==
  \A v \in Viewer :
    LET w == view[v] IN
    /\ \A i \in 1..Len(w) : w[i] \in 1..Len(log[of[v]])
    /\ \A i \in 1..(Len(w) - 1) : w[i] < w[i + 1]
    /\ w # <<>> => log[of[v]][w[1]] = "key"
=============================================================================
