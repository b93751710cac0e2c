----------------------------- MODULE ControlPath -----------------------------
(***************************************************************************)
(* How the input of the users of an Android device reaches its scrcpy      *)
(* server (src/internal/stream/ws.go, handlers.go, control.go): the        *)
(* WebSocket handlers, each with a queue and a goroutine that empties it,  *)
(* POST /control, and the one control socket they share under controlMu.   *)
(*                                                                         *)
(* A message on the socket is <<e, i>>: part i of event e.  A key press is *)
(* two messages, down and up; a touch, scroll or text is one.              *)
(***************************************************************************)
EXTENDS Naturals, Sequences

CONSTANTS
  Sock,        \* WebSocket clients
  Post,        \* POST requests, of one event each
  QueueCap,    \* capacity of controlCh (64 in the code)
  MaxEvents    \* bound: events that all clients send

ASSUME ControlAssumption ==
  /\ QueueCap \in Nat \ {0} /\ MaxEvents \in Nat
  /\ Sock \cap Post = {} /\ "nobody" \notin Sock \cup Post

NoOne == "nobody"
Sender == Sock \cup Post

VARIABLES
  conn,        \* s.controlConn: "nil", "open", or "closed" once s is cancelled
  holder,      \* who has locked controlMu
  input,       \* input[e]: who sent event e, and its type
  reader,      \* reader[c]: "reading", "parsed" (an event at hand), or "gone"
  rest,        \* rest[c]: messages of the event at hand that are to be passed on
  queue,       \* controlCh
  inHand,      \* inHand[c]: the message the goroutine has taken, as a sequence
  pump,        \* pump[c]: the goroutine that empties the queue
  answer,      \* answer[p]: what POST p was answered, "none" before
  wire         \* the messages the device has received

ctlVars == <<conn, holder, input, reader, rest, queue, inHand, pump, answer,
             wire>>

\* SerializeControlEvent: the messages of event e, or none if its type is unknown.
Event == {"touch", "key", "unknown"}
SerializeControlEvent(e, type) ==
  CASE type = "touch" -> << <<e, 1>> >>
    [] type = "key" -> << <<e, 1>>, <<e, 2>> >>
    [] type = "unknown" -> <<>>

CtlInit ==
  /\ conn = "nil" /\ holder = NoOne
  /\ input = <<>>
  /\ reader = [c \in Sender |-> "reading"]
  /\ rest = [c \in Sender |-> <<>>]
  /\ queue = [c \in Sock |-> <<>>]
  /\ inHand = [c \in Sock |-> <<>>]
  /\ pump = [c \in Sock |-> "on"]
  /\ answer = [p \in Post |-> "none"]
  /\ wire = <<>>

\* The goroutine of the capture connects the socket; it is closed when the
\* capture's context is cancelled and the variable keeps it.
ControlConnected ==
  /\ conn = "nil" /\ holder = NoOne
  /\ conn' = "open"
  /\ UNCHANGED <<holder, input, reader, rest, queue, inHand, pump, answer, wire>>

Cancel ==
  /\ conn = "open"
  /\ conn' = "closed"
  /\ UNCHANGED <<holder, input, reader, rest, queue, inHand, pump, answer, wire>>

-----------------------------------------------------------------------------
\* ReadMessage returns an event of client c (or the body of POST c is decoded);
\* the socket is looked up under controlMu.
Receive(c, type) ==
  /\ reader[c] = "reading" /\ Len(input) < MaxEvents
  /\ input' = Append(input, [by |-> c, type |-> type])
  /\ reader' = [reader EXCEPT ![c] = "parsed"]
  /\ rest' = [rest EXCEPT ![c] = SerializeControlEvent(Len(input) + 1, type)]
  /\ UNCHANGED <<conn, holder, queue, inHand, pump, answer, wire>>

\* A WebSocket event without a socket, or of an unknown type, is dropped.
Skip(c) ==
  /\ reader[c] = "parsed" /\ holder = NoOne
  /\ conn = "nil" \/ rest[c] = <<>>
  /\ reader' = [reader EXCEPT ![c] = "reading"]
  /\ rest' = [rest EXCEPT ![c] = <<>>]
  /\ UNCHANGED <<conn, holder, input, queue, inHand, pump, answer, wire>>

Accept(c) ==
  /\ reader[c] = "parsed" /\ holder = NoOne
  /\ conn # "nil" /\ rest[c] # <<>>
  /\ reader' = [reader EXCEPT ![c] = "passing"]
  /\ UNCHANGED <<conn, holder, input, rest, queue, inHand, pump, answer, wire>>

\* Each message is put in the queue on its own, or dropped if there is no room.
Enqueue(c) ==
  /\ reader[c] = "passing"
  /\ rest' = [rest EXCEPT ![c] = Tail(@)]
  /\ queue' = IF Len(queue[c]) < QueueCap
              THEN [queue EXCEPT ![c] = Append(@, Head(rest[c]))] ELSE queue
  /\ reader' = [reader EXCEPT ![c] = IF Len(rest[c]) = 1 THEN "reading" ELSE @]
  /\ UNCHANGED <<conn, holder, input, inHand, pump, answer, wire>>

\* The client is gone: the handler returns and closes the queue.
Gone(c) ==
  /\ reader[c] = "reading"
  /\ reader' = [reader EXCEPT ![c] = "gone"]
  /\ UNCHANGED <<conn, holder, input, rest, queue, inHand, pump, answer, wire>>

-----------------------------------------------------------------------------
(* The goroutine that writes the queue of client c to the socket.          *)

\* Mutant of Take: each message in the queue has a goroutine of its own.
MutTakeAny(c) ==
  /\ pump[c] = "on" /\ inHand[c] = <<>>
  /\ \E i \in 1..Len(queue[c]) :
       /\ inHand' = [inHand EXCEPT ![c] = <<queue[c][i]>>]
       /\ queue' = [queue EXCEPT ![c] = SubSeq(@, 1, i - 1) \o SubSeq(@, i + 1, Len(@))]
  /\ UNCHANGED <<conn, holder, input, reader, rest, pump, answer, wire>>

Take(c) ==
  /\ pump[c] = "on" /\ inHand[c] = <<>> /\ queue[c] # <<>>
  /\ inHand' = [inHand EXCEPT ![c] = <<Head(queue[c])>>]
  /\ queue' = [queue EXCEPT ![c] = Tail(@)]
  /\ UNCHANGED <<conn, holder, input, reader, rest, pump, answer, wire>>

Lock(c) ==
  /\ pump[c] = "on" /\ inHand[c] # <<>> /\ holder = NoOne
  /\ holder' = c
  /\ pump' = [pump EXCEPT ![c] = "writing"]
  /\ UNCHANGED <<conn, input, reader, rest, queue, inHand, answer, wire>>

\* Mutant of WriteOne: a failed write returns without unlocking controlMu.
MutWriteKeepsLock(c) ==
  /\ pump[c] = "writing"
  /\ pump' = [pump EXCEPT ![c] = "on"]
  /\ wire' = IF conn = "open" THEN wire \o inHand[c] ELSE wire
  /\ inHand' = [inHand EXCEPT ![c] = <<>>]
  /\ holder' = IF conn = "closed" THEN holder ELSE NoOne
  /\ UNCHANGED <<conn, input, reader, rest, queue, answer>>

\* A write to the open socket returns when the device takes the message, one to
\* a closed socket fails; without a socket there is no write.
WriteOne(c) ==
  /\ pump[c] = "writing"
  /\ pump' = [pump EXCEPT ![c] = "on"]
  /\ wire' = IF conn = "open" THEN wire \o inHand[c] ELSE wire
  /\ inHand' = [inHand EXCEPT ![c] = <<>>]
  /\ holder' = NoOne
  /\ UNCHANGED <<conn, input, reader, rest, queue, answer>>

WriterDone(c) ==
  /\ pump[c] = "on" /\ reader[c] = "gone"
  /\ queue[c] = <<>> /\ inHand[c] = <<>>
  /\ pump' = [pump EXCEPT ![c] = "ended"]
  /\ UNCHANGED <<conn, holder, input, reader, rest, queue, inHand, answer, wire>>

-----------------------------------------------------------------------------
(* handleControl.                                                          *)

Answer(p, code) ==
  /\ answer' = [answer EXCEPT ![p] = code]
  /\ reader' = [reader EXCEPT ![p] = "gone"]

\* The first look at the socket: 503 without one, 400 for an unknown type.
Refuse(p) ==
  /\ reader[p] = "parsed" /\ holder = NoOne
  /\ \/ conn = "nil" /\ Answer(p, "unavailable")
     \/ conn # "nil" /\ rest[p] = <<>> /\ Answer(p, "refused")
  /\ UNCHANGED <<conn, holder, input, rest, queue, inHand, pump, wire>>

\* All messages are written under the lock.
LockPost(p) ==
  /\ reader[p] = "passing" /\ holder = NoOne
  /\ holder' = p
  /\ UNCHANGED <<conn, input, reader, rest, queue, inHand, pump, answer, wire>>

WritePost(p) ==
  /\ holder = p /\ rest[p] # <<>>
  /\ IF conn = "open"
     THEN /\ wire' = Append(wire, Head(rest[p]))
          /\ rest' = [rest EXCEPT ![p] = Tail(@)]
          /\ UNCHANGED <<holder, reader, answer>>
     ELSE Answer(p, "failed") /\ holder' = NoOne /\ UNCHANGED <<wire, rest>>
  /\ UNCHANGED <<conn, input, queue, inHand, pump>>

PostDone(p) ==
  /\ holder = p /\ rest[p] = <<>>
  /\ Answer(p, "done")
  /\ holder' = NoOne
  /\ UNCHANGED <<conn, input, rest, queue, inHand, pump, wire>>

-----------------------------------------------------------------------------
CtlNext ==
  \/ ControlConnected \/ Cancel
  \/ \E c \in Sender, type \in Event : Receive(c, type)
  \/ \E c \in Sock : \/ Skip(c) \/ Enqueue(c) \/ Gone(c)
                     \/ Take(c) \/ Lock(c) \/ WriteOne(c) \/ WriterDone(c)
  \/ \E c \in Sender : Accept(c)
  \/ \E p \in Post : Refuse(p) \/ LockPost(p) \/ WritePost(p) \/ PostDone(p)

\* Goroutines run when they can.  A write may wait for the device as long as
\* the socket is open, with controlMu locked.  sync.Mutex hands itself over to
\* a goroutine that has waited for a millisecond.
CtlFairness ==
  /\ \A c \in Sock :
       /\ WF_ctlVars(Take(c))
       /\ SF_ctlVars(Lock(c))
       /\ WF_ctlVars(conn # "open" /\ WriteOne(c))
       /\ WF_ctlVars(WriterDone(c))
  /\ \A p \in Post : WF_ctlVars(PostDone(p) \/ (conn # "open" /\ WritePost(p)))

CtlSpec == CtlInit /\ [][CtlNext]_ctlVars /\ CtlFairness

-----------------------------------------------------------------------------
CtlTypeOK ==
  /\ conn \in {"nil", "open", "closed"}
  /\ holder \in Sender \cup {NoOne}
  /\ input \in Seq([by : Sender, type : Event])
  /\ reader \in [Sender -> {"reading", "parsed", "passing", "gone"}]
  /\ rest \in [Sender -> Seq((1..MaxEvents) \X {1, 2})]
  /\ queue \in [Sock -> Seq((1..MaxEvents) \X {1, 2})]
  /\ inHand \in [Sock -> Seq((1..MaxEvents) \X {1, 2})]
  /\ pump \in [Sock -> {"on", "writing", "ended"}]
  /\ answer \in [Post -> {"none", "unavailable", "refused", "failed", "done"}]
  /\ wire \in Seq((1..MaxEvents) \X {1, 2})

\* The device gets the messages of one sender in the order the user made them
\* and none twice, however the queues, their goroutines and the requests
\* interleave; and nothing comes between the two messages of a POST (handleControl
\* keeps controlMu locked).
By(i) == input[wire[i][1]].by
InputOrdered ==
  /\ \A i, j \in 1..Len(wire) :
       i < j /\ By(i) = By(j)
         => \/ wire[i][1] < wire[j][1]
            \/ wire[i][1] = wire[j][1] /\ wire[i][2] < wire[j][2]
  /\ \A i \in 1..Len(wire) :
       By(i) \in Post /\ wire[i][2] = 2 => i > 1 /\ wire[i - 1] = <<wire[i][1], 1>>

\* A device that has stopped taking input keeps controlMu locked, but not beyond
\* the capture: once it is cancelled, the goroutine of a client that is gone ends
\* and a POST that is writing is answered.
ControlWritersEnd ==
  /\ \A c \in Sock : reader[c] = "gone" /\ conn = "closed" ~> pump[c] = "ended"
  /\ \A p \in Post : holder = p /\ conn = "closed" ~> answer[p] # "none"

\* Not held.  A key that was pressed is released: the queue may take the first
\* message of the event and drop the second.
KeysReleased ==
  \A i \in 1..Len(wire) :
    LET e == wire[i][1] IN
    /\ input[e].type = "key" /\ wire[i][2] = 1
    /\ By(i) \in Sock /\ pump[By(i)] = "ended" /\ conn = "open"
    => \E j \in 1..Len(wire) : wire[j] = <<e, 2>>
=============================================================================
