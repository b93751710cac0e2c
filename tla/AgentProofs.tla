---------------------------- MODULE AgentProofs ----------------------------
(***************************************************************************)
(* The agent of a device, for any number of commands and connections, and  *)
(* the recorder, whose dumps are such commands, for any number of          *)
(* gestures, recordings and spots.                                         *)
(***************************************************************************)
EXTENDS Agent, Recording, WellFoundedInduction, TLAPS

(***************************************************************************)
(* The agent.                                                              *)
(***************************************************************************)

\* A command that is being written holds a.mu, and while it does no handler
\* can take the connection off.
WriterHolds ==
  \A k \in Command : cmd[k] = "writing" => mu = k /\ wsConn # NoConn

\* A call has its entry before anybody can answer it, and while it is written its
\* channel is in the table, in a handler's hands or filled ...
EntryFirst ==
  \A k \in Command :
    /\ cmd[k] = "locking" => k \in pending
    /\ cmd[k] = "writing" => k \in pending \cup inbox \/ \E c \in Conn : <<c, k>> \in held

\* ... and nothing is under way on behalf of a call that has not begun to write.
WrittenFirst ==
  \A c \in Conn, k \in Command :
    <<c, k>> \in sent \cup replies \cup held => cmd[k] \notin {"idle", "locking"}

AgentInv ==
  /\ AgentTypeOK
  /\ PendingAccounted
  /\ WriterHolds
  /\ EntryFirst
  /\ WrittenFirst

-----------------------------------------------------------------------------
\* Closing connections only loses what is under way on them.
LEMMA CloseFacts ==
  ASSUME NEW cs \in SUBSET Conn, Close(cs), AgentTypeOK
  PROVE  /\ closed' \subseteq Conn
         /\ sent' \subseteq sent /\ replies' \subseteq replies
BY DEF Close, AgentTypeOK

\* Run, its deployment and Stop leave commands and the active connection alone.
LEMMA LifeStep ==
  ASSUME AgentInv,
         \/ RunStep \/ RunListenFails \/ TunnelTeardown \/ DeployAgent \/ DeviceGone
         \/ StopBegin \/ StopStep
  PROVE  AgentInv'
<1> USE AgentAssumption
<1>1. UNCHANGED <<cmd, pending, held, inbox, wsConn, mu>>
  BY DEF RunStep, StopStep, RunServe, RunTeardown, RunClose, RunReturn, StopBegin, StopLock,
         StopReturn, RunListenFails, TunnelTeardown, DeployAgent, DeviceGone, connVars, callVars
<1>2. /\ closed' \subseteq Conn
      /\ sent' \subseteq sent /\ replies' \subseteq replies
  <2>1. CASE RunClose
    <3>1. {wsConn} \ {NoConn} \in SUBSET Conn
      BY DEF AgentInv, AgentTypeOK
    <3> QED BY <2>1, <3>1, CloseFacts DEF RunClose, AgentInv
  <2>2. CASE UNCHANGED <<closed, sent, replies>>
    BY <2>2 DEF AgentInv, AgentTypeOK
  <2> QED
    BY <2>1, <2>2 DEF RunStep, StopStep, RunServe, RunTeardown, RunReturn, StopBegin, StopLock,
         StopReturn, RunListenFails, TunnelTeardown, DeployAgent, DeviceGone, connVars, callVars
<1>3. AgentTypeOK'
  <2> USE <1>1, <1>2 DEF AgentInv, AgentTypeOK, connVars, callVars
  <2>1. CASE RunStep
    BY <2>1 DEF RunStep, RunServe, RunTeardown, RunClose, RunReturn
  <2>2. CASE RunListenFails \/ TunnelTeardown \/ DeployAgent \/ DeviceGone
    BY <2>2 DEF RunListenFails, TunnelTeardown, DeployAgent, DeviceGone
  <2>3. CASE StopBegin \/ StopStep
    BY <2>3 DEF StopStep, StopBegin, StopLock, StopReturn
  <2> QED BY <2>1, <2>2, <2>3
<1>4. (PendingAccounted /\ WriterHolds /\ EntryFirst /\ WrittenFirst)'
  BY <1>1, <1>2 DEF AgentInv, PendingAccounted, WriterHolds, EntryFirst, WrittenFirst
<1> QED BY <1>3, <1>4 DEF AgentInv

\* A step of a handler or of the peer that deals with no response touches no
\* command; wsConn changes only while nobody writes.
LEMMA ConnStep ==
  ASSUME AgentInv, NEW c \in Conn,
         \/ Connect(c) \/ StoreConn(c) \/ ResponseRead(c) \/ Publish(c) \/ EndHandler(c)
         \/ ReadEvent(c) \/ PeerCloses(c)
  PROVE  AgentInv'
<1> USE AgentAssumption
    DEF Connect, StoreConn, ResponseRead, Publish, EndHandler, ReadEvent,
        PeerCloses, HandlerGoto, lifeVars, callVars
<1>1. /\ UNCHANGED <<cmd, pending, held, inbox, mu>>
      /\ mu # Nobody => wsConn' = wsConn
  OBVIOUS
<1>2. /\ closed' \subseteq Conn
      /\ sent' \subseteq sent /\ replies' \subseteq replies
  BY CloseFacts DEF AgentInv, AgentTypeOK
<1>3. AgentTypeOK'
  BY <1>2 DEF AgentInv, AgentTypeOK
<1>4. (PendingAccounted /\ EntryFirst /\ WrittenFirst)'
  BY <1>1, <1>2 DEF AgentInv, PendingAccounted, EntryFirst, WrittenFirst
<1>5. WriterHolds'
  BY <1>1 DEF AgentInv, WriterHolds
<1> QED BY <1>3, <1>4, <1>5 DEF AgentInv

\* The handler sends on the channel it holds: the call's, if it has not returned.
LEMMA DeliverStep ==
  ASSUME AgentInv, NEW c \in Conn, Deliver(c)
  PROVE  AgentInv'
<1> USE AgentAssumption DEF Deliver, HandlerGoto, lifeVars
<1>1. AgentTypeOK'
  BY DEF AgentInv, AgentTypeOK
<1>2. /\ \A d \in Conn, k \in Command : <<d, k>> \in held' <=> <<d, k>> \in held /\ d # c
      /\ \A k \in Command : k \in inbox' <=>
           k \in inbox \/ (<<c, k>> \in held /\ cmd[k] \in {"writing", "waiting"})
  BY DEF AgentInv, AgentTypeOK
<1>3. UNCHANGED <<cmd, pending, sent, replies, mu, wsConn>>
  OBVIOUS
<1> HIDE DEF Deliver
<1>4. PendingAccounted'
  BY <1>2, <1>3 DEF AgentInv, PendingAccounted
<1>5. EntryFirst'
  BY <1>2, <1>3 DEF AgentInv, EntryFirst
<1>6. (WriterHolds /\ WrittenFirst)'
  BY <1>2, <1>3 DEF AgentInv, WriterHolds, WrittenFirst
<1> QED BY <1>1, <1>4, <1>5, <1>6 DEF AgentInv

LEMMA ResponseStep ==
  ASSUME AgentInv, NEW c \in Conn, NEW k \in Command,
         ReadResponse(c, k) \/ DeviceAnswers(c, k)
  PROVE  AgentInv'
<1> USE AgentAssumption
<1>1. CASE ReadResponse(c, k)
  <2> USE <1>1 DEF ReadResponse, HandlerGoto, lifeVars
  <2>1. AgentTypeOK'
    BY DEF AgentInv, AgentTypeOK
  <2>2. cmd[k] \notin {"idle", "locking"}
    BY DEF AgentInv, WrittenFirst
  <2>3. PendingAccounted'
    <3>1. ASSUME k \in pending PROVE PendingAccounted'
      BY <2>2, <3>1 DEF AgentInv, PendingAccounted
    <3>2. ASSUME k \notin pending PROVE PendingAccounted'
      BY <2>2, <3>2 DEF AgentInv, PendingAccounted
    <3> QED BY <3>1, <3>2
  <2>4. (WriterHolds /\ EntryFirst /\ WrittenFirst)'
    BY <2>2 DEF AgentInv, WriterHolds, EntryFirst, WrittenFirst
  <2> QED BY <2>1, <2>3, <2>4 DEF AgentInv
<1>2. CASE DeviceAnswers(c, k)
  BY <1>2 DEF DeviceAnswers, lifeVars, connVars, AgentInv, AgentTypeOK,
              PendingAccounted, WriterHolds, EntryFirst, WrittenFirst
<1> QED BY <1>1, <1>2

LEMMA CommandStep ==
  ASSUME AgentInv, NEW k \in Command,
         SendRefused(k) \/ SendBegin(k) \/ WriteReaches(k) \/ SendStep(k)
  PROVE  AgentInv'
<1> USE AgentAssumption
    DEF SendStep, SendRefused, SendBegin, SendLock, WriteReaches, SendWritten, SendWriteFails,
        SendAnswered, SendExpires, CmdGoto, lifeVars, connVars
<1>1. cmd[k] = "writing" => wsConn \in Conn
  BY DEF AgentInv, AgentTypeOK, WriterHolds
<1>2. AgentTypeOK'
  BY <1>1 DEF AgentInv, AgentTypeOK
<1>3. PendingAccounted'
  <2> SUFFICES ASSUME NEW j \in Command
               PROVE  /\ (j \in pending => cmd[j] \in {"locking", "writing", "waiting"})'
                      /\ (j \in inbox => cmd[j] \in {"writing", "waiting"} /\ j \notin pending)'
                      /\ (cmd[j] = "waiting" =>
                            j \in pending \cup inbox \/ \E c \in Conn : <<c, j>> \in held)'
                      /\ \A c \in Conn : (<<c, j>> \in held =>
                            j \notin pending \cup inbox /\ \A d \in Conn : <<d, j>> \in held => d = c)'
    BY Zenon DEF PendingAccounted
  <2>1. held' = held /\ (j # k => cmd'[j] = cmd[j] /\ (j \in pending' <=> j \in pending)
                                              /\ (j \in inbox' <=> j \in inbox))
    BY DEF AgentInv, AgentTypeOK
  <2>2. CASE j # k
    BY <2>1, <2>2 DEF AgentInv, PendingAccounted
  <2>3. CASE j = k /\ (SendRefused(k) \/ SendBegin(k) \/ SendLock(k) \/ WriteReaches(k))
    BY <2>1, <2>3 DEF AgentInv, AgentTypeOK, PendingAccounted, EntryFirst, WrittenFirst
  <2>4. CASE j = k /\ (SendWritten(k) \/ SendWriteFails(k) \/ SendAnswered(k) \/ SendExpires(k))
    BY <2>1, <2>4 DEF AgentInv, AgentTypeOK, PendingAccounted, EntryFirst
  <2> QED BY <2>2, <2>3, <2>4
<1>4. WriterHolds'
  BY DEF AgentInv, AgentTypeOK, WriterHolds
<1>5. EntryFirst'
  BY DEF AgentInv, AgentTypeOK, EntryFirst
<1>6. WrittenFirst'
  BY DEF AgentInv, AgentTypeOK, WrittenFirst
<1> QED BY <1>2, <1>3, <1>4, <1>5, <1>6 DEF AgentInv

-----------------------------------------------------------------------------
LEMMA AgentInvariant == AgentSpec => []AgentInv
<1>1. ASSUME AgentInit PROVE AgentInv
  <2>1. AgentTypeOK
    <3>2. handler \in [Conn -> {"none", "upgraded", "reading", "delivering", "locking",
                                "publishing", "gone"}]
      BY <1>1 DEF AgentInit
    <3>3. cmd \in [Command -> {"idle", "locking", "writing", "waiting", "ok", "failed"}]
      BY <1>1 DEF AgentInit
    <3> QED BY <1>1, <3>2, <3>3 DEF AgentInit, AgentTypeOK
  <2>2. PendingAccounted /\ WriterHolds /\ EntryFirst /\ WrittenFirst
    BY <1>1 DEF AgentInit, PendingAccounted, WriterHolds, EntryFirst, WrittenFirst
  <2> QED BY <2>1, <2>2 DEF AgentInv
<1>2. ASSUME AgentInv, AgentNext PROVE AgentInv'
  BY <1>2, LifeStep, ConnStep, DeliverStep, ResponseStep, CommandStep
  DEF AgentNext, HandlerStep
<1>3. ASSUME AgentInv, UNCHANGED agentVars PROVE AgentInv'
  BY <1>3 DEF agentVars, lifeVars, connVars, callVars, AgentInv, AgentTypeOK,
              PendingAccounted, WriterHolds, EntryFirst, WrittenFirst
<1> QED BY <1>1, <1>2, <1>3, PTL DEF AgentSpec

\* SendCommand's table is exact whatever the application answers, when and
\* how often: no response of a waiting call is lost or delivered twice, no entry
\* is left behind.
THEOREM PendingSafety == AgentSpec => [](AgentTypeOK /\ PendingAccounted)
<1>1. AgentInv => AgentTypeOK /\ PendingAccounted
  BY DEF AgentInv
<1> QED BY <1>1, AgentInvariant, PTL

\* handleWS's deferred function takes off its own connection only, however
\* many connections come and go.
THEOREM ActiveConnSafety == AgentSpec => ActiveConnKept
<1>1. ASSUME AgentInv, AgentNext, wsConn # NoConn, wsConn' = NoConn
      PROVE  handler'[wsConn] = "gone"
  <2>1. PICK c \in Conn : EndHandler(c)
    BY <1>1, AgentAssumption
    DEF AgentNext, RunStep, StopStep, RunServe, RunTeardown, RunClose, RunReturn,
        StopBegin, StopLock, StopReturn, RunListenFails, TunnelTeardown, DeployAgent, DeviceGone,
        HandlerStep, Connect, StoreConn, Deliver, ResponseRead, Publish, ReadEvent, PeerCloses,
        ReadResponse, DeviceAnswers, SendStep, SendRefused, SendBegin, SendLock, WriteReaches,
        SendWritten, SendWriteFails, SendAnswered, SendExpires, connVars
  <2> QED
    BY <1>1, <2>1 DEF EndHandler, HandlerGoto, AgentInv, AgentTypeOK
<1>2. AgentInv /\ [AgentNext]_agentVars
      => [wsConn # NoConn /\ wsConn' = NoConn => handler'[wsConn] = "gone"]_agentVars
  BY <1>1
<1> QED BY <1>2, AgentInvariant, PTL DEF AgentSpec, ActiveConnKept

\* a.mu is locked exactly while a command is being written.
MutexInUse == \A k \in Command : mu = k <=> cmd[k] = "writing"

\* Neither a failing write nor any other return of SendCommand leaves a.mu locked: it
\* is free again as soon as the write has ended, so that Run, Stop, the handlers and
\* the other commands get on (the state behind StopReturns and CommandsReturn).
THEOREM AgentMutexInUse == AgentSpec => []MutexInUse
<1>1. AgentInit => MutexInUse
  BY AgentAssumption DEF AgentInit, MutexInUse
<1>2. AgentInv /\ MutexInUse /\ [AgentNext]_agentVars => MutexInUse'
  <2> SUFFICES ASSUME AgentInv, MutexInUse, [AgentNext]_agentVars PROVE MutexInUse'
    OBVIOUS
  <2>1. CASE UNCHANGED <<mu, cmd>>
    BY <2>1 DEF MutexInUse
  <2>2. ASSUME NEW k \in Command, SendRefused(k) \/ SendBegin(k) \/ WriteReaches(k) \/ SendStep(k) PROVE MutexInUse'
    <3>1. cmd \in [Command -> {"idle", "locking", "writing", "waiting", "ok", "failed"}]
      BY DEF AgentInv, AgentTypeOK
    <3> QED BY <2>2, <3>1, AgentAssumption
            DEF MutexInUse, CmdGoto, SendRefused, SendBegin, SendStep, SendLock, WriteReaches, SendWritten,
                SendWriteFails, SendAnswered, SendExpires
  <2>3. UNCHANGED <<mu, cmd>> \/ \E k \in Command : SendRefused(k) \/ SendBegin(k) \/ WriteReaches(k) \/ SendStep(k)
    BY DEF AgentNext, agentVars, RunStep, StopStep, RunServe, RunTeardown, RunClose, RunReturn,
           StopBegin, StopLock, StopReturn, RunListenFails, TunnelTeardown, DeployAgent, DeviceGone,
           HandlerStep, Connect, StoreConn, Deliver, ResponseRead, Publish, ReadEvent, EndHandler,
           PeerCloses, ReadResponse, DeviceAnswers, callVars
  <2> QED BY <2>1, <2>2, <2>3
<1> QED BY <1>1, <1>2, AgentInvariant, PTL DEF AgentSpec

\* How far NoPublishAfterStop, which the code does not have, can fail: a send on the
\* closed channel is only ever made by the handler of a connection that has outlived
\* Stop, never while Run, Stop or a command is still at work on the device.
THEOREM PanicOnlyAfterStop == AgentSpec => [](panicked => stop = "returned" /\ run = "returned")
<1> DEFINE Sealed == /\ sealed => stop = "returned"
                     /\ stop = "returned" => run = "returned"
                     /\ panicked => sealed
<1>1. AgentInit => Sealed
  BY DEF AgentInit
<1>2. AgentInv /\ Sealed /\ [AgentNext]_agentVars => Sealed'
  <2> SUFFICES ASSUME AgentInv, Sealed, [AgentNext]_agentVars PROVE Sealed'
    OBVIOUS
  <2> USE DEF lifeVars, connVars
  <2>1. CASE StopBegin \/ StopStep
    BY <2>1 DEF StopStep, StopBegin, StopLock, StopReturn
  <2>2. CASE RunStep \/ RunListenFails \/ TunnelTeardown
    <3>1. run # "returned" /\ UNCHANGED <<stop, sealed, panicked>>
      BY <2>2 DEF RunStep, RunServe, RunTeardown, RunClose, RunReturn, RunListenFails,
                  TunnelTeardown
    <3> QED BY <3>1
  <2>3. ASSUME NEW c \in Conn, Publish(c) PROVE Sealed'
    BY <2>3 DEF Publish
  <2>4. ASSUME NEW c \in Conn,
               \/ Connect(c) \/ StoreConn(c) \/ Deliver(c) \/ ResponseRead(c) \/ EndHandler(c)
               \/ ReadEvent(c) \/ PeerCloses(c)
               \/ \E k \in Command : ReadResponse(c, k) \/ DeviceAnswers(c, k)
        PROVE  UNCHANGED <<run, stop, sealed, panicked>>
    BY <2>4 DEF Connect, StoreConn, Deliver, ResponseRead, EndHandler, ReadEvent,
                PeerCloses, ReadResponse, DeviceAnswers
  <2>5. ASSUME NEW k \in Command, SendRefused(k) \/ SendBegin(k) \/ WriteReaches(k) \/ SendStep(k)
        PROVE  UNCHANGED <<run, stop, sealed, panicked>>
    BY <2>5 DEF SendRefused, SendBegin, SendStep, SendLock, WriteReaches, SendWritten, SendWriteFails,
                SendAnswered, SendExpires
  <2>6. CASE DeployAgent \/ DeviceGone \/ UNCHANGED agentVars
    <3>1. UNCHANGED <<run, stop, sealed, panicked>>
      BY <2>6 DEF DeployAgent, DeviceGone, agentVars
    <3> QED BY <3>1
  <2> QED BY <2>1, <2>2, <2>3, <2>4, <2>5, <2>6 DEF AgentNext, HandlerStep
<1>3. Sealed => (panicked => stop = "returned" /\ run = "returned")
  OBVIOUS
<1> QED BY <1>1, <1>2, <1>3, AgentInvariant, PTL DEF AgentSpec

-----------------------------------------------------------------------------
(***************************************************************************)
(* The recorder.                                                           *)
(***************************************************************************)

Made == [kind : {"text", "swipe"}, session : SessionNo]
          \cup [kind : {"click"}, spot : Spot, session : SessionNo]
RawEvent == [kind : {"launch"}]
              \cup [kind : {"text", "swipe"}, gesture : Gesture]
              \cup [kind : {"click"}, gesture : Gesture, spot : Spot, xml : BOOLEAN]

\* The types, and that the recording under way is the last one started.
SessionsInv ==
  /\ made \in Seq(Made) /\ Len(made) <= MaxGesture
  /\ started \in 0..MaxSession /\ current \in {0, started}
  /\ events \in [SessionNo -> Seq(RawEvent)]
  /\ rec \in [Gesture -> {"none", "spawned", "dumping", "found", "ended", "dropped"}]
  /\ holds \in [Gesture -> 0..MaxSession]

\* A goroutine that has looked the session up has found the one its gesture was
\* made in or a later one; when it has ended and there was no later one, the
\* gesture is in that session.
GestureInv(g) ==
  /\ g <= Len(made) <=> rec[g] # "none"
  /\ g <= Len(made) => made[g].session \in 1..started
  /\ rec[g] \in {"dumping", "found"} => holds[g] \in made[g].session..started
  /\ rec[g] = "dumping" => made[g].kind = "click"
  /\ rec[g] = "ended" /\ made[g].session = started => Recorded(started, g)
  /\ \A s \in SessionNo : Recorded(s, g) => rec[g] = "ended"

\* No gesture is in a session twice.
IsOf(s, i, g) == events[s][i].kind # "launch" /\ events[s][i].gesture = g
OnceInv ==
  \A s \in SessionNo, g \in Gesture : \A i, j \in DOMAIN events[s] :
    IsOf(s, i, g) /\ IsOf(s, j, g) => i = j

RecInv == SessionsInv /\ OnceInv /\ \A g \in Gesture : GestureInv(g)

-----------------------------------------------------------------------------
LEMMA RecInitInv == RecInit => RecInv
<1> SUFFICES ASSUME RecInit PROVE RecInv
  OBVIOUS
<1> USE DEF RecInit
<1>1. Len(<<>>) = 0 /\ DOMAIN <<>> = {}
  OBVIOUS
<1>2. SessionsInv
  BY <1>1, RecordingAssumption DEF SessionsInv
<1>3. OnceInv
  BY <1>1 DEF OnceInv
<1>4. \A s \in SessionNo, g \in Gesture : ~Recorded(s, g)
  BY <1>1 DEF Recorded
<1>5. \A g \in Gesture : ~(g <= Len(made)) /\ rec[g] = "none"
  BY <1>1, RecordingAssumption DEF Gesture
<1>6. \A g \in Gesture : GestureInv(g)
  BY <1>4, <1>5 DEF GestureInv
<1> QED BY <1>2, <1>3, <1>6 DEF RecInv

\* A step that records nothing.
LEMMA RecordedUnchanged ==
  ASSUME UNCHANGED events, OnceInv
  PROVE  OnceInv' /\ \A s, g : Recorded(s, g)' <=> Recorded(s, g)
  BY DEF OnceInv, Recorded, IsOf

\* An event of gesture g, which is nowhere in the session, is appended to it: the
\* session has that gesture, once, and the others as before.
LEMMA AppendRecords ==
  ASSUME SessionsInv, OnceInv, NEW h \in SessionNo, NEW g \in Gesture, ~Recorded(h, g),
         NEW e \in RawEvent, e.kind # "launch", e.gesture = g,
         events' = [events EXCEPT ![h] = Append(@, e)]
  PROVE  /\ (events \in [SessionNo -> Seq(RawEvent)])'
         /\ OnceInv'
         /\ \A s \in SessionNo, k \in Gesture :
              Recorded(s, k)' <=> Recorded(s, k) \/ (s = h /\ k = g)
<1>1. /\ events \in [SessionNo -> Seq(RawEvent)]
      /\ events'[h] = Append(events[h], e)
      /\ \A s \in SessionNo \ {h} : events'[s] = events[s]
  BY DEF SessionsInv
<1>2. (events \in [SessionNo -> Seq(RawEvent)])'
  BY <1>1
<1>3. PICK n \in Nat : /\ n = Len(events[h]) /\ DOMAIN events[h] = 1..n
                       /\ DOMAIN events'[h] = 1..(n + 1)
                       /\ \A i \in 1..n : events'[h][i] = events[h][i]
                       /\ events'[h][n + 1] = e
  BY <1>1
<1>4. \A i \in 1..n, k \in Gesture : IsOf(h, i, k)' <=> IsOf(h, i, k)
  BY <1>3 DEF IsOf
<1>5. \A k \in Gesture : IsOf(h, n + 1, k)' <=> k = g
  BY <1>3 DEF IsOf
<1>6. \A i \in 1..n : ~IsOf(h, i, g)
  BY <1>3 DEF Recorded, IsOf
<1>7. OnceInv'
  <2> SUFFICES ASSUME NEW s \in SessionNo, NEW k \in Gesture,
                      NEW i \in DOMAIN events'[s], NEW j \in DOMAIN events'[s],
                      IsOf(s, i, k)', IsOf(s, j, k)'
               PROVE  i = j
    BY DEF OnceInv
  <2>1. CASE s # h
    BY <1>1, <2>1 DEF OnceInv, IsOf
  <2>2. CASE s = h /\ i \in 1..n /\ j \in 1..n
    BY <1>3, <1>4, <2>2 DEF OnceInv
  <2>3. CASE s = h /\ i = n + 1 /\ j \in 1..n
    BY <1>4, <1>5, <1>6, <2>3
  <2>4. CASE s = h /\ i \in 1..n /\ j = n + 1
    BY <1>4, <1>5, <1>6, <2>4
  <2> QED BY <1>3, <2>1, <2>2, <2>3, <2>4
<1>8. ASSUME NEW s \in SessionNo, NEW k \in Gesture
      PROVE  Recorded(s, k)' <=> Recorded(s, k) \/ (s = h /\ k = g)
  <2>1. CASE s # h
    BY <1>1, <2>1 DEF Recorded
  <2>2. CASE s = h
    <3>1. Recorded(h, k) <=> \E i \in 1..n : IsOf(h, i, k)
      BY <1>3 DEF Recorded, IsOf
    <3>2. Recorded(h, k)' <=> \E i \in 1..(n + 1) : IsOf(h, i, k)'
      BY <1>3 DEF Recorded, IsOf
    <3>3. (\E i \in 1..(n + 1) : IsOf(h, i, k)') <=> (\E i \in 1..n : IsOf(h, i, k)) \/ k = g
      BY <1>4, <1>5
    <3> QED BY <2>2, <3>1, <3>2, <3>3
  <2> QED BY <2>1, <2>2
<1> QED BY <1>2, <1>7, <1>8

\* A new recording begins with a session nothing has been recorded in.
LEMMA StartInv ==
  ASSUME RecInv, StartRecording
  PROVE  RecInv'
<1> USE DEF RecInv
<1>0. PICK n \in SessionNo : n = started + 1 /\ started' = n /\ current' = n
  BY RecordingAssumption DEF StartRecording, SessionsInv, SessionNo
<1>1. PICK first \in {<<>>, <<[kind |-> "launch"]>>} : events' = [events EXCEPT ![n] = first]
  BY <1>0 DEF StartRecording
<1>2. first \in Seq(RawEvent) /\ \A i \in DOMAIN first : first[i].kind = "launch"
  <2>1. CASE first = <<>>
    BY <2>1
  <2>2. CASE first = <<[kind |-> "launch"]>>
    <3>1. [kind |-> "launch"] \in RawEvent /\ [kind |-> "launch"].kind = "launch"
      BY DEF RawEvent
    <3> QED BY <2>2, <3>1
  <2> QED BY <1>1, <2>1, <2>2
<1>3. /\ events'[n] = first
      /\ \A s \in SessionNo \ {n} : events'[s] = events[s]
      /\ (events \in [SessionNo -> Seq(RawEvent)])'
  BY <1>1, <1>2 DEF SessionsInv
<1>4. UNCHANGED <<made, rec, holds>> /\ started \in Nat
  BY DEF StartRecording, SessionsInv
<1>5. SessionsInv'
  <2>1. (started \in 0..MaxSession /\ current \in {0, started})'
    BY <1>0, RecordingAssumption DEF SessionNo
  <2> QED BY <1>3, <1>4, <2>1 DEF SessionsInv
<1>6. OnceInv'
  BY <1>2, <1>3 DEF OnceInv, IsOf
<1>7. ASSUME NEW g \in Gesture PROVE GestureInv(g)'
  <2>1. GestureInv(g)
    OBVIOUS
  <2>2. \A s \in SessionNo : Recorded(s, g)' => Recorded(s, g)
    BY <1>2, <1>3 DEF Recorded
  <2>3. g <= Len(made) => made[g].session # n /\ made[g].session \in 1..n
    BY <1>0, <1>4, <2>1 DEF GestureInv, SessionNo
  <2>4. rec[g] \in {"dumping", "found"} => holds[g] \in made[g].session..n
    BY <1>0, <1>4, <2>1 DEF GestureInv, SessionNo
  <2>5. rec[g] \in {"ended"} => g <= Len(made)
    BY <2>1 DEF GestureInv
  <2> QED BY <1>0, <1>4, <2>1, <2>2, <2>3, <2>4, <2>5 DEF GestureInv
<1> QED BY <1>5, <1>6, <1>7

\* The next gesture is none of those made so far.
LEMMA NextGesture ==
  ASSUME RecInv, Len(made) < MaxGesture, current # 0, NEW m \in Made, m.session = current,
         made' = Append(made, m)
  PROVE  /\ Len(made) + 1 \in Gesture
         /\ rec[Len(made) + 1] = "none"
         /\ made' \in Seq(Made) /\ Len(made') = Len(made) + 1
         /\ \A g \in 1..Len(made) : made'[g] = made[g]
         /\ made'[Len(made) + 1] = m
         /\ \A s \in SessionNo : ~Recorded(s, Len(made) + 1)
<1>1. made \in Seq(Made) /\ Len(made) \in Nat
  BY DEF RecInv, SessionsInv
<1>2. Len(made) + 1 \in Gesture
  BY <1>1, RecordingAssumption DEF Gesture
<1>3. rec[Len(made) + 1] = "none" /\ \A s \in SessionNo : ~Recorded(s, Len(made) + 1)
  BY <1>1, <1>2 DEF RecInv, GestureInv
<1> QED BY <1>1, <1>2, <1>3

LEMMA TouchInv ==
  ASSUME RecInv, NEW m \in Made, m.session = current, Touch(m)
  PROVE  RecInv'
<1> USE DEF RecInv
<1>1. PICK n \in Gesture : n = Len(made) + 1
  BY NextGesture DEF Touch
<1>2. /\ rec[n] = "none" /\ (made \in Seq(Made))' /\ Len(made') = n /\ Len(made) \in Nat
      /\ \A g \in 1..Len(made) : made'[g] = made[g]
      /\ made'[n] = m /\ \A s \in SessionNo : ~Recorded(s, n)
  BY <1>1, NextGesture DEF Touch, SessionsInv
<1>3. /\ rec'[n] = "spawned" /\ \A g \in Gesture \ {n} : rec'[g] = rec[g]
      /\ (rec \in [Gesture -> {"none", "spawned", "dumping", "found", "ended", "dropped"}])'
      /\ UNCHANGED <<current, started, events, holds>> /\ current # 0
  BY <1>1 DEF Touch, SessionsInv
<1>4. SessionsInv'
  BY <1>1, <1>2, <1>3 DEF SessionsInv, Touch, Gesture
<1>5. OnceInv' /\ \A s, g : Recorded(s, g)' <=> Recorded(s, g)
  BY <1>3, RecordedUnchanged
<1>6. ASSUME NEW g \in Gesture PROVE GestureInv(g)'
  <2>1. CASE g = n
    <3>1. m.session \in 1..started
      BY <1>3 DEF SessionsInv
    <3> QED BY <1>2, <1>3, <1>5, <2>1, <3>1 DEF GestureInv, Gesture
  <2>2. CASE g # n
    <3>1. GestureInv(g) /\ g \in Nat /\ g >= 1
      BY DEF Gesture
    <3>2. (g <= Len(made') <=> g <= Len(made)) /\ (g <= Len(made) => made'[g] = made[g])
      BY <1>1, <1>2, <2>2, <3>1
    <3>3. rec'[g] = rec[g] /\ (rec[g] # "none" => made'[g] = made[g])
      BY <1>3, <2>2, <3>1, <3>2 DEF GestureInv
    <3> QED BY <1>3, <1>5, <3>1, <3>2, <3>3 DEF GestureInv
  <2> QED BY <2>1, <2>2
<1> QED BY <1>4, <1>5, <1>6

\* A text is in the session at once.
LEMMA TextInv ==
  ASSUME RecInv, RecordTextInput
  PROVE  RecInv'
<1> USE DEF RecInv
<1> DEFINE m == [kind |-> "text", session |-> current]
<1>0. PICK c \in SessionNo : c = current /\ c = started /\ current # 0
  BY RecordingAssumption DEF RecordTextInput, SessionsInv, SessionNo
<1>m. m \in Made /\ m.session = current
  BY <1>0 DEF Made
<1>c. made' = Append(made, m) /\ Len(made) < MaxGesture
  BY DEF RecordTextInput
<1> HIDE DEF m
<1>1. PICK n \in Gesture : n = Len(made) + 1
  BY <1>0, <1>m, <1>c, NextGesture
<1>2. /\ rec[n] = "none" /\ (made \in Seq(Made))' /\ Len(made') = n /\ Len(made) \in Nat
      /\ \A g \in 1..Len(made) : made'[g] = made[g]
      /\ made'[n] = m /\ \A s \in SessionNo : ~Recorded(s, n)
  BY <1>0, <1>m, <1>c, <1>1, NextGesture DEF SessionsInv
<1>3. /\ rec'[n] = "ended" /\ \A g \in Gesture \ {n} : rec'[g] = rec[g]
      /\ (rec \in [Gesture -> {"none", "spawned", "dumping", "found", "ended", "dropped"}])'
      /\ UNCHANGED <<current, started, holds>>
  BY <1>1 DEF RecordTextInput, SessionsInv
<1>4. PICK e \in RawEvent : /\ e.kind # "launch" /\ e.gesture = n
                            /\ events' = [events EXCEPT ![c] = Append(@, e)]
  <2>1. [kind |-> "text", gesture |-> n] \in RawEvent
    BY DEF RawEvent
  <2>2. [kind |-> "text", gesture |-> n].kind # "launch"
    OBVIOUS
  <2>3. events' = [events EXCEPT ![c] = Append(@, [kind |-> "text", gesture |-> n])]
    BY <1>0, <1>1 DEF RecordTextInput
  <2> QED BY <2>1, <2>2, <2>3
<1>5. /\ (events \in [SessionNo -> Seq(RawEvent)])' /\ OnceInv'
      /\ \A s \in SessionNo, k \in Gesture :
           Recorded(s, k)' <=> Recorded(s, k) \/ (s = c /\ k = n)
  <2>1. SessionsInv /\ OnceInv /\ ~Recorded(c, n)
    BY <1>2
  <2> HIDE DEF RecInv
  <2> QED BY <1>4, <2>1, AppendRecords
<1>6. SessionsInv'
  BY <1>1, <1>2, <1>3, <1>5 DEF SessionsInv, Gesture
<1>7. ASSUME NEW g \in Gesture PROVE GestureInv(g)'
  <2>1. CASE g = n
    <3>1. m.session \in 1..started
      <4>1. c \in 1..c
        BY RecordingAssumption DEF SessionNo
      <4>2. m.session = c
        BY <1>0, <1>m
      <4> QED BY <1>0, <4>1, <4>2
    <3> QED BY <1>0, <1>2, <1>3, <1>5, <2>1, <3>1 DEF GestureInv, Gesture
  <2>2. CASE g # n
    <3>1. GestureInv(g) /\ g \in Nat /\ g >= 1
      BY DEF Gesture
    <3>2. (g <= Len(made') <=> g <= Len(made)) /\ (g <= Len(made) => made'[g] = made[g])
      BY <1>1, <1>2, <2>2, <3>1
    <3>3. rec'[g] = rec[g] /\ (rec[g] # "none" => made'[g] = made[g])
      BY <1>3, <2>2, <3>1, <3>2 DEF GestureInv
    <3>4. \A s \in SessionNo : Recorded(s, g)' <=> Recorded(s, g)
      BY <1>5, <2>2
    <3>5. started \in SessionNo
      BY <1>0
    <3> QED BY <1>3, <3>1, <3>2, <3>3, <3>4, <3>5 DEF GestureInv
  <2> QED BY <2>1, <2>2
<1> QED BY <1>5, <1>6, <1>7

\* The goroutine of a gesture goes on without recording anything.
LEMMA GotoInv ==
  ASSUME RecInv, NEW g \in Gesture, RecordNothing(g) \/ LookUp(g)
  PROVE  RecInv'
<1> USE DEF RecInv
<1>1. /\ rec[g] = "spawned" /\ rec'[g] \in {"dropped", "dumping", "found"}
      /\ (rec \in [Gesture -> {"none", "spawned", "dumping", "found", "ended", "dropped"}])'
      /\ \A k \in Gesture \ {g} : rec'[k] = rec[k] /\ holds'[k] = holds[k]
      /\ UNCHANGED <<made, current, started, events>>
  BY DEF RecordNothing, LookUp, RecGoto, SessionsInv
<1>2. (holds \in [Gesture -> 0..MaxSession])'
  BY DEF RecordNothing, LookUp, SessionsInv
<1>3. /\ rec'[g] # "dropped" => holds'[g] = current /\ current = started /\ current # 0
      /\ rec'[g] = "dumping" => made[g].kind = "click"
  BY DEF RecordNothing, LookUp, RecGoto, SessionsInv
<1>4. SessionsInv'
  BY <1>1, <1>2 DEF SessionsInv
<1>5. OnceInv' /\ \A s, k : Recorded(s, k)' <=> Recorded(s, k)
  BY <1>1, RecordedUnchanged
<1>6. ASSUME NEW k \in Gesture PROVE GestureInv(k)'
  <2>1. CASE k = g
    <3>1. GestureInv(g) /\ started \in Nat
      BY DEF SessionsInv
    <3>2. made[g].session \in 1..started /\ g <= Len(made) /\ \A s \in SessionNo : ~Recorded(s, g)
      BY <1>1, <3>1 DEF GestureInv
    <3>3. started \in made[g].session..started
      BY <3>1, <3>2
    <3> QED BY <1>1, <1>3, <1>5, <2>1, <3>2, <3>3 DEF GestureInv
  <2>2. CASE k # g
    BY <1>1, <1>5, <2>2 DEF GestureInv
  <2> QED BY <2>1, <2>2
<1> QED BY <1>4, <1>5, <1>6

\* It appends the event to the session it has looked up, and ends.
LEMMA AppendInv ==
  ASSUME RecInv, NEW g \in Gesture, rec[g] \in {"dumping", "found"},
         NEW e \in RawEvent, e.kind # "launch", e.gesture = g, AppendEvent(g, e)
  PROVE  RecInv'
<1> USE DEF RecInv
<1>1. GestureInv(g) /\ started \in 0..MaxSession /\ MaxSession \in Nat
  BY RecordingAssumption DEF SessionsInv
<1>2. /\ g <= Len(made) /\ made[g].session \in 1..started
      /\ holds[g] \in made[g].session..started
      /\ \A s \in SessionNo : ~Recorded(s, g)
  BY <1>1 DEF GestureInv
<1>3. PICK h \in SessionNo : h = holds[g]
  BY <1>1, <1>2 DEF SessionNo
<1>4. /\ (events \in [SessionNo -> Seq(RawEvent)])' /\ OnceInv'
      /\ \A s \in SessionNo, k \in Gesture :
           Recorded(s, k)' <=> Recorded(s, k) \/ (s = h /\ k = g)
  BY <1>2, <1>3, AppendRecords DEF AppendEvent
<1>5. /\ rec'[g] = "ended"
      /\ (rec \in [Gesture -> {"none", "spawned", "dumping", "found", "ended", "dropped"}])'
      /\ \A k \in Gesture \ {g} : rec'[k] = rec[k]
      /\ UNCHANGED <<made, current, started, holds>>
  BY DEF AppendEvent, RecGoto, SessionsInv
<1>6. SessionsInv'
  BY <1>4, <1>5 DEF SessionsInv
<1>7. ASSUME NEW k \in Gesture PROVE GestureInv(k)'
  <2>1. CASE k = g
    <3>1. made[g].session = started => h = started
      BY <1>1, <1>2, <1>3
    <3> QED BY <1>2, <1>3, <1>4, <1>5, <2>1, <3>1 DEF GestureInv
  <2>2. CASE k # g
    <3>1. \A s \in SessionNo : Recorded(s, k)' <=> Recorded(s, k)
      BY <1>4, <2>2
    <3>2. started \in SessionNo
      BY <1>1, <1>2 DEF SessionNo
    <3> QED BY <1>5, <2>2, <3>1, <3>2 DEF GestureInv
  <2> QED BY <2>1, <2>2
<1> QED BY <1>4, <1>6, <1>7

LEMMA RecordInv ==
  ASSUME RecInv, NEW g \in Gesture, RecordSwipe(g) \/ RecordClick(g)
  PROVE  RecInv'
<1>1. CASE RecordSwipe(g)
  <2> DEFINE e == [kind |-> "swipe", gesture |-> g]
  <2>1. e \in RawEvent /\ e.kind # "launch" /\ e.gesture = g
    BY DEF RawEvent
  <2>2. AppendEvent(g, e) /\ rec[g] = "found"
    BY <1>1 DEF RecordSwipe
  <2> HIDE DEF e
  <2> QED BY <2>1, <2>2, AppendInv
<1>2. CASE RecordClick(g)
  <2>1. PICK xml \in BOOLEAN :
          AppendEvent(g, [kind |-> "click", gesture |-> g, spot |-> made[g].spot, xml |-> xml])
    BY <1>2 DEF RecordClick
  <2>2. rec[g] = "dumping" /\ GestureInv(g)
    BY <1>2 DEF RecordClick, RecInv
  <2>3. made[g] \in Made /\ made[g].kind = "click"
    BY <2>2 DEF RecInv, SessionsInv, GestureInv, Gesture
  <2>4. made[g].spot \in Spot
    BY <2>3 DEF Made
  <2>5. PICK e \in RawEvent : e.kind # "launch" /\ e.gesture = g /\ AppendEvent(g, e)
    BY <2>1, <2>4 DEF RawEvent
  <2> QED BY <2>2, <2>5, AppendInv
<1> QED BY <1>1, <1>2

LEMMA StopInv ==
  ASSUME RecInv, StopRecording \/ ReturnScript \/ UNCHANGED recVars
  PROVE  RecInv'
<1>1. /\ UNCHANGED <<made, started, events, rec, holds>> /\ current' \in {0, current}
  BY DEF StopRecording, ReturnScript, recVars
<1>2. SessionsInv'
  BY <1>1 DEF RecInv, SessionsInv
<1>3. OnceInv' /\ \A s, g : Recorded(s, g)' <=> Recorded(s, g)
  BY <1>1, RecordedUnchanged DEF RecInv
<1>4. \A g \in Gesture : GestureInv(g)'
  BY <1>1, <1>3 DEF RecInv, GestureInv
<1> QED BY <1>2, <1>3, <1>4 DEF RecInv

LEMMA RecStep == RecInv /\ [RecNext]_recVars => RecInv'
<1> SUFFICES ASSUME RecInv, [RecNext]_recVars PROVE RecInv'
  OBVIOUS
<1>1. ASSUME NEW p \in Spot, Touch([kind |-> "click", spot |-> p, session |-> current])
      PROVE  RecInv'
  <2>1. current \in SessionNo
    BY <1>1, RecordingAssumption DEF Touch, RecInv, SessionsInv, SessionNo
  <2>2. [kind |-> "click", spot |-> p, session |-> current] \in Made
    BY <2>1 DEF Made
  <2> QED BY <1>1, <2>2, TouchInv
<1>2. ASSUME Touch([kind |-> "swipe", session |-> current])
      PROVE  RecInv'
  <2>1. current \in SessionNo
    BY <1>2, RecordingAssumption DEF Touch, RecInv, SessionsInv, SessionNo
  <2>2. [kind |-> "swipe", session |-> current] \in Made
    BY <2>1 DEF Made
  <2> QED BY <1>2, <2>2, TouchInv
<1>3. ASSUME NEW g \in Gesture, RecordStep(g)
      PROVE  RecInv'
  BY <1>3, GotoInv, RecordInv DEF RecordStep
<1> QED BY <1>1, <1>2, <1>3, StartInv, TextInv, StopInv DEF RecNext

\* While a recording goes on every gesture whose goroutine has ended is in it, once
\* and no more, although the goroutines look the session up when they like, append
\* to it in any order, and other recordings were started and stopped before.
THEOREM GesturesKept == RecSpec => []GesturesRecorded
<1>1. RecInv => GesturesRecorded
  <2> SUFFICES ASSUME RecInv, NEW g \in DOMAIN made, made[g].session = current,
                      rec[g] = "ended"
               PROVE  \E i \in DOMAIN events[current] : \A j \in DOMAIN events[current] :
                        events[current][j].kind # "launch" /\ events[current][j].gesture = g
                          <=> i = j
    BY DEF GesturesRecorded
  <2>1. g \in Gesture /\ g <= Len(made)
    BY RecordingAssumption DEF RecInv, SessionsInv, Gesture
  <2>2. GestureInv(g)
    BY <2>1 DEF RecInv
  <2>3. current \in SessionNo /\ current = started
    BY <2>1, <2>2, RecordingAssumption DEF RecInv, SessionsInv, GestureInv, SessionNo
  <2>4. PICK i \in DOMAIN events[current] : IsOf(current, i, g)
    BY <2>2, <2>3 DEF GestureInv, Recorded, IsOf
  <2>5. \A j \in DOMAIN events[current] : IsOf(current, j, g) <=> i = j
    BY <2>1, <2>3, <2>4 DEF RecInv, OnceInv
  <2> QED BY <2>5 DEF IsOf
<1> QED BY <1>1, RecInitInv, RecStep, PTL DEF RecSpec
(***************************************************************************)
(* CompileScript.  Its two loops are recursive functions of the number of  *)
(* turns; what they compute is shown by taking the first turn after which  *)
(* it would be wrong.                                                      *)
(***************************************************************************)

\* A set of natural numbers has a least one: the form of induction used below.
LEMMA Least ==
  ASSUME NEW T \in SUBSET Nat, T # {}
  PROVE  \E n \in T : \A m \in T : n <= m
<1>1. PICK x \in T : \A y \in T : ~(<<y, x>> \in OpToRel(<, Nat))
  BY WFMin, NatLessThanWellFounded
<1>2. \A y \in T : y < x => <<y, x>> \in OpToRel(<, Nat)
  BY DEF OpToRel
<1>3. \A y \in T : ~(y < x)
  BY <1>1, <1>2
<1>4. \A y \in T : x <= y
  BY <1>3
<1> QED BY <1>4

\* The loops of the compiler do what their bodies say.
LEMMA TurnsDef ==
  ASSUME NEW steps, Len(steps) \in Nat
  PROVE  /\ Turns(steps)[0] = [out |-> <<>>, text |-> <<>>, target |-> NoNode]
         /\ \A n \in 1..Len(steps) :
              Turns(steps)[n] = OptimizeStep(Turns(steps)[n - 1], steps[n])
<1> DEFINE Nothing == [out |-> <<>>, text |-> <<>>, target |-> NoNode]
           IsRun(f, k) == f = [n \in 0..k |-> IF n = 0 THEN Nothing
                                              ELSE OptimizeStep(f[n - 1], steps[n])]
           T == {k \in Nat : ~ \E f : IsRun(f, k)}
<1> HIDE DEF Nothing
<1>0. T \in SUBSET Nat
  OBVIOUS
<1>1. T = {}
  <2> SUFFICES ASSUME T # {} PROVE FALSE
    OBVIOUS
  <2>1. PICK k \in T : \A m \in T : k <= m
    BY <1>0, Least
  <2>2. k # 0
    <3>1. IsRun([n \in 0..0 |-> Nothing], 0)
      OBVIOUS
    <3> QED BY <3>1
  <2>3. k - 1 \in Nat /\ k - 1 \notin T
    <3> HIDE DEF T
    <3> QED BY <1>0, <2>1, <2>2
  <2>4. PICK f : IsRun(f, k - 1)
    BY <2>3
  <2> DEFINE g == [n \in 0..k |-> IF n = k THEN OptimizeStep(f[k - 1], steps[k]) ELSE f[n]]
  <2>5. \A n \in 0..k : g[n] = IF n = 0 THEN Nothing ELSE OptimizeStep(g[n - 1], steps[n])
    BY <2>2, <2>4
  <2>6. IsRun(g, k)
    BY <2>5
  <2> QED BY <2>1, <2>6
<1>2. \E f : IsRun(f, Len(steps))
  BY <1>1
<1>3. Turns(steps) = CHOOSE f : IsRun(f, Len(steps))
  BY DEF Turns, Nothing
<1>4. IsRun(Turns(steps), Len(steps))
  BY <1>2, <1>3
<1> HIDE DEF T
<1> QED BY <1>4 DEF Nothing

\* Concatenation, kept folded: the provers are quicker with what they need of it.
Cat(s, t) == s \o t

LEMMA StepsOfDef ==
  ASSUME NEW raw, Len(raw) \in Nat
  PROVE  /\ StepsOf(raw)[0] = <<>>
         /\ \A n \in 1..Len(raw) :
              StepsOf(raw)[n] = Cat(StepsOf(raw)[n - 1], Compile1(raw[n]))
<1> DEFINE Nothing == <<>>
           More(x, n) == Cat(x, Compile1(raw[n]))
           IsRun(f, k) == f = [n \in 0..k |-> IF n = 0 THEN Nothing
                                              ELSE More(f[n - 1], n)]
           T == {k \in Nat : ~ \E f : IsRun(f, k)}
<1> HIDE DEF Nothing, More
<1>0. T \in SUBSET Nat
  OBVIOUS
<1>1. T = {}
  <2> SUFFICES ASSUME T # {} PROVE FALSE
    OBVIOUS
  <2>1. PICK k \in T : \A m \in T : k <= m
    BY <1>0, Least
  <2>2. k # 0
    <3>1. IsRun([n \in 0..0 |-> Nothing], 0)
      OBVIOUS
    <3> QED BY <3>1
  <2>3. k - 1 \in Nat /\ k - 1 \notin T
    <3> HIDE DEF T
    <3> QED BY <1>0, <2>1, <2>2
  <2>4. PICK f : IsRun(f, k - 1)
    BY <2>3
  <2> DEFINE g == [n \in 0..k |-> IF n = k THEN More(f[k - 1], k) ELSE f[n]]
  <2>5. \A n \in 0..k : g[n] = IF n = 0 THEN Nothing ELSE More(g[n - 1], n)
    BY <2>2, <2>4
  <2>6. IsRun(g, k)
    BY <2>5
  <2> QED BY <2>1, <2>6
<1>2. \E f : IsRun(f, Len(raw))
  BY <1>1
<1>3. StepsOf(raw) = CHOOSE f : IsRun(f, Len(raw))
  BY DEF StepsOf, Nothing, More, Cat
<1>4. IsRun(StepsOf(raw), Len(raw))
  BY <1>2, <1>3
<1> HIDE DEF T
<1>5. /\ StepsOf(raw)[0] = Nothing
      /\ \A n \in 1..Len(raw) : StepsOf(raw)[n] = More(StepsOf(raw)[n - 1], n)
  BY <1>4
<1> QED BY <1>5 DEF Nothing, More

\* What the compiler makes of events: steps, and what a turn of its loop keeps.
Target == {NoNode} \cup {NodeAt[p] : p \in Spot}
Step == [kind : {"launch", "wait", "assert", "terminate"}]
          \cup [kind : {"swipe"}, gesture : Gesture]
          \cup [kind : {"click"}, spot : Spot, target : Target]
          \cup [kind : {"input"}, text : Seq(Gesture), target : Target]
Acc == [out : Seq(Step), text : Seq(Gesture), target : Target]

\* What a step of each kind does.
LEMMA PlayedSeq ==
  ASSUME NEW s \in Step
  PROVE  /\ s.kind = "input" => /\ s.text \in Seq(Gesture)
                                /\ Played(s) = [i \in 1..Len(s.text) |->
                                                 [kind |-> "text", gesture |-> s.text[i]]]
         /\ s.kind \in {"click", "swipe", "launch"} => Played(s) = <<s>>
         /\ s.kind \notin {"input", "click", "swipe", "launch"} => Played(s) = <<>>
<1>1. s.kind = "input" => s.text \in Seq(Gesture)
  BY DEF Step
<1> QED BY <1>1 DEF Played

\* The things a sequence of steps does, by their place.
LEMMA ActsRange ==
  ASSUME NEW V \in Seq(Step), NEW a
  PROVE  a \in Acts(V) <=> \E k \in 1..Len(V) : \E p \in DOMAIN Played(V[k]) : a = <<k, p>>
  BY DEF Acts

\* One more step at the end.
LEMMA ActsAppend ==
  ASSUME NEW V \in Seq(Step), NEW s \in Step
  PROVE  /\ Acts(Append(V, s)) = Acts(V) \cup {<<Len(V) + 1, p>> : p \in DOMAIN Played(s)}
         /\ \A a \in Acts(V) : Act(Append(V, s), a) = Act(V, a) /\ a[1] <= Len(V) /\ a[1] \in Nat
         /\ \A p \in DOMAIN Played(s) : Act(Append(V, s), <<Len(V) + 1, p>>) = Played(s)[p]
<1> DEFINE W == Append(V, s)
<1>1. /\ W \in Seq(Step) /\ Len(W) = Len(V) + 1 /\ W[Len(V) + 1] = s
      /\ \A k \in 1..Len(V) : W[k] = V[k]
  OBVIOUS
<1> HIDE DEF W
<1>2. \A a : a \in Acts(W) <=> a \in Acts(V) \/ \E p \in DOMAIN Played(s) : a = <<Len(V) + 1, p>>
  <2> TAKE a
  <2>1. ASSUME a \in Acts(W)
        PROVE  a \in Acts(V) \/ \E p \in DOMAIN Played(s) : a = <<Len(V) + 1, p>>
    <3>1. PICK k \in 1..Len(W) : \E p \in DOMAIN Played(W[k]) : a = <<k, p>>
      BY <1>1, <2>1, ActsRange
    <3>2. CASE k = Len(V) + 1
      BY <1>1, <3>1, <3>2
    <3>3. CASE k \in 1..Len(V)
      BY <1>1, <3>1, <3>3, ActsRange
    <3> QED BY <1>1, <3>2, <3>3
  <2>2. ASSUME a \in Acts(V) PROVE a \in Acts(W)
    <3>1. PICK k \in 1..Len(V) : \E p \in DOMAIN Played(V[k]) : a = <<k, p>>
      BY <2>2, ActsRange
    <3>2. k \in 1..Len(W) /\ Played(W[k]) = Played(V[k])
      BY <1>1
    <3> QED BY <1>1, <3>1, <3>2, ActsRange
  <2>3. ASSUME NEW p \in DOMAIN Played(s), a = <<Len(V) + 1, p>> PROVE a \in Acts(W)
    <3>1. Len(V) + 1 \in 1..Len(W)
      BY <1>1
    <3> QED BY <1>1, <2>3, <3>1, ActsRange
  <2> QED BY <2>1, <2>2, <2>3
<1>3. Acts(W) = Acts(V) \cup {<<Len(V) + 1, p>> : p \in DOMAIN Played(s)}
  BY <1>2
<1>4. ASSUME NEW a \in Acts(V) PROVE Act(W, a) = Act(V, a) /\ a[1] <= Len(V) /\ a[1] \in Nat
  <2>1. PICK k \in 1..Len(V) : \E p \in DOMAIN Played(V[k]) : a = <<k, p>>
    BY ActsRange
  <2> QED BY <1>1, <2>1 DEF Act
<1>5. ASSUME NEW p \in DOMAIN Played(s)
      PROVE  Act(W, <<Len(V) + 1, p>>) = Played(s)[p]
  BY <1>1 DEF Act
<1> QED BY <1>3, <1>4, <1>5 DEF W

\* The steps do one thing more, after all others.
LEMMA OneMore ==
  ASSUME NEW raw \in Seq(RawEvent), NEW e \in RawEvent, NEW V, NEW W, Faithful(raw, V),
         NEW b, b \notin Acts(V), Acts(W) = Acts(V) \cup {b}, Act(W, b) = Done(e),
         \A a \in Acts(V) : Earlier(a, b) /\ Act(W, a) = Act(V, a)
  PROVE  Faithful(Append(raw, e), W)
<1> DEFINE n == Len(raw)
           r == Append(raw, e)
<1>1. PICK act \in [DOMAIN raw -> Acts(V)] : StandsFor(act, raw, V)
  BY DEF Faithful
<1> DEFINE more == [i \in 1..(n + 1) |-> IF i = n + 1 THEN b ELSE act[i]]
<1>2. /\ n \in Nat /\ DOMAIN raw = 1..n /\ DOMAIN r = 1..(n + 1)
      /\ \A i \in 1..n : r[i] = raw[i]
      /\ r[n + 1] = e
  OBVIOUS
<1>3. /\ more \in [DOMAIN r -> Acts(W)]
      /\ \A i \in 1..n : more[i] = act[i] /\ act[i] \in Acts(V)
      /\ more[n + 1] = b
  BY <1>2
<1> HIDE DEF n, r, more
<1>4. \A a \in Acts(W) : \E i \in DOMAIN r : more[i] = a
  BY <1>1, <1>2, <1>3 DEF StandsFor
<1>5. \A i, j \in DOMAIN r : i < j => more[i] = more[j] \/ Earlier(more[i], more[j])
  <2> SUFFICES ASSUME NEW i \in 1..(n + 1), NEW j \in 1..(n + 1), i < j
               PROVE  more[i] = more[j] \/ Earlier(more[i], more[j])
    BY <1>2
  <2>1. i \in 1..n
    BY <1>2
  <2>2. CASE j = n + 1
    BY <1>3, <2>1, <2>2
  <2>3. CASE j \in 1..n
    BY <1>1, <1>2, <1>3, <2>1, <2>3 DEF StandsFor
  <2> QED BY <1>2, <2>2, <2>3
<1>6. ASSUME NEW i \in DOMAIN r
      PROVE  \E j \in 1..i :
               /\ more[j] = more[i] /\ \A m \in 1..(j - 1) : more[m] # more[i]
               /\ Act(W, more[j]) = Done(r[j])
               /\ i # j => /\ r[i].kind = "click" /\ r[j].kind = "click"
                           /\ SameClick(CompileClick(r[j]), CompileClick(r[i]))
  <2>1. CASE i = n + 1
    <3>1. \A m \in 1..n : more[m] # b
      BY <1>3
    <3> QED BY <1>2, <1>3, <2>1, <3>1
  <2>2. CASE i \in 1..n
    <3>1. PICK j \in 1..i :
             /\ act[j] = act[i] /\ \A m \in 1..(j - 1) : act[m] # act[i]
             /\ Act(V, act[j]) = Done(raw[j])
             /\ i # j => /\ raw[i].kind = "click" /\ raw[j].kind = "click"
                         /\ SameClick(CompileClick(raw[j]), CompileClick(raw[i]))
      BY <1>1, <1>2, <2>2 DEF StandsFor
    <3>2. j \in 1..n /\ \A m \in 1..(j - 1) : m \in 1..n
      BY <1>2, <2>2
    <3>3. more[j] = act[j] /\ more[i] = act[i] /\ \A m \in 1..(j - 1) : more[m] = act[m]
      BY <1>3, <2>2, <3>2
    <3>4. Act(W, act[j]) = Act(V, act[j])
      BY <1>3, <3>2
    <3>5. r[i] = raw[i] /\ r[j] = raw[j]
      BY <1>2, <2>2, <3>2
    <3> QED BY <3>1, <3>3, <3>4, <3>5
  <2> QED BY <1>2, <2>1, <2>2
<1>7. StandsFor(more, r, W)
  BY <1>4, <1>5, <1>6 DEF StandsFor
<1> QED BY <1>3, <1>7 DEF Faithful, r

\* A step that does nothing.
LEMMA NoneMore ==
  ASSUME NEW raw, NEW V, NEW W, Faithful(raw, V), Acts(W) = Acts(V),
         \A a \in Acts(V) : Act(W, a) = Act(V, a), Len(raw) \in Nat, DOMAIN raw = 1..Len(raw)
  PROVE  Faithful(raw, W)
<1>1. PICK act \in [DOMAIN raw -> Acts(V)] : StandsFor(act, raw, V)
  BY DEF Faithful
<1>2. \A i \in DOMAIN raw : \A j \in 1..i : Act(W, act[j]) = Act(V, act[j])
  OBVIOUS
<1>3. StandsFor(act, raw, W)
  BY <1>1, <1>2 DEF StandsFor
<1> QED BY <1>1, <1>3 DEF Faithful

\* A click that is left out: the one before it stands for it.
LEMMA LeftOut ==
  ASSUME NEW raw \in Seq(RawEvent), NEW e \in RawEvent, e.kind = "click",
         NEW V \in Seq(Step), Faithful(raw, V), V # <<>>, V[Len(V)].kind = "click",
         SameClick(V[Len(V)], CompileClick(e))
  PROVE  Faithful(Append(raw, e), V)
<1> DEFINE n == Len(raw)
           r == Append(raw, e)
           b == <<Len(V), 1>>
<1>1. PICK act \in [DOMAIN raw -> Acts(V)] : StandsFor(act, raw, V)
  BY DEF Faithful
<1> DEFINE more == [i \in 1..(n + 1) |-> IF i = n + 1 THEN b ELSE act[i]]
<1>2. /\ n \in Nat /\ DOMAIN raw = 1..n /\ DOMAIN r = 1..(n + 1)
      /\ \A i \in 1..n : r[i] = raw[i] /\ raw[i] \in RawEvent
      /\ r[n + 1] = e
  OBVIOUS
<1>3. Len(V) \in 1..Len(V) /\ V[Len(V)] \in Step /\ Played(V[Len(V)]) = <<V[Len(V)]>>
  BY PlayedSeq
<1>4. b \in Acts(V) /\ Act(V, b) = V[Len(V)]
  BY <1>3, ActsRange DEF Act
<1>5. ASSUME NEW a \in Acts(V) PROVE a = b \/ Earlier(a, b)
  <2>1. PICK k \in 1..Len(V) : \E p \in DOMAIN Played(V[k]) : a = <<k, p>>
    BY ActsRange
  <2> QED BY <1>3, <2>1 DEF Earlier
<1>6. /\ more \in [DOMAIN r -> Acts(V)]
      /\ \A i \in 1..n : more[i] = act[i] /\ act[i] \in Acts(V)
      /\ more[n + 1] = b
  <2> HIDE DEF n, r, b
  <2> QED BY <1>2, <1>4
<1> HIDE DEF n, r, more, b
<1>7. \A a \in Acts(V) : \E i \in DOMAIN r : more[i] = a
  BY <1>1, <1>2, <1>6 DEF StandsFor
<1>8. \A i, j \in DOMAIN r : i < j => more[i] = more[j] \/ Earlier(more[i], more[j])
  <2> SUFFICES ASSUME NEW i \in 1..(n + 1), NEW j \in 1..(n + 1), i < j
               PROVE  more[i] = more[j] \/ Earlier(more[i], more[j])
    BY <1>2
  <2>1. i \in 1..n
    BY <1>2
  <2>2. CASE j = n + 1
    BY <1>5, <1>6, <2>1, <2>2
  <2>3. CASE j \in 1..n
    BY <1>1, <1>2, <1>6, <2>1, <2>3 DEF StandsFor
  <2> QED BY <1>2, <2>2, <2>3
<1>9. ASSUME NEW i \in 1..n
      PROVE  \E j \in 1..i :
             /\ j \in 1..n /\ \A m \in 1..(j - 1) : m \in 1..n
             /\ act[j] = act[i] /\ \A m \in 1..(j - 1) : act[m] # act[i]
             /\ Act(V, act[j]) = Done(raw[j])
             /\ i # j => /\ raw[i].kind = "click" /\ raw[j].kind = "click"
                         /\ SameClick(CompileClick(raw[j]), CompileClick(raw[i]))
  <2>1. PICK j \in 1..i :
             /\ act[j] = act[i] /\ \A m \in 1..(j - 1) : act[m] # act[i]
             /\ Act(V, act[j]) = Done(raw[j])
             /\ i # j => /\ raw[i].kind = "click" /\ raw[j].kind = "click"
                         /\ SameClick(CompileClick(raw[j]), CompileClick(raw[i]))
    BY <1>1, <1>2 DEF StandsFor
  <2>2. j \in 1..n /\ \A m \in 1..(j - 1) : m \in 1..n
    BY <1>2
  <2> QED BY <2>1, <2>2
<1>10. ASSUME NEW i \in DOMAIN r
       PROVE  \E j \in 1..i :
                /\ more[j] = more[i] /\ \A m \in 1..(j - 1) : more[m] # more[i]
                /\ Act(V, more[j]) = Done(r[j])
                /\ i # j => /\ r[i].kind = "click" /\ r[j].kind = "click"
                            /\ SameClick(CompileClick(r[j]), CompileClick(r[i]))
  <2>1. CASE i = n + 1
    <3>1. PICK k \in 1..n : act[k] = b
      BY <1>1, <1>2, <1>4 DEF StandsFor
    <3>2. PICK j \in 1..k :
             /\ j \in 1..n /\ \A m \in 1..(j - 1) : m \in 1..n
             /\ act[j] = b /\ \A m \in 1..(j - 1) : act[m] # b
             /\ Act(V, b) = Done(raw[j])
      BY <1>9, <3>1
    <3>3. raw[j] \in RawEvent /\ r[j] = raw[j] /\ r[i] = e
      BY <1>2, <2>1, <3>2
    <3>4. raw[j].kind = "click" /\ V[Len(V)] = CompileClick(raw[j])
      BY <1>4, <3>2, <3>3 DEF Done
    <3>5. more[j] = b /\ more[i] = b /\ \A m \in 1..(j - 1) : more[m] # b
      BY <1>6, <2>1, <3>2
    <3>6. j \in 1..i
      BY <1>2, <2>1, <3>2
    <3> QED BY <3>2, <3>3, <3>4, <3>5, <3>6
  <2>2. CASE i \in 1..n
    <3>1. PICK j \in 1..i :
             /\ j \in 1..n /\ \A m \in 1..(j - 1) : m \in 1..n
             /\ act[j] = act[i] /\ \A m \in 1..(j - 1) : act[m] # act[i]
             /\ Act(V, act[j]) = Done(raw[j])
             /\ i # j => /\ raw[i].kind = "click" /\ raw[j].kind = "click"
                         /\ SameClick(CompileClick(raw[j]), CompileClick(raw[i]))
      BY <1>9, <2>2
    <3>2. more[j] = act[j] /\ more[i] = act[i] /\ \A m \in 1..(j - 1) : more[m] = act[m]
      BY <1>6, <2>2, <3>1
    <3>3. r[i] = raw[i] /\ r[j] = raw[j]
      BY <1>2, <2>2, <3>1
    <3> QED BY <3>1, <3>2, <3>3
  <2> QED BY <1>2, <2>1, <2>2
<1>11. StandsFor(more, r, V)
  BY <1>7, <1>8, <1>10 DEF StandsFor
<1> QED BY <1>6, <1>11 DEF Faithful, r

\* A step of its own for the event.
LEMMA OwnStep ==
  ASSUME NEW raw \in Seq(RawEvent), NEW e \in RawEvent, NEW V \in Seq(Step),
         Faithful(raw, V), NEW s \in Step, Played(s) = <<Done(e)>>
  PROVE  Faithful(Append(raw, e), Append(V, s))
<1> DEFINE b == <<Len(V) + 1, 1>>
           W == Append(V, s)
<1>1. /\ DOMAIN Played(s) = {1} /\ Played(s)[1] = Done(e)
  OBVIOUS
<1>2. Acts(W) = Acts(V) \cup {b} /\ Act(W, b) = Done(e)
  BY <1>1, ActsAppend
<1>3. \A a \in Acts(V) : a # b /\ Earlier(a, b) /\ Act(W, a) = Act(V, a)
  BY ActsAppend DEF Earlier
<1> HIDE DEF b, W
<1> QED BY <1>2, <1>3, OneMore DEF W

\* A text that joins the one before it.
LEMMA Joined ==
  ASSUME NEW raw \in Seq(RawEvent), NEW e \in RawEvent, e.kind = "text",
         NEW U \in Seq(Step), NEW t \in Seq(Gesture), NEW to \in Target,
         Faithful(raw, Append(U, [kind |-> "input", text |-> t, target |-> to]))
  PROVE  Faithful(Append(raw, e),
                  Append(U, [kind |-> "input", text |-> Append(t, e.gesture), target |-> to]))
<1> DEFINE s == [kind |-> "input", text |-> t, target |-> to]
           z == [kind |-> "input", text |-> Append(t, e.gesture), target |-> to]
           b == <<Len(U) + 1, Len(t) + 1>>
           V == Append(U, s)
           W == Append(U, z)
<1>1. e.gesture \in Gesture /\ Done(e) = [kind |-> "text", gesture |-> e.gesture]
  BY DEF RawEvent, Done
<1>2. s \in Step /\ z \in Step /\ Append(t, e.gesture) \in Seq(Gesture)
  BY <1>1 DEF Step
<1>3. /\ DOMAIN Played(s) = 1..Len(t)
      /\ DOMAIN Played(z) = 1..(Len(t) + 1)
      /\ \A p \in 1..Len(t) : Played(z)[p] = Played(s)[p]
      /\ Played(z)[Len(t) + 1] = Done(e)
  <2>1. Played(s) = [i \in 1..Len(t) |-> [kind |-> "text", gesture |-> t[i]]]
    BY <1>2, PlayedSeq
  <2>2. Played(z) = [i \in 1..(Len(t) + 1) |->
                       [kind |-> "text", gesture |-> Append(t, e.gesture)[i]]]
    <3>1. z.kind = "input" /\ z.text = Append(t, e.gesture) /\ Len(z.text) = Len(t) + 1
      BY <1>1
    <3> HIDE DEF z
    <3> QED BY <1>2, <3>1, PlayedSeq
  <2> HIDE DEF s, z
  <2> QED BY <1>1, <2>1, <2>2
<1> HIDE DEF s, z
<1>4. Acts(V) = Acts(U) \cup {<<Len(U) + 1, p>> : p \in 1..Len(t)}
  BY <1>2, <1>3, ActsAppend
<1>5. Acts(W) = Acts(U) \cup {<<Len(U) + 1, p>> : p \in 1..(Len(t) + 1)}
  BY <1>2, <1>3, ActsAppend
<1>6. Acts(W) = Acts(V) \cup {b}
  <2>1. {<<Len(U) + 1, p>> : p \in 1..(Len(t) + 1)}
          = {<<Len(U) + 1, p>> : p \in 1..Len(t)} \cup {b}
    OBVIOUS
  <2> QED BY <1>4, <1>5, <2>1
<1>7. Act(W, b) = Done(e)
  BY <1>2, <1>3, ActsAppend
<1>8. ASSUME NEW a \in Acts(V) PROVE a # b /\ Earlier(a, b) /\ Act(W, a) = Act(V, a)
  <2>1. CASE a \in Acts(U)
    <3>1. Act(W, a) = Act(U, a) /\ Act(V, a) = Act(U, a) /\ a[1] <= Len(U) /\ a[1] \in Nat
      BY <1>2, <2>1, ActsAppend
    <3> QED BY <3>1 DEF Earlier
  <2>2. ASSUME NEW p \in 1..Len(t), a = <<Len(U) + 1, p>>
        PROVE  a # b /\ Earlier(a, b) /\ Act(W, a) = Act(V, a)
    <3>1. Act(V, a) = Played(s)[p]
      BY <1>2, <1>3, <2>2, ActsAppend
    <3>2. Act(W, a) = Played(z)[p]
      BY <1>2, <1>3, <2>2, ActsAppend
    <3>3. a # b /\ Earlier(a, b)
      BY <2>2 DEF Earlier
    <3> QED BY <1>3, <3>1, <3>2, <3>3
  <2> QED BY <1>4, <2>1, <2>2
<1>9. Faithful(raw, V)
  BY DEF s
<1> HIDE DEF b, V, W
<1>10. Faithful(Append(raw, e), W)
  BY <1>6, <1>7, <1>8, <1>9, OneMore
<1> QED BY <1>10 DEF W, z

\* One turn of the loop of optimizeSteps.  What it would return after it is Flush.
LEMMA FlushSeq ==
  ASSUME NEW acc \in Acc
  PROVE  Flush(acc) \in Seq(Step)
  BY DEF Acc, Flush, Step

LEMMA AppendOne ==
  ASSUME NEW t \in Seq(Gesture), NEW g \in Gesture
  PROVE  /\ t \o <<g>> = Append(t, g)
         /\ Append(t, g) \in Seq(Gesture) /\ Append(t, g) # <<>>
<1>1. /\ t \o <<g>> \in Seq(Gesture) /\ Append(t, g) \in Seq(Gesture)
      /\ Len(t \o <<g>>) = Len(t) + 1 /\ Len(Append(t, g)) = Len(t) + 1
  OBVIOUS
<1>2. \A i \in 1..(Len(t) + 1) : (t \o <<g>>)[i] = Append(t, g)[i]
  OBVIOUS
<1> QED BY <1>1, <1>2

LEMMA InputTurn ==
  ASSUME NEW raw \in Seq(RawEvent), NEW e \in RawEvent, e.kind = "text",
         NEW acc \in Acc, Faithful(raw, Flush(acc))
  PROVE  LET more == OptimizeStep(acc, Compile1(e)[1]) IN
           more \in Acc /\ Faithful(Append(raw, e), Flush(more))
<1> DEFINE s == Compile1(e)[1]
           more == OptimizeStep(acc, s)
           to == IF acc.text = <<>> THEN FieldAfter(acc.out) ELSE acc.target
           t == Append(acc.text, e.gesture)
<1>1. e.gesture \in Gesture /\ Done(e) = [kind |-> "text", gesture |-> e.gesture]
  BY DEF RawEvent, Done
<1>2. s = [kind |-> "input", text |-> <<e.gesture>>, target |-> NoNode]
  BY DEF Compile1
<1>3. acc.out \in Seq(Step) /\ acc.text \in Seq(Gesture) /\ acc.target \in Target
  BY DEF Acc
<1>4. FieldAfter(acc.out) \in Target
  <2>1. CASE acc.out = <<>>
    BY <2>1 DEF FieldAfter, Target
  <2>2. CASE acc.out # <<>>
    <3>1. Last(acc.out) \in Step
      BY <1>3, <2>2 DEF Last
    <3> QED BY <3>1 DEF FieldAfter, Target, Step
  <2> QED BY <2>1, <2>2
<1>5. acc.text \o <<e.gesture>> = t /\ t \in Seq(Gesture) /\ t # <<>>
  BY <1>1, <1>3, AppendOne
<1>6. more = [out |-> acc.out, text |-> t, target |-> to] /\ to \in Target
  <2>1. more = [acc EXCEPT !.text = acc.text \o s.text, !.target = to]
    BY <1>2 DEF OptimizeStep
  <2>2. acc.text \o s.text = t
    BY <1>2, <1>5
  <2>3. to \in Target
    BY <1>3, <1>4
  <2> HIDE DEF t, to, more
  <2> QED BY <2>1, <2>2, <2>3 DEF Acc
<1>7. more \in Acc
  BY <1>3, <1>5, <1>6 DEF Acc
<1> DEFINE z == [kind |-> "input", text |-> t, target |-> to]
<1>8. Flush(more) = Append(acc.out, z)
  BY <1>5, <1>6 DEF Flush
<1>9. CASE acc.text = <<>>
  <2>1. Flush(acc) = acc.out /\ t = <<e.gesture>>
    BY <1>9 DEF Flush
  <2>2. z \in Step /\ z.kind = "input" /\ z.text = <<e.gesture>>
    BY <1>5, <1>6, <2>1 DEF Step
  <2> HIDE DEF z
  <2>3. Played(z) = <<Done(e)>>
    <3>1. Played(z) = [i \in 1..1 |-> [kind |-> "text", gesture |-> <<e.gesture>>[i]]]
      BY <2>2, PlayedSeq
    <3> QED BY <1>1, <3>1
  <2> QED BY <1>3, <1>7, <1>8, <2>1, <2>2, <2>3, OwnStep
<1>10. CASE acc.text # <<>>
  <2>1. /\ to = acc.target
        /\ Flush(acc) = Append(acc.out, [kind |-> "input", text |-> acc.text, target |-> to])
    BY <1>10 DEF Flush
  <2> QED BY <1>3, <1>7, <1>8, <2>1, Joined
<1> QED BY <1>9, <1>10

LEMMA OtherTurn ==
  ASSUME NEW acc \in Acc, NEW s \in Step, s.kind # "input"
  PROVE  LET more == OptimizeStep(acc, s) IN
           /\ more \in Acc
           /\ Flush(more) = IF Duplicates(Flush(acc), s) THEN Flush(acc)
                            ELSE Append(Flush(acc), s)
<1> DEFINE V == Flush(acc)
           more == OptimizeStep(acc, s)
<1>1. V \in Seq(Step)
  BY FlushSeq
<1>2. more = [out |-> IF Duplicates(V, s) THEN V ELSE Append(V, s),
              text |-> <<>>, target |-> NoNode]
  BY DEF OptimizeStep
<1> HIDE DEF V, more
<1>3. more \in Acc
  BY <1>1, <1>2 DEF Acc, Target
<1>4. Flush(more) = more.out
  BY <1>2 DEF Flush
<1> QED BY <1>2, <1>3, <1>4 DEF V, more

\* A step without effect on the device.
LEMMA SilentStep ==
  ASSUME NEW raw \in Seq(RawEvent), NEW V \in Seq(Step), Faithful(raw, V),
         NEW s \in Step, s.kind \in {"wait", "assert", "terminate"}
  PROVE  Faithful(raw, Append(V, s))
<1> DEFINE W == Append(V, s)
<1>1. {<<Len(V) + 1, p>> : p \in DOMAIN Played(s)} = {}
  <2>1. Played(s) = <<>>
    BY PlayedSeq
  <2> QED BY <2>1
<1>2. Acts(W) = Acts(V) /\ \A a \in Acts(V) : Act(W, a) = Act(V, a)
  BY <1>1, ActsAppend
<1> HIDE DEF W
<1>3. Faithful(raw, W)
  BY <1>2, NoneMore
<1> QED BY <1>3 DEF W

LEMMA SilentTurn ==
  ASSUME NEW raw \in Seq(RawEvent), NEW acc \in Acc, Faithful(raw, Flush(acc)),
         NEW s \in Step, s.kind \in {"wait", "assert", "terminate"}
  PROVE  LET more == OptimizeStep(acc, s) IN
           more \in Acc /\ Faithful(raw, Flush(more))
<1>1. ~Duplicates(Flush(acc), s)
  BY DEF Duplicates
<1>2. Faithful(raw, Append(Flush(acc), s))
  BY FlushSeq, SilentStep
<1> QED BY <1>1, <1>2, OtherTurn

LEMMA TouchTurn ==
  ASSUME NEW raw \in Seq(RawEvent), NEW e \in RawEvent, e.kind # "text",
         NEW acc \in Acc, Faithful(raw, Flush(acc))
  PROVE  LET more == OptimizeStep(acc, Compile1(e)[1]) IN
           more \in Acc /\ Faithful(Append(raw, e), Flush(more))
<1> DEFINE s == Compile1(e)[1]
<1>1. s = Done(e) /\ s \in Step /\ s.kind = e.kind /\ e.kind \in {"click", "swipe", "launch"}
  <2>1. CASE e.kind = "click"
    <3>1. NodeAt[e.spot] \in Target /\ NoNode \in Target /\ e.spot \in Spot
      BY <2>1 DEF RawEvent, Target
    <3> QED BY <2>1, <3>1 DEF Compile1, CompileClick, Done, Step
  <2>2. CASE e.kind = "swipe"
    BY <2>2 DEF RawEvent, Compile1, Done, Step
  <2>3. CASE e.kind = "launch"
    BY <2>3 DEF RawEvent, Compile1, LaunchSteps, Done, Step
  <2> QED BY <2>1, <2>2, <2>3 DEF RawEvent
<1> HIDE DEF s
<1>2. Flush(acc) \in Seq(Step)
  BY FlushSeq
<1>3. CASE Duplicates(Flush(acc), s)
  <2>1. /\ Flush(acc) # <<>> /\ e.kind = "click" /\ Last(Flush(acc)).kind = "click"
        /\ SameClick(Last(Flush(acc)), CompileClick(e))
    BY <1>1, <1>3 DEF Duplicates, Done
  <2>2. Faithful(Append(raw, e), Flush(acc))
    BY <1>2, <2>1, LeftOut DEF Last
  <2> QED BY <1>1, <1>3, <2>2, OtherTurn DEF s
<1>4. CASE ~Duplicates(Flush(acc), s)
  <2>1. Played(s) = <<Done(e)>>
    BY <1>1, PlayedSeq
  <2>2. Faithful(Append(raw, e), Append(Flush(acc), s))
    BY <1>1, <1>2, <2>1, OwnStep
  <2> QED BY <1>1, <1>4, <2>2, OtherTurn DEF s
<1> QED BY <1>3, <1>4

LEMMA CatSteps ==
  ASSUME NEW s \in Seq(Step), NEW t \in Seq(Step)
  PROVE  /\ Cat(s, t) \in Seq(Step) /\ Len(Cat(s, t)) = Len(s) + Len(t)
         /\ \A k \in 1..Len(s) : Cat(s, t)[k] = s[k]
         /\ \A k \in 1..Len(t) : Cat(s, t)[Len(s) + k] = t[k]
  BY DEF Cat

\* What an event is compiled to.
LEMMA CompileType ==
  ASSUME NEW e \in RawEvent
  PROVE  /\ Compile1(e) \in Seq(Step)
         /\ e.kind # "launch" => Len(Compile1(e)) = 1
         /\ e.kind = "launch" =>
              /\ Len(Compile1(e)) = 3
              /\ Compile1(e)[2].kind = "wait" /\ Compile1(e)[3].kind = "assert"
<1>1. CASE e.kind = "click"
  <2>1. NodeAt[e.spot] \in Target /\ NoNode \in Target /\ e.spot \in Spot
    BY <1>1 DEF RawEvent, Target
  <2>2. CompileClick(e) \in Step
    BY <2>1 DEF CompileClick, Step
  <2>3. Compile1(e) = <<CompileClick(e)>>
    BY <1>1 DEF Compile1
  <2> QED BY <1>1, <2>2, <2>3
<1>2. CASE e.kind = "text"
  <2>1. Compile1(e) = <<[kind |-> "input", text |-> <<e.gesture>>, target |-> NoNode]>>
    BY <1>2 DEF Compile1
  <2>2. [kind |-> "input", text |-> <<e.gesture>>, target |-> NoNode] \in Step
    BY <1>2 DEF Step, Target, RawEvent
  <2> QED BY <1>2, <2>1, <2>2
<1>3. CASE e.kind = "swipe"
  BY <1>3 DEF Compile1, RawEvent, Step
<1>4. CASE e.kind = "launch"
  BY <1>4 DEF Compile1, LaunchSteps, Step
<1> QED BY <1>1, <1>2, <1>3, <1>4 DEF RawEvent

\* What two sequences of steps, one after the other, are.
LEMMA CatBegins ==
  \A s, t \in Seq(Step) :
    /\ Len(s) \in Nat /\ Len(t) \in Nat /\ Cat(s, t) \in Seq(Step)
    /\ Len(Cat(s, t)) = Len(s) + Len(t) /\ Len(s) <= Len(Cat(s, t))
    /\ \A k \in 1..Len(s) : Cat(s, t)[k] = s[k]
    /\ \A k \in 1..Len(t) : /\ Len(s) + k \in 1..Len(Cat(s, t))
                            /\ Cat(s, t)[Len(s) + k] = t[k] /\ t[k] \in Step
<1> SUFFICES ASSUME NEW s \in Seq(Step), NEW t \in Seq(Step)
    PROVE  /\ Len(s) \in Nat /\ Len(t) \in Nat /\ Cat(s, t) \in Seq(Step)
           /\ Len(Cat(s, t)) = Len(s) + Len(t) /\ Len(s) <= Len(Cat(s, t))
           /\ \A k \in 1..Len(s) : Cat(s, t)[k] = s[k]
           /\ \A k \in 1..Len(t) : /\ Len(s) + k \in 1..Len(Cat(s, t))
                                   /\ Cat(s, t)[Len(s) + k] = t[k] /\ t[k] \in Step
  OBVIOUS
<1>0. Len(s) \in Nat /\ Len(t) \in Nat
  OBVIOUS
<1>1. Cat(s, t) \in Seq(Step) /\ Len(Cat(s, t)) = Len(s) + Len(t)
  BY CatSteps, Zenon
<1>2. /\ \A k \in 1..Len(s) : Cat(s, t)[k] = s[k]
      /\ \A k \in 1..Len(t) : Cat(s, t)[Len(s) + k] = t[k]
  BY CatSteps, Zenon
<1>3. Len(s) <= Len(Cat(s, t))
  BY <1>0, <1>1
<1>4. ASSUME NEW k \in 1..Len(t) PROVE Len(s) + k \in 1..Len(Cat(s, t)) /\ t[k] \in Step
  BY <1>0, <1>1
<1> QED BY <1>0, <1>1, <1>2, <1>3, <1>4

\* The steps of the first n events begin the steps of all.
LEMMA StepsPrefix ==
  ASSUME NEW raw \in Seq(RawEvent)
  PROVE  LET P == StepsOf(raw)
             F == P[Len(raw)]
         IN \A n \in 0..Len(raw) :
              /\ P[n] \in Seq(Step) /\ Len(P[n]) <= Len(F)
              /\ \A k \in 1..Len(P[n]) : F[k] = P[n][k]
<1> DEFINE N == Len(raw)
           P == StepsOf(raw)
           F == P[N]
<1>0. N \in Nat /\ \A n \in 1..N : Compile1(raw[n]) \in Seq(Step)
  BY CompileType
<1>1. P[0] = <<>> /\ \A n \in 1..N : P[n] = Cat(P[n - 1], Compile1(raw[n]))
  BY StepsOfDef
<1> HIDE DEF P, N
<1> DEFINE T == {n \in 0..N : P[n] \notin Seq(Step)}
<1>2. T = {}
  <2> SUFFICES ASSUME T # {} PROVE FALSE
    OBVIOUS
  <2>0. T \in SUBSET Nat
    BY <1>0
  <2>1. PICK n \in T : \A m \in T : n <= m
    BY <2>0, Least
  <2>2. n \in 0..N /\ P[n] \notin Seq(Step)
    OBVIOUS
  <2>3. n # 0
    <3>1. <<>> \in Seq(Step)
      <4> HIDE DEF T
      <4> QED OBVIOUS
    <3>2. P[0] = <<>>
      BY <1>1
    <3> QED BY <2>2, <3>1, <3>2, Zenon
  <2>4. n \in 1..N /\ n - 1 \in 0..N /\ n - 1 \notin T
    <3> HIDE DEF T
    <3> QED BY <1>0, <2>1, <2>2, <2>3
  <2>5. P[n - 1] \in Seq(Step)
    BY <2>4
  <2>6. Cat(P[n - 1], Compile1(raw[n])) \in Seq(Step)
    BY <1>0, <2>4, <2>5, CatSteps
  <2> QED BY <1>1, <2>2, <2>4, <2>6
<1>3. \A n \in 0..N : P[n] \in Seq(Step)
  BY <1>2
<1> HIDE DEF T
<1>4. ASSUME NEW n \in 1..N
      PROVE  /\ Len(P[n - 1]) <= Len(P[n])
             /\ \A k \in 1..Len(P[n - 1]) : P[n][k] = P[n - 1][k]
  <2>1. P[n - 1] \in Seq(Step) /\ Compile1(raw[n]) \in Seq(Step)
    BY <1>0, <1>3
  <2>2. P[n] = Cat(P[n - 1], Compile1(raw[n]))
    BY <1>1
  <2>3. /\ Len(P[n - 1]) <= Len(Cat(P[n - 1], Compile1(raw[n])))
        /\ \A k \in 1..Len(P[n - 1]) : Cat(P[n - 1], Compile1(raw[n]))[k] = P[n - 1][k]
    BY <2>1, CatBegins, Zenon
  <2> QED BY <2>2, <2>3, Zenon
<1> DEFINE Begins(n) == Len(P[n]) <= Len(F) /\ \A k \in 1..Len(P[n]) : F[k] = P[n][k]
           D == {d \in 0..N : ~Begins(N - d)}
<1>5. D = {}
  <2> SUFFICES ASSUME D # {} PROVE FALSE
    OBVIOUS
  <2>0. D \in SUBSET Nat
    BY <1>0
  <2>1. PICK d \in D : \A m \in D : d <= m
    BY <2>0, Least
  <2>2. Begins(N)
    BY <1>0, <1>3
  <2>3. d \in 0..N /\ ~Begins(N - d)
    OBVIOUS
  <2> HIDE DEF Begins
  <2>4. d # 0
    BY <1>0, <2>2, <2>3
  <2>5. d - 1 \in 0..N /\ d - 1 \notin D
    <3> HIDE DEF D
    <3> QED BY <1>0, <2>1, <2>3, <2>4
  <2>6. Begins(N - (d - 1))
    BY <2>5
  <2> DEFINE n == N - (d - 1)
  <2>7. n \in 1..N /\ n - 1 = N - d
    BY <1>0, <2>3, <2>4
  <2> HIDE DEF n
  <2>8. P[n] \in Seq(Step) /\ P[n - 1] \in Seq(Step) /\ F \in Seq(Step)
    BY <1>0, <1>3, <2>7
  <2>9. Begins(n)
    BY <2>6 DEF n
  <2>10. Begins(n - 1)
    <3>1. Len(P[n - 1]) <= Len(F)
      BY <1>4, <2>7, <2>8, <2>9 DEF Begins
    <3>2. ASSUME NEW k \in 1..Len(P[n - 1]) PROVE F[k] = P[n - 1][k]
      <4>1. k \in 1..Len(P[n]) /\ P[n][k] = P[n - 1][k]
        BY <1>4, <2>7, <2>8
      <4> QED BY <2>9, <4>1 DEF Begins
    <3> QED BY <3>1, <3>2 DEF Begins
  <2> QED BY <2>3, <2>7, <2>10
<1>6. ASSUME NEW n \in 0..N PROVE Begins(n)
  <2>1. N - n \in 0..N /\ N - (N - n) = n
    BY <1>0
  <2> QED BY <1>5, <2>1
<1> QED BY <1>3, <1>6 DEF N, P

\* For every recording, CompileScript makes a faithful script.
LEMMA CompileFaithful ==
  ASSUME NEW raw \in Seq(RawEvent)
  PROVE  Faithful(raw, CompileScript(raw))
<1> DEFINE N == Len(raw)
           P == StepsOf(raw)
           F == P[N]
           A(n) == Turns(F)[Len(P[n])]
           Take(n) == SubSeq(raw, 1, n)
           Good(n) == A(n) \in Acc /\ Faithful(Take(n), Flush(A(n)))
<1>0. N \in Nat
  OBVIOUS
<1>1. P[0] = <<>> /\ \A n \in 1..N : P[n] = Cat(P[n - 1], Compile1(raw[n]))
  BY StepsOfDef
<1>2. \A n \in 0..N : /\ P[n] \in Seq(Step) /\ Len(P[n]) <= Len(F)
                      /\ \A k \in 1..Len(P[n]) : F[k] = P[n][k]
  BY StepsPrefix
<1>3. F \in Seq(Step) /\ Len(F) \in Nat
  BY <1>0, <1>2
<1>4. /\ Turns(F)[0] = [out |-> <<>>, text |-> <<>>, target |-> NoNode]
      /\ \A k \in 1..Len(F) : Turns(F)[k] = OptimizeStep(Turns(F)[k - 1], F[k])
  BY <1>3, TurnsDef
<1>5. /\ Take(0) = <<>> /\ Take(N) = raw
      /\ \A n \in 1..N : /\ Take(n - 1) \in Seq(RawEvent) /\ Take(n) \in Seq(RawEvent)
                         /\ Take(n) = Append(Take(n - 1), raw[n]) /\ raw[n] \in RawEvent
  <2>1. Take(0) = <<>> /\ Take(N) = raw
    OBVIOUS
  <2>2. ASSUME NEW n \in 1..N
        PROVE  /\ Take(n - 1) \in Seq(RawEvent) /\ Take(n) \in Seq(RawEvent)
               /\ Take(n) = Append(Take(n - 1), raw[n]) /\ raw[n] \in RawEvent
    OBVIOUS
  <2> QED BY <2>1, <2>2
<1> HIDE DEF N, P, Take
<1>6. Good(0)
  <2>1. A(0) = [out |-> <<>>, text |-> <<>>, target |-> NoNode]
    BY <1>1, <1>4
  <2>2. A(0) \in Acc /\ Flush(A(0)) = <<>>
    BY <2>1 DEF Acc, Flush, Target
  <2>3. Acts(<<>>) = {}
    BY DEF Acts
  <2>4. Faithful(<<>>, <<>>)
    <3> DEFINE act == [i \in {} |-> 0]
    <3>1. act \in [DOMAIN <<>> -> Acts(<<>>)]
      BY <2>3
    <3>2. StandsFor(act, <<>>, <<>>)
      BY <2>3 DEF StandsFor
    <3> HIDE DEF act
    <3> QED BY <3>1, <3>2 DEF Faithful
  <2> QED BY <1>5, <2>2, <2>4
<1>7. ASSUME NEW n \in 1..N, Good(n - 1) PROVE Good(n)
  <2> DEFINE e == raw[n]
             c == Compile1(e)
             b == Len(P[n - 1])
             r == Take(n - 1)
  <2>1. e \in RawEvent /\ r \in Seq(RawEvent) /\ Take(n) = Append(r, e) /\ Append(r, e) \in Seq(RawEvent)
    BY <1>5
  <2>2. c \in Seq(Step) /\ P[n - 1] \in Seq(Step) /\ P[n] = Cat(P[n - 1], c) /\ P[n] \in Seq(Step)
    <3>1. n \in 0..N /\ n - 1 \in 0..N
      BY <1>0
    <3> QED BY <1>1, <1>2, <2>1, <3>1, CompileType
  <2>3. b \in Nat /\ Len(P[n]) = b + Len(c) /\ b + Len(c) <= Len(F)
    <3>1. n \in 0..N
      BY <1>0
    <3>2. Len(P[n]) <= Len(F)
      BY <1>2, <3>1
    <3>3. b \in Nat /\ Len(P[n]) = b + Len(c)
      BY <2>2, CatBegins, Zenon
    <3> QED BY <3>2, <3>3
  <2>4. ASSUME NEW k \in 1..Len(c)
        PROVE  /\ b + k \in 1..Len(F) /\ F[b + k] = c[k] /\ c[k] \in Step
               /\ Turns(F)[b + k] = OptimizeStep(Turns(F)[b + k - 1], c[k])
    <3>1. b + k \in 1..Len(P[n]) /\ P[n][b + k] = c[k] /\ c[k] \in Step
      <4>1. /\ b + k \in 1..Len(Cat(P[n - 1], c)) /\ Cat(P[n - 1], c)[b + k] = c[k]
            /\ c[k] \in Step
        BY <2>2, CatBegins, Zenon
      <4> QED BY <2>2, <4>1, Zenon
    <3>2. F[b + k] = P[n][b + k] /\ b + k \in 1..Len(F)
      <4>1. n \in 0..N
        BY <1>0
      <4>2. Len(P[n]) <= Len(F) /\ \A m \in 1..Len(P[n]) : F[m] = P[n][m]
        BY <1>2, <4>1
      <4>3. Len(P[n]) \in Nat
        BY <2>2
      <4> HIDE DEF b
      <4> QED BY <1>3, <3>1, <4>2, <4>3
    <3> QED BY <1>4, <3>1, <3>2
  <2>5. Turns(F)[b] \in Acc /\ Faithful(r, Flush(Turns(F)[b]))
    BY <1>7
  <2> HIDE DEF r, b, c, e
  <2>6. 1 \in 1..Len(c)
    <3>1. Len(c) = 1 \/ Len(c) = 3
      BY <2>1, CompileType, Zenon DEF c
    <3>2. Len(c) \in Nat
      BY <2>2
    <3>3. \A k \in Nat : k = 1 \/ k = 3 => 1 \in 1..k
      OBVIOUS
    <3> QED BY <3>1, <3>2, <3>3, Zenon
  <2>7. Turns(F)[b + 1] = OptimizeStep(Turns(F)[b], c[1])
    BY <2>3, <2>4, <2>6
  <2>8. Turns(F)[b + 1] \in Acc /\ Faithful(Append(r, e), Flush(Turns(F)[b + 1]))
    <3>1. CASE e.kind = "text"
      BY <2>1, <2>5, <2>7, <3>1, InputTurn DEF c
    <3>2. CASE e.kind # "text"
      BY <2>1, <2>5, <2>7, <3>2, TouchTurn DEF c
    <3> QED BY <3>1, <3>2
  <2>9. CASE e.kind # "launch"
    <3>1. Len(P[n]) = b + 1
      BY <2>1, <2>3, <2>9, CompileType DEF c
    <3> QED BY <2>1, <2>8, <3>1
  <2>10. CASE e.kind = "launch"
    <3>1. Len(c) = 3 /\ c[2].kind = "wait" /\ c[3].kind = "assert"
      BY <2>1, <2>10, CompileType DEF c
    <3>2. /\ Turns(F)[b + 2] = OptimizeStep(Turns(F)[b + 1], c[2]) /\ c[2] \in Step
          /\ Turns(F)[b + 3] = OptimizeStep(Turns(F)[b + 2], c[3]) /\ c[3] \in Step
      <4>1. 2 \in 1..Len(c) /\ 3 \in 1..Len(c) /\ b + 2 - 1 = b + 1 /\ b + 3 - 1 = b + 2
        BY <2>3, <3>1
      <4> QED BY <2>4, <4>1
    <3>3. Turns(F)[b + 2] \in Acc /\ Faithful(Append(r, e), Flush(Turns(F)[b + 2]))
      BY <2>1, <2>8, <3>1, <3>2, SilentTurn
    <3>4. Turns(F)[b + 3] \in Acc /\ Faithful(Append(r, e), Flush(Turns(F)[b + 3]))
      BY <2>1, <3>1, <3>2, <3>3, SilentTurn
    <3> QED BY <2>1, <2>3, <3>1, <3>4
  <2> QED BY <2>9, <2>10
<1>8. Good(N)
  <2> HIDE DEF Good
  <2> DEFINE T == {n \in 0..N : ~Good(n)}
  <2>1. T = {}
    <3> SUFFICES ASSUME T # {} PROVE FALSE
      OBVIOUS
    <3>1. T \in SUBSET Nat
      BY <1>0
    <3>2. PICK n \in T : \A m \in T : n <= m
      BY <3>1, Least
    <3>3. n \in 1..N
      BY <1>0, <1>6, <3>2
    <3>4. n - 1 \in 0..N /\ n - 1 \notin T
      BY <1>0, <3>2, <3>3
    <3> QED BY <1>7, <3>2, <3>3, <3>4
  <2> QED BY <1>0, <2>1
<1> DEFINE V == OptimizeSteps(F)
<1>9. V \in Seq(Step) /\ Faithful(raw, V)
  <2>1. V = Flush(A(N))
    BY DEF OptimizeSteps
  <2> HIDE DEF V
  <2> QED BY <1>5, <1>8, <2>1, FlushSeq
<1> HIDE DEF V
<1>10. Faithful(raw, V \o FinalSteps)
  <2> DEFINE x == [kind |-> "terminate"]
             y == [kind |-> "wait"]
  <2>1. x \in Step /\ y \in Step
    BY DEF Step
  <2>2. Append(V, x) \in Seq(Step) /\ Faithful(raw, Append(V, x))
    BY <1>9, <2>1, SilentStep
  <2>3. Faithful(raw, Append(Append(V, x), y))
    BY <2>1, <2>2, SilentStep
  <2>4. V \o <<x, y>> = Append(Append(V, x), y)
    <3> HIDE DEF x, y
    <3>1. /\ Len(V \o <<x, y>>) = Len(V) + 2 /\ Len(Append(Append(V, x), y)) = Len(V) + 2
          /\ V \o <<x, y>> \in Seq(Step) /\ Append(Append(V, x), y) \in Seq(Step)
      BY <1>9, <2>1
    <3>2. \A i \in 1..(Len(V) + 2) : (V \o <<x, y>>)[i] = Append(Append(V, x), y)[i]
      BY <1>9, <2>1
    <3> QED BY <3>1, <3>2
  <2> QED BY <2>3, <2>4 DEF FinalSteps
<1>11. V \o <<>> = V
  BY <1>9
<1> QED BY <1>9, <1>10, <1>11 DEF CompileScript, V, N, P

-----------------------------------------------------------------------------
\* What is needed to say that the events compiled are those of a session.
ScriptInv ==
  /\ stopping \in 0..MaxSession
  /\ DOMAIN script = SessionNo
  /\ ScriptFaithful

LEMMA ScriptStep ==
  ASSUME RecInv, ScriptInv, [RecNext]_recVars
  PROVE  ScriptInv'
<1>1. CASE ReturnScript
  <2>1. stopping \in SessionNo
    BY <1>1, RecordingAssumption DEF ReturnScript, ScriptInv, SessionNo
  <2> DEFINE raw == events[stopping]
  <2>2. raw \in Seq(RawEvent)
    BY <2>1 DEF RecInv, SessionsInv
  <2>3. Faithful(raw, CompileScript(raw))
    BY <2>2, CompileFaithful
  <2>4. script' = [script EXCEPT ![stopping] = <<raw, CompileScript(raw)>>] /\ stopping' = 0
    BY <1>1 DEF ReturnScript
  <2> HIDE DEF raw
  <2>5. ASSUME NEW s \in SessionNo, script'[s] # <<>>
        PROVE  Faithful(script'[s][1], script'[s][2])
    <3>1. CASE s = stopping
      <4>1. script'[s] = <<raw, CompileScript(raw)>>
        BY <2>1, <2>4, <3>1 DEF ScriptInv
      <4>2. script'[s][1] = raw /\ script'[s][2] = CompileScript(raw)
        BY <4>1
      <4> QED BY <2>3, <4>2
    <3>2. CASE s # stopping
      <4>1. script'[s] = script[s]
        BY <2>4, <3>2 DEF ScriptInv
      <4> QED BY <2>5, <4>1 DEF ScriptInv, ScriptFaithful
    <3> QED BY <3>1, <3>2
  <2>6. (stopping \in 0..MaxSession)'
    BY <2>4, RecordingAssumption
  <2>7. (DOMAIN script = SessionNo)'
    BY <2>4 DEF ScriptInv
  <2> QED BY <2>5, <2>6, <2>7 DEF ScriptInv, ScriptFaithful
<1>2. CASE ~ReturnScript
  <2>1. script' = script /\ stopping' \in {stopping, current}
    BY <1>2 DEF RecNext, recVars, StartRecording, StopRecording, RecordTextInput, Touch,
                RecordStep, RecordNothing, LookUp, RecordSwipe, RecordClick, AppendEvent
  <2>2. (stopping \in 0..MaxSession)'
    BY <2>1, RecordingAssumption DEF ScriptInv, RecInv, SessionsInv
  <2> QED BY <2>1, <2>2 DEF ScriptInv, ScriptFaithful
<1> QED BY <1>1, <1>2

\* Whatever was recorded, by however many goroutines and in whatever order, the
\* script that STOP_RECORDING sends back does just that: each thing it does stands
\* for an event, in the order of the events; a text is neither lost nor typed
\* after a later touch when texts are joined, and only a click whose like was
\* just played is left out.
THEOREM ScriptsFaithful == RecSpec => []ScriptFaithful
<1>1. RecInit => ScriptInv
  BY RecordingAssumption DEF RecInit, ScriptInv, ScriptFaithful
<1>2. RecInv /\ ScriptInv /\ [RecNext]_recVars => ScriptInv'
  BY ScriptStep
<1>3. ScriptInv => ScriptFaithful
  BY DEF ScriptInv
<1> QED BY <1>1, <1>2, <1>3, RecInitInv, RecStep, PTL DEF RecSpec
=============================================================================
