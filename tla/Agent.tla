------------------------------- MODULE Agent -------------------------------
(***************************************************************************)
(* The agent of an Android device (internal/agent): a WebSocket server the *)
(* agent application on the device connects to through an adb tunnel,      *)
(* commands sent to it and matched with its responses by id, state events  *)
(* it pushes, and the shutdown by the device's supervisor.                 *)
(*                                                                         *)
(* Goroutines: Run, the deployment, one handler per connection, one per    *)
(* command, and Stop.  a.mu is held over a step only while a command is    *)
(* written to the connection.                                              *)
(***************************************************************************)
EXTENDS Naturals

CONSTANTS
  Command,    \* calls of SendCommand
  Conn,       \* connections the application makes
  NoConn,     \* wsConn is nil
  Nobody      \* a.mu is free

ASSUME AgentAssumption ==
  /\ NoConn \notin Conn
  /\ Nobody \notin Command

VARIABLES
  gone,       \* the supervisor's context is cancelled
  run,        \* Run
  deploy,     \* the goroutine of DeployAgent
  tunnel,     \* "adb reverse" is in place
  stop,       \* Stop
  stopped,    \* a.stopped
  mu,         \* the command that holds a.mu
  wsConn,     \* a.wsConn
  closed,     \* connections that are closed, at either end
  handler,    \* handleWS of each connection
  sealed,     \* StateUpdates is closed
  panicked,   \* a send on the closed channel
  cmd,        \* each call of SendCommand
  pending,    \* a.pending: ids
  held,       \* <<connection, id>>: channels a handler took from a.pending
  inbox,      \* calls whose channel holds the response
  sent,       \* <<connection, id>>: commands that reached the device, on open connections
  replies     \* <<connection, id>>: responses under way, on open connections

lifeVars == <<gone, run, deploy, tunnel, stop, stopped>>
connVars == <<wsConn, closed, handler, sealed, panicked>>
callVars == <<cmd, pending, held, inbox, sent, replies>>
agentVars == <<lifeVars, mu, connVars, callVars>>

AgentInit ==
  /\ gone = FALSE
  /\ run = "spawned"
  /\ deploy = "no"
  /\ tunnel = FALSE
  /\ stop = "no"
  /\ stopped = FALSE
  /\ mu = Nobody
  /\ wsConn = NoConn
  /\ closed = {}
  /\ handler = [c \in Conn |-> "none"]
  /\ sealed = FALSE
  /\ panicked = FALSE
  /\ cmd = [k \in Command |-> "idle"]
  /\ pending = {}
  /\ held = {}
  /\ inbox = {}
  /\ sent = {}
  /\ replies = {}

-----------------------------------------------------------------------------
(***************************************************************************)
(* Run, DeployAgent and Stop.                                              *)
(***************************************************************************)
RunServe ==
  /\ run = "spawned"
  /\ run' = "serving"
  /\ deploy' = "going"
  /\ UNCHANGED <<gone, tunnel, stop, stopped, mu, connVars, callVars>>

\* ListenAndServe fails: Run returns at once.
RunListenFails ==
  /\ run = "serving"
  /\ \A c \in Conn : handler[c] = "none"
  /\ run' = "returned"
  /\ UNCHANGED <<gone, deploy, tunnel, stop, stopped, mu, connVars, callVars>>

\* The deployment has no context: it goes on whatever becomes of Run.
DeployAgent ==
  /\ deploy = "going"
  /\ deploy' = "over"
  /\ tunnel' \in {tunnel, TRUE}
  /\ UNCHANGED <<gone, run, stop, stopped, mu, connVars, callVars>>

\* The device is unplugged or the provider shuts down: dsCtx is cancelled.
DeviceGone ==
  /\ ~gone
  /\ gone' = TRUE
  /\ UNCHANGED <<run, deploy, tunnel, stop, stopped, mu, connVars, callVars>>

RunTeardown ==
  /\ run = "serving"
  /\ gone
  /\ run' = "removing"
  /\ UNCHANGED <<gone, deploy, tunnel, stop, stopped, mu, connVars, callVars>>

\* "adb reverse --remove" ends; it has no time limit, and a failure is logged.
TunnelTeardown ==
  /\ run = "removing"
  /\ run' = "closing"
  /\ tunnel' \in {tunnel, FALSE}
  /\ UNCHANGED <<gone, deploy, stop, stopped, mu, connVars, callVars>>

\* What is under way on a connection that is closed is lost.
Close(cs) ==
  /\ closed' = closed \cup cs
  /\ sent' = sent \ (cs \X Command)
  /\ replies' = replies \ (cs \X Command)

RunClose ==
  /\ run = "closing"
  /\ mu = Nobody
  /\ run' = "shutdown"
  /\ Close({wsConn} \ {NoConn})
  /\ UNCHANGED <<gone, deploy, tunnel, stop, stopped, mu, wsConn, handler,
                 sealed, panicked, cmd, pending, held, inbox>>

\* srv.Shutdown does not wait for upgraded connections, nor close them.
RunReturn ==
  /\ run = "shutdown"
  /\ run' = "returned"
  /\ UNCHANGED <<gone, deploy, tunnel, stop, stopped, mu, connVars, callVars>>

\* The supervisor's teardown calls Stop, after its context has ended.
StopBegin ==
  /\ stop = "no"
  /\ gone
  /\ stop' = "locking"
  /\ UNCHANGED <<gone, run, deploy, tunnel, stopped, mu, connVars, callVars>>

\* Mutant of StopLock: a.mu is kept while Stop waits for Run.
MutStopKeepsLock ==
  /\ stop = "locking"
  /\ mu = Nobody
  /\ stopped' = TRUE
  /\ stop' = "waiting"
  /\ mu' \in Command
  /\ UNCHANGED <<gone, run, deploy, tunnel, connVars, callVars>>

StopLock ==
  /\ stop = "locking"
  /\ mu = Nobody
  /\ stopped' = TRUE
  /\ stop' = "waiting"
  /\ UNCHANGED <<gone, run, deploy, tunnel, mu, connVars, callVars>>

StopReturn ==
  /\ stop = "waiting"
  /\ run = "returned"
  /\ stop' = "returned"
  /\ sealed' = TRUE
  /\ UNCHANGED <<gone, run, deploy, tunnel, stopped, mu, wsConn, closed, handler,
                 panicked, callVars>>

-----------------------------------------------------------------------------
(***************************************************************************)
(* handleWS and handleIncomingEvent.                                       *)
(***************************************************************************)
HandlerGoto(c, pc) == handler' = [handler EXCEPT ![c] = pc]

Connect(c) ==
  /\ handler[c] = "none"
  /\ tunnel
  /\ run \in {"serving", "removing", "closing", "shutdown"}
  /\ HandlerGoto(c, "upgraded")
  /\ UNCHANGED <<lifeVars, mu, wsConn, closed, sealed, panicked, callVars>>

\* The newest connection replaces the one before, which stays open.
StoreConn(c) ==
  /\ handler[c] = "upgraded"
  /\ mu = Nobody
  /\ wsConn' = c
  /\ HandlerGoto(c, "reading")
  /\ UNCHANGED <<lifeVars, mu, closed, sealed, panicked, callVars>>

\* A response belongs to the call that waits for its id, if there is one: the
\* handler takes its channel out of a.pending ...
ReadResponse(c, k) ==
  /\ handler[c] = "reading"
  /\ c \notin closed
  /\ <<c, k>> \in replies
  /\ replies' = replies \ {<<c, k>>}
  /\ pending' = pending \ {k}
  /\ held' = IF k \in pending THEN held \cup {<<c, k>>} ELSE held
  /\ HandlerGoto(c, "delivering")
  /\ UNCHANGED <<lifeVars, mu, wsConn, closed, sealed, panicked, cmd, inbox, sent>>

\* ... and then, without pendingMu, sends on it; the call may have returned by
\* then.  The handler then needs a.mu, although a response is no state event.
Deliver(c) ==
  /\ handler[c] = "delivering"
  /\ inbox' = inbox \cup {k \in Command : <<c, k>> \in held /\ cmd[k] \in {"writing", "waiting"}}
  /\ held' = held \ ({c} \X Command)
  /\ HandlerGoto(c, "locking")
  /\ UNCHANGED <<lifeVars, mu, wsConn, closed, sealed, panicked, cmd, pending,
                 sent, replies>>

ResponseRead(c) ==
  /\ handler[c] = "locking"
  /\ mu = Nobody
  /\ HandlerGoto(c, "reading")
  /\ UNCHANGED <<lifeVars, mu, wsConn, closed, sealed, panicked, callVars>>

\* A state event updates the device under a.mu; any other event changes
\* nothing.  Then the snapshot is published without the mutex.
ReadEvent(c) ==
  /\ handler[c] = "reading"
  /\ c \notin closed
  /\ mu = Nobody
  /\ HandlerGoto(c, "publishing")
  /\ UNCHANGED <<lifeVars, mu, wsConn, closed, sealed, panicked, callVars>>

\* The snapshot is queued, or dropped when the channel is full; which, nobody
\* learns.  A send on the closed channel panics, whatever the default case of
\* the select says.
Publish(c) ==
  /\ handler[c] = "publishing"
  /\ panicked' = sealed
  /\ HandlerGoto(c, "reading")
  /\ UNCHANGED <<lifeVars, mu, wsConn, closed, sealed, callVars>>

\* The application, or the cable, closes the connection.
PeerCloses(c) ==
  /\ handler[c] \notin {"none", "gone"}
  /\ c \notin closed
  /\ Close({c})
  /\ UNCHANGED <<lifeVars, mu, wsConn, handler, sealed, panicked, cmd, pending,
                 held, inbox>>

\* Mutant of EndHandler: the handler of an old connection forgets the new one.
MutEndForgetsAny(c) ==
  /\ handler[c] = "reading"
  /\ c \in closed
  /\ mu = Nobody
  /\ wsConn' = NoConn
  /\ HandlerGoto(c, "gone")
  /\ UNCHANGED <<lifeVars, mu, closed, sealed, panicked, callVars>>

\* ReadMessage fails; the deferred function takes the connection off.
EndHandler(c) ==
  /\ handler[c] = "reading"
  /\ c \in closed
  /\ mu = Nobody
  /\ wsConn' = IF wsConn = c THEN NoConn ELSE wsConn
  /\ HandlerGoto(c, "gone")
  /\ UNCHANGED <<lifeVars, mu, closed, sealed, panicked, callVars>>

-----------------------------------------------------------------------------
(***************************************************************************)
(* SendCommand.  Every return deletes the id from a.pending.               *)
(***************************************************************************)
CmdGoto(k, pc) == cmd' = [cmd EXCEPT ![k] = pc]

\* The agent is stopped, or not connected ...
SendRefused(k) ==
  /\ cmd[k] = "idle"
  /\ mu = Nobody
  /\ stopped \/ wsConn = NoConn
  /\ CmdGoto(k, "failed")
  /\ UNCHANGED <<lifeVars, mu, connVars, held, pending, inbox, sent, replies>>

\* ... or the command gets an id and its entry.
SendBegin(k) ==
  /\ cmd[k] = "idle"
  /\ mu = Nobody
  /\ ~stopped /\ wsConn # NoConn
  /\ pending' = pending \cup {k}
  /\ CmdGoto(k, "locking")
  /\ UNCHANGED <<lifeVars, mu, connVars, held, inbox, sent, replies>>

SendLock(k) ==
  /\ cmd[k] = "locking"
  /\ mu = Nobody
  /\ IF wsConn = NoConn
     THEN /\ CmdGoto(k, "failed")
          /\ pending' = pending \ {k}
          /\ UNCHANGED mu
     ELSE /\ CmdGoto(k, "writing")
          /\ mu' = k
          /\ UNCHANGED pending
  /\ UNCHANGED <<lifeVars, connVars, held, inbox, sent, replies>>

\* WriteMessage has no deadline: it gets the message out when the other end
\* takes it, and the application may answer before it has returned.
WriteReaches(k) ==
  /\ cmd[k] = "writing"
  /\ wsConn \notin closed
  /\ sent' = sent \cup {<<wsConn, k>>}
  /\ UNCHANGED <<lifeVars, mu, connVars, cmd, pending, held, inbox, replies>>

\* What is written to a connection the other end has closed may be lost.
SendWritten(k) ==
  /\ cmd[k] = "writing"
  /\ wsConn \in closed \/ <<wsConn, k>> \in sent
  /\ mu' = Nobody
  /\ CmdGoto(k, "waiting")
  /\ UNCHANGED <<lifeVars, connVars, pending, held, inbox, sent, replies>>

SendWriteFails(k) ==
  /\ cmd[k] = "writing"
  /\ wsConn \in closed
  /\ mu' = Nobody
  /\ pending' = pending \ {k}
  /\ inbox' = inbox \ {k}
  /\ CmdGoto(k, "failed")
  /\ UNCHANGED <<lifeVars, connVars, held, sent, replies>>

SendAnswered(k) ==
  /\ cmd[k] = "waiting"
  /\ k \in inbox
  /\ CmdGoto(k, "ok")
  /\ inbox' = inbox \ {k}
  /\ pending' = pending \ {k}
  /\ UNCHANGED <<lifeVars, mu, connVars, held, sent, replies>>

\* Mutant of SendExpires: returning on a timeout leaves the id behind.
MutExpireKeepsPending(k) ==
  /\ cmd[k] = "waiting"
  /\ CmdGoto(k, "failed")
  /\ inbox' = inbox \ {k}
  /\ UNCHANGED <<lifeVars, mu, connVars, held, pending, sent, replies>>

\* Mutant of SendExpires: nothing ends the wait for a response.
MutNoTimeout(k) ==
  /\ cmd[k] = "waiting"
  /\ k \in inbox
  /\ CmdGoto(k, "failed")
  /\ inbox' = inbox \ {k}
  /\ pending' = pending \ {k}
  /\ UNCHANGED <<lifeVars, mu, connVars, held, sent, replies>>

\* The timeout, or the end of the caller's context.
SendExpires(k) ==
  /\ cmd[k] = "waiting"
  /\ CmdGoto(k, "failed")
  /\ inbox' = inbox \ {k}
  /\ pending' = pending \ {k}
  /\ UNCHANGED <<lifeVars, mu, connVars, held, sent, replies>>

\* The application executes a command and answers, at any time, even twice.
DeviceAnswers(c, k) ==
  /\ <<c, k>> \in sent
  /\ replies' = replies \cup {<<c, k>>}
  /\ UNCHANGED <<lifeVars, mu, connVars, held, cmd, pending, inbox, sent>>

-----------------------------------------------------------------------------
RunStep == RunServe \/ RunTeardown \/ RunClose \/ RunReturn

StopStep == StopLock \/ StopReturn

HandlerStep(c) ==
  \/ StoreConn(c) \/ Deliver(c) \/ ResponseRead(c) \/ Publish(c) \/ EndHandler(c)

SendStep(k) ==
  \/ SendLock(k) \/ SendWritten(k) \/ SendWriteFails(k)
  \/ SendAnswered(k) \/ SendExpires(k)

\* A panic ends the provider's process.
AgentNext ==
  /\ ~panicked
  /\ \/ RunStep \/ RunListenFails \/ TunnelTeardown \/ DeployAgent \/ DeviceGone
     \/ StopBegin \/ StopStep
     \/ \E c \in Conn : Connect(c) \/ HandlerStep(c) \/ ReadEvent(c) \/ PeerCloses(c)
     \/ \E k \in Command : SendRefused(k) \/ SendBegin(k) \/ WriteReaches(k) \/ SendStep(k)
     \/ \E c \in Conn, k \in Command : ReadResponse(c, k) \/ DeviceAnswers(c, k)

AgentSpec == AgentInit /\ [][AgentNext]_agentVars

\* Fairness: goroutines run.  Nothing is assumed of the application, so that a
\* write to an open connection may stall, nor of adb, the deployment, the
\* callers or the supervisor.
AgentFairness ==
  /\ WF_agentVars(~panicked /\ RunStep)
  /\ WF_agentVars(~panicked /\ StopStep)
  /\ \A k \in Command : WF_agentVars(~panicked /\ SendStep(k))

FairAgentSpec == AgentSpec /\ AgentFairness

-----------------------------------------------------------------------------
AgentTypeOK ==
  /\ {gone, tunnel, stopped, sealed, panicked} \subseteq BOOLEAN
  /\ run \in {"spawned", "serving", "removing", "closing", "shutdown", "returned"}
  /\ deploy \in {"no", "going", "over"}
  /\ stop \in {"no", "locking", "waiting", "returned"}
  /\ mu \in Command \cup {Nobody}
  /\ wsConn \in Conn \cup {NoConn}
  /\ closed \subseteq Conn
  /\ handler \in [Conn -> {"none", "upgraded", "reading", "delivering", "locking",
                        "publishing", "gone"}]
  /\ cmd \in [Command -> {"idle", "locking", "writing", "waiting", "ok", "failed"}]
  /\ pending \subseteq Command
  /\ held \subseteq Conn \X Command
  /\ inbox \subseteq Command
  /\ sent \subseteq Conn \X Command
  /\ replies \subseteq Conn \X Command

\* No response is lost and none is delivered twice: the channel of a call that
\* waits is in a.pending, or in the hands of exactly one handler, or holds the
\* response, and only calls under way have an entry or a response, over timeouts
\* racing with early, late, repeated and misplaced responses.
PendingAccounted ==
  \A k \in Command :
    /\ k \in pending => cmd[k] \in {"locking", "writing", "waiting"}
    /\ k \in inbox => cmd[k] \in {"writing", "waiting"} /\ k \notin pending
    /\ cmd[k] = "waiting" => k \in pending \cup inbox \/ \E c \in Conn : <<c, k>> \in held
    /\ \A c \in Conn : <<c, k>> \in held =>
         k \notin pending \cup inbox /\ \A d \in Conn : <<d, k>> \in held => d = c

\* The connection commands are sent to is given up only by its own handler:
\* the late end of an older connection does not cut off a newer one.
ActiveConnKept ==
  [][wsConn # NoConn /\ wsConn' = NoConn => handler'[wsConn] = "gone"]_agentVars

\* The application has stopped reading and its connection is open: the write
\* of a command, made under a.mu and before the timeout starts, does not end.
WriteStalled ==
  \E k \in Command :
    cmd[k] = "writing" /\ wsConn \notin closed /\ <<wsConn, k>> \notin sent

\* Every SendCommand returns: no call waits for ever for a response, for the
\* mutex or for a connection that is gone, unless a write to the application is
\* stalled for ever.
CommandsReturn ==
  \/ []<>(panicked \/ \A k \in Command : cmd[k] \in {"idle", "ok", "failed"})
  \/ <>[]WriteStalled

\* Every Stop returns: it needs a.mu, and waits for Run, which needs a.mu to
\* close the connection, while commands hold it over their writes.  The two
\* calls without a time limit are the exceptions: a write to the application, and
\* "adb reverse --remove".
StopReturns ==
  \/ []<>(panicked \/ stop \in {"no", "returned"})
  \/ <>[]WriteStalled
  \/ <>[](run = "removing")

\* "Stop signals the agent to shut down and waits for it to finish."
\* (agent.go): a Stop that was called returns.  The code does not have this
\* property: a write that does not end keeps a.mu from Stop and from Run, which
\* would close the connection.
StopAlwaysReturns == []<>(panicked \/ stop \in {"no", "returned"})

\* "Stop signals the agent to shut down and waits for it to finish."
\* (agent.go): nothing publishes a state after Stop has closed StateUpdates.
\* The code does not have this property.
NoPublishAfterStop == ~panicked

\* Run's teardown "removes the ADB reverse tunnel" (agent.go).  The code does
\* not have this property: a deployment may be slower than the unplugging.
TunnelRemoved == run = "returned" => ~tunnel
=============================================================================
