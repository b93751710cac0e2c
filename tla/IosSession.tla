----------------------------- MODULE IosSession -----------------------------
(***************************************************************************)
(* An iOS device of the provider: the worker that keeps the tunnel, the    *)
(* WebDriverAgent (WDA) and the port forwards running (ios_worker.go), and *)
(* the WDA clients that share the one session the agent keeps (package     *)
(* wda).  The supervisor and the capture each have a client of their own,  *)
(* used by control events, the capture's start-up and releases.            *)
(***************************************************************************)
EXTENDS Naturals, FiniteSets

CONSTANTS
  Clients,    \* the wda.Client objects of one device
  Users,      \* goroutines that call them
  Wirings,    \* which client each user may have been given
  NoUser,     \* a mutex nobody holds
  FailLimit,  \* failures of runwda before the worker gives up, 5 in the code
  PollLimit,  \* polls of /status, 30 in the code
  MaxExit,    \* bound: processes that exit by themselves
  MaxSession, \* bound: sessions the agent creates
  MaxCall     \* bound: calls per user

ASSUME IosAssumption ==
  /\ NoUser \notin Users
  /\ Wirings \subseteq [Users -> Clients]
  /\ FailLimit \in Nat \ {0}
  /\ PollLimit \in Nat
  /\ MaxExit \in Nat
  /\ MaxSession \in Nat
  /\ MaxCall \in Nat

Proc == {"tunnel", "wda", "forward", "mjpeg"}
Dependent == Proc \ {"tunnel"}
NoSession == 0
Session == 0..MaxSession

VARIABLES
  cancelled,  \* wCtx is cancelled
  proc,       \* each restart loop
  fails,      \* failCount of the runwda loop
  coord,      \* the goroutine that waits for the tunnel
  poll,       \* the goroutine that polls /status: pc and turn
  stop,       \* Stop: "no", "waiting" for done, "returned"
  exits,      \* exits so far
  active,     \* the agent's session
  created,    \* sessions the agent has created
  sessionID,  \* Client.sessionID
  mu,         \* Client.mu, held for writing
  pc,         \* what each user does
  client,     \* the client a user calls
  sid,        \* the id in the request a user has sent
  calls       \* calls so far

procVars == <<cancelled, proc, fails, coord, poll, stop, exits>>
agentVars == <<active, created>>
clientVars == <<sessionID, mu>>
userVars == <<pc, client, sid, calls>>
iosVars == <<procVars, agentVars, clientVars, userVars>>

IosInit ==
  /\ cancelled = FALSE
  /\ proc = [p \in Proc |-> IF p = "tunnel" THEN "ready" ELSE "off"]
  /\ fails = 0
  /\ coord = "await"
  /\ poll = [pc |-> "off", turn |-> 0]
  /\ stop = "no"
  /\ exits = 0
  /\ active = NoSession
  /\ created = 0
  /\ sessionID = [c \in Clients |-> NoSession]
  /\ mu = [c \in Clients |-> NoUser]
  /\ pc = [u \in Users |-> "idle"]
  /\ client \in Wirings
  /\ sid = [u \in Users |-> NoSession]
  /\ calls = [u \in Users |-> 0]

-----------------------------------------------------------------------------
(***************************************************************************)
(* The worker: Start, waitUntilTunnelReady, Stop.                          *)
(***************************************************************************)

\* Requests on the forwarded port reach the agent.
Up == proc["wda"] = "running" /\ proc["forward"] = "running"

\* The head of a restart loop: leave if cancelled, else run the command.
ProcStart(p) ==
  /\ proc[p] = "ready"
  /\ proc' = [proc EXCEPT ![p] = IF cancelled THEN "done" ELSE "running"]
  /\ UNCHANGED <<cancelled, fails, coord, poll, stop, exits, agentVars,
                 clientVars, userVars>>

\* CommandContext kills the command of a cancelled worker; Run returns and
\* the loop leaves.  The agent takes its session with it.
ProcKilled(p) ==
  /\ cancelled
  /\ proc[p] = "running"
  /\ proc' = [proc EXCEPT ![p] = "done"]
  /\ active' = IF p = "wda" THEN NoSession ELSE active
  /\ UNCHANGED <<cancelled, fails, coord, poll, stop, exits, created,
                 clientVars, userVars>>

\* Mutant of ProcExit: runwda gives up without cancelling the others.
MutProcExitQuiet(p) ==
  /\ ~cancelled
  /\ proc[p] = "running"
  /\ exits < MaxExit
  /\ exits' = exits + 1
  /\ fails' = IF p = "wda" THEN fails + 1 ELSE fails
  /\ proc' = [proc EXCEPT ![p] = IF fails' >= FailLimit THEN "done" ELSE "ready"]
  /\ active' = IF p = "wda" THEN NoSession ELSE active
  /\ UNCHANGED <<cancelled, coord, poll, stop, created, clientVars, userVars>>

\* A command ends by itself or is killed from outside, as the pkill of
\* another worker of the same serial does.  The loop runs it again, but
\* FailLimit ends of runwda cancel the worker.
ProcExit(p) ==
  /\ ~cancelled
  /\ proc[p] = "running"
  /\ exits < MaxExit
  /\ exits' = exits + 1
  /\ fails' = IF p = "wda" THEN fails + 1 ELSE fails
  /\ cancelled' = (p = "wda" /\ fails' >= FailLimit)
  /\ proc' = [proc EXCEPT ![p] = IF cancelled' THEN "done" ELSE "ready"]
  /\ active' = IF p = "wda" THEN NoSession ELSE active
  /\ UNCHANGED <<coord, poll, stop, created, clientVars, userVars>>

\* waitUntilTunnelReady returns nil: the dependent goroutines start.  Its
\* HTTP answer may arrive after the cancellation.
TunnelReady ==
  /\ coord = "await"
  /\ proc["tunnel"] = "running"
  /\ coord' = "subs"
  /\ proc' = [p \in Proc |-> IF p \in Dependent THEN "ready" ELSE proc[p]]
  /\ poll' = [poll EXCEPT !.pc = "status"]
  /\ UNCHANGED <<cancelled, fails, stop, exits, agentVars, clientVars, userVars>>

\* waitUntilTunnelReady returns ctx.Err().
TunnelAbandoned ==
  /\ coord = "await"
  /\ cancelled
  /\ coord' = "done"
  /\ UNCHANGED <<cancelled, proc, fails, poll, stop, exits, agentVars,
                 clientVars, userVars>>

\* subWg.Wait
SubsDone ==
  /\ coord = "subs"
  /\ \A p \in Dependent : proc[p] = "done"
  /\ poll.pc = "done"
  /\ coord' = "done"
  /\ UNCHANGED <<cancelled, proc, fails, poll, stop, exits, agentVars,
                 clientVars, userVars>>

\* The poll of /status.  A cancelled worker leaves; otherwise the agent
\* answers, or the next turn begins.
PollStatus ==
  /\ poll.pc = "status"
  /\ poll' = IF cancelled \/ poll.turn = PollLimit
             THEN [poll EXCEPT !.pc = "done"]
             ELSE IF Up THEN [poll EXCEPT !.pc = "create"]
             ELSE [poll EXCEPT !.turn = @ + 1]
  /\ UNCHANGED <<cancelled, proc, fails, coord, stop, exits, agentVars,
                 clientVars, userVars>>

\* POST /session reaches the agent, which replaces its session.
NewSession ==
  /\ Up
  /\ created < MaxSession
  /\ created' = created + 1
  /\ active' = created + 1

\* The poll's own POST /session; nobody keeps the id.  Any answer ends the poll,
\* an error status too; without an answer the next turn begins.
PollCreate ==
  /\ poll.pc = "create"
  /\ \/ /\ NewSession \/ (Up /\ UNCHANGED agentVars)
        /\ poll' = [poll EXCEPT !.pc = "done"]
     \/ /\ poll' = [poll EXCEPT !.pc = "status", !.turn = @ + 1]
        /\ UNCHANGED agentVars
  /\ UNCHANGED <<cancelled, proc, fails, coord, stop, exits, clientVars, userVars>>

Done == proc["tunnel"] = "done" /\ coord = "done"

StopCall ==
  /\ stop = "no"
  /\ stop' = "waiting"
  /\ cancelled' = TRUE
  /\ UNCHANGED <<proc, fails, coord, poll, exits, agentVars, clientVars, userVars>>

\* Mutant of StopReturn: Stop does not wait for done.
MutStopReturnEarly ==
  /\ stop = "waiting"
  /\ stop' = "returned"
  /\ UNCHANGED <<cancelled, proc, fails, coord, poll, exits, agentVars,
                 clientVars, userVars>>

\* done is closed; the pkill that follows finds nothing of this worker.
StopReturn ==
  /\ stop = "waiting"
  /\ Done
  /\ stop' = "returned"
  /\ UNCHANGED <<cancelled, proc, fails, coord, poll, exits, agentVars,
                 clientVars, userVars>>

WorkerStep ==
  \/ \E p \in Proc : ProcStart(p) \/ ProcKilled(p) \/ ProcExit(p)
  \/ TunnelReady \/ TunnelAbandoned \/ SubsDone
  \/ PollStatus \/ PollCreate
  \/ StopCall \/ StopReturn

-----------------------------------------------------------------------------
(***************************************************************************)
(* The clients.  A request is answered (the session in its path is the     *)
(* agent's), refused with 404 (it is not) or fails: there is no agent, or  *)
(* the answer is late, whether or not the request had its effect.          *)
(***************************************************************************)
Free(u) == mu[client[u]] = NoUser
Goto(u, l) == pc' = [pc EXCEPT ![u] = l]
Lock(u) == mu' = [mu EXCEPT ![client[u]] = u]
Unlock(u) == mu' = [mu EXCEPT ![client[u]] = NoUser]
SetSession(u, id) == sessionID' = [sessionID EXCEPT ![client[u]] = id]
Id(u) == sessionID[client[u]]
Answered(u) == Up /\ sid[u] = active /\ sid[u] # NoSession
Refused(u) == Up /\ sid[u] # active

\* A control event or the capture's start-up calls EnsureSession, a release
\* or a teardown DeleteSession.
Call(u) ==
  /\ pc[u] = "idle"
  /\ calls[u] < MaxCall
  /\ calls' = [calls EXCEPT ![u] = @ + 1]
  /\ \E l \in {"ensure", "delete"} : Goto(u, l)
  /\ UNCHANGED <<procVars, agentVars, clientVars, client, sid>>

\* The read under RLock.
EnsureCheck(u) ==
  /\ pc[u] = "ensure"
  /\ Free(u)
  /\ Goto(u, IF Id(u) # NoSession THEN "command" ELSE "lock")
  /\ UNCHANGED <<procVars, agentVars, clientVars, client, sid, calls>>

\* Mutant of EnsureLock: no second check under the write lock.
MutEnsureLockUnchecked(u) ==
  /\ pc[u] = "lock"
  /\ Free(u)
  /\ Lock(u)
  /\ Goto(u, "post")
  /\ UNCHANGED <<procVars, agentVars, sessionID, client, sid, calls>>

\* Lock, and the second check.
EnsureLock(u) ==
  /\ pc[u] = "lock"
  /\ Free(u)
  /\ IF Id(u) # NoSession
     THEN Goto(u, "command") /\ UNCHANGED mu
     ELSE Goto(u, "post") /\ Lock(u)
  /\ UNCHANGED <<procVars, agentVars, sessionID, client, sid, calls>>

\* createSessionLocked: POST /session.
CreateSession(u) ==
  /\ pc[u] = "post"
  /\ \/ /\ NewSession
        /\ SetSession(u, active')
        /\ sid' = [sid EXCEPT ![u] = active']
        /\ Goto(u, "settings")
        /\ UNCHANGED mu
     \/ /\ NewSession \/ UNCHANGED agentVars
        /\ Goto(u, "idle")
        /\ Unlock(u)
        /\ UNCHANGED <<sessionID, sid>>
  /\ UNCHANGED <<procVars, client, calls>>

\* createSessionLocked: POST settings, its error ignored.  On a 404 Request
\* locks the mutex its caller holds, and waits for ever.
CreateSettings(u) ==
  /\ pc[u] = "settings"
  /\ \/ Goto(u, "command") /\ Unlock(u)
     \/ Refused(u) /\ Goto(u, "stuck") /\ UNCHANGED mu
  /\ UNCHANGED <<procVars, agentVars, sessionID, client, sid, calls>>

\* Tap, Swipe, SendKeys, PressButton, LaunchApp, ...: sessionID is tested
\* without the lock.
CommandCheck(u) ==
  /\ pc[u] = "command"
  /\ Goto(u, IF Id(u) = NoSession THEN "idle" ELSE "path")
  /\ UNCHANGED <<procVars, agentVars, clientVars, client, sid, calls>>

\* It is read again for the path of the request.
CommandSend(u) ==
  /\ pc[u] = "path"
  /\ sid' = [sid EXCEPT ![u] = Id(u)]
  /\ Goto(u, "sent")
  /\ UNCHANGED <<procVars, agentVars, clientVars, client, calls>>

CommandAnswer(u) ==
  /\ pc[u] = "sent"
  /\ \/ Goto(u, "idle")
     \/ Refused(u) /\ Goto(u, "forget")
  /\ UNCHANGED <<procVars, agentVars, clientVars, client, sid, calls>>

\* Request, on a 404: whatever sessionID is by now is cleared.
Forget(u) ==
  /\ pc[u] = "forget"
  /\ Free(u)
  /\ SetSession(u, NoSession)
  /\ Goto(u, "idle")
  /\ UNCHANGED <<procVars, agentVars, mu, client, sid, calls>>

DeleteLock(u) ==
  /\ pc[u] = "delete"
  /\ Free(u)
  /\ IF Id(u) = NoSession
     THEN Goto(u, "idle") /\ UNCHANGED <<mu, sid>>
     ELSE Goto(u, "deleting") /\ Lock(u) /\ sid' = [sid EXCEPT ![u] = Id(u)]
  /\ UNCHANGED <<procVars, agentVars, sessionID, client, calls>>

DeleteAnswer(u) ==
  /\ pc[u] = "deleting"
  /\ \/ /\ Answered(u)
        /\ active' = NoSession
        /\ SetSession(u, NoSession)
        /\ Unlock(u)
        /\ Goto(u, "idle")
     \/ /\ active' \in IF Answered(u) THEN {active, NoSession} ELSE {active}
        /\ Unlock(u)
        /\ Goto(u, "idle")
        /\ UNCHANGED sessionID
     \/ Refused(u) /\ Goto(u, "stuck") /\ UNCHANGED <<active, clientVars>>
  /\ UNCHANGED <<procVars, created, client, sid, calls>>

UserStep(u) ==
  \/ EnsureCheck(u) \/ EnsureLock(u)
  \/ CreateSession(u) \/ CreateSettings(u)
  \/ CommandCheck(u) \/ CommandSend(u) \/ CommandAnswer(u) \/ Forget(u)
  \/ DeleteLock(u) \/ DeleteAnswer(u)

IosNext == WorkerStep \/ \E u \in Users : Call(u) \/ UserStep(u)

IosSpec == IosInit /\ [][IosNext]_iosVars

\* Goroutines are scheduled, cancelled commands die, requests end (the
\* clients have a time-out of 15 s), a mutex is granted to every waiter.
\* Nobody has to call, to stop, or to exit.
WorkerFairness ==
  /\ \A p \in Proc : WF_iosVars(ProcStart(p)) /\ WF_iosVars(ProcKilled(p))
  /\ WF_iosVars(TunnelAbandoned \/ SubsDone)
  /\ WF_iosVars(PollStatus \/ PollCreate)
  /\ WF_iosVars(StopReturn)

UserFairness == \A u \in Users : SF_iosVars(UserStep(u))

FairWorkerSpec == IosSpec /\ WorkerFairness
FairIosSpec == FairWorkerSpec /\ UserFairness

-----------------------------------------------------------------------------
(***************************************************************************)
(* Properties.                                                             *)
(***************************************************************************)
ProcState == {"off", "ready", "running", "done"}
Holding == {"post", "settings", "deleting", "stuck"}

IosTypeOK ==
  /\ cancelled \in BOOLEAN
  /\ proc \in [Proc -> ProcState]
  /\ fails \in 0..FailLimit
  /\ coord \in {"await", "subs", "done"}
  /\ poll \in [pc : {"off", "status", "create", "done"}, turn : 0..PollLimit]
  /\ stop \in {"no", "waiting", "returned"}
  /\ exits \in 0..MaxExit
  /\ active \in Session
  /\ created \in Session
  /\ sessionID \in [Clients -> Session]
  /\ mu \in [Clients -> Users \cup {NoUser}]
  /\ pc \in [Users -> {"idle", "ensure", "lock", "command", "path", "sent",
                       "forget", "delete"} \cup Holding]
  /\ client \in [Users -> Clients]
  /\ sid \in [Users -> Session]
  /\ calls \in [Users -> 0..MaxCall]

\* EnsureSession "prevents concurrent session creation attempts"
\* (session.go): a session a client knows is forgotten, by a delete or after
\* a 404, before another takes its place.
CreationExclusive ==
  [][\A c \in Clients : sessionID[c] # NoSession =>
        sessionID'[c] \in {sessionID[c], NoSession}]_iosVars

\* When Stop has returned, no command of the worker runs and none will start,
\* whatever was being restarted, awaited or polled when it was called.
NothingLeftRunning ==
  stop = "returned" => /\ \A p \in Proc : proc[p] \in {"off", "done"}
                       /\ active = NoSession

\* A worker that is stopped, or whose runwda failed FailLimit times, ends all
\* its goroutines, which is what Stop waits for.
WorkerStops == (cancelled \/ fails = FailLimit) ~> Done

\* EnsureSession "is thread-safe" (session.go): a call returns.  The code
\* does not have this property: a 404 on a request sent with the mutex held
\* makes Request lock it a second time.
EnsureReturns ==
  \A u \in Users : pc[u] = "ensure" ~> pc[u] \in {"command", "idle"}
=============================================================================
