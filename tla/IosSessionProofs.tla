-------------------------- MODULE IosSessionProofs --------------------------
(***************************************************************************)
(* IosSession, for any number of clients and users, any wiring, limit and  *)
(* number of exits: Stop leaves nothing running, and no session a client   *)
(* knows is replaced before it is forgotten.                               *)
(***************************************************************************)
EXTENDS IosSession, TLAPS

Where == {"idle", "ensure", "lock", "command", "path", "sent", "forget", "delete"}
           \cup Holding

\* A stopped worker is cancelled, one that has given up on runwda too; a poll
\* that has found the agent has a turn left.
Limits ==
  /\ stop # "no" => cancelled
  /\ ~cancelled => fails < FailLimit
  /\ poll.pc = "create" => poll.turn < PollLimit

\* The dependent goroutines exist between the two waits of the goroutine that
\* waits for the tunnel.
Waits ==
  /\ coord = "await" => \A p \in Dependent : proc[p] = "off"
  /\ coord = "done" => \A p \in Dependent : proc[p] \in {"off", "done"}
  /\ stop = "returned" => Done

\* The agent has its session only while it runs.
AgentHolds == active # NoSession => proc["wda"] = "running"

\* Who is between Lock and Unlock of a client's mutex holds it, and who is about
\* to create a session has seen that there is none.
Locked(u) ==
  /\ pc[u] \in Holding => mu[client[u]] = u
  /\ pc[u] = "post" => sessionID[client[u]] = NoSession

IosInv == IosTypeOK /\ Limits /\ Waits /\ AgentHolds /\ \A u \in Users : Locked(u)

-----------------------------------------------------------------------------
LEMMA IosInitInv == IosInit => IosInv
<1> SUFFICES ASSUME IosInit PROVE IosInv
  OBVIOUS
<1> USE IosAssumption
<1>1. IosTypeOK
  <2>1. proc \in [Proc -> ProcState]
    BY DEF IosInit, ProcState
  <2>2. poll \in [pc : {"off", "status", "create", "done"}, turn : 0..PollLimit]
    BY DEF IosInit
  <2>3. fails \in 0..FailLimit /\ exits \in 0..MaxExit /\ active \in Session
        /\ created \in Session
    BY DEF IosInit, Session, NoSession
  <2>4. /\ sessionID \in [Clients -> Session] /\ mu \in [Clients -> Users \cup {NoUser}]
        /\ client \in [Users -> Clients] /\ sid \in [Users -> Session]
        /\ calls \in [Users -> 0..MaxCall]
    BY DEF IosInit, Session, NoSession
  <2> QED BY <2>1, <2>2, <2>3, <2>4 DEF IosInit, IosTypeOK, Holding
<1>2. Limits /\ Waits /\ AgentHolds /\ \A u \in Users : Locked(u)
  BY DEF IosInit, Limits, Waits, AgentHolds, Locked, Dependent, Proc, Holding
<1> QED BY <1>1, <1>2 DEF IosInv

\* The worker: Start and its goroutines, the poll, Stop.
LEMMA WorkerKeeps ==
  ASSUME IosInv, WorkerStep
  PROVE  IosInv' /\ UNCHANGED clientVars
<1> USE IosAssumption DEF IosInv
<1>0. UNCHANGED <<sessionID, mu, pc, client, sid, calls>>
  BY DEF WorkerStep, ProcStart, ProcKilled, ProcExit, TunnelReady, TunnelAbandoned, SubsDone,
         PollStatus, PollCreate, StopCall, StopReturn, clientVars, userVars
<1>1. \A u \in Users : Locked(u)'
  BY <1>0 DEF Locked
<1>2. ASSUME NEW p \in Proc, ProcStart(p) PROVE IosTypeOK' /\ Limits' /\ Waits' /\ AgentHolds'
  <2>1. proc' \in [Proc -> ProcState]
    BY <1>2 DEF ProcStart, IosTypeOK, ProcState
  <2>2. IosTypeOK' /\ Limits'
    BY <1>0, <1>2, <2>1 DEF ProcStart, IosTypeOK, Limits, agentVars
  <2>3. Waits' /\ AgentHolds'
    BY <1>2 DEF ProcStart, IosTypeOK, Waits, AgentHolds, Done, agentVars, Dependent, Proc
  <2> QED BY <2>2, <2>3
<1>3. ASSUME NEW p \in Proc, ProcKilled(p) PROVE IosTypeOK' /\ Limits' /\ Waits' /\ AgentHolds'
  <2>1. proc' \in [Proc -> ProcState] /\ active' \in Session
    BY <1>3 DEF ProcKilled, IosTypeOK, ProcState, Session, NoSession
  <2>2. IosTypeOK' /\ Limits'
    BY <1>0, <1>3, <2>1 DEF ProcKilled, IosTypeOK, Limits
  <2>3. Waits' /\ AgentHolds'
    BY <1>3 DEF ProcKilled, IosTypeOK, Waits, AgentHolds, Done, Dependent, Proc
  <2> QED BY <2>2, <2>3
<1>4. ASSUME NEW p \in Proc, ProcExit(p) PROVE IosTypeOK' /\ Limits' /\ Waits' /\ AgentHolds'
  <2>1. proc' \in [Proc -> ProcState] /\ active' \in Session /\ cancelled' \in BOOLEAN
    BY <1>4 DEF ProcExit, IosTypeOK, ProcState, Session, NoSession
  <2>2. fails' \in 0..FailLimit /\ exits' \in 0..MaxExit /\ (~cancelled' => fails' < FailLimit)
    <3>1. exits' \in 0..MaxExit /\ fails \in 0..FailLimit /\ fails < FailLimit
      BY <1>4 DEF ProcExit, IosTypeOK, Limits
    <3>2. CASE p = "wda"
      <4>1. fails' = fails + 1 /\ cancelled' = (fails' >= FailLimit)
        BY <1>4, <3>2 DEF ProcExit
      <4>2. ~cancelled' => ~(fails' >= FailLimit)
        BY <4>1
      <4>3. fails' \in 0..FailLimit
        BY <3>1, <4>1
      <4> QED BY <3>1, <4>2, <4>3
    <3>3. CASE p # "wda"
      BY <1>4, <3>1, <3>3 DEF ProcExit
    <3> QED BY <3>2, <3>3
  <2>3. stop = "no"
    BY <1>4 DEF ProcExit, Limits
  <2>4. IosTypeOK' /\ Limits'
    BY <1>0, <1>4, <2>1, <2>2, <2>3 DEF ProcExit, IosTypeOK, Limits
  <2>5. Waits' /\ AgentHolds'
    BY <1>4, <2>3 DEF ProcExit, IosTypeOK, Waits, AgentHolds, Done, Dependent, Proc
  <2> QED BY <2>4, <2>5
<1>5. CASE TunnelReady
  <2>1. proc' \in [Proc -> ProcState]
    BY <1>5 DEF TunnelReady, IosTypeOK, ProcState
  <2>2. /\ poll' \in [pc : {"off", "status", "create", "done"}, turn : 0..PollLimit]
        /\ poll'.pc = "status"
    BY <1>5 DEF TunnelReady, IosTypeOK
  <2>3. IosTypeOK' /\ Limits'
    BY <1>0, <1>5, <2>1, <2>2 DEF TunnelReady, IosTypeOK, Limits, agentVars
  <2>4. Waits' /\ AgentHolds'
    BY <1>5 DEF TunnelReady, IosTypeOK, Waits, AgentHolds, Done, agentVars, Dependent, Proc
  <2> QED BY <1>1, <1>0, <2>3, <2>4 DEF clientVars
<1>6. CASE TunnelAbandoned \/ SubsDone
  <2>1. IosTypeOK' /\ Limits'
    BY <1>0, <1>6 DEF TunnelAbandoned, SubsDone, IosTypeOK, Limits, agentVars
  <2>2. Waits' /\ AgentHolds'
    BY <1>6 DEF TunnelAbandoned, SubsDone, IosTypeOK, Waits, AgentHolds, Done, agentVars
  <2> QED BY <1>1, <1>0, <2>1, <2>2 DEF clientVars
<1>7. CASE PollStatus
  <2>1. PICK l \in {"off", "status", "create", "done"}, n \in 0..PollLimit :
          poll = [pc |-> l, turn |-> n]
    BY DEF IosTypeOK
  <2>2. /\ poll' \in [pc : {"off", "status", "create", "done"}, turn : 0..PollLimit]
        /\ poll'.pc = "create" => poll'.turn < PollLimit
    BY <1>7, <2>1 DEF PollStatus
  <2>3. IosTypeOK' /\ Limits'
    BY <1>0, <1>7, <2>2 DEF PollStatus, IosTypeOK, Limits, agentVars
  <2>4. Waits' /\ AgentHolds'
    BY <1>7 DEF PollStatus, IosTypeOK, Waits, AgentHolds, Done, agentVars
  <2> QED BY <1>1, <1>0, <2>3, <2>4 DEF clientVars
<1>8. CASE PollCreate
  <2>1. PICK l \in {"off", "status", "create", "done"}, n \in 0..PollLimit :
          poll = [pc |-> l, turn |-> n]
    BY DEF IosTypeOK
  <2>2. /\ poll' \in [pc : {"off", "status", "create", "done"}, turn : 0..PollLimit]
        /\ poll'.pc # "create"
    <3>1. poll.turn \in Nat /\ poll.turn + 1 \in 0..PollLimit /\ l = "create"
      BY <1>8, <2>1 DEF PollCreate, Limits
    <3>2. \/ poll' = [poll EXCEPT !.pc = "done"]
          \/ poll' = [poll EXCEPT !.pc = "status", !.turn = @ + 1]
      BY <1>8 DEF PollCreate
    <3>3. \/ poll' = [pc |-> "done", turn |-> n]
          \/ poll' = [pc |-> "status", turn |-> n + 1]
      BY <2>1, <3>2
    <3> QED BY <2>1, <3>1, <3>3
  <2>3. active' \in Session /\ created' \in Session /\ (active' # active => Up)
    <3>1. active \in Session /\ created \in Session
      BY DEF IosTypeOK
    <3>2. CASE NewSession
      BY <3>1, <3>2 DEF NewSession, Session
    <3>3. CASE UNCHANGED agentVars
      BY <3>1, <3>3 DEF agentVars
    <3> QED BY <1>8, <3>2, <3>3 DEF PollCreate
  <2>4. IosTypeOK' /\ Limits'
    BY <1>0, <1>8, <2>2, <2>3 DEF PollCreate, IosTypeOK, Limits
  <2>5. Waits' /\ AgentHolds'
    BY <1>8, <2>3 DEF PollCreate, IosTypeOK, Waits, AgentHolds, Done, Up
  <2> QED BY <1>1, <1>0, <2>4, <2>5 DEF clientVars
<1>9. CASE StopCall \/ StopReturn
  <2>1. IosTypeOK' /\ Limits'
    BY <1>0, <1>9 DEF StopCall, StopReturn, IosTypeOK, Limits, agentVars
  <2>2. Waits' /\ AgentHolds'
    BY <1>9 DEF StopCall, StopReturn, IosTypeOK, Waits, AgentHolds, Done, agentVars
  <2> QED BY <1>1, <1>0, <2>1, <2>2 DEF clientVars
<1> QED BY <1>0, <1>1, <1>2, <1>3, <1>4, <1>5, <1>6, <1>7, <1>8, <1>9
       DEF WorkerStep, clientVars

-----------------------------------------------------------------------------
\* A step of user u, by what it may change.
LEMMA UserKeeps ==
  ASSUME IosInv, NEW u \in Users,
         UNCHANGED <<procVars, client>>, active' \in Session, created' \in Session,
         active' # active => Up \/ active' = NoSession,
         sid' \in [Users -> Session], calls' \in [Users -> 0..MaxCall],
         NEW l \in Where, pc' = [pc EXCEPT ![u] = l],
         NEW m \in {mu[client[u]], u, NoUser}, mu' = [mu EXCEPT ![client[u]] = m],
         m # mu[client[u]] => mu[client[u]] \in {u, NoUser},
         l \in Holding => m = u,
         NEW s \in Session, sessionID' = [sessionID EXCEPT ![client[u]] = s],
         s # sessionID[client[u]] => mu[client[u]] \in {u, NoUser},
         l = "post" => s = NoSession
  PROVE  IosInv'
<1> USE IosAssumption DEF IosInv
<1>1. client[u] \in Clients /\ mu[client[u]] \in Users \cup {NoUser}
  BY DEF IosTypeOK
<1>2. IosTypeOK'
  <2>1. pc' \in [Users -> Where]
    BY DEF IosTypeOK, Where
  <2>2. sessionID' \in [Clients -> Session]
    BY DEF IosTypeOK
  <2>3. mu' \in [Clients -> Users \cup {NoUser}]
    BY <1>1 DEF IosTypeOK
  <2> QED BY <2>1, <2>2, <2>3 DEF IosTypeOK, procVars, Where
<1>3. Limits' /\ Waits' /\ AgentHolds'
  BY DEF Limits, Waits, AgentHolds, Done, procVars, Up
<1>4. ASSUME NEW w \in Users PROVE Locked(w)'
  <2>1. Locked(w)
    OBVIOUS
  <2>2. client[w] \in Clients /\ client' = client
    BY DEF IosTypeOK
  <2>3. CASE w = u
    <3>1. pc'[u] = l /\ mu'[client[u]] = m /\ sessionID'[client[u]] = s
      BY <1>1 DEF IosTypeOK
    <3> QED BY <2>2, <2>3, <3>1 DEF Locked
  <2>4. CASE w # u /\ client[w] # client[u]
    BY <2>1, <2>2, <2>4 DEF Locked, IosTypeOK
  <2>5. CASE w # u /\ client[w] = client[u]
    <3>1. pc'[w] = pc[w]
      BY <2>5 DEF IosTypeOK
    <3>2. CASE pc[w] \in Holding
      <4>1. mu[client[u]] = w /\ w \notin {u, NoUser}
        BY <2>1, <2>5, <3>2 DEF Locked
      <4>2. m = mu[client[u]] /\ s = sessionID[client[u]]
        BY <4>1
      <4>3. mu'[client[w]] = w /\ sessionID'[client[w]] = sessionID[client[w]]
        BY <1>1, <2>5, <4>1, <4>2 DEF IosTypeOK
      <4> QED BY <2>1, <2>2, <3>1, <4>3 DEF Locked
    <3>3. CASE pc[w] \notin Holding
      BY <3>1, <3>3 DEF Locked, Holding
    <3> QED BY <3>2, <3>3
  <2> QED BY <2>3, <2>4, <2>5
<1> QED BY <1>2, <1>3, <1>4

\* What one step of user u does to the session its client knows: forget it, keep
\* it, or, when there is none, note the new one.
ClientStep(u) ==
  \E s \in Session :
    /\ sessionID' = [sessionID EXCEPT ![client[u]] = s]
    /\ s \in {sessionID[client[u]], NoSession} \/ sessionID[client[u]] = NoSession

LEMMA UserStepKeeps ==
  ASSUME IosInv, NEW u \in Users, Call(u) \/ UserStep(u)
  PROVE  IosInv' /\ ClientStep(u)
<1> USE IosAssumption
<1> DEFINE c == client[u]
           id == sessionID[c]
<1>0. /\ c \in Clients /\ id \in Session /\ mu[c] \in Users \cup {NoUser}
      /\ sessionID = [sessionID EXCEPT ![c] = id] /\ mu = [mu EXCEPT ![c] = mu[c]]
      /\ sid \in [Users -> Session] /\ calls \in [Users -> 0..MaxCall]
      /\ active \in Session /\ created \in Session /\ NoSession \in Session
      /\ Locked(u) /\ u # NoUser
  BY DEF IosInv, IosTypeOK, Session, NoSession
<1>1. \A i \in Session : [sid EXCEPT ![u] = i] \in [Users -> Session]
  BY <1>0
<1> HIDE DEF c, id
<1> SUFFICES \E s \in Session, l \in Where, m \in {mu[client[u]], u, NoUser} :
               /\ UNCHANGED <<procVars, client>> /\ active' \in Session /\ created' \in Session
               /\ active' # active => Up \/ active' = NoSession
               /\ sid' \in [Users -> Session] /\ calls' \in [Users -> 0..MaxCall]
               /\ pc' = [pc EXCEPT ![u] = l]
               /\ mu' = [mu EXCEPT ![client[u]] = m]
               /\ m # mu[client[u]] => mu[client[u]] \in {u, NoUser}
               /\ l \in Holding => m = u
               /\ sessionID' = [sessionID EXCEPT ![client[u]] = s]
               /\ s # sessionID[client[u]] => mu[client[u]] \in {u, NoUser}
               /\ l = "post" => s = NoSession
               /\ s \in {sessionID[client[u]], NoSession} \/ sessionID[client[u]] = NoSession
  BY UserKeeps DEF ClientStep
<1> USE <1>0, <1>1 DEF Where, Holding, Goto, Lock, Unlock, SetSession, Id, Free, c, id,
                       Locked, agentVars, clientVars
<1>2. CASE Call(u)
  <2>1. calls' \in [Users -> 0..MaxCall]
    BY <1>2 DEF Call
  <2> QED BY <1>2, <2>1 DEF Call
<1>3. CASE EnsureCheck(u) \/ CommandCheck(u)
  BY <1>3 DEF EnsureCheck, CommandCheck
<1>4. CASE CommandSend(u)
  BY <1>4 DEF CommandSend
<1>5. CASE CommandAnswer(u)
  BY <1>5 DEF CommandAnswer
<1>6. CASE EnsureLock(u)
  BY <1>6 DEF EnsureLock
<1>7. CASE CreateSession(u)
  <2>1. CASE /\ NewSession /\ SetSession(u, active')
             /\ sid' = [sid EXCEPT ![u] = active'] /\ Goto(u, "settings") /\ UNCHANGED mu
    <3>1. active' \in Session /\ created' \in Session /\ Up
      BY <2>1 DEF NewSession, Session
    <3> QED BY <1>7, <2>1, <3>1 DEF CreateSession
  <2>2. CASE /\ NewSession \/ UNCHANGED agentVars
             /\ Goto(u, "idle") /\ Unlock(u) /\ UNCHANGED <<sessionID, sid>>
    <3>1. active' \in Session /\ created' \in Session /\ (active' # active => Up)
      BY <2>2 DEF NewSession, Session
    <3> QED BY <1>7, <2>2, <3>1 DEF CreateSession
  <2> QED BY <1>7, <2>1, <2>2 DEF CreateSession
<1>8. CASE CreateSettings(u)
  BY <1>8 DEF CreateSettings
<1>9. CASE Forget(u)
  BY <1>9 DEF Forget
<1>10. CASE DeleteLock(u)
  BY <1>10 DEF DeleteLock
<1>11. CASE DeleteAnswer(u)
  <2>1. active' \in Session /\ (active' # active => active' = NoSession)
    BY <1>11 DEF DeleteAnswer
  <2> QED BY <1>11, <2>1 DEF DeleteAnswer
<1> QED BY <1>2, <1>3, <1>4, <1>5, <1>6, <1>7, <1>8, <1>9, <1>10, <1>11 DEF UserStep

LEMMA IosStepInv == IosInv /\ [IosNext]_iosVars => IosInv'
<1> SUFFICES ASSUME IosInv, [IosNext]_iosVars PROVE IosInv'
  OBVIOUS
<1>1. CASE UNCHANGED iosVars
  BY <1>1 DEF iosVars, procVars, agentVars, clientVars, userVars, IosInv, IosTypeOK, Limits,
              Waits, AgentHolds, Locked, Done
<1>2. CASE IosNext
  BY <1>2, WorkerKeeps, UserStepKeeps DEF IosNext
<1> QED BY <1>1, <1>2

LEMMA IosInvariant == IosSpec => []IosInv
  BY IosInitInv, IosStepInv, PTL DEF IosSpec

\* The state of the worker, the agent and its clients has its type; runwda fails
\* at most FailLimit times.
THEOREM IosTypes == IosSpec => []IosTypeOK
<1>1. IosInv => IosTypeOK
  BY DEF IosInv
<1> QED BY <1>1, IosInvariant, PTL

\* When Stop has returned, the tunnel, the agent and the forwards have ended and
\* the agent has no session, whatever was restarted, awaited or polled meanwhile.
THEOREM StopLeavesNothing == IosSpec => []NothingLeftRunning
<1>1. IosInv => NothingLeftRunning
  <2> SUFFICES ASSUME IosInv, stop = "returned"
               PROVE  (\A p \in Proc : proc[p] \in {"off", "done"}) /\ active = NoSession
    BY DEF NothingLeftRunning
  <2>1. \A p \in Proc : p = "tunnel" \/ p \in Dependent
    BY DEF Dependent
  <2>2. \A p \in Proc : proc[p] \in {"off", "done"}
    BY <2>1 DEF IosInv, Waits, Done
  <2> QED BY <2>2 DEF IosInv, AgentHolds, Proc
<1> QED BY <1>1, IosInvariant, PTL

\* EnsureSession never replaces a session its client knows, for any number of
\* goroutines that share the client: it is forgotten first.
THEOREM SessionsNotReplaced == IosSpec => CreationExclusive
<1>1. IosInv /\ [IosNext]_iosVars
        => [\A c \in Clients : sessionID[c] # NoSession =>
              sessionID'[c] \in {sessionID[c], NoSession}]_iosVars
  <2> SUFFICES ASSUME IosInv, IosNext, NEW c \in Clients, sessionID[c] # NoSession
               PROVE  sessionID'[c] \in {sessionID[c], NoSession}
    OBVIOUS
  <2>1. CASE WorkerStep
    BY <2>1, WorkerKeeps DEF clientVars
  <2>2. ASSUME NEW u \in Users, Call(u) \/ UserStep(u)
        PROVE  sessionID'[c] \in {sessionID[c], NoSession}
    <3>1. ClientStep(u)
      BY <2>2, UserStepKeeps
    <3> QED BY <3>1 DEF ClientStep, IosInv, IosTypeOK
  <2> QED BY <2>1, <2>2 DEF IosNext
<1> QED BY <1>1, IosInvariant, PTL DEF IosSpec, CreationExclusive

\* A client's mutex is locked only by a user of that client that is between Lock and
\* Unlock.
MutexInUse ==
  \A c \in Clients : mu[c] # NoUser => pc[mu[c]] \in Holding /\ client[mu[c]] = c

\* No path out of EnsureSession, createSessionLocked or DeleteSession leaves the mutex
\* locked, whichever request fails; what is left is the goroutine that was refused
\* with the mutex held, which is still inside.
THEOREM ClientMutexInUse == IosSpec => []MutexInUse
<1>1. IosInit => MutexInUse
  BY DEF IosInit, MutexInUse
<1>2. IosInv /\ MutexInUse /\ [IosNext]_iosVars => MutexInUse'
  <2> SUFFICES ASSUME IosInv, MutexInUse, [IosNext]_iosVars PROVE MutexInUse'
    OBVIOUS
  <2>1. CASE UNCHANGED iosVars \/ WorkerStep
    <3>1. UNCHANGED <<pc, client, mu>>
      BY <2>1 DEF iosVars, WorkerStep, ProcStart, ProcKilled, ProcExit, TunnelReady,
                  TunnelAbandoned, SubsDone, PollStatus, PollCreate, StopCall, StopReturn,
                  clientVars, userVars
    <3> QED BY <3>1 DEF MutexInUse
  <2>2. ASSUME NEW u \in Users, Call(u) \/ UserStep(u) PROVE MutexInUse'
    <3>1. /\ pc \in [Users -> Where] /\ mu \in [Clients -> Users \cup {NoUser}]
          /\ client[u] \in Clients /\ u # NoUser
          /\ pc[u] \in Holding => mu[client[u]] = u
      BY IosAssumption DEF IosInv, IosTypeOK, Where, Locked
    <3>2. client' = client /\ \E l : pc' = [pc EXCEPT ![u] = l]
      BY <2>2 DEF Goto, Call, UserStep, EnsureCheck, EnsureLock, CreateSession, CreateSettings,
                  CommandCheck, CommandSend, CommandAnswer, Forget, DeleteLock, DeleteAnswer
    <3>3. \/ Unlock(u) /\ mu[client[u]] = u
          \/ Lock(u) /\ pc'[u] \in Holding
          \/ UNCHANGED mu /\ (pc[u] \in Holding => pc'[u] \in Holding)
      <4> USE <3>1 DEF Goto, Holding, Where, clientVars
      <4>1. CASE Call(u) \/ EnsureCheck(u) \/ CommandCheck(u) \/ CommandSend(u)
                 \/ CommandAnswer(u) \/ Forget(u)
        BY <4>1 DEF Call, EnsureCheck, CommandCheck, CommandSend, CommandAnswer, Forget
      <4>2. CASE EnsureLock(u) \/ DeleteLock(u)
        BY <4>2 DEF EnsureLock, DeleteLock
      <4>3. CASE CreateSession(u) \/ CreateSettings(u)
        BY <4>3 DEF CreateSession, CreateSettings
      <4>4. CASE DeleteAnswer(u)
        BY <4>4 DEF DeleteAnswer
      <4> QED BY <2>2, <4>1, <4>2, <4>3, <4>4 DEF UserStep
    <3>4. \A v \in Users : v # u => pc'[v] = pc[v]
      BY <3>1, <3>2
    <3>5. ASSUME NEW c \in Clients, mu'[c] # NoUser PROVE pc'[mu'[c]] \in Holding /\ client'[mu'[c]] = c
      <4>1. CASE mu'[c] = u
        BY <3>1, <3>2, <3>3, <3>5, <4>1 DEF MutexInUse, Lock, Unlock
      <4>2. CASE mu'[c] # u
        BY <3>1, <3>2, <3>3, <3>4, <3>5, <4>2 DEF MutexInUse, Lock, Unlock
      <4> QED BY <4>1, <4>2
    <3> QED BY <3>5 DEF MutexInUse
  <2> QED BY <2>1, <2>2 DEF IosNext
<1> QED BY <1>1, <1>2, IosInvariant, PTL DEF IosSpec

\* A call waits for the mutex of a client whose holder waits for it as well: it
\* was answered 404 with the mutex held, and Request locks it a second time.
Hung(u) ==
  /\ pc[u] \in {"ensure", "lock", "forget", "delete"}
  /\ \E v \in Users : pc[v] = "stuck" /\ client[v] = client[u]

\* Why EnsureReturns fails in every instance: whoever calls EnsureSession or
\* DeleteSession of a client, or has a 404 of it to note, once one of its users
\* was refused with the mutex held, waits for ever; no step of the worker, of the
\* agent or of another user frees that mutex again.
THEOREM HungForEver ==
  ASSUME NEW u \in Users
  PROVE  IosSpec => [](Hung(u) => []Hung(u))
<1>1. ASSUME IosInv, Hung(u), [IosNext]_iosVars PROVE Hung(u)'
  <2>1. PICK v \in Users : pc[v] = "stuck" /\ client[v] = client[u]
    BY <1>1 DEF Hung
  <2>2. mu[client[u]] = v /\ v # NoUser
    BY <1>1, <2>1, IosAssumption DEF IosInv, Locked, Holding
  <2>3. CASE UNCHANGED iosVars \/ WorkerStep
    <3>1. UNCHANGED <<pc, client>>
      BY <2>3 DEF iosVars, WorkerStep, ProcStart, ProcKilled, ProcExit, TunnelReady,
                  TunnelAbandoned, SubsDone, PollStatus, PollCreate, StopCall, StopReturn,
                  clientVars, userVars
    <3> QED BY <1>1, <3>1 DEF Hung
  <2>4. ASSUME NEW w \in Users, Call(w) \/ UserStep(w) PROVE Hung(u)'
    <3>1. client' = client /\ \E l : pc' = [pc EXCEPT ![w] = l]
      BY <2>4 DEF Goto, Call, UserStep, EnsureCheck, EnsureLock, CreateSession, CreateSettings,
                  CommandCheck, CommandSend, CommandAnswer, Forget, DeleteLock, DeleteAnswer
    <3>2. w # v
      BY <2>1, <2>4 DEF Call, UserStep, EnsureCheck, EnsureLock, CreateSession, CreateSettings,
                        CommandCheck, CommandSend, CommandAnswer, Forget, DeleteLock, DeleteAnswer
    <3>3. w # u
      BY <1>1, <2>2, <2>4 DEF Hung, Free, Call, UserStep, EnsureCheck, EnsureLock, CreateSession,
                              CreateSettings, CommandCheck, CommandSend, CommandAnswer, Forget,
                              DeleteLock, DeleteAnswer
    <3>4. pc'[u] = pc[u] /\ pc'[v] = pc[v]
      BY <1>1, <3>1, <3>2, <3>3 DEF IosInv, IosTypeOK
    <3> QED BY <1>1, <2>1, <3>1, <3>4 DEF Hung
  <2> QED BY <1>1, <2>3, <2>4 DEF IosNext
<1> QED BY <1>1, IosInvariant, PTL DEF IosSpec
=============================================================================
