--------------------------- MODULE BookingProofs ---------------------------
(***************************************************************************)
(* What holds of the coordinator's tables for any set of devices, sessions *)
(* and requests: first for the transactions in any order, then for the     *)
(* handlers of Booking, which implement CoordinatorDB.                     *)
(***************************************************************************)
EXTENDS Booking, TLAPS

DBInv == DBTypeOK /\ ClaimedHasActiveSession

\* CloseSession preserves the type of the tables.
LEMMA CloseSessionType ==
  ASSUME DBTypeOK, NEW s \in Serial, CloseSession(s)
  PROVE  DBTypeOK'
BY DEF DBTypeOK, CloseSession, Status, SessionRow

\* Every transaction preserves the type of the tables and ClaimedHasActiveSession.
LEMMA DBNextInv ==
  ASSUME DBInv, DBNext
  PROVE  DBInv'
<1> USE DEF DBInv, DBTypeOK, ClaimedHasActiveSession, Active, Status, SessionRow
<1>1. CASE MarkProviderOffline
  BY <1>1 DEF MarkProviderOffline
<1>2. ASSUME NEW s \in Serial, RegisterDevice(s)
      PROVE  DBInv'
  BY <1>2 DEF RegisterDevice
<1>3. ASSUME NEW s \in Serial, ReleaseDevice(s)
      PROVE  DBInv'
  BY <1>3 DEF ReleaseDevice, SetStatus
<1>4. ASSUME NEW s \in Serial, UpdateDeviceHeartbeat(s)
      PROVE  DBInv'
  BY <1>4 DEF UpdateDeviceHeartbeat
<1>5. ASSUME NEW s \in Serial, CloseSession(s)
      PROVE  DBInv'
  <2>1. DBTypeOK'
    BY <1>5 DEF CloseSession
  <2>2. ASSUME NEW t \in Serial, status'[t] = "claimed"
        PROVE  \E r \in Session : Active(r, t)'
    <3>1. t # s /\ status[t] = "claimed"
      BY <1>5, <2>2 DEF CloseSession
    <3>2. PICK r \in Session : Active(r, t)
      BY <3>1
    <3>3. sessions'[r] = sessions[r]
      BY <1>5, <3>1, <3>2 DEF CloseSession
    <3> QED BY <3>2, <3>3
  <2> QED BY <2>1, <2>2
<1>6. ASSUME NEW s \in Serial, NEW r \in Session, CreateSession(r, s)
      PROVE  DBInv'
  <2>1. DBTypeOK'
    BY <1>6 DEF CreateSession
  <2>2. ASSUME NEW t \in Serial, status'[t] = "claimed"
        PROVE  \E q \in Session : Active(q, t)'
    <3>1. CASE t = s
      BY <1>6, <3>1 DEF CreateSession
    <3>2. CASE t # s
      <4>1. PICK q \in Session : Active(q, t)
        BY <1>6, <2>2, <3>2 DEF CreateSession
      <4>2. q # r
        BY <1>6, <4>1 DEF CreateSession
      <4> QED BY <1>6, <4>1, <4>2 DEF CreateSession
    <3> QED BY <3>1, <3>2
  <2> QED BY <2>1, <2>2
<1>7. ASSUME NEW s \in Serial, NEW p \in Port \cup {NoPort},
             UpdateDeviceStreamPort(s, p)
      PROVE  DBInv'
  BY <1>7 DEF UpdateDeviceStreamPort
<1> QED BY <1>1, <1>2, <1>3, <1>4, <1>5, <1>6, <1>7 DEF DBNext

\* Whatever the order in which the transactions of db.go commit, the tables
\* keep their types and a claimed device has an active session.
THEOREM DBSafety == DBSpec => []DBInv
<1>1. DBInit => DBInv
  BY DEF DBInit, DBInv, DBTypeOK, ClaimedHasActiveSession, Status, SessionRow
<1>2. DBInv /\ [DBNext]_dbVars => DBInv'
  <2>1. ASSUME DBInv, UNCHANGED dbVars PROVE DBInv'
    BY <2>1 DEF DBInv, DBTypeOK, ClaimedHasActiveSession, Active, dbVars
  <2> QED BY <2>1, DBNextInv
<1> QED BY <1>1, <1>2, PTL DEF DBSpec

-----------------------------------------------------------------------------
\* A request that has got past its first step is about a device.
TargetSet ==
  /\ \A r \in Session : /\ claim[r] \notin {"new", "failed"} => target[r] \in Serial
                        /\ claimRPC[r] # "none" => target[r] \in Serial
  /\ \A q \in Release : release[q] # "new" => target[q] \in Serial

BookingInv == BookingTypeOK /\ TargetSet

\* The steps of the handlers preserve BookingInv, one lemma per group of
\* actions; each step of theirs on the tables is a step of CoordinatorDB.
LEMMA ClaimStepInv ==
  ASSUME BookingInv, UNCHANGED faulty, NEW r \in Session,
         ClaimStep(r) \/ ClaimTold(r) \/ \E s \in Serial : ClaimCreate(r, s) \/ ClaimConflict(r, s)
  PROVE  BookingInv' /\ [DBNext]_dbVars
<1> USE DEF BookingInv, BookingTypeOK, TargetSet, DBTypeOK, Status, SessionRow,
            Release, ClaimGoto, providerVars, dbVars
<1>1. ASSUME NEW s \in Serial, ClaimCreate(r, s)
      PROVE  BookingInv' /\ DBNext
  <2>1. DBTypeOK'
    BY <1>1 DEF ClaimCreate, CreateSession
  <2>2. BookingTypeOK'
    BY <1>1, <2>1 DEF ClaimCreate
  <2>3. TargetSet'
    BY <1>1 DEF ClaimCreate
  <2>4. DBNext
    BY <1>1 DEF ClaimCreate, DBNext
  <2> QED BY <2>2, <2>3, <2>4
<1>2. ASSUME NEW s \in Serial, ClaimConflict(r, s)
      PROVE  BookingInv' /\ UNCHANGED dbVars
  BY <1>2 DEF ClaimConflict
<1>3. ASSUME ClaimAnswered(r)
      PROVE  BookingInv' /\ UNCHANGED dbVars
  BY <1>3 DEF ClaimAnswered
<1>4. ASSUME ClaimTimeout(r) \/ ClaimTold(r)
      PROVE  BookingInv' /\ UNCHANGED dbVars
  BY <1>4 DEF ClaimTimeout, ClaimTold
<1>5. ASSUME ClaimRollback(r)
      PROVE  BookingInv' /\ DBNext
  <2>1. target[r] \in Serial
    BY <1>5 DEF ClaimRollback
  <2>2. DBTypeOK'
    BY <1>5, <2>1, CloseSessionType DEF ClaimRollback
  <2>3. BookingInv'
    BY <1>5, <2>2 DEF ClaimRollback
  <2>4. DBNext
    BY <1>5, <2>1 DEF ClaimRollback, DBNext
  <2> QED BY <2>3, <2>4
<1>6. ASSUME ClaimStore(r)
      PROVE  BookingInv' /\ DBNext
  <2>1. target[r] \in Serial /\ replyPort[r] \in Port \cup {NoPort}
    BY <1>6 DEF ClaimStore
  <2>2. DBTypeOK'
    BY <1>6, <2>1 DEF ClaimStore, UpdateDeviceStreamPort
  <2>3. BookingInv'
    BY <1>6, <2>2 DEF ClaimStore
  <2>4. DBNext
    BY <1>6, <2>1 DEF ClaimStore, DBNext
  <2> QED BY <2>3, <2>4
<1> QED BY <1>1, <1>2, <1>3, <1>4, <1>5, <1>6 DEF ClaimStep

LEMMA ReleaseStepInv ==
  ASSUME BookingInv, UNCHANGED faulty, NEW q \in Release,
         ReleaseStep(q) \/ ReleaseTold(q) \/ \E s \in Serial : ReleaseBegin(q, s)
  PROVE  BookingInv' /\ [DBNext]_dbVars
<1> USE DEF BookingInv, BookingTypeOK, TargetSet, DBTypeOK, Status, SessionRow,
            Release, ReleaseGoto, providerVars, dbVars
<1>1. ASSUME NEW s \in Serial, ReleaseBegin(q, s)
      PROVE  BookingInv' /\ UNCHANGED dbVars
  BY <1>1 DEF ReleaseBegin
<1>2. ASSUME ReleaseClose(q)
      PROVE  BookingInv' /\ DBNext
  <2>1. target[q] \in Serial
    BY <1>2 DEF ReleaseClose
  <2>2. DBTypeOK'
    <3> HIDE DEF DBTypeOK
    <3> QED BY <1>2, <2>1, CloseSessionType DEF ReleaseClose
  <2>3. /\ release' \in [Release -> {"new", "close", "closeOnly", "calling", "telling", "returned"}]
        /\ releaseRPC' \in [Release -> {"none", "sent", "done"}]
        /\ \A x \in Release : x # q => release'[x] = release[x]
        /\ UNCHANGED <<claim, target, claimRPC, replyPort, device, notify, listed>>
    BY <1>2 DEF ReleaseClose
  <2>4. BookingInv'
    <3> HIDE DEF DBTypeOK
    <3> QED BY <2>1, <2>2, <2>3
  <2>5. DBNext
    BY <1>2, <2>1 DEF ReleaseClose, DBNext
  <2> QED BY <2>4, <2>5
<1>3. ASSUME ReleaseReturn(q) \/ ReleaseTold(q)
      PROVE  BookingInv' /\ UNCHANGED dbVars
  BY <1>3 DEF ReleaseReturn, ReleaseTold
<1> QED BY <1>1, <1>2, <1>3 DEF ReleaseStep

LEMMA ProviderStepInv ==
  ASSUME BookingInv, UNCHANGED faulty, ProviderStep
  PROVE  BookingInv' /\ UNCHANGED dbVars
<1> USE DEF BookingInv, BookingTypeOK, TargetSet, DBTypeOK, Status, SessionRow,
            Release, providerVars, dbVars
<1>1. ASSUME NEW r \in Session, ProviderClaim(r)
      PROVE  BookingInv' /\ UNCHANGED dbVars
  BY <1>1 DEF ProviderClaim
<1>2. ASSUME NEW r \in Session, ProviderReject(r)
      PROVE  BookingInv' /\ UNCHANGED dbVars
  BY <1>2 DEF ProviderReject
<1>3. ASSUME NEW r \in Session, ProviderAnswer(r)
      PROVE  BookingInv' /\ UNCHANGED dbVars
  BY <1>3 DEF ProviderAnswer
<1>4. ASSUME NEW q \in Release, ProviderRelease(q)
      PROVE  BookingInv' /\ UNCHANGED dbVars
  BY <1>4 DEF ProviderRelease
<1> QED BY <1>1, <1>2, <1>3, <1>4 DEF ProviderStep

\* Devices come and go, notifications and pings arrive.
PresenceStep ==
  \/ \E s \in Serial : \/ PlugIn(s) \/ Unplug(s)
                       \/ NotifyRegister(s) \/ NotifyRelease(s) \/ Ping(s)
  \/ NotifyLost \/ HeartbeatLost

LEMMA PresenceStepInv ==
  ASSUME BookingInv, UNCHANGED faulty, PresenceStep
  PROVE  BookingInv' /\ [DBNext]_dbVars
<1> USE DEF BookingInv, BookingTypeOK, TargetSet, DBTypeOK, Status, SessionRow,
            Release, handlerVars, providerVars, dbVars
<1>1. ASSUME NEW s \in Serial, PlugIn(s) \/ Unplug(s)
      PROVE  BookingInv' /\ UNCHANGED dbVars
  BY <1>1 DEF PlugIn, Unplug
<1>2. ASSUME NEW s \in Serial, NotifyRegister(s)
      PROVE  BookingInv' /\ DBNext
  <2>1. BookingInv'
    BY <1>2 DEF NotifyRegister, RegisterDevice
  <2> QED BY <1>2, <2>1 DEF NotifyRegister, DBNext
<1>3. ASSUME NEW s \in Serial, NotifyRelease(s)
      PROVE  BookingInv' /\ DBNext
  <2>1. BookingInv'
    BY <1>3 DEF NotifyRelease, ReleaseDevice, SetStatus
  <2> QED BY <1>3, <2>1 DEF NotifyRelease, DBNext
<1>4. ASSUME NEW s \in Serial, Ping(s)
      PROVE  BookingInv' /\ DBNext
  <2>1. BookingInv'
    BY <1>4 DEF Ping, UpdateDeviceHeartbeat
  <2> QED BY <1>4, <2>1 DEF Ping, DBNext
<1>5. ASSUME NotifyLost
      PROVE  BookingInv' /\ UNCHANGED dbVars
  BY <1>5 DEF NotifyLost
<1>6. ASSUME HeartbeatLost
      PROVE  BookingInv' /\ DBNext
  <2>1. BookingInv'
    BY <1>6 DEF HeartbeatLost, MarkProviderOffline
  <2> QED BY <1>6, <2>1 DEF HeartbeatLost, DBNext
<1> QED BY <1>1, <1>2, <1>3, <1>4, <1>5, <1>6 DEF PresenceStep

LEMMA BookingNextInv ==
  ASSUME BookingInv, BookingNext
  PROVE  BookingInv' /\ [DBNext]_dbVars
<1>0. UNCHANGED faulty
  BY DEF BookingNext
<1>1. \/ \E r \in Session :
            ClaimStep(r) \/ ClaimTold(r) \/ \E s \in Serial : ClaimCreate(r, s) \/ ClaimConflict(r, s)
      \/ \E q \in Release : ReleaseStep(q) \/ ReleaseTold(q) \/ \E s \in Serial : ReleaseBegin(q, s)
      \/ ProviderStep
      \/ PresenceStep
  BY Zenon DEF BookingNext, PresenceStep
<1> QED BY <1>0, <1>1, ClaimStepInv, ReleaseStepInv, ProviderStepInv, PresenceStepInv

\* The types of the handlers', the tables' and the provider's state.
THEOREM BookingTypes == BookingSpec => []BookingInv
<1>1. BookingInit => BookingInv
  BY BookingAssumption
  DEF BookingInit, DBInit, BookingInv, BookingTypeOK, TargetSet, DBTypeOK,
      Status, SessionRow, Release
<1>2. ASSUME BookingInv, UNCHANGED bookingVars PROVE BookingInv'
  BY <1>2 DEF BookingInv, BookingTypeOK, TargetSet, DBTypeOK, bookingVars,
              dbVars, handlerVars, providerVars
<1>3. BookingInv /\ [BookingNext]_bookingVars => BookingInv'
  BY <1>2, BookingNextInv
<1> QED BY <1>1, <1>3, PTL DEF BookingSpec

\* The handlers use the tables only through the transactions of db.go:
\* Booking implements CoordinatorDB.
LEMMA BookingImplementsDB == BookingSpec => DBSpec
<1>1. BookingInit => DBInit
  BY DEF BookingInit
<1>2. BookingInv /\ [BookingNext]_bookingVars => [DBNext]_dbVars
  <2>1. ASSUME UNCHANGED bookingVars PROVE UNCHANGED dbVars
    BY <2>1 DEF bookingVars
  <2> QED BY <2>1, BookingNextInv
<1> QED BY <1>1, <1>2, BookingTypes, PTL DEF BookingSpec, DBSpec

\* Under every interleaving of claims, releases, timeouts, lost heartbeats and
\* replugs, a device shown as claimed has an active session.
THEOREM BookingClaimed == BookingSpec => []ClaimedHasActiveSession
<1>1. DBInv => ClaimedHasActiveSession
  BY DEF DBInv
<1> QED BY <1>1, BookingImplementsDB, DBSafety, PTL

-----------------------------------------------------------------------------
(***************************************************************************)
(* A granted claim is backed, as long as nothing fails.                    *)
(***************************************************************************)

\* The request r has its device: from CreateSession to the CloseSession of its
\* own roll-back or release.
Live(r) ==
  \/ claim[r] \in {"calling", "rollback", "store", "telling"}
  \/ claim[r] = "held" /\ release[r] \in {"new", "close"}

\* Somebody without a session has released s.
Tainted(s) == \E x \in Releaser : target[x] = s

\* The calls to the provider keep step with the handler that makes them: none
\* outlives it.
InStep(r) ==
  /\ claim[r] = "new" => claimRPC[r] = "none" /\ target[r] = NoSerial
  /\ claimRPC[r] \in {"sent", "claimed"} => claim[r] = "calling"
  /\ claim[r] \in {"store", "telling", "held"} => claimRPC[r] = "ok"
  /\ release[r] # "new" => claim[r] = "held"
  /\ releaseRPC[r] = "sent" => release[r] = "calling"

\* No device goes offline.
Healthy ==
  /\ \A s \in Serial : status[s] # "offline"
  /\ \A s \in Serial : <<"release", s>> \notin notify

\* The request that has s owns it in the tables; the provider holds s for it from
\* its claim until it has executed the release.
Owns(r, s) ==
  /\ Live(r) => status[s] = "claimed" /\ Active(r, s)
  /\ Live(r) /\ claim[r] # "rollback" /\ claimRPC[r] \in {"claimed", "ok"} => device[s] = r
  /\ Live(r) /\ claim[r] # "rollback" /\ claimRPC[r] = "ok" => replyPort[r] \in Port
  /\ Live(r) /\ claim[r] \in {"telling", "held"} => streamPort[s] \in Port
  /\ releaseRPC[r] = "sent" => device[s] = r
  /\ release[r] # "closeOnly"
Orderly(s) ==
  /\ \A r \in Session : target[r] = s => Owns(r, s)
  /\ \A r \in Session : Active(r, s) => target[r] = s /\ Live(r)
  /\ \A q, r \in Session : Active(q, s) /\ Active(r, s) => q = r

BackedInv ==
  ~faulty => /\ Healthy
             /\ \A r \in Session : InStep(r)
             /\ \A x \in Releaser :
                  release[x] = "new" => target[x] = NoSerial /\ releaseRPC[x] = "none"
             /\ \A s \in Serial : ~Tainted(s) => Orderly(s)

\* A step of request q, which is about device s: it leaves alone what belongs to
\* other requests and other devices.
StepOf(q, s) ==
  /\ target'[q] = s /\ target[q] \in {s, NoSerial}
  /\ \A r \in Release \ {q} : /\ target'[r] = target[r] /\ release'[r] = release[r]
                              /\ releaseRPC'[r] = releaseRPC[r]
  /\ \A r \in Session \ {q} : /\ claim'[r] = claim[r] /\ claimRPC'[r] = claimRPC[r]
                              /\ replyPort'[r] = replyPort[r]
  /\ \A t \in Serial \ {s} : /\ status'[t] = status[t] /\ streamPort'[t] = streamPort[t]
                             /\ device'[t] = device[t]
                             /\ \A r \in Session : Active(r, t)' <=> Active(r, t)

\* Who is tainted stays so.
LEMMA TaintStays ==
  ASSUME BookingInv, BackedInv, ~faulty, NEW q \in Release, NEW s, StepOf(q, s),
         NEW t \in Serial, Tainted(t)
  PROVE  Tainted(t)'
<1>1. PICK x \in Releaser : target[x] = t
  BY DEF Tainted
<1>2. t # NoSerial /\ x \in Release
  BY DBAssumption DEF Release
<1>3. target'[x] = t
  BY <1>1, <1>2 DEF StepOf
<1> QED BY <1>3 DEF Tainted

\* Such a step has only to be right about its own device.
LEMMA StepBacked ==
  ASSUME BookingInv, BackedInv, ~faulty, UNCHANGED faulty,
         NEW q \in Release, NEW s \in Serial \cup {NoSerial}, StepOf(q, s),
         Healthy', q \in Session => InStep(q)', q \in Releaser => release'[q] # "new",
         s \in Serial /\ ~Tainted(s)' => Orderly(s)'
  PROVE  BackedInv'
<1>1. \A r \in Session : InStep(r)'
  <2> SUFFICES ASSUME NEW r \in Session, r # q PROVE InStep(r)'
    OBVIOUS
  <2>1. InStep(r) /\ r \in Release
    BY DEF BackedInv, Release
  <2> QED BY <2>1 DEF InStep, StepOf
<1>2. \A x \in Releaser :
        release'[x] = "new" => target'[x] = NoSerial /\ releaseRPC'[x] = "none"
  BY DEF BackedInv, StepOf, Release
<1>3. ASSUME NEW t \in Serial, ~Tainted(t)' PROVE Orderly(t)'
  <2>1. CASE t = s
    BY <1>3, <2>1
  <2>2. CASE t # s
    <3>1. Orderly(t)
      BY <1>3, TaintStays DEF BackedInv
    <3>2. target'[q] # t /\ target[q] # t
      BY <2>2, DBAssumption DEF StepOf
    <3>3. \A r \in Session : Active(r, t)' <=> Active(r, t)
      BY <2>2 DEF StepOf
    <3>4. ASSUME NEW r \in Session, r # q
          PROVE  /\ target'[r] = target[r] /\ (Live(r)' <=> Live(r))
                 /\ target[r] = t /\ Owns(r, t) => Owns(r, t)'
      <4>1. r \in Release
        BY DEF Release
      <4>2. /\ target'[r] = target[r] /\ release'[r] = release[r]
            /\ releaseRPC'[r] = releaseRPC[r] /\ claim'[r] = claim[r]
            /\ claimRPC'[r] = claimRPC[r] /\ replyPort'[r] = replyPort[r]
            /\ status'[t] = status[t] /\ streamPort'[t] = streamPort[t]
            /\ device'[t] = device[t]
        BY <2>2, <3>4, <4>1 DEF StepOf
      <4>3. Live(r)' <=> Live(r)
        BY <4>2 DEF Live
      <4> QED BY <3>3, <4>2, <4>3 DEF Owns
    <3> QED BY <3>1, <3>2, <3>3, <3>4 DEF Orderly
  <2> QED BY <2>1, <2>2
<1> QED BY <1>1, <1>2, <1>3 DEF BackedInv

\* What is known of the device of a session that makes a step.
LEMMA StepOrderly ==
  ASSUME BookingInv, BackedInv, ~faulty, NEW q \in Session, NEW s \in Serial, StepOf(q, s),
         ~Tainted(s)'
  PROVE  Orderly(s)
<1>1. q \in Release
  BY DEF Release
<1> QED BY <1>1, TaintStays DEF BackedInv

\* The device of q after a step of q: what is left to see is q itself.
LEMMA OwnOrderly ==
  ASSUME NEW q \in Session, NEW s \in Serial, StepOf(q, s), Orderly(s),
         Owns(q, s)',
         \A r \in Session \ {q} : target[r] = s /\ Owns(r, s) => Owns(r, s)',
         \A r \in Session : Active(r, s)' => r = q /\ Live(q)'
  PROVE  Orderly(s)'
<1>1. \A r \in Session \ {q} : r \in Release /\ target'[r] = target[r]
  BY DEF StepOf, Release
<1>2. target'[q] = s
  BY DEF StepOf
<1> QED BY <1>1, <1>2 DEF Orderly

\* The claim handler.
LEMMA ClaimCreateBacked ==
  ASSUME BookingInv, BackedInv, ~faulty, UNCHANGED faulty,
         NEW q \in Session, NEW s \in Serial, ClaimCreate(q, s)
  PROVE  BackedInv'
<1>1. q \in Release /\ InStep(q) /\ claim[q] = "new" /\ sessions[q].status = "none"
  BY DEF BackedInv, Release, ClaimCreate, CreateSession
<1>2. /\ status'[s] = "claimed" /\ status[s] \notin {"none", "claimed"}
      /\ \A t \in Serial \ {s} : status'[t] = status[t]
      /\ sessions'[q] = [serial |-> s, status |-> "active"]
      /\ \A r \in Session \ {q} : sessions'[r] = sessions[r]
      /\ UNCHANGED <<streamPort, replyPort, release, releaseRPC, device, notify>>
  BY DEF ClaimCreate, CreateSession, BookingInv, BookingTypeOK, DBTypeOK, providerVars
<1>3. /\ claim'[q] = "calling" /\ claimRPC'[q] = "sent" /\ target'[q] = s
      /\ \A r \in Session \ {q} : claim'[r] = claim[r] /\ claimRPC'[r] = claimRPC[r]
      /\ \A r \in Release \ {q} : target'[r] = target[r]
  BY <1>1 DEF ClaimCreate, ClaimGoto, BookingInv, BookingTypeOK
<1>4. \A r \in Session, t \in Serial \ {s} : Active(r, t)' <=> Active(r, t)
  BY <1>1, <1>2 DEF Active
<1>5. StepOf(q, s)
  BY <1>1, <1>2, <1>3, <1>4 DEF StepOf, InStep
<1>6. Healthy'
  BY <1>2 DEF Healthy, BackedInv
<1>7. InStep(q)'
  BY <1>1, <1>2, <1>3 DEF InStep
<1>8. ASSUME ~Tainted(s)' PROVE Orderly(s)'
  <2>1. Orderly(s)
    BY <1>5, <1>8, StepOrderly
  <2>2. \A r \in Session : ~Active(r, s)
    BY <1>2, <2>1 DEF Orderly, Owns
  <2>3. \A r \in Session : Active(r, s)' <=> r = q
    BY <1>2, <2>2 DEF Active
  <2>4. Live(q)' /\ Owns(q, s)'
    BY <1>1, <1>2, <1>3, <2>3 DEF Live, Owns, InStep
  <2>5. ASSUME NEW r \in Session \ {q}, target[r] = s, Owns(r, s) PROVE Owns(r, s)'
    <3>1. ~Live(r)
      BY <2>2, <2>5 DEF Owns
    <3>2. ~Live(r)'
      BY <1>2, <1>3, <3>1 DEF Live
    <3> QED BY <1>2, <2>5, <3>2 DEF Owns
  <2> QED BY <1>5, <2>1, <2>3, <2>4, <2>5, OwnOrderly
<1> QED BY <1>1, <1>5, <1>6, <1>7, <1>8, StepBacked, BookingAssumption

\* A claim that was refused with 409 never had a device.
LEMMA ClaimConflictBacked ==
  ASSUME BookingInv, BackedInv, ~faulty, UNCHANGED faulty,
         NEW q \in Session, NEW s \in Serial, ClaimConflict(q, s)
  PROVE  BackedInv'
<1>1. q \in Release /\ InStep(q) /\ claim[q] = "new" /\ target[q] = NoSerial
  BY DEF BackedInv, Release, ClaimConflict, InStep
<1>2. UNCHANGED <<dbVars, target, claimRPC, replyPort, release, releaseRPC, providerVars>>
  BY DEF ClaimConflict
<1>3. claim'[q] = "failed" /\ \A r \in Session \ {q} : claim'[r] = claim[r]
  BY DEF ClaimConflict, ClaimGoto, BookingInv, BookingTypeOK
<1>4. StepOf(q, NoSerial)
  BY <1>1, <1>2, <1>3 DEF StepOf, Active, dbVars, providerVars
<1>5. Healthy'
  BY <1>2 DEF Healthy, BackedInv, dbVars, providerVars
<1>6. InStep(q)'
  BY <1>1, <1>2, <1>3 DEF InStep
<1> QED BY <1>1, <1>4, <1>5, <1>6, StepBacked, BookingAssumption, DBAssumption

\* The response of the provider, or the end of the broadcast: the handler goes on
\* with its device.
LEMMA ClaimGoesOnBacked ==
  ASSUME BookingInv, BackedInv, ~faulty, UNCHANGED faulty,
         NEW q \in Session, ClaimAnswered(q) \/ ClaimTold(q)
  PROVE  BackedInv'
<1>0. PICK s \in Serial : target[q] = s
  BY DEF ClaimAnswered, ClaimTold, BookingInv, TargetSet
<1>1. q \in Release /\ InStep(q) /\ claim[q] \in {"calling", "telling"}
  BY DEF BackedInv, Release, ClaimAnswered, ClaimTold
<1>2. UNCHANGED <<dbVars, target, claimRPC, replyPort, release, releaseRPC, providerVars>>
  BY DEF ClaimAnswered, ClaimTold
<1>3. /\ \/ claim[q] = "calling" /\ claimRPC[q] = "ok" /\ claim'[q] = "store"
         \/ claim[q] = "calling" /\ claimRPC[q] = "rejected" /\ claim'[q] = "rollback"
         \/ claim[q] = "telling" /\ claim'[q] = "held"
      /\ \A r \in Session \ {q} : claim'[r] = claim[r]
  BY DEF ClaimAnswered, ClaimTold, ClaimGoto, BookingInv, BookingTypeOK
<1>4. StepOf(q, s)
  BY <1>0, <1>1, <1>2, <1>3 DEF StepOf, Active, dbVars, providerVars
<1>5. Healthy'
  BY <1>2 DEF Healthy, BackedInv, dbVars, providerVars
<1>6. InStep(q)'
  BY <1>1, <1>2, <1>3 DEF InStep
<1>7. ASSUME ~Tainted(s)' PROVE Orderly(s)'
  <2>1. Orderly(s) /\ target[q] = s
    BY <1>0, <1>1, <1>4, <1>7, StepOrderly
  <2>2. Live(q) /\ Live(q)' /\ Owns(q, s)
    BY <1>1, <1>2, <1>3, <2>1 DEF Live, Orderly, InStep
  <2>3. \A r \in Session : Active(r, s)' <=> Active(r, s)
    BY <1>2 DEF Active, dbVars
  <2>4. Owns(q, s)'
    BY <1>1, <1>2, <1>3, <2>2, <2>3 DEF Owns, dbVars, providerVars
  <2>5. \A r \in Session : Active(r, s)' => r = q
    BY <2>1, <2>2, <2>3 DEF Orderly, Owns
  <2>6. ASSUME NEW r \in Session \ {q}, target[r] = s, Owns(r, s) PROVE Owns(r, s)'
    BY <1>2, <1>3, <2>3, <2>6 DEF Owns, Live, dbVars, providerVars
  <2> QED BY <1>1, <1>4, <2>1, <2>2, <2>4, <2>5, <2>6, OwnOrderly
<1> QED BY <1>1, <1>4, <1>5, <1>6, <1>7, StepBacked, BookingAssumption

\* CloseSession on an orderly device takes the session of its owner, and no other.
LEMMA CloseOrderly ==
  ASSUME BookingInv, BackedInv, ~faulty, NEW s \in Serial, CloseSession(s)
  PROVE  /\ \A r \in Session : ~Active(r, s)'
         /\ \A r \in Session, t \in Serial \ {s} : Active(r, t)' <=> Active(r, t)
         /\ \A t \in Serial \ {s} : status'[t] = status[t] /\ streamPort'[t] = streamPort[t]
         /\ \A t \in Serial : status'[t] # "offline"
<1>1. ASSUME NEW r \in Session
      PROVE  sessions'[r] = IF Active(r, s) THEN [sessions[r] EXCEPT !.status = "released"]
                            ELSE sessions[r]
  BY DEF CloseSession, Active
<1>2. ASSUME NEW r \in Session
      PROVE  sessions[r] \in SessionRow
  BY DEF BookingInv, BookingTypeOK, DBTypeOK
<1>3. ASSUME NEW r \in Session, Active(r, s)
      PROVE  sessions'[r].serial = s /\ sessions'[r].status = "released"
  BY <1>1, <1>2, <1>3 DEF SessionRow, Active
<1>4. \A r \in Session : ~Active(r, s) => sessions'[r] = sessions[r]
  BY <1>1
<1>5. /\ \A r \in Session : ~Active(r, s)'
      /\ \A r \in Session, t \in Serial \ {s} : Active(r, t)' <=> Active(r, t)
  BY <1>3, <1>4 DEF Active
<1>6. \A t \in Serial \ {s} : status'[t] = status[t] /\ streamPort'[t] = streamPort[t]
  BY DEF CloseSession, BookingInv, BookingTypeOK, DBTypeOK
<1>7. \A t \in Serial : status'[t] # "offline"
  BY <1>6 DEF CloseSession, BookingInv, BookingTypeOK, DBTypeOK, BackedInv, Healthy
<1> QED BY <1>5, <1>6, <1>7

\* Once its owner has closed the session a device has none.
LEMMA ClosedOrderly ==
  ASSUME NEW q \in Session, NEW s \in Serial, StepOf(q, s), Orderly(s), target[q] = s,
         Live(q), ~Live(q)', device' = device, releaseRPC'[q] = "sent" => device[s] = q,
         release'[q] # "closeOnly",
         \A r \in Session : ~Active(r, s)'
  PROVE  Orderly(s)'
<1>1. Owns(q, s)'
  BY DEF Owns
<1>2. ASSUME NEW r \in Session \ {q}, target[r] = s, Owns(r, s) PROVE Owns(r, s)'
  <2>1. ~Live(r)
    BY <1>2 DEF Orderly, Owns
  <2>2. r \in Release
    BY DEF Release
  <2>3. ~Live(r)' /\ releaseRPC'[r] = releaseRPC[r] /\ release'[r] = release[r]
    BY <2>1, <2>2 DEF StepOf, Live
  <2> QED BY <1>2, <2>3 DEF Owns
<1> QED BY <1>1, <1>2, OwnOrderly

LEMMA ClaimRollbackBacked ==
  ASSUME BookingInv, BackedInv, ~faulty, UNCHANGED faulty,
         NEW q \in Session, ClaimRollback(q)
  PROVE  BackedInv'
<1>0. PICK s \in Serial : target[q] = s
  BY DEF ClaimRollback, BookingInv, TargetSet
<1>1. q \in Release /\ InStep(q) /\ claim[q] = "rollback"
  BY DEF BackedInv, Release, ClaimRollback
<1>2. /\ UNCHANGED <<target, claimRPC, replyPort, release, releaseRPC, providerVars>>
      /\ CloseSession(s)
  BY <1>0 DEF ClaimRollback
<1>3. claim'[q] = "failed" /\ \A r \in Session \ {q} : claim'[r] = claim[r]
  BY DEF ClaimRollback, ClaimGoto, BookingInv, BookingTypeOK
<1>4. /\ \A r \in Session : ~Active(r, s)'
      /\ \A r \in Session, t \in Serial \ {s} : Active(r, t)' <=> Active(r, t)
      /\ \A t \in Serial \ {s} : status'[t] = status[t] /\ streamPort'[t] = streamPort[t]
      /\ \A t \in Serial : status'[t] # "offline"
  BY <1>1, <1>2, CloseOrderly
<1>5. StepOf(q, s)
  BY <1>0, <1>1, <1>2, <1>3, <1>4 DEF StepOf, providerVars
<1>6. Healthy'
  BY <1>2, <1>4 DEF Healthy, BackedInv, providerVars
<1>7. InStep(q)'
  BY <1>1, <1>2, <1>3 DEF InStep
<1>8. ASSUME ~Tainted(s)' PROVE Orderly(s)'
  <2>1. Orderly(s) /\ target[q] = s
    BY <1>0, <1>1, <1>5, <1>8, StepOrderly
  <2>2. Live(q) /\ ~Live(q)' /\ releaseRPC'[q] # "sent" /\ release'[q] # "closeOnly"
    BY <1>1, <1>2, <1>3 DEF Live, InStep
  <2> QED BY <1>1, <1>2, <1>4, <1>5, <2>1, <2>2, ClosedOrderly DEF providerVars
<1> QED BY <1>1, <1>5, <1>6, <1>7, <1>8, StepBacked, BookingAssumption

LEMMA ClaimStoreBacked ==
  ASSUME BookingInv, BackedInv, ~faulty, UNCHANGED faulty,
         NEW q \in Session, ClaimStore(q)
  PROVE  BackedInv'
<1>0. PICK s \in Serial : target[q] = s
  BY DEF ClaimStore, BookingInv, TargetSet
<1>1. q \in Release /\ InStep(q) /\ claim[q] = "store"
  BY DEF BackedInv, Release, ClaimStore
<1>2. UNCHANGED <<status, sessions, target, claimRPC, replyPort, release, releaseRPC, providerVars>>
  BY DEF ClaimStore, UpdateDeviceStreamPort
<1>3. /\ claim'[q] = "telling" /\ \A r \in Session \ {q} : claim'[r] = claim[r]
      /\ streamPort'[s] = replyPort[q]
      /\ \A t \in Serial \ {s} : streamPort'[t] = streamPort[t]
  BY <1>0 DEF ClaimStore, UpdateDeviceStreamPort, ClaimGoto, BookingInv, BookingTypeOK,
              DBTypeOK
<1>4. StepOf(q, s)
  BY <1>0, <1>1, <1>2, <1>3 DEF StepOf, Active, providerVars
<1>5. Healthy'
  BY <1>2 DEF Healthy, BackedInv, providerVars
<1>6. InStep(q)'
  BY <1>1, <1>2, <1>3 DEF InStep
<1>7. ASSUME ~Tainted(s)' PROVE Orderly(s)'
  <2>1. Orderly(s) /\ target[q] = s
    BY <1>0, <1>1, <1>4, <1>7, StepOrderly
  <2>2. Live(q) /\ Live(q)' /\ Owns(q, s)
    BY <1>1, <1>2, <1>3, <2>1 DEF Live, Orderly, InStep
  <2>3. \A r \in Session : Active(r, s)' <=> Active(r, s)
    BY <1>2 DEF Active
  <2>4. Owns(q, s)'
    BY <1>1, <1>2, <1>3, <2>2, <2>3 DEF Owns, InStep, providerVars
  <2>5. \A r \in Session : Active(r, s)' => r = q
    BY <2>1, <2>2, <2>3 DEF Orderly, Owns
  <2>6. ASSUME NEW r \in Session \ {q}, target[r] = s, Owns(r, s) PROVE Owns(r, s)'
    <3>1. ~Live(r)
      BY <2>1, <2>2, <2>6 DEF Owns, Orderly
    <3> QED BY <1>2, <1>3, <2>6, <3>1 DEF Owns, Live, providerVars
  <2> QED BY <1>1, <1>4, <2>1, <2>2, <2>4, <2>5, <2>6, OwnOrderly
<1> QED BY <1>1, <1>4, <1>5, <1>6, <1>7, StepBacked, BookingAssumption

\* The release handler.  A user without a session taints the device.
LEMMA ReleaseBeginBacked ==
  ASSUME BookingInv, BackedInv, ~faulty, UNCHANGED faulty,
         NEW q \in Release, NEW s \in Serial, ReleaseBegin(q, s)
  PROVE  BackedInv'
<1>1. /\ UNCHANGED <<dbVars, claim, claimRPC, replyPort, releaseRPC, providerVars>>
      /\ target'[q] = s /\ release[q] = "new"
      /\ release'[q] = IF status[s] = "none" THEN "closeOnly" ELSE "close"
      /\ \A r \in Release \ {q} : target'[r] = target[r] /\ release'[r] = release[r]
  BY DEF ReleaseBegin, ReleaseGoto, BookingInv, BookingTypeOK
<1>2. target[q] \in {s, NoSerial}
  BY DEF ReleaseBegin, BackedInv, Release
<1>3. StepOf(q, s)
  BY <1>1, <1>2 DEF StepOf, Active, dbVars, providerVars
<1>4. Healthy'
  BY <1>1 DEF Healthy, BackedInv, dbVars, providerVars
<1>5. CASE q \in Releaser
  <2>1. Tainted(s)' /\ q \notin Session
    BY <1>1, <1>5, BookingAssumption DEF Tainted
  <2> QED BY <1>1, <1>3, <1>4, <2>1, StepBacked
<1>6. CASE q \in Session
  <2>1. InStep(q) /\ claim[q] = "held" /\ target[q] = s /\ q \notin Releaser
    BY <1>6, BookingAssumption DEF BackedInv, ReleaseBegin
  <2>2. InStep(q)'
    BY <1>1, <2>1 DEF InStep
  <2>3. ASSUME ~Tainted(s)' PROVE Orderly(s)'
    <3>1. Orderly(s)
      BY <1>3, <1>6, <2>3, StepOrderly
    <3>2. Live(q) /\ Owns(q, s)
      BY <1>1, <1>6, <2>1, <3>1 DEF Live, Orderly
    <3>3. release'[q] = "close" /\ Live(q)'
      BY <1>1, <2>1, <3>2 DEF Owns, Live
    <3>4. \A r \in Session : Active(r, s)' <=> Active(r, s)
      BY <1>1 DEF Active, dbVars
    <3>5. Owns(q, s)'
      BY <1>1, <1>6, <2>1, <3>2, <3>3, <3>4 DEF Owns, dbVars, providerVars
    <3>6. \A r \in Session : Active(r, s)' => r = q
      BY <1>6, <3>1, <3>2, <3>4 DEF Orderly, Owns
    <3>7. ASSUME NEW r \in Session \ {q}, target[r] = s, Owns(r, s) PROVE Owns(r, s)'
      <4>1. release'[r] = release[r]
        BY <1>1 DEF Release
      <4> QED BY <1>1, <3>4, <3>7, <4>1 DEF Owns, Live, dbVars, providerVars
    <3> QED BY <1>3, <1>6, <3>1, <3>3, <3>5, <3>6, <3>7, OwnOrderly
  <2> QED BY <1>3, <1>4, <2>1, <2>2, <2>3, StepBacked
<1> QED BY <1>5, <1>6 DEF Release

LEMMA ReleaseCloseBacked ==
  ASSUME BookingInv, BackedInv, ~faulty, UNCHANGED faulty, NEW q \in Release, ReleaseClose(q)
  PROVE  BackedInv'
<1>0. PICK s \in Serial : target[q] = s
  BY DEF ReleaseClose, BookingInv, TargetSet
<1>1. /\ UNCHANGED <<claim, target, claimRPC, replyPort, providerVars>>
      /\ CloseSession(s) /\ release[q] \in {"close", "closeOnly"}
      /\ IF release[q] = "close"
         THEN release'[q] = "calling" /\ releaseRPC'[q] = "sent"
         ELSE release'[q] = "telling" /\ releaseRPC' = releaseRPC
      /\ \A r \in Release \ {q} : release'[r] = release[r] /\ releaseRPC'[r] = releaseRPC[r]
  BY <1>0 DEF ReleaseClose, ReleaseGoto, BookingInv, BookingTypeOK
<1>2. /\ \A r \in Session : ~Active(r, s)'
      /\ \A r \in Session, t \in Serial \ {s} : Active(r, t)' <=> Active(r, t)
      /\ \A t \in Serial \ {s} : status'[t] = status[t] /\ streamPort'[t] = streamPort[t]
      /\ \A t \in Serial : status'[t] # "offline"
  BY <1>1, CloseOrderly
<1>3. StepOf(q, s)
  BY <1>0, <1>1, <1>2 DEF StepOf, providerVars
<1>4. Healthy'
  BY <1>1, <1>2 DEF Healthy, BackedInv, providerVars
<1>5. CASE q \in Releaser
  <2>1. Tainted(s)' /\ q \notin Session /\ release'[q] # "new"
    BY <1>0, <1>1, <1>5, BookingAssumption DEF Tainted
  <2> QED BY <1>3, <1>4, <2>1, StepBacked
<1>6. CASE q \in Session
  <2>1. InStep(q) /\ claim[q] = "held" /\ q \notin Releaser
    BY <1>1, <1>6, BookingAssumption DEF BackedInv, InStep
  <2>2. InStep(q)'
    BY <1>1, <2>1 DEF InStep
  <2>3. ASSUME ~Tainted(s)' PROVE Orderly(s)'
    <3>1. Orderly(s)
      BY <1>3, <1>6, <2>3, StepOrderly
    <3>2. Owns(q, s)
      BY <1>0, <1>6, <3>1 DEF Orderly
    <3>3. release[q] = "close"
      BY <1>1, <3>2 DEF Owns
    <3>4. Live(q) /\ ~Live(q)' /\ release'[q] # "closeOnly"
      BY <1>1, <2>1, <3>3 DEF Live
    <3>5. device[s] = q
      BY <2>1, <3>2, <3>4 DEF Owns, InStep
    <3> QED BY <1>0, <1>1, <1>2, <1>3, <1>6, <3>1, <3>4, <3>5, ClosedOrderly DEF providerVars
  <2> QED BY <1>3, <1>4, <2>1, <2>2, <2>3, StepBacked
<1> QED BY <1>5, <1>6 DEF Release

\* Steps of the end of a release and of the provider: they change only who holds
\* the device and how far a call has come.
LEMMA CallBacked ==
  ASSUME BookingInv, BackedInv, ~faulty, UNCHANGED faulty,
         NEW q \in Release, NEW s \in Serial, target[q] = s,
         UNCHANGED <<dbVars, claim, target, notify>>,
         \A r \in Release \ {q} : release'[r] = release[r] /\ releaseRPC'[r] = releaseRPC[r],
         \A r \in Session \ {q} : claimRPC'[r] = claimRPC[r] /\ replyPort'[r] = replyPort[r],
         \A t \in Serial \ {s} : device'[t] = device[t],
         q \in Session => InStep(q)' /\ (Live(q)' <=> Live(q)),
         q \in Releaser => release'[q] # "new",
         q \in Session /\ Orderly(s) =>
           /\ Owns(q, s)'
           /\ \A r \in Session \ {q} : device[s] = r => device'[s] = r
  PROVE  BackedInv'
<1>1. StepOf(q, s)
  BY DEF StepOf, Active, dbVars
<1>2. Healthy'
  BY DEF Healthy, BackedInv, dbVars
<1>3. CASE q \in Releaser
  <2>1. Tainted(s)' /\ q \notin Session
    BY <1>3, BookingAssumption DEF Tainted
  <2> QED BY <1>1, <1>2, <1>3, <2>1, StepBacked
<1>4. CASE q \in Session
  <2>1. q \notin Releaser
    BY <1>4, BookingAssumption
  <2>2. ASSUME ~Tainted(s)' PROVE Orderly(s)'
    <3>1. Orderly(s)
      BY <1>1, <1>4, <2>2, StepOrderly
    <3>2. \A r \in Session : Active(r, s)' <=> Active(r, s)
      BY DEF Active, dbVars
    <3>3. ASSUME NEW r \in Session \ {q} PROVE (Live(r)' <=> Live(r)) /\ target'[r] = target[r]
      BY DEF Live, Release
    <3>4. ASSUME NEW r \in Session \ {q}, target[r] = s PROVE Owns(r, s)'
      <4>1. Owns(r, s) /\ (device[s] = r => device'[s] = r)
        BY <1>4, <3>1, <3>4 DEF Orderly
      <4>2. release'[r] = release[r] /\ releaseRPC'[r] = releaseRPC[r]
        BY DEF Release
      <4> QED BY <3>2, <3>3, <4>1, <4>2 DEF Owns, dbVars
    <3>5. \A r \in Session : target'[r] = s => Owns(r, s)'
      BY <1>4, <3>1, <3>3, <3>4
    <3>6. \A r \in Session : Active(r, s)' => target'[r] = s /\ Live(r)'
      BY <1>4, <3>1, <3>2, <3>3 DEF Orderly
    <3>7. \A p, r \in Session : Active(p, s)' /\ Active(r, s)' => p = r
      BY <3>1, <3>2 DEF Orderly
    <3> QED BY <3>5, <3>6, <3>7 DEF Orderly
  <2> QED BY <1>1, <1>2, <1>4, <2>1, <2>2, StepBacked
<1> QED BY <1>3, <1>4 DEF Release

LEMMA ReleaseReturnBacked ==
  ASSUME BookingInv, BackedInv, ~faulty, UNCHANGED faulty, NEW q \in Release,
         ReleaseReturn(q) \/ ReleaseTold(q)
  PROVE  BackedInv'
<1>0. PICK s \in Serial : target[q] = s
  BY DEF ReleaseReturn, ReleaseTold, BookingInv, TargetSet
<1>1. /\ UNCHANGED <<dbVars, claim, target, claimRPC, replyPort, releaseRPC, providerVars>>
      /\ \/ release[q] = "calling" /\ release'[q] = "telling" /\ releaseRPC[q] = "done"
         \/ release[q] = "telling" /\ release'[q] = "returned"
      /\ \A r \in Release \ {q} : release'[r] = release[r]
  BY DEF ReleaseReturn, ReleaseTold, ReleaseGoto, BookingInv, BookingTypeOK
<1>2. ASSUME q \in Session PROVE InStep(q)' /\ (Live(q)' <=> Live(q))
  BY <1>1, <1>2 DEF BackedInv, InStep, Live
<1>3. ASSUME q \in Session, Orderly(s) PROVE Owns(q, s)'
  <2>1. ~Live(q)' /\ InStep(q) /\ releaseRPC[q] # "sent"
    BY <1>1, <1>2, <1>3 DEF BackedInv, InStep, Live
  <2> QED BY <1>1, <2>1 DEF Owns
<1> QED BY <1>0, <1>1, <1>2, <1>3, CallBacked DEF providerVars

\* The provider holds an idle device for one that has it in the tables; who had it
\* before has been released on the provider.
LEMMA ProviderClaimBacked ==
  ASSUME BookingInv, BackedInv, ~faulty, UNCHANGED faulty, NEW q \in Session, ProviderClaim(q)
  PROVE  BackedInv'
<1>0. PICK s \in Serial : target[q] = s
  BY DEF ProviderClaim, BookingInv, TargetSet
<1>1. /\ UNCHANGED <<dbVars, claim, target, replyPort, release, releaseRPC, notify>>
      /\ claimRPC[q] = "sent" /\ claimRPC'[q] = "claimed" /\ device[s] = Idle /\ device'[s] = q
      /\ \A r \in Session \ {q} : claimRPC'[r] = claimRPC[r]
      /\ \A t \in Serial \ {s} : device'[t] = device[t]
  BY <1>0 DEF ProviderClaim, BookingInv, BookingTypeOK
<1>2. q \in Release /\ q \notin Releaser /\ Idle \notin Session
  BY BookingAssumption DEF Release
<1>3. InStep(q) /\ claim[q] = "calling"
  BY <1>1 DEF BackedInv, InStep
<1>4. InStep(q)' /\ (Live(q)' <=> Live(q))
  BY <1>1, <1>3 DEF InStep, Live
<1>5. ASSUME Orderly(s) PROVE Owns(q, s)'
  <2>1. Owns(q, s)
    BY <1>0, <1>5 DEF Orderly
  <2> QED BY <1>1, <1>3, <1>4, <2>1 DEF Owns, Active, dbVars
<1> QED BY <1>0, <1>1, <1>2, <1>4, <1>5, CallBacked

LEMMA ProviderRejectBacked ==
  ASSUME BookingInv, BackedInv, ~faulty, UNCHANGED faulty, NEW q \in Session, ProviderReject(q)
  PROVE  BackedInv'
<1>0. PICK s \in Serial : target[q] = s
  BY DEF ProviderReject, BookingInv, TargetSet
<1>1. /\ UNCHANGED <<dbVars, claim, target, replyPort, release, releaseRPC, providerVars>>
      /\ claimRPC[q] = "sent" /\ claimRPC'[q] = "rejected"
      /\ \A r \in Session \ {q} : claimRPC'[r] = claimRPC[r]
  BY DEF ProviderReject, BookingInv, BookingTypeOK
<1>2. q \in Release /\ q \notin Releaser
  BY BookingAssumption DEF Release
<1>3. InStep(q) /\ claim[q] = "calling"
  BY <1>1 DEF BackedInv, InStep
<1>4. InStep(q)' /\ (Live(q)' <=> Live(q))
  BY <1>1, <1>3 DEF InStep, Live
<1>5. ASSUME Orderly(s) PROVE Owns(q, s)'
  <2>1. Owns(q, s)
    BY <1>0, <1>5 DEF Orderly
  <2> QED BY <1>1, <1>3, <1>4, <2>1 DEF Owns, Active, dbVars, providerVars
<1> QED BY <1>0, <1>1, <1>2, <1>4, <1>5, CallBacked DEF providerVars

\* The device is there, so that the port in the answer is one.
LEMMA ProviderAnswerBacked ==
  ASSUME BookingInv, BackedInv, ~faulty, UNCHANGED faulty, NEW q \in Session, ProviderAnswer(q)
  PROVE  BackedInv'
<1>0. PICK s \in Serial : target[q] = s
  BY DEF ProviderAnswer, BookingInv, TargetSet
<1>1. /\ UNCHANGED <<dbVars, claim, target, release, releaseRPC, providerVars>>
      /\ claimRPC[q] = "claimed" /\ claimRPC'[q] = "ok"
      /\ replyPort'[q] \in IF device[s] = Absent THEN {NoPort} ELSE Port
      /\ \A r \in Session \ {q} : claimRPC'[r] = claimRPC[r] /\ replyPort'[r] = replyPort[r]
  BY <1>0 DEF ProviderAnswer, BookingInv, BookingTypeOK
<1>2. q \in Release /\ q \notin Releaser /\ q # Absent
  BY BookingAssumption DEF Release
<1>3. InStep(q) /\ claim[q] = "calling"
  BY <1>1 DEF BackedInv, InStep
<1>4. InStep(q)' /\ (Live(q)' <=> Live(q)) /\ Live(q)
  BY <1>1, <1>3 DEF InStep, Live
<1>5. ASSUME Orderly(s) PROVE Owns(q, s)'
  <2>1. Owns(q, s)
    BY <1>0, <1>5 DEF Orderly
  <2>2. device[s] = q /\ replyPort'[q] \in Port
    BY <1>1, <1>2, <1>3, <1>4, <2>1 DEF Owns
  <2> QED BY <1>1, <1>3, <1>4, <2>1, <2>2 DEF Owns, Active, dbVars, providerVars
<1> QED BY <1>0, <1>1, <1>2, <1>4, <1>5, CallBacked DEF providerVars

\* A release the provider executes late finds the device still held for the one
\* that released it: nobody else can have claimed it in between.
LEMMA ProviderReleaseBacked ==
  ASSUME BookingInv, BackedInv, ~faulty, UNCHANGED faulty, NEW q \in Release, ProviderRelease(q)
  PROVE  BackedInv'
<1>1. release[q] # "new"
  BY DEF ProviderRelease, BackedInv, InStep, Release
<1>0. PICK s \in Serial : target[q] = s
  BY <1>1 DEF BookingInv, TargetSet
<1>2. /\ UNCHANGED <<dbVars, claim, target, claimRPC, replyPort, release, notify>>
      /\ releaseRPC[q] = "sent" /\ releaseRPC'[q] = "done"
      /\ \A r \in Release \ {q} : releaseRPC'[r] = releaseRPC[r]
      /\ \A t \in Serial \ {s} : device'[t] = device[t]
  BY <1>0 DEF ProviderRelease, BookingInv, BookingTypeOK
<1>3. ASSUME q \in Session PROVE InStep(q)' /\ (Live(q)' <=> Live(q)) /\ ~Live(q)
  BY <1>2, <1>3 DEF BackedInv, InStep, Live
<1>4. ASSUME q \in Session, Orderly(s)
      PROVE  Owns(q, s)' /\ \A r \in Session \ {q} : device[s] = r => device'[s] = r
  <2>1. Owns(q, s)
    BY <1>0, <1>4 DEF Orderly
  <2>2. device[s] = q
    BY <1>2, <2>1 DEF Owns
  <2>3. Owns(q, s)'
    BY <1>2, <1>3, <1>4, <2>1 DEF Owns
  <2> QED BY <2>2, <2>3
<1> QED BY <1>0, <1>1, <1>2, <1>3, <1>4, CallBacked

\* Devices that are plugged in, register calls and pings.
LEMMA PresenceBacked ==
  ASSUME BookingInv, BackedInv, ~faulty, UNCHANGED faulty, PresenceStep
  PROVE  BackedInv'
<1> SUFFICES ASSUME NEW s \in Serial,
                    PlugIn(s) \/ NotifyRegister(s) \/ Ping(s)
             PROVE  BackedInv'
  BY DEF PresenceStep, Unplug, NotifyRelease, NotifyLost, HeartbeatLost, BackedInv, Healthy
<1>1. /\ UNCHANGED <<streamPort, sessions, handlerVars>>
      /\ \A t \in Serial : \/ status'[t] = status[t]
                           \/ status[t] = "none" /\ status'[t] = "idle"
      /\ \A t \in Serial : \/ device'[t] = device[t]
                           \/ device[t] = Absent /\ device'[t] = Idle
      /\ \A t \in Serial : <<"release", t>> \in notify' => <<"release", t>> \in notify
  <2> USE DEF BackedInv, Healthy, BookingInv, BookingTypeOK, DBTypeOK, dbVars, providerVars
  <2>1. CASE PlugIn(s)
    BY <2>1 DEF PlugIn
  <2>2. CASE NotifyRegister(s)
    BY <2>2 DEF NotifyRegister, RegisterDevice
  <2>3. CASE Ping(s)
    BY <2>3 DEF Ping, UpdateDeviceHeartbeat
  <2> QED BY <2>1, <2>2, <2>3
<1>2. Healthy'
  BY <1>1 DEF BackedInv, Healthy
<1>3. UNCHANGED <<claim, target, claimRPC, replyPort, release, releaseRPC>>
  BY <1>1 DEF handlerVars
<1>4. /\ \A r \in Session : InStep(r)'
      /\ \A x \in Releaser :
           release'[x] = "new" => target'[x] = NoSerial /\ releaseRPC'[x] = "none"
  BY <1>3 DEF BackedInv, InStep
<1>5. ASSUME NEW t \in Serial, ~Tainted(t)' PROVE Orderly(t)'
  <2>1. Orderly(t)
    BY <1>3, <1>5 DEF Tainted, BackedInv
  <2>2. \A r \in Session : (Active(r, t)' <=> Active(r, t)) /\ (Live(r)' <=> Live(r))
    BY <1>1, <1>3 DEF Active, Live
  <2>3. ASSUME NEW r \in Session, Owns(r, t) PROVE Owns(r, t)'
    <3>1. r # Absent
      BY BookingAssumption
    <3>2. (device[t] = r => device'[t] = r) /\ (status[t] = "claimed" => status'[t] = "claimed")
      BY <1>1, <3>1
    <3> QED BY <1>1, <1>3, <2>2, <2>3, <3>2 DEF Owns
  <2> QED BY <1>3, <2>1, <2>2, <2>3 DEF Orderly
<1> QED BY <1>2, <1>4, <1>5 DEF BackedInv

LEMMA BackedStep ==
  ASSUME BookingInv, BackedInv, [BookingNext]_bookingVars
  PROVE  BackedInv'
<1>1. CASE UNCHANGED bookingVars
  BY <1>1 DEF bookingVars, dbVars, handlerVars, providerVars, BackedInv, Healthy, InStep,
              Tainted, Orderly, Owns, Live, Active
<1>2. CASE faulty /\ BookingNext
  BY <1>2 DEF BookingNext, BackedInv
<1>3. CASE ~faulty /\ BookingNext
  <2>0. UNCHANGED faulty
    BY <1>3 DEF BookingNext
  <2>1. \/ \E r \in Session, s \in Serial : ClaimCreate(r, s) \/ ClaimConflict(r, s)
        \/ \E r \in Session : ClaimStep(r) \/ ClaimTold(r)
        \/ \E q \in Release, s \in Serial : ReleaseBegin(q, s)
        \/ \E q \in Release : ReleaseStep(q) \/ ReleaseTold(q)
        \/ ProviderStep \/ PresenceStep
    BY <1>3, Zenon DEF BookingNext, PresenceStep
  <2>2. CASE \E r \in Session, s \in Serial : ClaimCreate(r, s) \/ ClaimConflict(r, s)
    BY <1>3, <2>0, <2>2, ClaimCreateBacked, ClaimConflictBacked
  <2>3. CASE \E r \in Session : ClaimStep(r) \/ ClaimTold(r)
    <3>1. \A r \in Session : ~ClaimTimeout(r)
      BY <1>3 DEF ClaimTimeout
    <3> QED BY <1>3, <2>0, <2>3, <3>1, ClaimGoesOnBacked, ClaimRollbackBacked,
               ClaimStoreBacked DEF ClaimStep
  <2>4. CASE \E q \in Release, s \in Serial : ReleaseBegin(q, s)
    BY <1>3, <2>0, <2>4, ReleaseBeginBacked
  <2>5. CASE \E q \in Release : ReleaseStep(q) \/ ReleaseTold(q)
    BY <1>3, <2>0, <2>5, ReleaseCloseBacked, ReleaseReturnBacked DEF ReleaseStep
  <2>6. CASE ProviderStep
    BY <1>3, <2>0, <2>6, ProviderClaimBacked, ProviderRejectBacked, ProviderAnswerBacked,
       ProviderReleaseBacked DEF ProviderStep
  <2>7. CASE PresenceStep
    BY <1>3, <2>0, <2>7, PresenceBacked
  <2> QED BY <2>1, <2>2, <2>3, <2>4, <2>5, <2>6, <2>7
<1> QED BY <1>1, <1>2, <1>3

\* As long as no call, device or heartbeat fails, a user told that the claim
\* succeeded has the device until he releases it: in the tables, where his session
\* is the only active one, on the provider, which holds it for him although the
\* release of the one before may be executed late, and with a stored stream port.
THEOREM GrantsBacked == BookingSpec => []GrantBacked
<1>1. BookingInit => BackedInv
  BY DBAssumption DEF BookingInit, DBInit, BackedInv, Healthy, InStep, Tainted, Orderly,
     Owns, Live, Active, Release
<1>2. BookingInv /\ BackedInv => GrantBacked
  <2> SUFFICES ASSUME BookingInv, BackedInv, ~faulty, NEW r \in Session, claim[r] = "held",
                      release[r] = "new", \A x \in Releaser : target[x] # target[r]
               PROVE  /\ device[target[r]] = r
                      /\ status[target[r]] = "claimed"
                      /\ streamPort[target[r]] \in Port
                      /\ \A q \in Session : Active(q, target[r]) <=> q = r
    BY DEF GrantBacked
  <2>1. PICK s \in Serial : target[r] = s
    BY DEF BookingInv, TargetSet
  <2>2. Orderly(s) /\ InStep(r)
    BY <2>1 DEF BackedInv, Tainted
  <2>3. Live(r) /\ Owns(r, s)
    BY <2>1, <2>2 DEF Live, Orderly
  <2>4. \A q \in Session : Active(q, s) <=> q = r
    BY <2>2, <2>3 DEF Orderly, Owns
  <2> QED BY <2>1, <2>2, <2>3, <2>4 DEF Owns, InStep
<1>3. BookingInv /\ BackedInv /\ [BookingNext]_bookingVars => BackedInv'
  BY BackedStep
<1> QED BY <1>1, <1>2, <1>3, BookingTypes, PTL DEF BookingSpec
=============================================================================
