------------------------------ MODULE Booking ------------------------------
(***************************************************************************)
(* Booking a device end to end: the coordinator's HTTP handlers for claim  *)
(* and release, its tables, the RPCs to the provider with their timeouts,  *)
(* the provider's own claim state, and the provider's notifications and    *)
(* heartbeats.  A handler is a process; each of its steps is one           *)
(* transaction or one end of an RPC.                                       *)
(*                                                                         *)
(* One provider; its Supervisor is reduced to who has claimed a device.    *)
(***************************************************************************)
EXTENDS CoordinatorDB

CONSTANTS
  Releaser,   \* release requests by users that hold no session
  Idle,       \* provider: the device is plugged in and idle
  Absent,     \* provider: the device is not plugged in
  Faults      \* the values faulty may have

ASSUME BookingAssumption ==
  /\ Releaser \cap Session = {}
  /\ Idle # Absent
  /\ {Idle, Absent} \cap Session = {}
  /\ Faults \subseteq BOOLEAN

\* A user releases the session it holds with the same identity.
Release == Session \cup Releaser

VARIABLES
  claim,      \* program counter of the claim handler of a session
  target,     \* the serial a claim or a release is about
  claimRPC,   \* ClaimDevice: "none", "sent", "claimed", "ok", "rejected"
  replyPort,  \* the port in ClaimDevice's response
  release,    \* program counter of a release handler
  releaseRPC, \* ReleaseDevice: "none", "sent", "done"
  device,     \* provider: Absent, Idle, or the session that claimed it
  notify,     \* the provider's calls to the coordinator under way
  listed,     \* serials the provider's client lists in its pings
  faulty      \* unplugging, timeouts, lost calls and lost heartbeats happen

handlerVars == <<claim, target, claimRPC, replyPort, release, releaseRPC>>
providerVars == <<device, notify, listed>>
bookingVars == <<dbVars, handlerVars, providerVars, faulty>>

BookingInit ==
  /\ faulty \in Faults
  /\ DBInit
  /\ claim = [r \in Session |-> "new"]
  /\ target = [q \in Release |-> NoSerial]
  /\ claimRPC = [r \in Session |-> "none"]
  /\ replyPort = [r \in Session |-> NoPort]
  /\ release = [q \in Release |-> "new"]
  /\ releaseRPC = [q \in Release |-> "none"]
  /\ device = [s \in Serial |-> Absent]
  /\ notify = {}
  /\ listed = {}

-----------------------------------------------------------------------------
(***************************************************************************)
(* handleDeviceAction, "claim".                                            *)
(***************************************************************************)
ClaimGoto(r, pc) == claim' = [claim EXCEPT ![r] = pc]

\* CreateSession succeeds, and the provider of the device is looked up.
ClaimCreate(r, s) ==
  /\ claim[r] = "new"
  /\ CreateSession(r, s)
  /\ target' = [target EXCEPT ![r] = s]
  /\ ClaimGoto(r, "calling")
  /\ claimRPC' = [claimRPC EXCEPT ![r] = "sent"]
  /\ UNCHANGED <<replyPort, release, releaseRPC, providerVars>>

\* ... or fails: 409.
ClaimConflict(r, s) ==
  /\ claim[r] = "new"
  /\ status[s] \in {"none", "claimed"}
  /\ ClaimGoto(r, "failed")
  /\ UNCHANGED <<dbVars, target, claimRPC, replyPort, release, releaseRPC,
                 providerVars>>

\* The response arrives in time.
ClaimAnswered(r) ==
  /\ claim[r] = "calling"
  /\ claimRPC[r] \in {"ok", "rejected"}
  /\ ClaimGoto(r, IF claimRPC[r] = "ok" THEN "store" ELSE "rollback")
  /\ UNCHANGED <<dbVars, target, claimRPC, replyPort, release, releaseRPC,
                 providerVars>>

\* Mutant of ClaimTimeout: the call to the provider has no deadline.
MutNoDeadline(r) ==
  /\ faulty
  /\ claim[r] = "calling"
  /\ claimRPC[r] \in {"ok", "rejected"}
  /\ ClaimGoto(r, "rollback")
  /\ UNCHANGED <<dbVars, target, claimRPC, replyPort, release, releaseRPC,
                 providerVars>>

\* The context ends after 10 seconds, or because the user went away; what was
\* sent is not taken back.
ClaimTimeout(r) ==
  /\ faulty
  /\ claim[r] = "calling"
  /\ ClaimGoto(r, "rollback")
  /\ UNCHANGED <<dbVars, target, claimRPC, replyPort, release, releaseRPC,
                 providerVars>>

\* Mutant of ClaimRollback: the device is made idle, its session stays open.
MutRollbackStatusOnly(r) ==
  /\ claim[r] = "rollback"
  /\ SetStatus(target[r], "idle")
  /\ ClaimGoto(r, "failed")
  /\ UNCHANGED <<streamPort, sessions, target, claimRPC, replyPort, release,
                 releaseRPC, providerVars>>

\* The provider failed or refused: CloseSession, then 502.
ClaimRollback(r) ==
  /\ claim[r] = "rollback"
  /\ CloseSession(target[r])
  /\ ClaimGoto(r, "failed")
  /\ UNCHANGED <<target, claimRPC, replyPort, release, releaseRPC, providerVars>>

ClaimStore(r) ==
  /\ claim[r] = "store"
  /\ UpdateDeviceStreamPort(target[r], replyPort[r])
  /\ ClaimGoto(r, "telling")
  /\ UNCHANGED <<target, claimRPC, replyPort, release, releaseRPC, providerVars>>

\* Broadcast has written to the WebSocket clients, without a deadline; the
\* response, buffered until then, goes out when the handler returns.
ClaimTold(r) ==
  /\ claim[r] = "telling"
  /\ ClaimGoto(r, "held")
  /\ UNCHANGED <<dbVars, target, claimRPC, replyPort, release, releaseRPC,
                 providerVars>>

-----------------------------------------------------------------------------
(***************************************************************************)
(* handleDeviceAction, "release".  The endpoint takes a serial and no      *)
(* session: a user that holds one releases it, but anyone may.             *)
(***************************************************************************)
ReleaseGoto(q, pc) == release' = [release EXCEPT ![q] = pc]

\* The request arrives; the provider of the device is looked up.
ReleaseBegin(q, s) ==
  /\ release[q] = "new"
  /\ q \in Session => claim[q] = "held" /\ target[q] = s
  /\ target' = [target EXCEPT ![q] = s]
  /\ ReleaseGoto(q, IF status[s] = "none" THEN "closeOnly" ELSE "close")
  /\ UNCHANGED <<dbVars, claim, claimRPC, replyPort, releaseRPC, providerVars>>

\* CloseSession, then the call to the provider if there is one.
ReleaseClose(q) ==
  /\ release[q] \in {"close", "closeOnly"}
  /\ CloseSession(target[q])
  /\ IF release[q] = "close"
     THEN /\ ReleaseGoto(q, "calling")
          /\ releaseRPC' = [releaseRPC EXCEPT ![q] = "sent"]
     ELSE /\ ReleaseGoto(q, "telling")
          /\ UNCHANGED releaseRPC
  /\ UNCHANGED <<claim, target, claimRPC, replyPort, providerVars>>

\* ReleaseDevice was answered, or its context ended after 5 seconds; the
\* result is not looked at.
ReleaseReturn(q) ==
  /\ release[q] = "calling"
  /\ releaseRPC[q] = "done" \/ faulty
  /\ ReleaseGoto(q, "telling")
  /\ UNCHANGED <<dbVars, claim, target, claimRPC, replyPort, releaseRPC,
                 providerVars>>

\* Broadcast has written to the WebSocket clients, and the handler returns.
ReleaseTold(q) ==
  /\ release[q] = "telling"
  /\ ReleaseGoto(q, "returned")
  /\ UNCHANGED <<dbVars, claim, target, claimRPC, replyPort, releaseRPC,
                 providerVars>>

-----------------------------------------------------------------------------
(***************************************************************************)
(* The provider: inbound calls.  The handlers do not look at the context,  *)
(* so a call is executed also when its caller has given up.                *)
(***************************************************************************)

\* Supervisor.Claim succeeds.
ProviderClaim(r) ==
  /\ claimRPC[r] = "sent"
  /\ device[target[r]] = Idle
  /\ device' = [device EXCEPT ![target[r]] = r]
  /\ claimRPC' = [claimRPC EXCEPT ![r] = "claimed"]
  /\ UNCHANGED <<dbVars, claim, target, replyPort, release, releaseRPC, notify,
                 listed>>

\* The device is unknown, not idle, or its capture does not start.
ProviderReject(r) ==
  /\ claimRPC[r] = "sent"
  /\ claimRPC' = [claimRPC EXCEPT ![r] = "rejected"]
  /\ UNCHANGED <<dbVars, claim, target, replyPort, release, releaseRPC,
                 providerVars>>

\* ClaimDevice looks the port up again after the claim and ignores an error.
ProviderAnswer(r) ==
  /\ claimRPC[r] = "claimed"
  /\ claimRPC' = [claimRPC EXCEPT ![r] = "ok"]
  /\ \E p \in IF device[target[r]] = Absent THEN {NoPort} ELSE Port :
       replyPort' = [replyPort EXCEPT ![r] = p]
  /\ UNCHANGED <<dbVars, claim, target, release, releaseRPC, providerVars>>

ProviderRelease(q) ==
  /\ releaseRPC[q] = "sent"
  /\ releaseRPC' = [releaseRPC EXCEPT ![q] = "done"]
  /\ device' = [device EXCEPT ![target[q]] = IF @ = Absent THEN Absent ELSE Idle]
  /\ UNCHANGED <<dbVars, claim, target, claimRPC, replyPort, release, notify,
                 listed>>

-----------------------------------------------------------------------------
(***************************************************************************)
(* The provider: devices come and go; goroutines tell the coordinator.     *)
(* Bound: of two equal calls under way at a time, notify keeps one.        *)
(***************************************************************************)
PlugIn(s) ==
  /\ device[s] = Absent
  /\ device' = [device EXCEPT ![s] = Idle]
  /\ notify' = notify \cup {<<"register", s>>}
  /\ UNCHANGED <<dbVars, handlerVars, listed>>

Unplug(s) ==
  /\ faulty
  /\ device[s] # Absent
  /\ device' = [device EXCEPT ![s] = Absent]
  /\ notify' = notify \cup {<<"release", s>>}
  /\ UNCHANGED <<dbVars, handlerVars, listed>>

\* The client adds the serial to its pings when the call is accepted ...
NotifyRegister(s) ==
  /\ <<"register", s>> \in notify
  /\ notify' = notify \ {<<"register", s>>}
  /\ RegisterDevice(s)
  /\ \/ listed' = listed \cup {s}
     \/ faulty /\ UNCHANGED listed
  /\ UNCHANGED <<handlerVars, device>>

\* ... and takes it off when ReleaseDevice succeeds.
NotifyRelease(s) ==
  /\ <<"release", s>> \in notify
  /\ notify' = notify \ {<<"release", s>>}
  /\ ReleaseDevice(s)
  /\ \/ listed' = listed \ {s}
     \/ faulty /\ UNCHANGED listed
  /\ UNCHANGED <<handlerVars, device>>

\* A call that does not get through is only logged.
NotifyLost ==
  /\ faulty
  /\ \E n \in notify : notify' = notify \ {n}
  /\ UNCHANGED <<dbVars, handlerVars, device, listed>>

\* processPing, for one serial of the ping.
Ping(s) ==
  /\ s \in listed
  /\ UpdateDeviceHeartbeat(s)
  /\ UNCHANGED <<handlerVars, providerVars>>

HeartbeatLost ==
  /\ faulty
  /\ MarkProviderOffline
  /\ UNCHANGED <<handlerVars, providerVars>>

-----------------------------------------------------------------------------
ClaimStep(r) ==
  \/ ClaimAnswered(r) \/ ClaimTimeout(r) \/ ClaimRollback(r) \/ ClaimStore(r)

ReleaseStep(q) == ReleaseClose(q) \/ ReleaseReturn(q)

ProviderStep ==
  \/ \E r \in Session : ProviderClaim(r) \/ ProviderReject(r) \/ ProviderAnswer(r)
  \/ \E q \in Release : ProviderRelease(q)

BookingNext ==
  /\ UNCHANGED faulty
  /\ \/ \E r \in Session, s \in Serial : ClaimCreate(r, s) \/ ClaimConflict(r, s)
     \/ \E r \in Session : ClaimStep(r) \/ ClaimTold(r)
     \/ \E q \in Release, s \in Serial : ReleaseBegin(q, s)
     \/ \E q \in Release : ReleaseStep(q) \/ ReleaseTold(q)
     \/ ProviderStep
     \/ \E s \in Serial : \/ PlugIn(s) \/ Unplug(s)
                          \/ NotifyRegister(s) \/ NotifyRelease(s) \/ Ping(s)
     \/ NotifyLost \/ HeartbeatLost

BookingSpec == BookingInit /\ [][BookingNext]_bookingVars

\* Fairness: the handlers run, and their contexts end; nothing is assumed of
\* the provider, the devices, the users or the WebSocket clients Broadcast
\* writes to.
BookingFairness ==
  /\ \A r \in Session : WF_bookingVars(ClaimStep(r) /\ UNCHANGED faulty)
  /\ \A q \in Release : WF_bookingVars(ReleaseStep(q) /\ UNCHANGED faulty)

FairBookingSpec == BookingSpec /\ BookingFairness

-----------------------------------------------------------------------------
BookingTypeOK ==
  /\ DBTypeOK
  /\ claim \in [Session -> {"new", "calling", "rollback", "store", "telling", "held", "failed"}]
  /\ target \in [Release -> Serial \cup {NoSerial}]
  /\ claimRPC \in [Session -> {"none", "sent", "claimed", "ok", "rejected"}]
  /\ replyPort \in [Session -> Port \cup {NoPort}]
  /\ release \in [Release -> {"new", "close", "closeOnly", "calling", "telling", "returned"}]
  /\ releaseRPC \in [Release -> {"none", "sent", "done"}]
  /\ device \in [Serial -> Session \cup {Idle, Absent}]
  /\ notify \subseteq {"register", "release"} \X Serial
  /\ listed \subseteq Serial
  /\ faulty \in BOOLEAN

\* A user told that the claim succeeded, and who has not released yet, really
\* has the device: the session is the device's only active one, the provider
\* holds the device for it, and the stream port is stored.  Without faults,
\* and unless somebody without a session has released the same device, this
\* survives any interleaving of claims, failing captures, releases and pings.
GrantBacked ==
  \A r \in Session :
    /\ ~faulty
    /\ claim[r] = "held"
    /\ release[r] = "new"
    /\ \A x \in Releaser : target[x] # target[r]
    => /\ device[target[r]] = r
       /\ status[target[r]] = "claimed"
       /\ streamPort[target[r]] \in Port
       /\ \A q \in Session : Active(q, target[r]) <=> q = r

\* Every request of a user gets as far as its response, also when the provider
\* is gone and never answers: the handler has answered, or has only the clients
\* of the WebSocket to tell.
HandlersReturn ==
  faulty => []<>(/\ \A r \in Session : claim[r] \in {"new", "telling", "held", "failed"}
                 /\ \A q \in Release : release[q] \in {"new", "telling", "returned"})

\* Every request of a user gets its response.  The code does not have this
\* property: a WebSocket client that stops reading blocks Broadcast, and the
\* response is sent after it.
HandlersAnswer ==
  []<>(/\ \A r \in Session : claim[r] \in {"new", "held", "failed"}
       /\ \A q \in Release : release[q] \in {"new", "returned"})

\* "Claims an idle device for exclusive remote interaction or automation
\* session." (openapi.yaml): a device has at most one active session.
OneActiveSession ==
  \A s \in Serial, q, r \in Session : Active(q, s) /\ Active(r, s) => q = r

\* "Allocated MJPEG stream port. 0 if not claimed." (openapi.yaml)
PortZeroUnlessClaimed ==
  \A s \in Serial : status[s] # "claimed" => streamPort[s] = NoPort

\* "Releases a claimed device, closing the interactive session and returning
\* it to the idle pool." (openapi.yaml): when the holder's release request has
\* been answered, its provider does not hold the device for it any more.
ReleaseReachesProvider ==
  \A r \in Session : release[r] = "returned" => device[target[r]] # r

=============================================================================
