------------------------------ MODULE Presence ------------------------------
(***************************************************************************)
(* How the coordinator learns which devices a provider has: the calls that *)
(* internal/app sends from goroutines when a device comes or goes, the     *)
(* heartbeat loop of internal/coordinator, and the coordinator's Heartbeat *)
(* handler with its clean-up.  Booking is left out: a row is idle or       *)
(* offline.                                                                *)
(***************************************************************************)
EXTENDS Naturals

CONSTANTS
  Serial,     \* devices of the provider
  MaxEvent,   \* bound: devices plugged in or unplugged
  MaxStream,  \* bound: heartbeat streams; the last one does not break
  MaxOutage   \* bound: times the coordinator cannot be reached

VARIABLES
  booted,       \* App.Run is past RegisterProvider
  plugged,      \* devices the event loop has seen connected
  events,       \* events so far
  calls,        \* calls the coordinator has not executed: <<event, kind, serial>>
  replies,      \* calls it has executed, whose answer is not taken
  expired,      \* calls given up by the client, which may still be executed
  listed,       \* Client.serials
  hbOpen,       \* runHeartbeatOnce is in its loop
  stream,       \* the number of the client's latest stream, 0 at first
  ping,         \* per stream, the snapshots of serials in pings under way
  broken,       \* streams whose transport has failed
  reachable,    \* the coordinator can be reached
  outages,      \* outages so far
  providerRow,  \* the providers table has a row for this provider
  row,          \* per device: "none", "idle", "offline"
  handler,      \* per stream, the Heartbeat handler: "none", "open", "closed"
  activeHB      \* activeHBs[provider], 0 when absent

callSets == <<calls, replies, expired>>
clientVars == <<booted, plugged, events, callSets, listed, hbOpen, stream>>
netVars == <<ping, broken, reachable, outages>>
serverVars == <<providerRow, row, handler, activeHB>>
presenceVars == <<clientVars, netVars, serverVars>>

Stream == 1..MaxStream

PresenceInit ==
  /\ booted = FALSE
  /\ plugged = {}
  /\ events = 0
  /\ calls = {}
  /\ replies = {}
  /\ expired = {}
  /\ listed = {}
  /\ hbOpen = FALSE
  /\ stream = 0
  /\ ping = [i \in Stream |-> {}]
  /\ broken = {}
  /\ reachable = TRUE
  /\ outages = 0
  /\ providerRow = FALSE
  /\ row = [s \in Serial |-> "none"]
  /\ handler = [i \in Stream |-> "none"]
  /\ activeHB = 0

-----------------------------------------------------------------------------
(***************************************************************************)
(* The provider.                                                           *)
(***************************************************************************)

\* App.Run: Connect only sets up the channel; a RegisterProvider that fails is
\* logged, and the heartbeat loop and the event loop start all the same.
Boot ==
  /\ ~booted
  /\ booted' = TRUE
  /\ providerRow' = reachable
  /\ UNCHANGED <<plugged, events, callSets, listed, hbOpen, stream, netVars,
                 row, handler, activeHB>>

Notify(kind, s) ==
  /\ booted
  /\ events < MaxEvent
  /\ events' = events + 1
  /\ calls' = calls \cup {<<events', kind, s>>}
  /\ UNCHANGED <<booted, replies, expired, listed, hbOpen, stream, netVars,
                 serverVars>>

Plug(s) ==
  /\ s \notin plugged
  /\ plugged' = plugged \cup {s}
  /\ Notify("register", s)

\* A device that left is announced even if it was not registered.
Unplug(s) ==
  /\ plugged' = plugged \ {s}
  /\ Notify("release", s)

\* The coordinator executes a call.  Each has a goroutine of its own, so the
\* order of the events means nothing.  A call that was given up gets no answer.
Execute(c, accepted) ==
  /\ reachable
  /\ calls' = calls \ {c}
  /\ expired' = expired \ {c}
  /\ replies' = IF accepted /\ c \in calls THEN replies \cup {c} ELSE replies
  /\ UNCHANGED <<booted, plugged, events, listed, hbOpen, stream, netVars,
                 providerRow, handler, activeHB>>

\* RegisterDevice; without a row of the provider the foreign key refuses it.
CallRegister(c) ==
  /\ c[2] = "register"
  /\ Execute(c, providerRow)
  /\ row' = IF providerRow THEN [row EXCEPT ![c[3]] = "idle"] ELSE row

\* ReleaseDevice
CallRelease(c) ==
  /\ c[2] = "release"
  /\ Execute(c, TRUE)
  /\ row' = [row EXCEPT ![c[3]] = IF @ = "none" THEN @ ELSE "offline"]

\* Mutant of CallReturns: a released serial stays in the list of the heartbeat.
MutReturnKeepsListed(c) ==
  /\ replies' = replies \ {c}
  /\ listed' = IF c[2] = "register" THEN listed \cup {c[3]} ELSE listed
  /\ UNCHANGED <<booted, plugged, events, calls, expired, hbOpen, stream, netVars,
                 serverVars>>

\* The stub returns in the provider: addSerial, removeSerial.  Answers too are
\* taken in any order.
CallReturns(c) ==
  /\ replies' = replies \ {c}
  /\ listed' = IF c[2] = "register" THEN listed \cup {c[3]} ELSE listed \ {c[3]}
  /\ UNCHANGED <<booted, plugged, events, calls, expired, hbOpen, stream, netVars,
                 serverVars>>

\* CallTimeout is over, or the connection is lost; this is only logged.  The
\* request may be lost with it, or its answer, or it is executed later.
CallExpires(c) ==
  /\ calls' = calls \ {c}
  /\ replies' = replies \ {c}
  /\ \/ expired' = expired
     \/ c \in calls /\ expired' = expired \cup {c}
  /\ UNCHANGED <<booted, plugged, events, listed, hbOpen, stream, netVars,
                 serverVars>>

\* RunHeartbeat, after its back-off, opens a stream.
OpenStream ==
  /\ booted
  /\ ~hbOpen
  /\ reachable
  /\ stream < MaxStream
  /\ hbOpen' = TRUE
  /\ stream' = stream + 1
  /\ UNCHANGED <<booted, plugged, events, callSets, listed, netVars, serverVars>>

\* The ticker fires.  At most one ping of a stream is under way (bound).
SendPing ==
  /\ hbOpen
  /\ ping[stream] = {}
  /\ ping' = [ping EXCEPT ![stream] = {listed}]
  /\ UNCHANGED <<clientVars, broken, reachable, outages, serverVars>>

\* runHeartbeatOnce returns an error; RunHeartbeat tries again.
ClientNotices ==
  /\ hbOpen
  /\ stream \in broken
  /\ hbOpen' = FALSE
  /\ UNCHANGED <<booted, plugged, events, callSets, listed, stream, netVars,
                 serverVars>>

-----------------------------------------------------------------------------
(***************************************************************************)
(* The network.                                                            *)
(***************************************************************************)
BreakStream ==
  /\ hbOpen
  /\ stream < MaxStream
  /\ stream \notin broken
  /\ broken' = broken \cup {stream}
  /\ UNCHANGED <<clientVars, ping, reachable, outages, serverVars>>

OutageBegins ==
  /\ reachable
  /\ outages < MaxOutage
  /\ stream < MaxStream
  /\ reachable' = FALSE
  /\ outages' = outages + 1
  /\ broken' = IF hbOpen THEN broken \cup {stream} ELSE broken
  /\ UNCHANGED <<clientVars, ping, serverVars>>

\* The coordinator's process dies: no deferred function runs, and the tables
\* keep what they say.
CoordinatorCrashes ==
  /\ reachable
  /\ outages < MaxOutage
  /\ stream < MaxStream
  /\ reachable' = FALSE
  /\ outages' = outages + 1
  /\ broken' = IF hbOpen THEN broken \cup {stream} ELSE broken
  /\ handler' = [i \in Stream |-> IF i <= stream THEN "closed" ELSE handler[i]]
  /\ ping' = [i \in Stream |-> {}]
  /\ activeHB' = 0
  /\ expired' = {}
  /\ UNCHANGED <<booted, plugged, events, calls, replies, listed, hbOpen, stream,
                 providerRow, row>>

OutageEnds ==
  /\ ~reachable
  /\ reachable' = TRUE
  /\ UNCHANGED <<clientVars, ping, broken, outages, serverVars>>

-----------------------------------------------------------------------------
(***************************************************************************)
(* The coordinator's Heartbeat handler, one per stream.                    *)
(***************************************************************************)

\* Mutant of Revive: a heartbeat only touches updated_at.
MutReviveNothing(snapshot) == UNCHANGED row

\* processPing: UpdateDeviceHeartbeat for every serial of the ping.
Revive(snapshot) ==
  row' = [s \in Serial |->
            IF s \in snapshot /\ row[s] = "offline" THEN "idle" ELSE row[s]]

\* A ping arrives.  The first one registers the handler in activeHBs; the
\* cancel function it finds there belongs to a context nobody waits for.
HandlePing(i) ==
  /\ handler[i] # "closed"
  /\ \E snapshot \in ping[i] : Revive(snapshot)
  /\ ping' = [ping EXCEPT ![i] = {}]
  /\ handler' = [handler EXCEPT ![i] = "open"]
  /\ activeHB' = IF handler[i] = "none" THEN i ELSE activeHB
  /\ UNCHANGED <<clientVars, broken, reachable, outages, providerRow>>

\* Recv fails.  The deferred function drops activeHBs' entry, whoever's it is,
\* and marks all devices of the provider offline.
HandlerEnds(i) ==
  /\ i \in broken
  /\ handler[i] = "open"
  /\ handler' = [handler EXCEPT ![i] = "closed"]
  /\ activeHB' = 0
  /\ row' = [s \in Serial |-> IF row[s] = "none" THEN "none" ELSE "offline"]
  /\ ping' = [ping EXCEPT ![i] = {}]
  /\ UNCHANGED <<clientVars, broken, reachable, outages, providerRow>>

\* The first Recv fails: the handler returns before it has registered.
HandlerAborts(i) ==
  /\ i \in broken
  /\ handler[i] = "none"
  /\ handler' = [handler EXCEPT ![i] = "closed"]
  /\ ping' = [ping EXCEPT ![i] = {}]
  /\ UNCHANGED <<clientVars, broken, reachable, outages, providerRow, row,
                 activeHB>>

-----------------------------------------------------------------------------
HandlerStep(i) == HandlePing(i) \/ HandlerEnds(i) \/ HandlerAborts(i)

CallStep(c) ==
  \/ c \in calls \cup expired /\ (CallRegister(c) \/ CallRelease(c))
  \/ c \in replies /\ CallReturns(c)
  \/ c \in calls \cup replies /\ CallExpires(c)

PresenceNext ==
  \/ Boot
  \/ \E s \in Serial : Plug(s) \/ Unplug(s)
  \/ \E c \in calls \cup replies \cup expired : CallStep(c)
  \/ OpenStream \/ SendPing \/ ClientNotices
  \/ BreakStream \/ OutageBegins \/ CoordinatorCrashes \/ OutageEnds
  \/ \E i \in Stream : HandlerStep(i)

PresenceSpec == PresenceInit /\ [][PresenceNext]_presenceVars

\* Fairness: goroutines run, calls are answered or time out, the ticker fires,
\* both ends notice a broken stream (gRPC keepalive, closed connections), and
\* an outage ends.  Nothing is assumed of devices and failures.
PresenceFairness ==
  /\ WF_presenceVars(Boot)
  /\ WF_presenceVars(OpenStream)
  /\ WF_presenceVars(SendPing)
  /\ WF_presenceVars(ClientNotices)
  /\ WF_presenceVars(OutageEnds)
  /\ \A n \in 1..MaxEvent, k \in {"register", "release"}, s \in Serial :
       WF_presenceVars(<<n, k, s>> \in calls \cup replies /\ CallStep(<<n, k, s>>))
  /\ \A i \in Stream : WF_presenceVars(HandlerStep(i))

FairPresenceSpec == PresenceSpec /\ PresenceFairness

-----------------------------------------------------------------------------
PresenceTypeOK ==
  /\ booted \in BOOLEAN
  /\ plugged \subseteq Serial
  /\ events \in 0..MaxEvent
  /\ calls \cup replies \cup expired
       \subseteq (1..MaxEvent) \X {"register", "release"} \X Serial
  /\ listed \subseteq Serial
  /\ hbOpen \in BOOLEAN
  /\ stream \in 0..MaxStream
  /\ ping \in [Stream -> SUBSET SUBSET Serial]
  /\ broken \subseteq Stream
  /\ reachable \in BOOLEAN
  /\ outages \in 0..MaxOutage
  /\ providerRow \in BOOLEAN
  /\ row \in [Serial -> {"none", "idle", "offline"}]
  /\ handler \in [Stream -> {"none", "open", "closed"}]
  /\ activeHB \in 0..MaxStream

\* A heartbeat speaks only of devices the coordinator has a row for, whatever was
\* refused, overtaken or lost, and devices have rows only under a provider that
\* has one (the foreign key of the devices table).
RowsBacked ==
  /\ \A s \in listed : row[s] # "none"
  /\ \A i \in Stream : \A snapshot \in ping[i] : \A s \in snapshot : row[s] # "none"
  /\ \A s \in Serial : row[s] # "none" => providerRow

\* "Plug in a device -> it appears in coordinator." (docs/07): a device that
\* stays plugged in is shown as available in the end.  The code does not have
\* this property.
PlugAppears ==
  \A s \in Serial : <>[](s \in plugged) => <>[](row[s] = "idle")

\* "Unplug -> it disappears." (docs/07): a device that stays unplugged is not
\* shown as available for ever.
UnplugDisappears ==
  \A s \in Serial : <>[](s \notin plugged) => <>[](row[s] # "idle")

\* "Re-registers provider on every reconnect" (docs/07): a provider whose
\* heartbeat stream is open has its row in the end.
ProviderRegistered == <>[]hbOpen => <>providerRow

\* "Cancel any duplicate/stale stream" (grpc.go): the end of a stream that a
\* newer one has replaced does not change the devices.
StaleStreamHarmless ==
  [][\A i, j \in Stream :
       /\ i < j
       /\ handler[j] = "open"
       /\ handler[i] = "open"
       /\ handler'[i] = "closed"
       => row' = row]_presenceVars

=============================================================================
