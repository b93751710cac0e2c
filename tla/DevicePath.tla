----------------------------- MODULE DevicePath -----------------------------
(***************************************************************************)
(* A device on its way from the USB port to the coordinator's table:       *)
(* Trackers and Presence composed.  They meet in the event loop of         *)
(* internal/app, whose handler changes the registry first, then waits for  *)
(* the supervisor, and last starts the goroutine that tells the            *)
(* coordinator; what Presence calls plugged is what was announced so.      *)
(***************************************************************************)
EXTENDS Trackers

CONSTANTS MaxEvent, MaxStream, MaxOutage   \* of Presence

ASSUME PathAssumption ==
  MaxEvent \in Nat /\ MaxStream \in Nat \ {0} /\ MaxOutage \in Nat

VARIABLES
  announced,  \* devices whose goroutine that registers them was started
  booted, events, calls, replies, expired, listed, hbOpen, stream, ping, broken,
  reachable, outages, providerRow, row, handler, activeHB,
  mishap      \* history: serials with a call that timed out or was refused, or
              \* whose answer was taken while an earlier call was under way

P == INSTANCE Presence WITH plugged <- announced

callVars == <<announced, booted, events, calls, replies, expired, listed, hbOpen,
              stream, ping, broken, reachable, outages, providerRow, row, handler,
              activeHB>>
pathVars == <<trackVars, callVars, mishap>>

PathInit == TrackInit /\ P!PresenceInit /\ mishap = {}

\* handleEvent up to the supervisor.  The loop starts after RegisterProvider.
EventBegins ==
  /\ booted
  /\ HandleEvent
  /\ UNCHANGED <<callVars, mishap>>

\* The end of onDeviceConnected and of onDeviceDisconnected.
EventEnds ==
  /\ EventHandled
  /\ \E e \in handling :
       IF e.type = "connected" THEN P!Plug(e.serial) ELSE P!Unplug(e.serial)
  /\ UNCHANGED mishap

\* App.Run starts the trackers after it has registered the provider.
TrackerStep ==
  /\ \/ \E s \in Serial : UsbChange(s)
     \/ booted /\ (AdbStep \/ AdbLost \/ IosStep \/ MuxLost)
  /\ UNCHANGED <<callVars, mishap>>

\* A call is executed, answered or given up.
CallTaken(c) ==
  /\ c \in calls \cup expired
  /\ P!CallRegister(c) \/ P!CallRelease(c)
  /\ mishap' = IF c[2] = "register" /\ ~providerRow THEN mishap \cup {c[3]} ELSE mishap

CallAnswered(c) ==
  /\ c \in replies
  /\ P!CallReturns(c)
  /\ mishap' = IF \E d \in calls \cup replies : d[3] = c[3] /\ d[1] < c[1]
               THEN mishap \cup {c[3]} ELSE mishap

CallGivenUp(c) ==
  /\ c \in calls \cup replies
  /\ P!CallExpires(c)
  /\ mishap' = mishap \cup {c[3]}

CallMoves(c) ==
  /\ CallTaken(c) \/ CallAnswered(c) \/ CallGivenUp(c)
  /\ UNCHANGED trackVars

LinkStep ==
  /\ \/ P!Boot \/ P!OpenStream \/ P!SendPing \/ P!ClientNotices
     \/ P!BreakStream \/ P!OutageBegins \/ P!CoordinatorCrashes \/ P!OutageEnds
     \/ \E i \in P!Stream : P!HandlerStep(i)
  /\ UNCHANGED <<trackVars, mishap>>

PathNext ==
  \/ EventBegins \/ EventEnds \/ TrackerStep
  \/ \E c \in calls \cup replies \cup expired : CallMoves(c)
  \/ LinkStep

PathSpec == PathInit /\ [][PathNext]_pathVars /\ TrackFairness /\ P!PresenceFairness

-----------------------------------------------------------------------------
\* Nothing about s is under way in the event loop or at the coordinator.
Settled(s) ==
  /\ \A e \in handling : e.serial # s
  /\ \A c \in calls \cup replies : c[3] # s

\* The list that every heartbeat carries (Client.serials) follows the registry:
\* once the handler and the calls about a device are over it names the device
\* exactly if the registry has it, however often the device came and went
\* meanwhile and in whatever order the coordinator executed the calls, unless one
\* of them timed out or was refused, or the answers were taken out of order.
ListFollowsRegistry ==
  \A s \in Serial :
    s \notin mishap /\ Settled(s) => (s \in listed <=> s \in registered)

\* A device that stays attached is shown as available in the end, through lost
\* connections to adb and usbmuxd, a full channel, calls executed out of order,
\* broken heartbeats, late clean-ups and a restarted coordinator; the exceptions
\* are a device whose properties could not be fetched, one whose notifications
\* timed out, were refused or answered out of order, and a handler of the event
\* loop that waits for ever.
AttachedAvailable ==
  \A s \in Serial :
    <>[](usb[s] = "device") => \/ <>[](row[s] = "idle" \/ s \in skipped \cup mishap)
                               \/ <>[](handling # {})
=============================================================================
