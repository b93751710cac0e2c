------------------------------ MODULE Trackers ------------------------------
(***************************************************************************)
(* From the USB ports to the registry: the Android tracker (internal/adb), *)
(* which diffs the snapshots the ADB daemon pushes, the iOS tracker        *)
(* (internal/goios), which reads usbmuxd's messages, the bounded channel   *)
(* of events they share, and the event loop that fills the registry.       *)
(* Shutting down is left out.                                              *)
(***************************************************************************)
EXTENDS Naturals, SequencesExt

CONSTANTS
  Android,    \* serials of Android devices
  Ios,        \* serials of iOS devices
  Capacity,   \* eventBufferSize
  MaxChange,  \* bound: changes on the USB ports
  MaxLoss     \* bound: lost connections to adb or usbmuxd

ASSUME TrackersAssumption ==
  /\ Android \cap Ios = {}
  /\ IsFiniteSet(Ios)
  /\ Capacity \in Nat \ {0}
  /\ MaxChange \in Nat
  /\ MaxLoss \in Nat

VARIABLES
  usb,        \* what adb and usbmuxd see, "absent" or a state
  changes,    \* changes so far
  losses,     \* lost connections so far
  adbOpen,    \* the track-devices connection is open
  pushed,     \* snapshots pushed and not read
  previous,   \* the tracker's last snapshot, "absent" for a missing serial
  adbEmit,    \* events of the diff or the eviction still to be emitted
  muxOpen,    \* the usbmuxd listener is open
  muxed,      \* usbmuxd's messages not read
  connected,  \* the iOS tracker's map
  iosEmit,    \* events the iOS tracker still has to send
  ch,         \* the channel
  registered, \* the registry
  handling,   \* the event whose handler is in the long part of its work
  skipped,    \* history: last Connected event had no Device
  lost        \* history: removals for which no event was sent

worldVars == <<usb, changes, losses>>
adbVars == <<adbOpen, pushed, previous, adbEmit>>
iosVars == <<muxOpen, muxed, connected, iosEmit>>
appVars == <<ch, registered, handling, skipped>>
trackVars == <<worldVars, adbVars, iosVars, appVars, lost>>

Serial == Android \cup Ios
AdbState == {"absent", "device", "offline", "unauthorized"}
Event == [serial : Serial,
          type : {"connected", "nodevice", "offline", "unauthorized", "disconnected"}]
Ev(s, t) == [serial |-> s, type |-> t]
Snapshot == [s \in Android |-> usb[s]]

TrackInit ==
  /\ usb = [s \in Serial |-> "absent"]
  /\ changes = 0
  /\ losses = 0
  /\ adbOpen = FALSE
  /\ pushed = <<>>
  /\ previous = [s \in Android |-> "absent"]
  /\ adbEmit = {}
  /\ muxOpen = FALSE
  /\ muxed = <<>>
  /\ connected = {}
  /\ iosEmit = {}
  /\ ch = <<>>
  /\ registered = {}
  /\ handling = {}
  /\ skipped = {}
  /\ lost = {}

-----------------------------------------------------------------------------
(***************************************************************************)
(* The ports.  The ADB daemon pushes a snapshot at every change, usbmuxd a *)
(* message.                                                                *)
(***************************************************************************)
UsbChange(s) ==
  /\ changes < MaxChange
  /\ changes' = changes + 1
  /\ \E st \in IF s \in Android THEN AdbState ELSE {"absent", "device"} :
       /\ st # usb[s]
       /\ usb' = [usb EXCEPT ![s] = st]
       /\ pushed' = IF s \in Android /\ adbOpen
                    THEN Append(pushed, [Snapshot EXCEPT ![s] = st]) ELSE pushed
       /\ muxed' = IF s \in Ios /\ muxOpen
                   THEN Append(muxed, <<s, st = "device">>) ELSE muxed
  /\ UNCHANGED <<losses, adbOpen, previous, adbEmit, muxOpen, connected,
                 iosEmit, appVars, lost>>

-----------------------------------------------------------------------------
(***************************************************************************)
(* Android: Tracker.Watch, stream, diff, evictAll.                         *)
(***************************************************************************)

\* openTrackConn; the daemon answers with a first snapshot.
AdbConnect ==
  /\ ~adbOpen
  /\ adbEmit = {}
  /\ adbOpen' = TRUE
  /\ pushed' = <<Snapshot>>
  /\ UNCHANGED <<worldVars, previous, adbEmit, iosVars, appVars, lost>>

\* Mutant of Diff: a device that comes back from offline is not announced.
MutDiffNewOnly(current) ==
  {Ev(s, IF current[s] = "device" THEN "connected" ELSE current[s]) :
     s \in {t \in Android : current[t] # "absent" /\ previous[t] = "absent"}}
  \cup {Ev(s, "disconnected") :
     s \in {t \in Android : current[t] = "absent" /\ previous[t] # "absent"}}

\* diff: one event per serial whose state differs.
Diff(current) ==
  {Ev(s, CASE current[s] = "device" -> "connected"
           [] current[s] = "absent" -> "disconnected"
           [] OTHER -> current[s]) : s \in {t \in Android : current[t] # previous[t]}}

\* stream reads a snapshot; previous is replaced when the diff is done, which
\* nobody can tell from replacing it now.
AdbRead ==
  /\ adbOpen
  /\ adbEmit = {}
  /\ pushed # <<>>
  /\ adbEmit' = Diff(Head(pushed))
  /\ previous' = Head(pushed)
  /\ pushed' = Tail(pushed)
  /\ UNCHANGED <<worldVars, adbOpen, iosVars, appVars, lost>>

\* The connection drops.  evictAll announces only devices in state "device".
AdbLost ==
  /\ adbOpen
  /\ adbEmit = {}
  /\ losses < MaxLoss
  /\ losses' = losses + 1
  /\ adbOpen' = FALSE
  /\ pushed' = <<>>
  /\ previous' = [s \in Android |-> "absent"]
  /\ adbEmit' = {Ev(s, "disconnected") : s \in {t \in Android : previous[t] = "device"}}
  /\ lost' = lost \cup {s \in Android : previous[s] \in {"offline", "unauthorized"}}
  /\ UNCHANGED <<usb, changes, iosVars, appVars>>

\* Map iteration is unordered, but removals come last.
Emittable(e) ==
  /\ e \in adbEmit
  /\ e.type = "disconnected" => \A f \in adbEmit : f.type = "disconnected"

Send(e) ==
  /\ Len(ch) < Capacity
  /\ ch' = Append(ch, e)

\* emitConnected fetches the properties, or fails to, and blocks until there
\* is room.
EmitConnected(e) ==
  /\ Emittable(e)
  /\ e.type = "connected"
  /\ Send(e) \/ Send(Ev(e.serial, "nodevice"))
  /\ adbEmit' = adbEmit \ {e}
  /\ UNCHANGED <<worldVars, adbOpen, pushed, previous, iosVars, registered,
                 handling, skipped, lost>>

\* emitSimple drops the event when the channel is full.
EmitSimple(e) ==
  /\ Emittable(e)
  /\ e.type # "connected"
  /\ IF Len(ch) < Capacity
     THEN Send(e) /\ lost' = lost \ {e.serial}
     ELSE /\ UNCHANGED ch
          /\ lost' = IF e.type = "disconnected" THEN lost \cup {e.serial} ELSE lost
  /\ adbEmit' = adbEmit \ {e}
  /\ UNCHANGED <<worldVars, adbOpen, pushed, previous, iosVars, registered,
                 handling, skipped>>

-----------------------------------------------------------------------------
(***************************************************************************)
(* iOS: Tracker.Watch.  All its sends block.                               *)
(***************************************************************************)

\* usbmuxd first announces the devices that are attached.
MuxConnect ==
  /\ ~muxOpen
  /\ iosEmit = {}
  /\ muxOpen' = TRUE
  /\ muxed' = SetToSeq({<<s, TRUE>> : s \in {t \in Ios : usb[t] = "device"}})
  /\ UNCHANGED <<worldVars, adbVars, connected, iosEmit, appVars, lost>>

\* A message is read; one that tells nothing new is ignored.  Failing to fetch
\* the properties gives a device with basic information.
MuxRead ==
  /\ muxOpen
  /\ iosEmit = {}
  /\ muxed # <<>>
  /\ muxed' = Tail(muxed)
  /\ LET s == Head(muxed)[1]
         attached == Head(muxed)[2]
     IN  /\ connected' = IF attached THEN connected \cup {s} ELSE connected \ {s}
         /\ iosEmit' = IF (s \in connected) = attached THEN {}
                       ELSE {Ev(s, IF attached THEN "connected" ELSE "disconnected")}
  /\ UNCHANGED <<worldVars, adbVars, muxOpen, appVars, lost>>

\* Mutant of MuxLost: the map is cleared without announcing the devices.
MutMuxLostSilent ==
  /\ muxOpen
  /\ iosEmit = {}
  /\ losses < MaxLoss
  /\ losses' = losses + 1
  /\ muxOpen' = FALSE
  /\ muxed' = <<>>
  /\ connected' = {}
  /\ UNCHANGED <<usb, changes, adbVars, iosEmit, appVars, lost>>

\* The listener drops; evictAll announces every device and clears the map.
MuxLost ==
  /\ muxOpen
  /\ iosEmit = {}
  /\ losses < MaxLoss
  /\ losses' = losses + 1
  /\ muxOpen' = FALSE
  /\ muxed' = <<>>
  /\ connected' = {}
  /\ iosEmit' = {Ev(s, "disconnected") : s \in connected}
  /\ UNCHANGED <<usb, changes, adbVars, appVars, lost>>

IosSend(e) ==
  /\ e \in iosEmit
  /\ Send(e)
  /\ iosEmit' = iosEmit \ {e}
  /\ UNCHANGED <<worldVars, adbVars, muxOpen, muxed, connected, registered,
                 handling, skipped, lost>>

-----------------------------------------------------------------------------
(***************************************************************************)
(* The event loop, handleEvent.                                            *)
(***************************************************************************)

\* The registry comes first: onDeviceConnected returns at once from an event
\* without a Device and for a serial that is registered; unauthorized and
\* offline are only logged.  What follows may take long: a device that came has
\* the scrcpy server pushed to it and its supervisor started, with adb commands
\* that have no time limit; for one that left DeviceSupervisor.Stop waits.
HandleEvent ==
  /\ handling = {}
  /\ ch # <<>>
  /\ ch' = Tail(ch)
  /\ LET e == Head(ch)
         added == e.type = "connected" /\ e.serial \notin registered
     IN  /\ registered' = CASE e.type = "connected" -> registered \cup {e.serial}
                            [] e.type = "disconnected" -> registered \ {e.serial}
                            [] OTHER -> registered
         /\ skipped' = CASE e.type = "nodevice" -> skipped \cup {e.serial}
                         [] e.type \in {"connected", "disconnected"} -> skipped \ {e.serial}
                         [] OTHER -> skipped
         /\ handling' = IF added \/ e.type = "disconnected" THEN {e} ELSE {}
  /\ UNCHANGED <<worldVars, adbVars, iosVars, lost>>

\* The supervisor's part is over; the goroutine that tells the coordinator is
\* started.
EventHandled ==
  /\ handling # {}
  /\ handling' = {}
  /\ UNCHANGED <<worldVars, adbVars, iosVars, ch, registered, skipped, lost>>

AdbStep ==
  \/ AdbConnect \/ AdbRead
  \/ \E e \in adbEmit : EmitConnected(e) \/ EmitSimple(e)

IosStep == MuxConnect \/ MuxRead \/ \E e \in iosEmit : IosSend(e)

TrackNext ==
  \/ \E s \in Serial : UsbChange(s)
  \/ AdbStep \/ AdbLost
  \/ IosStep \/ MuxLost
  \/ HandleEvent \/ EventHandled

TrackSpec == TrackInit /\ [][TrackNext]_trackVars

\* Fairness: the trackers run and the event loop takes its events, but nothing
\* says that a handler's work comes to its end (EventHandled); both trackers retry a lost
\* connection after at most 30 seconds.  The trackers compete for room in the
\* channel, which Go gives to blocked senders in the order they came.
TrackFairness ==
  /\ WF_trackVars(HandleEvent)
  /\ SF_trackVars(AdbStep)
  /\ SF_trackVars(IosStep)

FairTrackSpec == TrackSpec /\ TrackFairness

-----------------------------------------------------------------------------
TrackTypeOK ==
  /\ usb \in [Serial -> AdbState]
  /\ changes \in 0..MaxChange
  /\ losses \in 0..MaxLoss
  /\ adbOpen \in BOOLEAN
  /\ pushed \in Seq([Android -> AdbState])
  /\ previous \in [Android -> AdbState]
  /\ adbEmit \subseteq Event
  /\ muxOpen \in BOOLEAN
  /\ muxed \in Seq(Ios \X BOOLEAN)
  /\ connected \subseteq Ios
  /\ iosEmit \subseteq Event
  /\ ch \in Seq(Event) /\ Len(ch) <= Capacity
  /\ registered \subseteq Serial
  /\ handling \subseteq Event
  /\ skipped \subseteq Serial
  /\ lost \subseteq Android

\* An event of s is on its way from its tracker to the event loop.
InFlight(s) ==
  \/ \E e \in adbEmit \cup iosEmit : e.serial = s
  \/ \E i \in DOMAIN ch : ch[i].serial = s

\* A registered device is known to its tracker once its events have been
\* handled.  Only an Android device can be left behind: its Disconnected event
\* was dropped on a full channel, or it was offline when the connection to the
\* ADB daemon was lost.
NoGhost ==
  \A s \in registered :
    ~InFlight(s) => \/ IF s \in Ios THEN s \in connected ELSE previous[s] # "absent"
                    \/ s \in lost

\* A device that stays attached is registered in the end: no blocked send, full
\* channel or lost connection keeps it out.  Only a handler of the event loop
\* that waits for ever does, on an adb command or on DeviceSupervisor.Stop.
AttachedRegistered ==
  \A s \in Serial :
    <>[](usb[s] = "device") => \/ <>[](s \in registered \cup skipped)
                               \/ <>[](handling # {})

\* The same without the exception: the event loop outlives every handler.  The
\* code does not have this property.
AttachedAlwaysRegistered ==
  \A s \in Serial : <>[](usb[s] = "device") => <>[](s \in registered \cup skipped)

\* "emits EventDisconnected for every currently-known device" (tracker.go) and
\* "one event per state change" (interfaces.go): no device that left stays
\* registered.  The code does not have this property.
NoGhostAtAll ==
  \A s \in registered :
    ~InFlight(s) => IF s \in Ios THEN s \in connected ELSE previous[s] # "absent"

=============================================================================
