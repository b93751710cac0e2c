---------------------------- MODULE MCDevicePath ----------------------------
(***************************************************************************)
(* TLC instance of DevicePath: one device, an Android or an iOS one, is    *)
(* plugged in and unplugged.  The tracker of the other platform, which has *)
(* nothing to tell, connects at once and stays connected.  The state       *)
(* "unauthorized", handled like "offline", is left to MCTrackers.  A       *)
(* behaviour is followed up to the first mishap, after which neither       *)
(* property says anything about the device.                                *)
(***************************************************************************)
EXTENDS DevicePath

VARIABLE unit   \* the device that is used

UnitInit == PathInit /\ unit \in Serial

OtherTracker ==
  IF unit \in Android
  THEN (booted /\ ~muxOpen => MuxConnect) /\ ~MuxLost
  ELSE (booted /\ (~adbOpen \/ pushed # <<>>) => AdbConnect \/ AdbRead) /\ ~AdbLost

UnitNext ==
  /\ mishap = {}
  /\ PathNext
  /\ OtherTracker
  /\ \A s \in Serial \ {unit} : usb'[s] = usb[s]
  /\ usb'[unit] # "unauthorized"
  /\ UNCHANGED unit

UnitSpec ==
  /\ UnitInit /\ [][UnitNext]_<<pathVars, unit>>
  /\ TrackFairness /\ P!PresenceFairness
=============================================================================
