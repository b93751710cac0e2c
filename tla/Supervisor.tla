----------------------------- MODULE Supervisor -----------------------------
(***************************************************************************)
(* The life of the devices plugged into a provider: the event loop and the *)
(* admin socket of internal/app, the registry, the supervisor with one     *)
(* DeviceSupervisor per connection, the port allocator and the stream      *)
(* manager's table of captures.                                            *)
(*                                                                         *)
(* Goroutines are the processes of the model: the event loop, one per      *)
(* admin connection, one Run per DeviceSupervisor, one per inbound gRPC    *)
(* call (Caller), and one per capture.  A step of a goroutine ends where   *)
(* it takes or gives up a mutex, or blocks.                                *)
(***************************************************************************)
EXTENDS PortAllocator

CONSTANTS
  Loop,      \* the goroutine of App.Run
  Admin,     \* goroutines of handleAdminConn
  Caller,    \* goroutines of the inbound gRPC server
  MaxDs,     \* bound: DeviceSupervisors ever created
  None       \* nil

ASSUME SupervisorAssumption ==
  /\ MaxDs \in Nat
  /\ Loop \notin Admin
  /\ None \notin Caller \cup Serial \cup 1..MaxDs
  /\ Caller \cap 1..MaxDs = {}

VARIABLES
  registered,  \* registry: serials present
  devices,     \* Supervisor.devices: serial -> supervisor, or None
  ctl,         \* program counter of the event loop and the admin goroutines
  ctlSerial,   \* the serial it handles
  ctlDs,       \* the supervisor it stops
  resetting,   \* handleAdminConn: reconnect after the disconnect
  wasReset,    \* history: serials an admin connection has reset
  shutdown,    \* the event loop has seen ctx.Done
  drain,       \* StopAll: serials still to be stopped
  run,         \* program counter of DeviceSupervisor.Run
  serialOf,    \* ds.device.Serial
  cancelled,   \* ds.cancel() was called
  allocated,   \* Run's local variable port
  state,       \* ds.state
  session,     \* ds.sessionID # ""
  port,        \* ds.port
  call,        \* program counter of a gRPC handler
  callDs,      \* the supervisor pointer the handler got from Supervisor.get
  streams,     \* Manager.streams: serial -> capture, or NoCapture
  stopping     \* the capture a goroutine in StopCapture waits for

appVars == <<registered, shutdown, drain, resetting, wasReset>>
ctlVars == <<ctl, ctlSerial, ctlDs>>
dsVars  == <<serialOf, cancelled, allocated, state, session, port>>
callVars == <<call, callDs>>
streamVars == <<streams, stopping>>
vars == <<portVars, appVars, ctlVars, devices, run, dsVars, callVars, streamVars>>

Ds == 1..MaxDs
Controller == {Loop} \cup Admin

\* A capture: the port its HTTP server listens on, and whether its goroutine
\* still runs ("dead": it has returned and closed done and the listener).
Capture == [port : Pool \cup {NoPort}, status : {"none", "live", "dead"}]
NoCapture == [port |-> NoPort, status |-> "none"]

RunPC == {"unborn", "spawned", "allocating", "publishing", "serving",
          "stopCapture", "awaitCapture", "free", "done"}

SupInit ==
  /\ PortInit
  /\ registered = {}
  /\ devices = [s \in Serial |-> None]
  /\ ctl = [k \in Controller |-> "ready"]
  /\ ctlSerial = [k \in Controller |-> None]
  /\ ctlDs = [k \in Controller |-> None]
  /\ resetting = [k \in Controller |-> FALSE]
  /\ wasReset = {}
  /\ shutdown = FALSE
  /\ drain = {}
  /\ run = [d \in Ds |-> "unborn"]
  /\ serialOf = [d \in Ds |-> None]
  /\ cancelled = [d \in Ds |-> FALSE]
  /\ allocated = [d \in Ds |-> NoPort]
  /\ state = [d \in Ds |-> "idle"]
  /\ session = [d \in Ds |-> FALSE]
  /\ port = [d \in Ds |-> NoPort]
  /\ call = [c \in Caller |-> "ready"]
  /\ callDs = [c \in Caller |-> None]
  /\ streams = [s \in Serial |-> NoCapture]
  /\ stopping = [t \in Ds \cup Caller |-> NoCapture]

-----------------------------------------------------------------------------
(***************************************************************************)
(* App: events of the device trackers, the admin socket and shutdown.      *)
(***************************************************************************)
Goto(k, pc) == ctl' = [ctl EXCEPT ![k] = pc]

\* The handler returns; its serial is forgotten, unless a reset goes on.
Finish(k, pc) ==
  /\ Goto(k, pc)
  /\ ctlSerial' = [ctlSerial EXCEPT ![k] = IF pc = "add" THEN @ ELSE None]

\* onDeviceConnected up to the supervisor: registry.Add refuses a serial that
\* is present; otherwise scrcpy-server is pushed to the device.
AddDevice(k, s) ==
  /\ IF s \in registered
     THEN /\ Finish(k, "ready")
          /\ UNCHANGED registered
     ELSE /\ Goto(k, "connect")
          /\ ctlSerial' = [ctlSerial EXCEPT ![k] = s]
          /\ registered' = registered \cup {s}
  /\ resetting' = [resetting EXCEPT ![k] = FALSE]
  /\ UNCHANGED <<portVars, shutdown, drain, wasReset, ctlDs, devices, run,
                 dsVars, callVars, streamVars>>

\* onDeviceDisconnected up to the supervisor: registry.Remove; an absent
\* serial is only logged.
RemoveDevice(k, s) ==
  /\ Goto(k, "detach")
  /\ ctlSerial' = [ctlSerial EXCEPT ![k] = s]
  /\ registered' = registered \ {s}
  /\ UNCHANGED <<portVars, shutdown, drain, resetting, wasReset, ctlDs, devices,
                 run, dsVars, callVars, streamVars>>

\* The event loop receives an event of a tracker.  Connected and Disconnected
\* need not alternate: the Android tracker drops events on a full channel.
ConnectedEvent(s)    == ctl[Loop] = "ready" /\ AddDevice(Loop, s)
DisconnectedEvent(s) == ctl[Loop] = "ready" /\ RemoveDevice(Loop, s)

\* handleAdminConn, "reset <serial>": the registry is read, then the
\* disconnect handler and, after a pause, the connect handler run.
AdminReset(k, s) ==
  /\ ctl[k] = "ready"
  /\ s \in registered
  /\ Goto(k, "remove")
  /\ ctlSerial' = [ctlSerial EXCEPT ![k] = s]
  /\ resetting' = [resetting EXCEPT ![k] = TRUE]
  /\ wasReset' = wasReset \cup {s}
  /\ UNCHANGED <<portVars, registered, shutdown, drain, ctlDs, devices, run,
                 dsVars, callVars, streamVars>>

AdminRemove(k) == ctl[k] = "remove" /\ RemoveDevice(k, ctlSerial[k])
AdminAdd(k)    == ctl[k] = "add" /\ AddDevice(k, ctlSerial[k])

\* drainAndCleanup: the inbound server is stopped, then StopAll takes a
\* snapshot of the supervised serials and disconnects them one by one.
Shutdown ==
  /\ ctl[Loop] = "ready"
  /\ Goto(Loop, "drain")
  /\ shutdown' = TRUE
  /\ drain' = {s \in Serial : devices[s] # None}
  /\ UNCHANGED <<portVars, registered, resetting, wasReset, ctlSerial, ctlDs,
                 devices, run, dsVars, callVars, streamVars>>

StopNext ==
  /\ ctl[Loop] = "drain"
  /\ \E s \in drain :
       /\ drain' = drain \ {s}
       /\ ctlSerial' = [ctlSerial EXCEPT ![Loop] = s]
  /\ Goto(Loop, "detach")
  /\ UNCHANGED <<portVars, registered, shutdown, resetting, wasReset, ctlDs,
                 devices, run, dsVars, callVars, streamVars>>

\* Mutant of Exit: StopAll does not wait for all supervisors.
MutExitEarly ==
  /\ ctl[Loop] = "drain"
  /\ Goto(Loop, "exited")
  /\ UNCHANGED <<portVars, appVars, ctlSerial, ctlDs, devices, run, dsVars,
                 callVars, streamVars>>

Exit ==
  /\ ctl[Loop] = "drain"
  /\ drain = {}
  /\ Goto(Loop, "exited")
  /\ UNCHANGED <<portVars, appVars, ctlSerial, ctlDs, devices, run, dsVars,
                 callVars, streamVars>>

-----------------------------------------------------------------------------
(***************************************************************************)
(* Supervisor: the map of supervisors, guarded by s.mu.                    *)
(***************************************************************************)

\* OnDeviceConnected ignores a serial that is supervised; otherwise it stores
\* a new supervisor and spawns its Run.
OnDeviceConnected(k) ==
  /\ ctl[k] = "connect"
  /\ Finish(k, "ready")
  /\ IF devices[ctlSerial[k]] # None
     THEN UNCHANGED <<devices, run, serialOf>>
     ELSE \E d \in Ds :
            /\ run[d] = "unborn"
            /\ \A e \in Ds : e < d => run[e] # "unborn"
            /\ devices' = [devices EXCEPT ![ctlSerial[k]] = d]
            /\ run' = [run EXCEPT ![d] = "spawned"]
            /\ serialOf' = [serialOf EXCEPT ![d] = ctlSerial[k]]
  /\ UNCHANGED <<portVars, appVars, ctlDs, cancelled, allocated,
                 state, session, port, callVars, streamVars>>

\* Where a controller continues when OnDeviceDisconnected returns.
AfterDisconnect(k) ==
  IF resetting[k] THEN "add"
  ELSE IF k = Loop /\ shutdown THEN "drain" ELSE "ready"

\* Mutant of OnDeviceDisconnected: the supervisor stays in the map.
MutDisconnectKeepsEntry(k) ==
  /\ ctl[k] = "detach"
  /\ LET d == devices[ctlSerial[k]] IN
       IF d = None
       THEN /\ Finish(k, AfterDisconnect(k))
            /\ UNCHANGED ctlDs
       ELSE /\ Goto(k, "stop")
            /\ UNCHANGED ctlSerial
            /\ ctlDs' = [ctlDs EXCEPT ![k] = d]
  /\ UNCHANGED <<portVars, appVars, devices, run, dsVars, callVars, streamVars>>

\* OnDeviceDisconnected: the supervisor leaves the map under s.mu; it is
\* stopped after the mutex is released.
OnDeviceDisconnected(k) ==
  /\ ctl[k] = "detach"
  /\ LET d == devices[ctlSerial[k]] IN
       IF d = None
       THEN /\ Finish(k, AfterDisconnect(k))
            /\ UNCHANGED <<devices, ctlDs>>
       ELSE /\ Goto(k, "stop")
            /\ UNCHANGED ctlSerial
            /\ devices' = [devices EXCEPT ![ctlSerial[k]] = None]
            /\ ctlDs' = [ctlDs EXCEPT ![k] = d]
  /\ UNCHANGED <<portVars, appVars, run, dsVars, callVars,
                 streamVars>>

\* Run's first step stores ds.cancel.
CancelStored(d) == run[d] \notin {"unborn", "spawned"}

\* DeviceSupervisor.Stop: ds.cancel is read without a lock; while Run has not
\* stored it yet, nothing is cancelled.
Stop(k) ==
  /\ ctl[k] = "stop"
  /\ Goto(k, "await")
  /\ cancelled' = [cancelled EXCEPT ![ctlDs[k]] = @ \/ CancelStored(ctlDs[k])]
  /\ UNCHANGED <<portVars, appVars, ctlSerial, ctlDs, devices, run, serialOf,
                 allocated, state, session, port, callVars,
                 streamVars>>

\* ... and waits for done.
StopReturns(k) ==
  /\ ctl[k] = "await"
  /\ run[ctlDs[k]] = "done"
  /\ Finish(k, AfterDisconnect(k))
  /\ ctlDs' = [ctlDs EXCEPT ![k] = None]
  /\ UNCHANGED <<portVars, appVars, devices, run, dsVars, callVars, streamVars>>

-----------------------------------------------------------------------------
(***************************************************************************)
(* DeviceSupervisor.Run                                                    *)
(***************************************************************************)
\* ds.mu is held across a blocking call: Release waits for StopCapture.
Locked(d) == \E c \in Caller : callDs[c] = d /\ call[c] = "releasing"

RunGoto(d, pc) == run' = [run EXCEPT ![d] = pc]

RunStart(d) ==
  /\ run[d] = "spawned"
  /\ RunGoto(d, "allocating")
  /\ UNCHANGED <<portVars, appVars, ctlVars, devices, serialOf, cancelled,
                 allocated, state, session, port, callVars, streamVars>>

\* On an exhausted pool Run returns at once and closes done.
RunAllocate(d) ==
  /\ run[d] = "allocating"
  /\ Allocate(serialOf[d])
  /\ allocated' = [allocated EXCEPT ![d] = bySerial'[serialOf[d]]]
  /\ RunGoto(d, IF bySerial'[serialOf[d]] = NoPort THEN "done" ELSE "publishing")
  /\ UNCHANGED <<appVars, ctlVars, devices, serialOf, cancelled,
                 state, session, port, callVars, streamVars>>

\* ds.port is stored under ds.mu; the agent or the iOS worker is started.
RunPublish(d) ==
  /\ run[d] = "publishing"
  /\ ~Locked(d)
  /\ RunGoto(d, "serving")
  /\ port' = [port EXCEPT ![d] = allocated[d]]
  /\ UNCHANGED <<portVars, appVars, ctlVars, devices, serialOf,
                 cancelled, allocated, state, session, callVars, streamVars>>

\* teardown, under ds.mu: agent, worker and session are taken off the
\* supervisor; its state is not.  The agent or the worker is then stopped.
RunTeardown(d) ==
  /\ run[d] = "serving"
  /\ cancelled[d]
  /\ ~Locked(d)
  /\ RunGoto(d, "stopCapture")
  /\ session' = [session EXCEPT ![d] = FALSE]
  /\ UNCHANGED <<portVars, appVars, ctlVars, devices, serialOf,
                 cancelled, allocated, state, port, callVars, streamVars>>

\* StopCapture by goroutine t: the entry leaves the table under m.mu, the
\* capture is cancelled, and the goroutine waits for it to be done.
BeginStopCapture(t, s) ==
  /\ streams' = [streams EXCEPT ![s] = NoCapture]
  /\ stopping' = [stopping EXCEPT ![t] = streams[s]]

EndStopCapture(t) ==
  /\ stopping[t].status # "live"
  /\ stopping' = [stopping EXCEPT ![t] = NoCapture]

RunStopCapture(d) ==
  /\ run[d] = "stopCapture"
  /\ RunGoto(d, "awaitCapture")
  /\ BeginStopCapture(d, serialOf[d])
  /\ UNCHANGED <<portVars, appVars, ctlVars, devices, dsVars, callVars>>

RunCaptureDone(d) ==
  /\ run[d] = "awaitCapture"
  /\ RunGoto(d, "free")
  /\ EndStopCapture(d)
  /\ UNCHANGED <<portVars, appVars, ctlVars, devices, dsVars, callVars,
                 streams>>

\* Mutant of RunFree: teardown forgets ports.Free.
MutTeardownKeepsPort(d) ==
  /\ run[d] = "free"
  /\ RunGoto(d, "done")
  /\ UNCHANGED <<portVars, appVars, ctlVars, devices, dsVars, callVars,
                 streamVars>>

RunFree(d) ==
  /\ run[d] = "free"
  /\ RunGoto(d, "done")
  /\ Free(serialOf[d])
  /\ UNCHANGED <<appVars, ctlVars, devices, dsVars, callVars, streamVars>>

RunStep(d) ==
  \/ RunStart(d) \/ RunAllocate(d) \/ RunPublish(d) \/ RunTeardown(d)
  \/ RunStopCapture(d) \/ RunCaptureDone(d) \/ RunFree(d)

-----------------------------------------------------------------------------
(***************************************************************************)
(* The inbound gRPC handlers.  Supervisor.get hands out a pointer to a     *)
(* DeviceSupervisor; the handler locks ds.mu later.                        *)
(***************************************************************************)
Get(c, s, op) ==
  /\ call[c] = "ready"
  /\ ~shutdown
  /\ devices[s] # None
  /\ call' = [call EXCEPT ![c] = op]
  /\ callDs' = [callDs EXCEPT ![c] = devices[s]]
  /\ UNCHANGED <<portVars, appVars, ctlVars, devices, run, dsVars,
                 streamVars>>

Return(c) ==
  /\ call' = [call EXCEPT ![c] = "ready"]
  /\ callDs' = [callDs EXCEPT ![c] = None]

Listening(p) ==
  /\ p # NoPort
  /\ \/ \E s \in Serial : streams[s].status = "live" /\ streams[s].port = p
     \/ \E t \in Ds \cup Caller : stopping[t].status = "live" /\ stopping[t].port = p

\* Manager.StartCapture returns nil: an entry in the table counts as an
\* active capture; otherwise one is started.  Port 0 makes the listener take
\* any free port.
StartCaptureOk(s, p) ==
  \/ /\ streams[s].status # "none"
     /\ UNCHANGED streams
  \/ /\ streams[s].status = "none"
     /\ ~Listening(p)
     /\ streams' = [streams EXCEPT ![s] = [port |-> p, status |-> "live"]]

\* Mutant of ClaimOk: the error of StartCapture is ignored.
MutClaimIgnoresCapture(c) ==
  LET d == callDs[c] IN
  /\ call[c] = "claim"
  /\ ~Locked(d)
  /\ state[d] = "idle"
  /\ UNCHANGED streams \/ StartCaptureOk(serialOf[d], port[d])
  /\ state' = [state EXCEPT ![d] = "claimed"]
  /\ session' = [session EXCEPT ![d] = TRUE]
  /\ Return(c)
  /\ UNCHANGED <<portVars, appVars, ctlVars, devices, run, serialOf,
                 cancelled, allocated, port, stopping>>

\* DeviceSupervisor.Claim.
ClaimOk(c) ==
  LET d == callDs[c] IN
  /\ call[c] = "claim"
  /\ ~Locked(d)
  /\ state[d] = "idle"
  /\ StartCaptureOk(serialOf[d], port[d])
  /\ state' = [state EXCEPT ![d] = "claimed"]
  /\ session' = [session EXCEPT ![d] = TRUE]
  /\ Return(c)
  /\ UNCHANGED <<portVars, appVars, ctlVars, devices, run, serialOf,
                 cancelled, allocated, port, stopping>>

\* The device is not idle, or no capture is active and StartCapture fails.
ClaimError(c) ==
  LET d == callDs[c] IN
  /\ call[c] = "claim"
  /\ ~Locked(d)
  /\ state[d] # "idle" \/ streams[serialOf[d]].status = "none"
  /\ Return(c)
  /\ UNCHANGED <<portVars, appVars, ctlVars, devices, run, dsVars,
                 streamVars>>

\* DeviceSupervisor.Activate; a device that is not claimed is an error.
Activate(c) ==
  LET d == callDs[c] IN
  /\ call[c] = "activate"
  /\ ~Locked(d)
  /\ state' = IF state[d] = "claimed" THEN [state EXCEPT ![d] = "busy"] ELSE state
  /\ Return(c)
  /\ UNCHANGED <<portVars, appVars, ctlVars, devices, run, serialOf,
                 cancelled, allocated, session, port, streamVars>>

\* Mutant of Release: the session id is not cleared.
MutReleaseKeepsSession(c) ==
  LET d == callDs[c] IN
  /\ call[c] = "release"
  /\ ~Locked(d)
  /\ state[d] \notin {"idle", "releasing"}
  /\ call' = [call EXCEPT ![c] = "releasing"]
  /\ state' = [state EXCEPT ![d] = "releasing"]
  /\ BeginStopCapture(c, serialOf[d])
  /\ UNCHANGED <<portVars, appVars, ctlVars, devices, run, serialOf,
                 cancelled, allocated, session, port, callDs>>

\* DeviceSupervisor.Release holds ds.mu until StopCapture returns.
Release(c) ==
  LET d == callDs[c] IN
  /\ call[c] = "release"
  /\ ~Locked(d)
  /\ state[d] \notin {"idle", "releasing"}
  /\ call' = [call EXCEPT ![c] = "releasing"]
  /\ state' = [state EXCEPT ![d] = "releasing"]
  /\ session' = [session EXCEPT ![d] = FALSE]
  /\ BeginStopCapture(c, serialOf[d])
  /\ UNCHANGED <<portVars, appVars, ctlVars, devices, run, serialOf,
                 cancelled, allocated, port, callDs>>

ReleaseNothing(c) ==
  LET d == callDs[c] IN
  /\ call[c] = "release"
  /\ ~Locked(d)
  /\ state[d] \in {"idle", "releasing"}
  /\ Return(c)
  /\ UNCHANGED <<portVars, appVars, ctlVars, devices, run, dsVars,
                 streamVars>>

ReleaseDone(c) ==
  LET d == callDs[c] IN
  /\ call[c] = "releasing"
  /\ EndStopCapture(c)
  /\ state' = [state EXCEPT ![d] = "idle"]
  /\ Return(c)
  /\ UNCHANGED <<portVars, appVars, ctlVars, devices, run, serialOf,
                 cancelled, allocated, session, port, streams>>

CallStep(c) ==
  \/ ClaimOk(c) \/ ClaimError(c) \/ Activate(c)
  \/ Release(c) \/ ReleaseNothing(c) \/ ReleaseDone(c)

-----------------------------------------------------------------------------
(***************************************************************************)
(* Captures.  A capture goroutine returns when its video socket times out  *)
(* or fails, and when its context is cancelled; the entry in the table     *)
(* stays.                                                                  *)
(***************************************************************************)
CaptureDies(s) ==
  /\ streams[s].status = "live"
  /\ streams' = [streams EXCEPT ![s].status = "dead"]
  /\ UNCHANGED <<portVars, appVars, ctlVars, devices, run, dsVars, callVars,
                 stopping>>

\* Mutant of CaptureStops: Release does not cancel the capture it waits for.
MutOnlyTeardownCancels(t) ==
  /\ t \in Ds
  /\ stopping[t].status = "live"
  /\ stopping' = [stopping EXCEPT ![t].status = "dead"]
  /\ UNCHANGED <<portVars, appVars, ctlVars, devices, run, dsVars, callVars,
                 streams>>

CaptureStops(t) ==
  /\ stopping[t].status = "live"
  /\ stopping' = [stopping EXCEPT ![t].status = "dead"]
  /\ UNCHANGED <<portVars, appVars, ctlVars, devices, run, dsVars, callVars,
                 streams>>

-----------------------------------------------------------------------------
ControllerStep(k) ==
  \/ OnDeviceConnected(k) \/ OnDeviceDisconnected(k) \/ Stop(k) \/ StopReturns(k)

AdminStep(k) == AdminRemove(k) \/ AdminAdd(k)

SupNext ==
  \/ \E s \in Serial : ConnectedEvent(s) \/ DisconnectedEvent(s) \/ CaptureDies(s)
  \/ Shutdown \/ StopNext \/ Exit
  \/ \E k \in Admin : AdminStep(k) \/ \E s \in Serial : AdminReset(k, s)
  \/ \E k \in Controller : ControllerStep(k)
  \/ \E d \in Ds : RunStep(d)
  \/ \E c \in Caller : CallStep(c)
  \/ \E c \in Caller, s \in Serial :
       \E op \in {"claim", "activate", "release"} : Get(c, s, op)
  \/ \E t \in Ds \cup Caller : CaptureStops(t)

SupSpec == SupInit /\ [][SupNext]_vars

(***************************************************************************)
(* Fairness: a goroutine that can run does.  Nothing is assumed of the     *)
(* devices, the users, the admin or the signal that shuts the provider     *)
(* down; a cancelled capture does return, because cancelling kills the adb *)
(* process or the HTTP request it reads from.  Teardown also stops the     *)
(* agent or the iOS worker; when those stops return is the matter of the   *)
(* modules Agent and IosSession, and they are taken to return here.        *)
(***************************************************************************)
DeviceFairness ==
  /\ \A d \in Ds : WF_vars(RunStep(d))
  /\ \A c \in Caller : WF_vars(CallStep(c))
  /\ \A t \in Ds \cup Caller : WF_vars(CaptureStops(t))

ControllerFairness ==
  /\ \A k \in Controller : WF_vars(ControllerStep(k))
  /\ \A k \in Admin : WF_vars(AdminStep(k))
  /\ WF_vars(StopNext) /\ WF_vars(Exit)

\* Supervisors, handlers and captures run; the event loop may stall.
DeviceFairSpec == SupSpec /\ DeviceFairness

FairSupSpec == DeviceFairSpec /\ ControllerFairness

-----------------------------------------------------------------------------
SupTypeOK ==
  /\ PortTypeOK
  /\ registered \cup wasReset \subseteq Serial
  /\ drain \subseteq Serial
  /\ shutdown \in BOOLEAN
  /\ devices \in [Serial -> Ds \cup {None}]
  /\ ctl \in [Controller -> {"ready", "connect", "remove", "add", "detach",
                             "stop", "await", "drain", "exited"}]
  /\ ctlSerial \in [Controller -> Serial \cup {None}]
  /\ ctlDs \in [Controller -> Ds \cup {None}]
  /\ resetting \in [Controller -> BOOLEAN]
  /\ run \in [Ds -> RunPC]
  /\ serialOf \in [Ds -> Serial \cup {None}]
  /\ cancelled \in [Ds -> BOOLEAN]
  /\ allocated \in [Ds -> Pool \cup {NoPort}]
  /\ state \in [Ds -> {"idle", "claimed", "busy", "releasing"}]
  /\ session \in [Ds -> BOOLEAN]
  /\ port \in [Ds -> Pool \cup {NoPort}]
  /\ call \in [Caller -> {"ready", "claim", "activate", "release", "releasing"}]
  /\ callDs \in [Caller -> Ds \cup {None}]
  /\ streams \in [Serial -> Capture]
  /\ stopping \in [Ds \cup Caller -> Capture]

\* Run is between its allocation of a port and its release of it.
Owning(d) == run[d] \in {"publishing", "serving", "stopCapture",
                         "awaitCapture", "free"}

\* A DeviceSupervisor "owns [...] the port allocation for that device"
\* (device_supervisor.go): from Allocate until its own Free the allocator keeps
\* the serial bound to the port Run was given, whatever the trackers report, the
\* handlers do and admins reset, unless the serial itself was ever reset.  No port
\* leaks, resets or not: a serial has one only while a Run of it owns it.
PortOwned ==
  /\ \A d \in Ds : Owning(d) /\ serialOf[d] \notin wasReset
                     => /\ allocated[d] # NoPort
                        /\ bySerial[serialOf[d]] = allocated[d]
  /\ \A s \in Serial :
       bySerial[s] # NoPort => \E d \in Ds : serialOf[d] = s /\ Owning(d)

\* The registry and the supervisor's map agree whenever the event loop is
\* between two events: a duplicate, lost or spurious event of a tracker does
\* not leave a device registered without a supervisor, or the reverse; only an
\* admin connection that resets the very device can.
RegistryAgrees ==
  ctl[Loop] = "ready" =>
    \A s \in Serial \ wasReset : s \in registered <=> devices[s] # None

\* Until teardown takes the session off, a supervisor has a session exactly
\* when its state machine says it is claimed or busy.
SessionMatchesState ==
  \A d \in Ds :
    run[d] \in {"spawned", "allocating", "publishing", "serving"}
      => (session[d] <=> state[d] \in {"claimed", "busy"})

\* A supervised device that is claimed or busy has an entry in the stream
\* manager's table, over claims, releases, failing captures and a teardown that
\* has begun, as long as its serial had no earlier supervisor whose late
\* handlers or teardown stop the capture by serial.
ClaimedHasCapture ==
  \A s \in Serial :
    LET d == devices[s] IN
      /\ d # None
      /\ state[d] \in {"claimed", "busy"}
      /\ \A e \in Ds : serialOf[e] = s => e = d
      => streams[s].status # "none"

\* drainAndCleanup: when the event loop has exited, every supervisor has been
\* torn down and every port is free again, handlers and resets that are still
\* under way notwithstanding, but for the devices that were reset.
ShutdownFreesPorts ==
  ctl[Loop] = "exited" =>
    /\ \A s \in Serial \ wasReset : devices[s] = None /\ bySerial[s] = NoPort
    /\ \A d \in Ds : serialOf[d] \notin wasReset => run[d] \in {"unborn", "done"}

\* A cancelled supervisor finishes its teardown: neither a Release that holds
\* ds.mu nor a capture keeps it waiting for ever (a stuck agent may, see Agent).
TeardownCompletes == \A d \in Ds : cancelled[d] ~> run[d] = "done"

-----------------------------------------------------------------------------
(***************************************************************************)
(* What the comments of the code promise and the code does not keep.       *)
(***************************************************************************)

\* The same for every device: an admin's reset and an event of the tracker work
\* on one device together, the old Run frees the port its successor was given,
\* which may then go to another device; a device is left registered without a
\* supervisor, or supervised after the shutdown.
PortAlwaysOwned ==
  \A d \in Ds : Owning(d) => bySerial[serialOf[d]] = allocated[d]
RegistryAlwaysAgrees ==
  ctl[Loop] = "ready" => \A s \in Serial : s \in registered <=> devices[s] # None
ShutdownFreesAllPorts ==
  ctl[Loop] = "exited" => \A s \in Serial : devices[s] = None /\ bySerial[s] = NoPort

\* "Stop signals the supervisor to shut down and waits for it to finish."
\* (device_supervisor.go): a goroutine that waits in Stop gets out of it.
StopFinishes == \A k \in Controller : ctl[k] = "await" ~> ctl[k] # "await"

\* A DeviceSupervisor is "torn down when the device disconnects"
\* (device_supervisor.go): once it has left the map and Run is done, no
\* handler with an old pointer moves its state machine, and with it the
\* capture of the serial.
TornDownInert ==
  [][\A d \in Ds :
       run[d] = "done" /\ devices[serialOf[d]] # d => state'[d] = state[d]]_vars

\* StartCapture "serves it on port via HTTP" (stream.go): a capture listens on
\* a port of the pool.
CaptureHasPort ==
  \A s \in Serial : streams[s].status = "live" => streams[s].port # NoPort
=============================================================================
