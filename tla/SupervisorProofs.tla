-------------------------- MODULE SupervisorProofs --------------------------
(***************************************************************************)
(* Safety of the port allocator for every set of serials and every range,  *)
(* and of the supervisor that uses it for any number of devices, admin     *)
(* connections, gRPC handlers and captures.                                *)
(***************************************************************************)
EXTENDS Supervisor, TLAPS

\* What the two maps need of each other to be preserved by a step: the
\* inductive invariant of the allocator.
PortInv == PortTypeOK /\ MapsInverse

\* Pool ports are natural numbers in the configured range, spaced by Stride.
LEMMA PoolFacts ==
  /\ Pool \subseteq Nat
  /\ NoPort \notin Pool
  /\ \A p \in Pool : MinPort <= p /\ p <= MaxPort
  BY PortAssumption DEF Pool, InPool, NoPort

\* Two different pool ports are never neighbours.
LEMMA PoolSpaced ==
  ASSUME NEW p \in Pool, NEW q \in Pool
  PROVE  p # q + 1
  <1>1. /\ p \in Int /\ q \in Int /\ MinPort \in Int
        /\ (p - MinPort) % 10 = 0
        /\ (q - MinPort) % 10 = 0
    BY PortAssumption DEF Pool, InPool, Stride
  <1>2. QED BY <1>1

\* Allocate keeps the maps typed and inverse to each other.
LEMMA AllocateInv ==
  ASSUME PortInv, NEW s \in Serial, Allocate(s)
  PROVE  PortInv'
  <1>1. CASE UNCHANGED portVars
    BY <1>1 DEF PortInv, PortTypeOK, MapsInverse, portVars
  <1>2. CASE AllocateFresh(s)
    <2>1. PICK p \in Unused :
            /\ used' = [used EXCEPT ![p] = s]
            /\ bySerial' = [bySerial EXCEPT ![s] = p]
      BY <1>2 DEF AllocateFresh
    <2>2. p \in Pool /\ used[p] = NoSerial /\ bySerial[s] = NoPort
      BY <1>2, <2>1 DEF Unused, AllocateFresh
    <2>3. PortTypeOK'
      BY <2>1, <2>2 DEF PortInv, PortTypeOK
    <2>4. MapsInverse'
      <3> SUFFICES ASSUME NEW q \in Pool, NEW t \in Serial
                   PROVE  used'[q] = t <=> bySerial'[t] = q
        BY DEF MapsInverse
      <3>1. used[q] = t <=> bySerial[t] = q
        BY DEF PortInv, MapsInverse
      <3>2. used[p] # t
        BY <2>2, PortAssumption
      <3>3. bySerial[t] # p
        BY <2>2, <3>2 DEF PortInv, MapsInverse
      <3>4. q # NoPort
        BY PoolFacts
      <3>5. QED
        BY <2>1, <2>2, <3>1, <3>2, <3>3, <3>4, PortAssumption
           DEF PortInv, PortTypeOK
    <2>5. QED BY <2>3, <2>4 DEF PortInv
  <1>3. QED
    BY <1>1, <1>2 DEF Allocate, AllocateKnown, AllocateExhausted

\* Free keeps the maps typed and inverse to each other.
LEMMA FreeInv ==
  ASSUME PortInv, NEW s \in Serial, Free(s)
  PROVE  PortInv'
  <1>1. CASE bySerial[s] = NoPort
    BY <1>1 DEF Free, PortInv, PortTypeOK, MapsInverse, portVars
  <1>2. CASE bySerial[s] # NoPort
    <2>1. /\ used' = [used EXCEPT ![bySerial[s]] = NoSerial]
          /\ bySerial' = [bySerial EXCEPT ![s] = NoPort]
          /\ bySerial[s] \in Pool
      BY <1>2 DEF Free, PortInv, PortTypeOK
    <2>2. PortTypeOK'
      BY <2>1 DEF PortInv, PortTypeOK
    <2>3. MapsInverse'
      <3> SUFFICES ASSUME NEW q \in Pool, NEW t \in Serial
                   PROVE  used'[q] = t <=> bySerial'[t] = q
        BY DEF MapsInverse
      <3>1. used[q] = t <=> bySerial[t] = q
        BY DEF PortInv, MapsInverse
      <3>2. used[bySerial[s]] = s
        BY <2>1 DEF PortInv, MapsInverse
      <3>3. q # NoPort /\ t # NoSerial
        BY PoolFacts, PortAssumption
      <3>4. QED
        BY <2>1, <3>1, <3>2, <3>3 DEF PortInv, PortTypeOK
    <2>4. QED BY <2>2, <2>3 DEF PortInv
  <1>3. QED BY <1>1, <1>2

\* The allocator's inductive invariant holds in every reachable state.
THEOREM PortSafety == PortSpec => []PortInv
  <1>1. PortInit => PortInv
    BY PoolFacts, PortAssumption
       DEF PortInit, PortInv, PortTypeOK, MapsInverse
  <1>2. PortInv /\ [PortNext]_portVars => PortInv'
    <2> SUFFICES ASSUME PortInv, [PortNext]_portVars PROVE PortInv'
      OBVIOUS
    <2>1. CASE PortNext
      BY <2>1, AllocateInv, FreeInv DEF PortNext
    <2>2. CASE UNCHANGED portVars
      BY <2>2 DEF PortInv, PortTypeOK, MapsInverse, portVars
    <2>3. QED BY <2>1, <2>2
  <1>3. QED BY <1>1, <1>2, PTL DEF PortSpec

\* The maps of the allocator stay inverse to each other (Allocate and Free of
\* port_allocator.go).
THEOREM MapsStayInverse == PortSpec => []MapsInverse
  <1>1. PortInv => MapsInverse
    BY DEF PortInv
  <1>2. QED BY <1>1, PortSafety, PTL

\* Two different base ports less than the gap between two services apart.
LEMMA DerivedApart ==
  ASSUME NEW p \in Pool, NEW q \in Pool, p # q, Near(p, q)
  PROVE  DerivedPorts(p) \cap DerivedPorts(q) = {}
  <1>1. /\ p \in Int /\ q \in Int /\ Unit \in Int /\ Unit > 0
        /\ p - q < Unit - 1 /\ q - p < Unit - 1
    BY PoolFacts, PortAssumption DEF Near
  <1>2. p # q + 1 /\ q # p + 1
    BY PoolSpaced
  <1>3. ASSUME NEW o1 \in DerivedOffsets, NEW o2 \in DerivedOffsets
        PROVE  p + o1 # q + o2
    BY <1>1, <1>2, <1>3 DEF DerivedOffsets
  <1>4. QED BY <1>3 DEF DerivedPorts

LEMMA InvApart == PortInv => DerivedPortsApart
  <1> SUFFICES ASSUME PortInv, NEW s \in Serial, NEW t \in Serial, s # t,
                      bySerial[s] # NoPort, bySerial[t] # NoPort,
                      Near(bySerial[s], bySerial[t])
               PROVE  DerivedPorts(bySerial[s]) \cap DerivedPorts(bySerial[t]) = {}
    BY DEF DerivedPortsApart
  <1>1. bySerial[s] \in Pool /\ bySerial[t] \in Pool
    BY DEF PortInv, PortTypeOK
  <1>2. used[bySerial[s]] = s /\ used[bySerial[t]] = t
    BY <1>1 DEF PortInv, MapsInverse
  <1>3. bySerial[s] # bySerial[t]
    BY <1>2
  <1>4. QED BY <1>1, <1>3, DerivedApart

\* In a range narrower than the gap all base ports are near each other.
LEMMA ApartDisjoint ==
  ASSUME MaxPort - MinPort < Unit - 1
  PROVE  PortInv /\ DerivedPortsApart => DerivedPortsDisjoint
  <1> SUFFICES ASSUME PortInv, DerivedPortsApart, NEW s \in Serial, NEW t \in Serial,
                      s # t, bySerial[s] # NoPort, bySerial[t] # NoPort
               PROVE  DerivedPorts(bySerial[s]) \cap DerivedPorts(bySerial[t]) = {}
    BY DEF DerivedPortsDisjoint
  <1>1. bySerial[s] \in Pool /\ bySerial[t] \in Pool
    BY DEF PortInv, PortTypeOK
  <1>2. ASSUME NEW p \in Pool, NEW q \in Pool PROVE Near(p, q)
    <2>1. /\ p \in Int /\ q \in Int /\ Unit \in Int /\ MinPort \in Int /\ MaxPort \in Int
          /\ MinPort <= p /\ p <= MaxPort /\ MinPort <= q /\ q <= MaxPort
      BY <1>2, PoolFacts, PortAssumption
    <2> QED BY <2>1 DEF Near
  <1> QED BY <1>1, <1>2 DEF DerivedPortsApart

-----------------------------------------------------------------------------
(* The supervisor.                                                         *)

Running == {"spawned", "allocating", "publishing", "serving"}
Ending == {"stopCapture", "awaitCapture", "free"}
State == {"idle", "claimed", "busy", "releasing"}

\* What a controller has at hand: the supervisor it stops has left the map.
Controls(k) ==
  /\ ctl[k] \in {"connect", "remove", "add", "detach", "stop", "await"}
       => ctlSerial[k] \in Serial
  /\ ctl[k] \in {"stop", "await"}
       => /\ ctlDs[k] \in Ds /\ run[ctlDs[k]] # "unborn"
          /\ \A s \in Serial : devices[s] # ctlDs[k]

\* A supervisor in the map is of its serial, and nobody has cancelled it.
Mapped(s) ==
  devices[s] # None =>
    /\ run[devices[s]] # "unborn" /\ serialOf[devices[s]] = s
    /\ ~cancelled[devices[s]]

\* The life of a supervisor: a teardown has begun only after a cancel.
Lives(d) ==
  /\ run[d] # "unborn" => serialOf[d] \in Serial
  /\ run[d] = "unborn" => /\ serialOf[d] = None /\ ~cancelled[d]
                          /\ state[d] = "idle" /\ ~session[d]
  /\ run[d] \in Ending => cancelled[d]
  /\ run[d] \in Running => (session[d] <=> state[d] \in {"claimed", "busy"})

\* A handler works on a supervisor that was born; one that waits in Release for
\* the capture has ds.mu, alone.
Handles(c) ==
  /\ call[c] # "ready" => callDs[c] \in Ds /\ run[callDs[c]] # "unborn"
  /\ call[c] = "releasing" =>
       /\ state[callDs[c]] = "releasing"
       /\ \A b \in Caller : call[b] = "releasing" /\ callDs[b] = callDs[c] => b = c

SupInv ==
  /\ SupTypeOK /\ MapsInverse
  /\ \A k \in Controller : Controls(k)
  /\ \A s \in Serial : Mapped(s)
  /\ \A d \in Ds : Lives(d)
  /\ \A c \in Caller : Handles(c)
  /\ ClaimedHasCapture

CtlPC == {"ready", "connect", "remove", "add", "detach", "stop", "await", "drain", "exited"}

\* What the proofs use of the constants.
LEMMA SupConstants ==
  /\ None \notin Ds /\ None \notin Serial /\ None \notin Caller
  /\ NoPort \notin Pool /\ NoCapture \in Capture /\ NoCapture.status = "none"
  BY SupervisorAssumption, PoolFacts DEF Ds, NoCapture, Capture

LEMMA SupInitInv == SupInit => SupInv
<1> SUFFICES ASSUME SupInit PROVE SupInv
  OBVIOUS
<1>1. PortTypeOK /\ MapsInverse
  BY PoolFacts, PortAssumption DEF SupInit, PortInit, PortTypeOK, MapsInverse
<1>2. SupTypeOK
  <2>1. streams \in [Serial -> Capture] /\ stopping \in [Ds \cup Caller -> Capture]
    BY SupConstants DEF SupInit
  <2> QED BY <1>1, <2>1 DEF SupInit, SupTypeOK, RunPC
<1>3. \A k \in Controller : Controls(k)
  BY DEF SupInit, Controls
<1>4. \A s \in Serial : Mapped(s)
  BY DEF SupInit, Mapped
<1>5. \A d \in Ds : Lives(d)
  BY DEF SupInit, Lives, Ending, Running
<1>6. \A c \in Caller : Handles(c)
  BY DEF SupInit, Handles
<1>7. ClaimedHasCapture
  BY DEF SupInit, ClaimedHasCapture
<1> QED BY <1>1, <1>2, <1>3, <1>4, <1>5, <1>6, <1>7 DEF SupInv

\* A controller goes on, with no effect on the supervisors or their handlers.
LEMMA ControlKeeps ==
  ASSUME SupInv, NEW k \in Controller, NEW pc \in CtlPC, NEW s \in Serial \cup {None},
         NEW d \in Ds \cup {None},
         ctl' = [ctl EXCEPT ![k] = pc], ctlSerial' = [ctlSerial EXCEPT ![k] = s],
         ctlDs' = [ctlDs EXCEPT ![k] = d],
         registered' \cup wasReset' \subseteq Serial, drain' \subseteq Serial, shutdown' \in BOOLEAN,
         resetting' \in [Controller -> BOOLEAN],
         pc \in {"connect", "remove", "add", "detach", "stop", "await"} => s \in Serial,
         pc \in {"stop", "await"} => d \in Ds /\ run[d] # "unborn" /\ \A t \in Serial : devices[t] # d,
         UNCHANGED <<portVars, devices, run, dsVars, callVars, streamVars>>
  PROVE  SupInv'
<1>0. SupTypeOK
  BY DEF SupInv
<1>1. /\ ctl' \in [Controller -> CtlPC] /\ ctlSerial' \in [Controller -> Serial \cup {None}]
      /\ ctlDs' \in [Controller -> Ds \cup {None}]
      /\ ctl'[k] = pc /\ ctlSerial'[k] = s /\ ctlDs'[k] = d
      /\ \A j \in Controller : j # k =>
           ctl'[j] = ctl[j] /\ ctlSerial'[j] = ctlSerial[j] /\ ctlDs'[j] = ctlDs[j]
  BY <1>0 DEF SupTypeOK, CtlPC
<1>2. SupTypeOK'
  BY <1>0, <1>1 DEF SupTypeOK, PortTypeOK, portVars, dsVars, callVars, streamVars, CtlPC
<1>3. ASSUME NEW j \in Controller PROVE Controls(j)'
  <2>1. Controls(j) /\ devices' = devices /\ run' = run
    BY DEF SupInv
  <2>2. CASE j = k
    BY <1>1, <2>1, <2>2 DEF Controls
  <2>3. CASE j # k
    BY <1>1, <2>1, <2>3 DEF Controls
  <2> QED BY <2>2, <2>3
<1>4. \A t \in Serial : Mapped(t)'
  BY DEF SupInv, Mapped, dsVars
<1>5. \A e \in Ds : Lives(e)'
  BY DEF SupInv, Lives, dsVars
<1>6. \A c \in Caller : Handles(c)'
  BY DEF SupInv, Handles, callVars, dsVars
<1>7. ClaimedHasCapture' /\ MapsInverse'
  BY DEF SupInv, ClaimedHasCapture, MapsInverse, dsVars, streamVars, portVars
<1> QED BY <1>2, <1>3, <1>4, <1>5, <1>6, <1>7 DEF SupInv

\* registry.Add and registry.Remove.
LEMMA AddKeeps ==
  ASSUME SupInv, NEW k \in Controller, NEW s \in Serial, AddDevice(k, s)
  PROVE  SupInv'
<1>0. SupTypeOK /\ Controls(k)
  BY DEF SupInv
<1>1. /\ registered' \cup wasReset' \subseteq Serial /\ drain' \subseteq Serial /\ shutdown' \in BOOLEAN
      /\ resetting' \in [Controller -> BOOLEAN] /\ ctlDs' = ctlDs
      /\ UNCHANGED <<portVars, devices, run, dsVars, callVars, streamVars>>
  BY <1>0 DEF AddDevice, SupTypeOK
<1>2. ctlDs' = [ctlDs EXCEPT ![k] = ctlDs[k]] /\ ctlDs[k] \in Ds \cup {None}
  BY <1>0, <1>1 DEF SupTypeOK
<1>3. CASE s \in registered
  <2>1. ctl' = [ctl EXCEPT ![k] = "ready"] /\ ctlSerial' = [ctlSerial EXCEPT ![k] = None]
    BY <1>3 DEF AddDevice, Finish, Goto
  <2> QED BY <1>1, <1>2, <2>1, ControlKeeps DEF CtlPC
<1>4. CASE s \notin registered
  <2>1. ctl' = [ctl EXCEPT ![k] = "connect"] /\ ctlSerial' = [ctlSerial EXCEPT ![k] = s]
    BY <1>4 DEF AddDevice, Goto
  <2> QED BY <1>1, <1>2, <2>1, ControlKeeps DEF CtlPC
<1> QED BY <1>3, <1>4

LEMMA RemoveKeeps ==
  ASSUME SupInv, NEW k \in Controller, NEW s \in Serial, RemoveDevice(k, s)
  PROVE  SupInv'
<1>0. SupTypeOK
  BY DEF SupInv
<1>1. /\ registered' \cup wasReset' \subseteq Serial /\ drain' \subseteq Serial /\ shutdown' \in BOOLEAN
      /\ resetting' \in [Controller -> BOOLEAN] /\ ctlDs' = ctlDs
      /\ UNCHANGED <<portVars, devices, run, dsVars, callVars, streamVars>>
      /\ ctl' = [ctl EXCEPT ![k] = "detach"] /\ ctlSerial' = [ctlSerial EXCEPT ![k] = s]
  BY <1>0 DEF RemoveDevice, SupTypeOK, Goto
<1>2. ctlDs' = [ctlDs EXCEPT ![k] = ctlDs[k]] /\ ctlDs[k] \in Ds \cup {None}
  BY <1>0, <1>1 DEF SupTypeOK
<1> QED BY <1>1, <1>2, ControlKeeps DEF CtlPC

\* The steps of the event loop and of an admin connection before the supervisor.
LEMMA AppKeeps ==
  ASSUME SupInv,
         \/ \E s \in Serial : ConnectedEvent(s) \/ DisconnectedEvent(s)
         \/ Shutdown \/ StopNext \/ Exit
         \/ \E k \in Admin : AdminStep(k) \/ \E s \in Serial : AdminReset(k, s)
  PROVE  SupInv'
<1>0. /\ SupTypeOK /\ Loop \in Controller /\ Admin \subseteq Controller
      /\ \A k \in Controller : Controls(k) /\ ctlDs[k] \in Ds \cup {None}
                               /\ ctlSerial[k] \in Serial \cup {None}
                               /\ ctlDs = [ctlDs EXCEPT ![k] = ctlDs[k]]
                               /\ ctlSerial = [ctlSerial EXCEPT ![k] = ctlSerial[k]]
  BY DEF SupInv, SupTypeOK, Controller
<1>1. CASE \E s \in Serial : ConnectedEvent(s) \/ DisconnectedEvent(s)
  BY <1>0, <1>1, AddKeeps, RemoveKeeps DEF ConnectedEvent, DisconnectedEvent
<1>2. CASE \E k \in Admin : AdminStep(k)
  <2>1. PICK k \in Admin : AdminStep(k)
    BY <1>2
  <2>2. ctlSerial[k] \in Serial
    BY <1>0, <2>1 DEF AdminStep, AdminRemove, AdminAdd, Controls
  <2> QED BY <1>0, <2>1, <2>2, AddKeeps, RemoveKeeps DEF AdminStep, AdminRemove, AdminAdd
<1>3. CASE \E k \in Admin, s \in Serial : AdminReset(k, s)
  <2>1. PICK k \in Admin, s \in Serial : AdminReset(k, s)
    BY <1>3
  <2>2. /\ registered' \cup wasReset' \subseteq Serial /\ drain' \subseteq Serial /\ shutdown' \in BOOLEAN
        /\ resetting' \in [Controller -> BOOLEAN] /\ ctlDs' = ctlDs
        /\ UNCHANGED <<portVars, devices, run, dsVars, callVars, streamVars>>
        /\ ctl' = [ctl EXCEPT ![k] = "remove"] /\ ctlSerial' = [ctlSerial EXCEPT ![k] = s]
    BY <1>0, <2>1 DEF AdminReset, SupTypeOK, Goto
  <2>3. k \in Controller /\ ctlDs' = [ctlDs EXCEPT ![k] = ctlDs[k]]
    BY <1>0, <2>2
  <2> QED BY <1>0, <2>2, <2>3, ControlKeeps DEF CtlPC
<1>4. CASE Shutdown \/ Exit
  <2>1. /\ registered' \cup wasReset' \subseteq Serial /\ drain' \subseteq Serial /\ shutdown' \in BOOLEAN
        /\ resetting' \in [Controller -> BOOLEAN] /\ ctlDs' = ctlDs /\ ctlSerial' = ctlSerial
        /\ UNCHANGED <<portVars, devices, run, dsVars, callVars, streamVars>>
        /\ \E pc \in {"drain", "exited"} : ctl' = [ctl EXCEPT ![Loop] = pc]
    BY <1>0, <1>4 DEF Shutdown, Exit, SupTypeOK, Goto, appVars
  <2>2. /\ ctlDs' = [ctlDs EXCEPT ![Loop] = ctlDs[Loop]]
        /\ ctlSerial' = [ctlSerial EXCEPT ![Loop] = ctlSerial[Loop]]
    BY <1>0, <2>1
  <2>3. PICK pc \in {"drain", "exited"} : ctl' = [ctl EXCEPT ![Loop] = pc]
    BY <2>1
  <2>4. pc \in CtlPC /\ pc \notin {"connect", "remove", "add", "detach", "stop", "await"}
    BY DEF CtlPC
  <2>5. /\ Loop \in Controller /\ ctlSerial[Loop] \in Serial \cup {None}
        /\ ctlDs[Loop] \in Ds \cup {None}
    BY <1>0
  <2>6. /\ registered' \cup wasReset' \subseteq Serial /\ drain' \subseteq Serial /\ shutdown' \in BOOLEAN
        /\ resetting' \in [Controller -> BOOLEAN]
        /\ UNCHANGED <<portVars, devices, run, dsVars, callVars, streamVars>>
    BY <2>1
  <2> QED BY ONLY SupInv, <2>2, <2>3, <2>4, <2>5, <2>6, ControlKeeps
<1>5. CASE StopNext
  <2>1. PICK s \in drain : ctlSerial' = [ctlSerial EXCEPT ![Loop] = s] /\ drain' = drain \ {s}
    BY <1>5 DEF StopNext
  <2>2. /\ registered' \cup wasReset' \subseteq Serial /\ drain' \subseteq Serial /\ shutdown' \in BOOLEAN
        /\ resetting' \in [Controller -> BOOLEAN] /\ ctlDs' = ctlDs /\ s \in Serial
        /\ UNCHANGED <<portVars, devices, run, dsVars, callVars, streamVars>>
        /\ ctl' = [ctl EXCEPT ![Loop] = "detach"]
    BY <1>0, <1>5, <2>1 DEF StopNext, SupTypeOK, Goto
  <2>3. ctlDs' = [ctlDs EXCEPT ![Loop] = ctlDs[Loop]]
    BY <1>0, <2>2
  <2> QED BY <1>0, <2>1, <2>2, <2>3, ControlKeeps DEF CtlPC
<1> QED BY <1>1, <1>2, <1>3, <1>4, <1>5

\* A disconnect handler returns: to the event loop, or to the reset it is part of.
LEMMA FinishKeeps ==
  ASSUME SupInv, NEW k \in Controller, ctlSerial[k] \in Serial, Finish(k, AfterDisconnect(k)),
         NEW d \in Ds \cup {None}, ctlDs' = [ctlDs EXCEPT ![k] = d],
         UNCHANGED <<portVars, appVars, devices, run, dsVars, callVars, streamVars>>
  PROVE  SupInv'
<1>0. SupTypeOK
  BY DEF SupInv
<1>1. /\ registered' \cup wasReset' \subseteq Serial /\ drain' \subseteq Serial /\ shutdown' \in BOOLEAN
      /\ resetting' \in [Controller -> BOOLEAN]
  BY <1>0 DEF SupTypeOK, appVars
<1>2. AfterDisconnect(k) \in {"add", "drain", "ready"}
  BY DEF AfterDisconnect
<1>3. PICK pc \in {"add", "drain", "ready"} : pc = AfterDisconnect(k)
  BY <1>2
<1>4. PICK s \in Serial \cup {None} :
        (pc = "add" => s \in Serial) /\ ctlSerial' = [ctlSerial EXCEPT ![k] = s]
  BY <1>3 DEF Finish
<1>5. ctl' = [ctl EXCEPT ![k] = pc]
  BY <1>3 DEF Finish, Goto
<1>6. pc \in CtlPC /\ pc \notin {"connect", "remove", "detach", "stop", "await"}
  BY DEF CtlPC
<1> QED BY <1>1, <1>4, <1>5, <1>6, ControlKeeps

\* OnDeviceConnected.
LEMMA ConnectKeeps ==
  ASSUME SupInv, NEW k \in Controller, OnDeviceConnected(k)
  PROVE  SupInv'
<1> DEFINE s == ctlSerial[k]
<1>0. /\ SupTypeOK /\ s \in Serial
      /\ ctlDs = [ctlDs EXCEPT ![k] = ctlDs[k]] /\ ctlDs[k] \in Ds \cup {None}
  BY DEF SupInv, SupTypeOK, Controls, OnDeviceConnected
<1>1. /\ ctl' = [ctl EXCEPT ![k] = "ready"] /\ ctlSerial' = [ctlSerial EXCEPT ![k] = None]
      /\ UNCHANGED <<portVars, appVars, ctlDs, cancelled, allocated, state, session, port,
                     callVars, streamVars>>
  BY DEF OnDeviceConnected, Finish, Goto
<1>2. CASE devices[s] # None
  <2>1. /\ registered' \cup wasReset' \subseteq Serial /\ drain' \subseteq Serial /\ shutdown' \in BOOLEAN
        /\ resetting' \in [Controller -> BOOLEAN]
        /\ UNCHANGED <<portVars, devices, run, dsVars, callVars, streamVars>>
    BY <1>0, <1>1, <1>2 DEF OnDeviceConnected, SupTypeOK, appVars, dsVars
  <2>2. ctlDs' = [ctlDs EXCEPT ![k] = ctlDs[k]]
    BY <1>0, <1>1
  <2> QED BY <1>0, <1>1, <2>1, <2>2, ControlKeeps DEF CtlPC
<1>3. CASE devices[s] = None
  <2>1. PICK d \in Ds :
          /\ run[d] = "unborn" /\ devices' = [devices EXCEPT ![s] = d]
          /\ run' = [run EXCEPT ![d] = "spawned"] /\ serialOf' = [serialOf EXCEPT ![d] = s]
    BY <1>3 DEF OnDeviceConnected
  <2> HIDE DEF s
  <2>2. /\ ctl' \in [Controller -> CtlPC] /\ ctlSerial' \in [Controller -> Serial \cup {None}]
        /\ ctl'[k] = "ready"
        /\ \A j \in Controller : j # k => ctl'[j] = ctl[j] /\ ctlSerial'[j] = ctlSerial[j]
    BY <1>0, <1>1 DEF SupTypeOK, CtlPC
  <2>3. /\ devices' \in [Serial -> Ds \cup {None}] /\ devices'[s] = d
        /\ \A t \in Serial : t # s => devices'[t] = devices[t]
    BY <1>0, <2>1 DEF SupTypeOK
  <2>4. /\ run' \in [Ds -> RunPC] /\ run'[d] = "spawned"
        /\ \A e \in Ds : e # d => run'[e] = run[e]
    BY <1>0, <2>1 DEF SupTypeOK, RunPC
  <2>5. /\ serialOf' \in [Ds -> Serial \cup {None}] /\ serialOf'[d] = s
        /\ \A e \in Ds : e # d => serialOf'[e] = serialOf[e]
    BY <1>0, <2>1 DEF SupTypeOK
  <2>6. SupTypeOK'
    BY <1>0, <1>1, <2>2, <2>3, <2>4, <2>5
       DEF SupTypeOK, PortTypeOK, portVars, appVars, callVars, streamVars, CtlPC
  <2>7. /\ serialOf[d] = None /\ ~cancelled[d] /\ state[d] = "idle" /\ ~session[d]
    BY <2>1 DEF SupInv, Lives
  <2>8. \A t \in Serial : devices[t] # d
    BY <1>0, <2>1, SupConstants DEF SupInv, Mapped
  <2>9. ASSUME NEW j \in Controller PROVE Controls(j)'
    <3>1. CASE j = k
      BY <2>2, <3>1 DEF Controls
    <3>2. CASE j # k
      <4>1. Controls(j) /\ ctl'[j] = ctl[j] /\ ctlSerial'[j] = ctlSerial[j] /\ ctlDs'[j] = ctlDs[j]
        BY <1>1, <2>2, <3>2 DEF SupInv
      <4>2. ctl[j] \in {"stop", "await"} => ctlDs[j] \in Ds /\ ctlDs[j] # d
        BY <2>1, <4>1 DEF Controls
      <4>3. ctl[j] \in {"stop", "await"} =>
              run'[ctlDs[j]] # "unborn" /\ \A t \in Serial : devices'[t] # ctlDs[j]
        BY <2>3, <2>4, <4>1, <4>2 DEF Controls
      <4> QED BY <4>1, <4>2, <4>3 DEF Controls
    <3> QED BY <3>1, <3>2
  <2>10. ASSUME NEW t \in Serial PROVE Mapped(t)'
    <3>1. CASE t = s
      BY <1>1, <2>3, <2>4, <2>5, <2>7, <3>1 DEF Mapped
    <3>2. CASE t # s
      <4>1. Mapped(t) /\ devices'[t] = devices[t] /\ devices[t] # d
            /\ devices[t] \in Ds \cup {None}
        BY <1>0, <2>3, <2>8, <3>2 DEF SupInv, SupTypeOK
      <4> QED BY <1>1, <2>4, <2>5, <4>1 DEF Mapped
    <3> QED BY <3>1, <3>2
  <2>11. ASSUME NEW e \in Ds PROVE Lives(e)'
    <3>1. CASE e = d
      BY <1>0, <1>1, <2>4, <2>5, <2>7, <3>1 DEF Lives, Ending, s
    <3>2. CASE e # d
      <4>1. Lives(e) /\ run'[e] = run[e] /\ serialOf'[e] = serialOf[e]
        BY <2>4, <2>5, <3>2 DEF SupInv
      <4> QED BY <1>1, <4>1 DEF Lives
    <3> QED BY <3>1, <3>2
  <2>12. ASSUME NEW c \in Caller PROVE Handles(c)'
    <3>1. Handles(c) /\ call' = call /\ callDs' = callDs /\ state' = state
      BY <1>1 DEF SupInv, callVars
    <3>2. call[c] # "ready" => run'[callDs[c]] # "unborn"
      BY <2>4, <3>1 DEF Handles
    <3> QED BY <3>1, <3>2 DEF Handles
  <2>13. ClaimedHasCapture'
    <3> SUFFICES ASSUME NEW t \in Serial, devices'[t] # None,
                        state'[devices'[t]] \in {"claimed", "busy"},
                        \A e \in Ds : serialOf'[e] = t => e = devices'[t]
                 PROVE  streams'[t].status # "none"
      BY DEF ClaimedHasCapture
    <3>1. t # s
      BY <1>1, <2>3, <2>7
    <3>2. /\ devices[t] = devices'[t] /\ state' = state /\ streams' = streams
      BY <1>1, <2>3, <3>1 DEF streamVars
    <3>3. \A e \in Ds : serialOf[e] = t => serialOf'[e] = t
      BY <2>5, <2>7, SupConstants
    <3> QED BY <3>2, <3>3 DEF SupInv, ClaimedHasCapture
  <2> QED BY <1>1, <2>6, <2>9, <2>10, <2>11, <2>12, <2>13 DEF SupInv, MapsInverse, portVars
<1> QED BY <1>2, <1>3

\* OnDeviceDisconnected.
LEMMA DisconnectKeeps ==
  ASSUME SupInv, NEW k \in Controller, OnDeviceDisconnected(k)
  PROVE  SupInv'
<1> DEFINE s == ctlSerial[k]
           d == devices[s]
<1>0. /\ SupTypeOK /\ s \in Serial /\ d \in Ds \cup {None} /\ Mapped(s)
      /\ ctlDs = [ctlDs EXCEPT ![k] = ctlDs[k]] /\ ctlDs[k] \in Ds \cup {None}
      /\ \A j \in Controller : Controls(j)
      /\ ctlSerial = [ctlSerial EXCEPT ![k] = ctlSerial[k]]
  BY DEF SupInv, SupTypeOK, Controls, OnDeviceDisconnected
<1>1. UNCHANGED <<portVars, appVars, run, dsVars, callVars, streamVars>>
  BY DEF OnDeviceDisconnected
<1>2. CASE d = None
  <2>1. /\ Finish(k, AfterDisconnect(k)) /\ UNCHANGED <<devices, ctlDs>>
    BY <1>2 DEF OnDeviceDisconnected
  <2>2. ctlDs' = [ctlDs EXCEPT ![k] = ctlDs[k]]
    BY <1>0, <2>1
  <2> QED BY <1>0, <1>1, <2>1, <2>2, FinishKeeps
<1>3. CASE d # None
  <2>1. /\ ctl' = [ctl EXCEPT ![k] = "stop"] /\ ctlSerial' = ctlSerial
        /\ devices' = [devices EXCEPT ![s] = None] /\ ctlDs' = [ctlDs EXCEPT ![k] = d]
    BY <1>3 DEF OnDeviceDisconnected, Goto
  <2>2. /\ d \in Ds /\ run[d] # "unborn" /\ serialOf[d] = s
    BY <1>0, <1>3 DEF Mapped
  <2>3. \A t \in Serial : t # s => devices[t] # d
    BY <1>0, <2>2, SupConstants DEF SupInv, Mapped
  <2> HIDE DEF s, d
  <2>4. /\ devices' \in [Serial -> Ds \cup {None}] /\ devices'[s] = None
        /\ \A t \in Serial : t # s => devices'[t] = devices[t]
    BY <1>0, <2>1 DEF SupTypeOK
  <2>5. /\ ctl' \in [Controller -> CtlPC] /\ ctlDs' \in [Controller -> Ds \cup {None}]
        /\ ctl'[k] = "stop" /\ ctlDs'[k] = d
        /\ \A j \in Controller : j # k => ctl'[j] = ctl[j] /\ ctlDs'[j] = ctlDs[j]
    BY <1>0, <2>1, <2>2 DEF SupTypeOK, CtlPC
  <2>6. SupTypeOK'
    BY <1>0, <1>1, <2>1, <2>4, <2>5
       DEF SupTypeOK, PortTypeOK, portVars, appVars, dsVars, callVars, streamVars, CtlPC
  <2>7. ASSUME NEW j \in Controller PROVE Controls(j)'
    <3>1. CASE j = k
      <4>1. \A t \in Serial : devices'[t] # d
        BY <2>2, <2>3, <2>4, SupConstants
      <4>2. ctlSerial'[k] \in Serial /\ run' = run
        BY <1>0, <1>1, <2>1 DEF s
      <4> QED BY <2>2, <2>5, <3>1, <4>1, <4>2 DEF Controls
    <3>2. CASE j # k
      <4>1. Controls(j) /\ ctl'[j] = ctl[j] /\ ctlDs'[j] = ctlDs[j] /\ ctlSerial' = ctlSerial
            /\ run' = run
        BY <1>0, <1>1, <2>1, <2>5, <3>2
      <4>2. ctl[j] \in {"stop", "await"} => \A t \in Serial : devices'[t] # ctlDs[j]
        BY <2>4, <4>1, SupConstants DEF Controls
      <4> QED BY <4>1, <4>2 DEF Controls
    <3> QED BY <3>1, <3>2
  <2>8. ASSUME NEW t \in Serial PROVE Mapped(t)'
    <3>1. devices'[t] # None => devices'[t] = devices[t]
      BY <2>4
    <3> QED BY <1>1, <3>1 DEF SupInv, Mapped, dsVars
  <2>9. \A e \in Ds : Lives(e)'
    BY <1>1 DEF SupInv, Lives, dsVars
  <2>10. \A c \in Caller : Handles(c)'
    BY <1>1 DEF SupInv, Handles, callVars, dsVars
  <2>11. \A t \in Serial : devices'[t] # None => devices'[t] = devices[t]
    BY <2>4
  <2>12. ClaimedHasCapture'
    BY <1>1, <2>11 DEF SupInv, ClaimedHasCapture, dsVars, streamVars
  <2> QED BY <1>1, <2>6, <2>7, <2>8, <2>9, <2>10, <2>12 DEF SupInv, MapsInverse, portVars
<1> QED BY <1>2, <1>3

\* Stop cancels a supervisor that has left the map.
LEMMA StopKeeps ==
  ASSUME SupInv, NEW k \in Controller, Stop(k)
  PROVE  SupInv'
<1> DEFINE d == ctlDs[k]
<1>0. SupTypeOK /\ Controls(k) /\ ctl[k] = "stop"
  BY DEF SupInv, Stop
<1>1. d \in Ds /\ run[d] # "unborn" /\ \A s \in Serial : devices[s] # d
  BY <1>0 DEF Controls
<1>2. /\ ctl' = [ctl EXCEPT ![k] = "await"]
      /\ cancelled' = [cancelled EXCEPT ![d] = @ \/ CancelStored(d)]
      /\ UNCHANGED <<portVars, appVars, ctlSerial, ctlDs, devices, run, serialOf, allocated,
                     state, session, port, callVars, streamVars>>
  BY DEF Stop, Goto
<1> HIDE DEF d
<1>3. /\ cancelled' \in [Ds -> BOOLEAN] /\ (cancelled[d] => cancelled'[d])
      /\ \A e \in Ds : e # d => cancelled'[e] = cancelled[e]
  BY <1>0, <1>1, <1>2 DEF SupTypeOK
<1>4. /\ ctl' \in [Controller -> CtlPC] /\ ctl'[k] = "await"
      /\ \A j \in Controller : j # k => ctl'[j] = ctl[j]
  BY <1>0, <1>2 DEF SupTypeOK, CtlPC
<1>5. SupTypeOK'
  BY <1>0, <1>2, <1>3, <1>4
     DEF SupTypeOK, PortTypeOK, portVars, appVars, callVars, streamVars, CtlPC
<1>6. ASSUME NEW j \in Controller PROVE Controls(j)'
  <2>1. Controls(j) /\ (ctl'[j] = ctl[j] \/ (j = k /\ ctl'[j] = "await"))
    BY <1>4 DEF SupInv
  <2> QED BY <1>0, <1>2, <2>1 DEF Controls
<1>7. ASSUME NEW s \in Serial PROVE Mapped(s)'
  <2>1. Mapped(s) /\ devices[s] # d /\ devices[s] \in Ds \cup {None}
    BY <1>0, <1>1 DEF SupInv, SupTypeOK
  <2>2. devices[s] # None => cancelled'[devices[s]] = cancelled[devices[s]]
    BY <1>3, <2>1
  <2> QED BY <1>2, <2>1, <2>2 DEF Mapped
<1>8. ASSUME NEW e \in Ds PROVE Lives(e)'
  <2>1. Lives(e)
    BY DEF SupInv
  <2>2. CASE e = d
    BY <1>1, <1>2, <1>3, <2>1, <2>2 DEF Lives
  <2>3. CASE e # d
    <3>1. cancelled'[e] = cancelled[e]
      BY <1>3, <2>3
    <3> QED BY <1>2, <2>1, <3>1 DEF Lives
  <2> QED BY <2>2, <2>3
<1>9. \A c \in Caller : Handles(c)'
  BY <1>2 DEF SupInv, Handles, callVars
<1>10. ClaimedHasCapture' /\ MapsInverse'
  BY <1>2 DEF SupInv, ClaimedHasCapture, MapsInverse, streamVars, portVars
<1> QED BY <1>5, <1>6, <1>7, <1>8, <1>9, <1>10 DEF SupInv

-----------------------------------------------------------------------------
(* Run, the handlers and the captures.                                     *)

\* Run goes on from one of its steps to the next.
LEMMA RunKeeps ==
  ASSUME SupInv, NEW d \in Ds, NEW l \in RunPC, run[d] # "unborn", l # "unborn",
         run' = [run EXCEPT ![d] = l],
         l \in Ending => cancelled[d], l \in Running => run[d] \in Running,
         \/ session' = session
         \/ l \notin Running /\ session' = [session EXCEPT ![d] = FALSE],
         PortTypeOK', MapsInverse', ClaimedHasCapture',
         allocated' \in [Ds -> Pool \cup {NoPort}], port' \in [Ds -> Pool \cup {NoPort}],
         streams' \in [Serial -> Capture], stopping' \in [Ds \cup Caller -> Capture],
         UNCHANGED <<appVars, ctlVars, devices, serialOf, cancelled, state, callVars>>
  PROVE  SupInv'
<1>0. SupTypeOK
  BY DEF SupInv
<1>1. /\ run' \in [Ds -> RunPC] /\ run'[d] = l /\ \A e \in Ds : e # d => run'[e] = run[e]
  BY <1>0 DEF SupTypeOK
<1>2. /\ session' \in [Ds -> BOOLEAN] /\ \A e \in Ds : e # d => session'[e] = session[e]
      /\ l \in Running => session'[d] = session[d]
  BY <1>0 DEF SupTypeOK
<1>3. SupTypeOK'
  BY <1>0, <1>1, <1>2 DEF SupTypeOK, appVars, ctlVars, callVars
<1>4. \A e \in Ds : run[e] # "unborn" <=> run'[e] # "unborn"
  BY <1>1
<1>5. \A k \in Controller : Controls(k)'
  BY <1>4 DEF SupInv, Controls, ctlVars
<1>6. ASSUME NEW t \in Serial PROVE Mapped(t)'
  <2>1. Mapped(t) /\ devices[t] \in Ds \cup {None}
    BY <1>0 DEF SupInv, SupTypeOK
  <2> QED BY <1>4, <2>1 DEF Mapped
<1>7. ASSUME NEW e \in Ds PROVE Lives(e)'
  <2>1. Lives(e)
    BY DEF SupInv
  <2>2. CASE e = d
    BY <1>1, <1>2, <2>1, <2>2 DEF Lives
  <2>3. CASE e # d
    <3>1. run'[e] = run[e] /\ session'[e] = session[e]
      BY <1>1, <1>2, <2>3
    <3> QED BY <2>1, <3>1 DEF Lives
  <2> QED BY <2>2, <2>3
<1>8. \A c \in Caller : Handles(c)'
  BY <1>4 DEF SupInv, Handles, callVars
<1> QED BY <1>3, <1>5, <1>6, <1>7, <1>8 DEF SupInv

\* StopCapture: the capture leaves the table, and later has come to its end.
LEMMA BeginStop ==
  ASSUME SupTypeOK, NEW t \in Ds \cup Caller, NEW s \in Serial, BeginStopCapture(t, s)
  PROVE  /\ streams' \in [Serial -> Capture] /\ stopping' \in [Ds \cup Caller -> Capture]
         /\ \A r \in Serial : r # s => streams'[r] = streams[r]
  BY SupConstants DEF BeginStopCapture, SupTypeOK

LEMMA EndStop ==
  ASSUME SupTypeOK, NEW t \in Ds \cup Caller, EndStopCapture(t)
  PROVE  stopping' \in [Ds \cup Caller -> Capture]
  BY SupConstants DEF EndStopCapture, SupTypeOK

LEMMA RunStepKeeps ==
  ASSUME SupInv, NEW d \in Ds, RunStep(d)
  PROVE  SupInv'
<1>0. /\ SupTypeOK /\ Lives(d) /\ PortTypeOK /\ MapsInverse /\ ClaimedHasCapture
      /\ allocated \in [Ds -> Pool \cup {NoPort}] /\ port \in [Ds -> Pool \cup {NoPort}]
      /\ streams \in [Serial -> Capture] /\ stopping \in [Ds \cup Caller -> Capture]
      /\ d \in Ds \cup Caller
  BY DEF SupInv, SupTypeOK
<1>1. ASSUME UNCHANGED portVars PROVE PortTypeOK' /\ MapsInverse'
  BY <1>0, <1>1 DEF PortTypeOK, MapsInverse, portVars
<1>2. ASSUME UNCHANGED <<devices, serialOf, state, streams>> PROVE ClaimedHasCapture'
  BY <1>0, <1>2 DEF ClaimedHasCapture
<1>3. CASE RunStart(d)
  <2>1. /\ run[d] = "spawned" /\ run' = [run EXCEPT ![d] = "allocating"]
        /\ UNCHANGED <<portVars, appVars, ctlVars, devices, serialOf, cancelled, allocated, state,
                       session, port, callVars, streams, stopping>>
    BY <1>3 DEF RunStart, RunGoto, streamVars
  <2> QED BY <1>0, <1>1, <1>2, <2>1, RunKeeps DEF RunPC, Ending, Running
<1>4. CASE RunAllocate(d)
  <2> DEFINE l == IF bySerial'[serialOf[d]] = NoPort THEN "done" ELSE "publishing"
  <2>1. /\ run[d] = "allocating" /\ run' = [run EXCEPT ![d] = l] /\ serialOf[d] \in Serial
        /\ Allocate(serialOf[d]) /\ allocated' = [allocated EXCEPT ![d] = bySerial'[serialOf[d]]]
        /\ UNCHANGED <<appVars, ctlVars, devices, serialOf, cancelled, state, session, port,
                       callVars, streams, stopping>>
    BY <1>0, <1>4 DEF RunAllocate, RunGoto, streamVars, Lives
  <2>2. PortTypeOK' /\ MapsInverse'
    BY <1>0, <2>1, AllocateInv DEF PortInv
  <2>3. allocated' \in [Ds -> Pool \cup {NoPort}]
    <3>1. bySerial'[serialOf[d]] \in Pool \cup {NoPort}
      BY <2>1, <2>2 DEF PortTypeOK
    <3> QED BY <1>0, <2>1, <3>1
  <2>4. l \in {"done", "publishing"}
    OBVIOUS
  <2>5. l \in RunPC /\ l \notin Ending /\ l # "unborn"
    BY <2>4 DEF RunPC, Ending
  <2> HIDE DEF l
  <2> QED BY <1>0, <1>2, <2>1, <2>2, <2>3, <2>5, RunKeeps DEF Running
<1>5. CASE RunPublish(d)
  <2>1. /\ run[d] = "publishing" /\ run' = [run EXCEPT ![d] = "serving"]
        /\ port' = [port EXCEPT ![d] = allocated[d]]
        /\ UNCHANGED <<portVars, appVars, ctlVars, devices, serialOf, cancelled, allocated, state,
                       session, callVars, streams, stopping>>
    BY <1>5 DEF RunPublish, RunGoto, streamVars
  <2>2. port' \in [Ds -> Pool \cup {NoPort}]
    BY <1>0, <2>1
  <2> QED BY <1>0, <1>1, <1>2, <2>1, <2>2, RunKeeps DEF RunPC, Ending, Running
<1>6. CASE RunTeardown(d)
  <2>1. /\ run[d] = "serving" /\ cancelled[d] /\ run' = [run EXCEPT ![d] = "stopCapture"]
        /\ session' = [session EXCEPT ![d] = FALSE]
        /\ UNCHANGED <<portVars, appVars, ctlVars, devices, serialOf, cancelled, allocated, state,
                       port, callVars, streams, stopping>>
    BY <1>6 DEF RunTeardown, RunGoto, streamVars
  <2> QED BY <1>0, <1>1, <1>2, <2>1, RunKeeps DEF RunPC, Ending, Running
<1>7. CASE RunStopCapture(d)
  <2>1. /\ run[d] = "stopCapture" /\ run' = [run EXCEPT ![d] = "awaitCapture"]
        /\ BeginStopCapture(d, serialOf[d])
        /\ UNCHANGED <<portVars, appVars, ctlVars, devices, serialOf, cancelled, allocated, state,
                       session, port, callVars>>
    BY <1>7 DEF RunStopCapture, RunGoto, dsVars
  <2>2. cancelled[d] /\ serialOf[d] \in Serial
    BY <1>0, <2>1 DEF Lives, Ending
  <2>3. /\ streams' \in [Serial -> Capture] /\ stopping' \in [Ds \cup Caller -> Capture]
        /\ \A r \in Serial : r # serialOf[d] => streams'[r] = streams[r]
    BY <1>0, <2>1, <2>2, BeginStop
  <2>4. ClaimedHasCapture'
    <3> SUFFICES ASSUME NEW t \in Serial, devices[t] # None,
                        state[devices[t]] \in {"claimed", "busy"},
                        \A e \in Ds : serialOf[e] = t => e = devices[t]
                 PROVE  streams'[t].status # "none"
      BY <2>1 DEF ClaimedHasCapture
    <3>1. t # serialOf[d]
      BY <2>2 DEF SupInv, Mapped
    <3> QED BY <1>0, <2>3, <3>1 DEF ClaimedHasCapture
  <2> QED BY <1>0, <1>1, <2>1, <2>2, <2>3, <2>4, RunKeeps DEF RunPC, Ending, Running
<1>8. CASE RunCaptureDone(d)
  <2>1. /\ run[d] = "awaitCapture" /\ run' = [run EXCEPT ![d] = "free"] /\ EndStopCapture(d)
        /\ UNCHANGED <<portVars, appVars, ctlVars, devices, serialOf, cancelled, allocated, state,
                       session, port, callVars, streams>>
    BY <1>8 DEF RunCaptureDone, RunGoto, dsVars
  <2>2. cancelled[d] /\ stopping' \in [Ds \cup Caller -> Capture]
    BY <1>0, <2>1, EndStop DEF Lives, Ending
  <2> QED BY <1>0, <1>1, <1>2, <2>1, <2>2, RunKeeps DEF RunPC, Ending, Running
<1>9. CASE RunFree(d)
  <2>1. /\ run[d] = "free" /\ run' = [run EXCEPT ![d] = "done"] /\ Free(serialOf[d])
        /\ serialOf[d] \in Serial
        /\ UNCHANGED <<appVars, ctlVars, devices, serialOf, cancelled, allocated, state, session,
                       port, callVars, streams, stopping>>
    BY <1>0, <1>9 DEF RunFree, RunGoto, dsVars, streamVars, Lives
  <2>2. PortTypeOK' /\ MapsInverse'
    BY <1>0, <2>1, FreeInv DEF PortInv
  <2> QED BY <1>0, <1>2, <2>1, <2>2, RunKeeps DEF RunPC, Ending, Running
<1> QED BY <1>3, <1>4, <1>5, <1>6, <1>7, <1>8, <1>9 DEF RunStep

CallPC == {"ready", "claim", "activate", "release", "releasing"}

\* A handler that may use the supervisor moves its state and session together.
LEMMA HandlerKeeps ==
  ASSUME SupInv, NEW c \in Caller, NEW d \in Ds, callDs[c] = d, call[c] # "ready",
         state' \in [Ds -> State], session' \in [Ds -> BOOLEAN],
         \A f \in Ds : f # d => state'[f] = state[f] /\ session'[f] = session[f],
         run[d] \in Running => (session'[d] <=> state'[d] \in {"claimed", "busy"}),
         \A a \in Caller : a # c /\ call[a] = "releasing" => callDs[a] # d,
         call' \in [Caller -> CallPC], callDs' \in [Caller -> Ds \cup {None}],
         \A a \in Caller : a # c => call'[a] = call[a] /\ callDs'[a] = callDs[a],
         call'[c] # "ready" => callDs'[c] = d, call'[c] = "releasing" => state'[d] = "releasing",
         ClaimedHasCapture',
         streams' \in [Serial -> Capture], stopping' \in [Ds \cup Caller -> Capture],
         UNCHANGED <<portVars, appVars, ctlVars, devices, run, serialOf, cancelled, allocated, port>>
  PROVE  SupInv'
<1>0. SupTypeOK /\ run[d] # "unborn"
  BY DEF SupInv, Handles
<1>3. SupTypeOK'
  BY <1>0
     DEF SupTypeOK, PortTypeOK, portVars, appVars, ctlVars, State, CallPC
<1>4. \A k \in Controller : Controls(k)'
  BY DEF SupInv, Controls, ctlVars
<1>5. \A s \in Serial : Mapped(s)'
  BY DEF SupInv, Mapped
<1>6. ASSUME NEW f \in Ds PROVE Lives(f)'
  <2>1. Lives(f)
    BY DEF SupInv
  <2>2. CASE f = d
    BY <1>0, <2>1, <2>2 DEF Lives
  <2>3. CASE f # d
    <3>1. state'[f] = state[f] /\ session'[f] = session[f]
      BY <2>3
    <3> QED BY <2>1, <3>1 DEF Lives
  <2> QED BY <2>2, <2>3
<1>7. ASSUME NEW a \in Caller PROVE Handles(a)'
  <2>1. CASE a = c
    <3>1. \A g \in Caller : call'[g] = "releasing" /\ callDs'[g] = d => g = c
      OBVIOUS
    <3> QED BY <1>0, <2>1, <3>1 DEF Handles
  <2>2. CASE a # c
    <3>1. Handles(a) /\ call'[a] = call[a] /\ callDs'[a] = callDs[a]
          /\ (call[a] = "releasing" => callDs[a] # d)
      BY <2>2 DEF SupInv
    <3>2. call[a] = "releasing" => callDs[a] \in Ds /\ state'[callDs[a]] = "releasing"
      BY <3>1 DEF Handles
    <3>3. ASSUME call[a] = "releasing", NEW g \in Caller, call'[g] = "releasing",
                 callDs'[g] = callDs[a]
          PROVE  g = a
      <4>1. g # c
        BY <2>2, <3>1, <3>3
      <4> QED BY <3>1, <3>3, <4>1 DEF Handles
    <3> QED BY <3>1, <3>2, <3>3 DEF Handles
  <2> QED BY <2>1, <2>2
<1>8. MapsInverse'
  BY DEF SupInv, MapsInverse, portVars
<1> QED BY <1>3, <1>4, <1>5, <1>6, <1>7, <1>8 DEF SupInv

\* Claim, Activate and Release.
LEMMA CallKeeps ==
  ASSUME SupInv, NEW c \in Caller, CallStep(c)
  PROVE  SupInv'
<1> DEFINE d == callDs[c]
<1>0. /\ SupTypeOK /\ call[c] # "ready" /\ Handles(c) /\ ClaimedHasCapture
  BY DEF SupInv, CallStep, ClaimOk, ClaimError, Activate, Release, ReleaseNothing, ReleaseDone
<1>1. /\ d \in Ds /\ run[d] # "unborn" /\ Lives(d) /\ serialOf[d] \in Serial
      /\ state[d] \in State /\ session[d] \in BOOLEAN /\ c \in Ds \cup Caller
      /\ state = [state EXCEPT ![d] = state[d]] /\ session = [session EXCEPT ![d] = session[d]]
      /\ callDs = [callDs EXCEPT ![c] = d]
      /\ streams \in [Serial -> Capture] /\ stopping \in [Ds \cup Caller -> Capture]
  BY <1>0 DEF SupInv, SupTypeOK, Handles, Lives, State
<1>2. run[d] \in Running => (session[d] <=> state[d] \in {"claimed", "busy"})
  BY <1>1 DEF Lives
<1>20. /\ state \in [Ds -> State] /\ session \in [Ds -> BOOLEAN] /\ call \in [Caller -> CallPC]
      /\ callDs \in [Caller -> Ds \cup {None}]
  BY <1>0 DEF SupTypeOK, State, CallPC
<1>21. callDs[c] = d /\ call[c] # "ready"
  BY <1>0
<1>3. ~Locked(d) => \A a \in Caller : a # c /\ call[a] = "releasing" => callDs[a] # d
  BY DEF Locked
<1>4. ASSUME Return(c)
      PROVE  call' = [call EXCEPT ![c] = "ready"] /\ callDs' = [callDs EXCEPT ![c] = None]
  BY <1>4 DEF Return
<1> HIDE DEF d
<1>5. ASSUME UNCHANGED <<devices, serialOf, streams>>, NEW l \in State,
             state' = [state EXCEPT ![d] = l],
             l \in {"claimed", "busy"} => state[d] \in {"claimed", "busy"}
      PROVE  ClaimedHasCapture'
  <2>1. \A t \in Serial : devices[t] # None =>
          (state'[devices[t]] \in {"claimed", "busy"} => state[devices[t]] \in {"claimed", "busy"})
    BY <1>0, <1>1, <1>5 DEF SupTypeOK
  <2> QED BY <1>0, <1>5, <2>1 DEF ClaimedHasCapture
<1>6. CASE ClaimOk(c)
  <2>1. /\ ~Locked(d) /\ StartCaptureOk(serialOf[d], port[d])
        /\ state' = [state EXCEPT ![d] = "claimed"] /\ session' = [session EXCEPT ![d] = TRUE]
        /\ Return(c) /\ stopping' = stopping
        /\ UNCHANGED <<portVars, appVars, ctlVars, devices, run, serialOf, cancelled, allocated,
                       port>>
    BY <1>6 DEF ClaimOk, d
  <2>2. /\ streams' \in [Serial -> Capture] /\ streams'[serialOf[d]].status # "none"
        /\ \A t \in Serial : t # serialOf[d] => streams'[t] = streams[t]
    <3>1. [port |-> port[d], status |-> "live"] \in Capture
          /\ [port |-> port[d], status |-> "live"].status = "live"
      BY <1>0, <1>1 DEF SupTypeOK, Capture
    <3>2. CASE UNCHANGED streams /\ streams[serialOf[d]].status # "none"
      BY <1>1, <3>2
    <3>3. CASE streams' = [streams EXCEPT ![serialOf[d]] = [port |-> port[d], status |-> "live"]]
      BY <1>1, <3>1, <3>3
    <3> QED BY <2>1, <3>2, <3>3 DEF StartCaptureOk
  <2>3. ClaimedHasCapture'
    <3> SUFFICES ASSUME NEW t \in Serial, devices[t] # None,
                        state'[devices[t]] \in {"claimed", "busy"},
                        \A e \in Ds : serialOf[e] = t => e = devices[t]
                 PROVE  streams'[t].status # "none"
      BY <2>1 DEF ClaimedHasCapture
    <3>1. CASE t = serialOf[d]
      BY <2>2, <3>1
    <3>2. CASE t # serialOf[d]
      <4>1. devices[t] # d /\ devices[t] \in Ds
        BY <1>0, <3>2 DEF SupInv, SupTypeOK, Mapped
      <4>2. state[devices[t]] = state'[devices[t]]
        BY <1>0, <1>1, <2>1, <4>1 DEF SupTypeOK
      <4> QED BY <1>0, <2>2, <3>2, <4>2 DEF ClaimedHasCapture
    <3> QED BY <3>1, <3>2
  <2>4. stopping' \in [Ds \cup Caller -> Capture] /\ "claimed" \in State /\ "ready" \in CallPC
    BY <1>1, <2>1 DEF State, CallPC
  <2>8. /\ state' \in [Ds -> State] /\ state'[d] = "claimed"
        /\ session' \in [Ds -> BOOLEAN] /\ session'[d] = TRUE
        /\ \A f \in Ds : f # d => state'[f] = state[f] /\ session'[f] = session[f]
    BY <1>1, <1>20, <2>1, <2>2, <2>3, <2>4
  <2>9. /\ call' \in [Caller -> CallPC] /\ call'[c] = "ready"
        /\ callDs' \in [Caller -> Ds \cup {None}] /\ callDs'[c] = None
        /\ \A a \in Caller : a # c => call'[a] = call[a] /\ callDs'[a] = callDs[a]
    BY <1>1, <1>4, <1>20, <2>1, <2>4 DEF CallPC
  <2>10. /\ run[d] \in Running => (session'[d] <=> state'[d] \in {"claimed", "busy"})
         /\ \A a \in Caller : a # c /\ call[a] = "releasing" => callDs[a] # d
    BY <1>2, <1>3, <2>1, <2>2, <2>3, <2>8
  <2>11. stopping' \in [Ds \cup Caller -> Capture] /\ streams' \in [Serial -> Capture]
    BY <1>1, <2>1, <2>2, <2>3
  <2>12. /\ d \in Ds
         /\ UNCHANGED <<portVars, appVars, ctlVars, devices, run, serialOf, cancelled, allocated,
                        port>>
    BY <1>1, <2>1
  <2> QED BY <1>21, <2>3, <2>8, <2>9, <2>10, <2>11, <2>12, HandlerKeeps
<1>7. CASE ClaimError(c) \/ ReleaseNothing(c)
  <2>1. /\ ~Locked(d) /\ Return(c)
        /\ UNCHANGED <<portVars, appVars, ctlVars, devices, run, serialOf, cancelled, allocated,
                       state, session, port, streams, stopping>>
    BY <1>7 DEF ClaimError, ReleaseNothing, d, dsVars, streamVars
  <2>2. /\ state' = [state EXCEPT ![d] = state[d]] /\ session' = [session EXCEPT ![d] = session[d]]
        /\ streams' \in [Serial -> Capture] /\ stopping' \in [Ds \cup Caller -> Capture]
        /\ "ready" \in CallPC
    BY <1>1, <2>1 DEF CallPC
  <2>3. ClaimedHasCapture'
    BY <1>1, <1>5, <2>1, <2>2
  <2>8. /\ state' \in [Ds -> State] /\ state'[d] = state[d]
        /\ session' \in [Ds -> BOOLEAN] /\ session'[d] = session[d]
        /\ \A f \in Ds : f # d => state'[f] = state[f] /\ session'[f] = session[f]
    BY <1>1, <1>20, <2>1, <2>2, <2>3
  <2>9. /\ call' \in [Caller -> CallPC] /\ call'[c] = "ready"
        /\ callDs' \in [Caller -> Ds \cup {None}] /\ callDs'[c] = None
        /\ \A a \in Caller : a # c => call'[a] = call[a] /\ callDs'[a] = callDs[a]
    BY <1>1, <1>4, <1>20, <2>1 DEF CallPC
  <2>10. /\ run[d] \in Running => (session'[d] <=> state'[d] \in {"claimed", "busy"})
         /\ \A a \in Caller : a # c /\ call[a] = "releasing" => callDs[a] # d
    BY <1>2, <1>3, <2>1, <2>2, <2>3, <2>8
  <2>11. stopping' \in [Ds \cup Caller -> Capture] /\ streams' \in [Serial -> Capture]
    BY <1>1, <2>1, <2>2, <2>3
  <2> QED BY <1>1, <1>21, <2>1, <2>3, <2>8, <2>9, <2>10, <2>11, HandlerKeeps
<1>8. CASE Activate(c)
  <2>1. /\ ~Locked(d) /\ Return(c)
        /\ (state[d] = "claimed" => state' = [state EXCEPT ![d] = "busy"])
        /\ (state[d] # "claimed" => state' = state)
        /\ UNCHANGED <<portVars, appVars, ctlVars, devices, run, serialOf, cancelled, allocated,
                       session, port, streams, stopping>>
    BY <1>8 DEF Activate, d, streamVars
  <2>2. PICK l \in State : /\ state' = [state EXCEPT ![d] = l]
                           /\ l \in {"claimed", "busy"} <=> state[d] \in {"claimed", "busy"}
    <3>1. CASE state[d] = "claimed"
      BY <2>1, <3>1 DEF State
    <3>2. CASE state[d] # "claimed"
      BY <1>1, <2>1, <3>2
    <3> QED BY <3>1, <3>2
  <2>3. /\ session' = [session EXCEPT ![d] = session[d]]
        /\ streams' \in [Serial -> Capture] /\ stopping' \in [Ds \cup Caller -> Capture]
        /\ "ready" \in CallPC /\ run[d] \in Running => (session[d] <=> l \in {"claimed", "busy"})
    BY <1>1, <1>2, <2>1, <2>2 DEF CallPC
  <2>4. ClaimedHasCapture'
    BY <1>5, <2>1, <2>2
  <2>8. /\ state' \in [Ds -> State] /\ state'[d] = l
        /\ session' \in [Ds -> BOOLEAN] /\ session'[d] = session[d]
        /\ \A f \in Ds : f # d => state'[f] = state[f] /\ session'[f] = session[f]
    BY <1>1, <1>20, <2>1, <2>2, <2>3, <2>4
  <2>9. /\ call' \in [Caller -> CallPC] /\ call'[c] = "ready"
        /\ callDs' \in [Caller -> Ds \cup {None}] /\ callDs'[c] = None
        /\ \A a \in Caller : a # c => call'[a] = call[a] /\ callDs'[a] = callDs[a]
    BY <1>1, <1>4, <1>20, <2>1, <2>4 DEF CallPC
  <2>10. /\ run[d] \in Running => (session'[d] <=> state'[d] \in {"claimed", "busy"})
         /\ \A a \in Caller : a # c /\ call[a] = "releasing" => callDs[a] # d
    BY <1>2, <1>3, <2>1, <2>2, <2>3, <2>8
  <2>11. stopping' \in [Ds \cup Caller -> Capture] /\ streams' \in [Serial -> Capture]
    BY <1>1, <2>1, <2>2, <2>3
  <2> QED BY <1>1, <1>21, <2>1, <2>3, <2>4, <2>8, <2>9, <2>10, <2>11, HandlerKeeps
<1>9. CASE Release(c)
  <2>1. /\ ~Locked(d) /\ call' = [call EXCEPT ![c] = "releasing"]
        /\ state' = [state EXCEPT ![d] = "releasing"] /\ session' = [session EXCEPT ![d] = FALSE]
        /\ BeginStopCapture(c, serialOf[d]) /\ callDs' = callDs
        /\ UNCHANGED <<portVars, appVars, ctlVars, devices, run, serialOf, cancelled, allocated,
                       port>>
    BY <1>9 DEF Release, d
  <2>2. /\ streams' \in [Serial -> Capture] /\ stopping' \in [Ds \cup Caller -> Capture]
        /\ \A r \in Serial : r # serialOf[d] => streams'[r] = streams[r]
    BY <1>0, <1>1, <2>1, BeginStop
  <2>3. ClaimedHasCapture'
    <3> SUFFICES ASSUME NEW t \in Serial, devices[t] # None,
                        state'[devices[t]] \in {"claimed", "busy"},
                        \A e \in Ds : serialOf[e] = t => e = devices[t]
                 PROVE  streams'[t].status # "none"
      BY <2>1 DEF ClaimedHasCapture
    <3>1. devices[t] \in Ds /\ devices[t] # d
      BY <1>0, <1>1, <2>1 DEF SupTypeOK
    <3>2. t # serialOf[d]
      BY <1>1, <3>1
    <3>3. state[devices[t]] = state'[devices[t]]
      BY <1>0, <1>1, <2>1, <3>1 DEF SupTypeOK
    <3> QED BY <1>0, <2>2, <3>2, <3>3 DEF ClaimedHasCapture
  <2>4. callDs' = [callDs EXCEPT ![c] = d] /\ "releasing" \in State /\ "releasing" \in CallPC
    BY <1>1, <2>1 DEF State, CallPC
  <2>8. /\ state' \in [Ds -> State] /\ state'[d] = "releasing"
        /\ session' \in [Ds -> BOOLEAN] /\ session'[d] = FALSE
        /\ \A f \in Ds : f # d => state'[f] = state[f] /\ session'[f] = session[f]
    BY <1>1, <1>20, <2>1, <2>2, <2>3, <2>4
  <2>9. /\ call' \in [Caller -> CallPC] /\ call'[c] = "releasing"
        /\ callDs' \in [Caller -> Ds \cup {None}] /\ callDs'[c] = d
        /\ \A a \in Caller : a # c => call'[a] = call[a] /\ callDs'[a] = callDs[a]
    BY <1>1, <1>4, <1>20, <2>1, <2>4 DEF CallPC
  <2>10. /\ run[d] \in Running => (session'[d] <=> state'[d] \in {"claimed", "busy"})
         /\ \A a \in Caller : a # c /\ call[a] = "releasing" => callDs[a] # d
    BY <1>2, <1>3, <2>1, <2>2, <2>3, <2>8
  <2>11. stopping' \in [Ds \cup Caller -> Capture] /\ streams' \in [Serial -> Capture]
    BY <1>1, <2>1, <2>2, <2>3
  <2>12. /\ d \in Ds
         /\ UNCHANGED <<portVars, appVars, ctlVars, devices, run, serialOf, cancelled, allocated,
                        port>>
    BY <1>1, <2>1
  <2> QED BY <1>21, <2>3, <2>8, <2>9, <2>10, <2>11, <2>12, HandlerKeeps
<1>10. CASE ReleaseDone(c)
  <2>1. /\ call[c] = "releasing" /\ EndStopCapture(c) /\ state' = [state EXCEPT ![d] = "idle"]
        /\ Return(c)
        /\ UNCHANGED <<portVars, appVars, ctlVars, devices, run, serialOf, cancelled, allocated,
                       session, port, streams>>
    BY <1>10 DEF ReleaseDone, d
  <2>2. /\ state[d] = "releasing"
        /\ \A a \in Caller : a # c /\ call[a] = "releasing" => callDs[a] # d
    BY <1>0, <2>1 DEF Handles, d
  <2>3. /\ session' = [session EXCEPT ![d] = session[d]] /\ "idle" \in State
        /\ run[d] \in Running => (session[d] <=> "idle" \in {"claimed", "busy"})
        /\ streams' \in [Serial -> Capture] /\ stopping' \in [Ds \cup Caller -> Capture]
        /\ "ready" \in CallPC
    BY <1>0, <1>1, <1>2, <2>1, <2>2, EndStop DEF State, CallPC
  <2>4. ClaimedHasCapture'
    BY <1>5, <2>1, <2>3
  <2>8. /\ state' \in [Ds -> State] /\ state'[d] = "idle"
        /\ session' \in [Ds -> BOOLEAN] /\ session'[d] = session[d]
        /\ \A f \in Ds : f # d => state'[f] = state[f] /\ session'[f] = session[f]
    BY <1>1, <1>20, <2>1, <2>2, <2>3, <2>4
  <2>9. /\ call' \in [Caller -> CallPC] /\ call'[c] = "ready"
        /\ callDs' \in [Caller -> Ds \cup {None}] /\ callDs'[c] = None
        /\ \A a \in Caller : a # c => call'[a] = call[a] /\ callDs'[a] = callDs[a]
    BY <1>1, <1>4, <1>20, <2>1, <2>4 DEF CallPC
  <2>10. /\ run[d] \in Running => (session'[d] <=> state'[d] \in {"claimed", "busy"})
         /\ \A a \in Caller : a # c /\ call[a] = "releasing" => callDs[a] # d
    BY <1>2, <1>3, <2>1, <2>2, <2>3, <2>8
  <2>11. stopping' \in [Ds \cup Caller -> Capture] /\ streams' \in [Serial -> Capture]
    BY <1>1, <2>1, <2>2, <2>3
  <2> QED BY <1>1, <1>21, <2>1, <2>3, <2>4, <2>8, <2>9, <2>10, <2>11, HandlerKeeps
<1> QED BY <1>6, <1>7, <1>8, <1>9, <1>10 DEF CallStep

\* Supervisor.get.
LEMMA GetKeeps ==
  ASSUME SupInv, NEW c \in Caller, NEW s \in Serial, NEW op \in {"claim", "activate", "release"},
         Get(c, s, op)
  PROVE  SupInv'
<1>0. SupTypeOK
  BY DEF SupInv
<1>1. /\ devices[s] # None /\ call' = [call EXCEPT ![c] = op]
      /\ callDs' = [callDs EXCEPT ![c] = devices[s]]
      /\ UNCHANGED <<portVars, appVars, ctlVars, devices, run, dsVars, streamVars>>
  BY DEF Get
<1>2. devices[s] \in Ds /\ run[devices[s]] # "unborn"
  BY <1>0, <1>1 DEF SupInv, SupTypeOK, Mapped
<1>3. /\ call' \in [Caller -> CallPC] /\ callDs' \in [Caller -> Ds \cup {None}]
      /\ call'[c] = op /\ callDs'[c] = devices[s] /\ op # "releasing"
      /\ \A a \in Caller : a # c => call'[a] = call[a] /\ callDs'[a] = callDs[a]
  BY <1>0, <1>1, <1>2 DEF SupTypeOK, CallPC
<1>4. SupTypeOK'
  BY <1>0, <1>1, <1>3
     DEF SupTypeOK, PortTypeOK, portVars, appVars, ctlVars, dsVars, streamVars, CallPC
<1>5. \A k \in Controller : Controls(k)'
  BY <1>1 DEF SupInv, Controls, ctlVars
<1>6. \A t \in Serial : Mapped(t)'
  BY <1>1 DEF SupInv, Mapped, dsVars
<1>7. \A d \in Ds : Lives(d)'
  BY <1>1 DEF SupInv, Lives, dsVars
<1>8. ASSUME NEW a \in Caller PROVE Handles(a)'
  <2>1. run' = run /\ state' = state
    BY <1>1 DEF dsVars
  <2>2. CASE a = c
    BY <1>2, <1>3, <2>1, <2>2 DEF Handles
  <2>3. CASE a # c
    <3>1. Handles(a) /\ call'[a] = call[a] /\ callDs'[a] = callDs[a]
      BY <1>3, <2>3 DEF SupInv
    <3>2. \A b \in Caller : call'[b] = "releasing" => call[b] = "releasing" /\ callDs'[b] = callDs[b]
      BY <1>3
    <3> QED BY <2>1, <3>1, <3>2 DEF Handles
  <2> QED BY <2>2, <2>3
<1>9. ClaimedHasCapture' /\ MapsInverse'
  BY <1>1 DEF SupInv, ClaimedHasCapture, MapsInverse, dsVars, streamVars, portVars
<1> QED BY <1>4, <1>5, <1>6, <1>7, <1>8, <1>9 DEF SupInv

\* A capture ends, or nothing happens.
LEMMA CaptureKeeps ==
  ASSUME SupInv, streams' \in [Serial -> Capture], stopping' \in [Ds \cup Caller -> Capture],
         \A s \in Serial : streams[s].status # "none" => streams'[s].status # "none",
         UNCHANGED <<portVars, appVars, ctlVars, devices, run, dsVars, callVars>>
  PROVE  SupInv'
<1>1. SupTypeOK'
  BY DEF SupInv, SupTypeOK, PortTypeOK, portVars, appVars, ctlVars, dsVars, callVars
<1>2. \A k \in Controller : Controls(k)'
  BY DEF SupInv, Controls, ctlVars
<1>3. \A t \in Serial : Mapped(t)'
  BY DEF SupInv, Mapped, dsVars
<1>4. \A d \in Ds : Lives(d)'
  BY DEF SupInv, Lives, dsVars
<1>5. \A c \in Caller : Handles(c)'
  BY DEF SupInv, Handles, callVars, dsVars
<1>6. ClaimedHasCapture'
  BY DEF SupInv, ClaimedHasCapture, dsVars
<1>7. MapsInverse'
  BY DEF SupInv, MapsInverse, portVars
<1> QED BY <1>1, <1>2, <1>3, <1>4, <1>5, <1>6, <1>7 DEF SupInv

LEMMA CaptureEnds ==
  ASSUME NEW r \in Capture
  PROVE  [r EXCEPT !.status = "dead"] \in Capture /\ [r EXCEPT !.status = "dead"].status = "dead"
  BY DEF Capture

LEMMA SupStep == SupInv /\ [SupNext]_vars => SupInv'
<1> SUFFICES ASSUME SupInv, [SupNext]_vars PROVE SupInv'
  OBVIOUS
<1>0. streams \in [Serial -> Capture] /\ stopping \in [Ds \cup Caller -> Capture]
  BY DEF SupInv, SupTypeOK
<1>1. ASSUME NEW s \in Serial, CaptureDies(s) PROVE SupInv'
  <2> DEFINE dead == [streams[s] EXCEPT !.status = "dead"]
  <2>1. /\ streams' = [streams EXCEPT ![s] = dead] /\ stopping' = stopping
        /\ UNCHANGED <<portVars, appVars, ctlVars, devices, run, dsVars, callVars>>
    BY <1>1 DEF CaptureDies
  <2>2. dead \in Capture /\ dead.status = "dead"
    BY <1>0, CaptureEnds
  <2> HIDE DEF dead
  <2>3. /\ streams' \in [Serial -> Capture] /\ streams'[s] = dead
        /\ \A t \in Serial : t # s => streams'[t] = streams[t]
    BY <1>0, <2>1, <2>2
  <2>4. \A t \in Serial : streams[t].status # "none" => streams'[t].status # "none"
    BY <2>2, <2>3
  <2> QED BY <1>0, <2>1, <2>3, <2>4, CaptureKeeps
<1>2. ASSUME NEW t \in Ds \cup Caller, CaptureStops(t) PROVE SupInv'
  <2> DEFINE dead == [stopping[t] EXCEPT !.status = "dead"]
  <2>1. /\ stopping' = [stopping EXCEPT ![t] = dead] /\ streams' = streams
        /\ UNCHANGED <<portVars, appVars, ctlVars, devices, run, dsVars, callVars>>
    BY <1>2 DEF CaptureStops
  <2>2. dead \in Capture
    BY <1>0, CaptureEnds
  <2> HIDE DEF dead
  <2>3. stopping' \in [Ds \cup Caller -> Capture]
    BY <1>0, <2>1, <2>2
  <2> QED BY <1>0, <2>1, <2>3, CaptureKeeps
<1>3. ASSUME NEW k \in Controller, ControllerStep(k) PROVE SupInv'
  <2>1. CASE StopReturns(k)
    <3>1. /\ ctlSerial[k] \in Serial /\ Finish(k, AfterDisconnect(k))
          /\ ctlDs' = [ctlDs EXCEPT ![k] = None]
          /\ UNCHANGED <<portVars, appVars, devices, run, dsVars, callVars, streamVars>>
      BY <2>1 DEF StopReturns, SupInv, Controls
    <3> QED BY <3>1, FinishKeeps
  <2> QED BY <1>3, <2>1, ConnectKeeps, DisconnectKeeps, StopKeeps DEF ControllerStep
<1>4. CASE UNCHANGED vars
  BY <1>0, <1>4, CaptureKeeps DEF vars, streamVars
<1>5. CASE \/ \E s \in Serial : ConnectedEvent(s) \/ DisconnectedEvent(s)
           \/ Shutdown \/ StopNext \/ Exit
           \/ \E k \in Admin : AdminStep(k) \/ \E s \in Serial : AdminReset(k, s)
  BY <1>5, AppKeeps
<1>6. CASE \E d \in Ds : RunStep(d)
  BY <1>6, RunStepKeeps
<1>7. CASE \E c \in Caller : CallStep(c)
  BY <1>7, CallKeeps
<1>8. CASE \E c \in Caller, s \in Serial :
             \E op \in {"claim", "activate", "release"} : Get(c, s, op)
  BY <1>8, GetKeeps
<1> QED BY <1>1, <1>2, <1>3, <1>4, <1>5, <1>6, <1>7, <1>8 DEF SupNext

\* The types of the supervisor's state, whatever the event loop, admin
\* connections, handlers and captures do.
THEOREM SupervisorTypes == SupSpec => []SupTypeOK
<1>1. SupInv => SupTypeOK
  BY DEF SupInv
<1> QED BY <1>1, SupInitInv, SupStep, PTL DEF SupSpec

\* Until teardown, a supervisor has a session exactly when it is claimed or busy
\* (Claim, Activate, Release and teardown of device_supervisor.go), for every
\* number of handlers, those with a stale pointer included.
THEOREM SessionsMatchStates == SupSpec => []SessionMatchesState
<1>1. SupInv => SessionMatchesState
  BY DEF SupInv, Lives, SessionMatchesState, Running
<1> QED BY <1>1, SupInitInv, SupStep, PTL DEF SupSpec

\* The only supervisor a serial has had has a capture in the stream manager's table as
\* long as it is claimed or busy.
THEOREM ClaimsHaveCaptures == SupSpec => []ClaimedHasCapture
<1>1. SupInv => ClaimedHasCapture
  BY DEF SupInv
<1> QED BY <1>1, SupInitInv, SupStep, PTL DEF SupSpec

\* What the supervisor does with the pool of ports is a behaviour of the allocator:
\* a step of a Run is an Allocate or a Free of the serial it was made for, nobody
\* else touches the two maps.
LEMMA SupervisorImplementsPorts == SupSpec => PortSpec
<1>1. SupInit => PortInit
  BY DEF SupInit
<1>2. SupInv /\ [SupNext]_vars => [PortNext]_portVars
  <2> SUFFICES ASSUME SupInv, [SupNext]_vars PROVE [PortNext]_portVars
    OBVIOUS
  <2>1. CASE \E d \in Ds : RunStep(d)
    <3>1. PICK d \in Ds : RunStep(d)
      BY <2>1
    <3>2. run[d] # "unborn" => serialOf[d] \in Serial
      BY DEF SupInv, Lives
    <3>3. CASE RunAllocate(d)
      BY <3>2, <3>3 DEF RunAllocate, PortNext
    <3>4. CASE RunFree(d)
      BY <3>2, <3>4 DEF RunFree, PortNext
    <3>5. CASE ~RunAllocate(d) /\ ~RunFree(d)
      BY <3>1, <3>5 DEF RunStep, RunStart, RunPublish, RunTeardown, RunStopCapture, RunCaptureDone
    <3> QED BY <3>3, <3>4, <3>5
  <2>2. ASSUME NEW k \in Controller, ControllerStep(k) PROVE UNCHANGED portVars
    BY <2>2 DEF ControllerStep, OnDeviceConnected, OnDeviceDisconnected, Stop, StopReturns
  <2>3. ASSUME NEW k \in Admin, AdminStep(k) \/ \E s \in Serial : AdminReset(k, s)
        PROVE  UNCHANGED portVars
    BY <2>3 DEF AdminStep, AdminRemove, AdminAdd, AdminReset, AddDevice, RemoveDevice
  <2>4. ASSUME Shutdown \/ StopNext \/ Exit PROVE UNCHANGED portVars
    BY <2>4 DEF Shutdown, StopNext, Exit
  <2>5. ASSUME NEW s \in Serial, ConnectedEvent(s) \/ DisconnectedEvent(s) \/ CaptureDies(s)
        PROVE  UNCHANGED portVars
    BY <2>5 DEF ConnectedEvent, DisconnectedEvent, CaptureDies, AddDevice, RemoveDevice
  <2>6. ASSUME NEW c \in Caller,
               CallStep(c) \/ \E s \in Serial, op \in {"claim", "activate", "release"} : Get(c, s, op)
        PROVE  UNCHANGED portVars
    BY <2>6 DEF CallStep, Get, ClaimOk, ClaimError, Activate, Release, ReleaseNothing, ReleaseDone
  <2>7. ASSUME NEW t \in Ds \cup Caller, CaptureStops(t) PROVE UNCHANGED portVars
    BY <2>7 DEF CaptureStops
  <2>8. CASE UNCHANGED vars
    BY <2>8 DEF vars
  <2> QED BY <2>1, <2>2, <2>3, <2>4, <2>5, <2>6, <2>7, <2>8 DEF SupNext
<1> QED BY <1>1, <1>2, SupInitInv, SupStep, PTL DEF SupSpec, PortSpec

\* Under all that the supervisor does with the allocator, the ports of two devices
\* never meet when their base ports are near, for every range and every distance
\* between the services (ios_worker.go, device_supervisor.go).
THEOREM SupervisedPortsApart == SupSpec => []DerivedPortsApart
  BY InvApart, PortSafety, SupervisorImplementsPorts, PTL

\* "these will never overlap" (ios_worker.go), for every range narrower than the
\* distance between two services, such as the default 7400-7700; the configuration
\* does not check the width, and a wider range breaks the claim.
THEOREM SupervisedPortsNeverOverlap ==
  ASSUME MaxPort - MinPort < Unit - 1
  PROVE  SupSpec => []DerivedPortsDisjoint
<1>1. PortInv /\ DerivedPortsApart => DerivedPortsDisjoint
  BY ApartDisjoint
<1> QED BY <1>1, InvApart, PortSafety, SupervisorImplementsPorts, PTL

-----------------------------------------------------------------------------
(* Stop.                                                                   *)

Stopping == {"stop", "await"}

\* Event loop and admin connections never stop the same supervisor: whoever took it
\* out of the map stops it.
OneStopper ==
  \A j, k \in Controller :
    ctl[j] \in Stopping /\ ctl[k] \in Stopping /\ ctlDs[j] = ctlDs[k] => j = k

\* What one step does to the controllers: at most one of them moves, and it begins
\* to stop a supervisor only by taking it out of the map.
Moves(k) ==
  /\ \A j \in Controller : j # k => ctl'[j] = ctl[j] /\ ctlDs'[j] = ctlDs[j]
  /\ ctl'[k] \in Stopping =>
       \/ ctl[k] \in Stopping /\ ctlDs'[k] = ctlDs[k]
       \/ ctl[k] = "detach" /\ \E s \in Serial : ctlDs'[k] = devices[s]
  /\ ctl[k] = "await" => run[ctlDs[k]] = "done"
  /\ \A d \in Ds : cancelled'[d] # cancelled[d] => ctl[k] = "stop" /\ ctlDs[k] = d
  /\ \A d \in Ds : run'[d] # run[d] => run[d] = "unborn"

LEMMA ControllersMove ==
  ASSUME SupInv, [SupNext]_vars
  PROVE  \/ UNCHANGED <<ctl, ctlDs, cancelled>>
         \/ \E k \in Controller : Moves(k)
<1> USE DEF Stopping, Goto
<1>0. /\ ctl \in [Controller -> CtlPC] /\ ctlDs \in [Controller -> Ds \cup {None}]
      /\ cancelled \in [Ds -> BOOLEAN] /\ Loop \in Controller /\ Admin \subseteq Controller
  BY DEF SupInv, SupTypeOK, CtlPC, Controller
<1>1. ASSUME NEW k \in Controller, NEW s, ctl[k] # "await", AddDevice(k, s) \/ RemoveDevice(k, s)
      PROVE  Moves(k)
  BY <1>0, <1>1 DEF AddDevice, RemoveDevice, Finish, Moves, dsVars
<1>2. ASSUME NEW s \in Serial, ConnectedEvent(s) \/ DisconnectedEvent(s)
      PROVE  Moves(Loop)
  BY <1>0, <1>1, <1>2 DEF ConnectedEvent, DisconnectedEvent
<1>3. ASSUME NEW k \in Admin, AdminStep(k) \/ \E s \in Serial : AdminReset(k, s)
      PROVE  Moves(k)
  <2>1. CASE AdminStep(k)
    BY <1>0, <1>1, <2>1 DEF AdminStep, AdminRemove, AdminAdd
  <2>2. CASE \E s \in Serial : AdminReset(k, s)
    BY <1>0, <2>2 DEF AdminReset, Moves, dsVars
  <2> QED BY <1>3, <2>1, <2>2
<1>4. ASSUME Shutdown \/ StopNext \/ Exit PROVE Moves(Loop)
  BY <1>0, <1>4 DEF Shutdown, StopNext, Exit, Moves, dsVars
<1>5. ASSUME NEW k \in Controller, ControllerStep(k)
      PROVE  Moves(k)
  <2>1. CASE OnDeviceDisconnected(k)
    <3>1. ctlSerial[k] \in Serial
      BY <2>1 DEF OnDeviceDisconnected, SupInv, Controls
    <3> QED BY <1>0, <2>1, <3>1 DEF OnDeviceDisconnected, Finish, AfterDisconnect, Moves, dsVars
  <2>2. CASE Stop(k)
    BY <1>0, <2>2 DEF Stop, Moves
  <2>3. CASE StopReturns(k)
    BY <1>0, <2>3 DEF StopReturns, Finish, AfterDisconnect, Moves, dsVars
  <2>4. CASE OnDeviceConnected(k)
    <3>1. /\ Finish(k, "ready") /\ ctlDs' = ctlDs /\ cancelled' = cancelled
          /\ ctl[k] = "connect" /\ \A d \in Ds : run'[d] # run[d] => run[d] = "unborn"
      BY <2>4 DEF OnDeviceConnected, SupInv, SupTypeOK
    <3> QED BY <1>0, <3>1 DEF Finish, Moves
  <2> QED BY <1>5, <2>1, <2>2, <2>3, <2>4 DEF ControllerStep
<1>6. CASE UNCHANGED vars \/ \E d \in Ds : RunStep(d)
  BY <1>6 DEF vars, ctlVars, dsVars, RunStep, RunStart, RunAllocate, RunPublish, RunTeardown,
              RunStopCapture, RunCaptureDone, RunFree
<1>7. ASSUME NEW c \in Caller,
             CallStep(c) \/ \E s \in Serial, op \in {"claim", "activate", "release"} : Get(c, s, op)
      PROVE  UNCHANGED <<ctl, ctlDs, cancelled>>
  BY <1>7 DEF CallStep, Get, ClaimOk, ClaimError, Activate, Release, ReleaseNothing, ReleaseDone,
              ctlVars, dsVars
<1>8. ASSUME NEW s \in Serial, CaptureDies(s) PROVE UNCHANGED <<ctl, ctlDs, cancelled>>
  BY <1>8 DEF CaptureDies, ctlVars, dsVars
<1>9. ASSUME NEW t \in Ds \cup Caller, CaptureStops(t) PROVE UNCHANGED <<ctl, ctlDs, cancelled>>
  BY <1>9 DEF CaptureStops, ctlVars, dsVars
<1> QED BY <1>0, <1>2, <1>3, <1>4, <1>5, <1>6, <1>7, <1>8, <1>9 DEF SupNext

\* Two goroutines never wait in Stop for the same supervisor, although the event loop
\* and admin connections disconnect one serial at the same time: Supervisor.mu lets
\* only one of them find it in the map.
THEOREM StoppedByOne == SupSpec => []OneStopper
<1>1. SupInit => OneStopper
  BY DEF SupInit, OneStopper, Stopping
<1>2. SupInv /\ OneStopper /\ [SupNext]_vars => OneStopper'
  <2> SUFFICES ASSUME SupInv, OneStopper, [SupNext]_vars PROVE OneStopper'
    OBVIOUS
  <2>1. CASE UNCHANGED <<ctl, ctlDs, cancelled>>
    BY <2>1 DEF OneStopper
  <2>2. ASSUME NEW k \in Controller, Moves(k) PROVE OneStopper'
    <3>1. \A j \in Controller : Controls(j)
      BY DEF SupInv
    <3> QED BY <2>2, <3>1 DEF OneStopper, Moves, Controls, Stopping
  <2> QED BY <2>1, <2>2, ControllersMove
<1> QED BY <1>1, <1>2, SupInitInv, SupStep, PTL DEF SupSpec

\* A goroutine waits in Stop for a supervisor that serves its device and that
\* nobody has cancelled: Stop came before Run had stored ds.cancel.
Hung(k) ==
  /\ ctl[k] = "await" /\ ~cancelled[ctlDs[k]]
  /\ run[ctlDs[k]] \in {"publishing", "serving"}

\* Why StopFinishes fails in every instance: once a Stop has overtaken the first step
\* of Run, and Run has got its port, that Stop never returns, and with it the event
\* loop or the admin connection; no other goroutine cancels the supervisor any more.
THEOREM StopHangs ==
  ASSUME NEW k \in Controller
  PROVE  SupSpec => [](Hung(k) => []Hung(k))
<1>1. ASSUME SupInv, OneStopper, Hung(k), [SupNext]_vars PROVE Hung(k)'
  <2> DEFINE d == ctlDs[k]
  <2>0. /\ d \in Ds /\ run \in [Ds -> RunPC] /\ ctl[k] = "await" /\ ~cancelled[d]
        /\ run[d] \in {"publishing", "serving"}
    BY <1>1 DEF Hung, SupInv, SupTypeOK, Controls
  <2> HIDE DEF d
  <2>1. ctl'[k] = "await" /\ ctlDs'[k] = d /\ ~cancelled'[d]
    <3>1. ASSUME NEW j \in Controller, Moves(j) PROVE ctl'[k] = "await" /\ ctlDs'[k] = d /\ ~cancelled'[d]
      <4>1. j # k
        BY <2>0, <3>1 DEF Moves, d
      <4>2. ~(ctl[j] = "stop" /\ ctlDs[j] = d)
        BY <1>1, <2>0, <4>1 DEF OneStopper, Stopping, d
      <4> QED BY <2>0, <3>1, <4>1, <4>2 DEF Moves, d
    <3> QED BY <1>1, <2>0, <3>1, ControllersMove DEF d
  <2>2. run'[d] \in {"publishing", "serving"}
    <3>1. ASSUME NEW e \in Ds, RunStep(e) PROVE run'[d] \in {"publishing", "serving"}
      BY <2>0, <3>1 DEF RunStep, RunGoto, RunStart, RunAllocate, RunPublish, RunTeardown,
                        RunStopCapture, RunCaptureDone, RunFree
    <3>2. ASSUME NEW j \in Controller, OnDeviceConnected(j)
          PROVE  run'[d] \in {"publishing", "serving"}
      BY <2>0, <3>2 DEF OnDeviceConnected
    <3>3. ASSUME NEW j \in Controller, OnDeviceDisconnected(j) \/ Stop(j) \/ StopReturns(j)
          PROVE  run' = run
      BY <3>3 DEF OnDeviceDisconnected, Stop, StopReturns
    <3>4. ASSUME NEW j \in Admin, AdminStep(j) \/ \E s \in Serial : AdminReset(j, s)
          PROVE  run' = run
      BY <3>4 DEF AdminStep, AdminRemove, AdminAdd, AdminReset, AddDevice, RemoveDevice
    <3>5. CASE Shutdown \/ StopNext \/ Exit \/ UNCHANGED vars
      BY <2>0, <3>5 DEF Shutdown, StopNext, Exit, vars
    <3>6. ASSUME NEW s \in Serial, ConnectedEvent(s) \/ DisconnectedEvent(s) \/ CaptureDies(s)
          PROVE  run' = run
      BY <3>6 DEF ConnectedEvent, DisconnectedEvent, CaptureDies, AddDevice, RemoveDevice
    <3>7. ASSUME NEW c \in Caller,
                 CallStep(c) \/ \E s \in Serial, op \in {"claim", "activate", "release"} : Get(c, s, op)
          PROVE  run' = run
      BY <3>7 DEF CallStep, Get, ClaimOk, ClaimError, Activate, Release, ReleaseNothing, ReleaseDone
    <3>8. ASSUME NEW t \in Ds \cup Caller, CaptureStops(t) PROVE run' = run
      BY <3>8 DEF CaptureStops
    <3> QED BY <1>1, <2>0, <3>1, <3>2, <3>3, <3>4, <3>5, <3>6, <3>7, <3>8 DEF SupNext, ControllerStep
  <2> QED BY <2>1, <2>2 DEF Hung
<1> QED BY <1>1, StoppedByOne, SupInitInv, SupStep, PTL DEF SupSpec

-----------------------------------------------------------------------------
(***************************************************************************)
(* A serial that no admin connection has ever reset: the event loop is the *)
(* only goroutine that connects and disconnects it, so that it waits for a *)
(* supervisor to end before the next one of the serial is made, whatever   *)
(* resets do to the other devices.  (Of a serial that was reset the three  *)
(* invariants below do not hold.)                                          *)
(***************************************************************************)
Live(d) == run[d] \notin {"unborn", "done"}

\* A supervisor that has not ended is in the map, or the event loop waits for it.
Awaited(d) ==
  Live(d) /\ serialOf[d] \notin wasReset =>
    \/ devices[serialOf[d]] = d
    \/ ctl[Loop] \in {"stop", "await"} /\ ctlDs[Loop] = d

LoopWaits ==
  /\ ~resetting[Loop] /\ ctl[Loop] \notin {"remove", "add"}
  /\ shutdown => ctl[Loop] \notin {"ready", "connect"}
  /\ ~shutdown => ctl[Loop] \notin {"drain", "exited"}
  /\ ctl[Loop] \in {"stop", "await"} =>
       /\ serialOf[ctlDs[Loop]] = ctlSerial[Loop]
       /\ ctlSerial[Loop] \notin wasReset => devices[ctlSerial[Loop]] = None

\* Registry and map differ only in the serial of the event that is being handled.
Agrees(s) ==
  LET handled == ctl[Loop] \in {"connect", "detach"} /\ s = ctlSerial[Loop] IN
  /\ handled /\ ctl[Loop] = "connect" => s \in registered
  /\ handled /\ ctl[Loop] = "detach" => s \notin registered
  /\ ~handled => (s \in registered <=> devices[s] # None)

\* StopAll: the serials that still have a supervisor are the ones to be stopped.
Drains ==
  /\ \A s \in Serial \ wasReset : devices[s] # None =>
       s \in drain \/ (ctl[Loop] = "detach" /\ s = ctlSerial[Loop])
  /\ ctl[Loop] = "exited" => drain = {}

\* An admin connection works on a serial that it has reset.
AdminsReset == \A k \in Admin : ctl[k] # "ready" => ctlSerial[k] \in wasReset

SoloInv ==
  /\ SupInv /\ LoopWaits /\ PortOwned /\ AdminsReset
  /\ \A d \in Ds : Awaited(d)
  /\ ~shutdown => \A s \in Serial \ wasReset : Agrees(s)
  /\ shutdown => Drains

\* At most one supervisor of a serial has not ended.
LEMMA AloneOnSerial ==
  ASSUME SoloInv, NEW d \in Ds, NEW e \in Ds, Live(d), Live(e), serialOf[d] = serialOf[e],
         serialOf[d] \notin wasReset
  PROVE  d = e
<1>1. Awaited(d) /\ Awaited(e) /\ LoopWaits
  BY DEF SoloInv
<1>2. None # d /\ None # e
  BY SupConstants
<1> QED BY <1>1, <1>2 DEF Awaited, LoopWaits

\* An operation of the allocator concerns one serial.
LEMMA AllocateOne ==
  ASSUME PortTypeOK, NEW s \in Serial, Allocate(s), NEW t \in Serial, t # s
  PROVE  bySerial'[t] = bySerial[t]
  BY DEF Allocate, AllocateKnown, AllocateFresh, AllocateExhausted, PortTypeOK, portVars

LEMMA FreeOne ==
  ASSUME PortTypeOK, NEW s \in Serial, Free(s)
  PROVE  /\ bySerial'[s] = NoPort
         /\ \A t \in Serial : t # s => bySerial'[t] = bySerial[t]
  BY DEF Free, PortTypeOK, portVars

\* A step of Run, with the ports as they are after it.
LEMMA SoloRunKeeps ==
  ASSUME SoloInv, SupInv', PortOwned', NEW d \in Ds, NEW l \in RunPC, Live(d), l # "unborn",
         run' = [run EXCEPT ![d] = l], UNCHANGED <<appVars, ctlVars, devices, serialOf>>
  PROVE  SoloInv'
<1>0. SupTypeOK
  BY DEF SoloInv, SupInv
<1>1. run'[d] = l /\ \A e \in Ds : e # d => run'[e] = run[e]
  BY <1>0 DEF SupTypeOK
<1>2. \A e \in Ds : Live(e)' => Live(e)
  BY <1>1 DEF Live
<1>3. \A e \in Ds : Awaited(e)'
  BY <1>2 DEF SoloInv, Awaited, ctlVars, appVars
<1>4. LoopWaits'
  BY DEF SoloInv, LoopWaits, appVars, ctlVars
<1>5. ~shutdown' => \A s \in Serial \ wasReset' : Agrees(s)'
  BY DEF SoloInv, Agrees, appVars, ctlVars
<1>6. shutdown' => Drains'
  BY DEF SoloInv, Drains, appVars, ctlVars
<1>7. AdminsReset'
  BY DEF SoloInv, AdminsReset, appVars, ctlVars
<1> QED BY <1>3, <1>4, <1>5, <1>6, <1>7 DEF SoloInv

LEMMA SoloRun ==
  ASSUME SoloInv, SupInv', NEW d \in Ds, RunStep(d)
  PROVE  SoloInv'
<1> DEFINE s == serialOf[d]
<1>0. /\ SupTypeOK /\ PortTypeOK /\ PortOwned /\ Lives(d)
      /\ allocated \in [Ds -> Pool \cup {NoPort}] /\ run \in [Ds -> RunPC]
  BY DEF SoloInv, SupInv, SupTypeOK
<1>1. ASSUME NEW l \in RunPC, run' = [run EXCEPT ![d] = l], UNCHANGED <<portVars, allocated, serialOf, wasReset>>,
             l \in {"publishing", "serving", "stopCapture", "awaitCapture", "free"} <=> Owning(d)
      PROVE  PortOwned'
  <2>1. run'[d] = l /\ \A e \in Ds : e # d => run'[e] = run[e]
    BY <1>0, <1>1
  <2>2. \A e \in Ds : Owning(e)' <=> Owning(e)
    BY <1>1, <2>1 DEF Owning
  <2>3. bySerial' = bySerial
    BY <1>1 DEF portVars
  <2> QED BY <1>0, <1>1, <2>2, <2>3 DEF PortOwned
<1>2. CASE RunStart(d)
  <2>1. /\ run[d] = "spawned" /\ run' = [run EXCEPT ![d] = "allocating"] /\ "allocating" \in RunPC
        /\ UNCHANGED <<portVars, appVars, ctlVars, devices, serialOf, allocated>>
    BY <1>2 DEF RunStart, RunGoto, RunPC
  <2>2. Live(d) /\ ~Owning(d)
    BY <2>1 DEF Live, Owning
  <2>3. PortOwned'
    BY <1>1, <2>1, <2>2 DEF appVars
  <2> QED BY <2>1, <2>2, <2>3, SoloRunKeeps
<1>3. CASE RunPublish(d)
  <2>1. /\ run[d] = "publishing" /\ run' = [run EXCEPT ![d] = "serving"] /\ "serving" \in RunPC
        /\ UNCHANGED <<portVars, appVars, ctlVars, devices, serialOf, allocated>>
    BY <1>3 DEF RunPublish, RunGoto, RunPC
  <2>2. Live(d) /\ Owning(d)
    BY <2>1 DEF Live, Owning
  <2>3. PortOwned'
    BY <1>1, <2>1, <2>2 DEF appVars
  <2> QED BY <2>1, <2>2, <2>3, SoloRunKeeps
<1>4. CASE RunTeardown(d)
  <2>1. /\ run[d] = "serving" /\ run' = [run EXCEPT ![d] = "stopCapture"]
        /\ "stopCapture" \in RunPC
        /\ UNCHANGED <<portVars, appVars, ctlVars, devices, serialOf, allocated>>
    BY <1>4 DEF RunTeardown, RunGoto, RunPC
  <2>2. Live(d) /\ Owning(d)
    BY <2>1 DEF Live, Owning
  <2>3. PortOwned'
    BY <1>1, <2>1, <2>2 DEF appVars
  <2> QED BY <2>1, <2>2, <2>3, SoloRunKeeps
<1>5. CASE RunStopCapture(d)
  <2>1. /\ run[d] = "stopCapture" /\ run' = [run EXCEPT ![d] = "awaitCapture"]
        /\ "awaitCapture" \in RunPC
        /\ UNCHANGED <<portVars, appVars, ctlVars, devices, serialOf, allocated>>
    BY <1>5 DEF RunStopCapture, RunGoto, RunPC, dsVars
  <2>2. Live(d) /\ Owning(d)
    BY <2>1 DEF Live, Owning
  <2>3. PortOwned'
    BY <1>1, <2>1, <2>2 DEF appVars
  <2> QED BY <2>1, <2>2, <2>3, SoloRunKeeps
<1>6. CASE RunCaptureDone(d)
  <2>1. /\ run[d] = "awaitCapture" /\ run' = [run EXCEPT ![d] = "free"] /\ "free" \in RunPC
        /\ UNCHANGED <<portVars, appVars, ctlVars, devices, serialOf, allocated>>
    BY <1>6 DEF RunCaptureDone, RunGoto, RunPC, dsVars
  <2>2. Live(d) /\ Owning(d)
    BY <2>1 DEF Live, Owning
  <2>3. PortOwned'
    BY <1>1, <2>1, <2>2 DEF appVars
  <2> QED BY <2>1, <2>2, <2>3, SoloRunKeeps
<1>7. \A e \in Ds : Owning(e) /\ Live(d) /\ e # d /\ serialOf[e] \notin wasReset
                     => serialOf[e] # s /\ serialOf[e] \in Serial
  <2>1. \A e \in Ds : Owning(e) => Live(e) /\ serialOf[e] \in Serial
    BY DEF Owning, Live, SoloInv, SupInv, Lives
  <2> QED BY <2>1, AloneOnSerial
<1>8. CASE RunAllocate(d)
  <2> DEFINE l == IF bySerial'[s] = NoPort THEN "done" ELSE "publishing"
  <2>1. /\ run[d] = "allocating" /\ run' = [run EXCEPT ![d] = l] /\ Allocate(s) /\ s \in Serial
        /\ allocated' = [allocated EXCEPT ![d] = bySerial'[s]]
        /\ UNCHANGED <<appVars, ctlVars, devices, serialOf>>
    BY <1>0, <1>8 DEF RunAllocate, RunGoto, Lives
  <2>2. Live(d) /\ ~Owning(d) /\ l \in RunPC /\ l # "unborn"
    BY <2>1 DEF Live, Owning, RunPC
  <2>3. /\ run'[d] = l /\ allocated'[d] = bySerial'[s]
        /\ \A e \in Ds : e # d => run'[e] = run[e] /\ allocated'[e] = allocated[e]
    BY <1>0, <2>1
  <2>4. \A t \in Serial : t # s => bySerial'[t] = bySerial[t]
    BY <1>0, <2>1, AllocateOne
  <2>5. /\ Owning(d)' <=> bySerial'[s] # NoPort
        /\ \A e \in Ds : e # d => (Owning(e)' <=> Owning(e))
    BY <2>3 DEF Owning
  <2> HIDE DEF l, s
  <2>6. ASSUME NEW e \in Ds, Owning(e)', serialOf[e] \notin wasReset
        PROVE  allocated'[e] # NoPort /\ bySerial'[serialOf[e]] = allocated'[e]
    <3>1. CASE e = d
      BY <2>3, <2>5, <2>6, <3>1 DEF s
    <3>2. CASE e # d
      <4>1. Owning(e) /\ serialOf[e] # s /\ serialOf[e] \in Serial
        BY <1>7, <2>2, <2>5, <2>6, <3>2
      <4> QED BY <1>0, <2>3, <2>4, <2>6, <3>2, <4>1 DEF PortOwned
    <3> QED BY <3>1, <3>2
  <2>7. ASSUME NEW t \in Serial, bySerial'[t] # NoPort
        PROVE  \E e \in Ds : serialOf[e] = t /\ Owning(e)'
    <3>1. CASE t = s
      BY <2>5, <2>7, <3>1 DEF s
    <3>2. CASE t # s
      <4>1. PICK e \in Ds : serialOf[e] = t /\ Owning(e)
        BY <1>0, <2>4, <2>7, <3>2 DEF PortOwned
      <4> QED BY <2>2, <2>5, <4>1
    <3> QED BY <3>1, <3>2
  <2>8. PortOwned'
    BY <2>1, <2>6, <2>7 DEF PortOwned, appVars
  <2> QED BY <2>1, <2>2, <2>8, SoloRunKeeps
<1>9. CASE RunFree(d)
  <2>1. /\ run[d] = "free" /\ run' = [run EXCEPT ![d] = "done"] /\ Free(s) /\ s \in Serial
        /\ "done" \in RunPC
        /\ UNCHANGED <<appVars, ctlVars, devices, serialOf, allocated>>
    BY <1>0, <1>9 DEF RunFree, RunGoto, dsVars, Lives, RunPC
  <2>2. Live(d)
    BY <2>1 DEF Live
  <2>3. /\ run'[d] = "done" /\ \A e \in Ds : e # d => run'[e] = run[e]
    BY <1>0, <2>1
  <2>4. bySerial'[s] = NoPort /\ \A t \in Serial : t # s => bySerial'[t] = bySerial[t]
    BY <1>0, <2>1, FreeOne
  <2>5. ~Owning(d)' /\ \A e \in Ds : e # d => (Owning(e)' <=> Owning(e))
    BY <2>3 DEF Owning
  <2> HIDE DEF s
  <2>6. ASSUME NEW e \in Ds, Owning(e)', serialOf[e] \notin wasReset
        PROVE  allocated[e] # NoPort /\ bySerial'[serialOf[e]] = allocated[e]
    <3>1. e # d /\ Owning(e)
      BY <2>5, <2>6
    <3>2. serialOf[e] # s /\ serialOf[e] \in Serial
      BY <1>7, <2>2, <2>6, <3>1
    <3> QED BY <1>0, <2>4, <2>6, <3>1, <3>2 DEF PortOwned
  <2>7. ASSUME NEW t \in Serial, bySerial'[t] # NoPort
        PROVE  \E e \in Ds : serialOf[e] = t /\ Owning(e)'
    <3>1. t # s /\ bySerial[t] # NoPort
      BY <2>4, <2>7
    <3>2. PICK e \in Ds : serialOf[e] = t /\ Owning(e)
      BY <1>0, <3>1 DEF PortOwned
    <3> QED BY <2>5, <3>1, <3>2 DEF s
  <2>8. PortOwned'
    BY <2>1, <2>6, <2>7 DEF PortOwned, appVars
  <2> QED BY <2>1, <2>2, <2>8, SoloRunKeeps
<1> QED BY <1>2, <1>3, <1>4, <1>5, <1>6, <1>8, <1>9 DEF RunStep

\* Handlers and captures touch none of this.
LEMMA SoloQuiet ==
  ASSUME SoloInv, SupInv',
         UNCHANGED <<portVars, appVars, ctlVars, devices, run, serialOf, allocated>>
  PROVE  SoloInv'
<1>1. PortOwned'
  BY DEF SoloInv, PortOwned, Owning, portVars, appVars
<1>2. LoopWaits' /\ AdminsReset' /\ \A d \in Ds : Awaited(d)'
  BY DEF SoloInv, LoopWaits, AdminsReset, Awaited, Live, appVars, ctlVars
<1>3. (~shutdown' => \A s \in Serial \ wasReset' : Agrees(s)') /\ (shutdown' => Drains')
  BY DEF SoloInv, Agrees, Drains, appVars, ctlVars
<1> QED BY <1>1, <1>2, <1>3 DEF SoloInv

\* The event loop takes an event, or goes on with StopAll: no supervisor is touched.
LEMMA SoloEvent ==
  ASSUME SoloInv, SupInv', LoopWaits',
         ctl[Loop] \notin {"stop", "await"} \/ ~Live(ctlDs[Loop]) \/
           (ctl'[Loop] \in {"stop", "await"} /\ ctlDs' = ctlDs),
         ~shutdown' => \A s \in Serial \ wasReset' : Agrees(s)', shutdown' => Drains',
         \A k \in Admin : ctl'[k] = ctl[k] /\ ctlSerial'[k] = ctlSerial[k],
         UNCHANGED <<portVars, wasReset, devices, run, serialOf, allocated>>
  PROVE  SoloInv'
<1>1. PortOwned'
  BY DEF SoloInv, PortOwned, Owning, portVars
<1>2. \A d \in Ds : Awaited(d)'
  BY DEF SoloInv, Awaited, Live
<1>3. AdminsReset'
  BY DEF SoloInv, AdminsReset
<1> QED BY <1>1, <1>2, <1>3 DEF SoloInv

\* A step of the event loop leaves the admin connections where they are.
LEMMA LoopAlone ==
  ASSUME SupTypeOK, NEW pc, NEW x, ctl' = [ctl EXCEPT ![Loop] = pc],
         ctlSerial' = [ctlSerial EXCEPT ![Loop] = x] \/ ctlSerial' = ctlSerial
  PROVE  \A k \in Admin : ctl'[k] = ctl[k] /\ ctlSerial'[k] = ctlSerial[k]
  BY SupervisorAssumption DEF SupTypeOK, Controller

LEMMA SoloApp ==
  ASSUME SoloInv, SupInv',
         \/ \E s \in Serial : ConnectedEvent(s) \/ DisconnectedEvent(s)
         \/ Shutdown \/ StopNext \/ Exit
  PROVE  SoloInv'
<1>0. /\ SupTypeOK /\ LoopWaits /\ Loop \in Controller
      /\ (~shutdown => \A s \in Serial \ wasReset : Agrees(s)) /\ (shutdown => Drains)
      /\ ctl \in [Controller -> CtlPC] /\ ctlSerial \in [Controller -> Serial \cup {None}]
      /\ resetting \in [Controller -> BOOLEAN]
  BY DEF SoloInv, SupInv, SupTypeOK, Controller, CtlPC
<1>a. \A k \in Admin : ctl'[k] = ctl[k] /\ ctlSerial'[k] = ctlSerial[k]
  BY <1>0, LoopAlone
     DEF ConnectedEvent, DisconnectedEvent, AddDevice, RemoveDevice, Finish, Goto, Shutdown, StopNext, Exit
<1>1. ASSUME NEW s \in Serial, ConnectedEvent(s) PROVE SoloInv'
  <2>1. /\ ctl[Loop] = "ready" /\ AddDevice(Loop, s) /\ ~shutdown /\ shutdown' = shutdown
        /\ resetting'[Loop] = FALSE
        /\ UNCHANGED <<portVars, wasReset, ctlDs, devices, run, serialOf, allocated>>
    BY <1>0, <1>1 DEF ConnectedEvent, AddDevice, LoopWaits, dsVars, appVars
  <2>2. CASE s \in registered
    <3>1. ctl'[Loop] = "ready" /\ registered' = registered
      BY <1>0, <2>1, <2>2 DEF AddDevice, Finish, Goto
    <3>2. LoopWaits'
      BY <2>1, <3>1 DEF LoopWaits
    <3>3. \A t \in Serial \ wasReset' : Agrees(t)'
      BY <1>0, <2>1, <3>1 DEF Agrees
    <3> QED BY <2>1, <3>2, <3>3, <1>a, SoloEvent
  <2>3. CASE s \notin registered
    <3>1. ctl'[Loop] = "connect" /\ ctlSerial'[Loop] = s /\ registered' = registered \cup {s}
      BY <1>0, <2>1, <2>3 DEF AddDevice, Goto
    <3>2. LoopWaits'
      BY <2>1, <3>1 DEF LoopWaits
    <3>3. \A t \in Serial \ wasReset' : Agrees(t)'
      BY <1>0, <2>1, <3>1 DEF Agrees
    <3> QED BY <2>1, <3>2, <3>3, <1>a, SoloEvent
  <2> QED BY <2>2, <2>3
<1>2. ASSUME NEW s \in Serial, DisconnectedEvent(s) PROVE SoloInv'
  <2>1. /\ ctl[Loop] = "ready" /\ ~shutdown /\ shutdown' = shutdown /\ resetting' = resetting
        /\ ctl'[Loop] = "detach" /\ ctlSerial'[Loop] = s /\ registered' = registered \ {s}
        /\ UNCHANGED <<portVars, wasReset, ctlDs, devices, run, serialOf, allocated>>
    BY <1>0, <1>2 DEF DisconnectedEvent, RemoveDevice, Goto, LoopWaits, dsVars, appVars
  <2>2. LoopWaits'
    BY <1>0, <2>1 DEF LoopWaits
  <2>3. \A t \in Serial \ wasReset' : Agrees(t)'
    BY <1>0, <2>1 DEF Agrees
  <2> QED BY <2>1, <2>2, <2>3, <1>a, SoloEvent
<1>3. CASE Shutdown
  <2>1. /\ ctl[Loop] = "ready" /\ shutdown' = TRUE /\ resetting' = resetting
        /\ ctl'[Loop] = "drain" /\ drain' = {s \in Serial : devices[s] # None}
        /\ UNCHANGED <<portVars, wasReset, ctlDs, devices, run, serialOf, allocated>>
    BY <1>0, <1>3 DEF Shutdown, Goto, dsVars
  <2>2. LoopWaits' /\ Drains'
    BY <1>0, <2>1 DEF LoopWaits, Drains
  <2> QED BY <2>1, <2>2, <1>a, SoloEvent
<1>4. CASE StopNext
  <2>1. PICK s \in drain : drain' = drain \ {s} /\ ctlSerial' = [ctlSerial EXCEPT ![Loop] = s]
    BY <1>4 DEF StopNext
  <2>2. /\ ctl[Loop] = "drain" /\ shutdown /\ shutdown' = shutdown /\ resetting' = resetting
        /\ ctl'[Loop] = "detach" /\ ctlSerial'[Loop] = s
        /\ UNCHANGED <<portVars, wasReset, ctlDs, devices, run, serialOf, allocated>>
    BY <1>0, <1>4, <2>1 DEF StopNext, Goto, LoopWaits, dsVars, appVars
  <2>3. LoopWaits' /\ Drains'
    BY <1>0, <2>1, <2>2 DEF LoopWaits, Drains
  <2> QED BY <2>2, <2>3, <1>a, SoloEvent
<1>5. CASE Exit
  <2>1. /\ ctl[Loop] = "drain" /\ drain = {} /\ shutdown /\ ctl'[Loop] = "exited"
        /\ UNCHANGED <<shutdown, drain, resetting>>
        /\ UNCHANGED <<portVars, wasReset, ctlDs, devices, run, serialOf, allocated>>
    BY <1>0, <1>5 DEF Exit, Goto, LoopWaits, dsVars, appVars
  <2>2. LoopWaits' /\ Drains'
    BY <1>0, <2>1 DEF LoopWaits, Drains
  <2> QED BY <2>1, <2>2, <1>a, SoloEvent
<1> QED BY <1>1, <1>2, <1>3, <1>4, <1>5

\* OnDeviceConnected: the new supervisor is the only one of its serial that lives.
LEMMA SoloConnect ==
  ASSUME SoloInv, SupInv', OnDeviceConnected(Loop)
  PROVE  SoloInv'
<1> DEFINE s == ctlSerial[Loop]
<1>0. /\ SupTypeOK /\ LoopWaits /\ Loop \in Controller /\ PortOwned
      /\ (~shutdown => \A t \in Serial \ wasReset : Agrees(t))
      /\ ctl \in [Controller -> CtlPC] /\ ctlSerial \in [Controller -> Serial \cup {None}]
  BY DEF SoloInv, SupInv, SupTypeOK, Controller, CtlPC
<1>1. /\ ctl[Loop] = "connect" /\ ctl'[Loop] = "ready" /\ ~shutdown /\ s \in Serial
      /\ UNCHANGED <<portVars, appVars, ctlDs, allocated>>
  BY <1>0 DEF OnDeviceConnected, Finish, Goto, LoopWaits, SoloInv, SupInv, Controls
<1>a. \A k \in Admin : ctl'[k] = ctl[k] /\ ctlSerial'[k] = ctlSerial[k]
  BY <1>0, LoopAlone DEF OnDeviceConnected, Finish, Goto
<1>2. UNCHANGED <<registered, shutdown, resetting, wasReset>>
  BY <1>1 DEF appVars
<1>3. LoopWaits'
  BY <1>0, <1>1, <1>2 DEF LoopWaits
<1>4. CASE devices[s] # None
  <2>1. UNCHANGED <<devices, run, serialOf>>
    BY <1>4 DEF OnDeviceConnected
  <2>2. \A t \in Serial \ wasReset' : Agrees(t)'
    BY <1>0, <1>1, <1>2, <1>4, <2>1 DEF Agrees
  <2> QED BY <1>a, <1>1, <1>2, <1>3, <2>1, <2>2, SoloEvent
<1>5. CASE devices[s] = None
  <2>1. PICK d \in Ds :
          /\ run[d] = "unborn" /\ devices' = [devices EXCEPT ![s] = d]
          /\ run' = [run EXCEPT ![d] = "spawned"] /\ serialOf' = [serialOf EXCEPT ![d] = s]
    BY <1>5 DEF OnDeviceConnected
  <2>2. /\ devices'[s] = d /\ d # None /\ \A t \in Serial : t # s => devices'[t] = devices[t]
        /\ run'[d] = "spawned" /\ \A e \in Ds : e # d => run'[e] = run[e]
        /\ serialOf'[d] = s /\ \A e \in Ds : e # d => serialOf'[e] = serialOf[e]
    BY <1>0, <1>1, <2>1, SupConstants DEF SupTypeOK
  <2>3. ~Owning(d)' /\ ~Owning(d) /\ \A e \in Ds : e # d => (Owning(e)' <=> Owning(e))
    BY <2>1, <2>2 DEF Owning
  <2> HIDE DEF s
  <2>4. PortOwned'
    <3>1. bySerial' = bySerial /\ allocated' = allocated
      BY <1>1 DEF portVars
    <3>2. ASSUME NEW e \in Ds, Owning(e)', serialOf'[e] \notin wasReset
          PROVE  allocated[e] # NoPort /\ bySerial[serialOf'[e]] = allocated[e]
      BY <1>0, <2>2, <2>3, <3>2 DEF PortOwned
    <3>3. ASSUME NEW t \in Serial, bySerial[t] # NoPort
          PROVE  \E e \in Ds : serialOf'[e] = t /\ Owning(e)'
      <4>1. PICK e \in Ds : serialOf[e] = t /\ Owning(e)
        BY <1>0, <3>3 DEF PortOwned
      <4> QED BY <2>2, <2>3, <4>1
    <3> QED BY <1>2, <3>1, <3>2, <3>3 DEF PortOwned
  <2>5. ASSUME NEW e \in Ds PROVE Awaited(e)'
    <3>1. CASE e = d
      BY <2>2, <3>1 DEF Awaited
    <3>2. CASE e # d
      <4>1. Live(e)' /\ serialOf[e] \notin wasReset
              => Live(e) /\ devices[serialOf[e]] = e /\ serialOf[e] \in Serial
        BY <1>1, <2>2, <3>2 DEF SoloInv, SupInv, Awaited, Live, Lives
      <4>2. e # None
        BY SupConstants
      <4> QED BY <1>2, <1>5, <2>2, <3>2, <4>1, <4>2 DEF Awaited, s
    <3> QED BY <3>1, <3>2
  <2>6. \A t \in Serial \ wasReset' : Agrees(t)'
    BY <1>0, <1>1, <1>2, <2>2 DEF Agrees, s
  <2>7. AdminsReset'
    BY <1>a, <1>2 DEF SoloInv, AdminsReset
  <2> QED BY <1>1, <1>2, <1>3, <2>4, <2>5, <2>6, <2>7 DEF SoloInv
<1> QED BY <1>4, <1>5

\* OnDeviceDisconnected, Stop and its return.
LEMMA SoloDisconnect ==
  ASSUME SoloInv, SupInv',
         OnDeviceDisconnected(Loop) \/ Stop(Loop) \/ StopReturns(Loop)
  PROVE  SoloInv'
<1>0. /\ SupTypeOK /\ LoopWaits /\ Loop \in Controller /\ PortOwned /\ Controls(Loop)
      /\ (~shutdown => \A t \in Serial \ wasReset : Agrees(t)) /\ (shutdown => Drains)
      /\ ctl \in [Controller -> CtlPC] /\ ctlSerial \in [Controller -> Serial \cup {None}]
      /\ devices \in [Serial -> Ds \cup {None}] /\ ctlDs \in [Controller -> Ds \cup {None}]
      /\ shutdown \in BOOLEAN
  BY DEF SoloInv, SupInv, SupTypeOK, Controller, CtlPC
<1>a. \A k \in Admin : ctl'[k] = ctl[k] /\ ctlSerial'[k] = ctlSerial[k]
  BY <1>0, LoopAlone DEF OnDeviceDisconnected, Stop, StopReturns, Finish, Goto
<1>1. AfterDisconnect(Loop) = IF shutdown THEN "drain" ELSE "ready"
  BY <1>0 DEF AfterDisconnect, LoopWaits
<1>2. CASE StopReturns(Loop) \/ (OnDeviceDisconnected(Loop) /\ devices[ctlSerial[Loop]] = None)
  <2>1. /\ Finish(Loop, AfterDisconnect(Loop))
        /\ UNCHANGED <<portVars, registered, shutdown, drain, resetting, wasReset, devices, run, serialOf,
                       allocated>>
        /\ \/ ctl[Loop] = "await" /\ run[ctlDs[Loop]] = "done"
           \/ ctl[Loop] = "detach" /\ devices[ctlSerial[Loop]] = None
    BY <1>2 DEF StopReturns, OnDeviceDisconnected, appVars, dsVars
  <2>2. ctl'[Loop] = IF shutdown THEN "drain" ELSE "ready"
    BY <1>0, <1>1, <2>1 DEF Finish, Goto
  <2>3. LoopWaits'
    BY <1>0, <2>1, <2>2 DEF LoopWaits
  <2>4. ~shutdown => \A s \in Serial \ wasReset' : Agrees(s)'
    BY <1>0, <2>1, <2>2 DEF Agrees
  <2>5. shutdown => Drains'
    BY <1>0, <2>1, <2>2 DEF Drains
  <2>6. ctl[Loop] \notin {"stop", "await"} \/ ~Live(ctlDs[Loop])
    BY <2>1 DEF Live
  <2> QED BY <2>1, <2>3, <2>4, <2>5, <2>6, <1>a, SoloEvent
<1>3. CASE Stop(Loop)
  <2>1. /\ ctl[Loop] = "stop" /\ ctl'[Loop] = "await" /\ ctlDs' = ctlDs /\ ctlSerial' = ctlSerial
        /\ UNCHANGED <<portVars, registered, shutdown, drain, resetting, wasReset, devices, run, serialOf,
                       allocated>>
    BY <1>0, <1>3 DEF Stop, Goto, appVars
  <2>2. LoopWaits'
    BY <1>0, <2>1 DEF LoopWaits
  <2>3. ~shutdown => \A s \in Serial \ wasReset' : Agrees(s)'
    BY <1>0, <2>1 DEF Agrees
  <2>4. shutdown => Drains'
    BY <1>0, <2>1 DEF Drains
  <2> QED BY <2>1, <2>2, <2>3, <2>4, <1>a, SoloEvent
<1>4. CASE OnDeviceDisconnected(Loop) /\ devices[ctlSerial[Loop]] # None
  <2> DEFINE s == ctlSerial[Loop]
             d == devices[s]
  <2>1. /\ ctl[Loop] = "detach" /\ s \in Serial /\ d \in Ds
        /\ ctl'[Loop] = "stop" /\ ctlSerial' = ctlSerial /\ ctlDs'[Loop] = d
        /\ devices'[s] = None /\ \A t \in Serial : t # s => devices'[t] = devices[t]
        /\ UNCHANGED <<portVars, registered, shutdown, drain, resetting, wasReset, run, serialOf,
                         allocated>>
    <3>1. ctl[Loop] = "detach" /\ s \in Serial
      BY <1>0, <1>4 DEF OnDeviceDisconnected, Controls
    <3>2. /\ ctl' = [ctl EXCEPT ![Loop] = "stop"] /\ ctlSerial' = ctlSerial
          /\ ctlDs' = [ctlDs EXCEPT ![Loop] = d] /\ devices' = [devices EXCEPT ![s] = None]
          /\ UNCHANGED <<portVars, registered, shutdown, drain, resetting, wasReset, run, serialOf,
                         allocated>>
      BY <1>4 DEF OnDeviceDisconnected, Goto, appVars, dsVars
    <3> QED BY <1>0, <1>4, <3>1, <3>2
  <2>2. serialOf[d] = s
    BY <1>4, <2>1 DEF SoloInv, SupInv, Mapped
  <2> HIDE DEF s
  <2>3. LoopWaits'
    BY <1>0, <2>1, <2>2 DEF LoopWaits, s
  <2>4. ~shutdown => \A t \in Serial \ wasReset' : Agrees(t)'
    BY <1>0, <2>1 DEF Agrees, s
  <2>5. shutdown => Drains'
    BY <1>0, <2>1 DEF Drains, s
  <2>6. PortOwned'
    BY <1>0, <2>1 DEF PortOwned, Owning, portVars
  <2>7. ASSUME NEW e \in Ds PROVE Awaited(e)'
    <3>1. Live(e) /\ serialOf[e] \notin wasReset
            => devices[serialOf[e]] = e /\ serialOf[e] \in Serial
      BY <2>1 DEF SoloInv, SupInv, Awaited, Live, Lives
    <3>2. CASE serialOf[e] = s
      BY <2>1, <3>1, <3>2 DEF Awaited, Live
    <3>3. CASE serialOf[e] # s
      BY <2>1, <3>1, <3>3 DEF Awaited, Live
    <3> QED BY <3>2, <3>3
  <2>8. AdminsReset'
    BY <1>a, <2>1 DEF SoloInv, AdminsReset
  <2> QED BY <2>1, <2>3, <2>4, <2>5, <2>6, <2>7, <2>8 DEF SoloInv
<1> QED BY <1>2, <1>3, <1>4

\* What one step of an admin connection may do: it moves only itself, and touches
\* the registry, the map and the new supervisors only of a serial that was reset.
Resets(k) ==
  /\ ctl'[Loop] = ctl[Loop] /\ ctlSerial'[Loop] = ctlSerial[Loop]
  /\ ctlDs'[Loop] = ctlDs[Loop] /\ resetting'[Loop] = resetting[Loop]
  /\ \A j \in Admin : j # k => ctl'[j] = ctl[j] /\ ctlSerial'[j] = ctlSerial[j]
  /\ ctl'[k] # "ready" => ctlSerial'[k] \in wasReset'
  /\ wasReset \subseteq wasReset'
  /\ \A s \in Serial \ wasReset' :
       devices'[s] = devices[s] /\ (s \in registered' <=> s \in registered)
  /\ \A d \in Ds : \/ run'[d] = run[d] /\ serialOf'[d] = serialOf[d]
                   \/ /\ run[d] = "unborn" /\ run'[d] = "spawned"
                      /\ serialOf'[d] \in wasReset'
  /\ UNCHANGED <<portVars, allocated, shutdown, drain>>

LEMMA AdminResets ==
  ASSUME SoloInv, NEW k \in Admin,
         AdminStep(k) \/ ControllerStep(k) \/ \E s \in Serial : AdminReset(k, s)
  PROVE  Resets(k)
<1> USE DEF Goto
<1>0. /\ ctl \in [Controller -> CtlPC] /\ ctlSerial \in [Controller -> Serial \cup {None}]
      /\ ctlDs \in [Controller -> Ds \cup {None}] /\ resetting \in [Controller -> BOOLEAN]
      /\ devices \in [Serial -> Ds \cup {None}] /\ run \in [Ds -> RunPC]
      /\ serialOf \in [Ds -> Serial \cup {None}]
      /\ Loop \in Controller /\ Admin \subseteq Controller /\ k # Loop
      /\ ctl[k] # "ready" => ctlSerial[k] \in wasReset
  BY SupervisorAssumption DEF SoloInv, SupInv, SupTypeOK, Controller, CtlPC, AdminsReset
<1>1. ASSUME NEW s \in wasReset, AddDevice(k, s) \/ RemoveDevice(k, s) PROVE Resets(k)
  BY <1>0, <1>1 DEF AddDevice, RemoveDevice, Finish, Resets, dsVars
<1>2. CASE AdminStep(k)
  BY <1>0, <1>1, <1>2 DEF AdminStep, AdminRemove, AdminAdd
<1>3. CASE \E s \in Serial : AdminReset(k, s)
  BY <1>0, <1>3 DEF AdminReset, Resets, dsVars
<1>4. CASE OnDeviceConnected(k)
  <2>1. /\ Finish(k, "ready") /\ ctlSerial[k] \in wasReset
        /\ UNCHANGED <<portVars, appVars, ctlDs, allocated>>
    BY <1>0, <1>4 DEF OnDeviceConnected
  <2>2. CASE UNCHANGED <<devices, run, serialOf>>
    BY <1>0, <2>1, <2>2 DEF Finish, Resets, appVars
  <2>3. ASSUME NEW d \in Ds, run[d] = "unborn",
               devices' = [devices EXCEPT ![ctlSerial[k]] = d],
               run' = [run EXCEPT ![d] = "spawned"],
               serialOf' = [serialOf EXCEPT ![d] = ctlSerial[k]]
        PROVE  Resets(k)
    <3>1. \A s \in Serial \ wasReset : devices'[s] = devices[s]
      BY <1>0, <2>1, <2>3
    <3>2. /\ run'[d] = "spawned" /\ serialOf'[d] = ctlSerial[k]
          /\ \A e \in Ds : e # d => run'[e] = run[e] /\ serialOf'[e] = serialOf[e]
      BY <1>0, <2>3
    <3> QED BY <1>0, <2>1, <2>3, <3>1, <3>2 DEF Finish, Resets, appVars
  <2> QED BY <1>4, <2>2, <2>3 DEF OnDeviceConnected
<1>5. CASE OnDeviceDisconnected(k)
  <2>1. ctlSerial[k] \in wasReset /\ AfterDisconnect(k) \in {"add", "ready"}
    BY <1>0, <1>5 DEF OnDeviceDisconnected, AfterDisconnect
  <2> QED BY <1>0, <1>5, <2>1 DEF OnDeviceDisconnected, Finish, Resets, appVars, dsVars
<1>6. CASE Stop(k)
  BY <1>0, <1>6 DEF Stop, Resets, appVars
<1>7. CASE StopReturns(k)
  <2>1. ctlSerial[k] \in wasReset /\ AfterDisconnect(k) \in {"add", "ready"}
    BY <1>0, <1>7 DEF StopReturns, AfterDisconnect
  <2> QED BY <1>0, <1>7, <2>1 DEF StopReturns, Finish, Resets, appVars, dsVars
<1> QED BY <1>2, <1>3, <1>4, <1>5, <1>6, <1>7 DEF ControllerStep

LEMMA SoloAdmin ==
  ASSUME SoloInv, SupInv', NEW k \in Admin, Resets(k)
  PROVE  SoloInv'
<1>0. /\ LoopWaits /\ PortOwned /\ AdminsReset
      /\ (~shutdown => \A s \in Serial \ wasReset : Agrees(s)) /\ (shutdown => Drains)
      /\ shutdown' = shutdown /\ drain' = drain /\ bySerial' = bySerial
      /\ allocated' = allocated
  BY DEF SoloInv, Resets, portVars
<1>1. \A d \in Ds : serialOf'[d] \notin wasReset' =>
        run'[d] = run[d] /\ serialOf'[d] = serialOf[d] /\ serialOf[d] \notin wasReset
  BY DEF Resets
<1>2. PortOwned'
  <2>1. \A d \in Ds : Owning(d)' <=> Owning(d)
    BY DEF Resets, Owning
  <2>2. \A d \in Ds : Owning(d) => serialOf'[d] = serialOf[d]
    BY DEF Resets, Owning
  <2> QED BY <1>0, <1>1, <2>1, <2>2 DEF PortOwned
<1>3. AdminsReset'
  BY <1>0 DEF AdminsReset, Resets
<1>4. LoopWaits'
  <2>1. ctl[Loop] \in {"stop", "await"} =>
          /\ ctlDs[Loop] \in Ds /\ run[ctlDs[Loop]] # "unborn" /\ ctlSerial[Loop] \in Serial
    BY DEF SoloInv, SupInv, Controls, Controller
  <2>2. ctl[Loop] \in {"stop", "await"} => serialOf'[ctlDs[Loop]] = serialOf[ctlDs[Loop]]
    BY <2>1 DEF Resets
  <2> QED BY <1>0, <2>1, <2>2 DEF LoopWaits, Resets
<1>5. ASSUME NEW d \in Ds PROVE Awaited(d)'
  <2> SUFFICES ASSUME Live(d)', serialOf'[d] \notin wasReset'
               PROVE  \/ devices'[serialOf'[d]] = d
                      \/ ctl'[Loop] \in {"stop", "await"} /\ ctlDs'[Loop] = d
    BY DEF Awaited
  <2>1. Live(d) /\ serialOf'[d] = serialOf[d] /\ serialOf[d] \notin wasReset
    BY <1>1 DEF Live
  <2>2. serialOf[d] \in Serial /\ Awaited(d)
    BY <2>1 DEF SoloInv, SupInv, Lives, Live
  <2> QED BY <2>1, <2>2 DEF Awaited, Resets
<1>6. ~shutdown' => \A s \in Serial \ wasReset' : Agrees(s)'
  BY <1>0 DEF Agrees, Resets
<1>7. shutdown' => Drains'
  BY <1>0 DEF Drains, Resets
<1> QED BY <1>2, <1>3, <1>4, <1>5, <1>6, <1>7 DEF SoloInv

LEMMA SoloStep == SoloInv /\ [SupNext]_vars => SoloInv'
<1> SUFFICES ASSUME SoloInv, [SupNext]_vars PROVE SoloInv'
  OBVIOUS
<1>0. Controller = {Loop} \cup Admin
  BY DEF Controller
<1>1. SupInv'
  BY SupStep DEF SoloInv
<1>2. CASE \/ \E s \in Serial : ConnectedEvent(s) \/ DisconnectedEvent(s)
           \/ Shutdown \/ StopNext \/ Exit
  BY <1>1, <1>2, SoloApp
<1>3. CASE ControllerStep(Loop)
  BY <1>1, <1>3, SoloConnect, SoloDisconnect DEF ControllerStep
<1>4. CASE \E d \in Ds : RunStep(d)
  BY <1>1, <1>4, SoloRun
<1>5. CASE \/ UNCHANGED vars \/ \E s \in Serial : CaptureDies(s)
           \/ \E t \in Ds \cup Caller : CaptureStops(t)
  <2>1. UNCHANGED <<portVars, appVars, ctlVars, devices, run, serialOf, allocated>>
    BY <1>5 DEF vars, CaptureDies, CaptureStops, dsVars
  <2> QED BY <1>1, <2>1, SoloQuiet
<1>6. CASE \E c \in Caller : CallStep(c)
  <2>1. PICK c \in Caller : CallStep(c)
    BY <1>6
  <2>2. UNCHANGED <<portVars, appVars, ctlVars, devices, run, serialOf, allocated>>
    BY <2>1 DEF CallStep, ClaimOk, ClaimError, Activate, Release, ReleaseNothing, ReleaseDone, dsVars
  <2> QED BY <1>1, <2>2, SoloQuiet
<1>7. CASE \E c \in Caller, s \in Serial :
             \E op \in {"claim", "activate", "release"} : Get(c, s, op)
  <2>1. UNCHANGED <<portVars, appVars, ctlVars, devices, run, serialOf, allocated>>
    BY <1>7 DEF Get, dsVars
  <2> QED BY <1>1, <2>1, SoloQuiet
<1>8. ASSUME NEW k \in Admin,
             AdminStep(k) \/ ControllerStep(k) \/ \E s \in Serial : AdminReset(k, s)
      PROVE  SoloInv'
  BY <1>1, <1>8, AdminResets, SoloAdmin
<1> QED BY <1>0, <1>2, <1>3, <1>4, <1>5, <1>6, <1>7, <1>8 DEF SupNext

LEMMA SoloInitInv == SupInit => SoloInv
<1> SUFFICES ASSUME SupInit PROVE SoloInv
  OBVIOUS
<1>0. /\ SupInv /\ Loop \in Controller
  BY SupInitInv DEF Controller
<1>1. /\ ctl[Loop] = "ready" /\ ~resetting[Loop] /\ ~shutdown /\ registered = {}
      /\ \A s \in Serial : devices[s] = None /\ bySerial[s] = NoPort
      /\ \A d \in Ds : run[d] = "unborn"
  BY <1>0 DEF SupInit, PortInit
<1>2. LoopWaits /\ AdminsReset
  BY <1>1 DEF LoopWaits, AdminsReset, SupInit, Controller
<1>3. PortOwned /\ \A d \in Ds : Awaited(d)
  BY <1>1 DEF PortOwned, Owning, Awaited, Live
<1>4. \A s \in Serial \ wasReset : Agrees(s)
  BY <1>1 DEF Agrees
<1> QED BY <1>0, <1>1, <1>2, <1>3, <1>4 DEF SoloInv

\* A supervisor of a device that was never reset owns its port from Allocate to Free,
\* whatever admin connections do to other devices, and no port leaks at all
\* (device_supervisor.go, port_allocator.go).
THEOREM PortsOwned == SupSpec => []PortOwned
<1>1. SoloInv => PortOwned
  BY DEF SoloInv
<1> QED BY <1>1, SoloStep, SoloInitInv, PTL DEF SupSpec

\* The registry and the supervisor's map agree between two events on every device
\* that was never reset, whatever events the trackers lose or repeat and whatever
\* is reset beside it (app.go, supervisor.go).
THEOREM RegistryAgreesWithMap == SupSpec => []RegistryAgrees
<1>1. SoloInv => RegistryAgrees
  <2> SUFFICES ASSUME SoloInv, ctl[Loop] = "ready", NEW s \in Serial \ wasReset
               PROVE  s \in registered <=> devices[s] # None
    BY DEF RegistryAgrees
  <2>1. Agrees(s)
    BY DEF SoloInv, SupInv, SupTypeOK, LoopWaits
  <2> QED BY <2>1 DEF Agrees
<1> QED BY <1>1, SoloStep, SoloInitInv, PTL DEF SupSpec

\* When the event loop exits, resets of other devices and handlers still under way,
\* every supervisor of a device that was never reset has been torn down and its port
\* is free (drainAndCleanup of app.go, StopAll).
THEOREM ShutdownIsComplete == SupSpec => []ShutdownFreesPorts
<1>1. SoloInv => ShutdownFreesPorts
  <2> SUFFICES ASSUME SoloInv, ctl[Loop] = "exited"
               PROVE  /\ \A s \in Serial \ wasReset : devices[s] = None /\ bySerial[s] = NoPort
                      /\ \A d \in Ds : serialOf[d] \notin wasReset => run[d] \in {"unborn", "done"}
    BY DEF ShutdownFreesPorts
  <2>1. \A s \in Serial \ wasReset : devices[s] = None
    BY DEF SoloInv, LoopWaits, Drains, SupInv, SupTypeOK
  <2>2. \A d \in Ds : serialOf[d] \notin wasReset => ~Live(d)
    BY <2>1, SupConstants DEF SoloInv, SupInv, Awaited, Live, Lives
  <2>3. \A s \in Serial \ wasReset : bySerial[s] = NoPort
    BY <2>2 DEF SoloInv, PortOwned, Owning, Live
  <2> QED BY <2>1, <2>2, <2>3 DEF Live
<1> QED BY <1>1, SoloStep, SoloInitInv, PTL DEF SupSpec
=============================================================================
