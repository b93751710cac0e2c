---------------------------- MODULE PortAllocator ----------------------------
(***************************************************************************)
(* The provider's pool of TCP ports (internal/supervisor/port_allocator.go)*)
(* Every supervised device owns one base port; the services of the device  *)
(* listen on ports derived from it.  Both maps are guarded by pa.mu, so an *)
(* operation is one atomic step.                                           *)
(***************************************************************************)
EXTENDS Integers

CONSTANTS
  Serial,    \* serials of the devices that may be plugged into this provider
  NoSerial,  \* "no entry" in the map port -> serial
  MinPort,   \* provider.min_port
  MaxPort,   \* provider.max_port
  Unit       \* distance between the ports of a device's services, 1000

\* NewPortAllocator refuses minPort >= maxPort; the configuration validates
\* both ports to lie in 1024..65535.
ASSUME PortAssumption ==
  /\ NoSerial \notin Serial
  /\ MinPort \in Nat \ {0}
  /\ MaxPort \in Nat
  /\ MinPort < MaxPort
  /\ Unit \in Nat \ {0}

VARIABLES
  used,      \* port -> serial
  bySerial   \* serial -> port; 0, the zero value of Go's map, when absent

portVars == <<used, bySerial>>

\* Allocate steps by 10, "to reserve a block of 10 ports per device".
Stride == 10
NoPort == 0

\* Mutant of Pool: the scan steps by single ports instead of blocks of ten.
MutPoolUnitStep == MinPort..(MinPort + 2)

InPool(p) == p \in MinPort..MaxPort /\ (p - MinPort) % Stride = 0
Pool == {p \in MinPort..MaxPort : InPool(p)}
Unused == {p \in Pool : used[p] = NoSerial}

PortInit ==
  /\ used = [p \in Pool |-> NoSerial]
  /\ bySerial = [s \in Serial |-> NoPort]

(***************************************************************************)
(* Allocate(serial).  The caller reads its result in bySerial'[s]: it is   *)
(* NoPort exactly when the pool is exhausted and Allocate returns an error.*)
(***************************************************************************)
AllocateKnown(s) ==
  /\ bySerial[s] # NoPort
  /\ UNCHANGED portVars

AllocateFresh(s) ==
  /\ bySerial[s] = NoPort
  /\ \E p \in Unused :
       /\ \A q \in Unused : p <= q
       /\ used' = [used EXCEPT ![p] = s]
       /\ bySerial' = [bySerial EXCEPT ![s] = p]

AllocateExhausted(s) ==
  /\ bySerial[s] = NoPort
  /\ Unused = {}
  /\ UNCHANGED portVars

Allocate(s) == AllocateKnown(s) \/ AllocateFresh(s) \/ AllocateExhausted(s)

(***************************************************************************)
(* Free(serial): a serial that holds no port is left alone.                *)
(***************************************************************************)
Free(s) ==
  IF bySerial[s] = NoPort
  THEN UNCHANGED portVars
  ELSE /\ used' = [used EXCEPT ![bySerial[s]] = NoSerial]
       /\ bySerial' = [bySerial EXCEPT ![s] = NoPort]

PortNext == \E s \in Serial : Allocate(s) \/ Free(s)

PortSpec == PortInit /\ [][PortNext]_portVars

-----------------------------------------------------------------------------
(***************************************************************************)
(* The ports one device listens on, derived from its base port: the stream *)
(* server on the base port, scrcpy's forward at +2000, the agent or WDA at *)
(* +3000, WDA's MJPEG at +3001, the tunnel's info and userspace ports at   *)
(* +4000 and +5000.                                                        *)
(***************************************************************************)
DerivedOffsets == {0, 2 * Unit, 3 * Unit, 3 * Unit + 1, 4 * Unit, 5 * Unit}
DerivedPorts(b) == {b + o : o \in DerivedOffsets}

PortTypeOK ==
  /\ used \in [Pool -> Serial \cup {NoSerial}]
  /\ bySerial \in [Serial -> Pool \cup {NoPort}]

\* The two maps of the allocator are inverse to each other after every
\* sequence of Allocate and Free: neither map keeps an entry the other lost.
MapsInverse ==
  \A p \in Pool, s \in Serial : used[p] = s <=> bySerial[s] = p

\* Two base ports are less than the distance between two services apart.
Near(p, q) == p - q < Unit - 1 /\ q - p < Unit - 1

\* No port of one supervised device is a port of another, over all the offsets
\* the provider uses, as long as their base ports are near each other.
DerivedPortsApart ==
  \A s, t \in Serial :
    /\ s # t
    /\ bySerial[s] # NoPort
    /\ bySerial[t] # NoPort
    /\ Near(bySerial[s], bySerial[t])
    => DerivedPorts(bySerial[s]) \cap DerivedPorts(bySerial[t]) = {}

\* "Since base ports are spaced by 10, these will never overlap"
\* (ios_worker.go): the same for any two base ports.  False as soon as the
\* configured range is a thousand ports wide, which nothing forbids.
DerivedPortsDisjoint ==
  \A s, t \in Serial :
    /\ s # t
    /\ bySerial[s] # NoPort
    /\ bySerial[t] # NoPort
    => DerivedPorts(bySerial[s]) \cap DerivedPorts(bySerial[t]) = {}

=============================================================================
