--------------------------- MODULE CoordinatorDB ---------------------------
(***************************************************************************)
(* The coordinator's tables devices and sessions (internal/db/db.go), as   *)
(* far as booking is concerned.  Every action is one transaction or one    *)
(* UPDATE statement: Postgres makes it atomic, and nothing orders it with  *)
(* respect to the transactions of other handlers.                          *)
(***************************************************************************)
CONSTANTS
  Serial,     \* devices.serial
  Session,    \* sessions.id
  NoSerial,   \* the serial of a session that was never inserted
  Port,       \* stream ports a provider may report
  NoPort      \* stream_port's default, 0

ASSUME DBAssumption ==
  /\ NoSerial \notin Serial
  /\ NoPort \notin Port

VARIABLES
  status,     \* devices.status, "none" while there is no row
  streamPort, \* devices.stream_port
  sessions    \* the row of each session, status "none" while there is none

dbVars == <<status, streamPort, sessions>>

Status == {"none", "idle", "claimed", "offline"}
SessionRow == [serial : Serial \cup {NoSerial},
               status : {"none", "active", "released"}]

DBInit ==
  /\ status = [s \in Serial |-> "none"]
  /\ streamPort = [s \in Serial |-> NoPort]
  /\ sessions = [r \in Session |-> [serial |-> NoSerial, status |-> "none"]]

-----------------------------------------------------------------------------
\* An UPDATE of the row of s; without a row it changes nothing.
SetStatus(s, new) ==
  status' = [status EXCEPT ![s] = IF @ = "none" THEN @ ELSE new]

\* INSERT ... ON CONFLICT DO UPDATE: a new row is idle, an offline one becomes
\* idle, any other keeps its status.  stream_port is kept.
RegisterDevice(s) ==
  /\ status' = [status EXCEPT ![s] = IF @ \in {"none", "offline"} THEN "idle" ELSE @]
  /\ UNCHANGED <<streamPort, sessions>>

\* The device has left its provider.
ReleaseDevice(s) ==
  /\ SetStatus(s, "offline")
  /\ UNCHANGED <<streamPort, sessions>>

\* A ping lists the device: an offline row becomes idle.
UpdateDeviceHeartbeat(s) ==
  /\ status' = [status EXCEPT ![s] = IF @ = "offline" THEN "idle" ELSE @]
  /\ UNCHANGED <<streamPort, sessions>>

\* A provider's heartbeat stream ended: all its rows become offline.
MarkProviderOffline ==
  /\ status' = [s \in Serial |-> IF status[s] = "none" THEN "none" ELSE "offline"]
  /\ UNCHANGED <<streamPort, sessions>>

\* Mutant of CreateSession: the status read FOR UPDATE is not checked.
MutCreateUnchecked(r, s) ==
  /\ status[s] # "none"
  /\ sessions[r].status = "none"
  /\ status' = [status EXCEPT ![s] = "claimed"]
  /\ sessions' = [sessions EXCEPT ![r] = [serial |-> s, status |-> "active"]]
  /\ UNCHANGED streamPort

\* CreateSession commits: SELECT ... FOR UPDATE found a row that is not
\* claimed; an offline row is claimed like an idle one.
CreateSession(r, s) ==
  /\ status[s] \notin {"none", "claimed"}
  /\ sessions[r].status = "none"
  /\ status' = [status EXCEPT ![s] = "claimed"]
  /\ sessions' = [sessions EXCEPT ![r] = [serial |-> s, status |-> "active"]]
  /\ UNCHANGED streamPort

\* Mutant of CloseSession: the status of the device is left alone.
MutCloseKeepsStatus(s) ==
  /\ UNCHANGED status
  /\ streamPort' = [streamPort EXCEPT ![s] = NoPort]
  /\ sessions' = [r \in Session |->
       IF sessions[r].serial = s /\ sessions[r].status = "active"
       THEN [sessions[r] EXCEPT !.status = "released"] ELSE sessions[r]]

\* CloseSession closes every active session of the device, whoever opened it.
CloseSession(s) ==
  /\ status' = [status EXCEPT ![s] = IF @ \in {"none", "offline"} THEN @ ELSE "idle"]
  /\ streamPort' = [streamPort EXCEPT ![s] = NoPort]
  /\ sessions' = [r \in Session |->
       IF sessions[r].serial = s /\ sessions[r].status = "active"
       THEN [sessions[r] EXCEPT !.status = "released"] ELSE sessions[r]]

UpdateDeviceStreamPort(s, p) ==
  /\ status[s] # "none"
  /\ streamPort' = [streamPort EXCEPT ![s] = p]
  /\ UNCHANGED <<status, sessions>>

-----------------------------------------------------------------------------
DBNext ==
  \/ MarkProviderOffline
  \/ \E s \in Serial :
       \/ RegisterDevice(s)
       \/ ReleaseDevice(s)
       \/ UpdateDeviceHeartbeat(s)
       \/ CloseSession(s)
       \/ \E r \in Session : CreateSession(r, s)
       \/ \E p \in Port \cup {NoPort} : UpdateDeviceStreamPort(s, p)

DBSpec == DBInit /\ [][DBNext]_dbVars

-----------------------------------------------------------------------------
DBTypeOK ==
  /\ status \in [Serial -> Status]
  /\ streamPort \in [Serial -> Port \cup {NoPort}]
  /\ sessions \in [Session -> SessionRow]

Active(r, s) == sessions[r].serial = s /\ sessions[r].status = "active"

\* A device shown as claimed is claimed by somebody: some session of it is
\* active, in whatever order the handlers' transactions commit.  A row that
\* broke this could never be claimed again.
ClaimedHasActiveSession ==
  \A s \in Serial : status[s] = "claimed" => \E r \in Session : Active(r, s)

=============================================================================
