------------------------------- MODULE Groups -------------------------------
(***************************************************************************)
(* Users, groups and who belongs to what on the coordinator                *)
(* (src/internal/db/db.go, src/internal/auth, admin_handlers.go).  Every   *)
(* SQL statement is atomic; a handler is a sequence of statements, with    *)
(* those of other handlers in between, and the process may die between any *)
(* two of them.                                                            *)
(***************************************************************************)
EXTENDS Naturals

CONSTANTS
  MaxUid, MaxGid,   \* bounds: ids of users and of groups
  Email, Root,      \* users.email, unique; Root is the seeded administrator's
  GName, Public,    \* groups.name, unique; Public is the default group
  Device,           \* devices.serial
  Req               \* handlers that may run at one time

ASSUME GroupsAssumption ==
  /\ MaxUid \in Nat \ {0} /\ MaxGid \in Nat \ {0}
  /\ Root \in Email /\ Public \in GName

Uid == 1..MaxUid
Gid == 1..MaxGid
Role == {"admin", "user"}

VARIABLES
  userRows, emailOf, roleOf,   \* table users: its ids and their columns
  groupRows, nameOf,           \* table groups
  nextUid, nextGid,            \* ids not generated yet
  ug, dg,                      \* user_groups and device_groups: pairs
  devices,                     \* serials in table devices
  tokens,                      \* valid tokens: <<user id, role at login>>
  keys,                        \* users with an API key
  at, arg,                     \* at[r]: the next statement of handler r; arg[r]:
                               \* the user, group, name, role... it works on
  excused                      \* history: pairs that were taken apart, or that
                               \* the code does not bring together

userVars == <<userRows, emailOf, roleOf, nextUid>>
groupVars == <<groupRows, nameOf, nextGid>>
authVars == <<tokens, keys>>
groupsVars == <<userVars, groupVars, ug, dg, devices, authVars, at, arg, excused>>

Named(n) == {g \in groupRows : nameOf[g] = n}
Mailed(e) == {u \in userRows : emailOf[u] = e}
Admins == {u \in userRows : roleOf[u] = "admin"}
NoArg == [u |-> 1, g |-> 1, name |-> Public, role |-> "user", email |-> Root,
          enrol |-> FALSE, dev |-> {}]

\* What migrate leaves in an empty database, and the administrator's login.
GroupsInit ==
  /\ userRows = {1} /\ emailOf = [u \in Uid |-> Root]
  /\ roleOf = [u \in Uid |-> "admin"]
  /\ groupRows = {1} /\ nameOf = [g \in Gid |-> Public]
  /\ nextUid = 2 /\ nextGid = 2
  /\ ug = {<<1, 1>>} /\ dg = {} /\ devices = {}
  /\ tokens = {<<1, "admin">>} /\ keys = {}
  /\ at = [r \in Req |-> "idle"] /\ arg = [r \in Req |-> NoArg]
  /\ excused = {}

-----------------------------------------------------------------------------
(* Who may call the administrator's handlers.  A token keeps its role for  *)
(* 24 hours; the owner of a key is looked up at each request.              *)

Authorized == (\E t \in tokens : t[2] = "admin") \/ keys \cap Admins # {}

Login(u) ==
  /\ u \in userRows
  /\ tokens' = tokens \cup {<<u, roleOf[u]>>}
  /\ UNCHANGED <<userVars, groupVars, ug, dg, devices, keys, at, arg, excused>>

TokenExpires(t) ==
  /\ t \in tokens
  /\ tokens' = tokens \ {t}
  /\ UNCHANGED <<userVars, groupVars, ug, dg, devices, keys, at, arg, excused>>

CreateApiKey(u) ==
  /\ u \in userRows /\ \E t \in tokens : t[1] = u
  /\ keys' = keys \cup {u}
  /\ UNCHANGED <<userVars, groupVars, ug, dg, devices, tokens, at, arg, excused>>

\* Its owner, with the key itself if need be, or an administrator deletes a key,
\* or it expires.
DeleteApiKey(u) ==
  /\ u \in keys
  /\ keys' = keys \ {u}
  /\ UNCHANGED <<userVars, groupVars, ug, dg, devices, tokens, at, arg, excused>>

-----------------------------------------------------------------------------
(* Handlers of more than one statement.                                    *)

Goto(r, step) == at' = [at EXCEPT ![r] = step] /\ UNCHANGED arg
GotoWith(r, step, a) == at' = [at EXCEPT ![r] = step] /\ arg' = [arg EXCEPT ![r] = a]
Return(r) == GotoWith(r, "idle", NoArg)

\* handleRegister: without any user, anybody may register the first.
Register(r, e, role, n) ==
  /\ at[r] = "idle" /\ nextUid <= MaxUid
  /\ userRows = {} \/ Authorized
  /\ GotoWith(r, "user", [NoArg EXCEPT !.email = e, !.role = role, !.name = n,
                                       !.enrol = TRUE])
  /\ UNCHANGED <<userVars, groupVars, ug, dg, devices, authVars, excused>>

\* CreateUser, first statement.  A user with that email keeps its id and gets
\* the role; the handler goes on with the id it generated.
InsertUser(r) ==
  LET a == arg[r]  old == Mailed(a.email) IN
  /\ at[r] = "user" /\ nextUid <= MaxUid
  /\ nextUid' = nextUid + 1
  /\ userRows' = IF old = {} THEN userRows \cup {nextUid} ELSE userRows
  /\ emailOf' = [emailOf EXCEPT ![nextUid] = a.email]
  /\ roleOf' = [u \in Uid |-> IF u = nextUid \/ u \in old THEN a.role ELSE roleOf[u]]
  /\ excused' = IF a.role = "admin" THEN excused \cup ((old \ Admins) \X Gid) ELSE excused
  /\ GotoWith(r, IF a.role = "admin" THEN "joinAll" ELSE "group", [a EXCEPT !.u = nextUid])
  /\ UNCHANGED <<groupVars, ug, dg, devices, authVars>>

\* CreateUser, second statement; without a row for the id it fails, unnoticed.
JoinAll(r) ==
  /\ at[r] = "joinAll"
  /\ ug' = IF arg[r].u \in userRows THEN ug \cup ({arg[r].u} \X groupRows) ELSE ug
  /\ Goto(r, "group")
  /\ UNCHANGED <<userVars, groupVars, dg, devices, authVars, excused>>

NewGroup(r, n) ==
  /\ at[r] = "idle" /\ nextGid <= MaxGid
  /\ Authorized
  /\ GotoWith(r, "group", [NoArg EXCEPT !.name = n])
  /\ UNCHANGED <<userVars, groupVars, ug, dg, devices, authVars, excused>>

\* CreateGroup, first statement: ON CONFLICT (name) DO NOTHING.
InsertGroup(r) ==
  /\ at[r] = "group" /\ nextGid <= MaxGid
  /\ nextGid' = nextGid + 1
  /\ groupRows' = IF Named(arg[r].name) = {} THEN groupRows \cup {nextGid} ELSE groupRows
  /\ nameOf' = [nameOf EXCEPT ![nextGid] = arg[r].name]
  /\ GotoWith(r, "joinAdmins", [arg[r] EXCEPT !.g = nextGid])
  /\ UNCHANGED <<userVars, ug, dg, devices, authVars, excused>>

\* Mutant of JoinAdmins: only the administrator who asks joins the new group.
MutJoinCallerOnly(r) ==
  /\ at[r] = "joinAdmins"
  /\ ug' = IF arg[r].g \in groupRows THEN ug \cup ((Admins \cap {1}) \X {arg[r].g}) ELSE ug
  /\ IF arg[r].enrol THEN Goto(r, "find") ELSE Return(r)
  /\ UNCHANGED <<userVars, groupVars, dg, devices, authVars, excused>>

\* CreateGroup, second statement; it too fails unnoticed without a row.
JoinAdmins(r) ==
  /\ at[r] = "joinAdmins"
  /\ ug' = IF arg[r].g \in groupRows THEN ug \cup (Admins \X {arg[r].g}) ELSE ug
  /\ IF arg[r].enrol THEN Goto(r, "find") ELSE Return(r)
  /\ UNCHANGED <<userVars, groupVars, dg, devices, authVars, excused>>

\* RegisterLocalUser lists the groups to learn the id of the one it wants.
FindGroup(r) ==
  /\ at[r] = "find"
  /\ \/ Named(arg[r].name) = {} /\ Return(r)
     \/ \E g \in Named(arg[r].name) : GotoWith(r, "member", [arg[r] EXCEPT !.g = g])
  /\ UNCHANGED <<userVars, groupVars, ug, dg, devices, authVars, excused>>

AddUser(r, u, g) ==
  /\ at[r] = "idle" /\ Authorized
  /\ u \in userRows /\ g \in groupRows
  /\ GotoWith(r, "member", [NoArg EXCEPT !.u = u, !.g = g])
  /\ UNCHANGED <<userVars, groupVars, ug, dg, devices, authVars, excused>>

\* AddUserToGroup: a member of another group leaves the public one.
InsertMember(r) ==
  LET u == arg[r].u  g == arg[r].g  ok == u \in userRows /\ g \in groupRows IN
  /\ at[r] = "member"
  /\ ug' = IF ok THEN ug \cup {<<u, g>>} ELSE ug
  /\ IF ok /\ nameOf[g] # Public THEN Goto(r, "leavePublic") ELSE Return(r)
  /\ UNCHANGED <<userVars, groupVars, dg, devices, authVars, excused>>

LeavePublic(r) ==
  LET pairs == {arg[r].u} \X Named(Public) IN
  /\ at[r] = "leavePublic"
  /\ ug' = ug \ pairs
  /\ excused' = excused \cup pairs
  /\ Return(r)
  /\ UNCHANGED <<userVars, groupVars, dg, devices, authVars>>

\* RegisterDevice: the row, the id of the public group, made if there is none,
\* and the device's place in it.  The administrators do not join a group made
\* here, and a handler that lost the race to make it goes on with its own id.
RegisterDevice(r, d) ==
  /\ at[r] = "idle"
  /\ devices' = devices \cup {d}
  /\ GotoWith(r, "public", [NoArg EXCEPT !.dev = {d}])
  /\ UNCHANGED <<userVars, groupVars, ug, dg, authVars, excused>>

FindPublic(r) ==
  /\ at[r] = "public"
  /\ \/ Named(Public) = {} /\ nextGid <= MaxGid /\ Goto(r, "makePublic")
     \/ \E g \in Named(Public) : GotoWith(r, "place", [arg[r] EXCEPT !.g = g])
  /\ UNCHANGED <<userVars, groupVars, ug, dg, devices, authVars, excused>>

MakePublic(r) ==
  /\ at[r] = "makePublic" /\ nextGid <= MaxGid
  /\ nextGid' = nextGid + 1
  /\ groupRows' = IF Named(Public) = {} THEN groupRows \cup {nextGid} ELSE groupRows
  /\ nameOf' = [nameOf EXCEPT ![nextGid] = Public]
  /\ excused' = excused \cup (Uid \X {nextGid})
  /\ GotoWith(r, "place", [arg[r] EXCEPT !.g = nextGid])
  /\ UNCHANGED <<userVars, ug, dg, devices, authVars>>

Place(r) ==
  /\ at[r] = "place"
  /\ dg' = IF arg[r].g \in groupRows THEN dg \cup (arg[r].dev \X {arg[r].g}) ELSE dg
  /\ Return(r)
  /\ UNCHANGED <<userVars, groupVars, ug, devices, authVars, excused>>

-----------------------------------------------------------------------------
(* Handlers of one statement; deletions cascade.                           *)

DeleteUser(u) ==
  /\ Authorized /\ u \in userRows
  /\ userRows' = userRows \ {u}
  /\ ug' = {p \in ug : p[1] # u}
  /\ keys' = keys \ {u}
  /\ UNCHANGED <<emailOf, roleOf, nextUid, groupVars, dg, devices, tokens, at, arg,
                 excused>>

DeleteGroup(g) ==
  /\ Authorized /\ g \in groupRows
  /\ groupRows' = groupRows \ {g}
  /\ ug' = {p \in ug : p[2] # g}
  /\ dg' = {p \in dg : p[2] # g}
  /\ UNCHANGED <<userVars, nameOf, nextGid, devices, authVars, at, arg, excused>>

RemoveUserFromGroup(u, g) ==
  /\ Authorized /\ <<u, g>> \in ug
  /\ ug' = ug \ {<<u, g>>}
  /\ excused' = excused \cup {<<u, g>>}
  /\ UNCHANGED <<userVars, groupVars, dg, devices, authVars, at, arg>>

AddDeviceToGroup(d, g) ==
  /\ Authorized /\ d \in devices /\ g \in groupRows
  /\ dg' = dg \cup {<<d, g>>}
  /\ UNCHANGED <<userVars, groupVars, ug, devices, authVars, at, arg, excused>>

RemoveDeviceFromGroup(d, g) ==
  /\ Authorized /\ <<d, g>> \in dg
  /\ dg' = dg \ {<<d, g>>}
  /\ UNCHANGED <<userVars, groupVars, ug, devices, authVars, at, arg, excused>>

\* The coordinator stops, whatever its handlers were doing, and starts again:
\* migrate makes the public group with its fixed id, puts every device in it and
\* every administrator in every group, and seeds an administrator if there is no
\* user, after that and only in the public group.
Restart ==
  LET rows == IF Named(Public) = {} THEN groupRows \cup {1} ELSE groupRows
      name == IF Named(Public) = {} THEN [nameOf EXCEPT ![1] = Public] ELSE nameOf
      public == {g \in rows : name[g] = Public}
      seed == IF userRows = {} THEN {1} ELSE {}
  IN
  /\ at' = [r \in Req |-> "idle"] /\ arg' = [r \in Req |-> NoArg]
  /\ groupRows' = rows /\ nameOf' = name
  /\ dg' = dg \cup (devices \X public)
  /\ userRows' = userRows \cup seed
  /\ emailOf' = [u \in Uid |-> IF u \in seed THEN Root ELSE emailOf[u]]
  /\ roleOf' = [u \in Uid |-> IF u \in seed THEN "admin" ELSE roleOf[u]]
  /\ ug' = ug \cup (Admins \X rows) \cup (seed \X public)
  /\ excused' = seed \X rows
  /\ UNCHANGED <<nextUid, nextGid, devices, authVars>>

-----------------------------------------------------------------------------
Step(r) ==
  \/ InsertUser(r) \/ JoinAll(r) \/ InsertGroup(r) \/ JoinAdmins(r) \/ FindGroup(r)
  \/ InsertMember(r) \/ LeavePublic(r) \/ FindPublic(r) \/ MakePublic(r) \/ Place(r)

Call ==
  \/ \E r \in Req, e \in Email, role \in Role, n \in GName : Register(r, e, role, n)
  \/ \E r \in Req, n \in GName : NewGroup(r, n)
  \/ \E r \in Req, u \in Uid, g \in Gid : AddUser(r, u, g)
  \/ \E r \in Req, d \in Device : RegisterDevice(r, d)
  \/ \E u \in Uid : Login(u) \/ CreateApiKey(u) \/ DeleteApiKey(u) \/ DeleteUser(u)
  \/ \E t \in tokens : TokenExpires(t)
  \/ \E g \in Gid : DeleteGroup(g)
  \/ \E u \in Uid, g \in Gid : RemoveUserFromGroup(u, g)
  \/ \E d \in Device, g \in Gid : AddDeviceToGroup(d, g) \/ RemoveDeviceFromGroup(d, g)
  \/ Restart

GroupsNext == Call \/ \E r \in Req : Step(r)

GroupsSpec == GroupsInit /\ [][GroupsNext]_groupsVars

-----------------------------------------------------------------------------
Statement == {"idle", "user", "joinAll", "group", "joinAdmins", "find", "member",
              "leavePublic", "public", "makePublic", "place"}

Argument == [u : Uid, g : Gid, name : GName, role : Role, email : Email,
             enrol : BOOLEAN, dev : SUBSET devices]

GroupsTypeOK ==
  /\ userRows \subseteq Uid /\ emailOf \in [Uid -> Email] /\ roleOf \in [Uid -> Role]
  /\ groupRows \subseteq Gid /\ nameOf \in [Gid -> GName]
  /\ nextUid \in 1..(MaxUid + 1) /\ nextGid \in 1..(MaxGid + 1)
  /\ ug \subseteq userRows \X groupRows
  /\ devices \subseteq Device /\ dg \subseteq devices \X groupRows
  /\ tokens \subseteq Uid \X Role /\ keys \subseteq userRows
  /\ at \in [Req -> Statement]
  /\ arg \in [Req -> Argument]
  /\ excused \subseteq Uid \X Gid

\* An administrator is in every group: a new administrator joins the groups that
\* exist and a new group takes in the administrators that exist, although each
\* takes two statements and the two may interleave, unless the pair was taken
\* apart or is one the code is known to leave out (CreateUser, CreateGroup).
AdminsJoined ==
  (\A r \in Req : at[r] \notin {"joinAll", "joinAdmins"})
    => Admins \X groupRows \subseteq ug \cup excused

\* Not held.  Every administrator is in every group.
AdminsInAll == (\A r \in Req : at[r] = "idle") => Admins \X groupRows \subseteq ug

\* Not held.  A device that is registered is in a group.
DevicesPlaced ==
  (\A r \in Req : at[r] = "idle") => \A d \in devices : \E g \in Gid : <<d, g>> \in dg

\* Not held.  Somebody can administer the groups: there is an administrator, or
\* no user at all, so that the first may register.
NeverLockedOut == userRows = {} \/ Admins # {}
=============================================================================
