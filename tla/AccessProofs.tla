---------------------------- MODULE AccessProofs ----------------------------
(***************************************************************************)
(* Who may use which device and who is told of it: Groups and DeviceLists, *)
(* for any number of users, groups, devices, clients and handlers.         *)
(***************************************************************************)
EXTENDS Groups, DeviceLists, TLAPS

(***************************************************************************)
(* Groups.                                                                 *)
(***************************************************************************)

\* Ids are generated once: a row has one of those that were.
IdsGenerated ==
  /\ 1 < nextUid /\ 1 < nextGid
  /\ \A u \in userRows : u < nextUid
  /\ \A g \in groupRows : g < nextGid

\* An administrator that is not in a group is about to join it: CreateUser has
\* made one of the two and has its second statement to run, or CreateGroup has
\* made the other.
Joining(u, g) ==
  \E r \in Req :
    \/ at[r] = "joinAll" /\ arg[r].u = u
    \/ at[r] = "joinAdmins" /\ arg[r].g = g
JoinedOrJoining ==
  \A u \in Admins, g \in groupRows :
    <<u, g>> \in ug \/ <<u, g>> \in excused \/ Joining(u, g)

GroupsInv == GroupsTypeOK /\ IdsGenerated /\ JoinedOrJoining

-----------------------------------------------------------------------------
LEMMA NoArgType == NoArg \in Argument
  BY GroupsAssumption DEF NoArg, Argument, Uid, Gid, Role

\* Who is about to join still is after a step of a handler that has none of the
\* two statements to run.
LEMMA JoiningKept ==
  ASSUME NEW r \in Req, at[r] \notin {"joinAll", "joinAdmins"},
         \A q \in Req \ {r} : at'[q] = at[q] /\ arg'[q] = arg[q],
         NEW u, NEW g, Joining(u, g)
  PROVE  Joining(u, g)'
  BY DEF Joining

LEMMA GroupsInitInv == GroupsInit => GroupsInv
<1> SUFFICES ASSUME GroupsInit PROVE GroupsInv
  OBVIOUS
<1> USE GroupsAssumption DEF GroupsInit
<1>1. GroupsTypeOK
  BY NoArgType DEF GroupsTypeOK, Uid, Gid, Role, Statement
<1>2. IdsGenerated /\ JoinedOrJoining
  BY DEF IdsGenerated, JoinedOrJoining, Admins, Uid
<1> QED BY <1>1, <1>2 DEF GroupsInv

\* Logins, tokens and API keys are no part of it.
LEMMA AuthStep ==
  ASSUME GroupsInv, NEW u \in Uid,
         \/ Login(u) \/ CreateApiKey(u) \/ DeleteApiKey(u)
         \/ \E t \in tokens : TokenExpires(t)
  PROVE  GroupsInv'
<1>1. GroupsTypeOK'
  BY DEF GroupsInv, GroupsTypeOK, Argument, Login, CreateApiKey, DeleteApiKey, TokenExpires,
         userVars, groupVars
<1>2. UNCHANGED <<userVars, groupVars, ug, at, arg, excused>>
  BY DEF Login, CreateApiKey, DeleteApiKey, TokenExpires
<1>3. (IdsGenerated /\ JoinedOrJoining)'
  BY <1>2 DEF GroupsInv, IdsGenerated, JoinedOrJoining, Joining, Admins,
              userVars, groupVars
<1> QED BY <1>1, <1>3 DEF GroupsInv

\* A request begins, at a statement that is neither of the two.
LEMMA BeginStep ==
  ASSUME GroupsInv, NEW r \in Req,
         \/ \E e \in Email, role \in Role, n \in GName : Register(r, e, role, n)
         \/ \E n \in GName : NewGroup(r, n)
         \/ \E u \in Uid, g \in Gid : AddUser(r, u, g)
         \/ \E d \in Device : RegisterDevice(r, d)
  PROVE  GroupsInv'
<1> USE DEF GroupsInv
<1>1. GroupsTypeOK'
  <2> USE NoArgType DEF GroupsTypeOK, GotoWith, userVars, groupVars, authVars, Statement
  <2>1. CASE \E e \in Email, role \in Role, n \in GName : Register(r, e, role, n)
    <3>1. PICK e \in Email, role \in Role, n \in GName : Register(r, e, role, n)
      BY <2>1
    <3>2. [NoArg EXCEPT !.email = e, !.role = role, !.name = n, !.enrol = TRUE]
            \in Argument
      BY NoArgType DEF Argument
    <3> QED BY <3>1, <3>2 DEF Register, Argument
  <2>2. CASE \E n \in GName : NewGroup(r, n)
    <3>1. PICK n \in GName : NewGroup(r, n)
      BY <2>2
    <3>2. [NoArg EXCEPT !.name = n] \in Argument
      BY NoArgType DEF Argument
    <3> QED BY <3>1, <3>2 DEF NewGroup, Argument
  <2>3. CASE \E u \in Uid, g \in Gid : AddUser(r, u, g)
    <3>1. PICK u \in Uid, g \in Gid : AddUser(r, u, g)
      BY <2>3
    <3>2. [NoArg EXCEPT !.u = u, !.g = g] \in Argument
      BY NoArgType DEF Argument
    <3> QED BY <3>1, <3>2 DEF AddUser, Argument
  <2>4. CASE \E d \in Device : RegisterDevice(r, d)
    <3>1. PICK d \in Device : RegisterDevice(r, d)
      BY <2>4
    <3>2. [NoArg EXCEPT !.dev = {d}] \in Argument'
      BY <3>1, NoArgType DEF RegisterDevice, Argument
    <3>3. \A q \in Req : arg'[q] \in Argument'
      BY <3>1, <3>2 DEF RegisterDevice, Argument
    <3>4. (arg \in [Req -> Argument])'
      BY <3>1, <3>3 DEF RegisterDevice
    <3> QED BY <3>1, <3>4 DEF RegisterDevice
  <2> QED BY <2>1, <2>2, <2>3, <2>4
<1>2. /\ UNCHANGED <<userVars, groupVars, ug, excused>>
      /\ at[r] = "idle" /\ \A q \in Req \ {r} : at'[q] = at[q] /\ arg'[q] = arg[q]
  BY DEF Register, NewGroup, AddUser, RegisterDevice, GotoWith, GroupsTypeOK
<1>3. (IdsGenerated /\ JoinedOrJoining)'
  BY <1>2 DEF IdsGenerated, JoinedOrJoining, Joining, Admins, userVars, groupVars
<1> QED BY <1>1, <1>3

\* The statements of CreateUser and CreateGroup.
LEMMA InsertUserStep ==
  ASSUME GroupsInv, NEW r \in Req, InsertUser(r)
  PROVE  GroupsInv'
<1> USE DEF GroupsInv, userVars, groupVars, authVars
<1> DEFINE a == arg[r]
<1>1. a \in Argument /\ nextUid \in Uid /\ nextUid \notin userRows
  BY DEF InsertUser, GroupsTypeOK, IdsGenerated, Uid
<1>2. [a EXCEPT !.u = nextUid] \in Argument
  BY <1>1 DEF Argument
<1>3. GroupsTypeOK'
  <2>1. (at \in [Req -> Statement] /\ arg \in [Req -> Argument])'
    BY <1>2 DEF InsertUser, GroupsTypeOK, GotoWith, Statement, Argument
  <2>2. (emailOf \in [Uid -> Email] /\ roleOf \in [Uid -> Role])'
    BY <1>1 DEF InsertUser, GroupsTypeOK, Argument
  <2>3. (excused \subseteq Uid \X Gid)'
    BY DEF InsertUser, GroupsTypeOK, Mailed
  <2>4. (nextUid \in 1..(MaxUid + 1) /\ userRows \subseteq Uid)'
    BY GroupsAssumption, <1>1 DEF InsertUser, GroupsTypeOK, Uid
  <2> QED BY <2>1, <2>2, <2>3, <2>4 DEF InsertUser, GroupsTypeOK
<1>4. IdsGenerated'
  BY <1>1 DEF InsertUser, IdsGenerated, Uid, GroupsTypeOK
<1>5. JoinedOrJoining'
  <2> SUFFICES ASSUME NEW u \in Admins', NEW g \in groupRows
               PROVE  <<u, g>> \in ug \/ <<u, g>> \in excused' \/ Joining(u, g)'
    BY DEF InsertUser, JoinedOrJoining
  <2>1. u \in Uid /\ g \in Gid
    BY <1>3 DEF GroupsTypeOK, Admins
  <2>2. at[r] = "user" /\ excused \subseteq excused'
    BY DEF InsertUser
  <2>3. \A q \in Req \ {r} : at'[q] = at[q] /\ arg'[q] = arg[q]
    BY DEF InsertUser, GotoWith, GroupsTypeOK
  <2>4. CASE u \in Admins
    <3>1. <<u, g>> \in ug \/ <<u, g>> \in excused \/ Joining(u, g)
      BY <2>4 DEF JoinedOrJoining
    <3> QED BY <2>2, <2>3, <3>1, JoiningKept
  <2>5. CASE u \in userRows /\ u \notin Admins
    BY <1>1, <2>1, <2>5 DEF InsertUser, Admins, Mailed, GroupsTypeOK
  <2>6. CASE u \notin userRows
    <3>1. u = nextUid /\ a.role = "admin"
      BY <1>1, <2>1, <2>6 DEF InsertUser, Admins, Mailed
    <3>2. at'[r] = "joinAll" /\ arg'[r].u = nextUid
      BY <1>1, <3>1 DEF InsertUser, GotoWith, GroupsTypeOK, Argument
    <3>3. \E q \in Req : at'[q] = "joinAll" /\ arg'[q].u = u
      BY <3>1, <3>2
    <3> QED BY <3>3 DEF Joining
  <2> QED BY <2>4, <2>5, <2>6 DEF Admins
<1> QED BY <1>3, <1>4, <1>5

LEMMA JoinAllStep ==
  ASSUME GroupsInv, NEW r \in Req, JoinAll(r)
  PROVE  GroupsInv'
<1> USE DEF GroupsInv, userVars, groupVars, authVars
<1>1. GroupsTypeOK'
  BY DEF JoinAll, GroupsTypeOK, Goto, Statement, Argument
<1>2. IdsGenerated'
  BY DEF JoinAll, IdsGenerated
<1>3. JoinedOrJoining'
  <2> SUFFICES ASSUME NEW u \in Admins, NEW g \in groupRows
               PROVE  <<u, g>> \in ug' \/ <<u, g>> \in excused \/ Joining(u, g)'
    BY DEF JoinAll, JoinedOrJoining, Admins
  <2>1. \A q \in Req \ {r} : at'[q] = at[q] /\ arg'[q] = arg[q]
    BY DEF JoinAll, Goto, GroupsTypeOK
  <2>2. CASE u = arg[r].u
    BY <2>2 DEF JoinAll, Admins
  <2>3. CASE u # arg[r].u
    <3>1. <<u, g>> \in ug \/ <<u, g>> \in excused \/ Joining(u, g)
      BY DEF JoinedOrJoining
    <3>2. at[r] = "joinAll" /\ ug \subseteq ug'
      BY DEF JoinAll
    <3> QED BY <2>1, <2>3, <3>1, <3>2 DEF Joining
  <2> QED BY <2>2, <2>3
<1> QED BY <1>1, <1>2, <1>3

LEMMA InsertGroupStep ==
  ASSUME GroupsInv, NEW r \in Req, InsertGroup(r)
  PROVE  GroupsInv'
<1> USE DEF GroupsInv, userVars, groupVars, authVars
<1>1. arg[r] \in Argument /\ nextGid \in Gid /\ nextGid \notin groupRows
  BY DEF InsertGroup, GroupsTypeOK, IdsGenerated, Gid
<1>2. [arg[r] EXCEPT !.g = nextGid] \in Argument
  BY <1>1 DEF Argument
<1>3. GroupsTypeOK'
  <2>1. (at \in [Req -> Statement] /\ arg \in [Req -> Argument])'
    BY <1>2 DEF InsertGroup, GroupsTypeOK, GotoWith, Statement, Argument
  <2>2. (nameOf \in [Gid -> GName])'
    BY <1>1 DEF InsertGroup, GroupsTypeOK, Argument
  <2>3. (nextGid \in 1..(MaxGid + 1) /\ groupRows \subseteq Gid)'
    BY GroupsAssumption, <1>1 DEF InsertGroup, GroupsTypeOK, Gid
  <2>4. groupRows \subseteq groupRows'
    BY DEF InsertGroup
  <2> QED BY <2>1, <2>2, <2>3, <2>4 DEF InsertGroup, GroupsTypeOK
<1>4. IdsGenerated'
  BY <1>1 DEF InsertGroup, IdsGenerated, Gid, GroupsTypeOK
<1>5. JoinedOrJoining'
  <2>1. \A q \in Req \ {r} : at'[q] = at[q] /\ arg'[q] = arg[q]
    BY DEF InsertGroup, GotoWith, GroupsTypeOK
  <2>2. at[r] = "group" /\ at'[r] = "joinAdmins" /\ arg'[r].g = nextGid
    BY <1>1 DEF InsertGroup, GotoWith, GroupsTypeOK, Argument
  <2>3. SUFFICES ASSUME NEW u \in Admins, NEW g \in groupRows'
                 PROVE  <<u, g>> \in ug \/ <<u, g>> \in excused \/ Joining(u, g)'
    BY DEF InsertGroup, JoinedOrJoining, Admins
  <2>4. CASE g \in groupRows
    <3>1. <<u, g>> \in ug \/ <<u, g>> \in excused \/ Joining(u, g)
      BY <2>4 DEF JoinedOrJoining
    <3> QED BY <2>1, <2>2, <3>1, JoiningKept
  <2>5. CASE g = nextGid
    BY <2>2, <2>5 DEF Joining
  <2> QED BY <2>4, <2>5 DEF InsertGroup
<1> QED BY <1>3, <1>4, <1>5

LEMMA JoinAdminsStep ==
  ASSUME GroupsInv, NEW r \in Req, JoinAdmins(r)
  PROVE  GroupsInv'
<1> USE DEF GroupsInv, userVars, groupVars, authVars
<1>1. GroupsTypeOK'
  BY NoArgType DEF JoinAdmins, GroupsTypeOK, Goto, Return, GotoWith, Statement, Argument,
                   Admins
<1>2. IdsGenerated'
  BY DEF JoinAdmins, IdsGenerated
<1>3. JoinedOrJoining'
  <2>1. \A q \in Req \ {r} : at'[q] = at[q] /\ arg'[q] = arg[q]
    BY DEF JoinAdmins, Goto, Return, GotoWith, GroupsTypeOK
  <2>2. SUFFICES ASSUME NEW u \in Admins, NEW g \in groupRows
                 PROVE  <<u, g>> \in ug' \/ <<u, g>> \in excused \/ Joining(u, g)'
    BY DEF JoinAdmins, JoinedOrJoining, Admins
  <2>3. CASE g = arg[r].g
    BY <2>3 DEF JoinAdmins
  <2>4. CASE g # arg[r].g
    <3>1. <<u, g>> \in ug \/ <<u, g>> \in excused \/ Joining(u, g)
      BY DEF JoinedOrJoining
    <3>2. at[r] = "joinAdmins" /\ ug \subseteq ug'
      BY DEF JoinAdmins
    <3> QED BY <2>1, <2>4, <3>1, <3>2 DEF Joining
  <2> QED BY <2>3, <2>4
<1> QED BY <1>1, <1>2, <1>3

\* The other statements of the handlers.
LEMMA OtherStep ==
  ASSUME GroupsInv, NEW r \in Req,
         \/ FindGroup(r) \/ InsertMember(r) \/ LeavePublic(r)
         \/ FindPublic(r) \/ MakePublic(r) \/ Place(r)
  PROVE  GroupsInv'
<1> USE DEF GroupsInv, userVars, groupVars, authVars
<1>1. GroupsTypeOK'
  <2> USE NoArgType DEF GroupsTypeOK, Goto, Return, GotoWith, Statement
  <2>1. CASE FindGroup(r)
    BY <2>1 DEF FindGroup, Named, Argument
  <2>2. CASE InsertMember(r)
    BY <2>2 DEF InsertMember, Argument
  <2>3. CASE LeavePublic(r)
    BY <2>3 DEF LeavePublic, Named, Argument
  <2>4. CASE FindPublic(r)
    <3>1. \A g \in Gid : [arg[r] EXCEPT !.g = g] \in Argument
      BY DEF Argument
    <3>2. (at \in [Req -> Statement] /\ arg \in [Req -> Argument])'
      <4>1. CASE arg' = arg /\ at' = [at EXCEPT ![r] = "makePublic"]
        BY <2>4, <4>1 DEF FindPublic, Argument
      <4>2. CASE \E g \in Named(Public) : GotoWith(r, "place", [arg[r] EXCEPT !.g = g])
        BY <2>4, <3>1, <4>2 DEF FindPublic, Named, Argument
      <4> QED BY <2>4, <4>1, <4>2 DEF FindPublic
    <3> QED BY <2>4, <3>2 DEF FindPublic
  <2>5. CASE MakePublic(r)
    <3>0. nextGid \in Gid /\ arg[r] \in Argument
      BY <2>5 DEF MakePublic, Gid
    <3>1. nextGid \in Gid /\ [arg[r] EXCEPT !.g = nextGid] \in Argument
      BY <3>0 DEF Argument
    <3>2. (at \in [Req -> Statement] /\ arg \in [Req -> Argument])'
      BY <2>5, <3>1 DEF MakePublic, Argument
    <3>3. (nextGid \in 1..(MaxGid + 1))'
      BY <2>5, GroupsAssumption DEF MakePublic
    <3>4. (nameOf \in [Gid -> GName])'
      BY <2>5, GroupsAssumption DEF MakePublic
    <3>5. (groupRows \subseteq Gid)' /\ groupRows \subseteq groupRows'
      BY <2>5, <3>1 DEF MakePublic
    <3>6. (excused \subseteq Uid \X Gid)'
      BY <2>5, <3>1 DEF MakePublic
    <3> QED BY <2>5, <3>2, <3>3, <3>4, <3>5, <3>6 DEF MakePublic
  <2>6. CASE Place(r)
    BY <2>6 DEF Place, Argument
  <2> QED BY <2>1, <2>2, <2>3, <2>4, <2>5, <2>6
<1>2. IdsGenerated'
  BY DEF FindGroup, InsertMember, LeavePublic, FindPublic, MakePublic, Place, IdsGenerated,
         GroupsTypeOK, Gid
<1>3. JoinedOrJoining'
  <2>1. /\ at[r] \notin {"joinAll", "joinAdmins"}
        /\ \A q \in Req \ {r} : at'[q] = at[q] /\ arg'[q] = arg[q]
        /\ UNCHANGED userVars
    BY DEF FindGroup, InsertMember, LeavePublic, FindPublic, MakePublic, Place,
           Goto, Return, GotoWith, GroupsTypeOK
  <2>2. ug \subseteq ug' \cup excused' /\ excused \subseteq excused'
    BY DEF FindGroup, InsertMember, LeavePublic, FindPublic, MakePublic, Place
  <2>3. \A u \in Uid, g \in groupRows' \ groupRows : <<u, g>> \in excused'
    BY DEF FindGroup, InsertMember, LeavePublic, FindPublic, MakePublic, Place
  <2>4. Admins' = Admins /\ Admins \subseteq Uid
    BY <2>1 DEF Admins, GroupsTypeOK
  <2>5. SUFFICES ASSUME NEW u \in Admins, NEW g \in groupRows'
                 PROVE  <<u, g>> \in ug' \/ <<u, g>> \in excused' \/ Joining(u, g)'
    BY <2>4 DEF JoinedOrJoining
  <2>6. CASE g \in groupRows
    <3>1. <<u, g>> \in ug \/ <<u, g>> \in excused \/ Joining(u, g)
      BY <2>6 DEF JoinedOrJoining
    <3> QED BY <2>1, <2>2, <3>1, JoiningKept
  <2> QED BY <2>3, <2>4, <2>6
<1> QED BY <1>1, <1>2, <1>3

\* A deletion takes the pairs of the row with it; a pair that is taken apart is
\* excused.
LEMMA DeleteStep ==
  ASSUME GroupsInv, NEW u \in Uid, NEW g \in Gid, NEW d,
         \/ DeleteUser(u) \/ DeleteGroup(g) \/ RemoveUserFromGroup(u, g)
         \/ AddDeviceToGroup(d, g) \/ RemoveDeviceFromGroup(d, g)
  PROVE  GroupsInv'
<1> USE DEF GroupsInv, userVars, groupVars, authVars, DeleteUser, DeleteGroup,
            RemoveUserFromGroup, AddDeviceToGroup, RemoveDeviceFromGroup
<1>1. GroupsTypeOK'
  BY DEF GroupsTypeOK, Argument
<1>2. IdsGenerated'
  BY DEF IdsGenerated
<1>3. JoinedOrJoining'
  <2>1. UNCHANGED <<at, arg, roleOf>>
    OBVIOUS
  <2>2. Admins' \subseteq Admins /\ groupRows' \subseteq groupRows
    BY DEF Admins
  <2>3. SUFFICES ASSUME NEW v \in Admins', NEW h \in groupRows'
                 PROVE  <<v, h>> \in ug' \/ <<v, h>> \in excused' \/ Joining(v, h)'
    BY DEF JoinedOrJoining
  <2>4. <<v, h>> \in ug \/ <<v, h>> \in excused \/ Joining(v, h)
    BY <2>2 DEF JoinedOrJoining
  <2>5. CASE Joining(v, h)
    BY <2>1, <2>5 DEF Joining
  <2>6. CASE <<v, h>> \in excused
    BY <2>6
  <2>7. CASE <<v, h>> \in ug
    BY <2>7 DEF Admins
  <2> QED BY <2>4, <2>5, <2>6, <2>7
<1> QED BY <1>1, <1>2, <1>3

\* migrate makes up for what the handlers that died had still to do.
LEMMA RestartStep == GroupsInv /\ Restart => GroupsInv'
<1> SUFFICES ASSUME GroupsInv, Restart PROVE GroupsInv'
  OBVIOUS
<1> USE DEF GroupsInv, authVars
<1>1. 1 \in Uid /\ 1 \in Gid
  BY GroupsAssumption DEF Uid, Gid
<1>2. GroupsTypeOK'
  BY <1>1, NoArgType, GroupsAssumption DEF Restart, GroupsTypeOK, Statement, Argument,
     Admins, Named, Role
<1>3. IdsGenerated'
  BY DEF Restart, IdsGenerated
<1>4. JoinedOrJoining'
  BY <1>1 DEF Restart, JoinedOrJoining, Admins, GroupsTypeOK
<1> QED BY <1>2, <1>3, <1>4

LEMMA GroupsInvStep == GroupsInv /\ [GroupsNext]_groupsVars => GroupsInv'
<1> SUFFICES ASSUME GroupsInv, [GroupsNext]_groupsVars PROVE GroupsInv'
  OBVIOUS
<1>1. CASE UNCHANGED groupsVars
  BY <1>1 DEF groupsVars, userVars, groupVars, authVars, GroupsInv, GroupsTypeOK,
              IdsGenerated, JoinedOrJoining, Joining, Admins, Argument
<1>2. CASE \E r \in Req : Step(r)
  BY <1>2, InsertUserStep, JoinAllStep, InsertGroupStep, JoinAdminsStep, OtherStep DEF Step
<1>3. CASE Call
  <2>1. 1 \in Uid /\ 1 \in Gid
    BY GroupsAssumption DEF Uid, Gid
  <2> QED BY <1>3, <2>1, AuthStep, BeginStep, DeleteStep, RestartStep DEF Call
<1> QED BY <1>1, <1>2, <1>3 DEF GroupsNext

LEMMA GroupsInvariant == GroupsSpec => []GroupsInv
  BY GroupsInitInv, GroupsInvStep, PTL DEF GroupsSpec

\* The tables stay well formed: the pairs of user_groups and device_groups have
\* rows on both sides, a key has its owner, whatever is deleted and whenever the
\* coordinator restarts.
THEOREM GroupsTypes == GroupsSpec => []GroupsTypeOK
  BY GroupsInvariant, PTL DEF GroupsInv

\* However CreateUser and CreateGroup interleave, once no second statement of
\* theirs is left to run every administrator is in every group, but for the pairs
\* that were taken apart or that the code does not bring together.
THEOREM GroupsSafety == GroupsSpec => []AdminsJoined
<1>1. GroupsInv => AdminsJoined
  BY DEF GroupsInv, JoinedOrJoining, Joining, AdminsJoined
<1> QED BY <1>1, GroupsInvariant, PTL

-----------------------------------------------------------------------------
(***************************************************************************)
(* The lists of devices.                                                   *)
(***************************************************************************)

\* A handler that has made its change and has not served client c yet.
Owes(h, c) == Pending(h) /\ (mutex = h => c \in todo[h])

\* Who holds wsManager.mu is in the middle of a broadcast, and nobody else is;
\* an event is about the change of its handler.
Broadcasting ==
  /\ \A h \in Handler : call[h] \in {"listing", "sending"} <=> mutex = h
  /\ \A h \in Handler : call[h] \in {"made", "sending"} => draft[h] = {h}
  /\ \A h \in Handler : call[h] # "out" <=> h \in made

\* What a client has not been told of, some handler owes it, unless nobody announces
\* it, a query failed, or it is in the first list the client's own handler has read
\* or has still to read.
Told ==
  \A c \in clients : \A h \in made \ silent :
    \/ h \in seen[c] \cup missed[c] \/ Owes(h, c)
    \/ conn[c] = "writing" /\ h \in draft[c]
    \/ conn[c] = "added" /\ call[h] = "done"
    \/ conn[c] \in {"out", "closed", "gone"}

ListInv == ListTypeOK /\ Broadcasting /\ Told

-----------------------------------------------------------------------------
LEMMA ListInitInv == ListInit => ListInv
  BY ListsAssumption DEF ListInit, ListInv, ListTypeOK, Broadcasting, Told

\* The handler of a client: a change made between the reading of its first list
\* and the writing of it is owed to the client, which is in the table by then.
LEMMA ClientStep ==
  ASSUME ListInv, NEW c \in Client, ServeClient(c) \/ Disconnect(c)
  PROVE  ListInv'
<1> USE ListsAssumption DEF ListInv, history
<1>1. CASE AddClient(c)
  BY <1>1 DEF AddClient, ListTypeOK, Broadcasting, Told, Owes, Pending
<1>2. CASE ReadList(c)
  BY <1>2 DEF ReadList, ListTypeOK, Broadcasting, Told, Owes, Pending
<1>3. CASE WriteList(c)
  BY <1>3 DEF WriteList, GotList, ListTypeOK, Broadcasting, Told, Owes, Pending
<1>4. CASE RemoveClient(c)
  BY <1>4 DEF RemoveClient, ListTypeOK, Broadcasting, Told, Owes, Pending
<1>5. CASE Disconnect(c)
  BY <1>5 DEF Disconnect, ListTypeOK, Broadcasting, Told, Owes, Pending
<1>6. CASE ReadFails(c)
  <2>1. ListTypeOK'
    BY <1>6 DEF ReadFails, ListTypeOK
  <2>2. Broadcasting'
    BY <1>6 DEF ReadFails, ListTypeOK, Broadcasting
  <2>3. Told'
    BY <1>6 DEF ReadFails, ListTypeOK, Broadcasting, Told, Owes, Pending
  <2> QED BY <2>1, <2>2, <2>3
<1> QED BY <1>1, <1>2, <1>3, <1>4, <1>5, <1>6 DEF ServeClient, FirstList

\* A handler that changes the table owes its change to every client from the
\* statement on, and its debt to a client ends when it has written to it.
LEMMA HandlerStep ==
  ASSUME ListInv, NEW h \in Handler,
         Broadcast(h) \/ SilentChange(h) \/ \E kind \in {"list", "event"} : Change(h, kind)
  PROVE  ListInv'
<1> USE ListsAssumption DEF ListInv, history
<1>1. CASE \E kind \in {"list", "event"} : Change(h, kind)
  BY <1>1 DEF Change, ListTypeOK, Broadcasting, Told, Owes, Pending
<1>2. CASE MakeEvent(h)
  BY <1>2 DEF MakeEvent, ListTypeOK, Broadcasting, Told, Owes, Pending
<1>3. CASE BroadcastBegins(h)
  BY <1>3 DEF BroadcastBegins, ListTypeOK, Broadcasting, Told, Owes, Pending
<1>4. CASE BroadcastEnds(h)
  BY <1>4 DEF BroadcastEnds, ListTypeOK, Broadcasting, Told, Owes, Pending
<1>5. CASE \E c \in Client : WriteTo(h, c)
  BY <1>5 DEF WriteTo, GotList, GotEvent, ListTypeOK, Broadcasting, Told, Owes, Pending
<1>6. CASE \E c \in Client : WriteFailsTo(h, c)
  BY <1>6 DEF WriteFailsTo, ListTypeOK, Broadcasting, Told, Owes, Pending
<1>7. CASE \E c \in Client : QueryFailsFor(h, c)
  BY <1>7 DEF QueryFailsFor, ListTypeOK, Broadcasting, Told, Owes, Pending
<1>8. CASE SilentChange(h)
  BY <1>8 DEF SilentChange, ListTypeOK, Broadcasting, Told, Owes, Pending
<1>9. CASE EventDropped(h)
  BY <1>9 DEF EventDropped, ListTypeOK, Broadcasting, Told, Owes, Pending
<1> QED BY <1>1, <1>2, <1>3, <1>4, <1>5, <1>6, <1>7, <1>8, <1>9 DEF Broadcast

LEMMA ListInvStep == ListInv /\ [ListNext]_listVars => ListInv'
<1> SUFFICES ASSUME ListInv, [ListNext]_listVars PROVE ListInv'
  OBVIOUS
<1>1. CASE UNCHANGED listVars
  BY <1>1 DEF listVars, history, ListInv, ListTypeOK, Broadcasting, Told, Owes, Pending
<1>2. CASE ListNext
  BY <1>2, ClientStep, HandlerStep DEF ListNext
<1> QED BY <1>1, <1>2

LEMMA ListInvariant == ListSpec => []ListInv
  BY ListInitInv, ListInvStep, PTL DEF ListSpec

\* No client misses an announced change: whatever the order of the statements, the
\* broadcasts and the first lists written outside wsManager.mu, a client that is
\* connected knows every change whose handler is through, but for the changes
\* nobody announces and those a failed query was to tell it.
THEOREM ListsSafety == ListSpec => []ListsFresh
<1>1. ListInv => ListsFresh
  BY DEF ListInv, ListTypeOK, Told, Owes, Pending, ListsFresh
<1> QED BY <1>1, ListInvariant, PTL

\* The lists keep to their types: no client is told of or shown a change that was
\* never made, and wsManager.mu is held by a handler or by nobody.
THEOREM ListTypes == ListSpec => []ListTypeOK
  BY ListInvariant, PTL DEF ListInv
=============================================================================
