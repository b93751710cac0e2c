------------------------------ MODULE MCAccess ------------------------------
(***************************************************************************)
(* Groups and device lists of the coordinator on small instances.  The two *)
(* share no variable, so each is explored while the other rests.           *)
(***************************************************************************)
EXTENDS Groups, DeviceLists

CONSTANT
  MaxCalls        \* bound: requests, logins, expiries and restarts

VARIABLES
  part,           \* the part that is explored
  calls           \* requests so far

accessVars == <<groupsVars, listVars, part, calls>>

AccessInit ==
  /\ part \in {"groups", "lists"}
  /\ GroupsInit /\ ListInit
  /\ part = "groups" => stuck = {}
  /\ calls = 0

GroupsCall ==
  /\ part = "groups" /\ calls < MaxCalls
  /\ calls' = calls + 1
  /\ Call
  /\ UNCHANGED <<listVars, part>>

GroupsStep ==
  /\ part = "groups"
  /\ \E r \in Req : Step(r)
  /\ UNCHANGED <<listVars, part, calls>>

ListStep == part = "lists" /\ ListNext /\ UNCHANGED <<groupsVars, part, calls>>

AccessNext == GroupsCall \/ GroupsStep \/ ListStep

AccessSpec == AccessInit /\ [][AccessNext]_accessVars /\ ListFairness

AccessTypeOK == GroupsTypeOK /\ ListTypeOK
=============================================================================
