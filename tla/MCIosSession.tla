---------------------------- MODULE MCIosSession ----------------------------
(***************************************************************************)
(* TLC instance of IosSession: the supervisor's and the capture's client,  *)
(* two users that may share one or use one each.                           *)
(***************************************************************************)
EXTENDS IosSession

CONSTANTS c1, c2, u1, u2

\* Both users share the supervisor's client, or one has the capture's.
MCWirings == {[u \in Users |-> c1], [u \in Users |-> IF u = u1 THEN c1 ELSE c2]}
=============================================================================
