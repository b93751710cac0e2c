---------------------------- MODULE MCRecording ----------------------------
(***************************************************************************)
(* The TLC instance of Recording: three spots in a row, of which only      *)
(* neighbours are near each other.  The outer ones show elements with the  *)
(* same resource id, one of them a text field; the middle one shows none.  *)
(***************************************************************************)
EXTENDS Recording, Integers

MCNear == {<<p, q>> \in Spot \X Spot : p - q \in {-1, 0, 1}}
MCNodeAt == <<[id |-> "name", edit |-> TRUE], NoNode, [id |-> "name", edit |-> FALSE]>>
=============================================================================
