----------------------------- MODULE MCTrackers -----------------------------
(***************************************************************************)
(* TLC instance of Trackers: one Android and one iOS device share a        *)
(* channel with room for one event, so that sends block and are dropped.   *)
(***************************************************************************)
EXTENDS Trackers
=============================================================================
