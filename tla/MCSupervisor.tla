---------------------------- MODULE MCSupervisor ----------------------------
(***************************************************************************)
(* TLC instances of Supervisor; the .cfg files give the constants.  A gap *)
(* of 20 between the services and three base ports let two devices be near *)
(* each other and two be a whole gap apart; as many supervisors as serials *)
(* let one device be replugged or reset while another is supervised.       *)
(***************************************************************************)
EXTENDS Supervisor, TLC

\* Serials are interchangeable, and so are callers.
SerialSymmetry == Permutations(Serial)
CallerSymmetry == Permutations(Caller)
=============================================================================
