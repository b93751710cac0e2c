----------------------------- MODULE MCBooking -----------------------------
(***************************************************************************)
(* The TLC instance of Booking; MCBooking.cfg gives the constants.         *)
(* Nothing tells two claims apart before they are made, so they are made   *)
(* in the order of their numbers.                                          *)
(***************************************************************************)
EXTENDS Booking, Naturals

MCInOrder == \A q, r \in Session : q < r /\ claim[r] # "new" => claim[q] # "new"

MCBookingSpec == BookingInit /\ [][BookingNext /\ MCInOrder']_bookingVars /\ BookingFairness
=============================================================================
