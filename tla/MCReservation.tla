--------------------------- MODULE MCReservation ---------------------------
(***************************************************************************)
(* A small instance of the reservations for TLC: two courts whose slots    *)
(* overlap by half an hour.                                                *)
(***************************************************************************)
EXTENDS Reservation

CONSTANTS r1, r2

\* One venue: bookings a day ahead, slots of an hour, one booking a day,
\* cancellation until two hours before (the default).
MCVenueReqs ==
  {[advanceDays |-> 1, slotMinutes |-> 0, dailyLimit |-> 1, cancelBefore |-> 0]}

MCTwoCourts == {[resource |-> r1, weekday |-> 1, start |-> 600, end |-> 690],
                [resource |-> r2, weekday |-> 1, start |-> 630, end |-> 750]}
============================================================================
