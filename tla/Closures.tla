------------------------------ MODULE Closures ------------------------------
(***************************************************************************)
(* Closures and the slots that are offered: the reservations, with a       *)
(* history of the slots that a closure overtook.                           *)
(***************************************************************************)
EXTENDS Reservation

VARIABLE missed    \* history: slots found open by a listing that a closure overtook

closureVars == <<vars, missed>>

\* A closure is announced between a listing's query and its insert.
Overtaken(w, s) ==
  /\ calls[w].op = "generate" /\ s \in calls[w].open
  /\ \E c \in closures' \ closures : Closes(c, s)

ClosuresNext ==
  /\ Next
  /\ missed' = missed \cup {s \in Slots : \E w \in Workers : Overtaken(w, s)}

ClosuresSpec == Init /\ missed = {} /\ [][ClosuresNext]_closureVars

\* No slot that a closure concerns is offered: it was closed with the closure
\* or is generated closed, whichever came first.  The exception is the gap that
\* AvailableSlots leaves between asking for closures and inserting the slots.
ClosuresHold ==
  \A s \in Slots :
    slots[s].status = "open" /\ (\E c \in closures : Closes(c, s)) => s \in missed
============================================================================
