-------------------------- MODULE MCVenuesReports --------------------------
(***************************************************************************)
(* Reservations and moderation in one instance.  They share no state: each *)
(* behaviour exercises one part, so their state spaces add up instead of   *)
(* multiplying.                                                            *)
(*                                                                         *)
(*   inventory  two users and two workers contend for one court that       *)
(*              closures may close                                         *)
(*   limits     one user, one worker, two courts with overlapping hours:   *)
(*              what the user may book, and when                           *)
(*   reports    two handlers, two administrators, one report               *)
(***************************************************************************)
EXTENDS Closures, Moderation, TLC

CONSTANTS v1, c1, c2, u1, u2, w1, w2, b1, b2, b3, t1, m1, h1, h2, a1, a2

VARIABLE part

\* One venue: bookings a day ahead, slots of an hour, one booking a day,
\* cancellation until two hours before (the default).
MCVenueReqs ==
  {[advanceDays |-> 1, slotMinutes |-> 0, dailyLimit |-> 1, cancelBefore |-> 0]}

\* Two courts whose slots overlap by half an hour; half past eleven is too
\* late for a second slot, and a rule that ends before it starts is refused.
MCTwoCourts == {[resource |-> c1, weekday |-> 1, start |-> 600, end |-> 690],
                [resource |-> c2, weekday |-> 1, start |-> 630, end |-> 750],
                [resource |-> c2, weekday |-> 1, start |-> 720, end |-> 660]}

\* The venue for the morning, or the court for a while.
MCClosures == {[venue |-> v1, resource |-> None, start |-> 540, end |-> 660],
               [venue |-> None, resource |-> c1, start |-> 630, end |-> 640]}

MCTargetOf == [r \in Reports |-> t1]
MCOwnerOf == [t \in Targets |-> m1]

----------------------------------------------------------------------------

\* Bookings are numbered in the order they are made; the second worker is
\* taken while the first is busy.
Ordered ==
  /\ bookings[b1].status = None => bookings'[b2].status = None
  /\ bookings[b2].status = None => bookings'[b3].status = None
  /\ calls[w2] = Idle /\ calls[w1] = Idle => calls'[w2] = Idle

Reserve == ClosuresNext /\ Ordered

Books(u) == \E w \in Workers : calls'[w].op = "book" /\ calls'[w].user = u

\* The second user books after the first has begun to.
Inventory ==
  /\ Reserve
  /\ resources'[c2] = resources[c2] /\ now' # 600 /\ bookings'[b3].status = None
  /\ Books(u2) => Books(u1) \/ bookings[b1].status # None

Limits == Reserve /\ closures' = {} /\ calls'[w2] = Idle /\ ~Books(u2) /\ now' # 480

\* The second handler is taken while the first is busy.
Report == /\ ModerationNext
          /\ handling[h2] = Free /\ handling[h1] = Free => handling'[h2] = Free

MCInit == /\ Init /\ ModerationInit
          /\ missed = {} /\ part \in {"inventory", "limits", "reports"}

Reserving(A) == part # "reports" /\ A /\ UNCHANGED <<moderationVars, part>>
Moderating(A) == part = "reports" /\ A /\ UNCHANGED <<vars, part>>

MCNext == \/ part = "inventory" /\ Reserving(Inventory)
          \/ part = "limits" /\ Reserving(Limits)
          \/ Moderating(Report) /\ UNCHANGED missed

mcVars == <<vars, moderationVars, part, missed>>

\* FairSpec and ModerationFairSpec, each in its part.
MCSpec ==
  /\ MCInit /\ [][MCNext]_mcVars
  /\ WF_mcVars(Reserving(Tick /\ UNCHANGED missed))
  /\ WF_mcVars(Reserving(MarkNoShows /\ UNCHANGED missed))
  /\ WF_mcVars(Moderating(PassTime /\ UNCHANGED missed))
  /\ \A h \in Handlers :
       WF_mcVars(Moderating((Steps(h) \/ LoseHandler(h)) /\ UNCHANGED missed))
============================================================================
