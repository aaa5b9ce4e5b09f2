---------------------------- MODULE Reservation ----------------------------
(***************************************************************************)
(* Venue reservations (src/internal/reservation): venues and their         *)
(* resources, weekly opening rules, slots generated on demand, bookings,   *)
(* closures, check-in and the no-show job.                                 *)
(*                                                                         *)
(* Transactions that lock what they read are single steps.  Two operations *)
(* are not: AvailableSlots asks for closures slot by slot and inserts the  *)
(* slots later, and the transaction of CreateBooking reads through the     *)
(* snapshot that its first plain SELECT takes (MySQL's default REPEATABLE  *)
(* READ), before it waits for the user's day lock and the slot.  Both are  *)
(* calls held by a worker.                                                 *)
(*                                                                         *)
(* Time is in minutes; the clock visits the instants of Times.             *)
(***************************************************************************)
EXTENDS Integers, FiniteSets

CONSTANTS Venues, Resources, Users, Bookings, Workers,
          VenueReqs,    \* requests for a venue: advanceDays, slotMinutes,
                        \* dailyLimit, cancelBefore (0 asks for the default)
          Capacities,   \* requested capacities (0 asks for the default)
          RuleReqs,     \* opening rules: resource, weekday, start, end
          ClosureReqs,  \* closures: venue or None, resource or None, start, end
          Dates,        \* days that are asked for; day 0 is a Monday
          Times,        \* instants the clock visits
          None

DayMinutes == 1440

ASSUME ConfigAssumption ==
  /\ VenueReqs \subseteq [advanceDays : Nat, slotMinutes : Nat,
                          dailyLimit : Nat, cancelBefore : Nat]
  /\ Capacities \subseteq Nat
  /\ RuleReqs \subseteq [resource : Resources, weekday : 1..7,
                         start : Int, end : Int]
  /\ ClosureReqs \subseteq [venue : Venues \cup {None},
                            resource : Resources \cup {None},
                            start : Nat, end : Nat]

ASSUME BoundAssumption ==
  /\ IsFiniteSet(Bookings)
  /\ Dates \subseteq Nat
  /\ Times \subseteq Nat /\ 0 \in Times

VARIABLES venues,     \* venue rows: their settings, None before they exist
          resources,  \* resource rows
          rules,      \* opening rules in force
          closures,   \* closures announced
          slots,      \* slot rows, by resource, start and end (unique key)
          bookings,   \* booking rows
          calls,      \* the call each worker is in
          now

config == <<venues, resources, rules>>
vars == <<venues, resources, rules, closures, slots, bookings, calls, now>>

----------------------------------------------------------------------------
(* Slots *)

Default(value, default) == IF value <= 0 THEN default ELSE value

\* The day an instant falls on.
dayStart(t) == t \div DayMinutes

\* The minutes of the day at which the slots of a rule start: the loop steps
\* by the slot's length and stops when the next slot would not fit.
SlotStarts(rule, len) ==
  {rule.start + k * len : k \in 0..((rule.end - rule.start) \div len - 1)}

RuleSlots(rule, date, len) ==
  {[resource |-> rule.resource, start |-> date * DayMinutes + minute,
    end |-> date * DayMinutes + minute + len] : minute \in SlotStarts(rule, len)}

Weekday(date) == (date % 7) + 1

SlotLengths == {Default(req.slotMinutes, 60) : req \in VenueReqs}

\* Every slot the rules of the instance can generate.
Slots == UNION {RuleSlots(rule, date, len) :
                  rule \in RuleReqs, date \in Dates, len \in SlotLengths}

ASSUME NoneAssumption ==
  /\ None \notin Venues \cup Resources \cup Slots
  /\ None \notin {"open", "closed"}
  /\ None \notin {"reserved", "cancelled", "closureCancelled", "checkedIn", "noShow"}

NoSlot == [status |-> None, capacity |-> 0, reserved |-> 0]
NoBooking == [status |-> None, user |-> None, slot |-> None]
Idle == [op |-> "idle"]

Overlap(a, b) == a.start < b.end /\ a.end > b.start

\* A closure of a resource concerns its slots, one of a venue all its resources.
Closes(closure, slot) ==
  /\ Overlap(closure, slot)
  /\ \/ closure.resource = slot.resource
     \/ /\ closure.resource = None
        /\ resources[slot.resource].venue = closure.venue

VenueOf(slot) == venues[resources[slot.resource].venue]

Init ==
  /\ venues = [v \in Venues |-> None]
  /\ resources = [r \in Resources |-> [venue |-> None, capacity |-> 0]]
  /\ rules = {}
  /\ closures = {}
  /\ slots = [s \in Slots |-> NoSlot]
  /\ bookings = [b \in Bookings |-> NoBooking]
  /\ calls = [w \in Workers |-> Idle]
  /\ now = 0

----------------------------------------------------------------------------
(* Administration *)

CreateVenue(v, req) ==
  /\ venues[v] = None
  /\ venues' = [venues EXCEPT ![v] =
        [advanceDays |-> Default(req.advanceDays, 7),
         slotMinutes |-> Default(req.slotMinutes, 60),
         dailyLimit |-> Default(req.dailyLimit, 2),
         cancelBefore |-> Default(req.cancelBefore, 120)]]
  /\ UNCHANGED <<resources, rules, closures, slots, bookings, calls, now>>

CreateResource(r, v, capacity) ==
  /\ resources[r].venue = None
  /\ resources' = [resources EXCEPT ![r] = [venue |-> v,
                                            capacity |-> Default(capacity, 1)]]
  /\ UNCHANGED <<venues, rules, closures, slots, bookings, calls, now>>

CreateRule(rule) ==
  /\ rule.start >= 0 /\ rule.end <= DayMinutes /\ rule.end > rule.start
  /\ rules' = rules \cup {rule}
  /\ UNCHANGED <<venues, resources, closures, slots, bookings, calls, now>>

Closed(slot) == [slots[slot] EXCEPT !.status = "closed", !.reserved = 0]

\* Bookings still reserved are cancelled, those checked in are kept.
CreateClosure(closure) ==
  LET hit == {s \in Slots : slots[s].status # None /\ Closes(closure, s)} IN
  /\ closure.venue # None \/ closure.resource # None
  /\ closure.end > closure.start
  /\ closures' = closures \cup {closure}
  /\ slots' = [s \in Slots |-> IF s \in hit THEN Closed(s) ELSE slots[s]]
  /\ bookings' = [b \in Bookings |->
        IF bookings[b].slot \in hit /\ bookings[b].status = "reserved"
        THEN [bookings[b] EXCEPT !.status = "closureCancelled"] ELSE bookings[b]]
  /\ UNCHANGED <<config, calls, now>>

----------------------------------------------------------------------------
(* Slots on demand *)

\* AvailableSlots for a resource and a day within the venue's horizon.
AvailableSlots(w, r, date) ==
  LET venue == venues[resources[r].venue]
      today == dayStart(now)
  IN
  /\ calls[w] = Idle
  /\ resources[r].venue # None /\ venue # None
  /\ today <= date /\ date <= today + venue.advanceDays
  /\ calls' = [calls EXCEPT ![w] =
        [op |-> "generate", open |-> {}, closed |-> {},
         todo |-> UNION {RuleSlots(rule, date, venue.slotMinutes) :
                           rule \in {x \in rules : x.resource = r
                                                   /\ x.weekday = Weekday(date)}}]]
  /\ UNCHANGED <<config, closures, slots, bookings, now>>

AddClosed(call, s) == [call EXCEPT !.todo = @ \ {s}, !.closed = @ \cup {s}]
AddOpen(call, s) == [call EXCEPT !.todo = @ \ {s}, !.open = @ \cup {s}]

\* Mutant: the closures are not asked.
HasNoClosure(w) ==
  /\ calls[w].op = "generate"
  /\ \E s \in calls[w].todo : calls' = [calls EXCEPT ![w] = AddOpen(calls[w], s)]
  /\ UNCHANGED <<config, closures, slots, bookings, now>>

\* One query per slot, in an order that does not matter.
HasClosure(w) ==
  /\ calls[w].op = "generate"
  /\ \E s \in calls[w].todo :
       IF \E c \in closures : Closes(c, s)
       THEN calls' = [calls EXCEPT ![w] = AddClosed(calls[w], s)]
       ELSE calls' = [calls EXCEPT ![w] = AddOpen(calls[w], s)]
  /\ UNCHANGED <<config, closures, slots, bookings, now>>

\* INSERT ... ON CONFLICT DO NOTHING
Insert(s, status) ==
  IF slots[s].status # None THEN slots[s]
  ELSE [status |-> status, capacity |-> resources[s.resource].capacity,
        reserved |-> 0]

EnsureSlots(w) ==
  /\ calls[w].op = "generate"
  /\ calls[w].todo = {}
  /\ slots' = [s \in Slots |-> IF s \in calls[w].open THEN Insert(s, "open")
                               ELSE IF s \in calls[w].closed THEN Insert(s, "closed")
                               ELSE slots[s]]
  /\ calls' = [calls EXCEPT ![w] = Idle]
  /\ UNCHANGED <<config, closures, bookings, now>>

----------------------------------------------------------------------------
(* Bookings *)

Valid == {"reserved", "checkedIn"}

\* The service reads the clock; the transaction's first SELECT takes the
\* snapshot in which it will look for the user's other bookings.
BeginBooking(w, u, s) ==
  /\ calls[w] = Idle
  /\ slots[s].status # None
  /\ calls' = [calls EXCEPT ![w] =
        [op |-> "book", user |-> u, slot |-> s, at |-> now,
         seen |-> {b \in Bookings : bookings[b].user = u
                                    /\ bookings[b].status \in Valid}]]
  /\ UNCHANGED <<config, closures, slots, bookings, now>>

\* Mutant: the counter may reach one more than the capacity.
AvailableAtCapacity(s, at) ==
  /\ slots[s].status = "open"
  /\ slots[s].reserved <= slots[s].capacity
  /\ s.start > at

Available(s, at) ==
  /\ slots[s].status = "open"
  /\ slots[s].reserved < slots[s].capacity
  /\ s.start > at

WithinHorizon(s, at) ==
  s.start < (dayStart(at) + VenueOf(s).advanceDays + 1) * DayMinutes

Allowed(s, seen) ==
  /\ Cardinality({b \in seen : dayStart(bookings[b].slot.start) = dayStart(s.start)})
       < VenueOf(s).dailyLimit
  /\ \A b \in seen : ~Overlap(bookings[b].slot, s)

\* The rest of the transaction, once the day lock and the slot are locked.
CreateBooking(w) ==
  LET s == calls[w].slot IN
  /\ calls[w].op = "book"
  /\ IF /\ Available(s, calls[w].at)
        /\ WithinHorizon(s, calls[w].at)
        /\ Allowed(s, calls[w].seen)
     THEN /\ \E b \in Bookings :
               /\ bookings[b].status = None
               /\ bookings' = [bookings EXCEPT ![b] =
                     [status |-> "reserved", user |-> calls[w].user, slot |-> s]]
          /\ slots' = [slots EXCEPT ![s].reserved = @ + 1]
     ELSE UNCHANGED <<slots, bookings>>
  /\ calls' = [calls EXCEPT ![w] = Idle]
  /\ UNCHANGED <<config, closures, now>>

Cancellable(b) == bookings[b].status = "reserved"

CancelBooking(b) ==
  LET s == bookings[b].slot IN
  /\ Cancellable(b)
  /\ now < s.start - VenueOf(s).cancelBefore
  /\ slots[s].reserved > 0
  /\ bookings' = [bookings EXCEPT ![b].status = "cancelled"]
  /\ slots' = [slots EXCEPT ![s].reserved = @ - 1]
  /\ UNCHANGED <<config, closures, calls, now>>

\* The check-in code of a booking is presented.
Checkin(b) ==
  /\ bookings[b].status = "reserved"
  /\ bookings' = [bookings EXCEPT ![b].status = "checkedIn"]
  /\ UNCHANGED <<config, closures, slots, calls, now>>

\* Mutant: a slot has to be over for a while.
OverSince(b) == bookings[b].status = "reserved" /\ bookings[b].slot.end < now

Over(b) == bookings[b].status = "reserved" /\ bookings[b].slot.end <= now

\* The job passes over rows that another transaction has locked.
MarkNoShows ==
  \E due \in SUBSET {b \in Bookings : Over(b)} :
    /\ due # {}
    /\ bookings' = [b \in Bookings |->
          IF b \in due THEN [bookings[b] EXCEPT !.status = "noShow"] ELSE bookings[b]]
    /\ UNCHANGED <<config, closures, slots, calls, now>>

----------------------------------------------------------------------------

\* A call is lost: the process stops, or the database gives up on it.
LoseCall(w) ==
  /\ calls[w] # Idle
  /\ calls' = [calls EXCEPT ![w] = Idle]
  /\ UNCHANGED <<config, closures, slots, bookings, now>>

Tick ==
  /\ \E t \in Times : t > now /\ now' = t
  /\ UNCHANGED <<config, closures, slots, bookings, calls>>

Next ==
  \/ \E v \in Venues, req \in VenueReqs : CreateVenue(v, req)
  \/ \E r \in Resources, v \in Venues, n \in Capacities : CreateResource(r, v, n)
  \/ \E rule \in RuleReqs : CreateRule(rule)
  \/ \E closure \in ClosureReqs : CreateClosure(closure)
  \/ \E w \in Workers :
       \/ \E r \in Resources, date \in Dates : AvailableSlots(w, r, date)
       \/ HasClosure(w) \/ EnsureSlots(w)
       \/ \E u \in Users, s \in Slots : BeginBooking(w, u, s)
       \/ CreateBooking(w)
       \/ LoseCall(w)
  \/ \E b \in Bookings : CancelBooking(b) \/ Checkin(b)
  \/ MarkNoShows
  \/ Tick

Spec == Init /\ [][Next]_vars

\* Time passes and the minute job keeps running.
FairSpec == Spec /\ WF_vars(Tick) /\ WF_vars(MarkNoShows)
----------------------------------------------------------------------------
(* Properties *)

VenueRows == [advanceDays : Nat, slotMinutes : SlotLengths, dailyLimit : Nat,
              cancelBefore : Nat]
SlotRows == [status : {"open", "closed"}, capacity : Nat, reserved : Nat]
BookingRows == [status : {"reserved", "cancelled", "closureCancelled",
                          "checkedIn", "noShow"},
                user : Users, slot : Slots]
GenerateCalls == [op : {"generate"}, todo : SUBSET Slots, open : SUBSET Slots,
                  closed : SUBSET Slots]
BookCalls == [op : {"book"}, user : Users, slot : Slots, at : Nat,
              seen : SUBSET Bookings]

\* Every table holds rows of its schema, and calls work on known rows.
TypeOK ==
  /\ venues \in [Venues -> VenueRows \cup {None}]
  /\ resources \in [Resources -> [venue : Venues \cup {None}, capacity : Nat]]
  /\ rules \subseteq RuleReqs
  /\ closures \subseteq ClosureReqs
  /\ slots \in [Slots -> SlotRows \cup {NoSlot}]
  /\ bookings \in [Bookings -> BookingRows \cup {NoBooking}]
  /\ calls \in [Workers -> {Idle} \cup GenerateCalls \cup BookCalls]
  /\ now \in Nat

\* The bookings that take a place of a slot: cancelling gives the place back,
\* checking in and not showing up do not.
Holders(s) == {b \in Bookings : bookings[b].slot = s
                 /\ bookings[b].status \in {"reserved", "checkedIn", "noShow"}}

\* A slot is never oversold, whatever bookings, cancellations, closures,
\* check-ins and the job do at the same time: at most capacity bookings hold
\* a place in it.
NeverOversold ==
  \A s \in Slots : Cardinality(Holders(s)) <= slots[s].capacity

\* reserved_count is the number of places held while the slot is open; a
\* closed slot counts none and nobody is left waiting for it.
InventoryAgrees ==
  \A s \in Slots :
    /\ slots[s].status = "open" => slots[s].reserved = Cardinality(Holders(s))
    /\ slots[s].status = "closed" =>
         /\ slots[s].reserved = 0
         /\ \A b \in Holders(s) : bookings[b].status # "reserved"

\* A booking leaves "reserved" once, for one of the four documented outcomes,
\* and never changes user or slot: a check-in code works once.
BookingMachine ==
  [][\A b \in Bookings : bookings[b].status # None /\ bookings'[b] # bookings[b] =>
       /\ bookings[b].status = "reserved"
       /\ bookings'[b].status \in {"checkedIn", "cancelled", "closureCancelled", "noShow"}
       /\ bookings'[b].user = bookings[b].user
       /\ bookings'[b].slot = bookings[b].slot]_vars

\* A slot that is closed stays closed with no booking added, and a slot's
\* capacity never changes: generating slots again does not reopen them.
ClosedForGood ==
  [][\A s \in Slots :
       /\ slots[s].status = "closed" =>
            slots'[s].status = "closed" /\ Holders(s)' \subseteq Holders(s)
       /\ slots[s].status # None => slots'[s].capacity = slots[s].capacity]_vars

\* Some rule for the slot's resource and weekday is open all through the slot.
InHours(s) ==
  \E rule \in rules :
    /\ rule.resource = s.resource
    /\ rule.weekday = Weekday(dayStart(s.start))
    /\ dayStart(s.start) * DayMinutes + rule.start <= s.start
    /\ s.end <= dayStart(s.start) * DayMinutes + rule.end

\* A slot lies within the opening hours of a rule for its resource and
\* weekday: the last one generated does not run past closing time.
WithinOpeningHours == \A s \in Slots : slots[s].status # None => InHours(s)

\* The limits on one user: no two valid bookings overlap, and a day holds no
\* more of them than the venue of the latest one allows.
PersonalLimits ==
  \A u \in Users :
    LET own == {b \in Bookings : bookings[b].user = u /\ bookings[b].status \in Valid}
    IN  /\ \A b, c \in own : b # c => ~Overlap(bookings[b].slot, bookings[c].slot)
        /\ \A b \in own :
             LET sameDay == {x \in own : dayStart(bookings[x].slot.start)
                                           = dayStart(bookings[b].slot.start)}
             IN  \E c \in sameDay :
                   Cardinality(sameDay) <= VenueOf(bookings[c].slot).dailyLimit

\* A booking whose slot is over does not stay reserved: it was used, cancelled
\* or becomes a no-show.  (Slots that end after the last instant are left out.)
NoShowsAreMarked ==
  \A b \in Bookings :
    (bookings[b].status = "reserved" /\ \E t \in Times : bookings[b].slot.end <= t)
      ~> (bookings[b].status # "reserved")
----------------------------------------------------------------------------
(* The inductive invariant behind the safety properties *)

\* A slot that is not there has no bookings, and no slot counts more places
\* than it has.
IInv ==
  /\ TypeOK /\ InventoryAgrees /\ NeverOversold
  /\ \A s \in Slots :
       slots[s].status = None => \A b \in Bookings : bookings[b].slot # s
  /\ \A w \in Workers : calls[w].op = "book" => slots[calls[w].slot].status # None
============================================================================
