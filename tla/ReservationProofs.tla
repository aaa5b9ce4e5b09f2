------------------------- MODULE ReservationProofs -------------------------
(***************************************************************************)
(* Proofs about Reservation, and about Closures which adds a history to    *)
(* it, for any number of venues, resources, slots, users, bookings and     *)
(* workers: slots are never oversold, reserved_count agrees with the       *)
(* bookings and a slot that a closure concerns is not offered, however     *)
(* bookings, cancellations, closures, slot generation, check-ins and the   *)
(* no-show job interleave.                                                 *)
(***************************************************************************)
EXTENDS Closures, FiniteSetTheorems, TLAPS

----------------------------------------------------------------------------
(* The parts of the invariant *)

Booking ==
  \A w \in Workers : calls[w].op = "book" => slots[calls[w].slot].status # None

Holding == {"reserved", "checkedIn", "noShow"}

\* What is known of one slot: its status, its counter and who holds a place.
SlotOK(s) ==
  /\ Cardinality(Holders(s)) <= slots[s].capacity
  /\ slots[s].status = "open" => slots[s].reserved = Cardinality(Holders(s))
  /\ slots[s].status = "closed" =>
       /\ slots[s].reserved = 0
       /\ \A b \in Holders(s) : bookings[b].status # "reserved"
  /\ slots[s].status = None => \A b \in Bookings : bookings[b].slot # s

\* The inductive invariant, slot by slot.
LEMMA InvariantBySlot ==
  IInv <=> TypeOK /\ Booking /\ \A s \in Slots : SlotOK(s)
BY Zenon DEF IInv, InventoryAgrees, NeverOversold, SlotOK, Booking

\* The holders of a slot are finitely many bookings.
LEMMA HoldersFinite ==
  ASSUME NEW s \in Slots
  PROVE  /\ Holders(s) \subseteq Bookings
         /\ IsFiniteSet(Holders(s))
         /\ Cardinality(Holders(s)) \in Nat
<1>1. Holders(s) \subseteq Bookings
  BY Zenon DEF Holders
<1>2. IsFiniteSet(Holders(s))
  BY <1>1, BoundAssumption, FS_Subset, Zenon
<1>3. Cardinality(Holders(s)) \in Nat
  BY <1>2, FS_CardinalityType, Zenon
<1> QED BY <1>1, <1>2, <1>3, Zenon

\* A slot whose row and holders do not change stays as it was.
LEMMA SlotKept ==
  ASSUME NEW s \in Slots, SlotOK(s), slots'[s] = slots[s],
         \A b \in Bookings : bookings'[b] = bookings[b] \/
           /\ bookings[b].slot = s <=> bookings'[b].slot = s
           /\ bookings[b].slot = s =>
                /\ bookings[b].status \in Holding <=> bookings'[b].status \in Holding
                /\ bookings'[b].status = "reserved" => bookings[b].status = "reserved"
  PROVE  SlotOK(s)'
<1>1. Holders(s)' = Holders(s)
  BY Zenon DEF Holders, Holding
<1> QED BY <1>1, Zenon DEF SlotOK, Holders

----------------------------------------------------------------------------
(* Typing of the calls *)

\* A call is idle, generates slots or books one.
LEMMA CallKinds ==
  ASSUME TypeOK, NEW w \in Workers
  PROVE  /\ calls[w].op = "generate" => calls[w] \in GenerateCalls
         /\ calls[w].op = "book" => calls[w] \in BookCalls
<1>1. Idle.op = "idle"
  BY Zenon DEF Idle
<1>2. \A c \in GenerateCalls : c.op = "generate"
  BY Zenon DEF GenerateCalls
<1>3. \A c \in BookCalls : c.op = "book"
  BY Zenon DEF BookCalls
<1>4. calls[w] \in {Idle} \cup GenerateCalls \cup BookCalls
  BY Zenon DEF TypeOK
<1> QED BY <1>1, <1>2, <1>3, <1>4, Zenon

\* Checkin and MarkNoShows keep a booking's row and its slot.
LEMMA BookingMarked ==
  ASSUME NEW row \in BookingRows, NEW status \in {"checkedIn", "noShow"}
  PROVE  /\ [row EXCEPT !.status = status] \in BookingRows
         /\ [row EXCEPT !.status = status].slot = row.slot
  BY Zenon DEF BookingRows

\* HasClosure moves one slot of the call and adds none.
LEMMA SlotsMoved ==
  ASSUME NEW call \in GenerateCalls, NEW t \in call.todo,
         NEW next \in {AddClosed(call, t), AddOpen(call, t)}
  PROVE  next.todo \cup next.open \cup next.closed
           \subseteq call.todo \cup call.open \cup call.closed
<1>1. CASE next = AddClosed(call, t)
  <2>1. next.todo = call.todo \ {t} /\ next.open = call.open /\ next.closed = call.closed \cup {t}
    BY <1>1, Zenon DEF AddClosed, GenerateCalls
  <2> QED BY <2>1, Zenon
<1>2. CASE next = AddOpen(call, t)
  <2>1. next.todo = call.todo \ {t} /\ next.open = call.open \cup {t} /\ next.closed = call.closed
    BY <1>2, Zenon DEF AddOpen, GenerateCalls
  <2> QED BY <2>1, Zenon
<1> QED BY <1>1, <1>2, Zenon

\* A slot or a booking with a status is a row.
LEMMA RowsExist ==
  ASSUME TypeOK
  PROVE  /\ \A s \in Slots : slots[s].status # None => slots[s] \in SlotRows
         /\ \A b \in Bookings : bookings[b].status # None => bookings[b] \in BookingRows
<1>1. NoSlot.status = None
  BY Zenon DEF NoSlot
<1>2. NoBooking.status = None
  BY Zenon DEF NoBooking
<1>3. slots \in [Slots -> SlotRows \cup {NoSlot}]
  BY Zenon DEF TypeOK
<1>4. bookings \in [Bookings -> BookingRows \cup {NoBooking}]
  BY Zenon DEF TypeOK
<1> QED BY <1>1, <1>2, <1>3, <1>4, Zenon

\* The row of a slot that exists has a status and natural numbers.
LEMMA SlotFields ==
  ASSUME TypeOK, NEW s \in Slots, slots[s].status # None
  PROVE  /\ slots[s] \in SlotRows
         /\ slots[s].status \in {"open", "closed"}
         /\ slots[s].capacity \in Nat
         /\ slots[s].reserved \in Nat
<1>1. slots[s] \in SlotRows
  BY RowsExist, Zenon
<1> QED BY <1>1, Zenon DEF SlotRows

\* The step of CreateBooking that makes the booking b.
Books(w, b) ==
  LET s == calls[w].slot IN
  /\ slots[s].status = "open"
  /\ slots[s].reserved < slots[s].capacity
  /\ bookings[b].status = None
  /\ bookings' = [bookings EXCEPT ![b] =
        [status |-> "reserved", user |-> calls[w].user, slot |-> s]]
  /\ slots' = [slots EXCEPT ![s].reserved = @ + 1]

\* CreateBooking makes one booking in a slot with a free place, or none.
LEMMA BookingBooks ==
  ASSUME NEW w \in Workers, CreateBooking(w)
  PROVE  (\E b \in Bookings : Books(w, b)) \/ UNCHANGED <<slots, bookings>>
BY Zenon DEF CreateBooking, Available, Books

----------------------------------------------------------------------------
(* Every action preserves the types *)

\* Slots that exist keep their rows, others appear empty.
LEMMA InsertRow ==
  ASSUME TypeOK, NEW s \in Slots, NEW status \in {"open", "closed"}
  PROVE  /\ Insert(s, status) \in SlotRows
         /\ slots[s].status # None => Insert(s, status) = slots[s]
         /\ slots[s].status = None => /\ Insert(s, status).status = status
                                      /\ Insert(s, status).reserved = 0
<1>1. s.resource \in Resources
  BY ConfigAssumption DEF Slots, RuleSlots
<1>2. resources[s.resource].capacity \in Nat
  BY <1>1, Zenon DEF TypeOK
<1>3. [status |-> status, capacity |-> resources[s.resource].capacity, reserved |-> 0]
        \in SlotRows
  BY <1>2, Zenon DEF SlotRows
<1> QED BY <1>3, RowsExist, Zenon DEF Insert

\* A defaulted number is natural.
LEMMA DefaultType ==
  ASSUME NEW value \in Nat, NEW default \in Nat
  PROVE  Default(value, default) \in Nat
BY Zenon DEF Default

\* The administrator's operations preserve TypeOK.
LEMMA TypeConfig ==
  ASSUME TypeOK,
         \/ \E v \in Venues, req \in VenueReqs : CreateVenue(v, req)
         \/ \E r \in Resources, v \in Venues, n \in Capacities : CreateResource(r, v, n)
         \/ \E rule \in RuleReqs : CreateRule(rule)
  PROVE  TypeOK'
<1>1. ASSUME NEW v \in Venues, NEW req \in VenueReqs, CreateVenue(v, req)
      PROVE  TypeOK'
  <2>1. /\ req.advanceDays \in Nat /\ req.dailyLimit \in Nat /\ req.cancelBefore \in Nat
    BY ConfigAssumption, Zenon
  <2>2. /\ Default(req.advanceDays, 7) \in Nat
        /\ Default(req.dailyLimit, 2) \in Nat
        /\ Default(req.cancelBefore, 120) \in Nat
    BY <2>1, DefaultType, Zenon
  <2>3. Default(req.slotMinutes, 60) \in SlotLengths
    BY Zenon DEF SlotLengths
  <2>4. [advanceDays |-> Default(req.advanceDays, 7),
         slotMinutes |-> Default(req.slotMinutes, 60),
         dailyLimit |-> Default(req.dailyLimit, 2),
         cancelBefore |-> Default(req.cancelBefore, 120)] \in VenueRows
    BY <2>2, <2>3, Zenon DEF VenueRows
  <2> QED BY <1>1, <2>4, Zenon DEF CreateVenue, TypeOK
<1>2. ASSUME NEW r \in Resources, NEW v \in Venues, NEW n \in Capacities, CreateResource(r, v, n)
      PROVE  TypeOK'
  <2>1. Default(n, 1) \in Nat
    BY DefaultType, ConfigAssumption, Zenon
  <2> QED BY <1>2, <2>1, Zenon DEF CreateResource, TypeOK
<1>3. ASSUME NEW rule \in RuleReqs, CreateRule(rule)
      PROVE  TypeOK'
  BY <1>3, Zenon DEF CreateRule, TypeOK
<1> QED BY <1>1, <1>2, <1>3, Zenon

\* Generating slots preserves TypeOK.
LEMMA TypeGenerate ==
  ASSUME TypeOK, NEW w \in Workers,
         \/ \E r \in Resources, date \in Dates : AvailableSlots(w, r, date)
         \/ HasClosure(w) \/ EnsureSlots(w)
  PROVE  TypeOK'
<1>1. ASSUME NEW r \in Resources, NEW date \in Dates, AvailableSlots(w, r, date)
      PROVE  TypeOK'
  <2> DEFINE len == venues[resources[r].venue].slotMinutes
             todo == UNION {RuleSlots(rule, date, len) :
                              rule \in {x \in rules : x.resource = r
                                                      /\ x.weekday = Weekday(date)}}
  <2>1. resources[r].venue \in Venues
    BY <1>1, Zenon DEF AvailableSlots, TypeOK
  <2>2. venues[resources[r].venue] \in VenueRows
    BY <1>1, <2>1, Zenon DEF AvailableSlots, TypeOK
  <2>3. len \in SlotLengths
    BY <2>2, Zenon DEF VenueRows
  <2>4. todo \subseteq Slots
    BY <2>3 DEF Slots, TypeOK
  <2>5. [op |-> "generate", open |-> {}, closed |-> {}, todo |-> todo] \in GenerateCalls
    BY <2>4, Zenon DEF GenerateCalls
  <2> QED BY <1>1, <2>5, Zenon DEF AvailableSlots, TypeOK, config
<1>2. ASSUME HasClosure(w)
      PROVE  TypeOK'
  <2>1. calls[w] \in GenerateCalls
    BY <1>2, CallKinds, Zenon DEF HasClosure
  <2>2. PICK s \in calls[w].todo :
          \/ calls' = [calls EXCEPT ![w] = AddClosed(calls[w], s)]
          \/ calls' = [calls EXCEPT ![w] = AddOpen(calls[w], s)]
    BY <1>2, Zenon DEF HasClosure
  <2>3. s \in Slots
    BY <2>1, Zenon DEF GenerateCalls
  <2>4. AddClosed(calls[w], s) \in GenerateCalls /\ AddOpen(calls[w], s) \in GenerateCalls
    BY <2>1, <2>3, Zenon DEF GenerateCalls, AddClosed, AddOpen
  <2>5. calls' \in [Workers -> {Idle} \cup GenerateCalls \cup BookCalls]
    BY <2>2, <2>4, Zenon DEF TypeOK
  <2> QED BY <1>2, <2>5, Zenon DEF HasClosure, TypeOK, config
<1>3. ASSUME EnsureSlots(w)
      PROVE  TypeOK'
  <2>1. slots' \in [Slots -> SlotRows \cup {NoSlot}]
    BY <1>3, InsertRow, Zenon DEF EnsureSlots, TypeOK
  <2> QED BY <1>3, <2>1, Zenon DEF EnsureSlots, TypeOK, config
<1> QED BY <1>1, <1>2, <1>3, Zenon

\* Booking, and losing a call, preserve TypeOK.
LEMMA TypeBooking ==
  ASSUME TypeOK, NEW w \in Workers,
         \/ \E u \in Users, s \in Slots : BeginBooking(w, u, s)
         \/ CreateBooking(w) \/ LoseCall(w)
  PROVE  TypeOK'
<1>1. ASSUME NEW u \in Users, NEW s \in Slots, BeginBooking(w, u, s)
      PROVE  TypeOK'
  <2> DEFINE seen == {b \in Bookings : bookings[b].user = u /\ bookings[b].status \in Valid}
  <2>1. [op |-> "book", user |-> u, slot |-> s, at |-> now, seen |-> seen] \in BookCalls
    BY Zenon DEF BookCalls, TypeOK
  <2> QED BY <1>1, <2>1, Zenon DEF BeginBooking, TypeOK, config
<1>2. ASSUME CreateBooking(w)
      PROVE  TypeOK'
  <2>1. calls' \in [Workers -> {Idle} \cup GenerateCalls \cup BookCalls]
    BY <1>2, Zenon DEF CreateBooking, TypeOK
  <2>2. CASE UNCHANGED <<slots, bookings>>
    BY <1>2, <2>1, <2>2, Zenon DEF CreateBooking, TypeOK, config
  <2>3. ASSUME NEW b \in Bookings, Books(w, b)
        PROVE  TypeOK'
    <3>1. calls[w] \in BookCalls
      BY <1>2, CallKinds, Zenon DEF CreateBooking
    <3>2. calls[w].slot \in Slots /\ calls[w].user \in Users
      BY <3>1, Zenon DEF BookCalls
    <3>3. [status |-> "reserved", user |-> calls[w].user, slot |-> calls[w].slot]
            \in BookingRows
      BY <3>2, Zenon DEF BookingRows
    <3>4. bookings' \in [Bookings -> BookingRows \cup {NoBooking}]
      BY <2>3, <3>3, Zenon DEF Books, TypeOK
    <3>5. slots[calls[w].slot] \in SlotRows
      BY <2>3, <3>2, RowsExist, NoneAssumption, Zenon DEF Books
    <3>6. [slots[calls[w].slot] EXCEPT !.reserved = @ + 1] \in SlotRows
      BY <3>5 DEF SlotRows
    <3>7. slots' \in [Slots -> SlotRows \cup {NoSlot}]
      BY <2>3, <3>6, Zenon DEF Books, TypeOK
    <3> QED BY <1>2, <2>1, <3>4, <3>7, Zenon DEF CreateBooking, TypeOK, config
  <2> QED BY <1>2, <2>2, <2>3, BookingBooks, Zenon
<1>3. ASSUME LoseCall(w)
      PROVE  TypeOK'
  BY <1>3, Zenon DEF LoseCall, TypeOK, config
<1> QED BY <1>1, <1>2, <1>3, Zenon

\* Operations on one booking, the job and the clock preserve TypeOK.
LEMMA TypeOutcome ==
  ASSUME TypeOK,
         \/ \E b \in Bookings : CancelBooking(b) \/ Checkin(b)
         \/ MarkNoShows \/ Tick
  PROVE  TypeOK'
<1>1. ASSUME NEW b \in Bookings, NEW status \in {"cancelled", "checkedIn", "noShow", "closureCancelled"},
             bookings[b].status = "reserved"
      PROVE  [bookings[b] EXCEPT !.status = status] \in BookingRows
  <2>1. bookings[b] \in BookingRows
    BY <1>1, RowsExist, NoneAssumption, Zenon
  <2> QED BY <2>1, Zenon DEF BookingRows
<1>2. ASSUME NEW b \in Bookings, CancelBooking(b)
      PROVE  TypeOK'
  <2> DEFINE s == bookings[b].slot
  <2>1. bookings[b].status = "reserved"
    BY <1>2, Zenon DEF CancelBooking, Cancellable
  <2>2. bookings' \in [Bookings -> BookingRows \cup {NoBooking}]
    BY <1>1, <1>2, <2>1, Zenon DEF CancelBooking, TypeOK
  <2>3. bookings[b] \in BookingRows
    BY <2>1, RowsExist, NoneAssumption, Zenon
  <2>4. s \in Slots
    BY <2>3, Zenon DEF BookingRows
  <2>5. [slots[s] EXCEPT !.reserved = @ - 1] \in SlotRows
    <3>1. slots[s] \in SlotRows \cup {NoSlot}
      BY <2>4, Zenon DEF TypeOK
    <3>2. slots[s].reserved > 0
      BY <1>2, Zenon DEF CancelBooking
    <3>3. slots[s] \in SlotRows
      BY <3>1, <3>2 DEF NoSlot
    <3> QED BY <3>2, <3>3 DEF SlotRows
  <2>6. slots' \in [Slots -> SlotRows \cup {NoSlot}]
    BY <1>2, <2>4, <2>5, Zenon DEF CancelBooking, TypeOK
  <2> QED BY <1>2, <2>2, <2>6, Zenon DEF CancelBooking, TypeOK, config
<1>3. ASSUME NEW b \in Bookings, Checkin(b)
      PROVE  TypeOK'
  BY <1>1, <1>3, Zenon DEF Checkin, TypeOK, config
<1>4. CASE MarkNoShows
  <2>1. ASSUME NEW b \in Bookings, Over(b)
        PROVE  [bookings[b] EXCEPT !.status = "noShow"] \in BookingRows
    <3>1. bookings[b] \in BookingRows
      BY <1>1, <2>1, RowsExist, NoneAssumption, Zenon DEF Over
    <3> QED BY <3>1, BookingMarked, Zenon
  <2>2. bookings' \in [Bookings -> BookingRows \cup {NoBooking}]
    BY <1>1, <1>4, <2>1, Zenon DEF MarkNoShows, TypeOK
  <2> QED BY <1>4, <2>2, Zenon DEF MarkNoShows, TypeOK, config
<1>5. CASE Tick
  BY <1>5, BoundAssumption, Zenon DEF Tick, TypeOK, config
<1> QED BY <1>2, <1>3, <1>4, <1>5, Zenon

\* A closure preserves TypeOK.
LEMMA TypeClosure ==
  ASSUME TypeOK, NEW closure \in ClosureReqs, CreateClosure(closure)
  PROVE  TypeOK'
<1>1. ASSUME NEW s \in Slots, slots[s].status # None
      PROVE  Closed(s) \in SlotRows
  <2>1. slots[s] \in SlotRows
    BY <1>1, RowsExist, Zenon
  <2> QED BY <2>1, Zenon DEF Closed, SlotRows
<1>2. slots' \in [Slots -> SlotRows \cup {NoSlot}]
  BY <1>1, Zenon DEF CreateClosure, TypeOK
<1>3. ASSUME NEW b \in Bookings, bookings[b].status = "reserved"
      PROVE  [bookings[b] EXCEPT !.status = "closureCancelled"] \in BookingRows
  <2>1. bookings[b] \in BookingRows
    BY <1>3, RowsExist, NoneAssumption, Zenon
  <2> QED BY <2>1, Zenon DEF BookingRows
<1>4. bookings' \in [Bookings -> BookingRows \cup {NoBooking}]
  BY <1>3, Zenon DEF CreateClosure, TypeOK
<1> QED BY <1>2, <1>4, Zenon DEF CreateClosure, TypeOK, config

----------------------------------------------------------------------------
(* Every action preserves what is known of the slots *)

\* Generating slots: the ones that appear are empty.
LEMMA SlotsGenerated ==
  ASSUME TypeOK, NEW w \in Workers, EnsureSlots(w), \A s \in Slots : SlotOK(s)
  PROVE  \A s \in Slots : SlotOK(s)'
<1> SUFFICES ASSUME NEW s \in Slots
             PROVE  SlotOK(s)'
  OBVIOUS
<1>0. SlotOK(s)
  OBVIOUS
<1>1. bookings' = bookings
  BY Zenon DEF EnsureSlots
<1>2. CASE slots'[s] = slots[s]
  BY <1>0, <1>1, <1>2, SlotKept, Zenon
<1>3. CASE slots'[s] # slots[s]
  <2>1. PICK status \in {"open", "closed"} : slots'[s] = Insert(s, status)
    BY <1>3, Zenon DEF EnsureSlots, TypeOK
  <2>2. slots[s].status = None
    BY <1>3, <2>1, InsertRow, Zenon
  <2>3. \A b \in Bookings : bookings'[b].slot # s
    BY <1>0, <1>1, <2>2, Zenon DEF SlotOK
  <2>4. Holders(s)' = {}
    BY <2>3, Zenon DEF Holders
  <2>5. Cardinality({}) = 0
    BY FS_EmptySet, Zenon
  <2>6. /\ slots'[s] \in SlotRows
        /\ slots'[s].status = status
        /\ slots'[s].reserved = 0
    BY <2>1, <2>2, InsertRow, Zenon
  <2>7. slots'[s].capacity \in Nat
    BY <2>6, Zenon DEF SlotRows
  <2> QED BY <2>3, <2>4, <2>5, <2>6, <2>7 DEF SlotOK
<1> QED BY <1>2, <1>3, Zenon

\* Taking a place changes the counter of the row and nothing else of it.
LEMMA OneMore ==
  ASSUME NEW row \in SlotRows
  PROVE  /\ [row EXCEPT !.reserved = @ + 1].status = row.status
         /\ [row EXCEPT !.reserved = @ + 1].capacity = row.capacity
         /\ [row EXCEPT !.reserved = @ + 1].reserved = row.reserved + 1
BY DEF SlotRows

\* A booking takes a free place.
LEMMA SlotsBooked ==
  ASSUME TypeOK, NEW w \in Workers, CreateBooking(w), NEW b \in Bookings, Books(w, b),
         \A s \in Slots : SlotOK(s)
  PROVE  \A s \in Slots : SlotOK(s)'
<1> DEFINE t == calls[w].slot
<1>1. calls[w] \in BookCalls
  BY CallKinds, Zenon DEF CreateBooking
<1>2. t \in Slots
  BY <1>1, Zenon DEF BookCalls
<1>3. /\ slots[t].status = "open"
      /\ slots[t].reserved < slots[t].capacity
      /\ bookings[b].status = None
      /\ bookings' = [bookings EXCEPT ![b] =
            [status |-> "reserved", user |-> calls[w].user, slot |-> t]]
      /\ slots' = [slots EXCEPT ![t].reserved = @ + 1]
  BY Zenon DEF Books
<1>4. /\ slots[t] \in SlotRows /\ slots[t].capacity \in Nat /\ slots[t].reserved \in Nat
  BY <1>2, <1>3, SlotFields, NoneAssumption, Zenon
<1>5. /\ bookings'[b].status = "reserved" /\ bookings'[b].slot = t
      /\ \A c \in Bookings : c # b => bookings'[c] = bookings[c]
  BY <1>3, Zenon DEF TypeOK
<1>6. bookings[b] = NoBooking
  <2>1. bookings[b] \in BookingRows \cup {NoBooking}
    BY Zenon DEF TypeOK
  <2>2. \A row \in BookingRows : row.status # None
    BY NoneAssumption, Zenon DEF BookingRows
  <2> QED BY <1>3, <2>1, <2>2, Zenon
<1>7. bookings[b].slot \notin Slots
  <2>1. bookings[b].slot = None
    BY <1>6 DEF NoBooking
  <2> QED BY <2>1, NoneAssumption, Zenon
<1> SUFFICES ASSUME NEW s \in Slots
             PROVE  SlotOK(s)'
  OBVIOUS
<1>8. SlotOK(s)
  OBVIOUS
<1>9. CASE s # t
  <2>1. slots'[s] = slots[s]
    BY <1>3, <1>9, Zenon DEF TypeOK
  <2> QED BY <1>5, <1>7, <1>8, <1>9, <2>1, SlotKept, Zenon
<1>10. CASE s = t
  <2>1. b \notin Holders(s)
    BY <1>3, NoneAssumption, Zenon DEF Holders
  <2>2. Holders(s)' = Holders(s) \cup {b}
    BY <1>5, <1>10, Zenon DEF Holders
  <2>3. Cardinality(Holders(s)') = Cardinality(Holders(s)) + 1
    BY <2>1, <2>2, HoldersFinite, FS_AddElement, Zenon
  <2>4. slots'[s] = [slots[s] EXCEPT !.reserved = @ + 1]
    BY <1>2, <1>3, <1>10, Zenon DEF TypeOK
  <2>5. /\ slots'[s].status = "open"
        /\ slots'[s].capacity = slots[s].capacity
        /\ slots'[s].reserved = slots[s].reserved + 1
    <3>1. slots[s] \in SlotRows /\ slots[s].status = "open"
      BY <1>3, <1>4, <1>10, Zenon
    <3> QED BY <2>4, <3>1, OneMore, Zenon
  <2>6. slots[s].reserved = Cardinality(Holders(s))
    BY <1>3, <1>8, <1>10, Zenon DEF SlotOK
  <2>7. Cardinality(Holders(s)') <= slots'[s].capacity
    BY <1>3, <1>4, <1>10, <2>3, <2>5, <2>6
  <2>8. slots'[s].reserved = Cardinality(Holders(s)')
    BY <2>3, <2>5, <2>6, Zenon
  <2> QED BY <2>5, <2>7, <2>8, NoneAssumption, Zenon DEF SlotOK
<1> QED BY <1>9, <1>10, Zenon

\* A cancellation gives a place back.
LEMMA SlotsCancelled ==
  ASSUME TypeOK, NEW b \in Bookings, CancelBooking(b), \A s \in Slots : SlotOK(s)
  PROVE  \A s \in Slots : SlotOK(s)'
<1> DEFINE t == bookings[b].slot
<1>1. /\ bookings[b].status = "reserved"
      /\ slots[t].reserved > 0
      /\ bookings' = [bookings EXCEPT ![b].status = "cancelled"]
      /\ slots' = [slots EXCEPT ![t].reserved = @ - 1]
  BY Zenon DEF CancelBooking, Cancellable
<1>2. bookings[b] \in BookingRows
  BY <1>1, RowsExist, NoneAssumption, Zenon
<1>3. t \in Slots
  BY <1>2, Zenon DEF BookingRows
<1>4. /\ bookings'[b].status = "cancelled" /\ bookings'[b].slot = t
      /\ \A c \in Bookings : c # b => bookings'[c] = bookings[c]
  BY <1>1, <1>2, Zenon DEF TypeOK, BookingRows
<1>5. SlotOK(t)
  BY <1>3, Zenon
<1>6. b \in Holders(t)
  BY <1>1, Zenon DEF Holders
<1>7. slots[t].status = "open"
  <2>1. slots[t].status # None
    BY <1>5, Zenon DEF SlotOK
  <2>2. slots[t].status # "closed"
    BY <1>1, <1>5, <1>6, Zenon DEF SlotOK
  <2> QED BY <1>3, <2>1, <2>2, SlotFields, Zenon
<1>8. slots[t] \in SlotRows /\ slots[t].capacity \in Nat /\ slots[t].reserved \in Nat
  BY <1>3, <1>7, SlotFields, NoneAssumption, Zenon
<1> SUFFICES ASSUME NEW s \in Slots
             PROVE  SlotOK(s)'
  OBVIOUS
<1>9. CASE s # t
  <2>1. slots'[s] = slots[s]
    BY <1>1, <1>9, Zenon DEF TypeOK
  <2>2. SlotOK(s)
    OBVIOUS
  <2> QED BY <1>4, <1>9, <2>1, <2>2, SlotKept, Zenon
<1>10. CASE s = t
  <2>1. Holders(s)' = Holders(s) \ {b}
    BY <1>4, <1>10, Zenon DEF Holders
  <2>2. Cardinality(Holders(s)') = Cardinality(Holders(s)) - 1
    BY <1>6, <1>10, <2>1, HoldersFinite, FS_RemoveElement, Zenon
  <2>3. slots'[s] = [slots[s] EXCEPT !.reserved = @ - 1]
    BY <1>1, <1>3, <1>10, Zenon DEF TypeOK
  <2>4. /\ slots'[s].status = "open"
        /\ slots'[s].capacity = slots[s].capacity
        /\ slots'[s].reserved = slots[s].reserved - 1
    BY <1>7, <1>8, <1>10, <2>3, Zenon DEF SlotRows
  <2>5. /\ slots[s].reserved = Cardinality(Holders(s))
        /\ Cardinality(Holders(s)) <= slots[s].capacity
    BY <1>5, <1>7, <1>10, Zenon DEF SlotOK
  <2>6. Cardinality(Holders(s)') <= slots'[s].capacity
    BY <1>8, <1>10, <2>2, <2>4, <2>5
  <2>7. slots'[s].reserved = Cardinality(Holders(s)')
    BY <2>2, <2>4, <2>5, Zenon
  <2> QED BY <2>4, <2>6, <2>7, NoneAssumption, Zenon DEF SlotOK
<1> QED BY <1>9, <1>10, Zenon

\* A closure empties the slots it hits of waiting bookings.
LEMMA SlotsClosed ==
  ASSUME TypeOK, NEW closure \in ClosureReqs, CreateClosure(closure),
         \A s \in Slots : SlotOK(s)
  PROVE  \A s \in Slots : SlotOK(s)'
<1> DEFINE hit == {s \in Slots : slots[s].status # None /\ Closes(closure, s)}
<1>1. /\ slots' = [s \in Slots |-> IF s \in hit THEN Closed(s) ELSE slots[s]]
      /\ bookings' = [b \in Bookings |->
            IF bookings[b].slot \in hit /\ bookings[b].status = "reserved"
            THEN [bookings[b] EXCEPT !.status = "closureCancelled"] ELSE bookings[b]]
  BY Zenon DEF CreateClosure
<1> HIDE DEF hit
<1>2. ASSUME NEW b \in Bookings
      PROVE  /\ bookings'[b].slot = bookings[b].slot
             /\ bookings'[b] = bookings[b] \/ /\ bookings'[b].status = "closureCancelled"
                                              /\ bookings[b].slot \in hit
             /\ bookings[b].slot \in hit => bookings'[b].status # "reserved"
  <2>1. CASE bookings[b].slot \in hit /\ bookings[b].status = "reserved"
    <3>1. bookings[b] \in BookingRows
      BY <2>1, RowsExist, NoneAssumption, Zenon
    <3>2. bookings'[b] = [bookings[b] EXCEPT !.status = "closureCancelled"]
      BY <1>1, <2>1, Zenon
    <3> QED BY <2>1, <3>1, <3>2, Zenon DEF BookingRows
  <2>2. CASE ~(bookings[b].slot \in hit /\ bookings[b].status = "reserved")
    BY <1>1, <2>2, Zenon
  <2> QED BY <2>1, <2>2, Zenon
<1> SUFFICES ASSUME NEW s \in Slots
             PROVE  SlotOK(s)'
  OBVIOUS
<1>3. SlotOK(s)
  OBVIOUS
<1>4. CASE s \notin hit
  <2>1. slots'[s] = slots[s]
    BY <1>1, <1>4, Zenon
  <2> QED BY <1>2, <1>3, <1>4, <2>1, SlotKept, Zenon
<1>5. CASE s \in hit
  <2>1. Holders(s)' \subseteq Holders(s)
    BY <1>2, Zenon DEF Holders
  <2>2. /\ Cardinality(Holders(s)') <= Cardinality(Holders(s))
        /\ Cardinality(Holders(s)') \in Nat
    BY <2>1, HoldersFinite, FS_Subset, FS_CardinalityType, Zenon
  <2>3. slots[s].status # None
    BY <1>5, Zenon DEF hit
  <2>4. slots[s] \in SlotRows /\ slots[s].capacity \in Nat
    BY <2>3, SlotFields, Zenon
  <2>5. slots'[s] = Closed(s)
    BY <1>1, <1>5, Zenon
  <2>6. /\ slots'[s].status = "closed"
        /\ slots'[s].capacity = slots[s].capacity
        /\ slots'[s].reserved = 0
    BY <2>4, <2>5, Zenon DEF Closed, SlotRows
  <2>7. Cardinality(Holders(s)') <= slots'[s].capacity
    BY <1>3, <2>2, <2>4, <2>6, HoldersFinite DEF SlotOK
  <2>8. \A b \in Holders(s)' : bookings'[b].status # "reserved"
    BY <1>2, <1>5, Zenon DEF Holders
  <2> QED BY <2>6, <2>7, <2>8, NoneAssumption, Zenon DEF SlotOK
<1> QED BY <1>4, <1>5, Zenon

\* Checking in and not showing up keep the place.
LEMMA SlotsUsed ==
  ASSUME TypeOK, (\E b \in Bookings : Checkin(b)) \/ MarkNoShows, \A s \in Slots : SlotOK(s)
  PROVE  \A s \in Slots : SlotOK(s)'
<1>1. slots' = slots
  BY Zenon DEF Checkin, MarkNoShows
<1>2. ASSUME NEW b \in Bookings, NEW status \in {"checkedIn", "noShow"},
             bookings[b].status = "reserved",
             bookings'[b] = [bookings[b] EXCEPT !.status = status]
      PROVE  /\ bookings'[b].slot = bookings[b].slot
             /\ bookings[b].status \in Holding /\ bookings'[b].status \in Holding
             /\ bookings'[b].status # "reserved"
  <2>1. bookings[b] \in BookingRows
    BY <1>2, RowsExist, NoneAssumption, Zenon
  <2> QED BY <1>2, <2>1, Zenon DEF BookingRows, Holding
<1>3. ASSUME NEW b \in Bookings, bookings'[b] # bookings[b]
      PROVE  /\ bookings'[b].slot = bookings[b].slot
             /\ bookings[b].status \in Holding /\ bookings'[b].status \in Holding
             /\ bookings'[b].status # "reserved"
  <2>1. ASSUME NEW c \in Bookings, Checkin(c)
        PROVE  /\ bookings[b].status = "reserved"
               /\ bookings'[b] = [bookings[b] EXCEPT !.status = "checkedIn"]
    BY <1>3, <2>1, Zenon DEF Checkin, TypeOK
  <2>2. ASSUME MarkNoShows
        PROVE  /\ bookings[b].status = "reserved"
               /\ bookings'[b] = [bookings[b] EXCEPT !.status = "noShow"]
    BY <1>3, <2>2, Zenon DEF MarkNoShows, Over
  <2> QED BY <1>2, <2>1, <2>2, Zenon
<1> QED BY <1>1, <1>3, SlotKept, Zenon

----------------------------------------------------------------------------
(* Results *)

\* The inductive invariant holds initially.
LEMMA InitIInv == Init => IInv
<1> SUFFICES ASSUME Init
             PROVE  TypeOK /\ Booking /\ \A s \in Slots : SlotOK(s)
  BY InvariantBySlot, Zenon
<1>1. TypeOK
  BY BoundAssumption, Zenon DEF Init, TypeOK
<1>2. Booking
  BY Zenon DEF Init, Booking, Idle
<1>3. ASSUME NEW s \in Slots
      PROVE  SlotOK(s)
  <2>1. \A b \in Bookings : bookings[b].slot # s /\ bookings[b].status = None
    BY NoneAssumption, Zenon DEF Init, NoBooking
  <2>2. Holders(s) = {}
    BY <2>1, Zenon DEF Holders
  <2>3. Cardinality({}) = 0
    BY FS_EmptySet, Zenon
  <2>4. slots[s].status = None /\ slots[s].capacity = 0 /\ slots[s].reserved = 0
    BY Zenon DEF Init, NoSlot
  <2> QED BY <2>1, <2>2, <2>3, <2>4, NoneAssumption DEF SlotOK
<1> QED BY <1>1, <1>2, <1>3, Zenon

\* The steps that change slots or bookings.
LEMMA StepKinds ==
  ASSUME [Next]_vars
  PROVE  \/ UNCHANGED <<slots, bookings>>
         \/ \E w \in Workers : EnsureSlots(w) \/ CreateBooking(w)
         \/ \E b \in Bookings : CancelBooking(b) \/ Checkin(b)
         \/ MarkNoShows
         \/ \E closure \in ClosureReqs : CreateClosure(closure)
<1>1. CASE UNCHANGED vars \/ Tick
  BY <1>1, Zenon DEF vars, Tick
<1>2. CASE \/ \E v \in Venues, req \in VenueReqs : CreateVenue(v, req)
           \/ \E r \in Resources, v \in Venues, n \in Capacities : CreateResource(r, v, n)
           \/ \E rule \in RuleReqs : CreateRule(rule)
  BY <1>2, Zenon DEF CreateVenue, CreateResource, CreateRule
<1>3. CASE \E w \in Workers :
             \/ \E r \in Resources, date \in Dates : AvailableSlots(w, r, date)
             \/ HasClosure(w)
             \/ \E u \in Users, s \in Slots : BeginBooking(w, u, s)
             \/ LoseCall(w)
  BY <1>3, Zenon DEF AvailableSlots, HasClosure, BeginBooking, LoseCall
<1> QED BY <1>1, <1>2, <1>3, Zenon DEF Next

\* A worker comes to be booking by beginning to.
LEMMA BeginStep ==
  ASSUME TypeOK, [Next]_vars, NEW w \in Workers, calls'[w].op = "book"
  PROVE  calls'[w] = calls[w] \/ \E u \in Users, s \in Slots : BeginBooking(w, u, s)
<1>1. CASE UNCHANGED calls
  BY <1>1, Zenon
<1>2. ASSUME NEW v \in Workers, NEW call, calls' = [calls EXCEPT ![v] = call],
             call.op # "book"
      PROVE  calls'[w] = calls[w]
  BY <1>2, Zenon DEF TypeOK
<1>3. Idle.op # "book"
  BY Zenon DEF Idle
<1>4. ASSUME NEW v \in Workers, EnsureSlots(v) \/ CreateBooking(v) \/ LoseCall(v)
      PROVE  calls'[w] = calls[w]
  BY <1>2, <1>3, <1>4, Zenon DEF EnsureSlots, CreateBooking, LoseCall
<1>5. ASSUME NEW v \in Workers, HasClosure(v)
      PROVE  calls'[w] = calls[w]
  <2>1. calls[v] \in GenerateCalls
    BY <1>5, CallKinds, Zenon DEF HasClosure
  <2>2. \A s : AddClosed(calls[v], s).op # "book" /\ AddOpen(calls[v], s).op # "book"
    BY <2>1, Zenon DEF GenerateCalls, AddClosed, AddOpen
  <2>3. \E s : \/ calls' = [calls EXCEPT ![v] = AddClosed(calls[v], s)]
               \/ calls' = [calls EXCEPT ![v] = AddOpen(calls[v], s)]
    BY <1>5, Zenon DEF HasClosure
  <2> QED BY <1>2, <2>2, <2>3, Zenon
<1>6. ASSUME NEW v \in Workers, NEW r \in Resources, NEW date \in Dates,
             AvailableSlots(v, r, date)
      PROVE  calls'[w] = calls[w]
  BY <1>2, <1>6 DEF AvailableSlots
<1>7. ASSUME NEW v \in Workers, NEW u \in Users, NEW s \in Slots, BeginBooking(v, u, s), v # w
      PROVE  calls'[w] = calls[w]
  BY <1>7, Zenon DEF BeginBooking, TypeOK
<1>8. CASE \/ UNCHANGED vars \/ Tick \/ MarkNoShows
           \/ \E b \in Bookings : CancelBooking(b) \/ Checkin(b)
           \/ \E closure \in ClosureReqs : CreateClosure(closure)
           \/ \E v \in Venues, req \in VenueReqs : CreateVenue(v, req)
           \/ \E r \in Resources, v \in Venues, n \in Capacities : CreateResource(r, v, n)
           \/ \E rule \in RuleReqs : CreateRule(rule)
  BY <1>8, Zenon DEF vars, Tick, MarkNoShows, CancelBooking, Checkin, CreateClosure, CreateVenue,
     CreateResource, CreateRule
<1> QED BY <1>4, <1>5, <1>6, <1>7, <1>8, Zenon DEF Next

\* A slot in a booking call exists and goes on existing.
LEMMA BookingStep ==
  ASSUME TypeOK, Booking, [Next]_vars
  PROVE  Booking'
<1>1. ASSUME NEW s \in Slots, slots[s].status # None
      PROVE  slots'[s].status # None
  <2>1. CASE slots'[s] = slots[s]
    BY <1>1, <2>1, Zenon
  <2>2. ASSUME NEW w \in Workers, EnsureSlots(w)
        PROVE  slots'[s] = slots[s]
    BY <1>1, <2>2, InsertRow, Zenon DEF EnsureSlots
  <2>3. slots[s] \in SlotRows
    BY <1>1, SlotFields, Zenon
  <2>4. ASSUME NEW n, slots'[s] = [slots[s] EXCEPT !.reserved = n]
        PROVE  slots'[s].status # None
    BY <1>1, <2>3, <2>4, Zenon DEF SlotRows
  <2>5. ASSUME slots'[s] = Closed(s)
        PROVE  slots'[s].status # None
    BY <2>3, <2>5, NoneAssumption, Zenon DEF SlotRows, Closed
  <2>6. ASSUME NEW w \in Workers, CreateBooking(w)
        PROVE  \/ slots'[s] = slots[s]
               \/ slots'[s] = [slots[s] EXCEPT !.reserved = slots[s].reserved + 1]
    BY <2>6, Zenon DEF CreateBooking, TypeOK
  <2>7. ASSUME NEW b \in Bookings, CancelBooking(b)
        PROVE  \/ slots'[s] = slots[s]
               \/ slots'[s] = [slots[s] EXCEPT !.reserved = slots[s].reserved - 1]
    BY <2>7, Zenon DEF CancelBooking, TypeOK
  <2>8. ASSUME NEW closure \in ClosureReqs, CreateClosure(closure)
        PROVE  slots'[s] = slots[s] \/ slots'[s] = Closed(s)
    BY <2>8, Zenon DEF CreateClosure
  <2> QED BY <2>1, <2>2, <2>4, <2>5, <2>6, <2>7, <2>8, StepKinds, Zenon
         DEF Checkin, MarkNoShows
<1>2. ASSUME NEW w \in Workers, calls'[w].op = "book"
      PROVE  slots'[calls'[w].slot].status # None
  <2>1. CASE calls'[w] = calls[w]
    <3>1. calls[w] \in BookCalls
      BY <1>2, <2>1, CallKinds, Zenon
    <3>2. calls[w].slot \in Slots
      BY <3>1, Zenon DEF BookCalls
    <3> QED BY <1>1, <1>2, <2>1, <3>2, Zenon DEF Booking
  <2>2. ASSUME NEW u \in Users, NEW s \in Slots, BeginBooking(w, u, s)
        PROVE  slots'[calls'[w].slot].status # None
    <3>1. calls'[w].slot = s
      BY <2>2, Zenon DEF BeginBooking, TypeOK
    <3> QED BY <1>1, <2>2, <3>1, Zenon DEF BeginBooking
  <2> QED BY <1>2, <2>1, <2>2, BeginStep, Zenon
<1> QED BY <1>2, Zenon DEF Booking

\* Every step preserves the inductive invariant.
LEMMA NextIInv == IInv /\ [Next]_vars => IInv'
<1> SUFFICES ASSUME IInv, [Next]_vars
             PROVE  IInv'
  OBVIOUS
<1>1. TypeOK /\ Booking /\ \A s \in Slots : SlotOK(s)
  BY InvariantBySlot, Zenon
<1>2. TypeOK'
  <2>1. CASE UNCHANGED vars
    BY <1>1, <2>1, Zenon DEF TypeOK, vars
  <2> QED BY <1>1, <2>1, TypeConfig, TypeGenerate, TypeBooking, TypeOutcome, TypeClosure, Zenon DEF Next
<1>3. Booking'
  BY <1>1, BookingStep, Zenon
<1>4. \A s \in Slots : SlotOK(s)'
  <2>1. CASE UNCHANGED <<slots, bookings>>
    BY <1>1, <2>1, SlotKept, Zenon
  <2>2. ASSUME NEW w \in Workers, CreateBooking(w)
        PROVE  \A s \in Slots : SlotOK(s)'
    BY <1>1, <2>1, <2>2, BookingBooks, SlotsBooked, Zenon
  <2> QED BY <1>1, <2>1, <2>2, SlotsGenerated, SlotsCancelled, SlotsUsed, SlotsClosed, StepKinds, Zenon
<1>5. (TypeOK /\ Booking /\ \A s \in Slots : SlotOK(s))'
  BY <1>2, <1>3, <1>4, Zenon
<1> QED BY <1>5, InvariantBySlot, PTL

\* The inductive invariant holds in every reachable state.
THEOREM Invariance == Spec => []IInv
BY InitIInv, NextIInv, PTL DEF Spec

\* Slots are never oversold (CreateBooking's checks under the slot's lock).
THEOREM SlotsAreNeverOversold == Spec => []NeverOversold
<1>1. IInv => NeverOversold
  BY Zenon DEF IInv
<1> QED BY <1>1, Invariance, PTL

\* reserved_count agrees with the bookings of the slot, and a closed slot is
\* left with none that wait for it.
THEOREM CountersAgree == Spec => []InventoryAgrees
<1>1. IInv => InventoryAgrees
  BY Zenon DEF IInv
<1> QED BY <1>1, Invariance, PTL

\* Every step takes bookings along the documented machine.
THEOREM BookingsFollowTheMachine == Spec => BookingMachine
<1>1. ASSUME IInv, [Next]_vars, NEW b \in Bookings, bookings[b].status # None,
             bookings'[b] # bookings[b]
      PROVE  /\ bookings[b].status = "reserved"
             /\ bookings'[b].status \in {"checkedIn", "cancelled", "closureCancelled", "noShow"}
             /\ bookings'[b].user = bookings[b].user
             /\ bookings'[b].slot = bookings[b].slot
  <2>0. TypeOK
    BY <1>1, Zenon DEF IInv
  <2>1. bookings[b] \in BookingRows
    BY <1>1, <2>0, RowsExist, Zenon
  <2>2. \E status \in {"checkedIn", "cancelled", "closureCancelled", "noShow"} :
          /\ bookings[b].status = "reserved"
          /\ bookings'[b] = [bookings[b] EXCEPT !.status = status]
    <3>1. CASE \E w \in Workers : EnsureSlots(w) \/ CreateBooking(w)
      BY <1>1, <2>0, <3>1, BookingBooks, Zenon DEF EnsureSlots, Books, TypeOK
    <3>2. CASE \E c \in Bookings : CancelBooking(c) \/ Checkin(c)
      BY <1>1, <2>0, <3>2 DEF CancelBooking, Cancellable, Checkin, TypeOK
    <3>3. CASE MarkNoShows
      BY <1>1, <3>3, Zenon DEF MarkNoShows, Over
    <3>4. CASE \E closure \in ClosureReqs : CreateClosure(closure)
      BY <1>1, <3>4, Zenon DEF CreateClosure
    <3> QED BY <1>1, <3>1, <3>2, <3>3, <3>4, StepKinds, Zenon
  <2> QED BY <2>1, <2>2, Zenon DEF BookingRows
<1>2. IInv /\ [Next]_vars =>
        [\A b \in Bookings : bookings[b].status # None /\ bookings'[b] # bookings[b] =>
           /\ bookings[b].status = "reserved"
           /\ bookings'[b].status \in {"checkedIn", "cancelled", "closureCancelled", "noShow"}
           /\ bookings'[b].user = bookings[b].user
           /\ bookings'[b].slot = bookings[b].slot]_vars
  BY <1>1, Zenon
<1> QED BY <1>2, Invariance, PTL DEF Spec, BookingMachine

\* A closed slot stays closed and gets no booking, and capacities are fixed.
THEOREM ClosedSlotsStayClosed == Spec => ClosedForGood
<1>1. ASSUME IInv, [Next]_vars, NEW s \in Slots, slots[s].status # None
      PROVE  /\ slots'[s].capacity = slots[s].capacity
             /\ slots[s].status = "closed" => slots'[s].status = "closed"
             /\ slots[s].status = "closed" => Holders(s)' \subseteq Holders(s)
  <2>0. TypeOK /\ SlotOK(s)
    BY <1>1, InvariantBySlot, Zenon
  <2>1. slots[s] \in SlotRows
    BY <1>1, <2>0, RowsExist, Zenon
  <2>2. CASE UNCHANGED <<slots, bookings>>
    BY <2>2, Zenon DEF Holders
  <2>3. ASSUME NEW w \in Workers, EnsureSlots(w)
        PROVE  slots'[s] = slots[s] /\ UNCHANGED bookings
    BY <1>1, <2>0, <2>3, InsertRow, Zenon DEF EnsureSlots
  <2>4. ASSUME NEW w \in Workers, CreateBooking(w), NEW b \in Bookings, Books(w, b)
        PROVE  /\ slots'[s].capacity = slots[s].capacity
               /\ slots'[s].status = slots[s].status
               /\ slots[s].status = "closed" => Holders(s)' \subseteq Holders(s)
    <3>1. calls[w] \in BookCalls
      BY <2>0, <2>4, CallKinds, Zenon DEF CreateBooking
    <3>2. calls[w].slot \in Slots
      BY <3>1, Zenon DEF BookCalls
    <3>3. CASE s = calls[w].slot
      <4>1. slots'[s] = [slots[s] EXCEPT !.reserved = @ + 1] /\ slots[s].status = "open"
        BY <2>0, <2>4, <3>2, <3>3, Zenon DEF Books, TypeOK
      <4> QED BY <2>1, <4>1, Zenon DEF SlotRows
    <3>4. CASE s # calls[w].slot
      <4>1. slots'[s] = slots[s]
        BY <2>0, <2>4, <3>4, Zenon DEF Books, TypeOK
      <4>2. \A c \in Bookings : bookings'[c] = bookings[c] \/ bookings'[c].slot # s
        BY <2>0, <2>4, <3>4, Zenon DEF Books, TypeOK
      <4> QED BY <4>1, <4>2, Zenon DEF Holders
    <3> QED BY <3>3, <3>4, Zenon
  <2>5. ASSUME NEW b \in Bookings, CancelBooking(b)
        PROVE  /\ slots'[s].capacity = slots[s].capacity
               /\ slots'[s].status = slots[s].status
               /\ slots[s].status = "closed" => Holders(s)' \subseteq Holders(s)
    <3>1. \/ slots'[s] = slots[s]
          \/ slots'[s] = [slots[s] EXCEPT !.reserved = slots[s].reserved - 1]
      BY <2>0, <2>5, Zenon DEF CancelBooking, TypeOK
    <3>2. slots'[s].capacity = slots[s].capacity /\ slots'[s].status = slots[s].status
      BY <2>1, <3>1, Zenon DEF SlotRows
    <3>3. bookings[b] \in BookingRows
      BY <2>0, <2>5, RowsExist, NoneAssumption, Zenon DEF CancelBooking, Cancellable
    <3>4. /\ bookings'[b].status = "cancelled"
          /\ \A c \in Bookings : c # b => bookings'[c] = bookings[c]
      BY <2>0, <2>5, <3>3, Zenon DEF CancelBooking, TypeOK, BookingRows
    <3>5. Holders(s)' \subseteq Holders(s)
      BY <3>4, Zenon DEF Holders
    <3> QED BY <3>2, <3>5, Zenon
  <2>6. ASSUME (\E b \in Bookings : Checkin(b)) \/ MarkNoShows
        PROVE  UNCHANGED slots /\ Holders(s)' \subseteq Holders(s)
    <3>1. ASSUME NEW b \in Bookings, bookings'[b] # bookings[b]
          PROVE  /\ bookings[b].status = "reserved"
                 /\ \E status \in {"checkedIn", "noShow"} :
                      bookings'[b] = [bookings[b] EXCEPT !.status = status]
      BY <2>0, <2>6, <3>1, Zenon DEF Checkin, MarkNoShows, Over, TypeOK
    <3>2. ASSUME NEW b \in Bookings, bookings'[b] # bookings[b]
          PROVE  bookings'[b].slot = bookings[b].slot /\ bookings[b].status = "reserved"
      <4>1. bookings[b] \in BookingRows
        BY <2>0, <3>1, <3>2, RowsExist, NoneAssumption, Zenon
      <4>2. PICK status \in {"checkedIn", "noShow"} :
              bookings'[b] = [bookings[b] EXCEPT !.status = status]
        BY <3>1, <3>2, Zenon
      <4>3. [bookings[b] EXCEPT !.status = status].slot = bookings[b].slot
        BY <4>1, BookingMarked, Zenon
      <4>4. bookings[b].status = "reserved"
        BY <3>1, <3>2, Zenon
      <4> QED BY <4>2, <4>3, <4>4, Zenon
    <3> QED BY <2>6, <3>2, Zenon DEF Checkin, MarkNoShows, Holders
  <2>7. ASSUME NEW closure \in ClosureReqs, CreateClosure(closure)
        PROVE  /\ slots'[s].capacity = slots[s].capacity
               /\ slots[s].status = "closed" => slots'[s].status = "closed"
               /\ Holders(s)' \subseteq Holders(s)
    <3>1. slots'[s] = slots[s] \/ slots'[s] = Closed(s)
      BY <2>7, Zenon DEF CreateClosure
    <3>2. /\ slots'[s].capacity = slots[s].capacity
          /\ slots[s].status = "closed" => slots'[s].status = "closed"
      BY <2>1, <3>1, Zenon DEF Closed, SlotRows
    <3>3. ASSUME NEW b \in Bookings, bookings'[b] # bookings[b]
          PROVE  bookings'[b].status = "closureCancelled"
      <4>1. /\ bookings[b].status = "reserved"
            /\ bookings'[b] = [bookings[b] EXCEPT !.status = "closureCancelled"]
        BY <2>7, <3>3, Zenon DEF CreateClosure
      <4>2. bookings[b] \in BookingRows
        BY <2>0, <4>1, RowsExist, NoneAssumption, Zenon
      <4> QED BY <4>1, <4>2, Zenon DEF BookingRows
    <3>4. Holders(s)' \subseteq Holders(s)
      BY <3>3, Zenon DEF Holders
    <3> QED BY <3>2, <3>4, Zenon
  <2>8. CASE \E w \in Workers : EnsureSlots(w)
    BY <2>3, <2>8, Zenon DEF Holders
  <2>9. CASE \E w \in Workers : CreateBooking(w)
    BY <2>2, <2>4, <2>9, BookingBooks, Zenon
  <2> QED BY <1>1, <2>2, <2>5, <2>6, <2>7, <2>8, <2>9, StepKinds, Zenon
<1>2. IInv /\ [Next]_vars =>
        [\A s \in Slots :
           /\ slots[s].status = "closed" =>
                slots'[s].status = "closed" /\ Holders(s)' \subseteq Holders(s)
           /\ slots[s].status # None => slots'[s].capacity = slots[s].capacity]_vars
  BY <1>1, NoneAssumption, Zenon
<1> QED BY <1>2, Invariance, PTL DEF Spec, ClosedForGood

----------------------------------------------------------------------------
(* Opening hours *)

\* A slot on a date, within the hours of a rule for its resource.
Inside(rule, date, s) ==
  /\ rule.resource = s.resource
  /\ dayStart(s.start) = date
  /\ date * DayMinutes + rule.start <= s.start
  /\ s.end <= date * DayMinutes + rule.end

\* The slots of a rule start and end within its hours, on the day asked for.
LEMMA SlotInRule ==
  ASSUME NEW rule \in RuleReqs, rule.start >= 0, rule.end <= DayMinutes,
         NEW date \in Nat, NEW len \in Nat \ {0}, NEW s \in RuleSlots(rule, date, len)
  PROVE  Inside(rule, date, s)
<1>1. rule.start \in Int /\ rule.end \in Int
  BY ConfigAssumption, Zenon
<1>2. PICK q \in Int : q = (rule.end - rule.start) \div len
  BY <1>1
<1>3. PICK k \in 0 .. (q - 1) :
        s = [resource |-> rule.resource, start |-> date * DayMinutes + (rule.start + k * len),
             end |-> date * DayMinutes + (rule.start + k * len) + len]
  BY <1>2, Zenon DEF RuleSlots, SlotStarts
<1>4. q * len <= rule.end - rule.start
  BY <1>1, <1>2
<1>5. PICK m \in Int : m = k * len
  BY <1>3
<1>6. 0 <= m /\ m + len <= q * len
  <2>1. k * len >= 0 /\ (q - 1 - k) * len >= 0
    BY <1>3
  <2>2. (q - 1 - k) * len = q * len - len - k * len
    BY <1>3
  <2> QED BY <1>5, <2>1, <2>2
<1>7. rule.start + m >= 0 /\ rule.start + m < DayMinutes /\ rule.start + m + len <= rule.end
  BY <1>1, <1>4, <1>6 DEF DayMinutes
<1>8. /\ s.resource = rule.resource /\ s.start = date * DayMinutes + (rule.start + m)
      /\ s.end = date * DayMinutes + (rule.start + m) + len
  BY <1>3, <1>5, Zenon
<1>9. dayStart(s.start) = date
  BY <1>1, <1>7, <1>8 DEF dayStart, DayMinutes
<1>10. date * DayMinutes + rule.start <= s.start /\ s.end <= date * DayMinutes + rule.end
  BY <1>1, <1>6, <1>7, <1>8 DEF DayMinutes
<1> QED BY <1>8, <1>9, <1>10, Zenon DEF Inside

\* A slot length is never zero (Default).
LEMMA LengthsArePositive == SlotLengths \subseteq Nat \ {0}
<1>1. \A req \in VenueReqs : req.slotMinutes \in Nat
  BY ConfigAssumption, Zenon
<1> QED BY <1>1 DEF SlotLengths, Default

\* Rules are within a day, and the slots that exist or are about to are within
\* their rules.
Hours ==
  /\ \A rule \in rules : rule.start >= 0 /\ rule.end <= DayMinutes
  /\ WithinOpeningHours
  /\ \A w \in Workers : calls[w].op = "generate" =>
       \A s \in calls[w].todo \cup calls[w].open \cup calls[w].closed : InHours(s)

\* No operation removes a rule, and CreateRule checks a new one.
LEMMA RulesGrow ==
  ASSUME [Next]_vars
  PROVE  rules' = rules \/ \E rule \in RuleReqs : CreateRule(rule)
BY Zenon DEF Next, vars, Tick, MarkNoShows, CancelBooking, Checkin, CreateClosure, CreateVenue,
   CreateResource, AvailableSlots, HasClosure, EnsureSlots, BeginBooking, CreateBooking,
   LoseCall, config

\* A worker comes to be generating by asking for a day, and goes on slot by slot.
LEMMA GenerateStep ==
  ASSUME TypeOK, [Next]_vars, NEW w \in Workers, calls'[w].op = "generate"
  PROVE  \/ calls'[w] = calls[w]
         \/ \E r \in Resources, date \in Dates : AvailableSlots(w, r, date)
         \/ HasClosure(w)
<1>1. ASSUME NEW v \in Workers, NEW call, calls' = [calls EXCEPT ![v] = call],
             call.op # "generate" \/ v # w
      PROVE  calls'[w] = calls[w]
  BY <1>1, Zenon DEF TypeOK
<1>2. Idle.op # "generate"
  BY Zenon DEF Idle
<1>3. ASSUME NEW v \in Workers, EnsureSlots(v) \/ CreateBooking(v) \/ LoseCall(v)
      PROVE  calls'[w] = calls[w]
  BY <1>1, <1>2, <1>3, Zenon DEF EnsureSlots, CreateBooking, LoseCall
<1>4. ASSUME NEW v \in Workers, HasClosure(v), v # w
      PROVE  calls'[w] = calls[w]
  BY <1>1, <1>4, Zenon DEF HasClosure
<1>5. ASSUME NEW v \in Workers, NEW r \in Resources, NEW date \in Dates,
             AvailableSlots(v, r, date), v # w
      PROVE  calls'[w] = calls[w]
  BY <1>1, <1>5, Zenon DEF AvailableSlots
<1>6. ASSUME NEW v \in Workers, NEW u \in Users, NEW s \in Slots, BeginBooking(v, u, s)
      PROVE  calls'[w] = calls[w]
  BY <1>1, <1>6, Zenon DEF BeginBooking
<1>7. CASE \/ UNCHANGED vars \/ Tick \/ MarkNoShows
           \/ \E b \in Bookings : CancelBooking(b) \/ Checkin(b)
           \/ \E closure \in ClosureReqs : CreateClosure(closure)
           \/ \E v \in Venues, req \in VenueReqs : CreateVenue(v, req)
           \/ \E r \in Resources, v \in Venues, n \in Capacities : CreateResource(r, v, n)
           \/ \E rule \in RuleReqs : CreateRule(rule)
  BY <1>7, Zenon DEF vars, Tick, MarkNoShows, CancelBooking, Checkin, CreateClosure, CreateVenue,
     CreateResource, CreateRule
<1> QED BY <1>3, <1>4, <1>5, <1>6, <1>7, Zenon DEF Next

\* Only EnsureSlots inserts slots, the ones its call collected.
LEMMA SlotAppears ==
  ASSUME TypeOK, [Next]_vars, NEW s \in Slots, slots[s].status = None,
         slots'[s].status # None, \A c \in Slots : SlotOK(c), Booking
  PROVE  \E w \in Workers : /\ calls[w].op = "generate"
                            /\ s \in calls[w].open \cup calls[w].closed
<1>1. ASSUME NEW w \in Workers, EnsureSlots(w)
      PROVE  calls[w].op = "generate" /\ s \in calls[w].open \cup calls[w].closed
  BY <1>1, Zenon DEF EnsureSlots
<1>2. ASSUME NEW w \in Workers, CreateBooking(w), slots'[s] # slots[s]
      PROVE  FALSE
  <2>1. calls[w].op = "book" /\ s = calls[w].slot
    BY <1>2, Zenon DEF CreateBooking, TypeOK
  <2> QED BY <2>1, Zenon DEF Booking
<1>3. ASSUME NEW b \in Bookings, CancelBooking(b), slots'[s] # slots[s]
      PROVE  FALSE
  <2>1. s = bookings[b].slot
    BY <1>3, Zenon DEF CancelBooking, TypeOK
  <2> QED BY <2>1, Zenon DEF SlotOK
<1>4. ASSUME NEW closure \in ClosureReqs, CreateClosure(closure)
      PROVE  slots'[s] = slots[s]
  BY <1>4, Zenon DEF CreateClosure
<1> QED BY <1>1, <1>2, <1>3, <1>4, StepKinds, Zenon DEF Checkin, MarkNoShows

\* Every step keeps the slots within the hours.
LEMMA HoursStep ==
  ASSUME IInv, Hours, [Next]_vars
  PROVE  Hours'
<1>0. TypeOK /\ Booking /\ \A s \in Slots : SlotOK(s)
  BY InvariantBySlot, Zenon
<1>1. /\ rules \subseteq rules'
      /\ \A rule \in rules' : rule.start >= 0 /\ rule.end <= DayMinutes
  BY RulesGrow, Zenon DEF Hours, CreateRule
<1>2. \A s : InHours(s) => InHours(s)'
  BY <1>1, Zenon DEF InHours
<1>3. ASSUME NEW s \in Slots, slots'[s].status # None
      PROVE  InHours(s)
  BY <1>0, <1>3, SlotAppears, Zenon DEF Hours, WithinOpeningHours
<1>4. ASSUME NEW w \in Workers, calls'[w].op = "generate",
             NEW s \in calls'[w].todo \cup calls'[w].open \cup calls'[w].closed
      PROVE  InHours(s)
  <2>1. CASE calls'[w] = calls[w]
    BY <1>4, <2>1, Zenon DEF Hours
  <2>2. ASSUME NEW r \in Resources, NEW date \in Dates, AvailableSlots(w, r, date)
        PROVE  InHours(s)
    <3>1. PICK venue : venue = venues[resources[r].venue]
      OBVIOUS
    <3>2. venue.slotMinutes \in Nat \ {0}
      <4>1. venue \in VenueRows
        BY <1>0, <2>2, <3>1, Zenon DEF AvailableSlots, TypeOK
      <4> QED BY <4>1, LengthsArePositive, Zenon DEF VenueRows
    <3>3. calls'[w] = [op |-> "generate", open |-> {}, closed |-> {},
                       todo |-> UNION {RuleSlots(rule, date, venue.slotMinutes) :
                                         rule \in {x \in rules : x.resource = r
                                                     /\ x.weekday = Weekday(date)}}]
      BY <1>0, <2>2, <3>1 DEF AvailableSlots, TypeOK
    <3>4. PICK rule \in rules : /\ rule.weekday = Weekday(date)
                                /\ s \in RuleSlots(rule, date, venue.slotMinutes)
      BY <1>4, <3>3
    <3>5. rule \in RuleReqs /\ rule.start >= 0 /\ rule.end <= DayMinutes /\ date \in Nat
      BY <1>0, BoundAssumption, Zenon DEF TypeOK, Hours
    <3>6. PICK len \in Nat \ {0} : len = venue.slotMinutes
      BY <3>2, Zenon
    <3>7. s \in RuleSlots(rule, date, len)
      BY <3>4, <3>6, Zenon
    <3>8. Inside(rule, date, s)
      BY <3>5, <3>7, SlotInRule, Zenon
    <3> QED BY <3>4, <3>8, Zenon DEF Inside, InHours
  <2>3. ASSUME HasClosure(w)
        PROVE  InHours(s)
    <3>1. calls[w] \in GenerateCalls
      BY <1>0, <2>3, CallKinds, Zenon DEF HasClosure
    <3>2. PICK t \in calls[w].todo : calls'[w] = AddClosed(calls[w], t) \/ calls'[w] = AddOpen(calls[w], t)
      BY <1>0, <2>3, Zenon DEF HasClosure, TypeOK
    <3>3. s \in calls[w].todo \cup calls[w].open \cup calls[w].closed
      BY <1>4, <3>1, <3>2, SlotsMoved, Zenon
    <3> QED BY <2>3, <3>3, Zenon DEF Hours, HasClosure
  <2> QED BY <1>0, <1>4, <2>1, <2>2, <2>3, GenerateStep, Zenon
<1> QED BY <1>1, <1>2, <1>3, <1>4, Zenon DEF Hours, WithinOpeningHours

\* A slot that AvailableSlots generated never starts before the opening time or
\* ends after the closing time of a rule for its resource and weekday.
THEOREM SlotsAreWithinHours == Spec => []WithinOpeningHours
<1>1. Init => Hours
  BY NoneAssumption DEF Init, Hours, WithinOpeningHours, NoSlot, Idle
<1>2. IInv /\ Hours /\ [Next]_vars => Hours'
  BY HoursStep, Zenon
<1>3. Hours => WithinOpeningHours
  BY Zenon DEF Hours
<1> QED BY <1>1, <1>2, <1>3, Invariance, PTL DEF Spec

----------------------------------------------------------------------------
(* Closures *)

\* The resource of a slot has been created.
Placed(s) == resources[s.resource].venue # None

\* Some closure announced concerns the slot.
Concerned(s) == \E c \in closures : Closes(c, s)

\* What a call that generates slots has found out: its slots are of resources
\* that exist, and those found open are not concerned unless overtaken.
Found(w) ==
  calls[w].op = "generate" =>
    /\ \A s \in calls[w].todo \cup calls[w].open \cup calls[w].closed : Placed(s)
    /\ \A s \in calls[w].open : Concerned(s) => s \in missed

\* ClosuresHold with what is known of the slots still to be inserted.
Held ==
  /\ \A s \in Slots : slots[s].status # None => Placed(s)
  /\ \A w \in Workers : Found(w)
  /\ ClosuresHold

\* A slot is of a resource that a rule names.
LEMMA SlotResource ==
  ASSUME NEW s \in Slots
  PROVE  s.resource \in Resources
<1>1. PICK rule \in RuleReqs, date \in Dates, len \in SlotLengths : s \in RuleSlots(rule, date, len)
  BY DEF Slots
<1>2. s.resource = rule.resource
  BY <1>1 DEF RuleSlots
<1> QED BY <1>2, ConfigAssumption, Zenon

\* CreateResource leaves alone a resource that exists, so what a closure
\* concerns never changes.
LEMMA PlaceKept ==
  ASSUME TypeOK, [Next]_vars, NEW s \in Slots, Placed(s)
  PROVE  /\ Placed(s)'
         /\ \A c : Closes(c, s)' <=> Closes(c, s)
<1>1. resources'[s.resource] = resources[s.resource]
  <2>1. CASE resources' = resources
    BY <2>1, Zenon
  <2>2. ASSUME NEW r \in Resources, NEW v \in Venues, NEW n \in Capacities, CreateResource(r, v, n)
        PROVE  resources'[s.resource] = resources[s.resource]
    <3>1. s.resource # r
      BY <2>2, Zenon DEF CreateResource, Placed
    <3>2. s.resource \in Resources /\ resources \in [Resources -> [venue : Venues \cup {None}, capacity : Nat]]
      BY SlotResource, Zenon DEF TypeOK
    <3> QED BY <2>2, <3>1, <3>2, Zenon DEF CreateResource
  <2> QED BY <2>1, <2>2, Zenon DEF Next, vars, Tick, MarkNoShows, CancelBooking, Checkin, CreateClosure,
     CreateVenue, CreateRule, AvailableSlots, HasClosure, EnsureSlots, BeginBooking, CreateBooking,
     LoseCall, config
<1> QED BY <1>1 DEF Placed, Closes, Overlap

\* Only CreateClosure adds a closure.
LEMMA ClosuresGrow ==
  ASSUME [Next]_vars
  PROVE  closures' = closures \/ \E closure \in ClosureReqs : CreateClosure(closure)
BY Zenon DEF Next, vars, Tick, MarkNoShows, CancelBooking, Checkin, CreateVenue, CreateRule,
   CreateResource, AvailableSlots, HasClosure, EnsureSlots, BeginBooking, CreateBooking,
   LoseCall, config

\* The history remembers what it has seen and every slot a closure overtakes.
LEMMA MissedGrows ==
  ASSUME [ClosuresNext]_closureVars
  PROVE  /\ [Next]_vars
         /\ missed \subseteq missed'
         /\ \A s \in Slots, w \in Workers : Overtaken(w, s) => s \in missed'
<1>1. CASE ClosuresNext
  BY <1>1, Zenon DEF ClosuresNext
<1>2. CASE UNCHANGED closureVars
  <2>1. UNCHANGED vars /\ missed' = missed
    BY <1>2, Zenon DEF closureVars
  <2>2. closures' = closures
    BY <2>1, Zenon DEF vars
  <2> QED BY <2>1, <2>2, Zenon DEF Overtaken
<1> QED BY <1>1, <1>2, Zenon

\* A slot is open because it was, or because a listing found it open.
LEMMA OpensFrom ==
  ASSUME TypeOK, [Next]_vars, NEW s \in Slots, slots'[s].status = "open"
  PROVE  \/ slots[s].status = "open"
         \/ \E w \in Workers : calls[w].op = "generate" /\ s \in calls[w].open
<1>0. slots \in [Slots -> SlotRows \cup {NoSlot}]
  BY Zenon DEF TypeOK
<1>1. CASE slots' = slots
  BY <1>1, Zenon
<1>2. ASSUME NEW w \in Workers, EnsureSlots(w), s \notin calls[w].open
      PROVE  slots[s].status = "open"
  <2>1. slots'[s] = IF s \in calls[w].closed THEN Insert(s, "closed") ELSE slots[s]
    BY <1>2, Zenon DEF EnsureSlots
  <2>2. Insert(s, "closed") = slots[s] \/ Insert(s, "closed").status = "closed"
    BY Zenon DEF Insert
  <2> QED BY <2>1, <2>2, Zenon
<1>3. ASSUME NEW t, NEW n, slots' = [slots EXCEPT ![t].reserved = n]
      PROVE  slots'[s].status = slots[s].status
  <2>1. slots'[s] = slots[s] \/ slots'[s] = [slots[s] EXCEPT !.reserved = n]
    BY <1>0, <1>3, Zenon
  <2>2. [slots[s] EXCEPT !.reserved = n].status = slots[s].status
    BY <1>0 DEF SlotRows, NoSlot
  <2> QED BY <2>1, <2>2, Zenon
<1>4. ASSUME NEW w \in Workers, CreateBooking(w)
      PROVE  slots[s].status = "open"
  <2>1. slots' = slots \/ \E t, n : slots' = [slots EXCEPT ![t].reserved = n]
    BY <1>4, Zenon DEF CreateBooking
  <2> QED BY <1>1, <1>3, <2>1, Zenon
<1>5. ASSUME NEW b \in Bookings, CancelBooking(b)
      PROVE  slots[s].status = "open"
  BY <1>3, <1>5, Zenon DEF CancelBooking
<1>6. ASSUME NEW closure \in ClosureReqs, CreateClosure(closure)
      PROVE  slots[s].status = "open"
  <2>1. slots'[s] = slots[s] \/ (slots[s].status # None /\ slots'[s] = Closed(s))
    BY <1>6, Zenon DEF CreateClosure
  <2>2. slots[s].status # None => Closed(s).status = "closed"
    <3>1. ASSUME slots[s].status # None
          PROVE  slots[s] \in SlotRows
      BY <3>1, RowsExist, Zenon
    <3> QED BY <3>1, Zenon DEF Closed, SlotRows
  <2> QED BY <2>1, <2>2, Zenon
<1>7. CASE \E w \in Workers : EnsureSlots(w)
  BY <1>2, <1>7, Zenon DEF EnsureSlots
<1> QED BY <1>1, <1>4, <1>5, <1>6, <1>7, StepKinds, Zenon DEF Checkin, MarkNoShows

\* CreateClosure closes the slots that it concerns.
LEMMA ClosureCloses ==
  ASSUME TypeOK, NEW closure \in ClosureReqs, CreateClosure(closure), NEW s \in Slots,
         slots'[s].status = "open"
  PROVE  ~Closes(closure, s)
<1>1. SUFFICES ASSUME Closes(closure, s)
               PROVE  FALSE
  OBVIOUS
<1>2. CASE slots[s].status # None
  <2>1. slots[s] \in SlotRows
    BY <1>2, RowsExist, Zenon
  <2>2. slots'[s] = Closed(s)
    BY <1>1, <1>2, Zenon DEF CreateClosure
  <2>3. Closed(s).status = "closed"
    BY <2>1, Zenon DEF Closed, SlotRows
  <2> QED BY <2>2, <2>3, Zenon
<1>3. CASE slots[s].status = None
  <2>1. slots'[s] = slots[s]
    BY <1>3, Zenon DEF CreateClosure
  <2> QED BY <1>3, <2>1, NoneAssumption, Zenon
<1> QED BY <1>2, <1>3, Zenon

\* The call of a worker who generates slots goes on knowing what it must.
LEMMA FoundStep ==
  ASSUME TypeOK, Held, [ClosuresNext]_closureVars, NEW w \in Workers
  PROVE  Found(w)'
<1>0. /\ [Next]_vars /\ missed \subseteq missed'
      /\ \A s \in Slots : Overtaken(w, s) => s \in missed'
  BY MissedGrows, Zenon
<1>1. SUFFICES ASSUME calls'[w].op = "generate"
               PROVE  /\ \A s \in calls'[w].todo \cup calls'[w].open \cup calls'[w].closed : Placed(s)'
                      /\ \A s \in calls'[w].open : Concerned(s)' => s \in missed'
  BY Zenon DEF Found
<1>2. CASE calls'[w] = calls[w]
  <2>1. calls[w] \in GenerateCalls /\ Found(w)
    BY <1>1, <1>2, CallKinds, Zenon DEF Held
  <2>2. ASSUME NEW s \in calls[w].todo \cup calls[w].open \cup calls[w].closed
        PROVE  s \in Slots /\ Placed(s)
    BY <1>1, <1>2, <2>1, Zenon DEF GenerateCalls, Found
  <2>3. ASSUME NEW s \in calls[w].open, Concerned(s)'
        PROVE  s \in missed'
    <3>1. s \in Slots /\ Placed(s)
      BY <2>2, Zenon
    <3>2. PICK c \in closures' : Closes(c, s)
      BY <1>0, <2>3, <3>1, PlaceKept, Zenon DEF Concerned
    <3>3. CASE c \in closures
      BY <1>0, <1>1, <1>2, <2>1, <3>2, <3>3, Zenon DEF Found, Concerned
    <3>4. CASE c \notin closures
      BY <1>0, <1>1, <1>2, <3>1, <3>2, <3>4, Zenon DEF Overtaken
    <3> QED BY <3>3, <3>4, Zenon
  <2> QED BY <1>0, <1>2, <2>2, <2>3, PlaceKept, Zenon
<1>3. ASSUME NEW r \in Resources, NEW date \in Dates, AvailableSlots(w, r, date)
      PROVE  /\ \A s \in calls'[w].todo \cup calls'[w].open \cup calls'[w].closed : Placed(s)'
             /\ calls'[w].open = {}
  <2>0. PICK len : len = venues[resources[r].venue].slotMinutes
    OBVIOUS
  <2>1. calls'[w] = [op |-> "generate", open |-> {}, closed |-> {},
                     todo |-> UNION {RuleSlots(rule, date, len) :
                                       rule \in {x \in rules : x.resource = r /\ x.weekday = Weekday(date)}}]
    BY <1>3, <2>0 DEF AvailableSlots, TypeOK
  <2>2. /\ calls'[w].open = {} /\ calls'[w].closed = {}
        /\ calls'[w].todo = UNION {RuleSlots(rule, date, len) :
                              rule \in {x \in rules : x.resource = r /\ x.weekday = Weekday(date)}}
    BY <2>1
  <2>3. ASSUME NEW s \in calls'[w].todo
        PROVE  s.resource = r
    <3>1. PICK rule \in rules : rule.resource = r /\ s \in RuleSlots(rule, date, len)
      BY <2>2, <2>3, Zenon
    <3> QED BY <3>1 DEF RuleSlots
  <2>4. resources[r].venue # None /\ resources' = resources
    BY <1>3, Zenon DEF AvailableSlots, config
  <2> QED BY <2>2, <2>3, <2>4, Zenon DEF Placed
<1>4. ASSUME HasClosure(w)
      PROVE  /\ \A s \in calls'[w].todo \cup calls'[w].open \cup calls'[w].closed : Placed(s)'
             /\ \A s \in calls'[w].open : Concerned(s)' => s \in missed'
  <2>1. calls[w].op = "generate" /\ calls[w] \in GenerateCalls /\ Found(w)
    BY <1>4, CallKinds, Zenon DEF HasClosure, Held
  <2>2. PICK t \in calls[w].todo :
          \/ calls'[w] = AddClosed(calls[w], t)
          \/ calls'[w] = AddOpen(calls[w], t) /\ ~Concerned(t)
    BY <1>4, Zenon DEF HasClosure, TypeOK, Concerned
  <2>3. ASSUME NEW s \in calls'[w].todo \cup calls'[w].open \cup calls'[w].closed
        PROVE  Placed(s)
    <3>1. s \in calls[w].todo \cup calls[w].open \cup calls[w].closed
      BY <2>1, <2>2, <2>3, SlotsMoved, Zenon
    <3> QED BY <2>1, <3>1, Zenon DEF Found
  <2>4. \/ calls'[w].open = calls[w].open
        \/ calls'[w].open = calls[w].open \cup {t} /\ ~Concerned(t)
    <3>1. AddClosed(calls[w], t).open = calls[w].open
      BY <2>1, Zenon DEF AddClosed, GenerateCalls
    <3>2. AddOpen(calls[w], t).open = calls[w].open \cup {t}
      BY <2>1, Zenon DEF AddOpen, GenerateCalls
    <3> QED BY <2>2, <3>1, <3>2, Zenon
  <2>5. UNCHANGED <<resources, closures>>
    BY <1>4, Zenon DEF HasClosure, config
  <2>6. \A s : (Concerned(s)' <=> Concerned(s)) /\ (Placed(s)' <=> Placed(s))
    BY <2>5, Zenon DEF Concerned, Closes, Overlap, Placed
  <2>7. \A s \in calls'[w].open : Concerned(s) => s \in missed
    BY <2>1, <2>4, Zenon DEF Found
  <2> QED BY <1>0, <2>3, <2>6, <2>7, Zenon
<1>5. CASE \E r \in Resources, date \in Dates : AvailableSlots(w, r, date)
  BY <1>3, <1>5, Zenon
<1> QED BY <1>0, <1>1, <1>2, <1>4, <1>5, GenerateStep, Zenon

\* A slot that is open after a step is not concerned by a closure, or the
\* closure overtook the listing that found the slot open.
LEMMA HeldStep ==
  ASSUME IInv, Held, [ClosuresNext]_closureVars
  PROVE  Held'
<1>0. TypeOK /\ Booking /\ \A s \in Slots : SlotOK(s)
  BY InvariantBySlot, Zenon
<1>1. [Next]_vars /\ missed \subseteq missed'
  BY MissedGrows, Zenon
<1>2. ASSUME NEW s \in Slots, slots'[s].status # None
      PROVE  Placed(s)
  <2>1. CASE slots[s].status # None
    BY <2>1, Zenon DEF Held
  <2>2. CASE slots[s].status = None
    <3>1. PICK w \in Workers : calls[w].op = "generate" /\ s \in calls[w].open \cup calls[w].closed
      BY <1>0, <1>1, <1>2, <2>2, SlotAppears, Zenon
    <3> QED BY <3>1, Zenon DEF Held, Found
  <2> QED BY <2>1, <2>2, Zenon
<1>3. ASSUME NEW s \in Slots, slots'[s].status = "open", Concerned(s)'
      PROVE  s \in missed'
  <2>1. Placed(s)
    BY <1>2, <1>3, NoneAssumption, Zenon
  <2>2. PICK c \in closures' : Closes(c, s)
    BY <1>0, <1>1, <1>3, <2>1, PlaceKept, Zenon DEF Concerned
  <2>3. c \in closures => Concerned(s)
    BY <2>2, Zenon DEF Concerned
  <2>4. CASE c \in closures
    <3>1. CASE slots[s].status = "open"
      BY <1>1, <2>3, <2>4, <3>1, Zenon DEF Held, ClosuresHold, Concerned
    <3>2. CASE \E w \in Workers : calls[w].op = "generate" /\ s \in calls[w].open
      BY <1>1, <2>3, <2>4, <3>2, Zenon DEF Held, Found
    <3> QED BY <1>0, <1>1, <1>3, <3>1, <3>2, OpensFrom, Zenon
  <2>5. CASE c \notin closures
    <3>1. PICK closure \in ClosureReqs : CreateClosure(closure)
      BY <1>1, <2>2, <2>5, ClosuresGrow, Zenon
    <3>2. c = closure
      BY <2>2, <2>5, <3>1, Zenon DEF CreateClosure
    <3> QED BY <1>0, <1>3, <2>2, <3>1, <3>2, ClosureCloses, Zenon
  <2> QED BY <2>4, <2>5, Zenon
<1>4. \A s \in Slots : slots'[s].status # None => Placed(s)'
  BY <1>0, <1>1, <1>2, PlaceKept, Zenon
<1>5. \A w \in Workers : Found(w)'
  BY <1>0, FoundStep, Zenon
<1> QED BY <1>3, <1>4, <1>5, Zenon DEF Held, ClosuresHold, Concerned

\* No slot that a closure concerns is offered, whichever of CreateClosure and
\* EnsureSlots came first, except a slot of a listing that the closure overtook
\* between HasClosure and EnsureSlots.
THEOREM ClosuresAreKept == ClosuresSpec => []ClosuresHold
<1>1. Init /\ missed = {} => Held
  <2> SUFFICES ASSUME Init
               PROVE  Held
    BY Zenon
  <2>1. \A s \in Slots : slots[s].status = None
    BY Zenon DEF Init, NoSlot
  <2>2. \A w \in Workers : calls[w].op = "idle"
    BY Zenon DEF Init, Idle
  <2> QED BY <2>1, <2>2, NoneAssumption, Zenon DEF Held, Found, ClosuresHold
<1>2. IInv /\ Held /\ [ClosuresNext]_closureVars => Held'
  BY HeldStep, Zenon
<1>3. Held => ClosuresHold
  BY Zenon DEF Held
<1>4. ClosuresSpec => Spec
  <2>1. [ClosuresNext]_closureVars => [Next]_vars
    BY MissedGrows, Zenon
  <2> QED BY <2>1, PTL DEF ClosuresSpec, Spec
<1> QED BY <1>1, <1>2, <1>3, <1>4, Invariance, PTL DEF ClosuresSpec
============================================================================
