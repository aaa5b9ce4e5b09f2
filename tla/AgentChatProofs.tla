-------------------------- MODULE AgentChatProofs --------------------------
(***************************************************************************)
(* Proofs about AgentChat, for any number of turns, accounts,              *)
(* conversations and sessions and any limits: the per-conversation lock    *)
(* and what makes it fail, the rate limit, counters that expire, deletions *)
(* that last, and the turns each session counts.                           *)
(***************************************************************************)
EXTENDS AgentChat, FiniteSetTheorems, TLAPS

----------------------------------------------------------------------------
(* The inductive invariant *)

\* Turns about to take back what they added to a counter.
Undoing(c) == {t \in Turns : turns[t].pc = "undoConv" /\ turns[t].conv = c}
Uncounting(u) == {t \in Turns : turns[t].pc = "undoRate" /\ UserOf(t) = u}
Riders(s) == {t \in Turns : turns[t].via = s}

\* A goroutine in a turn works on a conversation.
Working == \A t \in Turns : turns[t].pc # "idle" => turns[t].conv \in Conversations

\* A counter that never expired in use counts at least the turns that hold its
\* guard and the refused ones, and no more hold it than it lets in.
Counted ==
  \A c \in Conversations : c \notin drifted =>
    /\ guards[c].n >= Cardinality(Holders(c)) + Cardinality(Undoing(c))
    /\ Cardinality(Holders(c)) <= MaxPerConversation

\* The rate counts at least what it let pass and what will be counted back.
Rated ==
  \A u \in Users : /\ rate[u] >= accepted[u] + Cardinality(Uncounting(u))
                   /\ accepted[u] <= RatePerMinute

\* Nobody is about to save a conversation that was deleted undisturbed.
Deleted == \A c \in removed \ overtaken : rows[c] = Absent /\ ~Saving(c)

AgentInv == /\ TypeOK /\ Working /\ Counted /\ Rated /\ Deleted
            /\ PositiveExpires /\ SessionsCountTheirTurns

----------------------------------------------------------------------------
(* What a step does to a turn *)

PCs == {"idle", "rate", "undoRate", "user", "undoUser", "conv", "undoConv", "save",
        "call", "persist", "release", "releaseUser", "end"}
SavingPCs == {"rate", "user", "conv", "save", "call", "persist"}

\* Turn t goes to pc and holds held; everything else about turns stays.
Moves(t, pc, held) ==
  /\ turns' \in [Turns -> TurnRows]
  /\ \A x \in Turns : x # t => turns'[x] = turns[x]
  /\ turns'[t].pc = pc /\ turns'[t].held = held
  /\ turns'[t].conv = turns[t].conv /\ turns'[t].via = turns[t].via

\* Every turn has its fields.
LEMMA TurnFields ==
  ASSUME TypeOK, NEW t \in Turns
  PROVE  /\ turns[t] \in TurnRows /\ turns[t].pc \in PCs
         /\ turns[t].conv \in Conversations \cup {None}
         /\ turns[t].via \in Sessions \cup {None}
         /\ turns[t].left \in 0 .. Timeout /\ turns[t].held \in SUBSET Keys
BY Zenon DEF TypeOK, TurnRows, PCs

\* Goto changes the program counter of one turn.
LEMMA GotoMoves ==
  ASSUME TypeOK, NEW t \in Turns, NEW pc \in PCs, Goto(t, pc)
  PROVE  Moves(t, pc, turns[t].held)
<1> DEFINE new == [turns[t] EXCEPT !.pc = pc]
<1>1. /\ new \in TurnRows /\ new.pc = pc /\ new.held = turns[t].held
      /\ new.conv = turns[t].conv /\ new.via = turns[t].via
  BY TurnFields, Zenon DEF TurnRows, PCs
<1>2. turns' = [turns EXCEPT ![t] = new] /\ turns \in [Turns -> TurnRows]
  BY Zenon DEF Goto, TypeOK
<1> HIDE DEF new
<1>3. QED BY <1>1, <1>2, Zenon DEF Moves

\* The key a working turn is at.
LEMMA KeyAtType ==
  ASSUME AgentInv, NEW t \in Turns, turns[t].pc # "idle"
  PROVE  /\ turns[t].conv \in Conversations /\ UserOf(t) \in Users
         /\ KeyAt(t) \in Keys
         /\ turns[t].pc \in {"user", "undoUser", "releaseUser"} => KeyAt(t) = UserOf(t)
         /\ turns[t].pc \notin {"user", "undoUser", "releaseUser"} => KeyAt(t) = turns[t].conv
BY AgentAssumption, Zenon DEF AgentInv, Working, KeyAt, UserOf, Keys

\* Taking a guard, giving it back, and being refused.
LEMMA GuardMoves ==
  ASSUME TypeOK, NEW t \in Turns, NEW k \in Keys, NEW pc \in PCs
  PROVE  /\ turns' = [turns EXCEPT ![t] = Acquired(turns[t], k)] =>
              Moves(t, NextGuard(turns[t].pc), turns[t].held \cup {k})
         /\ turns' = [turns EXCEPT ![t] = Refused(turns[t])] =>
              Moves(t, Undo(turns[t].pc), turns[t].held)
         /\ turns' = [turns EXCEPT ![t] = Released(turns[t], k, pc)] =>
              Moves(t, pc, turns[t].held \ {k})
<1>1. ASSUME NEW new \in TurnRows, turns' = [turns EXCEPT ![t] = new],
             new.conv = turns[t].conv, new.via = turns[t].via
      PROVE  Moves(t, new.pc, new.held)
  BY <1>1, Zenon DEF Moves, TypeOK
<1> DEFINE a == Acquired(turns[t], k)
           r == Refused(turns[t])
           g == Released(turns[t], k, pc)
<1>2. /\ a \in TurnRows /\ a.conv = turns[t].conv /\ a.via = turns[t].via
      /\ a.pc = NextGuard(turns[t].pc) /\ a.held = turns[t].held \cup {k}
  BY TurnFields, Zenon DEF TurnRows, PCs, Acquired, NextGuard
<1>3. /\ r \in TurnRows /\ r.conv = turns[t].conv /\ r.via = turns[t].via
      /\ r.pc = Undo(turns[t].pc) /\ r.held = turns[t].held
  BY TurnFields, Zenon DEF TurnRows, PCs, Refused, Undo
<1>4. /\ g \in TurnRows /\ g.conv = turns[t].conv /\ g.via = turns[t].via
      /\ g.pc = pc /\ g.held = turns[t].held \ {k}
  BY TurnFields, Zenon DEF TurnRows, PCs, Released
<1> HIDE DEF a, r, g
<1>5. turns' = [turns EXCEPT ![t] = a] => Moves(t, NextGuard(turns[t].pc), turns[t].held \cup {k})
  BY <1>1, <1>2, Zenon
<1>6. turns' = [turns EXCEPT ![t] = r] => Moves(t, Undo(turns[t].pc), turns[t].held)
  BY <1>1, <1>3, Zenon
<1>7. turns' = [turns EXCEPT ![t] = g] => Moves(t, pc, turns[t].held \ {k})
  BY <1>1, <1>4, Zenon
<1>8. QED BY <1>5, <1>6, <1>7, Zenon DEF a, r, g

----------------------------------------------------------------------------
(* Sets of turns *)

\* Sets of turns are finite; they grow and shrink by one turn at a time.
LEMMA TurnSets ==
  ASSUME NEW S \in SUBSET Turns
  PROVE  /\ IsFiniteSet(S) /\ Cardinality(S) \in Nat
         /\ (S = {} <=> Cardinality(S) = 0)
         /\ \A t \in Turns : t \notin S => Cardinality(S \cup {t}) = Cardinality(S) + 1
         /\ \A t \in S : Cardinality(S \ {t}) = Cardinality(S) - 1
         /\ \A R \in SUBSET S : Cardinality(R) <= Cardinality(S)
<1>1. IsFiniteSet(S)
  BY AgentAssumption, FS_Subset, Zenon
<1>2. Cardinality(S) \in Nat /\ (S = {} <=> Cardinality(S) = 0)
  BY <1>1, FS_CardinalityType, FS_EmptySet, Zenon
<1>3. \A t \in Turns : t \notin S => Cardinality(S \cup {t}) = Cardinality(S) + 1
  BY <1>1, FS_AddElement, Zenon
<1>4. \A t \in S : Cardinality(S \ {t}) = Cardinality(S) - 1
  BY <1>1, FS_RemoveElement, Zenon
<1>5. \A R \in SUBSET S : Cardinality(R) <= Cardinality(S)
  BY <1>1, FS_Subset, Zenon
<1>6. QED BY <1>1, <1>2, <1>3, <1>4, <1>5, Zenon

----------------------------------------------------------------------------
(* What a conjunct does not depend on *)

\* Sessions count their turns while turns keep their session.
LEMMA SessionsFrame ==
  ASSUME AgentInv, \A t \in Turns : turns'[t].via = turns[t].via,
         UNCHANGED <<inflight, conns>>
  PROVE  SessionsCountTheirTurns'
<1>1. ASSUME NEW s \in Sessions
      PROVE  {t \in Turns : turns'[t].via = s} = {t \in Turns : turns[t].via = s}
  OBVIOUS
<1>2. QED BY <1>1, Zenon DEF AgentInv, SessionsCountTheirTurns

\* Deletions stand unless a turn begins to save or a row is written.
LEMMA DeletedFrame ==
  ASSUME AgentInv, UNCHANGED <<rows, removed, overtaken>>,
         \A t \in Turns : turns'[t].pc \in SavingPCs =>
            turns[t].pc \in SavingPCs /\ turns'[t].conv = turns[t].conv
  PROVE  Deleted'
BY Zenon DEF AgentInv, Deleted, Saving, SavingPCs

\* The rate stays right while nobody enters or leaves the undoing of it.
LEMMA RatedFrame ==
  ASSUME AgentInv, UNCHANGED <<rate, accepted>>,
         \A t \in Turns : /\ turns'[t].pc = "undoRate" <=> turns[t].pc = "undoRate"
                          /\ turns[t].pc = "undoRate" => turns'[t].conv = turns[t].conv
  PROVE  Rated'
<1>1. ASSUME NEW u \in Users
      PROVE  Uncounting(u)' = Uncounting(u)
  BY Zenon DEF Uncounting, UserOf
<1>2. QED BY <1>1, Zenon DEF AgentInv, Rated

\* A counter stays right while it stays and nobody new holds it.
LEMMA CountedFrame ==
  ASSUME AgentInv, NEW c \in Conversations, c \notin drifted', drifted \subseteq drifted',
         guards'[c].n = guards[c].n,
         Holders(c)' \subseteq Holders(c), Undoing(c)' \subseteq Undoing(c)
  PROVE  /\ guards'[c].n >= Cardinality(Holders(c)') + Cardinality(Undoing(c)')
         /\ Cardinality(Holders(c)') <= MaxPerConversation
<1>1. /\ Holders(c) \subseteq Turns /\ Undoing(c) \subseteq Turns
      /\ c \notin drifted /\ guards[c].n \in Int /\ MaxPerConversation \in Nat
  BY AgentAssumption, Zenon DEF Holders, Undoing, LimitsOK, AgentInv, TypeOK, Keys
<1>2. /\ Cardinality(Holders(c)') <= Cardinality(Holders(c))
      /\ Cardinality(Undoing(c)') <= Cardinality(Undoing(c))
  BY <1>1, TurnSets, Zenon
<1>3. /\ Cardinality(Holders(c)) \in Nat /\ Cardinality(Undoing(c)) \in Nat
      /\ Cardinality(Holders(c)') \in Nat /\ Cardinality(Undoing(c)') \in Nat
  BY <1>1, TurnSets, Zenon
<1>4. /\ guards[c].n >= Cardinality(Holders(c)) + Cardinality(Undoing(c))
      /\ Cardinality(Holders(c)) <= MaxPerConversation
  BY <1>1, Zenon DEF AgentInv, Counted
<1>5. QED BY <1>1, <1>2, <1>3, <1>4

\* Counters stay right while no turn holds more than it held.
LEMMA CountedSame ==
  ASSUME AgentInv, UNCHANGED <<guards, drifted>>,
         \A t \in Turns : /\ turns'[t].held \subseteq turns[t].held
                          /\ turns'[t].pc = "undoConv" =>
                               turns[t].pc = "undoConv" /\ turns'[t].conv = turns[t].conv
  PROVE  Counted'
<1>1. SUFFICES ASSUME NEW c \in Conversations, c \notin drifted'
               PROVE  /\ guards'[c].n >= Cardinality(Holders(c)') + Cardinality(Undoing(c)')
                      /\ Cardinality(Holders(c)') <= MaxPerConversation
  BY Zenon DEF Counted
<1>2. Holders(c)' \subseteq Holders(c) /\ Undoing(c)' \subseteq Undoing(c)
  BY Zenon DEF Holders, Undoing
<1>3. QED BY <1>1, <1>2, CountedFrame, Zenon

\* A turn that only moves disturbs nothing unless it starts or ends an undoing,
\* holds something else, or begins to save.
LEMMA QuietMove ==
  ASSUME AgentInv, NEW t \in Turns, NEW pc \in PCs, Moves(t, pc, turns[t].held),
         turns[t].pc # "idle", pc # "idle",
         turns[t].pc \notin {"undoRate", "undoConv"}, pc \notin {"undoRate", "undoConv"},
         UNCHANGED <<guards, rate, accepted, conns, inflight, drifted>>
  PROVE  Working' /\ Counted' /\ Rated' /\ PositiveExpires' /\ SessionsCountTheirTurns'
<1>1. \A x \in Turns : /\ turns'[x].via = turns[x].via /\ turns'[x].conv = turns[x].conv
                       /\ turns'[x].held = turns[x].held
                       /\ turns'[x].pc = "undoRate" <=> turns[x].pc = "undoRate"
                       /\ turns'[x].pc = "undoConv" <=> turns[x].pc = "undoConv"
  BY Zenon DEF Moves
<1>2. Working'
  BY Zenon DEF Moves, Working, AgentInv
<1>3. Counted'
  BY <1>1, CountedSame, Zenon
<1>4. Rated'
  BY <1>1, RatedFrame, Zenon
<1>5. PositiveExpires'
  BY Zenon DEF AgentInv, PositiveExpires
<1>6. SessionsCountTheirTurns'
  BY <1>1, SessionsFrame, Zenon
<1>7. QED BY <1>2, <1>3, <1>4, <1>5, <1>6, Zenon

\* The variables a turn's step leaves alone keep their types.
LEMMA TypeFrame ==
  ASSUME TypeOK, turns' \in [Turns -> TurnRows], UNCHANGED <<removed, overtaken>>,
         rows' \in [Conversations -> {Unused, Absent, "pending", "settled"}],
         guards' \in [Keys -> [n : Int, ttl : NoTTL .. GuardTTL]],
         rate' \in [Users -> Nat], accepted' \in [Users -> Nat],
         inflight' \in [Sessions -> Nat], UNCHANGED <<deletes, conns>>,
         leaked' \subseteq Conversations, drifted' \subseteq Conversations,
         faults' \in 0 .. MaxFaults
  PROVE  TypeOK'
BY Zenon DEF TypeOK

----------------------------------------------------------------------------
(* The steps of a turn that touch no counter *)

\* Saving the pending row, the agent's answer, and persisting it: only a turn whose
\* conversation is not deleted undisturbed writes a row.
LEMMA AnsweringStep ==
  ASSUME AgentInv, NEW t \in Turns,
         \/ agentAnswers(t) \/ agentFails(t) \/ persistFails(t)
         \/ savePending(t) \/ savePendingFails(t) \/ persistConversation(t)
  PROVE  AgentInv'
<1> DEFINE rest == <<guards, rate, deletes, conns, inflight, accepted, turnPast, faults>>
<1>1. PICK pc \in {"call", "persist", "release"} :
        /\ Moves(t, pc, turns[t].held) /\ UNCHANGED rest
        /\ turns[t].pc \in {"save", "call", "persist"}
        /\ \/ UNCHANGED rows
           \/ \E status \in {"pending", "settled"} :
                rows' = [rows EXCEPT ![turns[t].conv] = status]
  <2>1. CASE savePending(t)
    <3> DEFINE new == [turns[t] EXCEPT !.pc = "call", !.left = Timeout]
    <3>0. TypeOK /\ Timeout \in 0 .. Timeout
      BY AgentAssumption DEF AgentInv, LimitsOK
    <3>1. /\ new \in TurnRows /\ new.pc = "call" /\ new.held = turns[t].held
          /\ new.conv = turns[t].conv /\ new.via = turns[t].via
      BY <3>0, TurnFields, Zenon DEF TurnRows
    <3>2. turns' = [turns EXCEPT ![t] = new] /\ turns \in [Turns -> TurnRows]
      BY <2>1, Zenon DEF savePending, AgentInv, TypeOK
    <3> HIDE DEF new
    <3>3. Moves(t, "call", turns[t].held)
      BY <3>1, <3>2, Zenon DEF Moves
    <3>4. QED BY <2>1, <3>3, Zenon DEF savePending, saveConversation
  <2>2. CASE savePendingFails(t)
    BY <2>2, GotoMoves, Zenon DEF savePendingFails, saveConversation, AgentInv, PCs
  <2>3. CASE agentAnswers(t)
    BY <2>3, GotoMoves, Zenon DEF agentAnswers, AgentInv, PCs
  <2>4. CASE agentFails(t)
    <3>1. CASE turns[t].via = None
      BY <2>4, <3>1, GotoMoves, Zenon DEF agentFails, AgentInv, PCs
    <3>2. CASE turns[t].via # None
      BY <2>4, <3>2, GotoMoves, Zenon DEF agentFails, AgentInv, PCs
    <3>3. QED BY <3>1, <3>2, Zenon
  <2>5. CASE persistConversation(t)
    BY <2>5, GotoMoves, Zenon DEF persistConversation, saveConversation, AgentInv, PCs
  <2>6. CASE persistFails(t)
    BY <2>6, GotoMoves, Zenon DEF persistFails, AgentInv, PCs
  <2>7. QED BY <2>1, <2>2, <2>3, <2>4, <2>5, <2>6, Zenon
<1>2. Working' /\ Counted' /\ Rated' /\ PositiveExpires' /\ SessionsCountTheirTurns'
  BY <1>1, QuietMove, Zenon DEF PCs, turnPast
<1>3. TypeOK'
  BY <1>1, TypeFrame DEF AgentInv, TypeOK, Moves, turnPast, deletionPast
<1>4. Deleted'
  <2>1. turns[t].pc \in SavingPCs /\ turns[t].conv \in Conversations
    BY <1>1, Zenon DEF SavingPCs, AgentInv, Working
  <2>2. turns[t].conv \notin removed \ overtaken
    BY <2>1, Zenon DEF AgentInv, Deleted, Saving, SavingPCs
  <2>3. \A x \in Turns : turns'[x].pc \in SavingPCs =>
           turns[x].pc \in SavingPCs /\ turns'[x].conv = turns[x].conv
    BY <1>1, <2>1, Zenon DEF Moves
  <2>4. \A c \in removed \ overtaken : rows'[c] = rows[c]
    BY <1>1, <2>2, Zenon DEF AgentInv, TypeOK
  <2>5. removed' = removed /\ overtaken' = overtaken
    BY <1>1, Zenon DEF turnPast, deletionPast
  <2>6. QED BY <2>3, <2>4, <2>5 DEF AgentInv, Deleted, Saving, SavingPCs
<1>5. QED BY <1>2, <1>3, <1>4, Zenon DEF AgentInv

----------------------------------------------------------------------------
(* Beginning and ending a turn *)

\* The fields of a turn that has just begun.
LEMMA BegunFields ==
  ASSUME NEW c \in Conversations \cup {None}, NEW via \in Sessions \cup {None},
         NEW pc \in PCs
  PROVE  /\ Begun(c, via, pc) \in TurnRows
         /\ Begun(c, via, pc).pc = pc /\ Begun(c, via, pc).conv = c
         /\ Begun(c, via, pc).via = via /\ Begun(c, via, pc).held = {}
<1>1. 0 \in 0 .. Timeout
  BY AgentAssumption DEF LimitsOK
<1>2. QED BY <1>1, Zenon DEF Begun, TurnRows, PCs

\* A goroutine without a turn.
LEMMA IdleFields ==
  /\ Idle \in TurnRows /\ Idle.pc = "idle" /\ Idle.conv = None
  /\ Idle.via = None /\ Idle.held = {}
BY BegunFields DEF Idle, PCs

\* A turn is replaced by one that holds nothing and undoes nothing.
LEMMA Replaced ==
  ASSUME AgentInv, NEW t \in Turns, NEW new \in TurnRows,
         turns' = [turns EXCEPT ![t] = new],
         turns[t].pc \notin {"undoRate", "undoConv"},
         new.held = {}, new.pc \notin {"undoRate", "undoConv"},
         new.pc # "idle" => new.conv \in Conversations,
         UNCHANGED <<guards, rate, accepted, drifted>>
  PROVE  /\ turns' \in [Turns -> TurnRows]
         /\ turns'[t] = new /\ \A x \in Turns : x # t => turns'[x] = turns[x]
         /\ Working' /\ Counted' /\ Rated' /\ PositiveExpires'
<1>1. /\ turns' \in [Turns -> TurnRows]
      /\ turns'[t] = new /\ \A x \in Turns : x # t => turns'[x] = turns[x]
  BY Zenon DEF AgentInv, TypeOK
<1>2. Working'
  BY <1>1, Zenon DEF AgentInv, Working
<1>3. Counted'
  BY <1>1, CountedSame, Zenon
<1>4. Rated'
  BY <1>1, RatedFrame, Zenon
<1>5. PositiveExpires'
  BY Zenon DEF AgentInv, PositiveExpires
<1>6. QED BY <1>1, <1>2, <1>3, <1>4, <1>5, Zenon

\* A turn begins, over HTTP or in session via.
LEMMA ResolveStep ==
  ASSUME AgentInv, NEW t \in Turns, NEW c \in Conversations, NEW via \in Sessions \cup {None},
         turns[t] = Idle, resolveConversation(t, c, via),
         UNCHANGED <<guards, rate, accepted, leaked, drifted, removed, overtaken>>
  PROVE  /\ turns' \in [Turns -> TurnRows]
         /\ rows' \in [Conversations -> {Unused, Absent, "pending", "settled"}]
         /\ turns'[t].via = via /\ \A x \in Turns : x # t => turns'[x] = turns[x]
         /\ Working' /\ Counted' /\ Rated' /\ PositiveExpires' /\ Deleted'
<1> DEFINE pc == IF rows[c] = Absent THEN "end" ELSE "rate"
           new == Begun(c, via, pc)
<1>1. /\ new \in TurnRows /\ new.pc = pc /\ new.conv = c /\ new.via = via /\ new.held = {}
      /\ pc \in {"end", "rate"} /\ (pc = "rate" => rows[c] # Absent)
  BY BegunFields DEF PCs
<1>2. turns[t].pc = "idle"
  BY IdleFields, Zenon
<1>3. /\ turns' = [turns EXCEPT ![t] = new]
      /\ rows' = [rows EXCEPT ![c] = newConversation(rows[c])]
  BY Zenon DEF resolveConversation
<1> HIDE DEF new, pc
<1>4. /\ turns' \in [Turns -> TurnRows]
      /\ turns'[t] = new /\ \A x \in Turns : x # t => turns'[x] = turns[x]
      /\ Working' /\ Counted' /\ Rated' /\ PositiveExpires'
  BY <1>1, <1>2, <1>3, Replaced, Zenon
<1>5. rows' \in [Conversations -> {Unused, Absent, "pending", "settled"}]
  BY <1>3, Zenon DEF AgentInv, TypeOK, newConversation
<1>6. Deleted'
  <2>1. SUFFICES ASSUME NEW d \in removed \ overtaken
                 PROVE  rows'[d] = Absent /\ ~Saving(d)'
    BY Zenon DEF Deleted
  <2>2. rows[d] = Absent /\ ~Saving(d) /\ d \in Conversations
    BY Zenon DEF AgentInv, Deleted, TypeOK
  <2>3. rows'[d] = Absent
    BY <1>3, <2>2, Zenon DEF AgentInv, TypeOK, newConversation, Unused, Absent
  <2>4. turns'[t].conv = d => turns'[t].pc = "end"
    BY <1>1, <1>4, <2>2, Zenon
  <2>5. QED BY <2>2, <2>3, <2>4, <1>4, Zenon DEF Saving
<1>7. QED BY <1>1, <1>4, <1>5, <1>6, Zenon

\* HandleTurn: a turn begins over HTTP.
LEMMA HandleTurnStep ==
  ASSUME AgentInv, NEW t \in Turns, NEW c \in Conversations, HandleTurn(t, c)
  PROVE  AgentInv'
<1>1. /\ turns' \in [Turns -> TurnRows]
      /\ rows' \in [Conversations -> {Unused, Absent, "pending", "settled"}]
      /\ turns'[t].via = None /\ \A x \in Turns : x # t => turns'[x] = turns[x]
      /\ Working' /\ Counted' /\ Rated' /\ PositiveExpires' /\ Deleted'
  BY ResolveStep, Zenon DEF HandleTurn, turnPast, deletionPast
<1>2. turns[t].via = None
  BY IdleFields, Zenon DEF HandleTurn
<1>3. SessionsCountTheirTurns'
  BY <1>1, <1>2, SessionsFrame, Zenon DEF HandleTurn
<1>4. TypeOK'
  BY <1>1, TypeFrame, Zenon DEF HandleTurn, AgentInv, TypeOK, turnPast, deletionPast
<1>5. QED BY <1>1, <1>3, <1>4, Zenon DEF AgentInv

\* startWSTurn: a turn begins in a session that has room for it.
LEMMA StartWSTurnStep ==
  ASSUME AgentInv, NEW t \in Turns, NEW c \in Conversations, NEW s \in Sessions,
         startWSTurn(t, c, s)
  PROVE  AgentInv'
<1>1. /\ turns' \in [Turns -> TurnRows]
      /\ rows' \in [Conversations -> {Unused, Absent, "pending", "settled"}]
      /\ turns'[t].via = s /\ \A x \in Turns : x # t => turns'[x] = turns[x]
      /\ Working' /\ Counted' /\ Rated' /\ PositiveExpires' /\ Deleted'
  BY ResolveStep, Zenon DEF startWSTurn, turnPast, deletionPast
<1>2. turns[t].via = None
  BY IdleFields, Zenon DEF startWSTurn
<1>3. inflight' \in [Sessions -> Nat] /\ inflight'[s] = inflight[s] + 1
      /\ \A r \in Sessions : r # s => inflight'[r] = inflight[r]
  BY DEF startWSTurn, AgentInv, TypeOK
<1>4. SessionsCountTheirTurns'
  <2>1. SUFFICES ASSUME NEW r \in Sessions
                 PROVE  /\ inflight'[r] = Cardinality(Riders(r)')
                        /\ inflight'[r] <= MaxPerUser
                        /\ conns'[r] = "closed" => inflight'[r] = 0
    BY Zenon DEF SessionsCountTheirTurns, Riders
  <2>2. /\ inflight[r] = Cardinality(Riders(r)) /\ inflight[r] <= MaxPerUser
        /\ conns[r] = "closed" => inflight[r] = 0
    BY Zenon DEF AgentInv, SessionsCountTheirTurns, Riders
  <2>3. CASE r = s
    <3>1. t \notin Riders(s) /\ Riders(s)' = Riders(s) \cup {t} /\ Riders(s) \subseteq Turns
      BY <1>1, <1>2, AgentAssumption, Zenon DEF Riders
    <3>2. Cardinality(Riders(s)') = Cardinality(Riders(s)) + 1
      BY <3>1, TurnSets, Zenon
    <3>3. inflight[s] < MaxPerUser /\ conns'[s] = "open" /\ MaxPerUser \in Nat /\ inflight[s] \in Nat
      BY AgentAssumption, Zenon DEF startWSTurn, SessionHasRoom, LimitsOK, AgentInv, TypeOK
    <3>4. QED BY <1>3, <2>2, <2>3, <3>2, <3>3
  <2>4. CASE r # s
    <3>1. Riders(r)' = Riders(r)
      BY <1>1, <1>2, <2>4, AgentAssumption, Zenon DEF Riders
    <3>2. QED BY <1>3, <2>2, <2>4, <3>1, Zenon DEF startWSTurn
  <2>5. QED BY <2>3, <2>4, Zenon
<1>5. TypeOK'
  BY <1>1, <1>3, TypeFrame, Zenon DEF startWSTurn, AgentInv, TypeOK, turnPast, deletionPast
<1>6. QED BY <1>1, <1>4, <1>5, Zenon DEF AgentInv

\* A turn ends, and its session counts one less.
LEMMA FinishTurnStep ==
  ASSUME AgentInv, NEW t \in Turns, finishTurn(t)
  PROVE  AgentInv'
<1>1. /\ turns' = [turns EXCEPT ![t] = Idle] /\ turns[t].pc = "end"
      /\ UNCHANGED <<rows, guards, rate, deletes, conns, accepted, leaked, drifted,
                     removed, overtaken, faults>>
  BY Zenon DEF finishTurn, turnPast, deletionPast
<1>2. /\ turns' \in [Turns -> TurnRows]
      /\ turns'[t] = Idle /\ \A x \in Turns : x # t => turns'[x] = turns[x]
      /\ Working' /\ Counted' /\ Rated' /\ PositiveExpires'
  BY <1>1, IdleFields, Replaced, Zenon
<1>3. Deleted'
  BY <1>1, <1>2, IdleFields, DeletedFrame, Zenon DEF SavingPCs
<1>4. inflight' \in [Sessions -> Nat] /\ SessionsCountTheirTurns'
  <2>1. CASE turns[t].via = None
    <3>1. \A x \in Turns : turns'[x].via = turns[x].via
      BY <1>2, <2>1, IdleFields, Zenon
    <3>2. UNCHANGED <<inflight, conns>>
      BY <1>1, <2>1, Zenon DEF finishTurn
    <3>3. QED BY <3>1, <3>2, SessionsFrame, Zenon DEF AgentInv, TypeOK
  <2>2. CASE turns[t].via # None
    <3>1. PICK s \in Sessions : s = turns[t].via
      BY <2>2, TurnFields, Zenon DEF AgentInv
    <3>2. inflight' = [inflight EXCEPT ![s] = @ - 1] /\ inflight \in [Sessions -> Nat]
      BY <2>2, <3>1, Zenon DEF finishTurn, AgentInv, TypeOK
    <3>3. t \in Riders(s) /\ Riders(s) \subseteq Turns
      BY <3>1, Zenon DEF Riders
    <3>4. inflight[s] = Cardinality(Riders(s)) /\ Cardinality(Riders(s)) # 0
      BY <3>1, <3>3, TurnSets, Zenon DEF AgentInv, SessionsCountTheirTurns, Riders
    <3>5. inflight' \in [Sessions -> Nat]
      BY <3>1, <3>2, <3>4
    <3>6. SUFFICES ASSUME NEW r \in Sessions
                   PROVE  /\ inflight'[r] = Cardinality(Riders(r)')
                          /\ inflight'[r] <= MaxPerUser
                          /\ conns'[r] = "closed" => inflight'[r] = 0
      BY <3>5, Zenon DEF SessionsCountTheirTurns, Riders
    <3>7. /\ inflight[r] = Cardinality(Riders(r)) /\ inflight[r] <= MaxPerUser
          /\ conns[r] = "closed" => inflight[r] = 0
      BY Zenon DEF AgentInv, SessionsCountTheirTurns, Riders
    <3>8. CASE r = s
      <4>1. Riders(s)' = Riders(s) \ {t}
        BY <1>2, <3>1, IdleFields, AgentAssumption, Zenon DEF Riders
      <4>2. Cardinality(Riders(s)') = Cardinality(Riders(s)) - 1
        BY <3>3, <4>1, TurnSets
      <4>3. inflight'[s] = inflight[s] - 1 /\ inflight[s] \in Nat /\ MaxPerUser \in Nat
        BY <3>1, <3>2, AgentAssumption, Zenon DEF LimitsOK
      <4>4. QED BY <1>1, <3>4, <3>7, <3>8, <4>2, <4>3
    <3>9. CASE r # s
      <4>1. Riders(r)' = Riders(r)
        BY <1>2, <3>1, <3>9, IdleFields, AgentAssumption, Zenon DEF Riders
      <4>2. QED BY <1>1, <3>1, <3>2, <3>7, <3>9, <4>1, Zenon
    <3>10. QED BY <3>8, <3>9, Zenon
  <2>3. QED BY <2>1, <2>2, Zenon
<1>5. TypeOK'
  BY <1>1, <1>2, <1>4, TypeFrame, Zenon DEF AgentInv, TypeOK
<1>6. QED BY <1>2, <1>3, <1>4, <1>5, Zenon DEF AgentInv

----------------------------------------------------------------------------
(* The rate limit *)

\* enforcePerMinute: a request is counted, passes or is counted back.
LEMMA RateSteps ==
  ASSUME AgentInv, NEW t \in Turns,
         enforcePerMinute(t) \/ enforceFails(t) \/ undoRate(t)
  PROVE  AgentInv'
<1>0. PICK u \in Users : u = UserOf(t) /\ turns[t].conv \in Conversations
  BY KeyAtType, Zenon DEF enforcePerMinute, enforceFails, undoRate
<1>1. PICK pc \in {"user", "undoRate", "end"} :
        /\ Moves(t, pc, turns[t].held)
        /\ turns[t].pc \in {"rate", "undoRate"} /\ (turns[t].pc = "undoRate" => pc = "end")
  <2>1. CASE enforcePerMinute(t)
    <3>1. CASE WithinRate(rate[u] + 1)
      BY <1>0, <2>1, <3>1, GotoMoves, Zenon DEF enforcePerMinute, PCs, AgentInv
    <3>2. CASE ~WithinRate(rate[u] + 1)
      BY <1>0, <2>1, <3>2, GotoMoves, Zenon DEF enforcePerMinute, PCs, AgentInv
    <3>3. QED BY <3>1, <3>2, Zenon
  <2>2. CASE enforceFails(t)
    BY <2>2, GotoMoves, Zenon DEF enforceFails, PCs, AgentInv
  <2>3. CASE undoRate(t)
    BY <2>3, GotoMoves, Zenon DEF undoRate, PCs, AgentInv
  <2>4. QED BY <2>1, <2>2, <2>3, Zenon
<1>2. UNCHANGED <<rows, guards, deletes, conns, inflight, leaked, drifted, removed, overtaken>>
  BY Zenon DEF enforcePerMinute, enforceFails, undoRate, turnPast, deletionPast
<1>3. Working'
  BY <1>0, <1>1, Zenon DEF Moves, Working, AgentInv
<1>4. Counted'
  BY <1>1, <1>2, CountedSame, Zenon DEF Moves
<1>5. PositiveExpires'
  BY <1>2, Zenon DEF AgentInv, PositiveExpires
<1>6. SessionsCountTheirTurns'
  BY <1>1, <1>2, SessionsFrame, Zenon DEF Moves
<1>7. Deleted'
  BY <1>1, <1>2, DeletedFrame, Zenon DEF Moves, SavingPCs
<1>8. /\ rate \in [Users -> Nat] /\ accepted \in [Users -> Nat] /\ RatePerMinute \in Nat
      /\ \A v \in Users : /\ Uncounting(v) \subseteq Turns /\ Cardinality(Uncounting(v)) \in Nat
                          /\ Uncounting(v)' \subseteq Turns /\ Cardinality(Uncounting(v)') \in Nat
                          /\ rate[v] >= accepted[v] + Cardinality(Uncounting(v))
                          /\ accepted[v] <= RatePerMinute
  <2>1. \A v \in Users : Uncounting(v) \subseteq Turns /\ Uncounting(v)' \subseteq Turns
    BY Zenon DEF Uncounting
  <2>2. QED BY <2>1, TurnSets, AgentAssumption, Zenon DEF AgentInv, TypeOK, Rated, LimitsOK
<1>9. \A v \in Users : v # u => Uncounting(v)' = Uncounting(v)
  BY <1>0, <1>1, Zenon DEF Moves, Uncounting, UserOf
<1>10. rate' \in [Users -> Nat] /\ accepted' \in [Users -> Nat] /\ Rated'
  <2>1. CASE enforcePerMinute(t) /\ WithinRate(rate[u] + 1)
    <3>1. /\ rate' = [rate EXCEPT ![u] = @ + 1] /\ accepted' = [accepted EXCEPT ![u] = @ + 1]
          /\ rate[u] + 1 <= RatePerMinute /\ turns'[t].pc = "user" /\ turns[t].pc = "rate"
      BY <1>0, <2>1, GotoMoves, Zenon DEF enforcePerMinute, WithinRate, PCs, AgentInv, Moves
    <3>2. Uncounting(u)' = Uncounting(u)
      BY <1>0, <1>1, <3>1, Zenon DEF Moves, Uncounting, UserOf
    <3>3. QED BY <1>0, <1>8, <1>9, <3>1, <3>2 DEF Rated
  <2>2. CASE enforcePerMinute(t) /\ ~WithinRate(rate[u] + 1)
    <3>1. /\ rate' = [rate EXCEPT ![u] = @ + 1] /\ accepted' = accepted
          /\ turns'[t].pc = "undoRate" /\ turns[t].pc = "rate"
      BY <1>0, <2>2, GotoMoves, Zenon DEF enforcePerMinute, PCs, AgentInv, Moves
    <3>2. Uncounting(u)' = Uncounting(u) \cup {t} /\ t \notin Uncounting(u)
      BY <1>0, <1>1, <3>1, Zenon DEF Moves, Uncounting, UserOf
    <3>3. Cardinality(Uncounting(u)') = Cardinality(Uncounting(u)) + 1
      BY <1>0, <1>8, <3>2, TurnSets
    <3>4. QED BY <1>0, <1>8, <1>9, <3>1, <3>3 DEF Rated
  <2>3. CASE enforceFails(t)
    <3>1. /\ rate' = [rate EXCEPT ![u] = @ + 1] \/ rate' = rate
          /\ accepted' = accepted /\ turns'[t].pc = "user" /\ turns[t].pc = "rate"
      BY <1>0, <2>3, GotoMoves, Zenon DEF enforceFails, PCs, AgentInv, Moves
    <3>2. Uncounting(u)' = Uncounting(u)
      BY <1>0, <1>1, <3>1, Zenon DEF Moves, Uncounting, UserOf
    <3>3. QED BY <1>0, <1>8, <1>9, <3>1, <3>2 DEF Rated
  <2>4. CASE undoRate(t)
    <3>1. /\ rate' = [rate EXCEPT ![u] = @ - 1] \/ rate' = rate
          /\ accepted' = accepted /\ turns'[t].pc = "end" /\ turns[t].pc = "undoRate"
      BY <1>0, <2>4, GotoMoves, Zenon DEF undoRate, PCs, AgentInv, Moves
    <3>2. Uncounting(u)' = Uncounting(u) \ {t} /\ t \in Uncounting(u)
      BY <1>0, <1>1, <3>1, Zenon DEF Moves, Uncounting, UserOf
    <3>3. Cardinality(Uncounting(u)') = Cardinality(Uncounting(u)) - 1
      BY <1>0, <1>8, <3>2, TurnSets
    <3>4. QED BY <1>0, <1>8, <1>9, <3>1, <3>3 DEF Rated
  <2>5. QED BY <2>1, <2>2, <2>3, <2>4, Zenon
<1>11. faults' \in 0 .. MaxFaults
  BY AgentAssumption DEF enforcePerMinute, enforceFails, undoRate, Fault, AgentInv, TypeOK
<1>12. TypeOK'
  BY <1>1, <1>2, <1>10, <1>11, TypeFrame, Zenon DEF AgentInv, TypeOK, Moves
<1>13. QED BY <1>3, <1>4, <1>5, <1>6, <1>7, <1>10, <1>12, Zenon DEF AgentInv

----------------------------------------------------------------------------
(* The guards *)

\* A counter goes up or down by one, and expires if it is above zero.
LEMMA GuardsCounted ==
  ASSUME AgentInv, NEW k \in Keys,
         \/ guards' = [guards EXCEPT ![k] = Incr(guards[k])]
         \/ guards' = [guards EXCEPT ![k] = Decr(guards[k])]
         \/ guards' = guards
  PROVE  /\ guards' \in [Keys -> [n : Int, ttl : NoTTL .. GuardTTL]] /\ PositiveExpires'
         /\ \A x \in Keys : x # k => guards'[x] = guards[x]
         /\ guards' = [guards EXCEPT ![k] = Incr(guards[k])] => guards'[k].n = guards[k].n + 1
         /\ guards' = [guards EXCEPT ![k] = Decr(guards[k])] => guards'[k].n = guards[k].n - 1
<1> DEFINE G == [n : Int, ttl : NoTTL .. GuardTTL]
<1>1. /\ guards \in [Keys -> G] /\ guards[k].n \in Int /\ guards[k].ttl \in NoTTL .. GuardTTL
      /\ GuardTTL \in Nat /\ NoTTL = -1
  BY AgentAssumption, Zenon DEF AgentInv, TypeOK, LimitsOK, NoTTL
<1>2. guards[k].n > 0 => guards[k].ttl # NoTTL
  BY Zenon DEF AgentInv, PositiveExpires
<1>3. /\ Incr(guards[k]) \in G /\ Incr(guards[k]).n = guards[k].n + 1
      /\ Incr(guards[k]).n > 0 => Incr(guards[k]).ttl # NoTTL
  BY <1>1, <1>2 DEF Incr
<1>4. /\ Decr(guards[k]) \in G /\ Decr(guards[k]).n = guards[k].n - 1
      /\ Decr(guards[k]).n > 0 => Decr(guards[k]).ttl # NoTTL
  BY <1>1, <1>2 DEF Decr
<1> HIDE DEF G
<1>5. ASSUME NEW g \in G, guards' = [guards EXCEPT ![k] = g], g.n > 0 => g.ttl # NoTTL
      PROVE  /\ guards' \in [Keys -> G] /\ PositiveExpires'
             /\ guards'[k] = g /\ \A x \in Keys : x # k => guards'[x] = guards[x]
  BY <1>1, <1>5, Zenon DEF AgentInv, PositiveExpires
<1>6. guards' = guards => guards' \in [Keys -> G] /\ PositiveExpires'
  BY <1>1, Zenon DEF AgentInv, PositiveExpires
<1>7. QED BY <1>3, <1>4, <1>5, <1>6, Zenon DEF G

\* A step on one counter leaves the others right.
LEMMA CountedMove ==
  ASSUME AgentInv, NEW t \in Turns, NEW k \in Keys, NEW pc \in PCs, NEW held,
         Moves(t, pc, held), UNCHANGED drifted,
         held \subseteq turns[t].held \cup {k}, pc = "undoConv" => turns[t].conv = k,
         \A c \in Conversations : c # k => guards'[c].n = guards[c].n,
         k \in Conversations /\ k \notin drifted =>
            /\ guards'[k].n >= Cardinality(Holders(k)') + Cardinality(Undoing(k)')
            /\ Cardinality(Holders(k)') <= MaxPerConversation
  PROVE  Counted'
<1>1. SUFFICES ASSUME NEW c \in Conversations, c \notin drifted', c # k
               PROVE  /\ guards'[c].n >= Cardinality(Holders(c)') + Cardinality(Undoing(c)')
                      /\ Cardinality(Holders(c)') <= MaxPerConversation
  BY Zenon DEF Counted
<1>2. Holders(c)' \subseteq Holders(c) /\ Undoing(c)' \subseteq Undoing(c)
  BY <1>1 DEF Moves, Holders, Undoing
<1>3. QED BY <1>1, <1>2, CountedFrame, Zenon

\* What remains to show of a step on a counter.
LEMMA GuardStep ==
  ASSUME AgentInv, NEW t \in Turns, NEW pc \in PCs, NEW held, Moves(t, pc, held),
         turns[t].pc \notin {"idle", "undoRate"}, pc \notin {"idle", "undoRate"},
         pc \in SavingPCs => turns[t].pc \in SavingPCs,
         UNCHANGED <<rows, rate, deletes, conns, inflight, accepted, drifted, deletionPast>>,
         leaked' \subseteq Conversations, faults' \in 0 .. MaxFaults,
         guards' \in [Keys -> [n : Int, ttl : NoTTL .. GuardTTL]],
         PositiveExpires', Counted'
  PROVE  AgentInv'
<1>1. Working'
  BY Zenon DEF Moves, Working, AgentInv
<1>2. Rated'
  BY RatedFrame, Zenon DEF Moves
<1>3. Deleted'
  BY DeletedFrame, Zenon DEF Moves, deletionPast
<1>4. SessionsCountTheirTurns'
  BY SessionsFrame, Zenon DEF Moves
<1>5. TypeOK'
  BY TypeFrame, Zenon DEF AgentInv, TypeOK, Moves, deletionPast
<1>6. QED BY <1>1, <1>2, <1>3, <1>4, <1>5, Zenon DEF AgentInv

\* The counts of a conversation before and after a step of turn t.
LEMMA ConversationCounts ==
  ASSUME AgentInv, NEW c \in Conversations, c \notin drifted
  PROVE  /\ Holders(c) \subseteq Turns /\ Undoing(c) \subseteq Turns
         /\ Holders(c)' \subseteq Turns /\ Undoing(c)' \subseteq Turns
         /\ Cardinality(Holders(c)) \in Nat /\ Cardinality(Undoing(c)) \in Nat
         /\ Cardinality(Holders(c)') \in Nat /\ Cardinality(Undoing(c)') \in Nat
         /\ guards[c].n \in Int /\ MaxPerConversation \in Nat
         /\ guards[c].n >= Cardinality(Holders(c)) + Cardinality(Undoing(c))
         /\ Cardinality(Holders(c)) <= MaxPerConversation
<1>1. /\ Holders(c) \subseteq Turns /\ Undoing(c) \subseteq Turns
      /\ Holders(c)' \subseteq Turns /\ Undoing(c)' \subseteq Turns
  BY Zenon DEF Holders, Undoing
<1>2. guards[c].n \in Int /\ MaxPerConversation \in Nat
  BY AgentAssumption, Zenon DEF LimitsOK, AgentInv, TypeOK, Keys
<1>3. QED BY <1>1, <1>2, TurnSets, Zenon DEF AgentInv, Counted

\* acquireCounterGuard: a turn takes a guard, or is refused and will count back.
LEMMA AcquireStep ==
  ASSUME AgentInv, NEW t \in Turns, acquireCounterGuard(t)
  PROVE  AgentInv'
<1>0. turns[t].pc \in {"user", "conv"} /\ TypeOK
  BY Zenon DEF acquireCounterGuard, AgentInv
<1>1. PICK k \in Keys : k = KeyAt(t)
  BY <1>0, KeyAtType, Zenon
<1>2. /\ turns[t].pc = "user" => k \in Users /\ k \notin Conversations
      /\ turns[t].pc = "conv" => k = turns[t].conv /\ k \in Conversations /\ k \notin Users
  BY <1>0, <1>1, KeyAtType, AgentAssumption, Zenon
<1>3. guards' = [guards EXCEPT ![k] = Incr(guards[k])]
  BY <1>1, Zenon DEF acquireCounterGuard
<1>4. /\ guards' \in [Keys -> [n : Int, ttl : NoTTL .. GuardTTL]] /\ PositiveExpires'
      /\ \A x \in Keys : x # k => guards'[x] = guards[x]
      /\ guards'[k].n = guards[k].n + 1
  BY <1>3, GuardsCounted, Zenon
<1>5. /\ UNCHANGED <<rows, rate, deletes, conns, inflight, accepted, drifted, deletionPast>>
      /\ leaked' \subseteq Conversations /\ faults' \in 0 .. MaxFaults
  BY Zenon DEF acquireCounterGuard, turnPast, AgentInv, TypeOK
<1>6. CASE WithinLimit(guards[k].n + 1, k)
  <2>1. Moves(t, NextGuard(turns[t].pc), turns[t].held \cup {k})
    BY <1>0, <1>1, <1>6, GuardMoves, Zenon DEF acquireCounterGuard, PCs
  <2>2. PICK pc \in {"conv", "save"} : pc = NextGuard(turns[t].pc)
    BY <1>0, Zenon DEF NextGuard
  <2>3. ASSUME k \in Conversations, k \notin drifted
        PROVE  /\ guards'[k].n >= Cardinality(Holders(k)') + Cardinality(Undoing(k)')
               /\ Cardinality(Holders(k)') <= MaxPerConversation
    <3>1. guards[k].n + 1 <= MaxPerConversation
      BY <1>2, <1>0, <1>6, <2>3, Zenon DEF WithinLimit, LimitOf
    <3>2. Holders(k)' = Holders(k) \cup {t} /\ Undoing(k)' = Undoing(k)
      BY <1>0, <2>1, <2>2, Zenon DEF Moves, Holders, Undoing
    <3>3. Cardinality(Holders(k)') <= Cardinality(Holders(k)) + 1
      <4>1. CASE t \in Holders(k)
        <5>1. Holders(k)' = Holders(k)
          BY <3>2, <4>1, Zenon
        <5>2. QED BY <5>1, <2>3, ConversationCounts
      <4>2. CASE t \notin Holders(k)
        BY <3>2, <4>2, <2>3, ConversationCounts, TurnSets
      <4>3. QED BY <4>1, <4>2, Zenon
    <3>4. /\ Cardinality(Holders(k)) \in Nat /\ Cardinality(Undoing(k)) \in Nat
          /\ Cardinality(Holders(k)') \in Nat /\ guards[k].n \in Int /\ MaxPerConversation \in Nat
          /\ guards[k].n >= Cardinality(Holders(k)) + Cardinality(Undoing(k))
      BY <2>3, ConversationCounts, Zenon
    <3>5. QED BY <1>4, <3>1, <3>2, <3>3, <3>4
  <2>4. Counted'
    <3>1. Moves(t, pc, turns[t].held \cup {k})
      BY <2>1, <2>2, Zenon
    <3>2. pc \in PCs /\ pc # "undoConv" /\ turns[t].held \cup {k} \subseteq turns[t].held \cup {k}
      BY <2>2, Zenon DEF PCs
    <3>3. UNCHANGED drifted /\ \A c \in Conversations : c # k => guards'[c].n = guards[c].n
      BY <1>4, <1>5, Zenon DEF Keys
    <3> QED BY <2>3, <3>1, <3>2, <3>3, CountedMove, Zenon
  <2>5. QED
    BY <1>0, <1>4, <1>5, <2>1, <2>2, <2>4, GuardStep, Zenon DEF PCs, SavingPCs
<1>7. CASE ~WithinLimit(guards[k].n + 1, k)
  <2>1. Moves(t, Undo(turns[t].pc), turns[t].held)
    BY <1>0, <1>1, <1>7, GuardMoves, Zenon DEF acquireCounterGuard, PCs
  <2>2. PICK pc \in {"undoUser", "undoConv"} : pc = Undo(turns[t].pc)
    BY <1>0, Zenon DEF Undo
  <2>3. ASSUME k \in Conversations, k \notin drifted
        PROVE  /\ guards'[k].n >= Cardinality(Holders(k)') + Cardinality(Undoing(k)')
               /\ Cardinality(Holders(k)') <= MaxPerConversation
    <3>1. turns[t].pc = "conv" /\ turns[t].conv = k
      BY <1>0, <1>2, <2>3, Zenon
    <3>2. Holders(k)' = Holders(k)
      BY <2>1, Zenon DEF Moves, Holders
    <3>3. Undoing(k)' = Undoing(k) \cup {t} /\ t \notin Undoing(k)
      BY <2>1, <3>1, Zenon DEF Moves, Undoing, Undo
    <3>4. Cardinality(Undoing(k)') = Cardinality(Undoing(k)) + 1
      BY <2>3, <3>3, ConversationCounts, TurnSets, Zenon
    <3>5. QED BY <1>4, <2>3, <3>2, <3>4, ConversationCounts
  <2>4. Counted'
    BY <1>0, <1>2, <1>4, <2>1, <2>2, <2>3, CountedMove, Zenon
       DEF PCs, Keys, acquireCounterGuard, turnPast, Undo
  <2>5. QED
    BY <1>0, <1>4, <1>5, <2>1, <2>2, <2>4, GuardStep, Zenon DEF PCs, SavingPCs
<1>8. QED BY <1>6, <1>7, Zenon

\* acquireCounterGuard when Redis fails or its answer is lost: the turn goes on
\* without the guard, whatever was counted.
LEMMA AcquireFailsStep ==
  ASSUME AgentInv, NEW t \in Turns, acquireFails(t)
  PROVE  AgentInv'
<1>1. PICK pc \in {"conv", "save"} : pc = NextGuard(turns[t].pc)
  BY Zenon DEF acquireFails, NextGuard
<1>2. Moves(t, pc, turns[t].held) /\ turns[t].pc \in {"user", "conv"}
  BY <1>1, GotoMoves, Zenon DEF acquireFails, PCs, AgentInv
<1>3. /\ UNCHANGED <<rows, rate, deletes, conns, inflight, accepted, drifted, deletionPast>>
      /\ leaked' \subseteq Conversations /\ faults' \in 0 .. MaxFaults
  BY AgentAssumption DEF acquireFails, Leak, AgentInv, TypeOK, Fault
<1>4. PICK k \in Keys : k = KeyAt(t)
  BY <1>2, KeyAtType, Zenon
<1>5. CASE UNCHANGED guards
  <2>1. Counted'
    BY <1>2, <1>3, <1>5, CountedSame, Zenon DEF Moves
  <2>2. guards' \in [Keys -> [n : Int, ttl : NoTTL .. GuardTTL]] /\ PositiveExpires'
    BY <1>5, Zenon DEF AgentInv, TypeOK, PositiveExpires
  <2> QED BY <1>2, <1>3, <2>1, <2>2, GuardStep, Zenon DEF PCs, SavingPCs
<1>6. CASE guards' = [guards EXCEPT ![k] = Incr(guards[k])]
  <2>1. /\ guards' \in [Keys -> [n : Int, ttl : NoTTL .. GuardTTL]] /\ PositiveExpires'
        /\ \A x \in Keys : x # k => guards'[x] = guards[x]
        /\ guards'[k].n = guards[k].n + 1
    BY <1>6, GuardsCounted, Zenon
  <2>2. ASSUME k \in Conversations, k \notin drifted
        PROVE  /\ guards'[k].n >= Cardinality(Holders(k)') + Cardinality(Undoing(k)')
               /\ Cardinality(Holders(k)') <= MaxPerConversation
    <3>1. Holders(k)' = Holders(k) /\ Undoing(k)' = Undoing(k)
      BY <1>1, <1>2, Zenon DEF Moves, Holders, Undoing
    <3> QED BY <2>1, <2>2, <3>1, ConversationCounts
  <2>3. pc \in PCs /\ pc # "undoConv" /\ turns[t].held \subseteq turns[t].held \cup {k}
    BY Zenon DEF PCs
  <2>4. UNCHANGED drifted /\ \A c \in Conversations : c # k => guards'[c].n = guards[c].n
    BY <1>3, <2>1, Zenon DEF Keys
  <2>5. Counted'
    BY <1>2, <2>2, <2>3, <2>4, CountedMove, Zenon
  <2> QED BY <1>2, <1>3, <2>1, <2>3, <2>5, GuardStep, Zenon DEF SavingPCs
<1> QED BY <1>4, <1>5, <1>6, Zenon DEF acquireFails

\* The release of acquireCounterGuard on the refused path: the attempt is counted
\* back, or Redis fails and it stays counted.
LEMMA UndoGuardStep ==
  ASSUME AgentInv, NEW t \in Turns, undoGuard(t)
  PROVE  AgentInv'
<1>0. turns[t].pc \in {"undoUser", "undoConv"} /\ TypeOK
  BY Zenon DEF undoGuard, AgentInv
<1>1. PICK k \in Keys : k = KeyAt(t)
  BY <1>0, KeyAtType, Zenon
<1>2. /\ turns[t].pc = "undoUser" => k \notin Conversations
      /\ turns[t].pc = "undoConv" => k = turns[t].conv
  BY <1>0, <1>1, KeyAtType, AgentAssumption, Zenon
<1>3. PICK pc \in {"end", "releaseUser"} : pc = AfterUndo(t)
  BY Zenon DEF AfterUndo
<1>4. Moves(t, pc, turns[t].held)
  BY <1>3, GotoMoves, Zenon DEF undoGuard, PCs, AgentInv
<1>5. /\ UNCHANGED <<rows, rate, deletes, conns, inflight, accepted, drifted, deletionPast>>
      /\ leaked' \subseteq Conversations /\ faults' \in 0 .. MaxFaults
  BY AgentAssumption DEF undoGuard, AgentInv, TypeOK, Fault, Leak
<1>6. guards' = [guards EXCEPT ![k] = Decr(guards[k])] \/ guards' = guards
  BY <1>1, Zenon DEF undoGuard
<1>7. /\ guards' \in [Keys -> [n : Int, ttl : NoTTL .. GuardTTL]] /\ PositiveExpires'
      /\ \A x \in Keys : x # k => guards'[x] = guards[x]
      /\ guards'[k].n = guards[k].n - 1 \/ guards'[k].n = guards[k].n
  BY <1>6, GuardsCounted, Zenon
<1>8. ASSUME k \in Conversations, k \notin drifted
      PROVE  /\ guards'[k].n >= Cardinality(Holders(k)') + Cardinality(Undoing(k)')
             /\ Cardinality(Holders(k)') <= MaxPerConversation
  <2>1. turns[t].pc = "undoConv" /\ turns[t].conv = k
    BY <1>0, <1>2, <1>8, Zenon
  <2>2. Holders(k)' = Holders(k)
    BY <1>4, Zenon DEF Moves, Holders
  <2>3. Undoing(k)' = Undoing(k) \ {t} /\ t \in Undoing(k)
    BY <1>4, <2>1, Zenon DEF Moves, Undoing
  <2>4. Cardinality(Undoing(k)') = Cardinality(Undoing(k)) - 1
    BY <1>8, <2>3, ConversationCounts, TurnSets
  <2>5. QED BY <1>7, <1>8, <2>2, <2>4, ConversationCounts
<1>9. Counted'
  BY <1>4, <1>5, <1>7, <1>8, CountedMove DEF PCs, Keys
<1>10. QED BY <1>0, <1>4, <1>5, <1>7, <1>9, GuardStep, Zenon DEF PCs, SavingPCs

\* The release functions: a guard that is held is counted back, or Redis fails.
LEMMA ReleaseStep ==
  ASSUME AgentInv, NEW t \in Turns, releaseGuard(t) \/ releaseFails(t)
  PROVE  AgentInv'
<1>0. turns[t].pc \in {"release", "releaseUser"} /\ TypeOK
  BY Zenon DEF releaseGuard, releaseFails, AgentInv
<1>1. PICK k \in Keys : k = KeyAt(t)
  BY <1>0, KeyAtType, Zenon
<1>2. PICK pc \in {"end", "releaseUser"} : pc = AfterRelease(t)
  BY Zenon DEF AfterRelease
<1>3. Moves(t, pc, turns[t].held \ {k})
  BY <1>0, <1>1, <1>2, GuardMoves, Zenon DEF releaseGuard, releaseFails, PCs
<1>4. /\ UNCHANGED <<rows, rate, deletes, conns, inflight, accepted, drifted, deletionPast>>
      /\ leaked' \subseteq Conversations /\ faults' \in 0 .. MaxFaults
  BY AgentAssumption DEF releaseGuard, releaseFails, AgentInv, TypeOK, Fault, Leak, turnPast
<1>5. \/ k \in turns[t].held /\ guards' = [guards EXCEPT ![k] = Decr(guards[k])]
      \/ guards' = guards
  BY <1>1, Zenon DEF releaseGuard, releaseFails
<1>6. /\ guards' \in [Keys -> [n : Int, ttl : NoTTL .. GuardTTL]] /\ PositiveExpires'
      /\ \A x \in Keys : x # k => guards'[x] = guards[x]
      /\ \/ k \in turns[t].held /\ guards'[k].n = guards[k].n - 1
         \/ guards'[k].n = guards[k].n
  BY <1>5, GuardsCounted, Zenon
<1>7. ASSUME k \in Conversations, k \notin drifted
      PROVE  /\ guards'[k].n >= Cardinality(Holders(k)') + Cardinality(Undoing(k)')
             /\ Cardinality(Holders(k)') <= MaxPerConversation
  <2>1. Undoing(k)' = Undoing(k)
    BY <1>0, <1>3, Zenon DEF Moves, Undoing
  <2>2. Holders(k)' = Holders(k) \ {t}
    BY <1>3, Zenon DEF Moves, Holders
  <2>3. CASE t \in Holders(k)
    <3>1. Cardinality(Holders(k)') = Cardinality(Holders(k)) - 1
      BY <1>7, <2>2, <2>3, ConversationCounts, TurnSets
    <3>2. QED BY <1>6, <1>7, <2>1, <3>1, ConversationCounts
  <2>4. CASE t \notin Holders(k)
    <3>1. Holders(k)' = Holders(k) /\ guards'[k].n = guards[k].n
      BY <1>6, <2>2, <2>4, Zenon DEF Holders
    <3>2. QED BY <1>7, <2>1, <3>1, ConversationCounts, Zenon
  <2>5. QED BY <2>3, <2>4, Zenon
<1>8. Counted'
  BY <1>3, <1>4, <1>6, <1>7, CountedMove DEF PCs, Keys
<1>9. QED BY <1>0, <1>3, <1>4, <1>6, <1>8, GuardStep, Zenon DEF PCs, SavingPCs

----------------------------------------------------------------------------
(* Deletions and sessions *)

\* DeleteConversation and its last statement: a conversation whose row goes while
\* no turn will save it is not saved again.
LEMMA DeleteSteps ==
  ASSUME AgentInv, NEW c \in Conversations, DeleteConversation(c) \/ deleteConversationRecord(c)
  PROVE  AgentInv'
<1>1. UNCHANGED <<guards, rate, turns, conns, inflight, accepted, leaked, drifted, faults>>
  BY Zenon DEF DeleteConversation, deleteConversationRecord, turnPast
<1>2. /\ Working' /\ Counted' /\ Rated' /\ PositiveExpires' /\ SessionsCountTheirTurns'
      /\ \A d \in Conversations : Saving(d)' = Saving(d)
  BY <1>1, Zenon DEF AgentInv, Working, Counted, Holders, Undoing, Rated, Uncounting, UserOf,
              PositiveExpires, SessionsCountTheirTurns, Saving
<1>3. /\ deletes' \subseteq Conversations
      /\ \/ UNCHANGED <<rows, removed, overtaken>>
         \/ /\ rows' = [rows EXCEPT ![c] = Absent]
            /\ removed' = removed \cup {c}
            /\ overtaken' = IF Saving(c) THEN overtaken \cup {c} ELSE overtaken \ {c}
  BY Zenon DEF DeleteConversation, deleteConversationRecord, turnPast, deletionPast, AgentInv, TypeOK
<1>4. /\ rows' \in [Conversations -> {Unused, Absent, "pending", "settled"}]
      /\ removed' \subseteq Conversations /\ overtaken' \subseteq Conversations
  BY <1>3, Zenon DEF AgentInv, TypeOK
<1>5. TypeOK'
  BY <1>1, <1>3, <1>4, Zenon DEF AgentInv, TypeOK
<1>6. Deleted'
  BY <1>2, <1>3, <1>4 DEF AgentInv, Deleted, TypeOK
<1>7. QED BY <1>2, <1>5, <1>6, Zenon DEF AgentInv

\* A session opens, ends reading, and closes once its turns have ended.
LEMMA SessionSteps ==
  ASSUME AgentInv, NEW s \in Sessions, WS(s) \/ readEnds(s) \/ closeConn(s)
  PROVE  AgentInv'
<1>1. UNCHANGED <<rows, guards, rate, turns, deletes, inflight, accepted, turnPast, faults>>
  BY Zenon DEF WS, readEnds, closeConn
<1>2. TypeOK'
  BY <1>1, Zenon DEF AgentInv, TypeOK, WS, readEnds, closeConn, turnPast, deletionPast
<1>3. Working' /\ Counted' /\ Rated' /\ PositiveExpires' /\ Deleted'
  BY <1>1, Zenon DEF AgentInv, Working, Counted, Holders, Undoing, Rated, Uncounting, UserOf,
              PositiveExpires, Deleted, Saving, turnPast, deletionPast
<1>4. SessionsCountTheirTurns'
  <2>1. SUFFICES ASSUME NEW r \in Sessions, conns'[r] = "closed"
                 PROVE  inflight[r] = 0
    BY <1>1, Zenon DEF AgentInv, SessionsCountTheirTurns
  <2>2. CASE conns[r] = "closed"
    BY <2>2, Zenon DEF AgentInv, SessionsCountTheirTurns
  <2>3. CASE conns[r] # "closed"
    <3>1. Drained(r)
      BY <2>1, <2>3, Zenon DEF WS, readEnds, closeConn, AgentInv, TypeOK
    <3>2. Riders(r) = {}
      BY <3>1, Zenon DEF Drained, Riders
    <3>3. Cardinality(Riders(r)) = 0
      BY <3>2, TurnSets, Zenon
    <3>4. QED BY <3>3, Zenon DEF AgentInv, SessionsCountTheirTurns, Riders
  <2>4. QED BY <2>2, <2>3, Zenon
<1>5. QED BY <1>2, <1>3, <1>4, Zenon DEF AgentInv

----------------------------------------------------------------------------
(* Time and crashes *)

\* A counter expires: nobody was counted in it, or it has expired in use.
LEMMA ExpireStep ==
  ASSUME AgentInv, NEW k \in Keys, Expire(k)
  PROVE  AgentInv'
<1>1. /\ guards' = [guards EXCEPT ![k] = NoKey]
      /\ UNCHANGED <<rows, rate, turns, deletes, conns, inflight, accepted, leaked, faults,
                     removed, overtaken>>
  BY Zenon DEF Expire, deletionPast
<1>2. NoKey \in [n : Int, ttl : NoTTL .. GuardTTL] /\ NoKey.n = 0
  BY AgentAssumption DEF NoKey, NoTTL, LimitsOK
<1>3. /\ drifted \subseteq drifted' /\ drifted' \subseteq Conversations
      /\ k \in Conversations /\ InUse(k) => k \in drifted'
  BY Zenon DEF Expire, AgentInv, TypeOK
<1>4. /\ guards' \in [Keys -> [n : Int, ttl : NoTTL .. GuardTTL]]
      /\ guards'[k].n = 0 /\ \A x \in Keys : x # k => guards'[x] = guards[x]
  BY <1>1, <1>2, Zenon DEF AgentInv, TypeOK
<1>5. TypeOK'
  BY <1>1, <1>3, <1>4, Zenon DEF AgentInv, TypeOK
<1>6. PositiveExpires'
  BY <1>4 DEF AgentInv, PositiveExpires
<1>7. Working' /\ Rated' /\ Deleted' /\ SessionsCountTheirTurns'
  BY <1>1, Zenon DEF AgentInv, Working, Rated, Uncounting, UserOf, Deleted, Saving, SessionsCountTheirTurns
<1>8. Counted'
  <2>1. SUFFICES ASSUME NEW c \in Conversations, c \notin drifted'
                 PROVE  /\ guards'[c].n >= Cardinality(Holders(c)') + Cardinality(Undoing(c)')
                        /\ Cardinality(Holders(c)') <= MaxPerConversation
    BY Zenon DEF Counted
  <2>2. Holders(c)' = Holders(c) /\ Undoing(c)' = Undoing(c)
    BY <1>1, Zenon DEF Holders, Undoing
  <2>3. CASE c # k
    BY <1>3, <1>4, <2>1, <2>2, <2>3, CountedFrame, Zenon DEF Keys
  <2>4. CASE c = k
    <3>1. Holders(c) = {} /\ Undoing(c) = {}
      BY <1>3, <2>1, <2>4, Zenon DEF InUse, KeyAt, Holders, Undoing
    <3>2. Cardinality(Holders(c)') = 0 /\ Cardinality(Undoing(c)') = 0
      BY <2>2, <3>1, TurnSets, Zenon
    <3>3. MaxPerConversation \in Nat
      BY AgentAssumption, Zenon DEF LimitsOK
    <3>4. QED BY <1>4, <2>4, <3>2, <3>3
  <2>5. QED BY <2>3, <2>4, Zenon
<1>9. QED BY <1>5, <1>6, <1>7, <1>8, Zenon DEF AgentInv

\* Time passes while every turn waits for the agent.
LEMMA TickStep ==
  ASSUME AgentInv, Tick
  PROVE  AgentInv'
<1>1. \A t \in Turns : /\ turns'[t] \in TurnRows /\ turns'[t].pc = turns[t].pc
                       /\ turns'[t].conv = turns[t].conv /\ turns'[t].via = turns[t].via
                       /\ turns'[t].held = turns[t].held /\ turns[t].pc \in {"idle", "call"}
  <2>1. SUFFICES ASSUME NEW t \in Turns
                 PROVE  /\ turns'[t] \in TurnRows /\ turns'[t].pc = turns[t].pc
                        /\ turns'[t].conv = turns[t].conv /\ turns'[t].via = turns[t].via
                        /\ turns'[t].held = turns[t].held /\ turns[t].pc \in {"idle", "call"}
    OBVIOUS
  <2>2. CASE turns[t].pc = "call"
    <3>1. turns'[t] = Waited(turns[t]) /\ turns[t].left > 0
      BY <2>2, IdleFields, Zenon DEF Tick, Waiting
    <3>2. turns[t].left \in 0 .. Timeout /\ Timeout \in Nat /\ TypeOK
      BY AgentAssumption, TurnFields, Zenon DEF AgentInv, LimitsOK
    <3>3. turns[t].left - 1 \in 0 .. Timeout
      BY <3>1, <3>2
    <3>4. QED BY <2>2, <3>1, <3>2, <3>3, TurnFields, Zenon DEF Waited, TurnRows
  <2>3. CASE turns[t].pc # "call"
    <3>1. turns[t] = Idle /\ turns'[t] = Idle
      BY <2>3, Zenon DEF Tick, Waiting
    <3>2. QED BY <3>1, IdleFields, Zenon
  <2>4. QED BY <2>2, <2>3, Zenon
<1>2. turns' \in [Turns -> TurnRows]
  BY <1>1, Zenon DEF Tick
<1>3. \A k \in Keys : /\ guards'[k] \in [n : Int, ttl : NoTTL .. GuardTTL]
                      /\ guards'[k].n = guards[k].n
                      /\ guards[k].ttl # NoTTL => guards'[k].ttl # NoTTL
  <2>1. SUFFICES ASSUME NEW k \in Keys
                 PROVE  /\ guards'[k] \in [n : Int, ttl : NoTTL .. GuardTTL]
                        /\ guards'[k].n = guards[k].n
                        /\ guards[k].ttl # NoTTL => guards'[k].ttl # NoTTL
    OBVIOUS
  <2>2. guards'[k] = Aged(guards[k]) /\ guards[k].ttl # 0
    BY Zenon DEF Tick
  <2>3. guards[k].n \in Int /\ guards[k].ttl \in NoTTL .. GuardTTL /\ GuardTTL \in Nat
    BY AgentAssumption, Zenon DEF AgentInv, TypeOK, LimitsOK
  <2>4. QED BY <2>2, <2>3 DEF Aged, NoTTL
<1>4. guards' \in [Keys -> [n : Int, ttl : NoTTL .. GuardTTL]]
  BY <1>3, Zenon DEF Tick
<1>5. PositiveExpires'
  BY <1>3, Zenon DEF AgentInv, PositiveExpires
<1>6. UNCHANGED <<rows, deletes, conns, inflight, leaked, drifted, removed, overtaken, faults>>
  BY Zenon DEF Tick, turnPast, deletionPast
<1>7. Working'
  BY <1>1, Zenon DEF AgentInv, Working
<1>8. Counted'
  <2>1. SUFFICES ASSUME NEW c \in Conversations, c \notin drifted'
                 PROVE  /\ guards'[c].n >= Cardinality(Holders(c)') + Cardinality(Undoing(c)')
                        /\ Cardinality(Holders(c)') <= MaxPerConversation
    BY Zenon DEF Counted
  <2>2. Holders(c)' = Holders(c) /\ Undoing(c)' = Undoing(c)
    BY <1>1, Zenon DEF Holders, Undoing
  <2>3. QED BY <1>3, <1>6, <2>1, <2>2, CountedFrame, Zenon DEF Keys
<1>9. rate' \in [Users -> Nat] /\ accepted' \in [Users -> Nat] /\ Rated'
  <2>1. CASE UNCHANGED <<rate, accepted>>
    BY <1>1, <2>1, RatedFrame, Zenon DEF AgentInv, TypeOK
  <2>2. CASE rate' = [u \in Users |-> 0] /\ accepted' = [u \in Users |-> 0]
    <3>1. \A u \in Users : Uncounting(u)' = {}
      BY <1>1, Zenon DEF Uncounting
    <3>2. \A u \in Users : Cardinality(Uncounting(u)') = 0
      BY <3>1, TurnSets, Zenon
    <3>3. RatePerMinute \in Nat
      BY AgentAssumption, Zenon DEF LimitsOK
    <3>4. QED BY <2>2, <3>2, <3>3 DEF Rated
  <2>3. QED BY <2>1, <2>2, Zenon DEF Tick
<1>10. Deleted'
  BY <1>1, <1>6, DeletedFrame, Zenon
<1>11. SessionsCountTheirTurns'
  BY <1>1, <1>6, SessionsFrame, Zenon
<1>12. TypeOK'
  BY <1>2, <1>4, <1>6, <1>9, TypeFrame, Zenon DEF AgentInv, TypeOK
<1>13. QED BY <1>5, <1>7, <1>8, <1>9, <1>10, <1>11, <1>12, Zenon DEF AgentInv

\* The process crashes with its turns and its sessions; the counters stay in Redis.
LEMMA RestartStep ==
  ASSUME AgentInv, Restart
  PROVE  AgentInv'
<1>1. \A t \in Turns : turns'[t] = Idle
  BY Zenon DEF Restart
<1>2. UNCHANGED <<rows, guards, rate, accepted, drifted, removed, overtaken>>
  BY Zenon DEF Restart, deletionPast
<1>3. TypeOK'
  <2>1. turns' \in [Turns -> TurnRows] /\ inflight' \in [Sessions -> Nat] /\ deletes' = {}
    BY IdleFields, Zenon DEF Restart
  <2>2. conns' \in [Sessions -> {"none", "open", "closing", "closed"}]
    BY Zenon DEF Restart
  <2>3. leaked' \subseteq Conversations /\ faults' \in 0 .. MaxFaults
    BY AgentAssumption DEF Restart, Leak, Fault, AgentInv, TypeOK
  <2>4. QED BY <1>2, <2>1, <2>2, <2>3, Zenon DEF AgentInv, TypeOK
<1>4. Working'
  BY <1>1, IdleFields, Zenon DEF Working
<1>5. Counted'
  BY <1>1, <1>2, IdleFields, CountedSame, Zenon
<1>6. Rated'
  <2>1. SUFFICES ASSUME NEW u \in Users
                 PROVE  /\ rate'[u] >= accepted'[u] + Cardinality(Uncounting(u)')
                        /\ accepted'[u] <= RatePerMinute
    BY Zenon DEF Rated
  <2>2. Uncounting(u)' = {}
    BY <1>1, IdleFields, Zenon DEF Uncounting
  <2>3. Cardinality(Uncounting(u)') = 0 /\ Uncounting(u) \subseteq Turns
    BY <2>2, TurnSets, Zenon DEF Uncounting
  <2>4. rate[u] \in Nat /\ accepted[u] \in Nat /\ Cardinality(Uncounting(u)) \in Nat
    BY <2>3, TurnSets, Zenon DEF AgentInv, TypeOK
  <2>5. QED BY <1>2, <2>3, <2>4 DEF AgentInv, Rated
<1>7. Deleted'
  BY <1>1, <1>2, IdleFields, DeletedFrame, Zenon DEF SavingPCs
<1>8. PositiveExpires'
  BY <1>2, Zenon DEF AgentInv, PositiveExpires
<1>9. SessionsCountTheirTurns'
  <2>1. SUFFICES ASSUME NEW s \in Sessions
                 PROVE  /\ inflight'[s] = Cardinality(Riders(s)') /\ inflight'[s] <= MaxPerUser
                        /\ conns'[s] = "closed" => inflight'[s] = 0
    BY Zenon DEF SessionsCountTheirTurns, Riders
  <2>2. Riders(s)' = {}
    BY <1>1, IdleFields, AgentAssumption, Zenon DEF Riders
  <2>3. Cardinality(Riders(s)') = 0
    BY <2>2, TurnSets, Zenon
  <2>4. inflight'[s] = 0 /\ MaxPerUser \in Nat
    BY AgentAssumption, Zenon DEF Restart, LimitsOK
  <2>5. QED BY <2>3, <2>4
<1>10. QED BY <1>3, <1>4, <1>5, <1>6, <1>7, <1>8, <1>9, Zenon DEF AgentInv

----------------------------------------------------------------------------
(* The theorems *)

\* Nothing runs and nothing is counted at the start (Init).
LEMMA AgentInit == Init => AgentInv
<1>1. SUFFICES ASSUME Init PROVE AgentInv
  OBVIOUS
<1>2. /\ turns = [t \in Turns |-> Idle] /\ NoKey \in [n : Int, ttl : NoTTL .. GuardTTL]
      /\ NoKey.n = 0 /\ {MaxPerUser, MaxPerConversation, RatePerMinute} \subseteq Nat
  BY <1>1, AgentAssumption DEF Init, NoKey, NoTTL, LimitsOK
<1>3. TypeOK
  BY <1>1, <1>2, IdleFields, AgentAssumption DEF Init, TypeOK
<1>4. /\ \A c \in Conversations : Holders(c) = {} /\ Undoing(c) = {}
      /\ \A u \in Users : Uncounting(u) = {}
      /\ \A s \in Sessions : Riders(s) = {}
  BY <1>2, IdleFields, AgentAssumption, Zenon DEF Holders, Undoing, Uncounting, Riders
<1>5. Cardinality({}) = 0
  BY FS_EmptySet, Zenon
<1>6. Working /\ Deleted
  BY <1>1, <1>2, IdleFields, Zenon DEF Working, Deleted, Init
<1>7. Counted
  BY <1>1, <1>2, <1>4, <1>5, SMTT(20) DEF Counted, Init, Keys
<1>8. Rated
  <2>1. \A u \in Users : rate[u] = 0 /\ accepted[u] = 0
    BY <1>1, Zenon DEF Init
  <2>2. \A u \in Users : Cardinality(Uncounting(u)) = 0
    BY <1>4, <1>5, Zenon
  <2>3. RatePerMinute \in Nat
    BY <1>2, Zenon
  <2>4. QED BY <2>1, <2>2, <2>3 DEF Rated
<1>9. PositiveExpires
  BY <1>1, <1>2 DEF PositiveExpires, Init
<1>10. SessionsCountTheirTurns
  <2>1. SUFFICES ASSUME NEW s \in Sessions
                 PROVE  /\ inflight[s] = Cardinality(Riders(s)) /\ inflight[s] <= MaxPerUser
                        /\ conns[s] = "closed" => inflight[s] = 0
    BY Zenon DEF SessionsCountTheirTurns, Riders
  <2>2. inflight[s] = 0 /\ MaxPerUser \in Nat
    BY <1>1, <1>2, Zenon DEF Init
  <2>3. QED BY <1>4, <1>5, <2>2
<1>11. QED BY <1>3, <1>6, <1>7, <1>8, <1>9, <1>10, Zenon DEF AgentInv

\* Every step of the handlers, of time and of crashes preserves the invariant.
LEMMA AgentNext == AgentInv /\ [Next]_vars => AgentInv'
<1>1. SUFFICES ASSUME AgentInv, [Next]_vars PROVE AgentInv'
  OBVIOUS
<1>2. CASE UNCHANGED vars
  BY <1>1, <1>2, Zenon DEF vars, AgentInv, TypeOK, Working, Counted, Holders, Undoing, Rated, Uncounting,
                    UserOf, Deleted, Saving, PositiveExpires, SessionsCountTheirTurns
<1>3. ASSUME NEW t \in Turns, NEW c \in Conversations,
             HandleTurn(t, c) \/ \E s \in Sessions : startWSTurn(t, c, s)
      PROVE  AgentInv'
  BY <1>1, <1>3, HandleTurnStep, StartWSTurnStep, Zenon
<1>4. ASSUME NEW t \in Turns, Guarding(t)
      PROVE  AgentInv'
  BY <1>1, <1>4, RateSteps, AcquireStep, AcquireFailsStep, UndoGuardStep, ReleaseStep, Zenon DEF Guarding
<1>5. ASSUME NEW t \in Turns, Answering(t)
      PROVE  AgentInv'
  BY <1>1, <1>5, AnsweringStep, FinishTurnStep, Zenon DEF Answering
<1>6. ASSUME NEW c \in Conversations, DeleteConversation(c) \/ deleteConversationRecord(c)
      PROVE  AgentInv'
  BY <1>1, <1>6, DeleteSteps, Zenon
<1>7. ASSUME NEW s \in Sessions, WS(s) \/ readEnds(s) \/ closeConn(s)
      PROVE  AgentInv'
  BY <1>1, <1>7, SessionSteps, Zenon
<1>8. ASSUME NEW k \in Keys, Expire(k)
      PROVE  AgentInv'
  BY <1>1, <1>8, ExpireStep, Zenon
<1>9. CASE Tick \/ Restart
  BY <1>1, <1>9, TickStep, RestartStep, Zenon
<1>10. QED BY <1>1, <1>2, <1>3, <1>4, <1>5, <1>6, <1>7, <1>8, <1>9, Zenon DEF Next

\* The invariant holds in every reachable state of the agent's conversations.
THEOREM AgentInvariant == Spec => []AgentInv
BY AgentInit, AgentNext, PTL DEF Spec

\* Type correctness of the guards, turns, sessions and rows.
THEOREM AgentTypeCorrect == Spec => []TypeOK
<1>1. AgentInv => TypeOK
  BY Zenon DEF AgentInv
<1>2. QED BY <1>1, AgentInvariant, PTL

\* The lock of a conversation (acquireCounterGuard) fails only after its counter
\* expired in use, whatever crashes and whatever Redis loses.
THEOREM AgentConversationLock == Spec => []ConversationLock
<1>1. AgentInv => ConversationLock
  <2>1. SUFFICES ASSUME AgentInv, NEW c \in Conversations, c \notin drifted
                 PROVE  ~(Cardinality(Holders(c)) > MaxPerConversation)
    BY Zenon DEF ConversationLock
  <2>2. QED BY <2>1, ConversationCounts
<1>2. QED BY <1>1, AgentInvariant, PTL

\* No counter above zero is without a time to live (counterGuardAcquireScript).
THEOREM AgentCountersExpire == Spec => []PositiveExpires
<1>1. AgentInv => PositiveExpires
  BY Zenon DEF AgentInv
<1>2. QED BY <1>1, AgentInvariant, PTL

\* At most RatePerMinute counted requests pass in a minute (enforcePerMinute),
\* with any number of requests over the limit being counted back meanwhile.
THEOREM AgentRateBound == Spec => []RateBound
<1>1. AgentInv => RateBound
  BY Zenon DEF AgentInv, Rated, RateBound
<1>2. QED BY <1>1, AgentInvariant, PTL

\* A conversation deleted while no turn was under way stays deleted
\* (deleteConversationRecord against persistConversationResult).
THEOREM AgentDeletedStaysDeleted == Spec => []DeletedStaysDeleted
<1>1. AgentInv => DeletedStaysDeleted
  BY Zenon DEF AgentInv, Deleted, DeletedStaysDeleted
<1>2. QED BY <1>1, AgentInvariant, PTL

\* Sessions count their turns and outlive them (serveWSConnection).
THEOREM AgentSessionsCount == Spec => []SessionsCountTheirTurns
<1>1. AgentInv => SessionsCountTheirTurns
  BY Zenon DEF AgentInv
<1>2. QED BY <1>1, AgentInvariant, PTL

----------------------------------------------------------------------------
(* A lock for one turn *)

\* Turn t counts in the counter of conversation c.
Counts(t, c) == c \in turns[t].held \/ (turns[t].pc = "undoConv" /\ turns[t].conv = c)
Counting(c) == {t \in Turns : Counts(t, c)}

\* A turn holds the guard of its own conversation, from saving to releasing.
HoldingPCs == {"save", "call", "persist", "release"}
HoldsItsOwn ==
  \A t \in Turns : \A c \in turns[t].held \cap Conversations :
    turns[t].conv = c /\ turns[t].pc \in HoldingPCs

\* A counter in use has what its holder may still need of guardTTL left.
Lasts(c) ==
  /\ Counting(c) # {} => guards[c].ttl >= GuardTTL - Timeout
  /\ \A t \in Holders(c) :
       /\ turns[t].pc = "save" => guards[c].ttl = GuardTTL
       /\ turns[t].pc = "call" => guards[c].ttl >= GuardTTL - Timeout + turns[t].left

\* A counter that missed no release never expired in use, counts exactly, and lasts.
Exact(c) ==
  c \notin leaked =>
    c \notin drifted /\ guards[c].n = Cardinality(Counting(c)) /\ Lasts(c)

\* What most steps do to a turn, seen from a conversation.
Still(t, c) ==
  /\ Counts(t, c)' <=> Counts(t, c)
  /\ c \in turns'[t].held =>
       /\ c \in turns[t].held
       /\ turns'[t].pc = "save" => turns[t].pc = "save"
       /\ turns'[t].pc = "call" => \/ turns[t].pc = "call" /\ turns'[t].left = turns[t].left
                                   \/ turns[t].pc = "save" /\ turns'[t].left = Timeout

\* The limits of the configuration, as numbers.
LEMMA Limits ==
  /\ Timeout \in Nat /\ Timeout > 0 /\ GuardTTL \in Nat /\ GuardTTL >= 2 * Timeout
BY AgentAssumption DEF LimitsOK

\* A counter is a number with a time to live.
LEMMA GuardFields ==
  ASSUME TypeOK, NEW c \in Conversations
  PROVE  c \in Keys /\ guards[c].n \in Int /\ guards[c].ttl \in Int
<1>1. c \in Keys /\ guards[c] \in [n : Int, ttl : NoTTL .. GuardTTL]
  BY Zenon DEF TypeOK, Keys
<1>2. \A x \in NoTTL .. GuardTTL : x \in Int
  BY Limits DEF NoTTL
<1> QED BY <1>1, <1>2, Zenon

\* A step that leaves the counter alone and its turns still keeps it exact.
LEMMA StillStep ==
  ASSUME TypeOK, TypeOK', NEW c \in Conversations, Exact(c),
         leaked \subseteq leaked', c \in drifted' => c \in drifted, guards'[c] = guards[c],
         \A t \in Turns : Still(t, c)
  PROVE  Exact(c)'
<1> SUFFICES ASSUME c \notin leaked'
             PROVE  c \notin drifted' /\ guards'[c].n = Cardinality(Counting(c)') /\ Lasts(c)'
  BY Zenon DEF Exact
<1>1. c \notin drifted /\ guards[c].n = Cardinality(Counting(c)) /\ Lasts(c)
  BY Zenon DEF Exact
<1>2. Counting(c)' = Counting(c)
  BY Zenon DEF Counting, Still
<1>3. ASSUME NEW t \in Turns, c \in turns'[t].held
      PROVE  /\ turns'[t].pc = "save" => guards[c].ttl = GuardTTL
             /\ turns'[t].pc = "call" => guards[c].ttl >= GuardTTL - Timeout + turns'[t].left
  <2>1. Still(t, c) /\ t \in Holders(c)
    BY <1>3, Zenon DEF Still, Holders
  <2>2. CASE turns'[t].pc = "save"
    BY <1>1, <1>3, <2>1, <2>2, Zenon DEF Still, Lasts
  <2>3. CASE turns'[t].pc = "call" /\ turns[t].pc = "call"
    <3>1. turns'[t].left = turns[t].left
      BY <1>3, <2>1, <2>3, Zenon DEF Still
    <3> QED BY <1>1, <2>1, <2>3, <3>1, Zenon DEF Lasts
  <2>4. CASE turns'[t].pc = "call" /\ turns[t].pc = "save"
    <3>1. turns'[t].left = Timeout
      BY <1>3, <2>1, <2>4, Zenon DEF Still
    <3>2. guards[c].ttl = GuardTTL
      BY <1>1, <2>1, <2>4, Zenon DEF Lasts
    <3> QED BY <2>4, <3>1, <3>2, Limits
  <2> QED BY <1>3, <2>1, <2>2, <2>3, <2>4, Zenon DEF Still
<1>4. Lasts(c)'
  BY <1>1, <1>2, <1>3, Zenon DEF Lasts, Holders
<1> QED BY <1>1, <1>2, <1>4, Zenon

\* A turn that moves on without touching this guard, and not into saving or calling.
LEMMA MoveStill ==
  ASSUME NEW t \in Turns, NEW pc, NEW held, Moves(t, pc, held), NEW c \in Conversations,
         c \in held <=> c \in turns[t].held,
         c \in held => pc \notin {"save", "call"},
         (pc = "undoConv" /\ turns[t].conv = c) <=> (turns[t].pc = "undoConv" /\ turns[t].conv = c)
  PROVE  \A x \in Turns : Still(x, c)
<1>1. ASSUME NEW x \in Turns, x # t
      PROVE  Still(x, c)
  <2>1. turns'[x] = turns[x]
    BY <1>1, Zenon DEF Moves
  <2> QED BY <2>1, Zenon DEF Still, Counts
<1>2. Still(t, c)
  <2>1. turns'[t].pc = pc /\ turns'[t].held = held /\ turns'[t].conv = turns[t].conv
    BY Zenon DEF Moves
  <2> QED BY <2>1, Zenon DEF Still, Counts
<1> QED BY <1>1, <1>2, Zenon

\* A turn that moves holds what it may.
LEMMA MoveHolds ==
  ASSUME HoldsItsOwn, NEW t \in Turns, NEW pc, NEW held, Moves(t, pc, held),
         \A c \in held \cap Conversations : turns[t].conv = c /\ pc \in HoldingPCs
  PROVE  HoldsItsOwn'
<1>1. turns'[t].pc = pc /\ turns'[t].held = held /\ turns'[t].conv = turns[t].conv
      /\ \A x \in Turns : x # t => turns'[x] = turns[x]
  BY Zenon DEF Moves
<1>2. ASSUME NEW x \in Turns, NEW c \in turns'[x].held \cap Conversations
      PROVE  turns'[x].conv = c /\ turns'[x].pc \in HoldingPCs
  <2>1. CASE x = t
    BY <1>1, <1>2, <2>1, Zenon
  <2>2. CASE x # t
    <3>1. turns'[x] = turns[x]
      BY <1>1, <2>2, Zenon
    <3> QED BY <1>2, <3>1, Zenon DEF HoldsItsOwn
  <2> QED BY <2>1, <2>2, Zenon
<1> QED BY <1>2, Zenon DEF HoldsItsOwn

\* A turn that is not between saving and releasing holds no guard of a conversation,
\* and one that is holds none but its own.
LEMMA NotHolding ==
  ASSUME HoldsItsOwn, NEW t \in Turns, NEW c \in Conversations
  PROVE  /\ turns[t].pc \notin HoldingPCs => c \notin turns[t].held
         /\ c # turns[t].conv => c \notin turns[t].held
BY Zenon DEF HoldsItsOwn

\* All that is claimed of guards and turns.
OneTurn == HoldsItsOwn /\ \A c \in Conversations : Exact(c)

\* A turn moves on and touches no guard of a conversation that is still exact.
LEMMA FrameStep ==
  ASSUME TypeOK, TypeOK', OneTurn, NEW t \in Turns, NEW pc, NEW held, Moves(t, pc, held),
         \A c \in Conversations : c \in held <=> c \in turns[t].held,
         \A c \in Conversations : guards'[c] = guards[c] \/ c \in leaked',
         leaked \subseteq leaked', drifted' = drifted,
         turns[t].pc # "undoConv", pc # "undoConv",
         turns[t].pc \in HoldingPCs => pc \in {"persist", "release"}
  PROVE  OneTurn'
<1>1. \A c \in held \cap Conversations :
         turns[t].conv = c /\ turns[t].pc \in HoldingPCs /\ pc \in {"persist", "release"}
  BY Zenon DEF OneTurn, HoldsItsOwn
<1>2. HoldsItsOwn'
  <2>1. {"persist", "release"} \subseteq HoldingPCs
    BY Zenon DEF HoldingPCs
  <2> QED BY <1>1, <2>1, MoveHolds, Zenon DEF OneTurn
<1>3. ASSUME NEW c \in Conversations
      PROVE  Exact(c)'
  <2>1. c \in held => pc \notin {"save", "call"}
    BY <1>1, Zenon
  <2>2. \A x \in Turns : Still(x, c)
    BY <2>1, MoveStill, Zenon
  <2>3. CASE c \in leaked'
    BY <2>3, Zenon DEF Exact
  <2>4. CASE guards'[c] = guards[c]
    BY <2>2, <2>4, StillStep, Zenon DEF OneTurn
  <2> QED BY <2>3, <2>4, Zenon
<1> QED BY <1>2, <1>3, Zenon DEF OneTurn

\* A goroutine takes up a turn, or is done with one.
LEMMA RenewStep ==
  ASSUME TypeOK, TypeOK', OneTurn, NEW t \in Turns,
         \A x \in Turns : x # t => turns'[x] = turns[x],
         turns[t].pc \notin HoldingPCs \cup {"undoConv"},
         turns'[t].held = {}, turns'[t].pc # "undoConv",
         UNCHANGED <<guards, leaked, drifted>>
  PROVE  OneTurn'
<1>1. HoldsItsOwn'
  BY Zenon DEF OneTurn, HoldsItsOwn
<1>2. ASSUME NEW c \in Conversations
      PROVE  Exact(c)'
  <2>1. c \notin turns[t].held
    BY NotHolding, Zenon DEF OneTurn
  <2>2. Still(t, c)
    BY <2>1, Zenon DEF Still, Counts
  <2>3. \A x \in Turns : x # t => Still(x, c)
    BY Zenon DEF Still, Counts
  <2> QED BY <2>2, <2>3, StillStep, Zenon DEF OneTurn
<1> QED BY <1>1, <1>2, Zenon DEF OneTurn

\* A turn is counted back, or leaves its guard to expire.
LEMMA LeaveStep ==
  ASSUME TypeOK, TypeOK', NEW c \in Conversations, Exact(c), NEW t \in Counting(c),
         ~Counts(t, c)', \A x \in Turns : x # t => turns'[x] = turns[x],
         leaked \subseteq leaked', drifted' = drifted,
         c \notin leaked' => guards'[c].n = guards[c].n - 1 /\ guards'[c].ttl = guards[c].ttl
  PROVE  Exact(c)'
<1> SUFFICES ASSUME c \notin leaked'
             PROVE  c \notin drifted' /\ guards'[c].n = Cardinality(Counting(c)') /\ Lasts(c)'
  BY Zenon DEF Exact
<1>1. c \notin drifted /\ guards[c].n = Cardinality(Counting(c)) /\ Lasts(c)
  BY Zenon DEF Exact
<1>2. Counting(c)' = Counting(c) \ {t} /\ Counting(c) \subseteq Turns
  BY Zenon DEF Counting, Counts
<1>3. Cardinality(Counting(c)') = Cardinality(Counting(c)) - 1
  BY <1>2, TurnSets, Zenon
<1>4. ASSUME NEW x \in Turns, c \in turns'[x].held
      PROVE  x \in Holders(c) /\ turns'[x] = turns[x]
  BY <1>4, Zenon DEF Counts, Holders
<1>5. Lasts(c)'
  BY <1>1, <1>2, <1>4, Zenon DEF Lasts, Holders
<1> QED BY <1>1, <1>3, <1>5, Zenon

\* acquireCounterGuard with a lock for one: whoever gets the guard finds the counter
\* at zero and starts its time to live; whoever is refused leaves it alone.
LEMMA AcquireOne ==
  ASSUME AgentInv, TypeOK', OneTurn, MaxPerConversation = 1, NEW t \in Turns, acquireCounterGuard(t)
  PROVE  OneTurn'
<1>0. turns[t].pc \in {"user", "conv"} /\ TypeOK /\ HoldsItsOwn /\ leaked' = leaked /\ drifted' = drifted
  BY Zenon DEF acquireCounterGuard, AgentInv, turnPast, OneTurn
<1>1. PICK k \in Keys : k = KeyAt(t)
  BY <1>0, KeyAtType, Zenon
<1>2. /\ turns[t].pc = "user" => k \in Users /\ k \notin Conversations
      /\ turns[t].pc = "conv" => k = turns[t].conv /\ k \in Conversations /\ k \notin Users
  BY <1>0, <1>1, KeyAtType, AgentAssumption, Zenon
<1>3. /\ guards'[k] = Incr(guards[k])
      /\ \A c \in Conversations : c # k => guards'[c] = guards[c]
  BY <1>1, Zenon DEF acquireCounterGuard, AgentInv, TypeOK, Keys
<1>4. \A c \in Conversations : c \notin turns[t].held
  BY <1>0, NotHolding, Zenon DEF HoldingPCs
<1>5. PICK pc, held :
        /\ Moves(t, pc, held)
        /\ \/ /\ WithinLimit(guards[k].n + 1, k)
              /\ pc = NextGuard(turns[t].pc) /\ held = turns[t].held \cup {k}
           \/ /\ ~WithinLimit(guards[k].n + 1, k)
              /\ pc = Undo(turns[t].pc) /\ held = turns[t].held
  <2>1. CASE WithinLimit(guards[k].n + 1, k)
    BY <1>0, <1>1, <2>1, GuardMoves, Zenon DEF acquireCounterGuard, PCs
  <2>2. CASE ~WithinLimit(guards[k].n + 1, k)
    BY <1>0, <1>1, <2>2, GuardMoves, Zenon DEF acquireCounterGuard, PCs
  <2> QED BY <2>1, <2>2, Zenon
<1>6. CASE turns[t].pc = "user"
  <2>1. pc \in {"conv", "undoUser"} /\ pc # "undoConv"
    BY <1>5, <1>6, Zenon DEF NextGuard, Undo
  <2>2. \A c \in Conversations : c \in held <=> c \in turns[t].held
    BY <1>2, <1>5, <1>6, Zenon
  <2>3. \A c \in Conversations : guards'[c] = guards[c]
    BY <1>2, <1>3, <1>6, Zenon
  <2> QED BY <1>0, <1>5, <1>6, <2>1, <2>2, <2>3, FrameStep, Zenon DEF HoldingPCs
<1>7. CASE turns[t].pc = "conv"
  <2>0. pc \in {"save", "undoConv"} /\ k \in Conversations /\ k = turns[t].conv
    BY <1>2, <1>5, <1>7, Zenon DEF NextGuard, Undo
  <2>1. HoldsItsOwn'
    <3>1. \A c \in held \cap Conversations : c = k /\ pc = "save"
      BY <1>4, <1>5, <1>7, Zenon DEF NextGuard
    <3> QED BY <1>0, <1>5, <2>0, <3>1, MoveHolds, Zenon DEF HoldingPCs
  <2>2. ASSUME NEW c \in Conversations, c # k
        PROVE  Exact(c)'
    <3>1. c \notin held /\ c # turns[t].conv
      BY <1>4, <1>5, <2>0, <2>2, Zenon
    <3>2. \A x \in Turns : Still(x, c)
      BY <1>4, <1>5, <3>1, MoveStill, Zenon
    <3> QED BY <1>0, <1>3, <2>2, <3>2, StillStep, Zenon DEF OneTurn
  <2>3. ASSUME k \notin leaked
        PROVE  k \notin drifted' /\ guards'[k].n = Cardinality(Counting(k)') /\ Lasts(k)'
    <3>1. /\ k \notin drifted /\ guards[k].n = Cardinality(Counting(k)) /\ Lasts(k)
          /\ guards[k].n \in Int /\ guards[k].ttl \in Int
      BY <1>0, <2>0, <2>3, GuardFields, Zenon DEF OneTurn, Exact
    <3>2. /\ Counting(k) \subseteq Turns /\ t \notin Counting(k)
          /\ Counting(k)' = Counting(k) \cup {t}
      BY <1>4, <1>5, <1>7, <2>0, Zenon DEF Counting, Counts, Moves, Undo
    <3>3. Cardinality(Counting(k)') = Cardinality(Counting(k)) + 1
      BY <3>2, TurnSets, Zenon
    <3>4. /\ guards'[k].n = guards[k].n + 1
          /\ guards[k].n + 1 = 1 => guards'[k].ttl = GuardTTL
          /\ guards[k].n + 1 # 1 => guards'[k].ttl = guards[k].ttl
      BY <1>3 DEF Incr
    <3>5. Cardinality(Counting(k)) \in Nat /\ (Counting(k) = {} <=> Cardinality(Counting(k)) = 0)
      BY <3>2, TurnSets, Zenon
    <3>6. ASSUME NEW x \in Turns, x # t, k \in turns'[x].held
          PROVE  x \in Holders(k) /\ x \in Counting(k) /\ turns'[x] = turns[x]
      BY <1>5, <3>6, Zenon DEF Moves, Holders, Counting, Counts
    <3>7. CASE WithinLimit(guards[k].n + 1, k)
      <4>1. guards[k].n + 1 <= 1
        BY <1>2, <1>7, <3>7, Zenon DEF WithinLimit, LimitOf
      <4>2. guards[k].n + 1 = 1 /\ Counting(k) = {}
        BY <3>1, <3>5, <4>1
      <4>3. guards'[k].ttl = GuardTTL /\ GuardTTL >= GuardTTL - Timeout
        BY <3>4, <4>2, Limits
      <4>4. \A x \in Turns : k \in turns'[x].held => turns'[x].pc = "save"
        BY <1>5, <1>7, <3>6, <3>7, <4>2, Zenon DEF Moves, NextGuard
      <4>5. Lasts(k)'
        BY <4>3, <4>4, Zenon DEF Lasts, Holders
      <4> QED BY <1>0, <3>1, <3>3, <3>4, <4>5, Zenon
    <3>8. CASE ~WithinLimit(guards[k].n + 1, k)
      <4>1. ~(guards[k].n + 1 <= 1)
        BY <1>2, <1>7, <3>8, Zenon DEF WithinLimit, LimitOf
      <4>2. guards[k].n + 1 # 1 /\ Counting(k) # {}
        BY <3>1, <3>5, <4>1
      <4>3. guards'[k].ttl = guards[k].ttl /\ guards[k].ttl >= GuardTTL - Timeout
        BY <3>1, <3>4, <4>2, Zenon DEF Lasts
      <4>4. k \notin turns'[t].held
        BY <1>4, <1>5, <2>0, <3>8, Zenon DEF Moves
      <4>5. Lasts(k)'
        BY <3>1, <3>6, <4>3, <4>4, Zenon DEF Lasts, Holders
      <4> QED BY <1>0, <3>1, <3>3, <3>4, <4>5, Zenon
    <3> QED BY <3>7, <3>8, Zenon
  <2>4. Exact(k)'
    BY <1>0, <2>3, Zenon DEF Exact
  <2> QED BY <2>1, <2>2, <2>4, Zenon DEF OneTurn
<1> QED BY <1>0, <1>6, <1>7, Zenon

\* The refused attempt is counted back, and a guard is released, unless Redis fails.
LEMMA GiveBackOne ==
  ASSUME AgentInv, TypeOK', OneTurn, NEW t \in Turns, undoGuard(t) \/ releaseGuard(t) \/ releaseFails(t)
  PROVE  OneTurn'
<1>0. /\ turns[t].pc \in {"undoUser", "undoConv", "release", "releaseUser"} /\ TypeOK /\ HoldsItsOwn
      /\ leaked \subseteq leaked' /\ drifted' = drifted
  BY Zenon DEF undoGuard, releaseGuard, releaseFails, AgentInv, OneTurn, turnPast, Leak
<1>1. PICK k \in Keys : k = KeyAt(t)
  BY <1>0, KeyAtType, Zenon
<1>2. /\ turns[t].pc \in {"undoUser", "releaseUser"} => k \notin Conversations
      /\ turns[t].pc \in {"undoConv", "release"} => k = turns[t].conv /\ k \in Conversations
  BY <1>0, <1>1, KeyAtType, AgentAssumption, Zenon
<1>3. PICK pc, held :
        /\ pc \in {"end", "releaseUser"} /\ Moves(t, pc, held)
        /\ \/ turns[t].pc \in {"undoUser", "undoConv"} /\ held = turns[t].held
           \/ turns[t].pc \in {"release", "releaseUser"} /\ held = turns[t].held \ {k}
  <2>1. AfterUndo(t) \in {"end", "releaseUser"} /\ AfterRelease(t) \in {"end", "releaseUser"}
    BY Zenon DEF AfterUndo, AfterRelease
  <2>2. CASE undoGuard(t)
    <3>1. Moves(t, AfterUndo(t), turns[t].held)
      BY <1>0, <2>1, <2>2, GotoMoves, Zenon DEF undoGuard, PCs
    <3> QED BY <2>1, <2>2, <3>1, Zenon DEF undoGuard
  <2>3. CASE releaseGuard(t) \/ releaseFails(t)
    <3>1. Moves(t, AfterRelease(t), turns[t].held \ {k})
      BY <1>0, <1>1, <2>1, <2>3, GuardMoves, Zenon DEF releaseGuard, releaseFails, PCs
    <3> QED BY <2>1, <2>3, <3>1, Zenon DEF releaseGuard, releaseFails
  <2> QED BY <2>2, <2>3, Zenon
<1>4. /\ \A c \in Conversations : c # k => guards'[c] = guards[c]
      /\ \/ k \in Conversations /\ k \in leaked'
         \/ guards'[k] = Decr(guards[k]) /\ (k \in turns[t].held \/ turns[t].pc = "undoConv")
         \/ guards' = guards /\ turns[t].pc = "release" /\ k \notin turns[t].held
         \/ k \notin Conversations
  <2>1. \/ guards' = guards
        \/ guards' = [guards EXCEPT ![k] = Decr(guards[k])]
    BY <1>1, Zenon DEF undoGuard, releaseGuard, releaseFails
  <2>2. \A c \in Conversations : c # k => guards'[c] = guards[c]
    BY <2>1, Zenon DEF AgentInv, TypeOK, Keys
  <2>3. CASE undoGuard(t)
    BY <1>1, <1>2, <2>2, <2>3, Zenon DEF undoGuard, Leak, AgentInv, TypeOK
  <2>4. CASE releaseGuard(t)
    BY <1>1, <1>2, <2>2, <2>4, Zenon DEF releaseGuard, AgentInv, TypeOK
  <2>5. CASE releaseFails(t)
    BY <1>1, <1>2, <2>2, <2>5, Zenon DEF releaseFails, Leak
  <2> QED BY <2>3, <2>4, <2>5, Zenon
<1>5. CASE k \notin Conversations
  <2>1. turns[t].pc \in {"undoUser", "releaseUser"}
    BY <1>0, <1>2, <1>5, Zenon
  <2>2. \A c \in Conversations : c \in held <=> c \in turns[t].held
    BY <1>3, <1>5, Zenon
  <2>3. \A c \in Conversations : guards'[c] = guards[c]
    BY <1>4, <1>5, Zenon
  <2>4. turns[t].pc # "undoConv" /\ pc # "undoConv" /\ turns[t].pc \notin HoldingPCs
    BY <1>3, <2>1, Zenon DEF HoldingPCs
  <2> QED BY <1>0, <1>3, <2>2, <2>3, <2>4, FrameStep, Zenon
<1>6. CASE k \in Conversations
  <2>0. turns[t].pc \in {"undoConv", "release"} /\ k = turns[t].conv /\ pc # "undoConv"
    BY <1>0, <1>2, <1>3, <1>6, Zenon
  <2>1. \A c \in Conversations : c \in turns[t].held => c = k /\ turns[t].pc = "release"
    BY <1>0, <2>0, NotHolding, Zenon DEF HoldingPCs
  <2>2. \A c \in Conversations : c \notin held
    BY <1>3, <2>0, <2>1, Zenon
  <2>3. HoldsItsOwn'
    BY <1>0, <1>3, <2>2, MoveHolds, Zenon
  <2>4. ASSUME NEW c \in Conversations, c # k
        PROVE  Exact(c)'
    <3>1. \A x \in Turns : Still(x, c)
      BY <1>3, <2>0, <2>1, <2>2, <2>4, MoveStill, Zenon
    <3> QED BY <1>0, <1>4, <2>4, <3>1, StillStep, Zenon DEF OneTurn
  <2>5. Exact(k)'
    <3>1. /\ ~Counts(t, k)' /\ \A x \in Turns : x # t => turns'[x] = turns[x]
      BY <1>3, <1>6, <2>0, <2>2, Zenon DEF Counts, Moves
    <3>2. CASE k \in leaked'
      BY <3>2, Zenon DEF Exact
    <3>3. CASE guards'[k] = Decr(guards[k]) /\ (k \in turns[t].held \/ turns[t].pc = "undoConv")
      <4>1. t \in Counting(k)
        BY <2>0, <3>3, Zenon DEF Counting, Counts
      <4>2. guards'[k].n = guards[k].n - 1 /\ guards'[k].ttl = guards[k].ttl
        BY <3>3 DEF Decr
      <4> QED BY <1>0, <1>6, <3>1, <4>1, <4>2, LeaveStep, Zenon DEF OneTurn
    <3>4. CASE guards' = guards /\ turns[t].pc = "release" /\ k \notin turns[t].held
      <4>1. \A x \in Turns : Still(x, k)
        BY <1>3, <1>6, <2>0, <2>2, <3>4, MoveStill, Zenon
      <4> QED BY <1>0, <1>6, <3>4, <4>1, StillStep, Zenon DEF OneTurn
    <3> QED BY <1>4, <1>6, <3>2, <3>3, <3>4, Zenon
  <2> QED BY <2>3, <2>4, <2>5, Zenon DEF OneTurn
<1> QED BY <1>5, <1>6, Zenon

\* A counter in use does not expire: its time to live outlasts the turn.
LEMMA ExpireOne ==
  ASSUME AgentInv, TypeOK', OneTurn, NEW k \in Keys, Expire(k)
  PROVE  OneTurn'
<1>0. /\ TypeOK /\ guards[k].ttl = 0 /\ turns' = turns /\ leaked' = leaked
      /\ drifted' \subseteq drifted \cup {k}
      /\ \A c \in Conversations : c # k => guards'[c] = guards[c]
      /\ guards'[k] = NoKey
  BY Zenon DEF Expire, AgentInv, TypeOK, Keys
<1>1. HoldsItsOwn'
  BY <1>0, Zenon DEF OneTurn, HoldsItsOwn
<1>2. \A c : (\A x \in Turns : Still(x, c)) /\ Counting(c)' = Counting(c)
  BY <1>0, Zenon DEF Still, Counts, Counting
<1>3. ASSUME NEW c \in Conversations, c # k
      PROVE  Exact(c)'
  BY <1>0, <1>2, <1>3, StillStep, Zenon DEF OneTurn
<1>4. ASSUME k \in Conversations, k \notin leaked
      PROVE  k \notin drifted' /\ guards'[k].n = Cardinality(Counting(k)') /\ Lasts(k)'
  <2>1. k \notin drifted /\ Lasts(k)
    BY <1>4, Zenon DEF OneTurn, Exact
  <2>2. Counting(k) = {}
    <3>1. ~(0 >= GuardTTL - Timeout)
      BY Limits
    <3> QED BY <1>0, <2>1, <3>1, Zenon DEF Lasts
  <2>3. ~InUse(k)
    <3>1. SUFFICES ASSUME NEW t \in Turns, turns[t].pc \in {"undoUser", "undoConv"}, KeyAt(t) = k
                   PROVE  FALSE
      BY <2>2, Zenon DEF InUse, Counting, Counts
    <3>2. turns[t].pc # "idle"
      BY <3>1, Zenon
    <3>3. turns[t].pc = "undoConv" /\ turns[t].conv = k
      BY <1>4, <3>1, <3>2, KeyAtType, AgentAssumption, Zenon
    <3> QED BY <2>2, <3>3, Zenon DEF Counting, Counts
  <2>4. drifted' = drifted
    BY <2>3, Zenon DEF Expire
  <2>5. guards'[k].n = 0 /\ Counting(k)' = {} /\ Cardinality({}) = 0
    BY <1>0, <1>2, <2>2, FS_EmptySet DEF NoKey
  <2>6. Lasts(k)'
    BY <2>5, Zenon DEF Lasts, Holders, Counting, Counts
  <2> QED BY <2>1, <2>4, <2>5, <2>6, Zenon
<1> QED BY <1>0, <1>1, <1>3, <1>4, Zenon DEF OneTurn, Exact

\* Time passes only while every turn waits for the agent: the turn and the counter
\* age together.
LEMMA TickOne ==
  ASSUME AgentInv, TypeOK', OneTurn, Tick
  PROVE  OneTurn'
<1>0. TypeOK /\ leaked' = leaked /\ drifted' = drifted
  BY Zenon DEF Tick, turnPast, AgentInv
<1>1. ASSUME NEW t \in Turns
      PROVE  \/ /\ turns[t].pc = "call" /\ turns'[t].pc = "call" /\ turns'[t].held = turns[t].held
                /\ turns'[t].conv = turns[t].conv /\ turns[t].left \in Nat
                /\ turns'[t].left = turns[t].left - 1 /\ turns[t].left > 0
             \/ /\ turns[t].held = {} /\ turns'[t].held = {}
                /\ turns[t].pc = "idle" /\ turns'[t].pc = "idle"
  <2>1. CASE turns[t] = Idle
    <3>1. turns'[t] = Idle
      BY <2>1, IdleFields, Zenon DEF Tick
    <3> QED BY <2>1, <3>1, IdleFields, Zenon
  <2>2. CASE turns[t].pc = "call" /\ turns[t].left > 0
    <3>1. turns'[t] = Waited(turns[t])
      BY <2>2, Zenon DEF Tick
    <3>2. turns[t] \in TurnRows /\ turns[t].left \in Nat
      BY <1>0, TurnFields, Limits
    <3>3. /\ Waited(turns[t]).pc = turns[t].pc /\ Waited(turns[t]).held = turns[t].held
          /\ Waited(turns[t]).conv = turns[t].conv /\ Waited(turns[t]).left = turns[t].left - 1
      BY <3>2, Zenon DEF TurnRows, Waited
    <3> QED BY <2>2, <3>1, <3>2, <3>3, Zenon
  <2> QED BY <2>1, <2>2, Zenon DEF Tick, Waiting
<1>2. HoldsItsOwn'
  BY <1>1, Zenon DEF OneTurn, HoldsItsOwn, HoldingPCs
<1>3. ASSUME NEW c \in Conversations, c \notin leaked
      PROVE  guards'[c].n = Cardinality(Counting(c)') /\ Lasts(c)'
  <2>1. /\ guards[c].n = Cardinality(Counting(c)) /\ Lasts(c)
        /\ c \in Keys /\ guards[c].n \in Int /\ guards[c].ttl \in Int
    BY <1>0, <1>3, GuardFields, Zenon DEF OneTurn, Exact
  <2>2. /\ guards'[c].n = guards[c].n
        /\ guards[c].ttl # NoTTL => guards'[c].ttl = guards[c].ttl - 1
    <3>1. guards'[c] = Aged(guards[c])
      BY <2>1, Zenon DEF Tick
    <3> QED BY <3>1 DEF Aged
  <2>3. ASSUME NEW t \in Turns, Counts(t, c) \/ Counts(t, c)'
        PROVE  /\ Counts(t, c) /\ Counts(t, c)' /\ guards'[c].ttl \in Int
               /\ turns'[t].left \in Nat /\ turns'[t].pc = "call"
               /\ guards'[c].ttl >= GuardTTL - Timeout + turns'[t].left
    <3>1. /\ turns[t].pc = "call" /\ turns'[t].pc = "call" /\ turns'[t].held = turns[t].held
          /\ turns[t].left \in Nat /\ turns'[t].left = turns[t].left - 1 /\ turns[t].left > 0
      BY <1>1, <2>3, Zenon DEF Counts
    <3>2. c \in turns[t].held /\ Counts(t, c) /\ Counts(t, c)'
      BY <2>3, <3>1, Zenon DEF Counts
    <3>3. guards[c].ttl >= GuardTTL - Timeout + turns[t].left
      BY <2>1, <3>1, <3>2, Zenon DEF Lasts, Holders
    <3>4. guards[c].ttl # NoTTL
      BY <3>1, <3>3, <2>1, Limits DEF NoTTL
    <3>5. guards'[c].ttl = guards[c].ttl - 1 /\ guards[c].ttl \in Int
      BY <2>1, <2>2, <3>4, Zenon
    <3>6. turns'[t].left = turns[t].left - 1 /\ turns[t].left \in Nat /\ turns[t].left > 0
      BY <3>1, Zenon
    <3>7. guards'[c].ttl \in Int /\ turns'[t].left \in Nat /\ guards'[c].ttl >= GuardTTL - Timeout + turns'[t].left
      BY <3>3, <3>5, <3>6, Limits
    <3> QED BY <3>1, <3>2, <3>7, Zenon
  <2>4. Counting(c)' = Counting(c)
    BY <2>3, Zenon DEF Counting
  <2>5. ASSUME NEW t \in Turns, Counts(t, c)'
        PROVE  guards'[c].ttl >= GuardTTL - Timeout
    BY <2>3, <2>5, Limits
  <2>6. \A t \in Turns : c \in turns'[t].held =>
           turns'[t].pc # "save" /\ guards'[c].ttl >= GuardTTL - Timeout + turns'[t].left
    BY <2>3, Zenon DEF Counts
  <2>7. Lasts(c)'
    BY <2>5, <2>6, Zenon DEF Lasts, Holders, Counting
  <2> QED BY <2>1, <2>2, <2>4, <2>7, Zenon
<1> QED BY <1>0, <1>2, <1>3, Zenon DEF OneTurn, Exact

\* After a crash nobody counts; a counter that was in use has missed a release.
LEMMA RestartOne ==
  ASSUME AgentInv, TypeOK', OneTurn, Restart
  PROVE  OneTurn'
<1>0. /\ TypeOK /\ drifted' = drifted /\ guards' = guards /\ \A t \in Turns : turns'[t] = Idle
      /\ leaked \subseteq leaked' /\ \A c \in Conversations : InUse(c) => c \in leaked'
  BY Zenon DEF Restart, AgentInv, Leak, Keys
<1>1. HoldsItsOwn'
  BY <1>0, IdleFields, Zenon DEF HoldsItsOwn
<1>2. ASSUME NEW c \in Conversations, c \notin leaked'
      PROVE  c \notin drifted' /\ guards'[c].n = Cardinality(Counting(c)') /\ Lasts(c)'
  <2>1. c \notin drifted /\ guards[c].n = Cardinality(Counting(c))
    BY <1>0, <1>2, Zenon DEF OneTurn, Exact
  <2>2. ASSUME NEW t \in Turns
        PROVE  ~Counts(t, c) /\ ~Counts(t, c)' /\ c \notin turns'[t].held
    <3>1. c \notin turns[t].held
      BY <1>0, <1>2, Zenon DEF InUse
    <3>2. ASSUME turns[t].pc = "undoConv"
          PROVE  turns[t].conv # c
      <4>1. KeyAt(t) = turns[t].conv
        BY <3>2, Zenon DEF KeyAt
      <4> QED BY <1>0, <1>2, <3>2, <4>1, Zenon DEF InUse
    <3>3. turns'[t].held = {} /\ turns'[t].pc # "undoConv"
      BY <1>0, IdleFields, Zenon
    <3> QED BY <3>1, <3>2, <3>3, Zenon DEF Counts
  <2>3. Counting(c) = {} /\ Counting(c)' = {}
    BY <2>2, Zenon DEF Counting
  <2>4. Lasts(c)'
    BY <2>2, <2>3, Zenon DEF Lasts, Holders
  <2> QED BY <1>0, <2>1, <2>3, <2>4, Zenon
<1> QED BY <1>1, <1>2, Zenon DEF OneTurn, Exact

\* The steps that touch no guard of a conversation, or count what nobody will release.
LEMMA QuietOne ==
  ASSUME AgentInv, TypeOK', OneTurn, NEW t \in Turns,
         \/ enforcePerMinute(t) \/ enforceFails(t) \/ undoRate(t) \/ acquireFails(t)
         \/ savePendingFails(t) \/ agentAnswers(t) \/ agentFails(t)
         \/ persistConversation(t) \/ persistFails(t)
  PROVE  OneTurn'
<1>1. PICK pc \in {"user", "undoRate", "end", "conv", "save", "release", "persist"} :
        /\ Goto(t, pc) /\ leaked \subseteq leaked' /\ UNCHANGED drifted
        /\ \A c \in Conversations : guards'[c] = guards[c] \/ c \in leaked'
        /\ \/ turns[t].pc \in {"rate", "undoRate", "user", "conv"}
           \/ turns[t].pc \in {"save", "call", "persist"} /\ pc \in {"release", "persist"}
  <2>1. CASE enforcePerMinute(t) \/ enforceFails(t) \/ undoRate(t)
    BY <2>1, Zenon DEF enforcePerMinute, enforceFails, undoRate, turnPast
  <2>2. CASE acquireFails(t)
    <3>1. PICK k \in Keys : k = KeyAt(t)
      BY <2>2, KeyAtType, Zenon DEF acquireFails
    <3>2. \/ UNCHANGED <<guards, leaked>>
          \/ guards' = [guards EXCEPT ![k] = Incr(guards[k])] /\ leaked' = Leak({k})
      BY <2>2, <3>1, Zenon DEF acquireFails
    <3>3. leaked \subseteq leaked' /\ \A c \in Conversations : guards'[c] = guards[c] \/ c \in leaked'
      <4>1. guards \in [Keys -> [n : Int, ttl : NoTTL .. GuardTTL]] /\ Conversations \subseteq Keys
        BY Zenon DEF AgentInv, TypeOK, Keys
      <4> QED BY <3>1, <3>2, <4>1, Zenon DEF Leak
    <3> QED BY <2>2, <3>3, Zenon DEF acquireFails, NextGuard
  <2>3. CASE savePendingFails(t) \/ agentAnswers(t) \/ agentFails(t)
    BY <2>3, Zenon DEF savePendingFails, agentAnswers, agentFails, turnPast
  <2>4. CASE persistConversation(t) \/ persistFails(t)
    BY <2>4, Zenon DEF persistConversation, persistFails, turnPast
  <2> QED BY <2>1, <2>2, <2>3, <2>4, Zenon
<1>2. Moves(t, pc, turns[t].held)
  BY <1>1, GotoMoves, Zenon DEF PCs, AgentInv
<1>3. /\ turns[t].pc # "undoConv" /\ pc # "undoConv"
      /\ turns[t].pc \in HoldingPCs => pc \in {"persist", "release"}
  BY <1>1, Zenon DEF HoldingPCs
<1> QED BY <1>1, <1>2, <1>3, FrameStep, Zenon DEF AgentInv

\* savePending: the turn calls the agent, with its whole timeout before it.
LEMMA SaveOne ==
  ASSUME AgentInv, TypeOK', OneTurn, NEW t \in Turns, savePending(t)
  PROVE  OneTurn'
<1>1. /\ turns[t].pc = "save" /\ UNCHANGED <<guards, leaked, drifted>>
      /\ turns'[t] = [turns[t] EXCEPT !.pc = "call", !.left = Timeout]
      /\ \A x \in Turns : x # t => turns'[x] = turns[x]
  BY Zenon DEF savePending, turnPast, AgentInv, TypeOK
<1>2. /\ turns'[t].pc = "call" /\ turns'[t].left = Timeout
      /\ turns'[t].held = turns[t].held /\ turns'[t].conv = turns[t].conv
  <2>1. turns[t] \in TurnRows
    BY TurnFields, Zenon DEF AgentInv
  <2> QED BY <1>1, <2>1, Zenon DEF TurnRows
<1>3. HoldsItsOwn'
  <2>1. "call" \in HoldingPCs
    BY Zenon DEF HoldingPCs
  <2>2. ASSUME NEW x \in Turns, NEW c \in turns'[x].held \cap Conversations
        PROVE  turns'[x].conv = c /\ turns'[x].pc \in HoldingPCs
    <3>1. turns'[x].held = turns[x].held /\ turns'[x].conv = turns[x].conv
          /\ (turns'[x].pc = turns[x].pc \/ turns'[x].pc = "call")
      BY <1>1, <1>2, <2>2, Zenon
    <3>2. turns[x].conv = c /\ turns[x].pc \in HoldingPCs
      BY <2>2, <3>1, Zenon DEF OneTurn, HoldsItsOwn
    <3> QED BY <2>1, <3>1, <3>2, Zenon
  <2> QED BY <2>2, Zenon DEF HoldsItsOwn
<1>4. ASSUME NEW c \in Conversations
      PROVE  Exact(c)'
  <2>1. Still(t, c)
    BY <1>1, <1>2, Zenon DEF Still, Counts
  <2>2. \A x \in Turns : x # t => Still(x, c)
    BY <1>1, Zenon DEF Still, Counts
  <2> QED BY <1>1, <2>1, <2>2, StillStep, Zenon DEF OneTurn, AgentInv
<1> QED BY <1>3, <1>4, Zenon DEF OneTurn

\* A turn begins, or its goroutine ends.
LEMMA TurnOne ==
  ASSUME AgentInv, TypeOK', OneTurn, NEW t \in Turns,
         \/ finishTurn(t)
         \/ \E c \in Conversations : HandleTurn(t, c) \/ \E s \in Sessions : startWSTurn(t, c, s)
  PROVE  OneTurn'
<1>1. /\ UNCHANGED <<guards, leaked, drifted>> /\ turns[t].pc \in {"idle", "end"}
      /\ turns'[t].held = {} /\ turns'[t].pc \in {"idle", "rate", "end"}
      /\ \A x \in Turns : x # t => turns'[x] = turns[x]
  <2>1. CASE finishTurn(t)
    BY <2>1, IdleFields, Zenon DEF finishTurn, turnPast, AgentInv, TypeOK
  <2>2. ASSUME NEW c \in Conversations, NEW via \in Sessions \cup {None},
               turns[t] = Idle, resolveConversation(t, c, via)
        PROVE  /\ turns[t].pc = "idle" /\ turns'[t].held = {} /\ turns'[t].pc \in {"rate", "end"}
               /\ \A x \in Turns : x # t => turns'[x] = turns[x]
    <3>1. PICK pc \in {"rate", "end"} : turns' = [turns EXCEPT ![t] = Begun(c, via, pc)]
      BY <2>2, Zenon DEF resolveConversation
    <3>2. pc \in PCs
      BY <3>1, Zenon DEF PCs
    <3>3. turns'[t] = Begun(c, via, pc) /\ \A x \in Turns : x # t => turns'[x] = turns[x]
      BY <3>1, Zenon DEF AgentInv, TypeOK
    <3>4. turns'[t].held = {} /\ turns'[t].pc = pc
      <4>2. Begun(c, via, pc).held = {} /\ Begun(c, via, pc).pc = pc
        BY Zenon DEF Begun
      <4> QED BY <3>3, <4>2, Zenon
    <3> QED BY <2>2, <3>1, <3>3, <3>4, IdleFields, Zenon
  <2>3. ASSUME NEW c \in Conversations, HandleTurn(t, c)
        PROVE  /\ UNCHANGED <<guards, leaked, drifted>> /\ turns[t] = Idle
               /\ resolveConversation(t, c, None)
    BY <2>3, Zenon DEF HandleTurn, turnPast
  <2>4. ASSUME NEW c \in Conversations, NEW s \in Sessions, startWSTurn(t, c, s)
        PROVE  /\ UNCHANGED <<guards, leaked, drifted>> /\ turns[t] = Idle
               /\ resolveConversation(t, c, s)
    BY <2>4, Zenon DEF startWSTurn, turnPast
  <2> QED BY <2>1, <2>2, <2>3, <2>4, Zenon
<1>2. turns[t].pc \notin HoldingPCs \cup {"undoConv"} /\ turns'[t].pc # "undoConv"
  BY <1>1, Zenon DEF HoldingPCs
<1> QED BY <1>1, <1>2, RenewStep, Zenon DEF AgentInv

\* With a lock for one turn every step keeps the counters that missed no release exact.
LEMMA OneTurnStep ==
  ASSUME AgentInv, AgentInv', OneTurn, MaxPerConversation = 1, [Next]_vars
  PROVE  OneTurn'
<1>0. TypeOK'
  BY Zenon DEF AgentInv
<1>1. CASE UNCHANGED <<turns, guards, leaked, drifted>>
  BY <1>1, Zenon DEF OneTurn, HoldsItsOwn, Exact, Lasts, Counting, Counts, Holders
<1>2. CASE \E t \in Turns : Guarding(t) \/ Answering(t)
  BY <1>0, <1>2, QuietOne, AcquireOne, GiveBackOne, SaveOne, TurnOne, Zenon DEF Guarding, Answering
<1>3. CASE \E t \in Turns, c \in Conversations :
             HandleTurn(t, c) \/ \E s \in Sessions : startWSTurn(t, c, s)
  BY <1>0, <1>3, TurnOne, Zenon
<1>4. CASE \E k \in Keys : Expire(k)
  BY <1>0, <1>4, ExpireOne, Zenon
<1>5. CASE \/ \E c \in Conversations : DeleteConversation(c) \/ deleteConversationRecord(c)
           \/ \E s \in Sessions : WS(s) \/ readEnds(s) \/ closeConn(s)
           \/ UNCHANGED vars
  BY <1>1, <1>5, Zenon DEF DeleteConversation, deleteConversationRecord, WS, readEnds, closeConn,
     turnPast, vars
<1> QED BY <1>0, <1>2, <1>3, <1>4, <1>5, TickOne, RestartOne, Zenon DEF Next

\* With a lock for one turn, a conversation's counter expires in use only if a release
\* was lost, or never made because the answer to the increment was: guardTTL outlives
\* every turn that holds the guard (acquireCounterGuard).
THEOREM AgentDriftNeedsALostRelease == Spec => []DriftNeedsALostRelease
<1>1. CASE MaxPerConversation = 1
  <2>1. Init => OneTurn
    <3> SUFFICES ASSUME Init
                 PROVE  OneTurn
      BY Zenon
    <3>1. \A t \in Turns : turns[t] = Idle
      BY Zenon DEF Init
    <3>2. \A t \in Turns : turns[t].held = {} /\ turns[t].pc = "idle"
      BY <3>1, IdleFields, Zenon
    <3>3. ASSUME NEW c \in Conversations
          PROVE  Counting(c) = {} /\ Holders(c) = {}
      BY <3>2, Zenon DEF Counting, Counts, Holders
    <3>4. \A c \in Conversations : guards[c].n = 0
      BY Zenon DEF Init, NoKey, Keys
    <3>5. Cardinality({}) = 0
      BY FS_EmptySet, Zenon
    <3>6. HoldsItsOwn
      BY <3>2, Zenon DEF HoldsItsOwn
    <3>7. drifted = {}
      BY Zenon DEF Init
    <3> QED BY <3>3, <3>4, <3>5, <3>6, <3>7, Zenon DEF OneTurn, Exact, Lasts
  <2>2. AgentInv /\ AgentInv' /\ OneTurn /\ [Next]_vars => OneTurn'
    BY <1>1, OneTurnStep, Zenon
  <2>3. AgentInv /\ OneTurn => DriftNeedsALostRelease
    BY Zenon DEF AgentInv, TypeOK, OneTurn, Exact, DriftNeedsALostRelease
  <2> QED BY <2>1, <2>2, <2>3, AgentInvariant, PTL DEF Spec
<1>2. CASE MaxPerConversation # 1
  <2>1. DriftNeedsALostRelease
    BY <1>2, Zenon DEF DriftNeedsALostRelease
  <2> QED BY <2>1, PTL
<1> QED BY <1>1, <1>2, Zenon
============================================================================
