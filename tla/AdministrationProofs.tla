------------------------ MODULE AdministrationProofs ------------------------
(***************************************************************************)
(* Proofs about what administrators do.  Moderation: reports are decided   *)
(* once, punishments come from reviews, hiding from claimed reports, and   *)
(* the audit log explains every revocation, whatever calls run at the same *)
(* time.  Terms: one current term that exists, every term and theme once,  *)
(* unless requests for it overlapped.  For any reports, targets, users,    *)
(* punishments, handlers, terms, themes and clerks.                        *)
(***************************************************************************)
EXTENDS Moderation, Terms, FiniteSetTheorems, WellFoundedInduction, TLAPS

\* A non-empty set of natural numbers has a least element, so the lifetime
\* that activeCapabilities computes is one of those it compares.
LEMMA MinExists ==
  ASSUME NEW S \in SUBSET Nat, S # {}
  PROVE  Min(S) \in S
<1>1. PICK x \in S : \A y \in S : ~ (<<y, x>> \in OpToRel(<, Nat))
  <2>1. \E x \in S : \A y \in S : ~ (<<y, x>> \in OpToRel(<, Nat))
    BY NatLessThanWellFounded, WFMin, Zenon
  <2> QED BY <2>1, Zenon
<1>2. ASSUME NEW y \in S PROVE x <= y
  <2>1. ~ (y < x) BY <1>1, Zenon DEF OpToRel
  <2> QED BY <2>1
<1> QED BY <1>2, Zenon DEF Min

\* A cache entry lives for a natural number of time units.
LEMMA EntryTTLType ==
  ASSUME ModerationTypeOK, NEW u \in Members
  PROVE  EntryTTL(u) \in Nat
<1> DEFINE S == {CacheTTL} \cup {punishments[p].left : p \in {q \in InForce(u) :
                                               punishments[q].left # Nil}}
<1>1. ASSUME NEW p \in InForce(u), punishments[p].left # Nil
      PROVE  punishments[p].left \in Nat
  BY <1>1 DEF ModerationTypeOK, InForce, PunishmentRows, NoPunishment, Timers
<1>2. S \subseteq Nat BY <1>1, ModerationAssumption, Zenon
<1>3. S # {} OBVIOUS
<1>4. Min(S) \in S BY <1>2, <1>3, MinExists, Zenon
<1> QED BY <1>2, <1>4, Zenon DEF EntryTTL

\* Timers stay timers.
LEMMA CountDownType ==
  ASSUME NEW t \in Timers
  PROVE  CountDown(t) \in Timers
BY NilAssumption DEF CountDown, Timers

\* What a call needs of its fields, by operation.
LEMMA CallFields ==
  ASSUME ModerationTypeOK, NEW w \in Handlers
  PROVE  /\ handling[w].op \in {"hide", "complete"} =>
              /\ handling[w] \in [op : {"hide", "complete"}, report : Reports,
                               admin : Admins, action : Actions]
         /\ handling[w].op = "revoke" =>
              handling[w] \in [op : {"revoke"}, punishment : Punishments]
         /\ handling[w].op = "appeal" =>
              handling[w] \in [op : {"appeal"}, punishment : Punishments,
                            approved : BOOLEAN]
         /\ handling[w].op = "invalidate" => handling[w] \in [op : {"invalidate"}, user : Members]
         /\ handling[w].op = "fill" =>
              handling[w] \in [op : {"fill"}, user : Members, caps : SUBSET Capabilities,
                            ttl : Timers]
<1>1. Free.op = "idle"
  BY Zenon DEF Free
<1>2. /\ \A c \in [op : {"hide", "complete"}, report : Reports, admin : Admins, action : Actions] :
           c.op \in {"hide", "complete"}
      /\ \A c \in [op : {"revoke"}, punishment : Punishments] : c.op = "revoke"
      /\ \A c \in [op : {"appeal"}, punishment : Punishments, approved : BOOLEAN] : c.op = "appeal"
      /\ \A c \in [op : {"invalidate"}, user : Members] : c.op = "invalidate"
      /\ \A c \in [op : {"fill"}, user : Members, caps : SUBSET Capabilities, ttl : Timers] :
           c.op = "fill"
  BY Zenon
<1>3. handling[w] \in {Free} \cup Calls
  BY Zenon DEF ModerationTypeOK
<1> QED BY <1>1, <1>2, <1>3, Zenon DEF Calls

\* Every row of a punishment that exists is a row of the table.
LEMMA PunishmentFields ==
  ASSUME ModerationTypeOK, NEW p \in Punishments
  PROVE  /\ punishments[p].status # Nil => punishments[p] \in PunishmentRows
         /\ punishments[p].status = Nil => punishments[p] = NoPunishment
         /\ punishments[p].left \in Timers
BY NilAssumption DEF ModerationTypeOK, PunishmentRows, NoPunishment, Timers

\* The row of a new punishment fits the table.
LEMMA PunishType ==
  ASSUME ModerationTypeOK, NEW call \in [op : {"hide", "complete"}, report : Reports,
                               admin : Admins, action : Actions],
         call.action.kind = "punish"
  PROVE  Punish(call) \in PunishmentRows
<1>1. call.action.cap \in Capabilities /\ call.action.duration \in Timers
  BY ModerationAssumption DEF Actions, Timers
<1>2. OwnerOf[TargetOf[call.report]] \in Members BY ModerationAssumption, Zenon
<1> QED BY <1>1, <1>2, Zenon DEF Punish, PunishmentRows

\* Revoking keeps the row in the table.
LEMMA RevokedType ==
  ASSUME ModerationTypeOK, NEW p \in Punishments
  PROVE  Revoked(p) \in PunishmentRows \cup {NoPunishment}
<1>1. CASE punishments[p].status = "active"
  <2>1. punishments[p] \in PunishmentRows
    BY <1>1, PunishmentFields, NilAssumption, Zenon
  <2>2. [punishments[p] EXCEPT !.status = "revoked"] \in PunishmentRows
    BY <2>1, Zenon DEF PunishmentRows
  <2> QED BY <1>1, <2>2, Zenon DEF Revoked
<1>2. CASE punishments[p].status # "active"
  BY <1>2, Zenon DEF Revoked, ModerationTypeOK
<1> QED BY <1>1, <1>2, Zenon

\* A report that gets another status keeps its row.
LEMMA StatusType ==
  ASSUME NEW row \in [status : {Nil, "pending", "reviewing", "rejected", "actioned", "withdrawn"},
                      assignee : Admins \cup {Nil}],
         NEW s \in {"pending", "withdrawn", "rejected", "actioned"}
  PROVE  [row EXCEPT !.status = s]
           \in [status : {Nil, "pending", "reviewing", "rejected", "actioned", "withdrawn"},
                assignee : Admins \cup {Nil}]
OBVIOUS

----------------------------------------------------------------------------

\* Every action keeps rows, cache entries and calls well formed.
LEMMA TypeNext ==
  ASSUME ModerationInv, [ModerationNext]_moderationVars
  PROVE  ModerationTypeOK'
<1> ModerationTypeOK BY Zenon DEF ModerationInv
<1> USE DEF ModerationTypeOK
<1>1. ASSUME NEW r \in Reports, CreateReport(r) \/ WithdrawReport(r) PROVE ModerationTypeOK'
  <2>1. reports' \in [Reports -> [status : {Nil, "pending", "reviewing", "rejected",
                                            "actioned", "withdrawn"},
                                  assignee : Admins \cup {Nil}]]
    <3>1. PICK s \in {"pending", "withdrawn"} :
             reports' = [reports EXCEPT ![r].status = s]
      BY <1>1, Zenon DEF CreateReport, WithdrawReport
    <3>2. s \in {"pending", "withdrawn", "rejected", "actioned"}
      BY <3>1, Zenon
    <3>3. /\ reports' = [reports EXCEPT ![r] = [reports[r] EXCEPT !.status = s]]
          /\ reports[r] \in [status : {Nil, "pending", "reviewing", "rejected",
                                       "actioned", "withdrawn"},
                              assignee : Admins \cup {Nil}]
      BY <3>1, Zenon
    <3>4. [reports[r] EXCEPT !.status = s]
            \in [status : {Nil, "pending", "reviewing", "rejected", "actioned", "withdrawn"},
                 assignee : Admins \cup {Nil}]
      BY <3>2, <3>3, StatusType, Zenon
    <3> QED BY <3>3, <3>4, Zenon
  <2> QED BY <1>1, <2>1, Zenon DEF CreateReport, WithdrawReport
<1>2. ASSUME NEW r \in Reports, NEW a \in Admins, ClaimReport(r, a) PROVE ModerationTypeOK'
  BY <1>2, Zenon DEF ClaimReport
<1>3. ASSUME NEW p \in Punishments, CreateAppeal(p) PROVE ModerationTypeOK'
  BY <1>3, Zenon DEF CreateAppeal
<1>4. ASSUME NEW w \in Handlers, NEW r \in Reports, NEW a \in Admins,
             NEW action \in Actions, DecideReport(w, r, a, action)
      PROVE  ModerationTypeOK'
  <2>1. [op |-> IF action.kind = "hide" THEN "hide" ELSE "complete",
         report |-> r, admin |-> a, action |-> action] \in Calls
    BY Zenon DEF Calls
  <2> QED BY <1>4, <2>1, Zenon DEF DecideReport
<1>5. ASSUME NEW w \in Handlers, NEW p \in Punishments, RevokePunishment(w, p)
      PROVE  ModerationTypeOK'
  BY <1>5, Zenon DEF RevokePunishment, Calls
<1>6. ASSUME NEW w \in Handlers, NEW p \in Punishments, NEW approved \in BOOLEAN,
             DecideAppeal(w, p, approved)
      PROVE  ModerationTypeOK'
  <2>1. [op |-> "appeal", punishment |-> p, approved |-> approved] \in Calls
    BY Zenon DEF Calls
  <2> QED BY <1>6, <2>1, Zenon DEF DecideAppeal
<1>7. ASSUME NEW w \in Handlers, NEW u \in Members, ActivePunishments(w, u)
      PROVE  ModerationTypeOK'
  <2>1. EntryTTL(u) \in Timers BY EntryTTLType, Zenon DEF Timers
  <2>2. {punishments[p].cap : p \in InForce(u)} \subseteq Capabilities
    BY PunishmentFields, NilAssumption DEF InForce, PunishmentRows
  <2>3. [op |-> "fill", user |-> u, ttl |-> EntryTTL(u),
         caps |-> {punishments[p].cap : p \in InForce(u)}] \in Calls
    BY <2>1, <2>2, Zenon DEF Calls
  <2> QED BY <1>7, <2>3, Zenon DEF ActivePunishments
<1>8. ASSUME NEW w \in Handlers, HideTarget(w) PROVE ModerationTypeOK'
  <2>1. handling[w] \in [op : {"hide", "complete"}, report : Reports,
                      admin : Admins, action : Actions]
    BY <1>8, CallFields, Zenon DEF HideTarget
  <2>2. [handling[w] EXCEPT !.op = "complete"] \in Calls BY <2>1, Zenon DEF Calls
  <2>3. TargetOf[handling[w].report] \in Targets BY <2>1, ModerationAssumption, Zenon
  <2> QED BY <1>8, <2>2, <2>3, Zenon DEF HideTarget
<1>9. ASSUME NEW w \in Handlers, CompleteReview(w) PROVE ModerationTypeOK'
  <2>1. handling[w] \in [op : {"hide", "complete"}, report : Reports,
                      admin : Admins, action : Actions]
    BY <1>9, CallFields, Zenon DEF CompleteReview
  <2>2. handling[w].action.kind \in Kinds BY <2>1 DEF Actions, Kinds
  <2>3. reports' \in [Reports -> [status : {Nil, "pending", "reviewing", "rejected",
                                            "actioned", "withdrawn"},
                                  assignee : Admins \cup {Nil}]]
    <3>1. Outcome(handling[w].action) \in {"rejected", "actioned"} BY Zenon DEF Outcome
    <3>2. reports' = [reports EXCEPT ![handling[w].report].status = Outcome(handling[w].action)]
      BY <1>9, Zenon DEF CompleteReview
    <3>3. PICK k \in Reports : k = handling[w].report
      BY <2>1, Zenon
    <3>4. [reports[k] EXCEPT !.status = Outcome(handling[w].action)]
            \in [status : {Nil, "pending", "reviewing", "rejected", "actioned", "withdrawn"},
                 assignee : Admins \cup {Nil}]
      <4>1. Outcome(handling[w].action) \in {"pending", "withdrawn", "rejected", "actioned"}
        BY <3>1, Zenon
      <4> QED BY <4>1, StatusType, Zenon
    <3> QED BY <3>2, <3>3, <3>4, Zenon
  <2>4. reviews' \in [Reports -> Seq(Kinds)]
    <3>1. Append(reviews[handling[w].report], handling[w].action.kind) \in Seq(Kinds)
      BY <2>1, <2>2
    <3> QED BY <1>9, <3>1, Zenon DEF CompleteReview
  <2>5. OwnerOf[TargetOf[handling[w].report]] \in Members BY <2>1, ModerationAssumption, Zenon
  <2>6. /\ punishments' \in [Punishments -> PunishmentRows \cup {NoPunishment}]
        /\ handling' \in [Handlers -> {Free} \cup Calls]
    <3>1. CASE handling[w].action.kind = "punish"
      <4>1. Punish(handling[w]) \in PunishmentRows BY <2>1, <3>1, PunishType, Zenon
      <4>2. Invalidating(OwnerOf[TargetOf[handling[w].report]]) \in Calls
        BY <2>5, Zenon DEF Invalidating, Calls
      <4> QED BY <1>9, <3>1, <4>1, <4>2, Zenon DEF CompleteReview
    <3>2. CASE handling[w].action.kind # "punish"
      BY <1>9, <3>2, Zenon DEF CompleteReview
    <3> QED BY <3>1, <3>2, Zenon
  <2> QED BY <1>9, <2>3, <2>4, <2>6, Zenon DEF CompleteReview
<1>10. ASSUME NEW w \in Handlers, RevokeActive(w) PROVE ModerationTypeOK'
  <2>1. handling[w].punishment \in Punishments BY <1>10, CallFields, Zenon DEF RevokeActive
  <2>2. Revoked(handling[w].punishment) \in PunishmentRows \cup {NoPunishment}
    BY <2>1, RevokedType, Zenon
  <2>3. punishments[handling[w].punishment].status # Nil
    BY <1>10, Zenon DEF ModerationInv, RevokeActive
  <2>4. Invalidating(punishments[handling[w].punishment].user) \in Calls
    BY <2>1, <2>3, PunishmentFields, Zenon DEF Invalidating, Calls, PunishmentRows
  <2> QED BY <1>10, <2>1, <2>2, <2>4 DEF RevokeActive
<1>11. ASSUME NEW w \in Handlers, RecordDecision(w) PROVE ModerationTypeOK'
  <2>1. handling[w].punishment \in Punishments /\ handling[w].approved \in BOOLEAN
    BY <1>11, CallFields, Zenon DEF RecordDecision
  <2>2. Decided(handling[w].punishment, handling[w].approved)
          \in PunishmentRows \cup {NoPunishment}
    BY <2>1, RevokedType, Zenon DEF Decided
  <2>3. punishments[handling[w].punishment].status # Nil
    BY <1>11, Zenon DEF ModerationInv, RecordDecision
  <2>4. Invalidating(punishments[handling[w].punishment].user) \in Calls
    BY <2>1, <2>3, PunishmentFields, Zenon DEF Invalidating, Calls, PunishmentRows
  <2>5. handling' \in [Handlers -> {Free} \cup Calls]
    BY <1>11, <2>4, Zenon DEF RecordDecision
  <2>6. punishments' \in [Punishments -> PunishmentRows \cup {NoPunishment}]
    BY <1>11, <2>1, <2>2, Zenon DEF RecordDecision
  <2>7. /\ appeals' \in [Punishments -> {Nil, "pending", "approved", "rejected"}]
        /\ decisions' \in [Punishments -> Seq({"revoke", "approved", "rejected"})]
    <3>1. PICK k \in Punishments, outcome \in {"approved", "rejected"} :
            /\ appeals' = [appeals EXCEPT ![k] = IF @ = "pending" THEN outcome ELSE @]
            /\ decisions' = [decisions EXCEPT ![k] = Append(@, outcome)]
      BY <1>11, <2>1, Zenon DEF RecordDecision
    <3>2. Append(decisions[k], outcome) \in Seq({"revoke", "approved", "rejected"})
      BY <3>1
    <3>3. /\ appeals \in [Punishments -> {Nil, "pending", "approved", "rejected"}]
          /\ decisions \in [Punishments -> Seq({"revoke", "approved", "rejected"})]
      BY Zenon DEF ModerationTypeOK
    <3> QED BY <3>1, <3>2, <3>3, Zenon
  <2> QED BY <1>11, <2>5, <2>6, <2>7, Zenon DEF RecordDecision
<1>12. ASSUME NEW w \in Handlers, Invalidate(w) PROVE ModerationTypeOK'
  <2>1. handling[w].user \in Members BY <1>12, CallFields, Zenon DEF Invalidate
  <2> QED BY <1>12, <2>1, Zenon DEF Invalidate
<1>13. ASSUME NEW w \in Handlers, SetCache(w) PROVE ModerationTypeOK'
  <2>1. handling[w].user \in Members /\ handling[w].ttl \in Timers
          /\ handling[w].caps \in SUBSET Capabilities
    BY <1>13, CallFields, Zenon DEF SetCache
  <2>2. [caps |-> handling[w].caps, ttl |-> handling[w].ttl]
          \in [caps : SUBSET Capabilities, ttl : Timers]
    BY <2>1, Zenon
  <2> QED BY <1>13, <2>1, <2>2, Zenon DEF SetCache
<1>14. ASSUME NEW w \in Handlers, LoseHandler(w) PROVE ModerationTypeOK'
  BY <1>14, Zenon DEF LoseHandler
<1>15. ASSUME PassTime PROVE ModerationTypeOK'
  <2>1. punishments' \in [Punishments -> PunishmentRows \cup {NoPunishment}]
    <3>1. ASSUME NEW p \in Punishments
          PROVE  [punishments[p] EXCEPT !.left = CountDown(@)]
                   \in PunishmentRows \cup {NoPunishment}
      <4>1. CountDown(punishments[p].left) \in Timers
        BY PunishmentFields, CountDownType, Zenon
      <4>2. CASE punishments[p] \in PunishmentRows
        BY <4>1, <4>2, Zenon DEF PunishmentRows
      <4>3. CASE punishments[p] = NoPunishment
        BY <4>3 DEF NoPunishment, CountDown
      <4> QED BY <4>2, <4>3, Zenon
    <3> QED BY <1>15, <3>1, Zenon DEF PassTime
  <2>2. cache' \in [Members -> [caps : SUBSET Capabilities, ttl : Timers] \cup {Nil}]
    <3>1. ASSUME NEW u \in Members, cache[u] # Nil
          PROVE  [cache[u] EXCEPT !.ttl = CountDown(@)]
                   \in [caps : SUBSET Capabilities, ttl : Timers]
      <4>1. cache[u] \in [caps : SUBSET Capabilities, ttl : Timers] BY <3>1, Zenon
      <4>2. CountDown(cache[u].ttl) \in Timers BY <4>1, CountDownType, Zenon
      <4> QED BY <4>1, <4>2, Zenon
    <3> QED BY <1>15, <3>1, Zenon DEF PassTime
  <2> QED BY <1>15, <2>1, <2>2, Zenon DEF PassTime
<1>16. CASE UNCHANGED moderationVars BY <1>16, Zenon DEF moderationVars
<1> QED BY <1>1, <1>2, <1>3, <1>4, <1>5, <1>6, <1>7, <1>8, <1>9, <1>10, <1>11,
           <1>12, <1>13, <1>14, <1>15, <1>16, Zenon DEF ModerationNext, Steps

----------------------------------------------------------------------------

\* Time changes nothing of a punishment but what is left of it.
LEMMA TickFields ==
  ASSUME ModerationTypeOK, PassTime, NEW p \in Punishments
  PROVE  /\ punishments'[p].status = punishments[p].status
         /\ punishments'[p].report = punishments[p].report
         /\ punishments'[p].user = punishments[p].user
<1>1. punishments'[p] = [punishments[p] EXCEPT !.left = CountDown(@)] BY Zenon DEF PassTime
<1>2. CASE punishments[p] \in PunishmentRows BY <1>1, <1>2, Zenon DEF PunishmentRows
<1>3. CASE punishments[p] = NoPunishment BY <1>1, <1>3, Zenon DEF NoPunishment
<1> QED BY <1>2, <1>3, Zenon DEF ModerationTypeOK

\* A step that leaves a report's audit row, its outcome and the punishments
\* that refer to it alone leaves the report reviewed once.
LEMMA SameReview ==
  ASSUME NEW r \in Reports, Reviewed(r),
         reviews'[r] = reviews[r],
         reports'[r].status \in {"rejected", "actioned"}
           \/ reports[r].status \in {"rejected", "actioned"}
             => reports'[r].status = reports[r].status,
         \A p \in Punishments : /\ punishments'[p].report = punishments[p].report
                                /\ punishments'[p].user = punishments[p].user
  PROVE  Reviewed(r)'
<1>1. PunishmentsFor(r)' = PunishmentsFor(r) BY Zenon DEF PunishmentsFor
<1>2. \A p \in PunishmentsFor(r) : p \in Punishments BY Zenon DEF PunishmentsFor
<1>3. /\ reviews'[r] = <<>> <=> reports'[r].status \notin {"rejected", "actioned"}
      /\ reviews'[r] # <<>> =>
           /\ Len(reviews'[r]) = 1
           /\ reports'[r].status = "rejected" <=> reviews'[r][1] = "reject"
  BY Zenon DEF Reviewed
<1>4. CASE reviews[r] = <<"punish">>
  <2>1. PICK p \in PunishmentsFor(r) : /\ PunishmentsFor(r) = {p}
                                       /\ punishments[p].user = OwnerOf[TargetOf[r]]
    BY <1>4, Zenon DEF Reviewed
  <2>2. punishments'[p].user = OwnerOf[TargetOf[r]] BY <2>1, <1>2, Zenon
  <2> QED BY <1>1, <1>3, <1>4, <2>1, <2>2, Zenon DEF Reviewed
<1>5. CASE reviews[r] # <<"punish">>
  BY <1>1, <1>3, <1>5, Zenon DEF Reviewed
<1> QED BY <1>4, <1>5, Zenon

\* Completing a review is the only step that decides a report.
LEMMA ReviewedNext ==
  ASSUME ModerationInv, [ModerationNext]_moderationVars
  PROVE  ReviewedOnce'
<1> ModerationTypeOK BY Zenon DEF ModerationInv
<1> ReviewedOnce BY Zenon DEF ModerationInv
<1> SUFFICES ASSUME NEW r \in Reports PROVE Reviewed(r)' BY Zenon DEF ReviewedOnce
<1> Reviewed(r) BY Zenon DEF ReviewedOnce
<1>1. ASSUME NEW x \in Reports, CreateReport(x) \/ WithdrawReport(x) \/
               \E a \in Admins : ClaimReport(x, a)
      PROVE  Reviewed(r)'
  <2>1. /\ reviews' = reviews /\ punishments' = punishments
        /\ reports'[r] # reports[r] =>
             /\ reports[r].status \notin {"rejected", "actioned"}
             /\ reports'[r].status \notin {"rejected", "actioned"}
    BY <1>1, NilAssumption DEF CreateReport, WithdrawReport, Withdrawable,
       ClaimReport, Claimable, ModerationTypeOK
  <2> QED BY <2>1, SameReview, Zenon
<1>2. ASSUME reports' = reports, reviews' = reviews, punishments' = punishments
      PROVE  Reviewed(r)'
  BY <1>2, SameReview, Zenon
<1>3. ASSUME NEW w \in Handlers, CompleteReview(w) PROVE Reviewed(r)'
  <2>1. handling[w] \in [op : {"hide", "complete"}, report : Reports,
                      admin : Admins, action : Actions]
    BY <1>3, CallFields, Zenon DEF CompleteReview
  <2> DEFINE call == handling[w]
  <2>2. /\ reports[call.report].status = "reviewing"
        /\ reports' = [reports EXCEPT ![call.report].status = Outcome(call.action)]
        /\ reviews' = [reviews EXCEPT ![call.report] = Append(@, call.action.kind)]
    BY <1>3, Zenon DEF CompleteReview, Completable, UnderReview
  <2>3. Reviewed(call.report) BY <2>1, Zenon DEF ReviewedOnce
  <2>4. reviews[call.report] = <<>> /\ PunishmentsFor(call.report) = {}
    <3>1. reports[call.report].status \notin {"rejected", "actioned"}
      BY <2>2, Zenon
    <3>2. reviews[call.report] = <<>>
      BY <2>3, <3>1, Zenon DEF Reviewed
    <3>3. <<>> # <<"punish">>
      OBVIOUS
    <3>4. QED BY <2>3, <3>2, <3>3, Zenon DEF Reviewed
  <2>5. call.action.kind \in Kinds BY <2>1 DEF Actions, Kinds
  <2>6. reviews'[call.report] = <<call.action.kind>>
    BY <2>1, <2>2, <2>4, <2>5 DEF ModerationTypeOK
  <2>7. reports'[call.report].status = Outcome(call.action)
    BY <2>1, <2>2, Zenon DEF ModerationTypeOK
  <2>8. CASE call.action.kind = "punish"
    <3>1. PICK p \in Punishments :
             /\ punishments[p].status = Nil
             /\ punishments' = [punishments EXCEPT ![p] = Punish(call)]
      BY <1>3, <2>8, Zenon DEF CompleteReview
    <3>2. punishments[p].report = Nil BY <3>1, PunishmentFields DEF NoPunishment
    <3>3. /\ punishments'[p].report = call.report
          /\ punishments'[p].user = OwnerOf[TargetOf[call.report]]
      BY <3>1, Zenon DEF Punish, ModerationTypeOK
    <3>4. \A q \in Punishments : q # p => punishments'[q] = punishments[q]
      BY <3>1, Zenon DEF ModerationTypeOK
    <3>5. CASE r = call.report
      <4>1. PunishmentsFor(r)' = {p}
        BY <2>4, <3>3, <3>4, <3>5 DEF PunishmentsFor
      <4>2. Outcome(call.action) = "actioned" BY <2>8, Zenon DEF Outcome
      <4>3. reviews'[r] = <<"punish">> /\ reports'[r].status = "actioned"
        BY <2>6, <2>7, <2>8, <3>5, <4>2, Zenon
      <4>4. <<"punish">> # <<>> /\ Len(<<"punish">>) = 1 /\ <<"punish">>[1] # "reject"
        OBVIOUS
      <4>5. reports'[r].status # "rejected"
        BY <4>3, Zenon
      <4> QED BY <3>3, <3>5, <4>1, <4>3, <4>4, <4>5, Zenon DEF Reviewed
    <3>6. CASE r # call.report
      <4>1. reviews'[r] = reviews[r] /\ reports'[r] = reports[r]
        BY <2>1, <2>2, <3>6, Zenon DEF ModerationTypeOK
      <4>2. PunishmentsFor(r)' = PunishmentsFor(r)
        BY <3>2, <3>3, <3>4, <3>6, NilAssumption, Zenon DEF PunishmentsFor
      <4>3. \A q \in PunishmentsFor(r) : punishments'[q] = punishments[q]
        BY <3>2, <3>4, NilAssumption, Zenon DEF PunishmentsFor
      <4> QED BY <4>1, <4>2, <4>3, Zenon DEF Reviewed
    <3> QED BY <3>5, <3>6, Zenon
  <2>9. CASE call.action.kind # "punish"
    <3>1. punishments' = punishments BY <1>3, <2>9, Zenon DEF CompleteReview
    <3>2. CASE r = call.report
      <4>1. PunishmentsFor(r)' = {} BY <2>4, <3>1, <3>2, Zenon DEF PunishmentsFor
      <4>2. reviews'[r] = <<call.action.kind>>
              /\ reports'[r].status = Outcome(call.action)
        BY <2>6, <2>7, <3>2, Zenon
      <4>3. Outcome(call.action) = IF call.action.kind = "reject"
                                   THEN "rejected" ELSE "actioned"
        BY Zenon DEF Outcome
      <4> QED BY <2>9, <4>1, <4>2, <4>3 DEF Reviewed
    <3>3. CASE r # call.report
      <4>1. reviews'[r] = reviews[r] /\ reports'[r] = reports[r]
        BY <2>1, <2>2, <3>3, Zenon DEF ModerationTypeOK
      <4> QED BY <3>1, <4>1, SameReview, Zenon
    <3> QED BY <3>2, <3>3, Zenon
  <2> QED BY <2>8, <2>9, Zenon
<1>4. ASSUME reports' = reports, reviews' = reviews,
             \A p \in Punishments :
               punishments'[p] = punishments[p] \/ punishments'[p] = Revoked(p)
      PROVE  Reviewed(r)'
  <2>1. ASSUME NEW p \in Punishments
        PROVE  /\ punishments'[p].report = punishments[p].report
               /\ punishments'[p].user = punishments[p].user
    <3>1. \/ Revoked(p) = punishments[p]
          \/ punishments[p] \in PunishmentRows
             /\ Revoked(p) = [punishments[p] EXCEPT !.status = "revoked"]
      BY PunishmentFields, NilAssumption, Zenon DEF Revoked
    <3> QED BY <1>4, <3>1, Zenon DEF PunishmentRows
  <2> QED BY <1>4, <2>1, SameReview, Zenon
<1>5. ASSUME NEW w \in Handlers, RevokeActive(w) PROVE Reviewed(r)'
  <2>1. handling[w].punishment \in Punishments BY <1>5, CallFields, Zenon DEF RevokeActive
  <2> QED BY <1>4, <1>5, <2>1, Zenon DEF RevokeActive, ModerationTypeOK
<1>6. ASSUME NEW w \in Handlers, RecordDecision(w) PROVE Reviewed(r)'
  <2>1. handling[w].punishment \in Punishments BY <1>6, CallFields, Zenon DEF RecordDecision
  <2> QED BY <1>4, <1>6, <2>1, Zenon DEF RecordDecision, Decided, ModerationTypeOK
<1>7. ASSUME PassTime PROVE Reviewed(r)'
  <2>1. ASSUME NEW p \in Punishments
        PROVE  /\ punishments'[p].report = punishments[p].report
               /\ punishments'[p].user = punishments[p].user
    BY <1>7, TickFields, Zenon
  <2> QED BY <1>7, <2>1, SameReview, Zenon DEF PassTime
<1> QED BY <1>1, <1>2, <1>3, <1>5, <1>6, <1>7, Zenon
    DEF ModerationNext, Steps, moderationVars, CreateAppeal, DecideReport, HideTarget, RevokePunishment,
        DecideAppeal, Invalidate, ActivePunishments, SetCache, LoseHandler
----------------------------------------------------------------------------

\* How a step may move a report.
ReportStep(r) ==
  reports'[r] # reports[r] =>
    /\ <<reports[r].status, reports'[r].status>> \in
         {<<Nil, "pending">>, <<"pending", "withdrawn">>,
          <<"pending", "reviewing">>, <<"reviewing", "rejected">>,
          <<"reviewing", "actioned">>}
    /\ reports[r].assignee # Nil => reports'[r].assignee = reports[r].assignee
    /\ IF reports[r].status = "pending" /\ reports'[r].status = "reviewing"
       THEN reports'[r].assignee # Nil
       ELSE reports'[r].assignee = reports[r].assignee

\* Reports only move along their machine.
LEMMA ReportSteps ==
  ASSUME ModerationInv, [ModerationNext]_moderationVars, NEW r \in Reports
  PROVE  ReportStep(r)
<1> ModerationTypeOK BY Zenon DEF ModerationInv
<1> reports[r].status \in {"reviewing", "rejected", "actioned"}
      <=> reports[r].assignee # Nil
  BY Zenon DEF ModerationInv
<1> USE NilAssumption DEF ModerationTypeOK, ReportStep
<1>1. ASSUME NEW x \in Reports, CreateReport(x) PROVE ReportStep(r)
  BY <1>1 DEF CreateReport
<1>2. ASSUME NEW x \in Reports, WithdrawReport(x) PROVE ReportStep(r)
  BY <1>2, Zenon DEF WithdrawReport, Withdrawable
<1>3. ASSUME NEW x \in Reports, NEW a \in Admins, ClaimReport(x, a)
      PROVE  ReportStep(r)
  <2>1. reports[x].assignee = Nil BY <1>3, Zenon DEF ClaimReport, Claimable, ModerationInv
  <2> QED BY <1>3, <2>1, Zenon DEF ClaimReport, Claimable
<1>4. ASSUME NEW w \in Handlers, CompleteReview(w) PROVE ReportStep(r)
  <2>1. handling[w].report \in Reports BY <1>4, CallFields, Zenon DEF CompleteReview
  <2> QED BY <1>4, <2>1, Zenon DEF CompleteReview, Completable, UnderReview, Outcome
<1>5. ASSUME reports' = reports PROVE ReportStep(r) BY <1>5, Zenon
<1> QED BY <1>1, <1>2, <1>3, <1>4, <1>5, Zenon
    DEF ModerationNext, Steps, moderationVars, CreateAppeal, DecideReport, HideTarget, RevokePunishment,
        RevokeActive, DecideAppeal, RecordDecision, Invalidate, ActivePunishments,
        SetCache, LoseHandler, PassTime

\* Hiding happens in calls about claimed reports, which are never withdrawn.
LEMMA HiddenNext ==
  ASSUME ModerationInv, [ModerationNext]_moderationVars
  PROVE  HiddenUnderReview'
<1> ModerationTypeOK BY Zenon DEF ModerationInv
<1> SUFFICES ASSUME NEW t \in hidden'
             PROVE  \E r \in Reports : TargetOf[r] = t /\
                      reports'[r].status \in {"reviewing", "rejected", "actioned"}
  BY Zenon DEF HiddenUnderReview
<1>1. \E r \in Reports : TargetOf[r] = t /\
        reports[r].status \in {"reviewing", "rejected", "actioned"}
  <2>1. CASE t \in hidden BY <2>1, Zenon DEF ModerationInv, HiddenUnderReview
  <2>2. CASE t \notin hidden
    <3>1. PICK w \in Handlers : HideTarget(w)
      BY <2>2, Zenon DEF ModerationNext, Steps, moderationVars, CreateReport, WithdrawReport, ClaimReport,
         CreateAppeal, DecideReport, CompleteReview, RevokePunishment, RevokeActive,
         DecideAppeal, RecordDecision, Invalidate, ActivePunishments, SetCache,
         LoseHandler, PassTime
    <3>2. handling[w].report \in Reports /\ TargetOf[handling[w].report] = t
      BY <2>2, <3>1, CallFields, Zenon DEF HideTarget
    <3>3. reports[handling[w].report].assignee # Nil
      BY <3>1, Zenon DEF HideTarget, ModerationInv
    <3> QED BY <3>2, <3>3, Zenon DEF ModerationInv
  <2> QED BY <2>1, <2>2, Zenon
<1>2. PICK r \in Reports : TargetOf[r] = t /\
        reports[r].status \in {"reviewing", "rejected", "actioned"}
  BY <1>1, Zenon
<1>3. ReportStep(r) BY ReportSteps, Zenon
<1>4. reports'[r].status \in {"reviewing", "rejected", "actioned"}
  BY <1>2, <1>3, NilAssumption, Zenon DEF ReportStep
<1> QED BY <1>2, <1>4, Zenon

\* Appending a row to the audit log lifts the punishment if the row does.
LEMMA LogGrows ==
  ASSUME ModerationTypeOK, NEW p \in Punishments, NEW row \in {"revoke", "approved", "rejected"},
         decisions'[p] = Append(decisions[p], row)
  PROVE  Lifted(p)' <=> Lifted(p) \/ row \in {"revoke", "approved"}
<1>1. decisions[p] \in Seq({"revoke", "approved", "rejected"}) BY Zenon DEF ModerationTypeOK
<1>2. /\ Len(decisions'[p]) = Len(decisions[p]) + 1
      /\ \A i \in 1..Len(decisions[p]) : decisions'[p][i] = decisions[p][i]
      /\ decisions'[p][Len(decisions[p]) + 1] = row
      /\ Len(decisions[p]) \in Nat
  BY <1>1
<1>3. 1..(Len(decisions[p]) + 1) = (1..Len(decisions[p])) \cup {Len(decisions[p]) + 1}
  BY <1>2
<1> QED BY <1>2, <1>3, Zenon DEF Lifted

\* Revocations write their row in the transaction that revokes.
LEMMA LoggedNext ==
  ASSUME ModerationInv, [ModerationNext]_moderationVars
  PROVE  RevocationsAreLogged'
<1> ModerationTypeOK BY Zenon DEF ModerationInv
<1> SUFFICES ASSUME NEW p \in Punishments
             PROVE  /\ punishments'[p].status = "revoked" <=> Lifted(p)'
                    /\ appeals'[p] = "approved" => punishments'[p].status = "revoked"
  BY Zenon DEF RevocationsAreLogged
<1> DEFINE Goal == /\ punishments'[p].status = "revoked" <=> Lifted(p)'
                   /\ appeals'[p] = "approved" => punishments'[p].status = "revoked"
<1>1. /\ punishments[p].status = "revoked" <=> Lifted(p)
      /\ appeals[p] = "approved" => punishments[p].status = "revoked"
  BY Zenon DEF ModerationInv, RevocationsAreLogged
<1>2. ASSUME decisions'[p] = decisions[p], appeals'[p] # "approved" \/ appeals'[p] = appeals[p],
             punishments'[p].status = punishments[p].status
      PROVE  Goal
  BY <1>1, <1>2, Zenon DEF Lifted
<1>3. ASSUME NEW x \in Punishments, CreateAppeal(x) PROVE Goal
  <2>1. appeals'[p] # "approved" \/ appeals'[p] = appeals[p]
    BY <1>3, Zenon DEF CreateAppeal, ModerationTypeOK
  <2> QED BY <1>2, <1>3, <2>1, Zenon DEF CreateAppeal
<1>4. ASSUME NEW w \in Handlers, CompleteReview(w) PROVE Goal
  <2>1. CASE handling[w].action.kind # "punish"
    BY <1>2, <1>4, <2>1, Zenon DEF CompleteReview
  <2>2. CASE handling[w].action.kind = "punish"
    <3>1. PICK q \in Punishments :
             /\ punishments[q].status = Nil
             /\ punishments' = [punishments EXCEPT ![q] = Punish(handling[w])]
      BY <1>4, <2>2, Zenon DEF CompleteReview
    <3>2. CASE q # p BY <1>2, <1>4, <3>1, <3>2, Zenon DEF CompleteReview, ModerationTypeOK
    <3>3. CASE q = p
      <4>1. punishments'[p].status = "active" BY <3>1, <3>3, Zenon DEF Punish, ModerationTypeOK
      <4>2. ~Lifted(p) /\ appeals[p] # "approved"
        BY <1>1, <3>1, <3>3, NilAssumption, Zenon
      <4> QED BY <1>4, <4>1, <4>2, Zenon DEF CompleteReview, Lifted
    <3> QED BY <3>2, <3>3, Zenon
  <2> QED BY <2>1, <2>2, Zenon
<1>5. Revoked(p).status = IF punishments[p].status = "active" THEN "revoked"
                          ELSE punishments[p].status
  BY PunishmentFields, NilAssumption, Zenon DEF Revoked, PunishmentRows
<1>6. punishments[p].status # Nil => punishments[p].status \in {"active", "revoked"}
  BY PunishmentFields, Zenon DEF PunishmentRows
<1>7. ASSUME NEW w \in Handlers, RevokeActive(w) PROVE Goal
  <2>1. handling[w].punishment \in Punishments BY <1>7, CallFields, Zenon DEF RevokeActive
  <2>2. CASE handling[w].punishment # p
    BY <1>2, <1>7, <2>1, <2>2, Zenon DEF RevokeActive, ModerationTypeOK
  <2>3. CASE handling[w].punishment = p
    <3>1. punishments[p].status # Nil BY <1>7, <2>3, Zenon DEF ModerationInv, RevokeActive
    <3>2. punishments'[p] = Revoked(p) /\ appeals' = appeals
            /\ decisions'[p] = Append(decisions[p], "revoke")
      BY <1>7, <2>3, Zenon DEF RevokeActive, ModerationTypeOK
    <3>3. Lifted(p)' BY <3>2, LogGrows, Zenon
    <3> QED BY <1>5, <1>6, <3>1, <3>2, <3>3, Zenon
  <2> QED BY <2>2, <2>3, Zenon
<1>8. ASSUME NEW w \in Handlers, RecordDecision(w) PROVE Goal
  <2>1. handling[w].punishment \in Punishments /\ handling[w].approved \in BOOLEAN
    BY <1>8, CallFields, Zenon DEF RecordDecision
  <2>2. CASE handling[w].punishment # p
    BY <1>2, <1>8, <2>1, <2>2, Zenon DEF RecordDecision, ModerationTypeOK
  <2>3. CASE handling[w].punishment = p
    <3>1. punishments[p].status # Nil BY <1>8, <2>3, Zenon DEF ModerationInv, RecordDecision
    <3>2. CASE handling[w].approved
      <4>1. punishments'[p] = Revoked(p)
              /\ decisions'[p] = Append(decisions[p], "approved")
        BY <1>8, <2>3, <3>2, Zenon DEF RecordDecision, Decided, ModerationTypeOK
      <4>2. Lifted(p)' BY <4>1, LogGrows, Zenon
      <4> QED BY <1>5, <1>6, <3>1, <4>1, <4>2, Zenon
    <3>3. CASE ~handling[w].approved
      <4>1. /\ punishments'[p] = punishments[p]
            /\ decisions'[p] = Append(decisions[p], "rejected")
            /\ appeals'[p] = "approved" => appeals[p] = "approved"
        BY <1>8, <2>3, <3>3, Zenon DEF RecordDecision, Decided, ModerationTypeOK
      <4>2. Lifted(p)' <=> Lifted(p) BY <4>1, LogGrows, Zenon
      <4> QED BY <1>1, <4>1, <4>2, Zenon
    <3> QED BY <2>1, <3>2, <3>3, Zenon
  <2> QED BY <2>2, <2>3, Zenon
<1>9. ASSUME PassTime PROVE Goal
  <2>1. punishments'[p].status = punishments[p].status
    BY <1>9, TickFields, Zenon
  <2> QED BY <1>2, <1>9, <2>1, Zenon DEF PassTime
<1>10. ASSUME UNCHANGED <<punishments, appeals, decisions>> PROVE Goal
  BY <1>2, <1>10, Zenon
<1> QED BY <1>3, <1>4, <1>7, <1>8, <1>9, <1>10, Zenon
    DEF ModerationNext, Steps, moderationVars, CreateReport, WithdrawReport, ClaimReport, DecideReport,
        HideTarget, RevokePunishment, DecideAppeal, Invalidate, ActivePunishments,
        SetCache, LoseHandler
----------------------------------------------------------------------------

\* A punishment that exists goes on existing.
LEMMA PunishmentsStay ==
  ASSUME ModerationInv, [ModerationNext]_moderationVars, NEW p \in Punishments, punishments[p].status # Nil
  PROVE  punishments'[p].status # Nil
<1> ModerationTypeOK BY Zenon DEF ModerationInv
<1>1. ASSUME NEW w \in Handlers, CompleteReview(w) PROVE punishments'[p].status # Nil
  <2>1. CASE handling[w].action.kind # "punish" BY <1>1, <2>1, Zenon DEF CompleteReview
  <2>2. CASE handling[w].action.kind = "punish"
    <3>1. PICK q \in Punishments :
             /\ punishments[q].status = Nil
             /\ punishments' = [punishments EXCEPT ![q] = Punish(handling[w])]
      BY <1>1, <2>2, Zenon DEF CompleteReview
    <3> QED BY <3>1, Zenon DEF ModerationTypeOK
  <2> QED BY <2>1, <2>2, Zenon
<1>2. punishments[p] \in PunishmentRows BY PunishmentFields, Zenon
<1>3. Revoked(p).status # Nil BY <1>2, NilAssumption, Zenon DEF Revoked, PunishmentRows
<1>4. ASSUME NEW w \in Handlers, RevokeActive(w) PROVE punishments'[p].status # Nil
  <2>1. handling[w].punishment \in Punishments BY <1>4, CallFields, Zenon DEF RevokeActive
  <2> QED BY <1>3, <1>4, <2>1, Zenon DEF RevokeActive, ModerationTypeOK
<1>5. ASSUME NEW w \in Handlers, RecordDecision(w) PROVE punishments'[p].status # Nil
  <2>1. handling[w].punishment \in Punishments BY <1>5, CallFields, Zenon DEF RecordDecision
  <2> QED BY <1>3, <1>5, <2>1, Zenon DEF RecordDecision, Decided, ModerationTypeOK
<1>6. ASSUME PassTime PROVE punishments'[p].status # Nil BY <1>6, TickFields, Zenon
<1> QED BY <1>1, <1>4, <1>5, <1>6, Zenon
    DEF ModerationNext, Steps, moderationVars, CreateReport, WithdrawReport, ClaimReport, CreateAppeal,
        DecideReport, HideTarget, RevokePunishment, DecideAppeal, Invalidate,
        ActivePunishments, SetCache, LoseHandler

\* What calls and appeals refer to.
References ==
  /\ \A r \in Reports :
       reports[r].status \in {"reviewing", "rejected", "actioned"}
         <=> reports[r].assignee # Nil
  /\ \A w \in Handlers :
       /\ handling[w].op \in {"hide", "complete"} =>
            reports[handling[w].report].assignee # Nil
       /\ handling[w].op \in {"revoke", "appeal"} =>
            punishments[handling[w].punishment].status # Nil
  /\ \A p \in Punishments :
       appeals[p] # Nil => punishments[p].status # Nil

\* A step starts a call on rows that exist, keeps its subject, or ends it.
LEMMA CallSteps ==
  ASSUME ModerationInv, [ModerationNext]_moderationVars, NEW w \in Handlers
  PROVE  /\ handling'[w].op \in {"hide", "complete"} =>
              \/ /\ handling[w].op \in {"hide", "complete"}
                 /\ handling'[w].report = handling[w].report
              \/ \E r \in Reports : /\ handling'[w].report = r
                                    /\ reports[r].assignee # Nil
         /\ handling'[w].op \in {"revoke", "appeal"} =>
              \/ /\ handling[w].op \in {"revoke", "appeal"}
                 /\ handling'[w].punishment = handling[w].punishment
              \/ \E p \in Punishments : /\ handling'[w].punishment = p
                                        /\ punishments[p].status # Nil
<1> ModerationTypeOK BY Zenon DEF ModerationInv
<1> DEFINE Goal ==
         /\ handling'[w].op \in {"hide", "complete"} =>
              \/ /\ handling[w].op \in {"hide", "complete"}
                 /\ handling'[w].report = handling[w].report
              \/ \E r \in Reports : /\ handling'[w].report = r
                                    /\ reports[r].assignee # Nil
         /\ handling'[w].op \in {"revoke", "appeal"} =>
              \/ /\ handling[w].op \in {"revoke", "appeal"}
                 /\ handling'[w].punishment = handling[w].punishment
              \/ \E p \in Punishments : /\ handling'[w].punishment = p
                                        /\ punishments[p].status # Nil
<1>1. ASSUME handling'[w] = handling[w] PROVE Goal BY <1>1, Zenon
<1>2. ASSUME handling'[w].op \in {"idle", "invalidate", "fill"} PROVE Goal BY <1>2, Zenon
<1>3. ASSUME NEW x \in Handlers, NEW r \in Reports, NEW a \in Admins,
             NEW action \in Actions, DecideReport(x, r, a, action)
      PROVE  Goal
  <2>1. reports[r].assignee # Nil
    BY <1>3, NilAssumption, Zenon DEF DecideReport, UnderReview
  <2>2. CASE x # w BY <1>1, <1>3, <2>2, Zenon DEF DecideReport, ModerationTypeOK
  <2>3. CASE x = w
    <3>1. handling'[w] = [op |-> IF action.kind = "hide" THEN "hide" ELSE "complete",
                       report |-> r, admin |-> a, action |-> action]
      BY <1>3, <2>3, Zenon DEF DecideReport, ModerationTypeOK
    <3>2. handling'[w].report = r /\ handling'[w].op \in {"hide", "complete"} BY <3>1
    <3> QED BY <2>1, <3>2, Zenon
  <2> QED BY <2>2, <2>3, Zenon
<1>4. ASSUME NEW x \in Handlers, NEW p \in Punishments, RevokePunishment(x, p)
      PROVE  Goal
  <2>1. CASE x # w BY <1>1, <1>4, <2>1, Zenon DEF RevokePunishment, ModerationTypeOK
  <2>2. CASE x = w
    <3>1. handling'[w] = [op |-> "revoke", punishment |-> p]
      BY <1>4, <2>2, Zenon DEF RevokePunishment, ModerationTypeOK
    <3>2. punishments[p].status # Nil BY <1>4, NilAssumption, Zenon DEF RevokePunishment
    <3> QED BY <3>1, <3>2
  <2> QED BY <2>1, <2>2, Zenon
<1>5. ASSUME NEW x \in Handlers, NEW p \in Punishments, NEW approved \in BOOLEAN,
             DecideAppeal(x, p, approved)
      PROVE  Goal
  <2>1. CASE x # w BY <1>1, <1>5, <2>1, Zenon DEF DecideAppeal, ModerationTypeOK
  <2>2. CASE x = w
    <3>1. handling'[w] = [op |-> "appeal", punishment |-> p, approved |-> approved]
      BY <1>5, <2>2, Zenon DEF DecideAppeal, ModerationTypeOK
    <3>2. punishments[p].status # Nil BY <1>5, NilAssumption, Zenon DEF DecideAppeal, ModerationInv
    <3> QED BY <3>1, <3>2
  <2> QED BY <2>1, <2>2, Zenon
<1>6. ASSUME NEW x \in Handlers, HideTarget(x) PROVE Goal
  <2>1. CASE x # w BY <1>1, <1>6, <2>1, Zenon DEF HideTarget, ModerationTypeOK
  <2>2. CASE x = w
    <3>1. handling[w] \in [op : {"hide", "complete"}, report : Reports,
                        admin : Admins, action : Actions]
      BY <1>6, <2>2, CallFields, Zenon DEF HideTarget
    <3>2. handling'[w] = [handling[w] EXCEPT !.op = "complete"]
      BY <1>6, <2>2, Zenon DEF HideTarget, ModerationTypeOK
    <3> QED BY <3>1, <3>2, Zenon
  <2> QED BY <2>1, <2>2, Zenon
<1>7. ASSUME NEW x \in Handlers,
             \/ CompleteReview(x) \/ RevokeActive(x) \/ RecordDecision(x)
             \/ Invalidate(x) \/ SetCache(x) \/ LoseHandler(x)
             \/ \E u \in Members : ActivePunishments(x, u)
      PROVE  Goal
  <2>1. \/ handling'[w] = handling[w]
        \/ handling'[w].op \in {"idle", "invalidate", "fill"}
    <3> USE DEF ModerationTypeOK, Free, Invalidating
    <3>1. CASE CompleteReview(x) BY <3>1 DEF CompleteReview
    <3>2. CASE RevokeActive(x) BY <3>2, Zenon DEF RevokeActive
    <3>3. CASE RecordDecision(x) BY <3>3, Zenon DEF RecordDecision
    <3>4. CASE Invalidate(x) \/ SetCache(x) \/ LoseHandler(x)
      <4>1. handling' = [handling EXCEPT ![x] = Free]
        BY <3>4, Zenon DEF Invalidate, SetCache, LoseHandler
      <4> QED BY <4>1, Zenon
    <3>5. CASE \E u \in Members : ActivePunishments(x, u)
      <4>1. PICK u \in Members : handling' = [handling EXCEPT ![x] =
              [op |-> "fill", user |-> u, ttl |-> EntryTTL(u),
               caps |-> {punishments[p].cap : p \in InForce(u)}]]
        BY <3>5, Zenon DEF ActivePunishments
      <4> QED BY <4>1, Zenon
    <3> QED BY <1>7, <3>1, <3>2, <3>3, <3>4, <3>5, Zenon
  <2> QED BY <1>1, <1>2, <2>1, Zenon
<1>8. ASSUME UNCHANGED handling PROVE Goal BY <1>1, <1>8, Zenon
<1> QED BY <1>3, <1>4, <1>5, <1>6, <1>7, <1>8, Zenon
    DEF ModerationNext, Steps, moderationVars, CreateReport, WithdrawReport, ClaimReport, CreateAppeal, PassTime

\* Reports keep their reviewer and punishments their existence, so what calls
\* and appeals refer to stays there.
LEMMA ReferencesNext ==
  ASSUME ModerationInv, [ModerationNext]_moderationVars
  PROVE  References'
<1> ModerationTypeOK /\ References BY Zenon DEF ModerationInv, References
<1>1. ASSUME NEW r \in Reports
      PROVE  /\ reports'[r].status \in {"reviewing", "rejected", "actioned"}
                  <=> reports'[r].assignee # Nil
             /\ reports[r].assignee # Nil => reports'[r].assignee # Nil
  <2>1. ReportStep(r) BY ReportSteps, Zenon
  <2> QED BY <2>1, NilAssumption, Zenon DEF References, ReportStep
<1>2. ASSUME NEW w \in Handlers, handling'[w].op \in {"hide", "complete"}
      PROVE  reports'[handling'[w].report].assignee # Nil
  <2>1. handling'[w].report \in Reports /\ reports[handling'[w].report].assignee # Nil
    BY <1>2, CallSteps, CallFields, Zenon DEF References
  <2> QED BY <1>1, <2>1, Zenon
<1>3. ASSUME NEW w \in Handlers, handling'[w].op \in {"revoke", "appeal"}
      PROVE  punishments'[handling'[w].punishment].status # Nil
  <2>1. handling'[w].punishment \in Punishments
          /\ punishments[handling'[w].punishment].status # Nil
    BY <1>3, CallSteps, CallFields, Zenon DEF References
  <2> QED BY <2>1, PunishmentsStay, Zenon
<1>4. ASSUME NEW p \in Punishments, appeals'[p] # Nil
      PROVE  punishments[p].status # Nil
  <2>1. CASE appeals'[p] = appeals[p] BY <1>4, <2>1, Zenon DEF References
  <2>2. ASSUME NEW x \in Punishments, CreateAppeal(x) PROVE punishments[p].status # Nil
    BY <1>4, <2>1, <2>2, Zenon DEF CreateAppeal, ModerationTypeOK
  <2>3. ASSUME NEW w \in Handlers, RecordDecision(w) PROVE punishments[p].status # Nil
    BY <1>4, <2>1, <2>3, Zenon DEF RecordDecision, References, ModerationTypeOK
  <2> QED BY <2>1, <2>2, <2>3, Zenon
      DEF ModerationNext, Steps, moderationVars, CreateReport, WithdrawReport, ClaimReport, DecideReport,
          HideTarget, CompleteReview, RevokePunishment, RevokeActive, DecideAppeal,
          Invalidate, ActivePunishments, SetCache, LoseHandler, PassTime
<1>5. ASSUME NEW p \in Punishments, appeals'[p] # Nil
      PROVE  punishments'[p].status # Nil
  BY <1>4, <1>5, PunishmentsStay, Zenon
<1> QED BY <1>1, <1>2, <1>3, <1>5, Zenon DEF References

----------------------------------------------------------------------------

\* The invariant holds before the first report.
LEMMA InitInv == ModerationInit => ModerationInv
<1> SUFFICES ASSUME ModerationInit PROVE ModerationInv OBVIOUS
<1> USE DEF ModerationInit
<1>1. ModerationTypeOK BY DEF ModerationTypeOK, Free
<1>2. ReviewedOnce
  BY NilAssumption, Zenon DEF ReviewedOnce, Reviewed, PunishmentsFor, NoPunishment
<1>3. HiddenUnderReview BY Zenon DEF HiddenUnderReview
<1>4. RevocationsAreLogged
  BY NilAssumption DEF RevocationsAreLogged, Lifted, NoPunishment
<1>5. References BY NilAssumption, Zenon DEF References, Free
<1> QED BY <1>1, <1>2, <1>3, <1>4, <1>5, Zenon DEF ModerationInv, References

\* The inductive invariant holds in every reachable state, for any number of
\* administrators, workers, reports and punishments.
THEOREM Invariance == ModerationSpec => []ModerationInv
<1>1. ModerationInv /\ [ModerationNext]_moderationVars => ModerationInv'
  <2> SUFFICES ASSUME ModerationInv, [ModerationNext]_moderationVars PROVE ModerationInv' OBVIOUS
  <2>1. ModerationTypeOK' BY TypeNext, Zenon
  <2>2. ReviewedOnce' BY ReviewedNext, Zenon
  <2>3. HiddenUnderReview' BY HiddenNext, Zenon
  <2>4. RevocationsAreLogged' BY LoggedNext, Zenon
  <2>5. References' BY ReferencesNext, Zenon
  <2> QED BY <2>1, <2>2, <2>3, <2>4, <2>5, Zenon DEF ModerationInv, References
<1> QED BY InitInv, <1>1, PTL DEF ModerationSpec

\* DecideReport decides a report once, with one audit row and at most one
\* punishment, however many requests race.
THEOREM ReportsAreReviewedOnce == ModerationSpec => []ReviewedOnce
<1>1. ModerationInv => ReviewedOnce BY Zenon DEF ModerationInv
<1> QED BY Invariance, <1>1, PTL

\* HideTarget runs for claimed reports only, and these are never withdrawn.
THEOREM HidingNeedsReview == ModerationSpec => []HiddenUnderReview
<1>1. ModerationInv => HiddenUnderReview BY Zenon DEF ModerationInv
<1> QED BY Invariance, <1>1, PTL

\* Revoked punishments and approved appeals agree with the audit log.
THEOREM RevocationsHaveRows == ModerationSpec => []RevocationsAreLogged
<1>1. ModerationInv => RevocationsAreLogged BY Zenon DEF ModerationInv
<1> QED BY Invariance, <1>1, PTL

\* Reports follow their machine and keep the administrator who claimed them.
THEOREM ReportsFollowTheMachine == ModerationSpec => ReportMachine
<1>1. ModerationInv /\ [ModerationNext]_moderationVars =>
        [\A r \in Reports : reports'[r] # reports[r] =>
           /\ <<reports[r].status, reports'[r].status>> \in
                {<<Nil, "pending">>, <<"pending", "withdrawn">>,
                 <<"pending", "reviewing">>, <<"reviewing", "rejected">>,
                 <<"reviewing", "actioned">>}
           /\ reports[r].assignee # Nil => reports'[r].assignee = reports[r].assignee
        ]_moderationVars
  BY ReportSteps, Zenon DEF ReportStep
<1> QED BY Invariance, <1>1, PTL DEF ModerationSpec, ReportMachine

----------------------------------------------------------------------------
(* Terms: the inductive invariant *)

DeskRows == [op : {"none", "add", "delete", "set", "create", "themes"},
             id : Nat \cup {NoTerm}, value : Names \cup {NoTerm}, theme : Nat]

TermsTyped ==
  /\ terms \in Seq(Names \cup {NoTerm}) /\ current \in Seq(Names)
  /\ themes \in [DOMAIN Themes -> Nat] /\ desk \in [Clerks -> DeskRows]

\* What a request found out and still relies on, unless it was overtaken.
Holds(row) ==
  /\ row.op = "add" => row.value \in Names
  /\ row.op \in {"delete", "set", "create"} =>
       /\ row.id \in DOMAIN terms /\ row.value \in Names
       /\ terms[row.id] \in {row.value, NoTerm}
  /\ row.op \in {"set", "create"} /\ <<"current", row.value>> \notin clashed =>
       terms[row.id] = row.value
  /\ row.op = "set" => current # <<>>
  /\ row.op = "themes" => row.theme \in DOMAIN Themes
  /\ row.op = "delete" /\ <<"current", row.value>> \notin clashed =>
       currentTermRecord # row.value
  /\ row.op = "add" /\ <<"add", row.value>> \notin clashed => FindTermByValue(row.value) = {}
  /\ row.op = "create" /\ <<"two current">> \notin clashed => current = <<>>

\* Two requests that are in each other's way are on record.
Apart(a, b) ==
  /\ a.op = "delete" /\ b.op \in {"set", "create"} /\ a.value = b.value =>
       <<"current", a.value>> \in clashed
  /\ a.op = "add" /\ b.op = "add" /\ a.value = b.value => <<"add", a.value>> \in clashed
  /\ a.op = "create" /\ b.op = "create" => <<"two current">> \in clashed
  /\ a.op = "themes" /\ b.op = "themes" /\ a.theme = b.theme => <<"theme", a.theme>> \in clashed

\* A term is there once, unless two requests added it.
NoneTwice ==
  \A v \in Names : <<"add", v>> \notin clashed =>
    \A i, j \in DOMAIN terms : terms[i] = v /\ terms[j] = v => i = j

\* The current term is one of the terms, unless it was deleted meanwhile.
CurrentKnown ==
  current # <<>> /\ <<"current", Head(current)>> \notin clashed =>
    \E i \in DOMAIN terms : terms[i] = Head(current)

TermsInv ==
  /\ TermsTyped
  /\ \A c \in Clerks : Holds(desk[c])
  /\ \A c, d \in Clerks : c # d => Apart(desk[c], desk[d])
  /\ NoneTwice /\ CurrentKnown /\ OneCurrentTerm /\ ThemesOnce

----------------------------------------------------------------------------
(* Terms: rows and sequences *)

\* What a request at the desk is doing, once it has taken something up.
Tasks == {"add", "delete", "set", "create"}
Taken(op, i, v) == [AtDesk EXCEPT !.op = op, !.id = i, !.value = v]
IsTask(row, op, i, v) == row.op = op /\ row.id = i /\ row.value = v

\* The fields of such a request.
LEMMA TakeFields ==
  ASSUME NEW op \in Tasks, NEW i \in Nat \cup {NoTerm}, NEW v \in Names
  PROVE  /\ Taken(op, i, v) \in DeskRows
         /\ IsTask(Taken(op, i, v), op, i, v)
<1>1. Taken(op, i, v) \in DeskRows
  BY Zenon DEF AtDesk, DeskRows, Taken, Tasks
<1>2. Taken(op, i, v).op = op /\ Taken(op, i, v).id = i /\ Taken(op, i, v).value = v
  BY Zenon DEF AtDesk, Taken
<1> QED BY <1>1, <1>2, Zenon DEF IsTask

\* A request that puts in the themes.
LEMMA ThemeFields ==
  ASSUME NEW t \in Nat
  PROVE  \E row \in DeskRows : /\ row = [AtDesk EXCEPT !.op = "themes", !.theme = t]
                                /\ row.op = "themes" /\ row.theme = t
<1>1. [AtDesk EXCEPT !.op = "themes", !.theme = t] \in DeskRows
  BY Zenon DEF AtDesk, DeskRows
<1>2. /\ [AtDesk EXCEPT !.op = "themes", !.theme = t].op = "themes"
      /\ [AtDesk EXCEPT !.op = "themes", !.theme = t].theme = t
  BY Zenon DEF AtDesk
<1> QED BY <1>1, <1>2, Zenon

\* A request that is done.
LEMMA DeskFields == AtDesk \in DeskRows /\ AtDesk.op = "none"
BY DEF AtDesk, DeskRows

\* A document is inserted after the others.
Longer(new, old, v) ==
  /\ \E n \in DOMAIN new : new[n] = v /\ \A i \in DOMAIN new : i \in DOMAIN old \/ i = n
  /\ \A i \in DOMAIN old : i \in DOMAIN new /\ new[i] = old[i]
  /\ new # <<>> /\ Len(new) = Len(old) + 1
  /\ old = <<>> => Head(new) = v /\ Len(new) <= 1
  /\ old # <<>> => Head(new) = Head(old)

\* Append inserts a document after the others.
LEMMA Inserted ==
  ASSUME NEW S, NEW seq \in Seq(S), NEW v \in S
  PROVE  Append(seq, v) \in Seq(S) /\ Longer(Append(seq, v), seq, v)
<1>1. /\ Len(seq) + 1 \in DOMAIN Append(seq, v) /\ Append(seq, v)[Len(seq) + 1] = v
      /\ \A i \in DOMAIN Append(seq, v) : i \in DOMAIN seq \/ i = Len(seq) + 1
      /\ \A i \in DOMAIN seq : i \in DOMAIN Append(seq, v) /\ Append(seq, v)[i] = seq[i]
  OBVIOUS
<1>2. /\ Append(seq, v) \in Seq(S) /\ Append(seq, v) # <<>>
      /\ Len(Append(seq, v)) = Len(seq) + 1
      /\ seq = <<>> => Head(Append(seq, v)) = v /\ Len(Append(seq, v)) <= 1
      /\ seq # <<>> => Head(Append(seq, v)) = Head(seq)
  OBVIOUS
<1>3. \E n \in DOMAIN Append(seq, v) :
        /\ Append(seq, v)[n] = v
        /\ \A i \in DOMAIN Append(seq, v) : i \in DOMAIN seq \/ i = n
  BY <1>1, Zenon
<1> QED BY <1>1, <1>2, <1>3, Zenon DEF Longer

\* A document is replaced.
LEMMA Replaced ==
  ASSUME NEW S, NEW seq \in Seq(S), NEW i \in DOMAIN seq, NEW v \in S
  PROVE  /\ [seq EXCEPT ![i] = v] \in Seq(S) /\ DOMAIN [seq EXCEPT ![i] = v] = DOMAIN seq
         /\ Len([seq EXCEPT ![i] = v]) = Len(seq)
         /\ [seq EXCEPT ![i] = v][i] = v
         /\ \A j \in DOMAIN seq : j # i => [seq EXCEPT ![i] = v][j] = seq[j]
OBVIOUS

\* The first document of the current term is replaced.
Rewritten(new, old, v) == new # <<>> /\ Head(new) = v /\ Len(new) = Len(old)

\* Replacing the first document leaves as many.
LEMMA HeadReplaced ==
  ASSUME NEW S, NEW seq \in Seq(S), seq # <<>>, NEW v \in S
  PROVE  [seq EXCEPT ![1] = v] \in Seq(S) /\ Rewritten([seq EXCEPT ![1] = v], seq, v)
<1>1. 1 \in DOMAIN seq
  OBVIOUS
<1>2. /\ [seq EXCEPT ![1] = v] \in Seq(S) /\ Len([seq EXCEPT ![1] = v]) = Len(seq)
      /\ [seq EXCEPT ![1] = v][1] = v
  BY <1>1, Replaced
<1> QED BY <1>1, <1>2 DEF Rewritten

\* The first document is one of the documents.
LEMMA HeadIn ==
  ASSUME NEW S, NEW seq \in Seq(S), seq # <<>>
  PROVE  Head(seq) \in S
OBVIOUS

\* The number of documents of a term, and the documents.
LEMMA TermsCounted ==
  ASSUME TermsTyped, NEW v
  PROVE  /\ CountTermsByValue(v) = 0 => FindTermByValue(v) = {}
         /\ (\A i, j \in FindTermByValue(v) : i = j) => CountTermsByValue(v) <= 1
<1>1. IsFiniteSet(FindTermByValue(v))
  <2>1. DOMAIN terms = 1 .. Len(terms) /\ Len(terms) \in Nat
    BY DEF TermsTyped
  <2>2. IsFiniteSet(1 .. Len(terms))
    BY <2>1, FS_Interval
  <2> QED BY <2>1, <2>2, FS_Subset, Zenon DEF FindTermByValue
<1>2. CountTermsByValue(v) = Cardinality(FindTermByValue(v))
  BY Zenon DEF CountTermsByValue, FindTermByValue
<1>3. CountTermsByValue(v) = 0 => FindTermByValue(v) = {}
  BY <1>1, <1>2, FS_EmptySet, Zenon
<1>4. ASSUME \A i, j \in FindTermByValue(v) : i = j
      PROVE  CountTermsByValue(v) <= 1
  <2>1. CASE FindTermByValue(v) = {}
    <3>1. CountTermsByValue(v) = 0
      BY <1>1, <1>2, <2>1, FS_EmptySet, Zenon
    <3> QED BY <3>1
  <2>2. CASE FindTermByValue(v) # {}
    <3>1. PICK i \in FindTermByValue(v) : FindTermByValue(v) = {i}
      BY <1>4, <2>2, Zenon
    <3>2. CountTermsByValue(v) = 1
      BY <1>2, <3>1, FS_Singleton, Zenon
    <3> QED BY <3>2
  <2> QED BY <2>1, <2>2, Zenon
<1> QED BY <1>3, <1>4, Zenon

----------------------------------------------------------------------------
(* Terms: the steps *)

\* What is on record stays on record.
LEMMA ApartKept ==
  ASSUME NEW a, NEW b, Apart(a, b), clashed \subseteq clashed'
  PROVE  Apart(a, b)'
BY Zenon DEF Apart

\* Where terms and the current term stay, a request knows what it knew.
LEMMA HoldsKept ==
  ASSUME NEW row, Holds(row), clashed \subseteq clashed', UNCHANGED <<terms, current>>
  PROVE  Holds(row)'
<1>1. currentTermRecord' = currentTermRecord
  BY Zenon DEF currentTermRecord
<1>2. \A v : FindTermByValue(v)' = FindTermByValue(v)
  BY Zenon DEF FindTermByValue
<1> QED BY <1>1, <1>2, Zenon DEF Holds

\* A request that is done relies on nothing and is in nobody's way.
LEMMA DoneIsFree ==
  ASSUME NEW row, row.op = "none"
  PROVE  Holds(row)' /\ \A b : Apart(row, b)' /\ Apart(b, row)'
BY Zenon DEF Holds, Apart

\* One request moves; the others rely on what they relied on.
LEMMA DeskMoves ==
  ASSUME TermsInv, NEW c \in Clerks, NEW new \in DeskRows, desk' = [desk EXCEPT ![c] = new],
         clashed \subseteq clashed', Holds(new)',
         \A d \in Clerks, row \in DeskRows : d # c /\ row = desk[d] => Holds(row)',
         \A d \in Clerks, row \in DeskRows :
            d # c /\ row = desk[d] => Apart(new, row)' /\ Apart(row, new)'
  PROVE  /\ desk' \in [Clerks -> DeskRows]
         /\ (\A d \in Clerks : Holds(desk[d]))'
         /\ (\A d, e \in Clerks : d # e => Apart(desk[d], desk[e]))'
<1>1. /\ desk \in [Clerks -> DeskRows] /\ desk' \in [Clerks -> DeskRows] /\ desk'[c] = new
      /\ \A d \in Clerks : d # c => desk'[d] = desk[d]
  BY Zenon DEF TermsInv, TermsTyped
<1>2. ASSUME NEW d \in Clerks
      PROVE  Holds(desk[d])'
  <2>1. PICK row \in DeskRows : row = desk'[d]
    BY <1>1, Zenon
  <2>2. Holds(row)'
    BY <1>1, <2>1, Zenon
  <2> QED BY <2>1, <2>2, Zenon DEF Holds, FindTermByValue
<1>3. ASSUME NEW d \in Clerks, NEW e \in Clerks, d # e
      PROVE  Apart(desk[d], desk[e])'
  <2>1. PICK a \in DeskRows : a = desk'[d]
    BY <1>1, Zenon
  <2>2. PICK b \in DeskRows : b = desk'[e]
    BY <1>1, Zenon
  <2>3. CASE d # c /\ e # c
    <3>1. Apart(a, b)
      <4>1. Apart(desk[d], desk[e]) /\ a = desk[d] /\ b = desk[e]
        BY <1>1, <1>3, <2>1, <2>2, <2>3, Zenon DEF TermsInv
      <4> QED BY <4>1, Zenon
    <3>2. Apart(a, b)'
      BY <3>1, ApartKept, Zenon
    <3> QED BY <2>1, <2>2, <3>2, Zenon DEF Apart
  <2>4. CASE d = c
    <3>1. Apart(a, b)'
      BY <1>1, <1>3, <2>1, <2>2, <2>4, Zenon
    <3> QED BY <2>1, <2>2, <3>1, Zenon DEF Apart
  <2>5. CASE e = c
    <3>1. Apart(a, b)'
      BY <1>1, <1>3, <2>1, <2>2, <2>5, Zenon
    <3> QED BY <2>1, <2>2, <3>1, Zenon DEF Apart
  <2> QED BY <2>3, <2>4, <2>5, Zenon
<1> QED BY <1>1, <1>2, <1>3, Zenon

\* A request that takes something up leaves the documents alone.
LEMMA TakesUp ==
  ASSUME TermsInv, NEW c \in Clerks, NEW new \in DeskRows, desk' = [desk EXCEPT ![c] = new],
         clashed \subseteq clashed', UNCHANGED <<terms, current, themes>>, Holds(new)',
         \A d \in Clerks, row \in DeskRows :
            d # c /\ row = desk[d] => Apart(new, row)' /\ Apart(row, new)'
  PROVE  TermsInv'
<1>1. ASSUME NEW d \in Clerks, NEW row \in DeskRows, d # c, row = desk[d]
      PROVE  Holds(row)'
  <2>1. Holds(row)
    BY <1>1, Zenon DEF TermsInv
  <2> QED BY <2>1, HoldsKept, Zenon
<1>2. /\ desk' \in [Clerks -> DeskRows]
      /\ (\A d \in Clerks : Holds(desk[d]))'
      /\ (\A d, e \in Clerks : d # e => Apart(desk[d], desk[e]))'
  BY <1>1, DeskMoves, Zenon
<1>3. TermsTyped' /\ NoneTwice' /\ CurrentKnown' /\ OneCurrentTerm' /\ ThemesOnce'
  BY <1>2, Zenon DEF TermsInv, TermsTyped, NoneTwice, CurrentKnown, OneCurrentTerm, ThemesOnce
<1> QED BY <1>2, <1>3, Zenon DEF TermsInv

\* A request leaves the desk, after changing documents.
LEMMA Leaves ==
  ASSUME TermsInv, NEW c \in Clerks, Leave(c), clashed' = clashed,
         terms' \in Seq(Names \cup {NoTerm}), current' \in Seq(Names),
         themes' \in [DOMAIN Themes -> Nat],
         \A d \in Clerks, row \in DeskRows : d # c /\ row = desk[d] => Holds(row)',
         NoneTwice', CurrentKnown', OneCurrentTerm', ThemesOnce'
  PROVE  TermsInv'
<1>1. PICK new \in DeskRows : new = AtDesk /\ new.op = "none"
  BY DeskFields, Zenon
<1>2. desk' = [desk EXCEPT ![c] = new]
  BY <1>1, Zenon DEF Leave
<1>3. /\ Holds(new)'
      /\ \A d \in Clerks, row \in DeskRows :
            d # c /\ row = desk[d] => Apart(new, row)' /\ Apart(row, new)'
  BY <1>1, DoneIsFree, Zenon
<1>4. /\ desk' \in [Clerks -> DeskRows]
      /\ (\A d \in Clerks : Holds(desk[d]))'
      /\ (\A d, e \in Clerks : d # e => Apart(desk[d], desk[e]))'
  BY <1>2, <1>3, DeskMoves, Zenon
<1> QED BY <1>4, Zenon DEF TermsInv, TermsTyped

----------------------------------------------------------------------------
(* Terms: the actions *)

\* AddTerm counted no document of the term, and is on record if another request did.
LEMMA AddStep ==
  ASSUME TermsInv, NEW c \in Clerks, NEW v \in Names, AddTerm(c, v)
  PROVE  TermsInv'
<1>1. PICK new \in DeskRows : /\ new = Taken("add", NoTerm, v)
                              /\ new.op = "add" /\ new.value = v
  <2>1. "add" \in Tasks /\ NoTerm \in Nat \cup {NoTerm}
    BY Zenon DEF Tasks
  <2>2. Taken("add", NoTerm, v) \in DeskRows /\ IsTask(Taken("add", NoTerm, v), "add", NoTerm, v)
    BY <2>1, TakeFields, Zenon
  <2> QED BY <2>2, Zenon DEF IsTask
<1>2. /\ desk' = [desk EXCEPT ![c] = new] /\ UNCHANGED <<terms, current, themes>>
      /\ clashed' = clashed \cup {<<"add", v>> : d \in wants("add", v)}
  BY <1>1, Zenon DEF AddTerm, Take, Taken, Clash
<1>3. FindTermByValue(v)' = {}
  <2>1. FindTermByValue(v) = {}
    BY TermsCounted, Zenon DEF TermsInv, AddTerm
  <2> QED BY <1>2, <2>1, Zenon DEF FindTermByValue
<1>4. Holds(new)'
  <2>1. FindTermByValue(new.value)' = {}
    BY <1>1, <1>3, Zenon DEF FindTermByValue
  <2> QED BY <1>1, <2>1, Zenon DEF Holds
<1>5. ASSUME NEW d \in Clerks, NEW row \in DeskRows, d # c, row = desk[d]
      PROVE  Apart(new, row)' /\ Apart(row, new)'
  <2>1. row.op = "add" /\ row.value = v => <<"add", v>> \in clashed'
    BY <1>2, <1>5, Zenon DEF wants, doing
  <2> QED BY <1>1, <2>1, Zenon DEF Apart
<1>6. clashed \subseteq clashed'
  BY <1>2, Zenon
<1> QED BY <1>2, <1>4, <1>5, <1>6, TakesUp, Zenon

\* DeleteTerm looked at the current term, and is on record if another request sets it.
LEMMA DeleteStep ==
  ASSUME TermsInv, NEW c \in Clerks, NEW i \in DOMAIN terms, DeleteTerm(c, i)
  PROVE  TermsInv'
<1>0. i \in Nat /\ terms[i] \in Names
  <2>1. terms \in Seq(Names \cup {NoTerm}) /\ terms[i] # NoTerm
    BY Zenon DEF TermsInv, TermsTyped, DeleteTerm
  <2> QED BY <2>1
<1>1. PICK v \in Names : v = terms[i]
  BY <1>0, Zenon
<1>2. PICK new \in DeskRows : /\ new = Taken("delete", i, v)
                              /\ new.op = "delete" /\ new.id = i /\ new.value = v
  <2>1. "delete" \in Tasks /\ i \in Nat \cup {NoTerm}
    BY <1>0, Zenon DEF Tasks
  <2>2. Taken("delete", i, v) \in DeskRows /\ IsTask(Taken("delete", i, v), "delete", i, v)
    BY <2>1, TakeFields, Zenon
  <2> QED BY <2>2, Zenon DEF IsTask
<1>3. /\ desk' = [desk EXCEPT ![c] = new] /\ UNCHANGED <<terms, current, themes>>
      /\ clashed' = clashed \cup {<<"current", v>> : d \in setting(v)}
      /\ v # currentTermRecord
  BY <1>1, <1>2, Zenon DEF DeleteTerm, Take, Taken, Clash
<1>4. Holds(new)'
  <2>1. currentTermRecord' = currentTermRecord
    BY <1>3, Zenon DEF currentTermRecord
  <2> QED BY <1>1, <1>2, <1>3, <2>1, Zenon DEF Holds
<1>5. ASSUME NEW d \in Clerks, NEW row \in DeskRows, d # c, row = desk[d]
      PROVE  Apart(new, row)' /\ Apart(row, new)'
  <2>1. row.op \in {"set", "create"} /\ row.value = v => <<"current", v>> \in clashed'
    BY <1>3, <1>5, Zenon DEF setting, wants, doing
  <2> QED BY <1>2, <2>1, Zenon DEF Apart
<1>6. clashed \subseteq clashed'
  BY <1>3, Zenon
<1> QED BY <1>3, <1>4, <1>5, <1>6, TakesUp, Zenon

\* SetCurrentTerm found the term, and is on record if another request deletes it or
\* is about to insert the first document of the current term.
LEMMA SetStep ==
  ASSUME TermsInv, NEW c \in Clerks, NEW i \in DOMAIN terms, SetCurrentTerm(c, i)
  PROVE  TermsInv'
<1>0. i \in Nat /\ terms[i] \in Names
  <2>1. terms \in Seq(Names \cup {NoTerm}) /\ terms[i] # NoTerm
    BY Zenon DEF TermsInv, TermsTyped, SetCurrentTerm
  <2> QED BY <2>1
<1>1. PICK v \in Names : v = terms[i]
  BY <1>0, Zenon
<1>2. PICK op \in Tasks :
         op = IF current = <<>> THEN "create" ELSE "set"
  BY Zenon DEF Tasks
<1>3. PICK new \in DeskRows : /\ new = Taken(op, i, v)
                              /\ new.op = op /\ new.id = i /\ new.value = v
  <2>1. op \in Tasks /\ i \in Nat \cup {NoTerm}
    BY <1>0, Zenon
  <2>2. Taken(op, i, v) \in DeskRows /\ IsTask(Taken(op, i, v), op, i, v)
    BY <2>1, TakeFields, Zenon
  <2> QED BY <2>2, Zenon DEF IsTask
<1>4. /\ desk' = [desk EXCEPT ![c] = new] /\ UNCHANGED <<terms, current, themes>>
      /\ clashed' = clashed \cup {<<"current", v>> : d \in wants("delete", v)}
                            \cup {<<"two current">> : d \in {d \in doing("create") : current = <<>>}}
  BY <1>1, <1>2, <1>3, Zenon DEF SetCurrentTerm, Take, Taken
<1>5. /\ new.op \in {"set", "create"} /\ (new.op = "create" <=> current = <<>>)
  BY <1>2, <1>3, Zenon
<1>6. Holds(new)'
  BY <1>1, <1>3, <1>4, <1>5, Zenon DEF Holds
<1>7. ASSUME NEW d \in Clerks, NEW row \in DeskRows, d # c, row = desk[d]
      PROVE  Apart(new, row)' /\ Apart(row, new)'
  <2>1. row.op = "delete" /\ row.value = v => <<"current", v>> \in clashed'
    BY <1>4, <1>7, Zenon DEF wants, doing
  <2>2. row.op = "create" /\ new.op = "create" => <<"two current">> \in clashed'
    BY <1>4, <1>5, <1>7, Zenon DEF doing
  <2> QED BY <1>3, <1>5, <2>1, <2>2, Zenon DEF Apart
<1>8. clashed \subseteq clashed'
  BY <1>4, Zenon
<1> QED BY <1>4, <1>6, <1>7, <1>8, TakesUp, Zenon

\* A request relies on its term and on no other document.
LEMMA TermKept ==
  ASSUME TermsInv, NEW row \in DeskRows, Holds(row), clashed' = clashed, current' = current,
         \A i \in DOMAIN terms : i \in DOMAIN terms' /\ terms'[i] \in {terms[i], NoTerm},
         row.op \in {"set", "create"} /\ <<"current", row.value>> \notin clashed =>
            terms'[row.id] = row.value,
         row.op = "add" /\ <<"add", row.value>> \notin clashed => FindTermByValue(row.value)' = {}
  PROVE  Holds(row)'
<1>1. currentTermRecord' = currentTermRecord
  BY Zenon DEF currentTermRecord
<1>2. row.op \in {"delete", "set", "create"} =>
        /\ row.id \in DOMAIN terms' /\ row.value \in Names
        /\ terms'[row.id] \in {row.value, NoTerm}
  BY Zenon DEF Holds
<1> QED BY <1>1, <1>2, Zenon DEF Holds

\* CreateTerm inserts a term that was not there, unless another request adds it too.
LEMMA CreateStep ==
  ASSUME TermsInv, NEW c \in Clerks, CreateTerm(c)
  PROVE  TermsInv'
<1>1. PICK mine \in DeskRows : mine = desk[c]
  BY Zenon DEF TermsInv, TermsTyped
<1>2. /\ mine.op = "add" /\ terms' = Append(terms, mine.value) /\ Leave(c)
      /\ UNCHANGED <<current, themes, clashed>> /\ Holds(mine)
  BY <1>1, Zenon DEF CreateTerm, TermsInv
<1>3. PICK v \in Names : v = mine.value
  BY <1>2, Zenon DEF Holds
<1>4. terms \in Seq(Names \cup {NoTerm}) /\ v \in Names \cup {NoTerm}
  BY Zenon DEF TermsInv, TermsTyped
<1>5. terms' \in Seq(Names \cup {NoTerm}) /\ Longer(terms', terms, v)
  BY <1>2, <1>3, <1>4, Inserted, Zenon
<1>6. PICK n \in DOMAIN terms' :
        /\ terms'[n] = v
        /\ \A i \in DOMAIN terms' : i \in DOMAIN terms \/ i = n
        /\ \A i \in DOMAIN terms : i \in DOMAIN terms' /\ terms'[i] = terms[i]
  BY <1>5, Zenon DEF Longer
<1>7. ASSUME NEW w, w # v, FindTermByValue(w) = {} PROVE FindTermByValue(w)' = {}
  BY <1>6, <1>7, Zenon DEF FindTermByValue
<1>8. ASSUME NEW d \in Clerks, NEW row \in DeskRows, d # c, row = desk[d]
      PROVE  Holds(row)'
  <2>1. Holds(row) /\ Apart(mine, row)
    BY <1>1, <1>8, Zenon DEF TermsInv
  <2>2. row.op = "add" /\ <<"add", row.value>> \notin clashed => FindTermByValue(row.value)' = {}
    BY <1>2, <1>3, <1>7, <2>1, Zenon DEF Holds, Apart
  <2>3. row.op \in {"set", "create"} /\ <<"current", row.value>> \notin clashed =>
          terms'[row.id] = row.value
    BY <1>6, <2>1, Zenon DEF Holds
  <2> QED BY <1>2, <1>6, <2>1, <2>2, <2>3, TermKept, Zenon
<1>9. NoneTwice'
  <2>1. ASSUME NEW w \in Names, <<"add", w>> \notin clashed,
               NEW i \in DOMAIN terms', NEW j \in DOMAIN terms', terms'[i] = w, terms'[j] = w
        PROVE  i = j
    <3>1. CASE w = v
      <4>1. \A k \in DOMAIN terms : terms[k] # v
        BY <1>2, <1>3, <2>1, <3>1, Zenon DEF Holds, FindTermByValue
      <4> QED BY <1>6, <2>1, <3>1, <4>1, Zenon
    <3>2. CASE w # v
      BY <1>6, <2>1, <3>2, Zenon DEF TermsInv, NoneTwice
    <3> QED BY <3>1, <3>2, Zenon
  <2> QED BY <1>2, <2>1, Zenon DEF NoneTwice
<1>10. CurrentKnown'
  BY <1>2, <1>6, Zenon DEF TermsInv, CurrentKnown
<1>11. OneCurrentTerm' /\ ThemesOnce'
  BY <1>2, Zenon DEF TermsInv, OneCurrentTerm, ThemesOnce
<1>12. current' \in Seq(Names) /\ themes' \in [DOMAIN Themes -> Nat]
  BY <1>2, Zenon DEF TermsInv, TermsTyped
<1> QED BY <1>2, <1>5, <1>8, <1>9, <1>10, <1>11, <1>12, Leaves, Zenon

\* DeleteTermByID deletes a term that is not the current one and that nobody makes
\* the current one, unless that is on record.
LEMMA DeletedStep ==
  ASSUME TermsInv, NEW c \in Clerks, DeleteTermByID(c)
  PROVE  TermsInv'
<1>1. PICK mine \in DeskRows : mine = desk[c]
  BY Zenon DEF TermsInv, TermsTyped
<1>2. /\ mine.op = "delete" /\ terms' = [terms EXCEPT ![mine.id] = NoTerm] /\ Leave(c)
      /\ UNCHANGED <<current, themes, clashed>> /\ Holds(mine)
  BY <1>1, Zenon DEF DeleteTermByID, TermsInv
<1>3. PICK k \in DOMAIN terms : k = mine.id
  BY <1>2, Zenon DEF Holds
<1>4. PICK v \in Names : v = mine.value
  BY <1>2, Zenon DEF Holds
<1>5. /\ terms[k] \in {v, NoTerm} /\ (<<"current", v>> \notin clashed => currentTermRecord # v)
      /\ NoTerm \notin Names
  BY <1>2, <1>3, <1>4, TermsAssumption, Zenon DEF Holds
<1>6. terms \in Seq(Names \cup {NoTerm}) /\ NoTerm \in Names \cup {NoTerm}
  BY Zenon DEF TermsInv, TermsTyped
<1>7. /\ terms' \in Seq(Names \cup {NoTerm}) /\ DOMAIN terms' = DOMAIN terms /\ terms'[k] = NoTerm
      /\ \A i \in DOMAIN terms : i # k => terms'[i] = terms[i]
  BY <1>2, <1>3, <1>6, Replaced, Zenon
<1>8. \A w \in Names : FindTermByValue(w) = {} => FindTermByValue(w)' = {}
  BY <1>5, <1>7, Zenon DEF FindTermByValue
<1>9. ASSUME NEW d \in Clerks, NEW row \in DeskRows, d # c, row = desk[d]
      PROVE  Holds(row)'
  <2>1. Holds(row) /\ Apart(mine, row)
    BY <1>1, <1>9, Zenon DEF TermsInv
  <2>2. row.op = "add" /\ <<"add", row.value>> \notin clashed => FindTermByValue(row.value)' = {}
    BY <1>8, <2>1, Zenon DEF Holds
  <2>3. ASSUME row.op \in {"set", "create"}, <<"current", row.value>> \notin clashed
        PROVE  terms'[row.id] = row.value
    <3>1. row.value \in Names /\ row.id \in DOMAIN terms /\ terms[row.id] = row.value
      BY <2>1, <2>3, Zenon DEF Holds
    <3>2. row.value # v
      BY <1>2, <1>4, <2>1, <2>3, Zenon DEF Apart
    <3>3. row.id # k
      BY <1>5, <3>1, <3>2, Zenon
    <3> QED BY <1>7, <3>1, <3>3, Zenon
  <2>4. \A i \in DOMAIN terms : i \in DOMAIN terms' /\ terms'[i] \in {terms[i], NoTerm}
    BY <1>7, Zenon
  <2> QED BY <1>2, <2>1, <2>2, <2>3, <2>4, TermKept, Zenon
<1>10. NoneTwice'
  <2>1. ASSUME NEW w \in Names, <<"add", w>> \notin clashed',
               NEW i \in DOMAIN terms', NEW j \in DOMAIN terms', terms'[i] = w, terms'[j] = w
        PROVE  i = j
    <3>1. i # k /\ j # k
      BY <1>5, <1>7, <2>1, Zenon
    <3>2. i \in DOMAIN terms /\ j \in DOMAIN terms /\ terms[i] = w /\ terms[j] = w
      BY <1>7, <2>1, <3>1, Zenon
    <3>3. NoneTwice /\ <<"add", w>> \notin clashed
      BY <1>2, <2>1, Zenon DEF TermsInv
    <3> QED BY <3>2, <3>3, Zenon DEF NoneTwice
  <2> QED BY <2>1, Zenon DEF NoneTwice
<1>11. CurrentKnown'
  <2>1. ASSUME current # <<>>, <<"current", Head(current)>> \notin clashed
        PROVE  \E i \in DOMAIN terms' : terms'[i] = Head(current)
    <3>1. PICK i \in DOMAIN terms : terms[i] = Head(current)
      BY <2>1, Zenon DEF TermsInv, CurrentKnown
    <3>2. Head(current) \in Names /\ currentTermRecord = Head(current)
      <4>1. current \in Seq(Names)
        BY Zenon DEF TermsInv, TermsTyped
      <4> QED BY <2>1, <4>1, HeadIn, Zenon DEF currentTermRecord
    <3>3. i # k
      BY <1>5, <2>1, <3>1, <3>2, Zenon
    <3> QED BY <1>7, <3>1, <3>3, Zenon
  <2> QED BY <1>2, <2>1, Zenon DEF CurrentKnown
<1>12. OneCurrentTerm' /\ ThemesOnce'
  BY <1>2, Zenon DEF TermsInv, OneCurrentTerm, ThemesOnce
<1>13. current' \in Seq(Names) /\ themes' \in [DOMAIN Themes -> Nat]
  BY <1>2, Zenon DEF TermsInv, TermsTyped
<1> QED BY <1>2, <1>7, <1>9, <1>10, <1>11, <1>12, <1>13, Leaves, Zenon

\* What a request relies on when the current term is written.
LEMMA CurrentWritten ==
  ASSUME NEW row \in DeskRows, Holds(row), clashed' = clashed, terms' = terms, current' # <<>>,
         row.op = "delete" /\ <<"current", row.value>> \notin clashed =>
            currentTermRecord' # row.value,
         row.op = "create" => <<"two current">> \in clashed
  PROVE  Holds(row)'
<1>1. \A v : FindTermByValue(v)' = FindTermByValue(v)
  BY Zenon DEF FindTermByValue
<1>2. /\ row.op = "add" => row.value \in Names
      /\ row.op \in {"delete", "set", "create"} =>
           /\ row.id \in DOMAIN terms' /\ row.value \in Names
           /\ terms'[row.id] \in {row.value, NoTerm}
      /\ row.op \in {"set", "create"} /\ <<"current", row.value>> \notin clashed =>
           terms'[row.id] = row.value
      /\ row.op = "themes" => row.theme \in DOMAIN Themes
      /\ row.op = "add" /\ <<"add", row.value>> \notin clashed => FindTermByValue(row.value)' = {}
  BY <1>1, Zenon DEF Holds
<1> QED BY <1>2, Zenon DEF Holds

\* UpdateCurrentTerm writes a term that is still there, unless that is on record.
LEMMA UpdateStep ==
  ASSUME TermsInv, NEW c \in Clerks, UpdateCurrentTerm(c)
  PROVE  TermsInv'
<1>1. PICK mine \in DeskRows : mine = desk[c]
  BY Zenon DEF TermsInv, TermsTyped
<1>2. /\ mine.op = "set" /\ current' = [current EXCEPT ![1] = mine.value] /\ Leave(c)
      /\ UNCHANGED <<terms, themes, clashed>> /\ Holds(mine)
  BY <1>1, Zenon DEF UpdateCurrentTerm, TermsInv
<1>3. PICK v \in Names : v = mine.value
  BY <1>2, Zenon DEF Holds
<1>4. /\ current # <<>> /\ current \in Seq(Names)
      /\ <<"current", v>> \notin clashed => \E i \in DOMAIN terms : terms[i] = v
  BY <1>2, <1>3, Zenon DEF Holds, TermsInv, TermsTyped
<1>5. /\ current' \in Seq(Names) /\ current' # <<>> /\ Head(current') = v /\ Len(current') = Len(current)
  <2>1. current' \in Seq(Names) /\ Rewritten(current', current, v)
    BY <1>2, <1>3, <1>4, HeadReplaced, Zenon
  <2> QED BY <2>1, Zenon DEF Rewritten
<1>6. currentTermRecord' = v
  BY <1>5, Zenon DEF currentTermRecord
<1>7. ASSUME NEW d \in Clerks, NEW row \in DeskRows, d # c, row = desk[d]
      PROVE  Holds(row)'
  <2>1. Holds(row) /\ Apart(row, mine)
    BY <1>1, <1>7, Zenon DEF TermsInv
  <2>2. row.op = "delete" /\ row.value = v => <<"current", row.value>> \in clashed
    BY <1>2, <1>3, <2>1, Zenon DEF Apart
  <2>3. row.op = "create" => <<"two current">> \in clashed
    BY <1>4, <2>1, Zenon DEF Holds
  <2> QED BY <1>2, <1>5, <1>6, <2>1, <2>2, <2>3, CurrentWritten, Zenon
<1>8. CurrentKnown'
  BY <1>2, <1>4, <1>5, Zenon DEF CurrentKnown
<1>9. NoneTwice' /\ OneCurrentTerm' /\ ThemesOnce'
  BY <1>2, <1>5, Zenon DEF TermsInv, NoneTwice, OneCurrentTerm, ThemesOnce
<1>10. terms' \in Seq(Names \cup {NoTerm}) /\ themes' \in [DOMAIN Themes -> Nat]
  BY <1>2, Zenon DEF TermsInv, TermsTyped
<1> QED BY <1>2, <1>5, <1>7, <1>8, <1>9, <1>10, Leaves, Zenon

\* CreateCurrentTerm inserts the first document of the current term, unless two
\* requests do.
LEMMA CreateCurrentStep ==
  ASSUME TermsInv, NEW c \in Clerks, CreateCurrentTerm(c)
  PROVE  TermsInv'
<1>1. PICK mine \in DeskRows : mine = desk[c]
  BY Zenon DEF TermsInv, TermsTyped
<1>2. /\ mine.op = "create" /\ current' = Append(current, mine.value) /\ Leave(c)
      /\ UNCHANGED <<terms, themes, clashed>> /\ Holds(mine)
  BY <1>1, Zenon DEF CreateCurrentTerm, TermsInv
<1>3. PICK v \in Names : v = mine.value
  BY <1>2, Zenon DEF Holds
<1>4. /\ current \in Seq(Names) /\ (<<"two current">> \notin clashed => current = <<>>)
      /\ <<"current", v>> \notin clashed => \E i \in DOMAIN terms : terms[i] = v
  BY <1>2, <1>3, Zenon DEF Holds, TermsInv, TermsTyped
<1>5. current' \in Seq(Names) /\ Longer(current', current, v)
  BY <1>2, <1>3, <1>4, Inserted, Zenon
<1>6. /\ current' # <<>> /\ (current = <<>> => Head(current') = v /\ Len(current') <= 1)
      /\ (current # <<>> => Head(current') = Head(current))
  BY <1>5, Zenon DEF Longer
<1>7. currentTermRecord' \in {currentTermRecord, v}
  BY <1>6, Zenon DEF currentTermRecord
<1>8. ASSUME NEW d \in Clerks, NEW row \in DeskRows, d # c, row = desk[d]
      PROVE  Holds(row)'
  <2>1. Holds(row) /\ Apart(row, mine)
    BY <1>1, <1>8, Zenon DEF TermsInv
  <2>2. row.op = "delete" /\ <<"current", row.value>> \notin clashed => currentTermRecord' # row.value
    BY <1>2, <1>3, <1>7, <2>1, Zenon DEF Apart, Holds
  <2>3. row.op = "create" => <<"two current">> \in clashed
    BY <1>2, <2>1, Zenon DEF Apart
  <2> QED BY <1>2, <1>6, <2>1, <2>2, <2>3, CurrentWritten, Zenon
<1>9. CurrentKnown'
  <2>1. CASE current = <<>>
    BY <1>2, <1>4, <1>6, <2>1, Zenon DEF CurrentKnown
  <2>2. CASE current # <<>>
    BY <1>2, <1>6, <2>2, Zenon DEF CurrentKnown, TermsInv
  <2> QED BY <2>1, <2>2, Zenon
<1>10. OneCurrentTerm'
  BY <1>2, <1>4, <1>6, Zenon DEF OneCurrentTerm
<1>11. NoneTwice' /\ ThemesOnce'
  BY <1>2, Zenon DEF TermsInv, NoneTwice, ThemesOnce
<1>12. terms' \in Seq(Names \cup {NoTerm}) /\ themes' \in [DOMAIN Themes -> Nat]
  BY <1>2, Zenon DEF TermsInv, TermsTyped
<1> QED BY <1>2, <1>5, <1>8, <1>9, <1>10, <1>11, <1>12, Leaves, Zenon

----------------------------------------------------------------------------
(* Themes *)

\* A request goes to a theme, and is on record if another one is there.
LEMMA ThemeTaken ==
  ASSUME TermsInv, NEW c \in Clerks, NEW t \in DOMAIN Themes, ToTheme(c, t)
  PROVE  \E new \in DeskRows :
           /\ desk' = [desk EXCEPT ![c] = new] /\ clashed \subseteq clashed' /\ Holds(new)'
           /\ \A d \in Clerks, row \in DeskRows :
                d # c /\ row = desk[d] => Apart(new, row)' /\ Apart(row, new)'
<1>1. t \in Nat
  BY TermsAssumption
<1>2. PICK new \in DeskRows : /\ new = [AtDesk EXCEPT !.op = "themes", !.theme = t]
                              /\ new.op = "themes" /\ new.theme = t
  BY <1>1, ThemeFields, Zenon
<1>3. /\ desk' = [desk EXCEPT ![c] = new]
      /\ clashed' = clashed \cup {<<"theme", t>> : d \in {d \in doing("themes") \ {c} : desk[d].theme = t}}
  BY <1>2, Zenon DEF ToTheme, Clash
<1>4. ASSUME NEW d \in Clerks, NEW row \in DeskRows, d # c, row = desk[d]
      PROVE  Apart(new, row)' /\ Apart(row, new)'
  <2>1. row.op = "themes" /\ row.theme = t => <<"theme", t>> \in clashed'
    BY <1>3, <1>4, Zenon DEF doing
  <2> QED BY <1>2, <2>1, Zenon DEF Apart
<1>5. Holds(new)'
  BY <1>2, Zenon DEF Holds
<1>6. clashed \subseteq clashed'
  BY <1>3, Zenon
<1> QED BY <1>3, <1>4, <1>5, <1>6, Zenon

\* InitCampusThemes begins with the first theme.
LEMMA InitThemesStep ==
  ASSUME TermsInv, NEW c \in Clerks, InitCampusThemes(c)
  PROVE  TermsInv'
<1>1. 1 \in DOMAIN Themes
  BY TermsAssumption
<1>2. ToTheme(c, 1) /\ UNCHANGED <<terms, current, themes>>
  BY Zenon DEF InitCampusThemes
<1>3. PICK new \in DeskRows :
         /\ desk' = [desk EXCEPT ![c] = new] /\ clashed \subseteq clashed' /\ Holds(new)'
         /\ \A d \in Clerks, row \in DeskRows :
               d # c /\ row = desk[d] => Apart(new, row)' /\ Apart(row, new)'
  BY <1>1, <1>2, ThemeTaken, Zenon
<1> QED BY <1>2, <1>3, TakesUp, Zenon

\* UpsertCampusTheme inserts a theme that is not there; a second insert needs two
\* requests at the theme, and they are on record.
LEMMA ThemeWritten ==
  ASSUME TermsInv, NEW c \in Clerks, UpsertCampusTheme(c), clashed \subseteq clashed'
  PROVE  themes' \in [DOMAIN Themes -> Nat] /\ ThemesOnce'
<1>1. PICK mine \in DeskRows : mine = desk[c]
  BY Zenon DEF TermsInv, TermsTyped
<1>2. mine.op = "themes" /\ Holds(mine)
  BY <1>1, Zenon DEF UpsertCampusTheme, TermsInv
<1>3. PICK t \in DOMAIN Themes : t = mine.theme
  BY <1>2, Zenon DEF Holds
<1>4. themes \in [DOMAIN Themes -> Nat] /\ MaxThemes \in Nat
  BY TermsAssumption, Zenon DEF TermsInv, TermsTyped
<1>5. \/ themes' = [themes EXCEPT ![t] = IF themes[t] = 0 THEN 1 ELSE themes[t]]
      \/ /\ \E d \in doing("themes") \ {c} : desk[d].theme = t
         /\ themes' = [themes EXCEPT ![t] = IF themes[t] < MaxThemes THEN themes[t] + 1 ELSE themes[t]]
  BY <1>1, <1>3, <1>4, Zenon DEF UpsertCampusTheme, setOnInsert
<1>6. PICK n \in Nat : /\ themes' = [themes EXCEPT ![t] = n]
                       /\ \/ n <= 1 \/ n = themes[t]
                          \/ \E d \in doing("themes") \ {c} : desk[d].theme = t
  <2>1. CASE themes' = [themes EXCEPT ![t] = IF themes[t] = 0 THEN 1 ELSE themes[t]]
    <3>1. PICK n \in Nat : n = (IF themes[t] = 0 THEN 1 ELSE themes[t])
      BY <1>4
    <3>2. n <= 1 \/ n = themes[t]
      BY <3>1
    <3> QED BY <2>1, <3>1, <3>2, Zenon
  <2>2. CASE /\ \E d \in doing("themes") \ {c} : desk[d].theme = t
             /\ themes' = [themes EXCEPT ![t] = IF themes[t] < MaxThemes THEN themes[t] + 1 ELSE themes[t]]
    <3>1. PICK n \in Nat : n = (IF themes[t] < MaxThemes THEN themes[t] + 1 ELSE themes[t])
      BY <1>4
    <3> QED BY <2>2, <3>1, Zenon
  <2> QED BY <1>5, <2>1, <2>2, Zenon
<1>7. (\E d \in doing("themes") \ {c} : desk[d].theme = t) => <<"theme", t>> \in clashed
  <2>1. ASSUME NEW d \in doing("themes") \ {c}, desk[d].theme = t
        PROVE  <<"theme", t>> \in clashed
    <3>1. PICK row \in DeskRows : row = desk[d]
      BY Zenon DEF TermsInv, TermsTyped, doing
    <3>2. row.op = "themes" /\ row.theme = t /\ Apart(mine, row)
      BY <1>1, <2>1, <3>1, Zenon DEF TermsInv, doing
    <3> QED BY <1>2, <1>3, <3>2, Zenon DEF Apart
  <2> QED BY <2>1, Zenon
<1>8. ASSUME NEW u \in DOMAIN Themes, <<"theme", u>> \notin clashed
      PROVE  themes'[u] <= 1
  <2>1. themes[u] <= 1
    BY <1>8, Zenon DEF TermsInv, ThemesOnce
  <2> QED BY <1>4, <1>6, <1>7, <1>8, <2>1, Zenon
<1>9. themes' \in [DOMAIN Themes -> Nat]
  BY <1>4, <1>6, Zenon
<1> QED BY <1>8, <1>9, Zenon DEF ThemesOnce

\* UpsertCampusTheme goes on with the next theme, or is done.
LEMMA UpsertStep ==
  ASSUME TermsInv, NEW c \in Clerks, UpsertCampusTheme(c)
  PROVE  TermsInv'
<1>1. PICK mine \in DeskRows : mine = desk[c]
  BY Zenon DEF TermsInv, TermsTyped
<1>2. /\ UNCHANGED <<terms, current>> /\ Holds(mine) /\ mine.op = "themes"
      /\ \/ mine.theme < Len(Themes) /\ ToTheme(c, mine.theme + 1)
         \/ Leave(c) /\ clashed' = clashed
  BY <1>1, Zenon DEF UpsertCampusTheme, TermsInv
<1>3. /\ terms' \in Seq(Names \cup {NoTerm}) /\ current' \in Seq(Names)
  BY <1>2, Zenon DEF TermsInv, TermsTyped
<1>4. clashed \subseteq clashed' => NoneTwice' /\ CurrentKnown' /\ OneCurrentTerm'
  BY <1>2, Zenon DEF TermsInv, NoneTwice, CurrentKnown, OneCurrentTerm
<1>5. ASSUME NEW d \in Clerks, NEW row \in DeskRows, d # c, row = desk[d], clashed \subseteq clashed'
      PROVE  Holds(row)'
  <2>1. Holds(row)
    BY <1>5, Zenon DEF TermsInv
  <2> QED BY <1>2, <1>5, <2>1, HoldsKept, Zenon
<1>6. CASE Leave(c) /\ clashed' = clashed
  <2>1. themes' \in [DOMAIN Themes -> Nat] /\ ThemesOnce'
    BY <1>6, ThemeWritten, Zenon
  <2> QED BY <1>3, <1>4, <1>5, <1>6, <2>1, Leaves, Zenon
<1>7. CASE mine.theme < Len(Themes) /\ ToTheme(c, mine.theme + 1)
  <2>1. PICK t \in DOMAIN Themes : t = mine.theme + 1
    <3>1. mine.theme \in DOMAIN Themes
      BY <1>2, Zenon DEF Holds
    <3> QED BY <1>7, <3>1, TermsAssumption
  <2>2. PICK new \in DeskRows :
           /\ desk' = [desk EXCEPT ![c] = new] /\ clashed \subseteq clashed' /\ Holds(new)'
           /\ \A d \in Clerks, row \in DeskRows :
                 d # c /\ row = desk[d] => Apart(new, row)' /\ Apart(row, new)'
    BY <1>7, <2>1, ThemeTaken, Zenon
  <2>3. themes' \in [DOMAIN Themes -> Nat] /\ ThemesOnce'
    BY <2>2, ThemeWritten, Zenon
  <2>4. /\ desk' \in [Clerks -> DeskRows]
        /\ (\A d \in Clerks : Holds(desk[d]))'
        /\ (\A d, e \in Clerks : d # e => Apart(desk[d], desk[e]))'
    BY <1>5, <2>2, DeskMoves, Zenon
  <2> QED BY <1>3, <1>4, <2>2, <2>3, <2>4, Zenon DEF TermsInv, TermsTyped
<1> QED BY <1>2, <1>6, <1>7, Zenon

\* An upsert that fails leaves the themes put in so far.
LEMMA UpsertFailsStep ==
  ASSUME TermsInv, NEW c \in Clerks, upsertFails(c)
  PROVE  TermsInv'
<1>1. Leave(c) /\ UNCHANGED <<terms, current, themes, clashed>>
  BY Zenon DEF upsertFails
<1>2. PICK new \in DeskRows : new = AtDesk /\ new.op = "none"
  BY DeskFields, Zenon
<1>3. desk' = [desk EXCEPT ![c] = new]
  BY <1>1, <1>2, Zenon DEF Leave
<1>4. /\ Holds(new)'
      /\ \A d \in Clerks, row \in DeskRows :
            d # c /\ row = desk[d] => Apart(new, row)' /\ Apart(row, new)'
  BY <1>2, DoneIsFree, Zenon
<1> QED BY <1>1, <1>3, <1>4, TakesUp, Zenon

----------------------------------------------------------------------------
(* Terms: the theorem *)

\* Every step of the requests for terms and themes keeps the invariant.
LEMMA TermsStep ==
  ASSUME TermsInv, [TermsNext \/ ThemesNext]_termVars
  PROVE  TermsInv'
<1>1. CASE TermsNext
  <2>1. PICK c \in Clerks :
          \/ \E v \in Names : AddTerm(c, v)
          \/ \E i \in DOMAIN terms : DeleteTerm(c, i) \/ SetCurrentTerm(c, i)
          \/ CreateTerm(c) \/ DeleteTermByID(c) \/ UpdateCurrentTerm(c) \/ CreateCurrentTerm(c)
    BY <1>1, Zenon DEF TermsNext
  <2> QED BY <2>1, AddStep, DeleteStep, SetStep, CreateStep, DeletedStep, UpdateStep,
             CreateCurrentStep, Zenon
<1>2. CASE ThemesNext
  BY <1>2, InitThemesStep, UpsertStep, UpsertFailsStep, Zenon DEF ThemesNext
<1>3. CASE UNCHANGED termVars
  BY <1>3, Zenon DEF termVars, TermsInv, TermsTyped, Holds, Apart, NoneTwice, CurrentKnown,
     OneCurrentTerm, ThemesOnce, FindTermByValue, currentTermRecord
<1> QED BY <1>1, <1>2, <1>3, Zenon

\* There is nothing at first.
LEMMA TermsStart == TermsInit => TermsInv
<1> SUFFICES ASSUME TermsInit PROVE TermsInv
  BY Zenon
<1>1. TermsTyped
  <2>1. desk \in [Clerks -> DeskRows] /\ themes \in [DOMAIN Themes -> Nat]
    BY DeskFields, Zenon DEF TermsInit
  <2>2. terms \in Seq(Names \cup {NoTerm}) /\ current \in Seq(Names)
    BY DEF TermsInit
  <2> QED BY <2>1, <2>2, Zenon DEF TermsTyped
<1>2. \A c \in Clerks : desk[c].op = "none"
  BY DeskFields, Zenon DEF TermsInit
<1>3. /\ \A c \in Clerks : Holds(desk[c])
      /\ \A c, d \in Clerks : Apart(desk[c], desk[d])
  BY <1>2, Zenon DEF Holds, Apart
<1>4. DOMAIN terms = {} /\ Len(current) = 0 /\ current = <<>>
  BY DEF TermsInit
<1>5. NoneTwice /\ CurrentKnown
  BY <1>4, Zenon DEF NoneTwice, CurrentKnown
<1>6. OneCurrentTerm
  <2>1. Len(current) <= 1
    BY <1>4
  <2> QED BY <2>1, Zenon DEF OneCurrentTerm
<1>7. ThemesOnce
  BY DEF ThemesOnce, TermsInit
<1> QED BY <1>1, <1>3, <1>5, <1>6, <1>7, Zenon DEF TermsInv

\* What the invariant says of the terms that are shown.
LEMMA TermsInvAgrees == TermsInv => TermsAgree
<1> SUFFICES ASSUME TermsInv PROVE TermsAgree
  BY Zenon
<1>1. CurrentTermExists
  <2>1. ASSUME current # <<>>, <<"current", currentTermRecord>> \notin clashed
        PROVE  CurTerm # NoTerm
    <3>1. currentTermRecord = Head(current)
      BY <2>1, Zenon DEF currentTermRecord
    <3>2. Head(current) \in Names
      BY <2>1, HeadIn, Zenon DEF TermsInv, TermsTyped
    <3>3. FindTermByValue(currentTermRecord) # {}
      BY <2>1, <3>1, Zenon DEF TermsInv, CurrentKnown, FindTermByValue
    <3> QED BY <3>1, <3>2, <3>3, TermsAssumption, Zenon DEF CurTerm
  <2> QED BY <2>1, Zenon DEF CurrentTermExists
<1>2. OneTermEach
  <2>1. ASSUME NEW v \in Names, <<"add", v>> \notin clashed
        PROVE  CountTermsByValue(v) <= 1
    <3>1. \A i, j \in FindTermByValue(v) : i = j
      BY <2>1, Zenon DEF TermsInv, NoneTwice, FindTermByValue
    <3>2. TermsTyped
      BY Zenon DEF TermsInv
    <3> QED BY <3>1, <3>2, TermsCounted, Zenon
  <2> QED BY <2>1, Zenon DEF OneTermEach
<1> QED BY <1>1, <1>2, Zenon DEF TermsInv, TermsAgree

\* However the requests of administrators for terms (internal/school) and themes
\* (internal/theme) interleave and fail, there is one current term, its record
\* exists, and every term and theme is there once, unless requests for it overlapped.
THEOREM TermsAgreeAlways == TermsSpec => []TermsAgree
<1>1. TermsSpec => []TermsInv
  BY TermsStart, TermsStep, PTL DEF TermsSpec
<1> QED BY <1>1, TermsInvAgrees, PTL
=============================================================================
