----------------------------- MODULE Moderation -----------------------------
(***************************************************************************)
(* Content moderation (src/internal/moderation): users report targets,     *)
(* administrators claim and decide reports, punishments restrict what a    *)
(* user may do, appeals and revocations lift them, and the restrictions in *)
(* force are cached in Redis.                                              *)
(*                                                                         *)
(* A statement, or a transaction whose only read is its first update, is   *)
(* one step.  DecideReport, RevokePunishment, DecideAppeal and the filling *)
(* of the cache read first and act later: calls held by a handler.         *)
(*                                                                         *)
(* Time is kept in timers that PassTime counts down: what is left of each  *)
(* punishment and of each cache entry.                                     *)
(***************************************************************************)
EXTENDS Integers, Sequences, FiniteSets, FiniteSetsExt

CONSTANTS Reports, Targets, Members, Admins, Punishments, Handlers,
          TargetOf,      \* the target of each report
          OwnerOf,       \* the main account that owns each target
          Hideable,      \* targets whose type can be hidden
          Capabilities,  \* what can be restricted, "account" among them
          Durations,     \* durations asked for; Nil is for good
          CacheTTL,      \* capabilityCacheTTL
          Nil

ASSUME ModerationAssumption ==
  /\ TargetOf \in [Reports -> Targets]
  /\ OwnerOf \in [Targets -> Members]
  /\ Durations \subseteq Int \cup {Nil}
  /\ CacheTTL \in Nat \ {0}

ASSUME NilAssumption ==
  /\ Nil \notin Reports \cup Members \cup Admins \cup Int
  /\ Nil \notin {"pending", "reviewing", "rejected", "actioned", "withdrawn",
                  "approved", "active", "revoked"}

VARIABLES reports,      \* report rows: status and assignee
          reviews,      \* audit rows of each report, in order
          hidden,       \* targets hidden in their own domains
          punishments,  \* punishment rows
          appeals,      \* appeal rows, by punishment (unique key)
          decisions,    \* audit rows of each punishment and its appeal
          cache,        \* Redis: cached capabilities per user
          handling      \* the call each handler is in

moderationVars ==
  <<reports, reviews, hidden, punishments, appeals, decisions, cache, handling>>

Free == [op |-> "idle"]
NoPunishment == [status |-> Nil, user |-> Nil, cap |-> Nil, report |-> Nil,
                 left |-> 0]

ModerationInit ==
  /\ reports = [r \in Reports |-> [status |-> Nil, assignee |-> Nil]]
  /\ reviews = [r \in Reports |-> <<>>]
  /\ hidden = {}
  /\ punishments = [p \in Punishments |-> NoPunishment]
  /\ appeals = [p \in Punishments |-> Nil]
  /\ decisions = [p \in Punishments |-> <<>>]
  /\ cache = [u \in Members |-> Nil]
  /\ handling = [w \in Handlers |-> Free]

----------------------------------------------------------------------------
(* Reports *)

CreateReport(r) ==
  /\ reports[r].status = Nil
  /\ reports' = [reports EXCEPT ![r].status = "pending"]
  /\ UNCHANGED <<reviews, hidden, punishments, appeals, decisions, cache, handling>>

\* Mutant: a report can be withdrawn while it is reviewed.
WithdrawableLate(r) == reports[r].status \in {"pending", "reviewing"}

Withdrawable(r) == reports[r].status = "pending"

WithdrawReport(r) ==
  /\ Withdrawable(r)
  /\ reports' = [reports EXCEPT ![r].status = "withdrawn"]
  /\ UNCHANGED <<reviews, hidden, punishments, appeals, decisions, cache, handling>>

Claimable(r) == reports[r].status = "pending"

ClaimReport(r, a) ==
  /\ Claimable(r)
  /\ reports' = [reports EXCEPT ![r] = [status |-> "reviewing", assignee |-> a]]
  /\ UNCHANGED <<reviews, hidden, punishments, appeals, decisions, cache, handling>>

UnderReview(r, a) ==
  reports[r].status = "reviewing" /\ reports[r].assignee = a

\* What an administrator may decide; a capability and a duration that are not
\* valid are refused before anything but a "hide" is carried out.
Actions == {[kind |-> kind, cap |-> Nil, duration |-> Nil] :
              kind \in {"reject", "hide", "warn"}}
     \cup {[kind |-> "punish", cap |-> cap, duration |-> d] :
              cap \in Capabilities, d \in {x \in Durations : x = Nil \/ x > 0}}

\* The service reads the report and checks who reviews it.
DecideReport(w, r, a, action) ==
  /\ handling[w] = Free
  /\ UnderReview(r, a)
  /\ handling' = [handling EXCEPT ![w] =
        [op |-> IF action.kind = "hide" THEN "hide" ELSE "complete",
         report |-> r, admin |-> a, action |-> action]]
  /\ UNCHANGED <<reports, reviews, hidden, punishments, appeals, decisions, cache>>

\* The target's domain hides it, before the report is completed.
HideTarget(w) ==
  /\ handling[w].op = "hide"
  /\ TargetOf[handling[w].report] \in Hideable
  /\ hidden' = hidden \cup {TargetOf[handling[w].report]}
  /\ handling' = [handling EXCEPT ![w].op = "complete"]
  /\ UNCHANGED <<reports, reviews, punishments, appeals, decisions, cache>>

\* UPDATE ... WHERE status = 'reviewing' AND assignee_admin_id = ?
Completable(call) == UnderReview(call.report, call.admin)

Outcome(action) == IF action.kind = "reject" THEN "rejected" ELSE "actioned"

\* The new row of a "punish"; ends_at is counted down from the duration.
Punish(call) ==
  [status |-> "active", user |-> OwnerOf[TargetOf[call.report]],
   cap |-> call.action.cap, report |-> call.report, left |-> call.action.duration]

Invalidating(u) == [op |-> "invalidate", user |-> u]

CompleteReview(w) ==
  LET call == handling[w] IN
  /\ call.op = "complete"
  /\ Completable(call)
  /\ reports' = [reports EXCEPT ![call.report].status = Outcome(call.action)]
  /\ reviews' = [reviews EXCEPT ![call.report] = Append(@, call.action.kind)]
  /\ IF call.action.kind = "punish"
     THEN /\ \E p \in Punishments :
               /\ punishments[p].status = Nil
               /\ punishments' = [punishments EXCEPT ![p] = Punish(call)]
          /\ handling' = [handling EXCEPT ![w] =
                Invalidating(OwnerOf[TargetOf[call.report]])]
     ELSE /\ handling' = [handling EXCEPT ![w] = Free]
          /\ UNCHANGED punishments
  /\ UNCHANGED <<hidden, appeals, decisions, cache>>

----------------------------------------------------------------------------
(* Punishments and appeals *)

CreateAppeal(p) ==
  /\ punishments[p].status # Nil
  /\ appeals[p] = Nil
  /\ appeals' = [appeals EXCEPT ![p] = "pending"]
  /\ UNCHANGED <<reports, reviews, hidden, punishments, decisions, cache, handling>>

\* The transaction reads the row it is about, without locking it.
RevokePunishment(w, p) ==
  /\ handling[w] = Free
  /\ punishments[p].status = "active"
  /\ handling' = [handling EXCEPT ![w] = [op |-> "revoke", punishment |-> p]]
  /\ UNCHANGED <<reports, reviews, hidden, punishments, appeals, decisions, cache>>

\* UPDATE ... WHERE status = 'active': no row is no error.
Revoked(p) ==
  IF punishments[p].status = "active"
  THEN [punishments[p] EXCEPT !.status = "revoked"] ELSE punishments[p]

RevokeActive(w) ==
  LET p == handling[w].punishment IN
  /\ handling[w].op = "revoke"
  /\ punishments' = [punishments EXCEPT ![p] = Revoked(p)]
  /\ decisions' = [decisions EXCEPT ![p] = Append(@, "revoke")]
  /\ handling' = [handling EXCEPT ![w] = Invalidating(punishments[p].user)]
  /\ UNCHANGED <<reports, reviews, hidden, appeals, cache>>

DecideAppeal(w, p, approved) ==
  /\ handling[w] = Free
  /\ appeals[p] = "pending"
  /\ handling' = [handling EXCEPT ![w] =
        [op |-> "appeal", punishment |-> p, approved |-> approved]]
  /\ UNCHANGED <<reports, reviews, hidden, punishments, appeals, decisions, cache>>

Decided(p, approved) == IF approved THEN Revoked(p) ELSE punishments[p]

\* Both updates are conditional and their row counts are not looked at.
RecordDecision(w) ==
  LET p == handling[w].punishment
      verdict == IF handling[w].approved THEN "approved" ELSE "rejected"
  IN
  /\ handling[w].op = "appeal"
  /\ appeals' = [appeals EXCEPT ![p] = IF @ = "pending" THEN verdict ELSE @]
  /\ punishments' = [punishments EXCEPT ![p] = Decided(p, handling[w].approved)]
  /\ decisions' = [decisions EXCEPT ![p] = Append(@, verdict)]
  /\ handling' = [handling EXCEPT ![w] = IF handling[w].approved
                                   THEN Invalidating(punishments[p].user) ELSE Free]
  /\ UNCHANGED <<reports, reviews, hidden, cache>>

----------------------------------------------------------------------------
(* The cache of capabilities *)

Invalidate(w) ==
  /\ handling[w].op = "invalidate"
  /\ cache' = [cache EXCEPT ![handling[w].user] = Nil]
  /\ handling' = [handling EXCEPT ![w] = Free]
  /\ UNCHANGED <<reports, reviews, hidden, punishments, appeals, decisions>>

InForce(u) == {p \in Punishments : /\ punishments[p].user = u
                                   /\ punishments[p].status = "active"
                                   /\ punishments[p].left # 0}

\* Mutant: entries live as long as the longest punishment.
EntryTTLForever(u) == Nil

\* An entry lives no longer than the first punishment to end.
EntryTTL(u) ==
  Min({CacheTTL} \cup {punishments[p].left : p \in {q \in InForce(u) :
                                               punishments[q].left # Nil}})

\* activeCapabilities finds nothing in Redis and asks the database.
ActivePunishments(w, u) ==
  /\ handling[w] = Free
  /\ cache[u] = Nil
  /\ handling' = [handling EXCEPT ![w] =
        [op |-> "fill", user |-> u, ttl |-> EntryTTL(u),
         caps |-> {punishments[p].cap : p \in InForce(u)}]]
  /\ UNCHANGED <<reports, reviews, hidden, punishments, appeals, decisions, cache>>

SetCache(w) ==
  /\ handling[w].op = "fill"
  /\ cache' = [cache EXCEPT ![handling[w].user] =
        [caps |-> handling[w].caps, ttl |-> handling[w].ttl]]
  /\ handling' = [handling EXCEPT ![w] = Free]
  /\ UNCHANGED <<reports, reviews, hidden, punishments, appeals, decisions>>

----------------------------------------------------------------------------

\* A call ends early: the process stops, the target cannot be hidden, or Redis
\* or the database fails (Redis errors are ignored).
LoseHandler(w) ==
  /\ handling[w] # Free
  /\ handling' = [handling EXCEPT ![w] = Free]
  /\ UNCHANGED <<reports, reviews, hidden, punishments, appeals, decisions, cache>>

CountDown(timer) == IF timer = Nil \/ timer = 0 THEN timer ELSE timer - 1

\* Time passes: punishments end and cache entries expire.
PassTime ==
  /\ punishments' = [p \in Punishments |->
        [punishments[p] EXCEPT !.left = CountDown(@)]]
  /\ cache' = [u \in Members |->
        IF cache[u] = Nil THEN Nil
        ELSE IF cache[u].ttl = 1 THEN Nil
        ELSE [cache[u] EXCEPT !.ttl = CountDown(@)]]
  /\ UNCHANGED <<reports, reviews, hidden, appeals, decisions, handling>>

Steps(w) == \/ HideTarget(w) \/ CompleteReview(w) \/ RevokeActive(w)
            \/ RecordDecision(w) \/ Invalidate(w) \/ SetCache(w)

ModerationNext ==
  \/ \E r \in Reports : CreateReport(r) \/ WithdrawReport(r)
  \/ \E r \in Reports, a \in Admins : ClaimReport(r, a)
  \/ \E p \in Punishments : CreateAppeal(p)
  \/ \E w \in Handlers :
       \/ \E r \in Reports, a \in Admins, action \in Actions :
            DecideReport(w, r, a, action)
       \/ \E p \in Punishments : RevokePunishment(w, p)
       \/ \E p \in Punishments, approved \in BOOLEAN : DecideAppeal(w, p, approved)
       \/ \E u \in Members : ActivePunishments(w, u)
       \/ Steps(w)
       \/ LoseHandler(w)
  \/ PassTime

ModerationSpec == ModerationInit /\ [][ModerationNext]_moderationVars

\* Time passes, and a request that was started goes on until it ends.
ModerationFairSpec ==
  /\ ModerationSpec /\ WF_moderationVars(PassTime)
  /\ \A w \in Handlers : WF_moderationVars(Steps(w) \/ LoseHandler(w))

----------------------------------------------------------------------------
(* Properties *)

Kinds == {"reject", "hide", "warn", "punish"}
Timers == Nat \cup {Nil}
PunishmentRows == [status : {"active", "revoked"}, user : Members,
                   cap : Capabilities, report : Reports, left : Timers]
Calls ==
       [op : {"hide", "complete"}, report : Reports, admin : Admins, action : Actions]
  \cup [op : {"revoke"}, punishment : Punishments]
  \cup [op : {"appeal"}, punishment : Punishments, approved : BOOLEAN]
  \cup [op : {"invalidate"}, user : Members]
  \cup [op : {"fill"}, user : Members, caps : SUBSET Capabilities, ttl : Timers]

\* Rows and cache entries have their columns, calls work on known rows.
ModerationTypeOK ==
  /\ reports \in [Reports -> [status : {Nil, "pending", "reviewing", "rejected",
                                        "actioned", "withdrawn"},
                              assignee : Admins \cup {Nil}]]
  /\ reviews \in [Reports -> Seq(Kinds)]
  /\ hidden \subseteq Targets
  /\ punishments \in [Punishments -> PunishmentRows \cup {NoPunishment}]
  /\ appeals \in [Punishments -> {Nil, "pending", "approved", "rejected"}]
  /\ decisions \in [Punishments -> Seq({"revoke", "approved", "rejected"})]
  /\ cache \in [Members -> [caps : SUBSET Capabilities, ttl : Timers] \cup {Nil}]
  /\ handling \in [Handlers -> {Free} \cup Calls]

PunishmentsFor(r) == {p \in Punishments : punishments[p].report = r}

Reviewed(r) ==
  /\ reviews[r] = <<>> <=> reports[r].status \notin {"rejected", "actioned"}
  /\ reviews[r] # <<>> =>
       /\ Len(reviews[r]) = 1
       /\ reports[r].status = "rejected" <=> reviews[r][1] = "reject"
  /\ IF reviews[r] = <<"punish">>
     THEN \E p \in PunishmentsFor(r) : /\ PunishmentsFor(r) = {p}
                                       /\ punishments[p].user = OwnerOf[TargetOf[r]]
     ELSE PunishmentsFor(r) = {}

\* A report is decided once, however often its reviewer sends a decision: one
\* audit row that fits the outcome, and one punishment, of the target's owner,
\* exactly if the decision was to punish.
ReviewedOnce == \A r \in Reports : Reviewed(r)

\* A report follows pending -> withdrawn or pending -> reviewing -> rejected or
\* actioned, and stays with the administrator who claimed it.
ReportMachine ==
  [][\A r \in Reports : reports'[r] # reports[r] =>
       /\ <<reports[r].status, reports'[r].status>> \in
            {<<Nil, "pending">>, <<"pending", "withdrawn">>,
             <<"pending", "reviewing">>, <<"reviewing", "rejected">>,
             <<"reviewing", "actioned">>}
       /\ reports[r].assignee # Nil => reports'[r].assignee = reports[r].assignee
     ]_moderationVars

\* Only what an administrator had under review is hidden, and never because
\* of a report that was withdrawn.
HiddenUnderReview ==
  \A t \in hidden : \E r \in Reports :
    TargetOf[r] = t /\ reports[r].status \in {"reviewing", "rejected", "actioned"}

Lifted(p) == \E i \in 1..Len(decisions[p]) : decisions[p][i] \in {"revoke", "approved"}

\* The audit log explains every revocation: a punishment is revoked exactly if
\* it has a row for a revocation or an approved appeal, and an appeal that
\* counts as approved did lift it.
RevocationsAreLogged ==
  \A p \in Punishments :
    /\ punishments[p].status = "revoked" <=> Lifted(p)
    /\ appeals[p] = "approved" => punishments[p].status = "revoked"

\* What Check finds in the cache is what the database says.
CacheAgrees(u) ==
  cache[u] # Nil => cache[u].caps = {punishments[p].cap : p \in InForce(u)}

\* However reads, decisions and invalidations interleave, and even when an
\* invalidation is lost, what is cached about every user ends up right.
EventuallyEnforced == <>[](\A u \in Members : CacheAgrees(u))

\* An appeal is decided once: of two administrators who answer at the same
\* time the second is refused, so a rejected appeal leaves the punishment to run.
RejectedAppealStands ==
  \A p \in Punishments : appeals[p] = "rejected" =>
    \A i \in 1..Len(decisions[p]) : decisions[p][i] # "approved"
----------------------------------------------------------------------------
(* The inductive invariant behind the safety properties *)

\* Calls in flight refer to reports that were claimed by their administrator
\* and to punishments that exist, and only those can be appealed or decided.
ModerationInv ==
  /\ ModerationTypeOK /\ ReviewedOnce /\ HiddenUnderReview /\ RevocationsAreLogged
  /\ \A r \in Reports :
       reports[r].status \in {"reviewing", "rejected", "actioned"}
         <=> reports[r].assignee # Nil
  /\ \A w \in Handlers :
       /\ handling[w].op \in {"hide", "complete"} =>
            reports[handling[w].report].assignee # Nil
       /\ handling[w].op \in {"revoke", "appeal"} =>
            punishments[handling[w].punishment].status # Nil
  /\ \A p \in Punishments :
       appeals[p] # Nil => punishments[p].status # Nil
============================================================================
