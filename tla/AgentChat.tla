----------------------------- MODULE AgentChat -----------------------------
(***************************************************************************)
(* Conversations with the remote agent (src/internal/agentchat): turns     *)
(* over HTTP or over a WebSocket session, guarded by a rate limit and by   *)
(* two counters in Redis, and the directory of conversations in MySQL.     *)
(*                                                                         *)
(* A turn is a goroutine; every Redis command, every statement and the     *)
(* call of the agent is a step.  Time passes in ticks while turns wait for *)
(* the agent; the other steps of a turn take less than a tick.             *)
(***************************************************************************)
EXTENDS Integers, FiniteSets

CONSTANTS Turns,               \* goroutines that can run a turn
          Users,               \* main accounts
          Conversations,
          OwnerOf,             \* the main account of each conversation
          Sessions,            \* WebSocket sessions
          SessionOwner,
          Timeout,             \* of a call, in ticks
          GuardTTL,            \* of the counters, in ticks
          MaxPerUser, MaxPerConversation, RatePerMinute,
          MaxFaults,           \* bound: commands Redis fails or does not answer, crashes
          None                 \* no session: a turn over HTTP

\* Limits that are not configured or not positive are replaced by defaults, and
\* guardTTL is at least twice the timeout.
LimitsOK ==
  /\ Timeout \in Nat \ {0} /\ GuardTTL \in Nat /\ GuardTTL >= 2 * Timeout
  /\ {MaxPerUser, MaxPerConversation, RatePerMinute} \subseteq Nat \ {0}

ASSUME AgentAssumption ==
  /\ LimitsOK
  /\ OwnerOf \in [Conversations -> Users] /\ SessionOwner \in [Sessions -> Users]
  /\ MaxFaults \in Nat
  /\ Users \cap Conversations = {} /\ None \notin Sessions /\ IsFiniteSet(Turns)

VARIABLES rows,      \* agent_conversations: the status of each conversation
          guards,    \* Redis: value and remaining time of each counter
          rate,      \* Redis: requests counted in this minute
          turns,     \* the turn each goroutine is in
          deletes,   \* DeleteConversation between its steps
          conns,     \* WebSocket connections
          inflight,  \* turns each session counts as running
          accepted,  \* history: requests the rate limit let through this minute
          leaked,    \* history: conversations whose counter kept what nobody releases
          drifted,   \* history: conversations whose counter expired in use
          removed,   \* history: conversations whose row was deleted
          overtaken, \* history: conversations deleted last while a turn was under way
          faults     \* commands Redis failed or did not answer, and crashes

vars == <<rows, guards, rate, turns, deletes, conns, inflight, accepted,
          leaked, drifted, removed, overtaken, faults>>
deletionPast == <<removed, overtaken>>
turnPast == <<leaked, drifted, deletionPast>>

Keys == Users \cup Conversations
Unused == "unused"   \* an identifier not made yet
Absent == "absent"

\* A counter without a time to live has ttl NoTTL; at 0 it is about to expire.
NoTTL == -1
NoKey == [n |-> 0, ttl |-> NoTTL]

Begun(c, via, pc) == [pc |-> pc, conv |-> c, via |-> via, left |-> 0, held |-> {}]
Idle == Begun(None, None, "idle")

Init ==
  /\ rows = [c \in Conversations |-> Unused]
  /\ guards = [k \in Keys |-> NoKey]
  /\ rate = [u \in Users |-> 0]
  /\ turns = [t \in Turns |-> Idle]
  /\ deletes = {}
  /\ conns = [s \in Sessions |-> "none"]
  /\ inflight = [s \in Sessions |-> 0]
  /\ accepted = [u \in Users |-> 0]
  /\ leaked = {} /\ drifted = {} /\ removed = {} /\ overtaken = {} /\ faults = 0

Fault == faults < MaxFaults /\ faults' = faults + 1

UserOf(t) == OwnerOf[turns[t].conv]
Goto(t, pc) == turns' = [turns EXCEPT ![t] = [turns[t] EXCEPT !.pc = pc]]

\* The counter a turn works on, and the one it turns to next.
KeyAt(t) == IF turns[t].pc \in {"user", "undoUser", "releaseUser"} THEN UserOf(t)
                                                               ELSE turns[t].conv
LimitOf(k) == IF k \in Users THEN MaxPerUser ELSE MaxPerConversation

----------------------------------------------------------------------------
(* Starting a turn *)

SessionHasRoom(s) == inflight[s] < MaxPerUser

\* The identifier of a new conversation is made, its row is not there yet.
newConversation(row) == IF row = Unused THEN Absent ELSE row

\* Mutant: a conversation that is not there is taken for a new one.
resolveAnyway(t, c, via) ==
  /\ rows' = [rows EXCEPT ![c] = newConversation(@)]
  /\ turns' = [turns EXCEPT ![t] = Begun(c, via, "rate")]

\* A turn on a conversation of the account that has a row, or on a new one; it
\* ends at once if the row is not there.
resolveConversation(t, c, via) ==
  /\ rows' = [rows EXCEPT ![c] = newConversation(@)]
  /\ turns' = [turns EXCEPT ![t] =
        Begun(c, via, IF rows[c] = Absent THEN "end" ELSE "rate")]

HandleTurn(t, c) ==
  /\ turns[t] = Idle
  /\ resolveConversation(t, c, None)
  /\ UNCHANGED <<guards, rate, deletes, conns, inflight, accepted, turnPast, faults>>

startWSTurn(t, c, s) ==
  /\ turns[t] = Idle
  /\ conns[s] = "open" /\ SessionOwner[s] = OwnerOf[c]
  /\ SessionHasRoom(s)
  /\ inflight' = [inflight EXCEPT ![s] = @ + 1]
  /\ resolveConversation(t, c, s)
  /\ UNCHANGED <<guards, rate, deletes, conns, accepted, turnPast, faults>>

----------------------------------------------------------------------------
(* Guards *)

WithinRate(n) == n <= RatePerMinute

\* INCR of the minute's counter; over the limit it is counted back.
enforcePerMinute(t) ==
  LET u == UserOf(t) IN
  /\ turns[t].pc = "rate"
  /\ rate' = [rate EXCEPT ![u] = @ + 1]
  /\ IF WithinRate(rate[u] + 1)
       THEN Goto(t, "user") /\ accepted' = [accepted EXCEPT ![u] = @ + 1]
       ELSE Goto(t, "undoRate") /\ UNCHANGED accepted
  /\ UNCHANGED <<rows, guards, deletes, conns, inflight, turnPast, faults>>

\* Redis fails, or its answer is lost: the turn goes on, counted or not.
enforceFails(t) ==
  /\ turns[t].pc = "rate"
  /\ \/ UNCHANGED rate
     \/ rate' = [rate EXCEPT ![UserOf(t)] = @ + 1]
  /\ Goto(t, "user")
  /\ Fault
  /\ UNCHANGED <<rows, guards, deletes, conns, inflight, accepted, turnPast>>

undoRate(t) ==
  /\ turns[t].pc = "undoRate"
  /\ \/ rate' = [rate EXCEPT ![UserOf(t)] = @ - 1] /\ UNCHANGED faults
     \/ UNCHANGED rate /\ Fault
  /\ Goto(t, "end")
  /\ UNCHANGED <<rows, guards, deletes, conns, inflight, accepted, turnPast>>

\* Mutant: the time to live of a counter that is still there is not renewed.
IncrKeeps(g) == [n |-> g.n + 1, ttl |-> IF g.ttl = NoTTL THEN GuardTTL ELSE g.ttl]

\* counterGuardAcquireScript
Incr(g) == [n |-> g.n + 1, ttl |-> IF g.n + 1 = 1 THEN GuardTTL ELSE g.ttl]

\* DECR, on a key that may have expired in the meantime.
Decr(g) == [n |-> g.n - 1, ttl |-> g.ttl]

NextGuard(pc) == IF pc = "user" THEN "conv" ELSE "save"
Undo(pc) == IF pc = "user" THEN "undoUser" ELSE "undoConv"
Acquired(turn, k) == [turn EXCEPT !.pc = NextGuard(turn.pc), !.held = turn.held \cup {k}]
Refused(turn) == [turn EXCEPT !.pc = Undo(turn.pc)]
Released(turn, k, pc) == [turn EXCEPT !.pc = pc, !.held = turn.held \ {k}]

\* Mutant: the limit itself is refused only once it is exceeded.
WithinLimitLate(n, k) == n <= LimitOf(k) + 1

WithinLimit(n, k) == n <= LimitOf(k)

acquireCounterGuard(t) ==
  LET k == KeyAt(t) IN
  /\ turns[t].pc \in {"user", "conv"}
  /\ guards' = [guards EXCEPT ![k] = Incr(guards[k])]
  /\ turns' = [turns EXCEPT ![t] =
        IF WithinLimit(guards[k].n + 1, k) THEN Acquired(turns[t], k) ELSE Refused(turns[t])]
  /\ UNCHANGED <<rows, rate, deletes, conns, inflight, accepted, turnPast, faults>>

Leak(ks) == leaked \cup (ks \cap Conversations)

\* Redis fails, or its answer is lost: the turn goes on without this guard, with
\* an empty release, and what the script counted stays.
acquireFails(t) ==
  /\ turns[t].pc \in {"user", "conv"}
  /\ \/ UNCHANGED <<guards, leaked>>
     \/ /\ guards' = [guards EXCEPT ![KeyAt(t)] = Incr(guards[KeyAt(t)])]
        /\ leaked' = Leak({KeyAt(t)})
  /\ Goto(t, NextGuard(turns[t].pc))
  /\ Fault
  /\ UNCHANGED <<rows, rate, deletes, conns, inflight, accepted, drifted, deletionPast>>

AfterUndo(t) == IF turns[t].pc = "undoUser" THEN "end" ELSE "releaseUser"

\* A refused attempt counts itself back, if Redis answers.
undoGuard(t) ==
  /\ turns[t].pc \in {"undoUser", "undoConv"}
  /\ \/ guards' = [guards EXCEPT ![KeyAt(t)] = Decr(guards[KeyAt(t)])] /\ UNCHANGED <<leaked, faults>>
     \/ leaked' = Leak({KeyAt(t)}) /\ UNCHANGED guards /\ Fault
  /\ Goto(t, AfterUndo(t))
  /\ UNCHANGED <<rows, rate, deletes, conns, inflight, accepted, drifted, deletionPast>>

\* The release functions, conversation first; a guard not held has an empty one.
AfterRelease(t) == IF turns[t].pc = "release" THEN "releaseUser" ELSE "end"

releaseGuard(t) ==
  LET k == KeyAt(t) IN
  /\ turns[t].pc \in {"release", "releaseUser"}
  /\ guards' = IF k \in turns[t].held THEN [guards EXCEPT ![k] = Decr(guards[k])] ELSE guards
  /\ turns' = [turns EXCEPT ![t] = Released(turns[t], k, AfterRelease(t))]
  /\ UNCHANGED <<rows, rate, deletes, conns, inflight, accepted, turnPast, faults>>

releaseFails(t) ==
  LET k == KeyAt(t) IN
  /\ turns[t].pc \in {"release", "releaseUser"} /\ k \in turns[t].held
  /\ leaked' = Leak({k})
  /\ turns' = [turns EXCEPT ![t] = Released(turns[t], k, AfterRelease(t))]
  /\ Fault
  /\ UNCHANGED <<rows, guards, rate, deletes, conns, inflight, accepted, drifted, deletionPast>>

----------------------------------------------------------------------------
(* The turn itself *)

\* An upsert of the whole row.
saveConversation(c, status) == rows' = [rows EXCEPT ![c] = status]

Cancelled(t) == turns[t].via # None /\ conns[turns[t].via] # "open"

\* The row read before the guards is saved whole, created if it is not there.
savePending(t) ==
  /\ turns[t].pc = "save" /\ ~Cancelled(t)
  /\ saveConversation(turns[t].conv, "pending")
  /\ turns' = [turns EXCEPT ![t] = [turns[t] EXCEPT !.pc = "call", !.left = Timeout]]
  /\ UNCHANGED <<guards, rate, deletes, conns, inflight, accepted, turnPast, faults>>

\* MySQL fails, or the event "accepted" cannot be written to the session.
savePendingFails(t) ==
  /\ turns[t].pc = "save"
  /\ \/ UNCHANGED rows
     \/ turns[t].via # None /\ saveConversation(turns[t].conv, "pending")
  /\ Goto(t, "release")
  /\ UNCHANGED <<guards, rate, deletes, conns, inflight, accepted, turnPast, faults>>

\* The agent answers, with a result or an error code, in time.
agentAnswers(t) ==
  /\ turns[t].pc = "call" /\ turns[t].left > 0 /\ ~Cancelled(t)
  /\ Goto(t, "persist")
  /\ UNCHANGED <<rows, guards, rate, deletes, conns, inflight, accepted, turnPast, faults>>

\* The call fails, is cancelled or times out.  Over HTTP the error is returned
\* and the row is left pending; a stream persists its failure.
agentFails(t) ==
  /\ turns[t].pc = "call"
  /\ Goto(t, IF turns[t].via = None THEN "release" ELSE "persist")
  /\ UNCHANGED <<rows, guards, rate, deletes, conns, inflight, accepted, turnPast, faults>>

\* The conversation as it was read before the guards, with its new status (ready
\* or error) and previews; a row deleted meanwhile is created again.
persistConversation(t) ==
  /\ turns[t].pc = "persist" /\ ~Cancelled(t)
  /\ saveConversation(turns[t].conv, "settled")
  /\ Goto(t, "release")
  /\ UNCHANGED <<guards, rate, deletes, conns, inflight, accepted, turnPast, faults>>

\* MySQL fails or the context is cancelled, which is only logged; or an event of
\* the stream cannot be written to the session.
persistFails(t) ==
  /\ turns[t].pc = "persist"
  /\ Goto(t, "release")
  /\ UNCHANGED <<rows, guards, rate, deletes, conns, inflight, accepted, turnPast, faults>>

finishTurn(t) ==
  /\ turns[t].pc = "end"
  /\ inflight' = IF turns[t].via # None THEN [inflight EXCEPT ![turns[t].via] = @ - 1]
                                        ELSE inflight
  /\ turns' = [turns EXCEPT ![t] = Idle]
  /\ UNCHANGED <<rows, guards, rate, deletes, conns, accepted, turnPast, faults>>

----------------------------------------------------------------------------
(* Deleting a conversation *)

\* What the agent answers; a session it does not know counts as deleted.
Answers == {"ok", "not_found", "permission_denied", "unavailable"}
deleteRemoteConversation(answer) == answer \in {"ok", "not_found"}

\* The row is there; the agent's answer decides whether it will be deleted too.
DeleteConversation(c) ==
  /\ rows[c] \in {"pending", "settled"} /\ c \notin deletes
  /\ \E answer \in Answers : deleteRemoteConversation(answer)
  /\ deletes' = deletes \cup {c}
  /\ UNCHANGED <<rows, guards, rate, turns, conns, inflight, accepted, turnPast, faults>>

\* A turn is under way that will save the conversation, unless it fails.
Saving(c) == \E t \in Turns : /\ turns[t].conv = c
                              /\ turns[t].pc \in {"rate", "user", "conv", "save", "call", "persist"}

deleteConversationRecord(c) ==
  /\ c \in deletes
  /\ \/ /\ rows' = [rows EXCEPT ![c] = Absent]
        /\ removed' = removed \cup {c}
        /\ overtaken' = IF Saving(c) THEN overtaken \cup {c} ELSE overtaken \ {c}
     \/ UNCHANGED <<rows, deletionPast>>
  /\ deletes' = deletes \ {c}
  /\ UNCHANGED <<guards, rate, turns, conns, inflight, accepted, leaked, drifted, faults>>

----------------------------------------------------------------------------
(* Sessions *)

\* A connection whose first message authenticates its account.
WS(s) ==
  /\ conns[s] = "none"
  /\ conns' = [conns EXCEPT ![s] = "open"]
  /\ UNCHANGED <<rows, guards, rate, turns, deletes, inflight, accepted, turnPast, faults>>

\* The reader ends; the context of the session's turns is cancelled.
readEnds(s) ==
  /\ conns[s] = "open"
  /\ conns' = [conns EXCEPT ![s] = "closing"]
  /\ UNCHANGED <<rows, guards, rate, turns, deletes, inflight, accepted, turnPast, faults>>

Drained(s) == \A t \in Turns : turns[t].via # s

closeConn(s) ==
  /\ conns[s] = "closing" /\ Drained(s)
  /\ conns' = [conns EXCEPT ![s] = "closed"]
  /\ UNCHANGED <<rows, guards, rate, turns, deletes, inflight, accepted, turnPast, faults>>

----------------------------------------------------------------------------
(* Time and crashes *)

InUse(k) == \E t \in Turns : \/ k \in turns[t].held
                             \/ turns[t].pc \in {"undoUser", "undoConv"} /\ KeyAt(t) = k

Expire(k) ==
  /\ guards[k].ttl = 0
  /\ guards' = [guards EXCEPT ![k] = NoKey]
  /\ drifted' = IF InUse(k) THEN drifted \cup ({k} \cap Conversations) ELSE drifted
  /\ UNCHANGED <<rows, rate, turns, deletes, conns, inflight, accepted, leaked, faults, deletionPast>>

Waiting(t) == turns[t] = Idle \/ (turns[t].pc = "call" /\ turns[t].left > 0)

Aged(g) == [n |-> g.n, ttl |-> IF g.ttl = NoTTL THEN NoTTL ELSE g.ttl - 1]
Waited(turn) == [turn EXCEPT !.left = turn.left - 1]

\* A tick may begin a new minute, with a new key for the rate.
Tick ==
  /\ \A t \in Turns : Waiting(t)
  /\ \A k \in Keys : guards[k].ttl # 0
  /\ guards' = [k \in Keys |-> Aged(guards[k])]
  /\ turns' = [t \in Turns |-> IF turns[t].pc = "call" THEN Waited(turns[t]) ELSE Idle]
  /\ \/ UNCHANGED <<rate, accepted>>
     \/ rate' = [u \in Users |-> 0] /\ accepted' = [u \in Users |-> 0]
  /\ UNCHANGED <<rows, deletes, conns, inflight, turnPast, faults>>

Restart ==
  /\ \E t \in Turns : turns[t] # Idle
  /\ turns' = [t \in Turns |-> Idle]
  /\ deletes' = {}
  /\ conns' = [s \in Sessions |-> IF conns[s] = "none" THEN "none" ELSE "closed"]
  /\ inflight' = [s \in Sessions |-> 0]
  /\ leaked' = Leak({k \in Keys : InUse(k)})
  /\ Fault
  /\ UNCHANGED <<rows, guards, rate, accepted, drifted, deletionPast>>

----------------------------------------------------------------------------
Guarding(t) == \/ enforcePerMinute(t) \/ enforceFails(t) \/ undoRate(t)
               \/ acquireCounterGuard(t)
               \/ acquireFails(t) \/ undoGuard(t) \/ releaseGuard(t) \/ releaseFails(t)
Answering(t) == \/ savePending(t) \/ savePendingFails(t)
                \/ agentAnswers(t) \/ agentFails(t) \/ persistConversation(t) \/ persistFails(t)
                \/ finishTurn(t)

Next ==
  \/ \E t \in Turns, c \in Conversations :
        HandleTurn(t, c) \/ \E s \in Sessions : startWSTurn(t, c, s)
  \/ \E t \in Turns : Guarding(t) \/ Answering(t)
  \/ \E c \in Conversations : DeleteConversation(c) \/ deleteConversationRecord(c)
  \/ \E s \in Sessions : WS(s) \/ readEnds(s) \/ closeConn(s)
  \/ \E k \in Keys : Expire(k)
  \/ Tick \/ Restart

Spec == Init /\ [][Next]_vars

----------------------------------------------------------------------------
(* Properties *)

TurnRows ==
  [pc : {"idle", "rate", "undoRate", "user", "undoUser", "conv", "undoConv", "save",
         "call", "persist", "release", "releaseUser", "end"},
   conv : Conversations \cup {None}, via : Sessions \cup {None},
   left : 0 .. Timeout, held : SUBSET Keys]

\* Rows, counters and turns have their fields, and counters stay within their bounds.
TypeOK ==
  /\ rows \in [Conversations -> {Unused, Absent, "pending", "settled"}]
  /\ guards \in [Keys -> [n : Int, ttl : NoTTL .. GuardTTL]]
  /\ rate \in [Users -> Nat] /\ accepted \in [Users -> Nat]
  /\ turns \in [Turns -> TurnRows]
  /\ deletes \subseteq Conversations
  /\ conns \in [Sessions -> {"none", "open", "closing", "closed"}]
  /\ inflight \in [Sessions -> Nat]
  /\ leaked \subseteq Conversations /\ drifted \subseteq Conversations
  /\ removed \subseteq Conversations /\ overtaken \subseteq Conversations
  /\ faults \in 0 .. MaxFaults

Holders(k) == {t \in Turns : k \in turns[t].held}

(***************************************************************************)
(* The per-conversation lock of docs/agentchat-integration.md: two turns   *)
(* hold the guard of a conversation only if its counter expired while a    *)
(* turn or a refused attempt was counted in it.                            *)
(***************************************************************************)
ConversationLock ==
  \A c \in Conversations : Cardinality(Holders(c)) > MaxPerConversation => c \in drifted

(***************************************************************************)
(* With a lock for one turn that takes a release lost to a crash or to     *)
(* Redis, or never made because the answer to the increment was lost:      *)
(* guardTTL outlives every turn that holds the guard.                      *)
(***************************************************************************)
DriftNeedsALostRelease ==
  MaxPerConversation = 1 => drifted \subseteq leaked

(***************************************************************************)
(* Whatever is lost, no counter refuses turns forever: one that is above   *)
(* zero has a time to live, also when it came back from below zero         *)
(* (counterGuardAcquireScript sets it when the count is 1).                *)
(***************************************************************************)
PositiveExpires == \A k \in Keys : guards[k].n > 0 => guards[k].ttl # NoTTL

(***************************************************************************)
(* In every minute at most the configured number of requests passes, also  *)
(* when requests over the limit are counted and counted back meanwhile;    *)
(* requests that Redis did not count pass besides (enforcePerMinute).      *)
(***************************************************************************)
RateBound == \A u \in Users : accepted[u] <= RatePerMinute

(***************************************************************************)
(* A deleted conversation stays deleted, unless a turn on it was under way *)
(* when its row was deleted: persistConversationResult saves the whole     *)
(* conversation as it was read before the guards, row or no row.           *)
(***************************************************************************)
DeletedStaysDeleted == \A c \in removed \ overtaken : rows[c] = Absent

(***************************************************************************)
(* A session counts the turns it runs exactly, refused and failed ones     *)
(* included, runs at most its limit, and is closed only after the last of  *)
(* them has ended (serveWSConnection waits for its goroutines).            *)
(***************************************************************************)
SessionsCountTheirTurns ==
  \A s \in Sessions :
    /\ inflight[s] = Cardinality({t \in Turns : turns[t].via = s})
    /\ inflight[s] <= MaxPerUser
    /\ conns[s] = "closed" => inflight[s] = 0
============================================================================
