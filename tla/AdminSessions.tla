---------------------------- MODULE AdminSessions ----------------------------
(***************************************************************************)
(* Logging in as an administrator (internal/user/service_admin.go) and the *)
(* administrator's session (internal/platform/adminjwt), for one username. *)
(* The counter of failed logins, the lock, the session and the status of   *)
(* every token are keys in Redis, each read or written by a command of its *)
(* own while other requests run.                                           *)
(***************************************************************************)
EXTENDS Integers, Sequences, FiniteSets

CONSTANTS
  Requests,      \* requests in progress
  MaxFails,      \* failures that lock the account: 10 in handleLoginFail
  MaxAdminPairs, \* bound: pairs of tokens handed out
  MaxAdminFaults,\* bound: commands that fail
  MaxCount       \* bound: the counter above which no login starts

ASSUME AdminAssumption ==
  /\ MaxFails \in Nat \ {0} /\ {MaxAdminPairs, MaxAdminFaults, MaxCount} \subseteq Nat
  /\ IsFiniteSet(Requests)

VARIABLES
  stored,     \* the password in the admin table: none, an old MD5 or a bcrypt hash
  fails,      \* the counter of failed logins, 0 where there is no key
  failTTL,    \* the counter has a time to live
  locked,     \* the lock key exists
  session,    \* the session key, 0 where there is none
  pairs,      \* pairs of tokens handed out, with their keys
  reqs,
  broken,     \* number of commands that failed so far
  guesses,    \* history: wrong passwords since the counter or the lock went away
  stuck,      \* history: the counter was left without a time to live
  ended,      \* history: sessions logged out of or replaced
  met         \* history: overlapping requests

adminVars == <<stored, fails, failTTL, locked, session, pairs, reqs, broken, guesses, stuck, ended, met>>

Inputs == {"wrong second", "wrong password", "right"}
Waiting == [step |-> "idle", input |-> "right", pair |-> 0, session |-> 0]

At(r, s) == reqs[r].step = s
Move(r, s) == reqs' = [reqs EXCEPT ![r].step = s]
Answer(r) == reqs' = [reqs EXCEPT ![r] = Waiting]

Breaks == broken < MaxAdminFaults /\ broken' = broken + 1

-----------------------------------------------------------------------------
(* Login.                                                                   *)

\* A locked account is refused before anything is looked at.
AdminLogin(r, in) ==
  /\ At(r, "idle") /\ ~locked /\ fails < MaxCount
  /\ reqs' = [reqs EXCEPT ![r] = [Waiting EXCEPT !.step = "check", !.input = in]]
  /\ UNCHANGED <<stored, fails, failTTL, locked, session, pairs, broken, guesses, stuck, ended, met>>

\* verifyAdminPassword, after the secondary password. Without a row the user of
\* old administrators is looked up with the same password.
verifyAdminPassword(r) ==
  /\ At(r, "check")
  /\ IF reqs[r].input = "right"
     THEN /\ Move(r, [none |-> "migrate", md5 |-> "upgrade", bcrypt |-> "reset"][stored])
          /\ UNCHANGED guesses
     ELSE Move(r, "fail") /\ guesses' = guesses + 1
  /\ UNCHANGED <<stored, fails, failTTL, locked, session, pairs, broken, stuck, ended, met>>

\* The username is unique: the second of two migrations fails.
migrateLegacyAdmin(r) ==
  /\ At(r, "migrate")
  /\ IF stored = "none" THEN stored' = "bcrypt" /\ Move(r, "reset") ELSE Answer(r) /\ UNCHANGED stored
  /\ UNCHANGED <<fails, failTTL, locked, session, pairs, broken, guesses, stuck, ended, met>>

\* An upgrade that fails is logged and the login goes on.
tryUpgradeAdminPasswordHash(r) ==
  /\ At(r, "upgrade")
  /\ \/ stored' = "bcrypt" /\ UNCHANGED broken
     \/ Breaks /\ UNCHANGED stored
  /\ Move(r, "reset")
  /\ UNCHANGED <<fails, failTTL, locked, session, pairs, guesses, stuck, ended, met>>

resetFails(r) ==
  /\ At(r, "reset")
  /\ fails' = 0 /\ failTTL' = FALSE /\ guesses' = 0 /\ stuck' = FALSE
  /\ Move(r, "issue")
  /\ UNCHANGED <<stored, locked, session, pairs, broken, ended, met>>

\* Mutant: one more failure is let through.
lockLater(r) ==
  /\ At(r, "fail")
  /\ fails' = fails + 1
  /\ IF fails + 1 = 1 THEN Move(r, "expire") ELSE IF fails + 1 > MaxFails THEN Move(r, "lock") ELSE Answer(r)
  /\ UNCHANGED <<stored, failTTL, locked, session, pairs, broken, guesses, stuck, ended, met>>

handleLoginFail(r) ==
  /\ At(r, "fail")
  /\ fails' = fails + 1
  /\ IF fails + 1 = 1 THEN Move(r, "expire") ELSE IF fails + 1 >= MaxFails THEN Move(r, "lock") ELSE Answer(r)
  /\ UNCHANGED <<stored, failTTL, locked, session, pairs, broken, guesses, stuck, ended, met>>

\* EXPIRE of a counter that is gone does nothing.
expireFails(r) ==
  /\ At(r, "expire")
  /\ failTTL' = (fails > 0) /\ stuck' = FALSE
  /\ IF MaxFails = 1 THEN Move(r, "lock") ELSE Answer(r)
  /\ UNCHANGED <<stored, fails, locked, session, pairs, broken, guesses, ended, met>>

lockAccount(r) ==
  /\ At(r, "lock")
  /\ locked' = TRUE
  /\ Answer(r)
  /\ UNCHANGED <<stored, fails, failTTL, session, pairs, broken, guesses, stuck, ended, met>>

\* A command that fails, or is not answered, ends the request, as a crash does:
\* the failed login is counted or not, and the counter can stay without a time to
\* live.
failedCommand(r) ==
  /\ reqs[r].step \in {"fail", "expire", "lock", "reset", "mark", "load", "issue", "begin", "logout"} /\ Breaks
  /\ UNCHANGED fails \/ (At(r, "fail") /\ fails' = fails + 1)
  /\ stuck' = (stuck \/ (At(r, "expire") /\ fails > 0) \/ (fails = 0 /\ fails' = 1))
  /\ Answer(r)
  /\ UNCHANGED <<stored, failTTL, locked, session, pairs, guesses, ended, met>>

-----------------------------------------------------------------------------
(* Tokens and the session.                                                  *)

Verified(k) == session # 0 /\ session = pairs[k].session

\* AdminJWTAuth of an access token.
ParseAndVerifyAccess(k) == pairs[k].access /\ Verified(k)

ParseAndVerifyRefresh(k) == pairs[k].refresh = "OK" /\ pairs[k].valid /\ Verified(k)

\* Refreshes that have been let in for a session.
refreshing(s) == {q \in Requests : s # 0 /\ reqs[q].session = s /\ reqs[q].step \in {"consume", "mark", "load", "issue", "begin"}}

End(s) ==
  /\ ended' = ended \cup ({s} \ {0})
  /\ met' = met \cup {<<"session", s>> : q \in refreshing(s)}

\* A login starts a session, a refresh goes on with its own.
GenerateAdminPair(r) ==
  LET s == IF reqs[r].session = 0 THEN Len(pairs) + 1 ELSE reqs[r].session IN
  /\ At(r, "issue") /\ Len(pairs) < MaxAdminPairs
  /\ pairs' = Append(pairs, [session |-> s, from |-> reqs[r].pair, access |-> TRUE, refresh |-> "OK", valid |-> TRUE])
  /\ reqs' = [reqs EXCEPT ![r] = [Waiting EXCEPT !.step = "begin", !.session = s]]
  /\ UNCHANGED <<stored, fails, failTTL, locked, session, broken, guesses, stuck, ended, met>>

\* The session key is written last, by a refresh as well; another session ends.
beginSession(r) ==
  /\ At(r, "begin")
  /\ session' = reqs[r].session
  /\ IF session # reqs[r].session THEN End(session) ELSE UNCHANGED <<ended, met>>
  /\ Answer(r)
  /\ UNCHANGED <<stored, fails, failTTL, locked, pairs, broken, guesses, stuck>>

AdminRefreshToken(r, k) ==
  /\ At(r, "idle") /\ ParseAndVerifyRefresh(k)
  /\ reqs' = [reqs EXCEPT ![r] = [Waiting EXCEPT !.step = "consume", !.pair = k, !.session = pairs[k].session]]
  /\ UNCHANGED <<stored, fails, failTTL, locked, session, pairs, broken, guesses, stuck, ended, met>>

\* The status is read once more, and then written.
ConsumeRefreshToken(r) ==
  LET k == reqs[r].pair IN
  /\ At(r, "consume")
  /\ IF pairs[k].refresh = "OK"
     THEN /\ Move(r, "mark")
          /\ met' = met \cup {<<"refresh", k>> : q \in {q \in Requests \ {r} : At(q, "mark") /\ reqs[q].pair = k}}
     ELSE Answer(r) /\ UNCHANGED met
  /\ UNCHANGED <<stored, fails, failTTL, locked, session, pairs, broken, guesses, stuck, ended>>

markUsed(r) ==
  /\ At(r, "mark")
  /\ pairs' = [pairs EXCEPT ![reqs[r].pair].refresh = "USED"]
  /\ Move(r, "load")
  /\ UNCHANGED <<stored, fails, failTTL, locked, session, broken, guesses, stuck, ended, met>>

\* FindAdminByID: the row and its user are still there.
loadAdmin(r) ==
  /\ At(r, "load") /\ stored # "none"
  /\ Move(r, "issue")
  /\ UNCHANGED <<stored, fails, failTTL, locked, session, pairs, broken, guesses, stuck, ended, met>>

AdminLogout(r, k) ==
  /\ At(r, "idle") /\ ParseAndVerifyAccess(k)
  /\ reqs' = [reqs EXCEPT ![r] = [Waiting EXCEPT !.step = "logout"]]
  /\ UNCHANGED <<stored, fails, failTTL, locked, session, pairs, broken, guesses, stuck, ended, met>>

\* Mutant: the session key is left to expire.
LogoutLater(r) ==
  /\ At(r, "logout")
  /\ End(session)
  /\ Answer(r)
  /\ UNCHANGED <<stored, fails, failTTL, locked, session, pairs, broken, guesses, stuck>>

\* DEL of the session key, whatever session it holds by then.
Logout(r) ==
  /\ At(r, "logout")
  /\ End(session)
  /\ session' = 0
  /\ Answer(r)
  /\ UNCHANGED <<stored, fails, failTTL, locked, pairs, broken, guesses, stuck>>

-----------------------------------------------------------------------------
(* Keys that expire.                                                        *)

expireCounter ==
  /\ failTTL
  /\ fails' = 0 /\ failTTL' = FALSE /\ guesses' = 0 /\ stuck' = FALSE
  /\ UNCHANGED <<stored, locked, session, pairs, reqs, broken, ended, met>>

expireLock ==
  /\ locked
  /\ locked' = FALSE /\ guesses' = 0
  /\ UNCHANGED <<stored, fails, failTTL, session, pairs, reqs, broken, stuck, ended, met>>

expireAccess(k) ==
  /\ pairs[k].access
  /\ pairs' = [pairs EXCEPT ![k].access = FALSE]
  /\ UNCHANGED <<stored, fails, failTTL, locked, session, reqs, broken, guesses, stuck, ended, met>>

\* A refresh token outlives its access token.
expireRefresh(k) ==
  /\ pairs[k].valid /\ ~pairs[k].access /\ pairs[k].refresh = "OK"
  /\ pairs' = [pairs EXCEPT ![k].valid = FALSE]
  /\ UNCHANGED <<stored, fails, failTTL, locked, session, reqs, broken, guesses, stuck, ended, met>>

-----------------------------------------------------------------------------

LoggingIn(r) ==
  \/ \E in \in Inputs : AdminLogin(r, in)
  \/ verifyAdminPassword(r) \/ migrateLegacyAdmin(r) \/ tryUpgradeAdminPasswordHash(r) \/ resetFails(r)
  \/ handleLoginFail(r) \/ expireFails(r) \/ lockAccount(r) \/ failedCommand(r)
  \/ GenerateAdminPair(r) \/ beginSession(r)

RefreshingAdmin(r) ==
  \/ \E k \in DOMAIN pairs : AdminRefreshToken(r, k)
  \/ ConsumeRefreshToken(r) \/ markUsed(r) \/ loadAdmin(r)
  \/ Logout(r) \/ \E k \in DOMAIN pairs : AdminLogout(r, k)

AdminInit ==
  /\ stored \in {"none", "md5", "bcrypt"}
  /\ fails = 0 /\ failTTL = FALSE /\ locked = FALSE /\ session = 0 /\ pairs = <<>>
  /\ reqs = [r \in Requests |-> Waiting]
  /\ broken = 0 /\ guesses = 0 /\ stuck = FALSE /\ ended = {} /\ met = {}

AdminNext ==
  \/ \E r \in Requests : LoggingIn(r) \/ RefreshingAdmin(r)
  \/ \E k \in DOMAIN pairs : expireAccess(k) \/ expireRefresh(k)
  \/ expireCounter \/ expireLock

AdminSpec == AdminInit /\ [][AdminNext]_adminVars

-----------------------------------------------------------------------------
(* Properties.                                                              *)

\* The keys have their types; the session, if there is one, is that of some pair,
\* and a pair that was refreshed stays with the session it came from.
AdminTypeOK ==
  /\ stored \in {"none", "md5", "bcrypt"} /\ fails \in Nat /\ {failTTL, locked} \subseteq BOOLEAN
  /\ session \in {0} \cup {pairs[k].session : k \in DOMAIN pairs}
  /\ \A k \in DOMAIN pairs : pairs[k].from # 0 => pairs[k].session = pairs[pairs[k].from].session

\* A counter of failed logins that exists will go away by itself: handleLoginFail
\* is on its way to give it a time to live, unless that command failed or the answer
\* to the one that made the counter was lost.
CounterExpires ==
  fails > 0 => failTTL \/ stuck \/ \E r \in Requests : At(r, "expire")

\* Between two days, and between two successful logins, the account takes
\* MaxFails wrong passwords at most, and one more from every other request that had
\* passed the check of the lock before it was set, and for every command that failed.
GuessesBounded ==
  guesses <= MaxFails - 1 + Cardinality(Requests) + broken

\* A session that was logged out of, or replaced by a later login, does not come
\* back, unless a refresh had been let in before: it writes the old session
\* key again.
EndedStaysEnded ==
  session \in ended => <<"session", session>> \in met

\* A refresh token gives one new pair, unless two requests read its status
\* before either wrote it.
AdminRefreshedOnce ==
  \A k \in DOMAIN pairs : <<"refresh", k>> \notin met => Cardinality({j \in DOMAIN pairs : pairs[j].from = k}) <= 1

\* Wrong passwords are bounded, and the count of them does not lock the account for good.
LoginsAreLimited ==
  /\ GuessesBounded
  /\ CounterExpires

\* A session has one line of pairs and stays ended once it was ended.
SessionsEnd ==
  /\ AdminTypeOK
  /\ EndedStaysEnded
  /\ AdminRefreshedOnce
=============================================================================
