------------------------- MODULE AdminSessionsProofs -------------------------
(***************************************************************************)
(* Proofs about AdminSessions, for any requests, limit and bounds: every   *)
(* refresh token gives one new pair and an ended session stays ended,      *)
(* unless two requests met on it; wrong passwords are counted up to the    *)
(* limit, and the counter that counts them expires.  The first rests on    *)
(* which request holds a refresh token, the second on the guesses of every *)
(* request that is still running.                                          *)
(***************************************************************************)
EXTENDS AdminSessions, FiniteSetTheorems, TLAPS

----------------------------------------------------------------------------
(* Administrators' sessions: the inductive invariant *)

LoginSteps == {"check", "migrate", "upgrade", "reset", "fail", "expire", "lock", "logout"}
RefreshSteps == {"consume", "mark", "load"}
RequestSteps == {"idle", "issue", "begin"} \cup LoginSteps \cup RefreshSteps
RequestRows == [step : RequestSteps, input : Inputs, pair : Nat, session : Nat]
PairRows == [session : Nat \ {0}, from : Nat, access : BOOLEAN, refresh : {"OK", "USED"},
             valid : BOOLEAN]

KeysTyped ==
  /\ stored \in {"none", "md5", "bcrypt"} /\ fails \in Nat /\ guesses \in Nat
  /\ failTTL \in BOOLEAN /\ locked \in BOOLEAN /\ stuck \in BOOLEAN /\ broken \in Nat
PairsTyped ==
  /\ pairs \in Seq(PairRows) /\ reqs \in [Requests -> RequestRows]
  /\ session \in 0 .. Len(pairs) /\ ended \subseteq 1 .. Len(pairs)

\* A request is a login, or a refresh of a pair with the session of that pair, or is
\* about to write the session of a pair that was handed out.
RequestOK(row) ==
  /\ row.step \in {"idle"} \cup LoginSteps => row.pair = 0 /\ row.session = 0
  /\ row.step \in RefreshSteps \cup {"begin"} => row.session # 0
  /\ row.step \in RefreshSteps => row.pair # 0
  /\ row.session = 0 \/ row.step = "begin" => row.pair = 0
  /\ row.pair # 0 => row.pair \in DOMAIN pairs /\ row.session = pairs[row.pair].session
  /\ row.session # 0 => /\ \E k \in DOMAIN pairs : row.session = pairs[k].session
                        /\ row.session \in ended => <<"session", row.session>> \in met

\* A session has the number of the pair it began with.
PairOK(k) ==
  /\ pairs[k].session \in 1 .. Len(pairs)
  /\ pairs[k].from # 0 => /\ pairs[k].from \in DOMAIN pairs
                          /\ pairs[k].session = pairs[pairs[k].from].session

SessionKnown == session # 0 => \E k \in DOMAIN pairs : session = pairs[k].session

\* Requests that have found the refresh token of pair k unused.
Spending(k) == {r \in Requests : reqs[r].pair = k /\ reqs[r].step \in {"mark", "load", "issue"}}
Successors(k) == {j \in DOMAIN pairs : pairs[j].from = k}

\* A refresh token is spent by one request, unless two had found it unused.
SpentOnce(k) ==
  /\ \A r, q \in Spending(k) : r = q
  /\ Spending(k) # {} => Successors(k) = {}
  /\ \A i, j \in Successors(k) : i = j
  /\ \A r \in Spending(k) : reqs[r].step = "mark" => pairs[k].refresh = "OK"
  /\ pairs[k].refresh = "OK" => /\ Successors(k) = {}
                                /\ \A r \in Spending(k) : reqs[r].step = "mark"

SessionsInv ==
  /\ KeysTyped /\ PairsTyped
  /\ \A r \in Requests : RequestOK(reqs[r])
  /\ \A k \in DOMAIN pairs : PairOK(k) /\ (<<"refresh", k>> \notin met => SpentOnce(k))
  /\ SessionKnown /\ EndedStaysEnded

\* Requests that passed the check of the lock, and requests with a wrong password that
\* is not counted yet or is about to lock the account.
Checking == {r \in Requests : reqs[r].step = "check"}
Pending == {r \in Requests : \/ reqs[r].step \in {"fail", "lock"}
                             \/ MaxFails = 1 /\ reqs[r].step = "expire"}

\* The failures that do not lock the account.
Counted == IF fails < MaxFails THEN fails ELSE MaxFails - 1

\* Every wrong password was counted, is pending or was lost with a command that
\* failed; once the account is locked, no request arrives.
GuessesCounted ==
  /\ ~locked => guesses <= Counted + Cardinality(Pending) + broken
  /\ locked => guesses + Cardinality(Checking) <= MaxFails - 1 + Cardinality(Requests) + broken

LoginsInv ==
  /\ KeysTyped /\ PairsTyped /\ GuessesCounted /\ CounterExpires

----------------------------------------------------------------------------
(* Administrators: rows *)

\* A request goes on to a step.
Moved(new, old, s) == new.step = s /\ new.pair = old.pair /\ new.session = old.session
LEMMA MoveRow ==
  ASSUME PairsTyped, NEW r \in Requests, NEW s \in RequestSteps, Move(r, s)
  PROVE  \E new \in RequestRows : reqs' = [reqs EXCEPT ![r] = new] /\ Moved(new, reqs[r], s)
<1>1. PICK old \in RequestRows : old = reqs[r]
  BY Zenon DEF PairsTyped
<1>2. PICK new \in RequestRows : new = [old EXCEPT !.step = s]
  BY Zenon DEF RequestRows
<1>3. Moved(new, old, s)
  BY <1>2, Zenon DEF Moved, RequestRows
<1>4. reqs' = [reqs EXCEPT ![r] = new]
  BY <1>1, <1>2, Zenon DEF Move
<1> QED BY <1>1, <1>3, <1>4, Zenon

\* A request that is answered is no longer there.
Gone(new) == new.step = "idle" /\ new.pair = 0 /\ new.session = 0
LEMMA AnswerRow ==
  ASSUME NEW r \in Requests, Answer(r)
  PROVE  \E new \in RequestRows : reqs' = [reqs EXCEPT ![r] = new] /\ Gone(new)
<1>1. Waiting \in RequestRows /\ Gone(Waiting)
  BY DEF Waiting, RequestRows, RequestSteps, Inputs, Gone
<1> QED BY <1>1, Zenon DEF Answer

\* A login that arrives.
LEMMA LoginRow ==
  ASSUME NEW in \in Inputs
  PROVE  \E new \in RequestRows : /\ new = [Waiting EXCEPT !.step = "check", !.input = in]
                                  /\ new.step = "check" /\ new.pair = 0 /\ new.session = 0
<1>1. [Waiting EXCEPT !.step = "check", !.input = in] \in RequestRows
  BY Zenon DEF Waiting, RequestRows, RequestSteps, LoginSteps
<1>2. /\ [Waiting EXCEPT !.step = "check", !.input = in].step = "check"
      /\ [Waiting EXCEPT !.step = "check", !.input = in].pair = 0
      /\ [Waiting EXCEPT !.step = "check", !.input = in].session = 0
  BY Zenon DEF Waiting
<1> QED BY <1>1, <1>2, Zenon

\* A refresh that arrives.
LEMMA RefreshRow ==
  ASSUME NEW k \in Nat, NEW s \in Nat
  PROVE  \E new \in RequestRows :
           /\ new = [Waiting EXCEPT !.step = "consume", !.pair = k, !.session = s]
           /\ new.step = "consume" /\ new.pair = k /\ new.session = s
<1>1. [Waiting EXCEPT !.step = "consume", !.pair = k, !.session = s] \in RequestRows
  BY Zenon DEF Waiting, RequestRows, RequestSteps, RefreshSteps, Inputs
<1>2. /\ [Waiting EXCEPT !.step = "consume", !.pair = k, !.session = s].step = "consume"
      /\ [Waiting EXCEPT !.step = "consume", !.pair = k, !.session = s].pair = k
      /\ [Waiting EXCEPT !.step = "consume", !.pair = k, !.session = s].session = s
  BY Zenon DEF Waiting
<1> QED BY <1>1, <1>2, Zenon

\* The keys of the account keep their types.
LEMMA KeysStep ==
  ASSUME KeysTyped, [AdminNext]_adminVars
  PROVE  KeysTyped'
<1>0. 0 \in Nat /\ (fails > 0) \in BOOLEAN /\ broken + 1 \in Nat
  BY DEF KeysTyped
<1>1. ASSUME NEW r \in Requests, LoggingIn(r) PROVE KeysTyped'
  <2>1. ASSUME NEW in \in Inputs, AdminLogin(r, in) PROVE KeysTyped'
    BY <2>1, Zenon DEF AdminLogin, KeysTyped
  <2>2. CASE verifyAdminPassword(r)
    <3>1. guesses + 1 \in Nat
      BY DEF KeysTyped
    <3> QED BY <2>2, <3>1, Zenon DEF verifyAdminPassword, KeysTyped
  <2>3. CASE migrateLegacyAdmin(r)
    BY <2>3, Zenon DEF migrateLegacyAdmin, KeysTyped
  <2>4. CASE tryUpgradeAdminPasswordHash(r)
    BY <1>0, <2>4, Zenon DEF tryUpgradeAdminPasswordHash, Breaks, KeysTyped
  <2>5. CASE resetFails(r)
    BY <1>0, <2>5, Zenon DEF resetFails, KeysTyped
  <2>6. CASE handleLoginFail(r)
    <3>1. fails + 1 \in Nat
      BY DEF KeysTyped
    <3> QED BY <2>6, <3>1, Zenon DEF handleLoginFail, KeysTyped
  <2>7. CASE expireFails(r)
    BY <1>0, <2>7, Zenon DEF expireFails, KeysTyped
  <2>8. CASE lockAccount(r)
    BY <2>8, Zenon DEF lockAccount, KeysTyped
  <2>9. CASE failedCommand(r)
    <3>1. fails + 1 \in Nat /\ stuck' \in BOOLEAN
      BY <2>9 DEF KeysTyped, failedCommand
    <3> QED BY <1>0, <2>9, <3>1, Zenon DEF failedCommand, Breaks, KeysTyped
  <2>10. CASE GenerateAdminPair(r)
    BY <2>10, Zenon DEF GenerateAdminPair, KeysTyped
  <2>11. CASE beginSession(r)
    BY <2>11, Zenon DEF beginSession, KeysTyped
  <2> QED BY <1>1, <2>1, <2>2, <2>3, <2>4, <2>5, <2>6, <2>7, <2>8, <2>9, <2>10, <2>11, Zenon DEF LoggingIn
<1>2. ASSUME NEW r \in Requests, RefreshingAdmin(r) PROVE KeysTyped'
  BY <1>2, Zenon DEF RefreshingAdmin, AdminRefreshToken, ConsumeRefreshToken, markUsed, loadAdmin,
     AdminLogout, Logout, KeysTyped
<1>3. ASSUME NEW k \in DOMAIN pairs, expireAccess(k) \/ expireRefresh(k) PROVE KeysTyped'
  BY <1>3, Zenon DEF expireAccess, expireRefresh, KeysTyped
<1>4. CASE expireCounter
  BY <1>0, <1>4, Zenon DEF expireCounter, KeysTyped
<1>5. CASE expireLock
  BY <1>0, <1>5, Zenon DEF expireLock, KeysTyped
<1>6. CASE UNCHANGED adminVars
  BY <1>6, Zenon DEF adminVars, KeysTyped
<1> QED BY <1>1, <1>2, <1>3, <1>4, <1>5, <1>6, Zenon DEF AdminNext

----------------------------------------------------------------------------
(* Administrators: what keeps the invariant of the sessions *)

\* The pairs keep their sessions and what they came from.
SamePairs ==
  /\ pairs' \in Seq(PairRows) /\ Len(pairs') = Len(pairs) /\ DOMAIN pairs' = DOMAIN pairs
  /\ \A j \in DOMAIN pairs :
       pairs'[j].session = pairs[j].session /\ pairs'[j].from = pairs[j].from

\* A request spends a refresh token only as it did before.
StillSpending(new, old) ==
  new.step \in {"mark", "load", "issue"} /\ new.pair # 0 =>
    /\ new.pair = old.pair
    /\ new.step = old.step \/ (old.step = "load" /\ new.step = "issue")

\* Then the refresh token is still spent by one request.
LEMMA SpentKept ==
  ASSUME NEW k \in DOMAIN pairs, k # 0, SpentOnce(k), SamePairs, pairs'[k].refresh = pairs[k].refresh,
         \A q \in Requests : StillSpending(reqs'[q], reqs[q])
  PROVE  SpentOnce(k)'
<1>1. ASSUME NEW q \in Spending(k)'
      PROVE  q \in Spending(k) /\ (reqs'[q].step = "mark" <=> reqs[q].step = "mark")
  <2>1. /\ q \in Requests /\ reqs'[q].pair = k /\ reqs'[q].step \in {"mark", "load", "issue"}
        /\ StillSpending(reqs'[q], reqs[q])
    BY <1>1, Zenon DEF Spending
  <2>2. reqs[q].pair = k /\ (reqs'[q].step = reqs[q].step \/ (reqs[q].step = "load" /\ reqs'[q].step = "issue"))
    BY <2>1, Zenon DEF StillSpending
  <2> QED BY <2>1, <2>2, Zenon DEF Spending
<1>2. \A j : j \in Successors(k)' <=> j \in Successors(k)
  BY Zenon DEF SamePairs, Successors
<1> QED BY <1>1, <1>2, Zenon DEF SpentOnce

\* The request of a pair is as it was, if the pairs are and its session was not ended.
LEMMA RequestKept ==
  ASSUME NEW row \in RequestRows, RequestOK(row), met \subseteq met',
         DOMAIN pairs \subseteq DOMAIN pairs',
         \A j \in DOMAIN pairs : pairs'[j].session = pairs[j].session,
         row.session # 0 /\ row.session \in ended' =>
           row.session \in ended \/ <<"session", row.session>> \in met'
  PROVE  RequestOK(row)'
BY Zenon DEF RequestOK

\* The sessions of the pairs are as they were.
LEMMA PairsKept ==
  ASSUME SessionsInv, SamePairs
  PROVE  /\ \A k \in DOMAIN pairs : PairOK(k)'
         /\ session' = session => SessionKnown'
<1>1. ASSUME NEW k \in DOMAIN pairs PROVE PairOK(k)'
  <2>1. PairOK(k)
    BY Zenon DEF SessionsInv
  <2> QED BY <2>1, Zenon DEF PairOK, SamePairs
<1>2. session' = session => SessionKnown'
  BY Zenon DEF SessionsInv, SessionKnown, SamePairs
<1> QED BY <1>1, <1>2, Zenon

\* What is left to show when the sessions and their pairs stay as they are.
LEMMA SessionsKept ==
  ASSUME SessionsInv, KeysTyped', SamePairs, UNCHANGED <<session, ended>>, met \subseteq met',
         \A j \in DOMAIN pairs : pairs'[j].refresh = pairs[j].refresh,
         reqs' \in [Requests -> RequestRows],
         \A q \in Requests : RequestOK(reqs[q])' /\ StillSpending(reqs'[q], reqs[q])
  PROVE  SessionsInv'
<1>1. PairsTyped'
  BY Zenon DEF SessionsInv, PairsTyped, SamePairs
<1>2. /\ \A k \in DOMAIN pairs : PairOK(k)'
      /\ SessionKnown'
  BY PairsKept, Zenon
<1>3. EndedStaysEnded'
  BY Zenon DEF SessionsInv, EndedStaysEnded
<1>4. ASSUME NEW k \in DOMAIN pairs, <<"refresh", k>> \notin met' PROVE SpentOnce(k)'
  <2>1. SpentOnce(k)
    BY <1>4, Zenon DEF SessionsInv
  <2>2. k # 0
    BY DEF SessionsInv, PairsTyped
  <2> QED BY <2>1, <2>2, SpentKept, Zenon
<1>5. \A k \in DOMAIN pairs' : PairOK(k)' /\ (<<"refresh", k>> \notin met' => SpentOnce(k)')
  BY <1>2, <1>4, Zenon DEF SamePairs
<1> QED BY <1>1, <1>2, <1>3, <1>5, Zenon DEF SessionsInv

\* The same pairs are the same.
LEMMA SameSame ==
  ASSUME SessionsInv, UNCHANGED pairs
  PROVE  SamePairs /\ \A j \in DOMAIN pairs : pairs'[j].refresh = pairs[j].refresh
BY Zenon DEF SamePairs, SessionsInv, PairsTyped

\* A request moves while the sessions and their pairs stay as they are.
LEMMA OneMoves ==
  ASSUME SessionsInv, KeysTyped', UNCHANGED <<session, ended, pairs>>, met \subseteq met',
         NEW r \in Requests, NEW new \in RequestRows, reqs' = [reqs EXCEPT ![r] = new],
         RequestOK(new)', StillSpending(new, reqs[r])
  PROVE  SessionsInv'
<1>1. reqs' \in [Requests -> RequestRows]
  BY Zenon DEF SessionsInv, PairsTyped
<1>2. ASSUME NEW q \in Requests PROVE RequestOK(reqs[q])' /\ StillSpending(reqs'[q], reqs[q])
  <2>1. CASE q = r
    <3>1. reqs'[q] = new
      BY <2>1, Zenon DEF SessionsInv, PairsTyped
    <3> QED BY <2>1, <3>1, Zenon DEF RequestOK
  <2>2. CASE q # r
    <3>1. PICK row \in RequestRows : row = reqs[q]
      BY Zenon DEF SessionsInv, PairsTyped
    <3>2. reqs'[q] = row
      BY <2>2, <3>1, Zenon DEF SessionsInv, PairsTyped
    <3>3. RequestOK(row)'
      <4>1. RequestOK(row)
        BY <3>1, Zenon DEF SessionsInv
      <4> QED BY <4>1, RequestKept, Zenon
    <3>4. StillSpending(row, row)
      BY Zenon DEF StillSpending
    <3> QED BY <3>1, <3>2, <3>3, <3>4, Zenon DEF RequestOK
  <2> QED BY <2>1, <2>2, Zenon
<1> QED BY <1>1, <1>2, SameSame, SessionsKept, Zenon

\* A request of a login moves; one that is answered is like a login.
LoginRowOK(new) == new.step \in {"idle", "issue"} \cup LoginSteps /\ new.pair = 0 /\ new.session = 0
LEMMA LoginMoves ==
  ASSUME SessionsInv, KeysTyped', UNCHANGED <<session, ended, pairs>>, met \subseteq met',
         NEW r \in Requests, NEW new \in RequestRows, reqs' = [reqs EXCEPT ![r] = new],
         LoginRowOK(new)
  PROVE  SessionsInv'
<1>1. RequestOK(new)'
  BY Zenon DEF RequestOK, LoginRowOK, LoginSteps, RefreshSteps
<1>2. StillSpending(new, reqs[r])
  BY Zenon DEF StillSpending, LoginRowOK
<1> QED BY <1>1, <1>2, OneMoves, Zenon

\* A login goes on, or any request is answered.
LEMMA LoginGoesOn ==
  ASSUME SessionsInv, KeysTyped', UNCHANGED <<session, ended, pairs>>, met \subseteq met',
         NEW r \in Requests,
         \/ Answer(r)
         \/ \E s \in {"issue"} \cup LoginSteps : reqs[r].step \in LoginSteps /\ Move(r, s)
  PROVE  SessionsInv'
<1>1. CASE Answer(r)
  <2>1. PICK new \in RequestRows : reqs' = [reqs EXCEPT ![r] = new] /\ Gone(new)
    BY <1>1, AnswerRow, Zenon
  <2>2. LoginRowOK(new)
    BY <2>1, Zenon DEF Gone, LoginRowOK
  <2> QED BY <2>1, <2>2, LoginMoves, Zenon
<1>2. ASSUME NEW s \in {"issue"} \cup LoginSteps, reqs[r].step \in LoginSteps, Move(r, s)
      PROVE  SessionsInv'
  <2>1. s \in RequestSteps
    BY Zenon DEF RequestSteps
  <2>2. PICK new \in RequestRows : reqs' = [reqs EXCEPT ![r] = new] /\ Moved(new, reqs[r], s)
    BY <1>2, <2>1, MoveRow, Zenon DEF SessionsInv
  <2>3. reqs[r].pair = 0 /\ reqs[r].session = 0
    BY <1>2, Zenon DEF SessionsInv, RequestOK
  <2>4. LoginRowOK(new)
    BY <2>2, <2>3, Zenon DEF Moved, LoginRowOK
  <2> QED BY <2>2, <2>4, LoginMoves, Zenon
<1> QED BY <1>1, <1>2, Zenon

\* The steps of a login keep the invariant of the sessions.
LEMMA LoginStep ==
  ASSUME SessionsInv, KeysTyped', NEW r \in Requests,
         \/ verifyAdminPassword(r) \/ migrateLegacyAdmin(r) \/ tryUpgradeAdminPasswordHash(r)
         \/ resetFails(r) \/ handleLoginFail(r) \/ expireFails(r) \/ lockAccount(r)
         \/ failedCommand(r)
  PROVE  SessionsInv'
<1>1. CASE verifyAdminPassword(r)
  <2>1. PICK s \in {"issue"} \cup LoginSteps : reqs[r].step \in LoginSteps /\ Move(r, s)
    <3>1. stored \in {"none", "md5", "bcrypt"}
      BY Zenon DEF SessionsInv, KeysTyped
    <3>2. [none |-> "migrate", md5 |-> "upgrade", bcrypt |-> "reset"][stored] \in LoginSteps
      BY <3>1 DEF LoginSteps
    <3> QED BY <1>1, <3>2, Zenon DEF verifyAdminPassword, At, LoginSteps
  <2> QED BY <1>1, <2>1, LoginGoesOn, Zenon DEF verifyAdminPassword
<1>2. CASE migrateLegacyAdmin(r)
  <2>1. Answer(r) \/ (reqs[r].step \in LoginSteps /\ "reset" \in LoginSteps /\ Move(r, "reset"))
    BY <1>2, Zenon DEF migrateLegacyAdmin, At, LoginSteps
  <2> QED BY <1>2, <2>1, LoginGoesOn, Zenon DEF migrateLegacyAdmin
<1>3. CASE tryUpgradeAdminPasswordHash(r)
  <2>1. reqs[r].step \in LoginSteps /\ "reset" \in LoginSteps /\ Move(r, "reset")
    BY <1>3, Zenon DEF tryUpgradeAdminPasswordHash, At, LoginSteps
  <2> QED BY <1>3, <2>1, LoginGoesOn, Zenon DEF tryUpgradeAdminPasswordHash
<1>4. CASE resetFails(r)
  <2>1. reqs[r].step \in LoginSteps /\ Move(r, "issue")
    BY <1>4, Zenon DEF resetFails, At, LoginSteps
  <2> QED BY <1>4, <2>1, LoginGoesOn, Zenon DEF resetFails
<1>5. CASE handleLoginFail(r)
  <2>1. \/ Answer(r)
        \/ /\ reqs[r].step \in LoginSteps /\ {"expire", "lock"} \subseteq LoginSteps
           /\ Move(r, "expire") \/ Move(r, "lock")
    BY <1>5, Zenon DEF handleLoginFail, At, LoginSteps
  <2> QED BY <1>5, <2>1, LoginGoesOn, Zenon DEF handleLoginFail
<1>6. CASE expireFails(r)
  <2>1. Answer(r) \/ (reqs[r].step \in LoginSteps /\ "lock" \in LoginSteps /\ Move(r, "lock"))
    BY <1>6, Zenon DEF expireFails, At, LoginSteps
  <2> QED BY <1>6, <2>1, LoginGoesOn, Zenon DEF expireFails
<1>7. CASE lockAccount(r)
  BY <1>7, LoginGoesOn, Zenon DEF lockAccount
<1>8. CASE failedCommand(r)
  BY <1>8, LoginGoesOn, Zenon DEF failedCommand
<1> QED BY <1>1, <1>2, <1>3, <1>4, <1>5, <1>6, <1>7, <1>8, Zenon

\* A login that arrives keeps the invariant of the sessions.
LEMMA ArriveStep ==
  ASSUME SessionsInv, KeysTyped', NEW r \in Requests, NEW in \in Inputs, AdminLogin(r, in)
  PROVE  SessionsInv'
<1>1. PICK new \in RequestRows : /\ new = [Waiting EXCEPT !.step = "check", !.input = in]
                                /\ new.step = "check" /\ new.pair = 0 /\ new.session = 0
  BY LoginRow, Zenon
<1>2. LoginRowOK(new)
  BY <1>1, Zenon DEF LoginRowOK, LoginSteps
<1> QED BY <1>1, <1>2, LoginMoves, Zenon DEF AdminLogin

\* A logout that arrives.
LEMMA LogoutRow ==
  \E new \in RequestRows : /\ new = [Waiting EXCEPT !.step = "logout"]
                           /\ new.step = "logout" /\ new.pair = 0 /\ new.session = 0
<1>1. [Waiting EXCEPT !.step = "logout"] \in RequestRows
  BY Zenon DEF Waiting, RequestRows, RequestSteps, LoginSteps, Inputs
<1>2. /\ [Waiting EXCEPT !.step = "logout"].step = "logout"
      /\ [Waiting EXCEPT !.step = "logout"].pair = 0
      /\ [Waiting EXCEPT !.step = "logout"].session = 0
  BY Zenon DEF Waiting
<1> QED BY <1>1, <1>2, Zenon

\* A logout that arrives keeps the invariant of the sessions.
LEMMA LogoutArrives ==
  ASSUME SessionsInv, KeysTyped', NEW r \in Requests, NEW k \in DOMAIN pairs, AdminLogout(r, k)
  PROVE  SessionsInv'
<1>1. PICK new \in RequestRows : /\ new = [Waiting EXCEPT !.step = "logout"]
                                /\ new.step = "logout" /\ new.pair = 0 /\ new.session = 0
  BY LogoutRow, Zenon
<1>2. LoginRowOK(new)
  BY <1>1, Zenon DEF LoginRowOK, LoginSteps
<1> QED BY <1>1, <1>2, LoginMoves, Zenon DEF AdminLogout

----------------------------------------------------------------------------
(* Administrators: refreshes and pairs *)

\* AdminRefreshToken: the session of the pair is the one that goes on.
LEMMA RefreshStep ==
  ASSUME SessionsInv, KeysTyped', NEW r \in Requests, NEW k \in DOMAIN pairs, AdminRefreshToken(r, k)
  PROVE  SessionsInv'
<1>1. PICK p \in PairRows : p = pairs[k]
  BY DEF SessionsInv, PairsTyped
<1>2. k \in Nat /\ p.session \in Nat
  BY DEF SessionsInv, PairsTyped, PairRows
<1>3. PICK new \in RequestRows :
         /\ new = [Waiting EXCEPT !.step = "consume", !.pair = k, !.session = p.session]
         /\ new.step = "consume" /\ new.pair = k /\ new.session = p.session
  BY <1>2, RefreshRow, Zenon
<1>4. /\ reqs' = [reqs EXCEPT ![r] = new] /\ session # 0 /\ session = pairs[k].session
      /\ UNCHANGED <<pairs, session, ended, met>>
  BY <1>1, <1>3, Zenon DEF AdminRefreshToken, ParseAndVerifyRefresh, Verified
<1>5. RequestOK(new)'
  <2>1. session \in ended => <<"session", session>> \in met
    BY Zenon DEF SessionsInv, EndedStaysEnded
  <2>2. new.step \notin {"idle"} \cup LoginSteps
    BY <1>3, Zenon DEF LoginSteps
  <2>3. /\ new.session = session /\ new.session # 0 /\ new.pair \in DOMAIN pairs'
        /\ new.step # "begin" /\ new.pair # 0
    <3>1. k # 0
      BY DEF SessionsInv, PairsTyped
    <3> QED BY <1>1, <1>3, <1>4, <3>1, Zenon
  <2>4. new.session = pairs'[new.pair].session
    BY <1>1, <1>3, <1>4, Zenon
  <2>5. new.session \in ended' => <<"session", new.session>> \in met'
    BY <1>4, <2>1, <2>3, Zenon
  <2> QED BY <2>2, <2>3, <2>4, <2>5, Zenon DEF RequestOK
<1>6. StillSpending(new, reqs[r])
  BY <1>3, Zenon DEF StillSpending
<1> QED BY <1>3, <1>4, <1>5, <1>6, OneMoves, Zenon

\* A refresh goes on to another step of its own.
LEMMA RefreshMoves ==
  ASSUME SessionsInv, NEW r \in Requests, reqs[r].step \in RefreshSteps,
         NEW s \in {"issue"} \cup RefreshSteps, Move(r, s),
         met \subseteq met', SamePairs, ended' = ended
  PROVE  \E new \in RequestRows : /\ reqs' = [reqs EXCEPT ![r] = new] /\ RequestOK(new)'
                                  /\ Moved(new, reqs[r], s) /\ new.pair \in DOMAIN pairs
<1>1. s \in RequestSteps
  BY Zenon DEF RequestSteps
<1>2. PICK new \in RequestRows : reqs' = [reqs EXCEPT ![r] = new] /\ Moved(new, reqs[r], s)
  BY <1>1, MoveRow, Zenon DEF SessionsInv
<1>3. PICK old \in RequestRows : old = reqs[r]
  BY Zenon DEF SessionsInv, PairsTyped
<1>4. RequestOK(old) /\ old.step \in RefreshSteps
  BY <1>3, Zenon DEF SessionsInv
<1>5. old.session # 0 /\ old.pair # 0 /\ old.pair \in DOMAIN pairs
  BY <1>4, Zenon DEF RequestOK
<1>6. RequestOK(old)'
  BY <1>4, RequestKept, Zenon DEF SamePairs
<1>7. new.session = old.session /\ new.pair = old.pair /\ new.step = s
  BY <1>2, <1>3, Zenon DEF Moved
<1>8. s \notin {"idle", "begin"} \cup LoginSteps
  BY Zenon DEF LoginSteps, RefreshSteps
<1>9. RequestOK(new)'
  BY <1>5, <1>6, <1>7, <1>8, Zenon DEF RequestOK
<1> QED BY <1>2, <1>5, <1>7, <1>9, Zenon

\* FindAdminByID keeps the invariant of the sessions.
LEMMA LoadStep ==
  ASSUME SessionsInv, KeysTyped', NEW r \in Requests, loadAdmin(r)
  PROVE  SessionsInv'
<1>1. reqs[r].step = "load" /\ reqs[r].step \in RefreshSteps /\ Move(r, "issue")
  BY Zenon DEF loadAdmin, At, RefreshSteps
<1>2. UNCHANGED <<session, ended, pairs, met>>
  BY Zenon DEF loadAdmin
<1>3. PICK new \in RequestRows : /\ reqs' = [reqs EXCEPT ![r] = new] /\ RequestOK(new)'
                                /\ Moved(new, reqs[r], "issue") /\ new.pair \in DOMAIN pairs
  BY <1>1, <1>2, SameSame, RefreshMoves, Zenon
<1>4. StillSpending(new, reqs[r])
  BY <1>1, <1>3, Zenon DEF StillSpending, Moved
<1> QED BY <1>2, <1>3, <1>4, OneMoves, Zenon

\* Of the requests other than r, every one stays as it was.
LEMMA OthersStay ==
  ASSUME SessionsInv, NEW r \in Requests, NEW new \in RequestRows, reqs' = [reqs EXCEPT ![r] = new]
  PROVE  /\ reqs' \in [Requests -> RequestRows] /\ reqs'[r] = new
         /\ \A q \in Requests : q # r => reqs'[q] = reqs[q]
BY Zenon DEF SessionsInv, PairsTyped

\* The requests are in order after one of them moved.
LEMMA RequestsKept ==
  ASSUME SessionsInv, NEW r \in Requests, NEW new \in RequestRows, reqs' = [reqs EXCEPT ![r] = new],
         RequestOK(new)', met \subseteq met', DOMAIN pairs \subseteq DOMAIN pairs',
         \A j \in DOMAIN pairs : pairs'[j].session = pairs[j].session,
         \A q \in Requests : reqs[q].session # 0 /\ reqs[q].session \in ended' =>
           reqs[q].session \in ended \/ <<"session", reqs[q].session>> \in met'
  PROVE  \A q \in Requests : RequestOK(reqs[q])'
<1>1. ASSUME NEW q \in Requests PROVE RequestOK(reqs[q])'
  <2>1. CASE q = r
    <3>1. reqs'[q] = new
      BY <2>1, OthersStay, Zenon
    <3> QED BY <3>1, Zenon DEF RequestOK
  <2>2. CASE q # r
    <3>1. PICK row \in RequestRows : row = reqs[q]
      BY Zenon DEF SessionsInv, PairsTyped
    <3>2. reqs'[q] = row
      BY <2>2, <3>1, OthersStay, Zenon
    <3>3. RequestOK(row)'
      <4>1. RequestOK(row)
        BY <3>1, Zenon DEF SessionsInv
      <4> QED BY <3>1, <4>1, RequestKept, Zenon
    <3> QED BY <3>2, <3>3, Zenon DEF RequestOK
  <2> QED BY <2>1, <2>2, Zenon
<1> QED BY <1>1, Zenon

\* ConsumeRefreshToken: two requests that found the same refresh token unused are
\* on record.
LEMMA ConsumeStep ==
  ASSUME SessionsInv, KeysTyped', NEW r \in Requests, ConsumeRefreshToken(r)
  PROVE  SessionsInv'
<1>1. UNCHANGED <<session, ended, pairs>>
  BY Zenon DEF ConsumeRefreshToken
<1>2. CASE Answer(r) /\ met' = met
  BY <1>1, <1>2, LoginGoesOn, Zenon
<1>3. ASSUME pairs[reqs[r].pair].refresh = "OK", Move(r, "mark"),
             met' = met \cup {<<"refresh", reqs[r].pair>> :
                              q \in {q \in Requests \ {r} : At(q, "mark") /\ reqs[q].pair = reqs[r].pair}}
      PROVE  SessionsInv'
  <2>1. reqs[r].step \in RefreshSteps /\ "mark" \in RefreshSteps /\ met \subseteq met'
    BY <1>3, Zenon DEF ConsumeRefreshToken, At, RefreshSteps
  <2>2. PICK new \in RequestRows : /\ reqs' = [reqs EXCEPT ![r] = new] /\ RequestOK(new)'
                                  /\ Moved(new, reqs[r], "mark") /\ new.pair \in DOMAIN pairs
    BY <1>1, <1>3, <2>1, SameSame, RefreshMoves, Zenon
  <2>3. PICK p \in DOMAIN pairs : p = reqs[r].pair /\ new.pair = p /\ new.step = "mark"
    BY <2>2, Zenon DEF Moved
  <2>4. /\ reqs' \in [Requests -> RequestRows] /\ reqs'[r] = new
        /\ \A q \in Requests : q # r => reqs'[q] = reqs[q]
    BY <2>2, OthersStay, Zenon
  <2>5. \A q \in Requests : RequestOK(reqs[q])'
    BY <1>1, <2>1, <2>2, RequestsKept, Zenon
  <2>6. SamePairs /\ \A j \in DOMAIN pairs : pairs'[j].refresh = pairs[j].refresh
    BY <1>1, SameSame, Zenon
  <2>7. ASSUME NEW k \in DOMAIN pairs, <<"refresh", k>> \notin met' PROVE SpentOnce(k)'
    <3>1. SpentOnce(k)
      BY <2>1, <2>7, Zenon DEF SessionsInv
    <3>2. Successors(k)' = Successors(k)
      BY <1>1, Zenon DEF Successors
    <3>3. CASE k = p
      <4>1. pairs[k].refresh = "OK"
        BY <1>3, <2>3, <3>3, Zenon
      <4>2. Successors(k) = {} /\ \A q \in Spending(k) : reqs[q].step = "mark"
        BY <3>1, <4>1, Zenon DEF SpentOnce
      <4>3. \A q \in Spending(k) : q = r
        BY <1>3, <2>3, <2>7, <3>3, <4>2, Zenon DEF Spending, At
      <4>4. \A q \in Spending(k)' : q = r
        BY <2>4, <4>3, Zenon DEF Spending
      <4>5. reqs'[r].step = "mark" /\ pairs'[k].refresh = "OK" /\ Successors(k)' = {}
        BY <1>1, <2>3, <2>4, <3>2, <4>1, <4>2, Zenon
      <4> QED BY <4>4, <4>5, Zenon DEF SpentOnce
    <3>4. CASE k # p
      <4>1. \A q \in Spending(k)' : q \in Spending(k) /\ reqs'[q].step = reqs[q].step
        BY <2>3, <2>4, <3>4, Zenon DEF Spending
      <4> QED BY <1>1, <3>1, <3>2, <4>1, Zenon DEF SpentOnce
    <3> QED BY <3>3, <3>4, Zenon
  <2>8. PairsTyped'
    BY <1>1, <2>4, Zenon DEF SessionsInv, PairsTyped
  <2>9. SessionKnown' /\ \A k \in DOMAIN pairs : PairOK(k)'
    BY <1>1, <2>6, PairsKept, Zenon
  <2>10. EndedStaysEnded'
    BY <1>1, <2>1, Zenon DEF SessionsInv, EndedStaysEnded
  <2> QED BY <1>1, <2>5, <2>7, <2>8, <2>9, <2>10, Zenon DEF SessionsInv
<1> QED BY <1>2, <1>3, Zenon DEF ConsumeRefreshToken

----------------------------------------------------------------------------
(* Administrators: pairs that change *)

\* A pair is rewritten.
LEMMA PairRewritten ==
  ASSUME SessionsInv, NEW k \in DOMAIN pairs, NEW p \in PairRows, pairs' = [pairs EXCEPT ![k] = p],
         p.session = pairs[k].session, p.from = pairs[k].from
  PROVE  SamePairs /\ pairs'[k] = p /\ \A j \in DOMAIN pairs : j # k => pairs'[j] = pairs[j]
<1>1. pairs \in Seq(PairRows)
  BY Zenon DEF SessionsInv, PairsTyped
<1>2. pairs' \in Seq(PairRows) /\ Len(pairs') = Len(pairs) /\ DOMAIN pairs' = DOMAIN pairs
  BY <1>1
<1>3. pairs'[k] = p /\ \A j \in DOMAIN pairs : j # k => pairs'[j] = pairs[j]
  BY <1>1
<1>4. \A j \in DOMAIN pairs :
        pairs'[j].session = pairs[j].session /\ pairs'[j].from = pairs[j].from
  BY <1>3, Zenon
<1> QED BY <1>2, <1>3, <1>4, Zenon DEF SamePairs

\* An access or a refresh token expires.
LEMMA ExpireStep ==
  ASSUME SessionsInv, KeysTyped', NEW k \in DOMAIN pairs, expireAccess(k) \/ expireRefresh(k)
  PROVE  SessionsInv'
<1>1. PICK old \in PairRows : old = pairs[k]
  BY DEF SessionsInv, PairsTyped
<1>2. PICK p \in PairRows : /\ p.session = old.session /\ p.from = old.from /\ p.refresh = old.refresh
                            /\ pairs' = [pairs EXCEPT ![k] = p]
  <2>1. CASE expireAccess(k)
    <3>1. PICK p \in PairRows : p = [old EXCEPT !.access = FALSE]
      BY Zenon DEF PairRows
    <3>2. p.session = old.session /\ p.from = old.from /\ p.refresh = old.refresh
      BY <3>1, Zenon DEF PairRows
    <3>3. pairs' = [pairs EXCEPT ![k] = p]
      BY <1>1, <2>1, <3>1, Zenon DEF expireAccess
    <3> QED BY <3>2, <3>3, Zenon
  <2>2. CASE expireRefresh(k)
    <3>1. PICK p \in PairRows : p = [old EXCEPT !.valid = FALSE]
      BY Zenon DEF PairRows
    <3>2. p.session = old.session /\ p.from = old.from /\ p.refresh = old.refresh
      BY <3>1, Zenon DEF PairRows
    <3>3. pairs' = [pairs EXCEPT ![k] = p]
      BY <1>1, <2>2, <3>1, Zenon DEF expireRefresh
    <3> QED BY <3>2, <3>3, Zenon
  <2> QED BY <2>1, <2>2, Zenon
<1>3. SamePairs /\ pairs'[k] = p /\ \A j \in DOMAIN pairs : j # k => pairs'[j] = pairs[j]
  BY <1>1, <1>2, PairRewritten, Zenon
<1>4. UNCHANGED <<session, ended, met, reqs>>
  BY Zenon DEF expireAccess, expireRefresh
<1>5. \A j \in DOMAIN pairs : pairs'[j].refresh = pairs[j].refresh
  BY <1>1, <1>2, <1>3, Zenon
<1>6. ASSUME NEW q \in Requests PROVE RequestOK(reqs[q])' /\ StillSpending(reqs'[q], reqs[q])
  <2>1. PICK row \in RequestRows : row = reqs[q]
    BY Zenon DEF SessionsInv, PairsTyped
  <2>2. RequestOK(row)
    BY <2>1, Zenon DEF SessionsInv
  <2>3. RequestOK(row)' /\ StillSpending(row, row)
    BY <1>3, <1>4, <2>2, RequestKept, Zenon DEF SamePairs, StillSpending
  <2> QED BY <1>4, <2>1, <2>3, Zenon DEF RequestOK
<1>7. reqs' \in [Requests -> RequestRows]
  BY <1>4, Zenon DEF SessionsInv, PairsTyped
<1> QED BY <1>3, <1>4, <1>5, <1>6, <1>7, SessionsKept, Zenon

\* ConsumeRefreshToken, the write: the token is spent.
LEMMA MarkStep ==
  ASSUME SessionsInv, KeysTyped', NEW r \in Requests, markUsed(r)
  PROVE  SessionsInv'
<1>1. /\ reqs[r].step = "mark" /\ reqs[r].step \in RefreshSteps /\ "load" \in RefreshSteps
      /\ Move(r, "load") /\ UNCHANGED <<session, ended, met>>
  BY Zenon DEF markUsed, At, RefreshSteps
<1>2. PICK k \in DOMAIN pairs : k = reqs[r].pair
  BY <1>1, Zenon DEF SessionsInv, RequestOK
<1>3. PICK old \in PairRows : old = pairs[k]
  BY DEF SessionsInv, PairsTyped
<1>4. PICK p \in PairRows : p = [old EXCEPT !.refresh = "USED"]
  BY Zenon DEF PairRows
<1>5. p.session = old.session /\ p.from = old.from /\ p.refresh = "USED"
  BY <1>4, Zenon DEF PairRows
<1>6. pairs' = [pairs EXCEPT ![k] = p]
  BY <1>2, <1>3, <1>4, Zenon DEF markUsed
<1>7. SamePairs /\ pairs'[k] = p /\ \A j \in DOMAIN pairs : j # k => pairs'[j] = pairs[j]
  BY <1>3, <1>5, <1>6, PairRewritten, Zenon
<1>8. PICK new \in RequestRows : /\ reqs' = [reqs EXCEPT ![r] = new] /\ RequestOK(new)'
                                /\ Moved(new, reqs[r], "load") /\ new.pair \in DOMAIN pairs
  BY <1>1, <1>7, RefreshMoves, Zenon
<1>9. /\ reqs' \in [Requests -> RequestRows] /\ reqs'[r] = new
      /\ \A q \in Requests : q # r => reqs'[q] = reqs[q]
  BY <1>8, OthersStay, Zenon
<1>10. \A q \in Requests : RequestOK(reqs[q])'
  BY <1>1, <1>7, <1>8, RequestsKept, Zenon DEF SamePairs
<1>11. new.pair = k /\ new.step = "load"
  BY <1>2, <1>8, Zenon DEF Moved
<1>12. ASSUME NEW j \in DOMAIN pairs, <<"refresh", j>> \notin met' PROVE SpentOnce(j)'
  <2>1. SpentOnce(j)
    BY <1>1, <1>12, Zenon DEF SessionsInv
  <2>2. \A i : i \in Successors(j)' <=> i \in Successors(j)
    BY <1>7, Zenon DEF Successors, SamePairs
  <2>3. CASE j = k
    <3>1. r \in Spending(k)
      BY <1>1, <1>2, Zenon DEF Spending
    <3>2. Successors(k) = {} /\ \A q \in Spending(k) : q = r
      BY <2>1, <2>3, <3>1, Zenon DEF SpentOnce
    <3>3. \A q \in Spending(k)' : q = r
      BY <1>9, <3>2, Zenon DEF Spending
    <3>4. reqs'[r].step = "load" /\ pairs'[k].refresh = "USED" /\ \A i : i \notin Successors(k)'
      BY <1>5, <1>7, <1>9, <1>11, <2>2, <2>3, <3>2, Zenon
    <3> QED BY <2>3, <3>3, <3>4, Zenon DEF SpentOnce
  <2>4. CASE j # k
    <3>1. \A q \in Spending(j)' : q \in Spending(j) /\ reqs'[q].step = reqs[q].step
      BY <1>9, <1>11, <2>4, Zenon DEF Spending
    <3>2. pairs'[j].refresh = pairs[j].refresh
      BY <1>7, <2>4, Zenon
    <3> QED BY <2>1, <2>2, <3>1, <3>2, Zenon DEF SpentOnce
  <2> QED BY <2>3, <2>4, Zenon
<1>13. PairsTyped'
  BY <1>1, <1>7, <1>9, Zenon DEF SessionsInv, PairsTyped, SamePairs
<1>14. SessionKnown' /\ \A j \in DOMAIN pairs : PairOK(j)'
  BY <1>1, <1>7, PairsKept, Zenon
<1>15. EndedStaysEnded' /\ DOMAIN pairs' = DOMAIN pairs
  BY <1>1, <1>7, Zenon DEF SessionsInv, EndedStaysEnded, SamePairs
<1> QED BY <1>10, <1>12, <1>13, <1>14, <1>15, Zenon DEF SessionsInv

----------------------------------------------------------------------------
(* Administrators: sessions that end, and the theorem *)

\* A refresh that was let in before its session ended is on record.
LEMMA EndedOnRecord ==
  ASSUME SessionsInv, End(session)
  PROVE  /\ met \subseteq met' /\ ended' \subseteq 1 .. Len(pairs)
         /\ \A q \in Requests : reqs[q].session # 0 /\ reqs[q].session \in ended' =>
              reqs[q].session \in ended \/ <<"session", reqs[q].session>> \in met'
<1>1. met \subseteq met' /\ ended' = ended \cup ({session} \ {0})
  BY Zenon DEF End
<1>2. ended' \subseteq 1 .. Len(pairs)
  <2>1. session = 0 \/ session \in 1 .. Len(pairs)
    BY DEF SessionsInv, PairsTyped
  <2> QED BY <1>1, <2>1, Zenon DEF SessionsInv, PairsTyped
<1>3. ASSUME NEW q \in Requests, reqs[q].session # 0, reqs[q].session \in ended', reqs[q].session \notin ended
      PROVE  <<"session", reqs[q].session>> \in met'
  <2>1. reqs[q].session = session
    BY <1>1, <1>3, Zenon
  <2>2. reqs[q] \in RequestRows /\ RequestOK(reqs[q])
    BY Zenon DEF SessionsInv, PairsTyped
  <2>3. reqs[q].step \in {"consume", "mark", "load", "issue", "begin"}
    <3>1. reqs[q].step \in RequestSteps /\ reqs[q].step \notin {"idle"} \cup LoginSteps
      BY <1>3, <2>2, Zenon DEF RequestRows, RequestOK
    <3> QED BY <3>1, Zenon DEF RequestSteps, RefreshSteps
  <2>4. q \in refreshing(session)
    BY <1>3, <2>1, <2>3, Zenon DEF refreshing
  <2> QED BY <2>1, <2>4, Zenon DEF End
<1> QED BY <1>1, <1>2, <1>3, Zenon

\* A request is answered after it wrote or deleted the session key.
LEMMA SessionChanges ==
  ASSUME SessionsInv, KeysTyped', NEW r \in Requests, Answer(r), UNCHANGED pairs,
         End(session) \/ UNCHANGED <<ended, met>>,
         session' \in 0 .. Len(pairs), SessionKnown', EndedStaysEnded'
  PROVE  SessionsInv'
<1>1. PICK new \in RequestRows : reqs' = [reqs EXCEPT ![r] = new] /\ Gone(new)
  BY AnswerRow, Zenon
<1>2. /\ met \subseteq met' /\ ended' \subseteq 1 .. Len(pairs)
      /\ \A q \in Requests : reqs[q].session # 0 /\ reqs[q].session \in ended' =>
           reqs[q].session \in ended \/ <<"session", reqs[q].session>> \in met'
  BY EndedOnRecord, Zenon DEF SessionsInv, PairsTyped
<1>3. RequestOK(new)'
  BY <1>1, Zenon DEF RequestOK, Gone, RefreshSteps
<1>4. \A q \in Requests : RequestOK(reqs[q])'
  BY <1>1, <1>2, <1>3, RequestsKept, Zenon
<1>5. /\ reqs' \in [Requests -> RequestRows] /\ reqs'[r] = new
      /\ \A q \in Requests : q # r => reqs'[q] = reqs[q]
  BY <1>1, OthersStay, Zenon
<1>6. ASSUME NEW q \in Requests PROVE StillSpending(reqs'[q], reqs[q])
  BY <1>1, <1>5, Zenon DEF StillSpending, Gone
<1>7. SamePairs /\ \A j \in DOMAIN pairs : pairs'[j].refresh = pairs[j].refresh
  BY SameSame, Zenon
<1>8. ASSUME NEW j \in DOMAIN pairs, <<"refresh", j>> \notin met' PROVE SpentOnce(j)'
  <2>1. SpentOnce(j)
    BY <1>2, <1>8, Zenon DEF SessionsInv
  <2>2. j # 0
    BY DEF SessionsInv, PairsTyped
  <2> QED BY <1>6, <1>7, <2>1, <2>2, SpentKept, Zenon
<1>9. \A j \in DOMAIN pairs : PairOK(j)'
  BY <1>7, PairsKept, Zenon
<1>10. PairsTyped'
  BY <1>2, <1>5, Zenon DEF SessionsInv, PairsTyped
<1> QED BY <1>4, <1>8, <1>9, <1>10, Zenon DEF SessionsInv

\* Logout deletes the session key.
LEMMA LogoutStep ==
  ASSUME SessionsInv, KeysTyped', NEW r \in Requests, Logout(r)
  PROVE  SessionsInv'
<1>1. End(session) /\ session' = 0 /\ Answer(r) /\ UNCHANGED pairs
  BY Zenon DEF Logout
<1>2. ended' \subseteq 1 .. Len(pairs)
  BY <1>1, EndedOnRecord, Zenon
<1>3. 0 \in 0 .. Len(pairs) /\ 0 \notin 1 .. Len(pairs)
  BY DEF SessionsInv, PairsTyped
<1>4. SessionKnown' /\ EndedStaysEnded'
  BY <1>1, <1>2, <1>3, Zenon DEF SessionKnown, EndedStaysEnded
<1> QED BY <1>1, <1>3, <1>4, SessionChanges, Zenon

\* GenerateAdminPair, the last write: the session is that of a pair, and one that
\* had ended is on record.
LEMMA BeginStep ==
  ASSUME SessionsInv, KeysTyped', NEW r \in Requests, beginSession(r)
  PROVE  SessionsInv'
<1>1. PICK row \in RequestRows : row = reqs[r] /\ row.step = "begin" /\ RequestOK(row)
  BY Zenon DEF SessionsInv, PairsTyped, beginSession, At
<1>2. /\ session' = row.session /\ Answer(r) /\ UNCHANGED pairs
      /\ IF session # row.session THEN End(session) ELSE UNCHANGED <<ended, met>>
  BY <1>1, Zenon DEF beginSession
<1>3. PICK k \in DOMAIN pairs : row.session = pairs[k].session
  BY <1>1, Zenon DEF RequestOK
<1>4. row.session \in 0 .. Len(pairs)
  <2>1. row.session \in 1 .. Len(pairs)
    BY <1>3, Zenon DEF SessionsInv, PairOK
  <2> QED BY <2>1
<1>5. SessionKnown'
  BY <1>2, <1>3, Zenon DEF SessionKnown
<1>6. row.session # 0 /\ (row.session \in ended => <<"session", row.session>> \in met)
  BY <1>1, Zenon DEF RequestOK
<1>7. EndedStaysEnded'
  <2>1. CASE session # row.session
    <3>1. ended' = ended \cup ({session} \ {0}) /\ met \subseteq met'
      BY <1>2, <2>1, Zenon DEF End
    <3>2. row.session \in ended' => row.session \in ended
      BY <2>1, <3>1, Zenon
    <3> QED BY <1>2, <1>6, <3>1, <3>2, Zenon DEF EndedStaysEnded
  <2>2. CASE session = row.session
    BY <1>2, <1>6, <2>2, Zenon DEF EndedStaysEnded
  <2> QED BY <2>1, <2>2, Zenon
<1> QED BY <1>2, <1>4, <1>5, <1>7, SessionChanges, Zenon

\* A pair is handed out after the others.
LEMMA PairAppended ==
  ASSUME NEW p \in PairRows, pairs \in Seq(PairRows), pairs' = Append(pairs, p)
  PROVE  /\ pairs' \in Seq(PairRows) /\ Len(pairs) \in Nat /\ Len(pairs') = Len(pairs) + 1
         /\ Len(pairs) + 1 \notin DOMAIN pairs /\ DOMAIN pairs' = DOMAIN pairs \cup {Len(pairs) + 1}
         /\ pairs'[Len(pairs) + 1] = p
         /\ \A j \in DOMAIN pairs : pairs'[j] = pairs[j]
OBVIOUS

\* The row of a new pair.
NewPair(s, k) == [session |-> s, from |-> k, access |-> TRUE, refresh |-> "OK", valid |-> TRUE]

\* A new pair of session s, issued for pair k: its refresh token is good.
PairOf(p, s, k) ==
  p = NewPair(s, k) /\ p.session = s /\ p.from = k /\ p.refresh = "OK"

\* Such a pair is a row of the table.
LEMMA NewPairRow ==
  ASSUME NEW s \in Nat \ {0}, NEW k \in Nat
  PROVE  \E p \in PairRows : PairOf(p, s, k)
<1>1. NewPair(s, k) \in PairRows
  BY DEF NewPair, PairRows
<1>2. NewPair(s, k).session = s /\ NewPair(s, k).from = k /\ NewPair(s, k).refresh = "OK"
  BY DEF NewPair
<1> QED BY <1>1, <1>2, Zenon DEF PairOf

\* The request is about to write the session of the pair.
LEMMA BeginRow ==
  ASSUME NEW s \in Nat
  PROVE  \E new \in RequestRows : /\ new = [Waiting EXCEPT !.step = "begin", !.session = s]
                                  /\ new.step = "begin" /\ new.pair = 0 /\ new.session = s
<1>1. [Waiting EXCEPT !.step = "begin", !.session = s] \in RequestRows
  BY Zenon DEF Waiting, RequestRows, RequestSteps, Inputs
<1>2. /\ [Waiting EXCEPT !.step = "begin", !.session = s].step = "begin"
      /\ [Waiting EXCEPT !.step = "begin", !.session = s].pair = 0
      /\ [Waiting EXCEPT !.step = "begin", !.session = s].session = s
  BY Zenon DEF Waiting
<1> QED BY <1>1, <1>2, Zenon

\* GenerateAdminPair: a session that begins has a number of its own, and one that
\* goes on is that of the pair that was refreshed.
LEMMA GenerateStep ==
  ASSUME SessionsInv, KeysTyped', NEW r \in Requests, GenerateAdminPair(r)
  PROVE  SessionsInv'
<1>1. PICK row \in RequestRows : row = reqs[r] /\ row.step = "issue" /\ RequestOK(row)
  BY Zenon DEF SessionsInv, PairsTyped, GenerateAdminPair, At
<1>2. PICK n \in Nat : n = Len(pairs) + 1
  BY DEF SessionsInv, PairsTyped
<1>3. PICK s : s = IF row.session = 0 THEN n ELSE row.session
  BY Zenon
<1>4. /\ pairs' = Append(pairs, NewPair(s, row.pair)) /\ UNCHANGED <<session, ended, met>>
      /\ reqs' = [reqs EXCEPT ![r] = [Waiting EXCEPT !.step = "begin", !.session = s]]
  BY <1>1, <1>2, <1>3, Zenon DEF GenerateAdminPair, NewPair
<1>5. s \in Nat \ {0} /\ row.pair \in Nat
  <2>1. row.session \in Nat /\ row.pair \in Nat
    BY Zenon DEF RequestRows
  <2>2. n \in Nat \ {0}
    BY <1>2 DEF SessionsInv, PairsTyped
  <2> QED BY <1>3, <2>1, <2>2, Zenon
<1>6. PICK p \in PairRows : /\ p = NewPair(s, row.pair)
                           /\ p.session = s /\ p.from = row.pair /\ p.refresh = "OK"
  <2>1. PICK k \in Nat : k = row.pair
    BY <1>5, Zenon
  <2>2. s \in Nat \ {0}
    BY <1>5, Zenon
  <2>3. PICK p \in PairRows : PairOf(p, s, k)
    BY <2>2, NewPairRow, Zenon
  <2> QED BY <2>1, <2>3, Zenon DEF PairOf
<1>7. /\ pairs' \in Seq(PairRows) /\ Len(pairs') = n
      /\ n \notin DOMAIN pairs /\ DOMAIN pairs' = DOMAIN pairs \cup {n} /\ pairs'[n] = p
      /\ \A j \in DOMAIN pairs : pairs'[j] = pairs[j]
  BY <1>2, <1>4, <1>6, PairAppended, Zenon DEF SessionsInv, PairsTyped
<1>8. PICK new \in RequestRows : /\ reqs' = [reqs EXCEPT ![r] = new]
                                /\ new.step = "begin" /\ new.pair = 0 /\ new.session = s
  <2>1. s \in Nat
    BY <1>5, Zenon
  <2>2. PICK new \in RequestRows : /\ new = [Waiting EXCEPT !.step = "begin", !.session = s]
                                  /\ new.step = "begin" /\ new.pair = 0 /\ new.session = s
    BY <2>1, BeginRow, Zenon
  <2> QED BY <1>4, <2>2, Zenon
<1>9. RequestOK(new)'
  <2>1. s \in ended' => <<"session", s>> \in met'
    <3>1. CASE row.session = 0
      <4>1. n \notin 1 .. Len(pairs)
        BY <1>2 DEF SessionsInv, PairsTyped
      <4> QED BY <1>3, <1>4, <3>1, <4>1, Zenon DEF SessionsInv, PairsTyped
    <3>2. CASE row.session # 0
      BY <1>1, <1>3, <1>4, <3>2, Zenon DEF RequestOK
    <3> QED BY <3>1, <3>2, Zenon
  <2>2. n \in DOMAIN pairs' /\ s = pairs'[n].session
    BY <1>6, <1>7, Zenon
  <2>3. "begin" \notin {"idle"} \cup LoginSteps /\ "begin" \notin RefreshSteps
    BY Zenon DEF LoginSteps, RefreshSteps
  <2>4. s # 0
    BY <1>5, Zenon
  <2> QED BY <1>8, <2>1, <2>2, <2>3, <2>4, Zenon DEF RequestOK
<1>10. met \subseteq met' /\ ended' \subseteq 1 .. Len(pairs)
  BY <1>4, Zenon DEF SessionsInv, PairsTyped
<1>11. \A q \in Requests : RequestOK(reqs[q])'
  <2>1. \A q \in Requests : reqs[q].session \in ended' => reqs[q].session \in ended
    BY <1>4, Zenon
  <2>2. DOMAIN pairs \subseteq DOMAIN pairs' /\ \A j \in DOMAIN pairs : pairs'[j].session = pairs[j].session
    BY <1>7, Zenon
  <2> QED BY <1>8, <1>9, <1>10, <2>1, <2>2, RequestsKept, Zenon
<1>12. /\ reqs' \in [Requests -> RequestRows] /\ reqs'[r] = new
       /\ \A q \in Requests : q # r => reqs'[q] = reqs[q]
  BY <1>8, OthersStay, Zenon
<1>13. s \in 1 .. n /\ \A i \in 1 .. Len(pairs) : i \in 1 .. n
  <2>1. Len(pairs) \in Nat
    BY DEF SessionsInv, PairsTyped
  <2>2. n \in 1 .. n /\ \A i \in 1 .. Len(pairs) : i \in 1 .. n
    BY <1>2, <2>1
  <2>3. row.session # 0 => row.session \in 1 .. Len(pairs)
    BY <1>1, Zenon DEF RequestOK, SessionsInv, PairOK
  <2> QED BY <1>3, <2>2, <2>3, Zenon
<1>14. PairsTyped'
  <2>1. session \in 0 .. n
    BY <1>2 DEF SessionsInv, PairsTyped
  <2> QED BY <1>4, <1>7, <1>10, <1>12, <1>13, <2>1, Zenon DEF PairsTyped
<1>15. SessionKnown'
  BY <1>4, <1>7, Zenon DEF SessionsInv, SessionKnown
<1>16. EndedStaysEnded'
  BY <1>4, Zenon DEF SessionsInv, EndedStaysEnded
<1>17. row.pair # 0 => row.pair \in DOMAIN pairs /\ pairs[row.pair].session = s
  BY <1>1, <1>3, Zenon DEF RequestOK
<1>18. ASSUME NEW j \in DOMAIN pairs' PROVE PairOK(j)'
  <2>1. CASE j = n
    <3>1. p.from # 0 => p.from \in DOMAIN pairs' /\ pairs'[p.from].session = s
      BY <1>6, <1>7, <1>17, Zenon
    <3> QED BY <1>6, <1>7, <1>13, <2>1, <3>1, Zenon DEF PairOK
  <2>2. CASE j \in DOMAIN pairs
    <3>1. PairOK(j)
      BY <2>2, Zenon DEF SessionsInv
    <3>2. pairs'[j] = pairs[j] /\ pairs[j].session \in 1 .. n
      BY <1>7, <1>13, <2>2, <3>1, Zenon DEF PairOK
    <3>3. pairs[j].from # 0 => /\ pairs[j].from \in DOMAIN pairs'
                               /\ pairs[j].session = pairs'[pairs[j].from].session
      BY <1>7, <3>1, Zenon DEF PairOK
    <3> QED BY <1>7, <3>2, <3>3, Zenon DEF PairOK
  <2> QED BY <1>7, <2>1, <2>2, Zenon
<1>19. ASSUME NEW j \in DOMAIN pairs', <<"refresh", j>> \notin met' PROVE SpentOnce(j)'
  <2>1. j # 0
    BY <1>14 DEF PairsTyped
  <2>2. \A q \in Spending(j)' : q # r /\ q \in Spending(j) /\ reqs'[q].step = reqs[q].step
    BY <1>8, <1>12, <2>1, Zenon DEF Spending
  <2>3. CASE j = n
    <3>1. \A q \in Spending(j)' : FALSE
      <4>1. ASSUME NEW q \in Spending(j)' PROVE FALSE
        <5>1. q \in Requests /\ reqs[q].pair = n
          BY <2>2, <2>3, <4>1, Zenon DEF Spending
        <5>2. RequestOK(reqs[q])
          BY <5>1, Zenon DEF SessionsInv
        <5> QED BY <1>7, <2>1, <2>3, <5>1, <5>2, Zenon DEF RequestOK
      <4> QED BY <4>1, Zenon
    <3>2. \A i \in Successors(j)' : FALSE
      <4>1. ASSUME NEW i \in Successors(j)' PROVE FALSE
        <5>1. i \in DOMAIN pairs' /\ pairs'[i].from = n
          BY <2>3, <4>1, Zenon DEF Successors
        <5>2. CASE i = n
          BY <1>6, <1>7, <1>17, <2>1, <2>3, <5>1, <5>2, Zenon
        <5>3. CASE i \in DOMAIN pairs
          <6>1. PairOK(i)
            BY <5>3, Zenon DEF SessionsInv
          <6> QED BY <1>7, <2>1, <2>3, <5>1, <5>3, <6>1, Zenon DEF PairOK
        <5>4. i = n \/ i \in DOMAIN pairs
          <6>1. DOMAIN pairs' = DOMAIN pairs \cup {n} /\ i \in DOMAIN pairs'
            BY <1>7, <5>1, Zenon
          <6> QED BY <6>1, Zenon
        <5> QED BY <5>2, <5>3, <5>4, Zenon
      <4> QED BY <4>1, Zenon
    <3> QED BY <3>1, <3>2, Zenon DEF SpentOnce
  <2>4. CASE j \in DOMAIN pairs
    <3>1. SpentOnce(j) /\ pairs'[j] = pairs[j]
      BY <1>7, <1>10, <1>19, <2>4, Zenon DEF SessionsInv
    <3>2. CASE row.pair = j
      <4>1. r \in Spending(j)
        BY <1>1, <3>2, Zenon DEF Spending
      <4>2. Successors(j) = {} /\ (\A q \in Spending(j) : q = r) /\ pairs[j].refresh # "OK"
        BY <1>1, <3>1, <4>1, Zenon DEF SpentOnce
      <4>3. \A q \in Spending(j)' : FALSE
        BY <2>2, <4>2, Zenon
      <4>4. \A i \in Successors(j)' : i = n
        BY <1>7, <4>2, Zenon DEF Successors
      <4> QED BY <3>1, <4>2, <4>3, <4>4, Zenon DEF SpentOnce
    <3>3. CASE row.pair # j
      <4>1. \A i : i \in Successors(j)' <=> i \in Successors(j)
        BY <1>6, <1>7, <3>3, Zenon DEF Successors
      <4> QED BY <2>2, <3>1, <4>1, Zenon DEF SpentOnce
    <3> QED BY <3>2, <3>3, Zenon
  <2> QED BY <1>7, <2>3, <2>4, Zenon
<1> QED BY <1>11, <1>14, <1>15, <1>16, <1>18, <1>19, Zenon DEF SessionsInv

\* Every step keeps the invariant of the sessions.
LEMMA SessionsStep ==
  ASSUME SessionsInv, [AdminNext]_adminVars
  PROVE  SessionsInv'
<1>0. KeysTyped'
  BY KeysStep, Zenon DEF SessionsInv
<1>1. ASSUME NEW r \in Requests, LoggingIn(r) PROVE SessionsInv'
  BY <1>0, <1>1, ArriveStep, LoginStep, GenerateStep, BeginStep, Zenon DEF LoggingIn
<1>2. ASSUME NEW r \in Requests, RefreshingAdmin(r) PROVE SessionsInv'
  BY <1>0, <1>2, RefreshStep, ConsumeStep, MarkStep, LoadStep, LogoutArrives, LogoutStep,
     Zenon DEF RefreshingAdmin
<1>3. ASSUME NEW k \in DOMAIN pairs, expireAccess(k) \/ expireRefresh(k) PROVE SessionsInv'
  BY <1>0, <1>3, ExpireStep, Zenon
<1>4. CASE UNCHANGED <<session, pairs, reqs, ended, met>>
  <2>1. /\ SamePairs /\ \A j \in DOMAIN pairs : pairs'[j].refresh = pairs[j].refresh
    BY <1>4, SameSame, Zenon
  <2>2. \A q \in Requests : RequestOK(reqs[q])' /\ StillSpending(reqs'[q], reqs[q])
    BY <1>4, Zenon DEF SessionsInv, RequestOK, StillSpending
  <2>3. reqs' \in [Requests -> RequestRows]
    BY <1>4, Zenon DEF SessionsInv, PairsTyped
  <2> QED BY <1>0, <1>4, <2>1, <2>2, <2>3, SessionsKept, Zenon
<1>5. CASE expireCounter \/ expireLock \/ UNCHANGED adminVars
  BY <1>4, <1>5, Zenon DEF expireCounter, expireLock, adminVars
<1> QED BY <1>1, <1>2, <1>3, <1>5, Zenon DEF AdminNext

\* Nobody is logged in at first.
LEMMA SessionsStart == AdminInit => SessionsInv
<1> SUFFICES ASSUME AdminInit PROVE SessionsInv
  BY Zenon
<1>1. KeysTyped
  <2>1. 0 \in Nat
    OBVIOUS
  <2> QED BY <2>1, Zenon DEF AdminInit, KeysTyped
<1>2. Waiting \in RequestRows /\ Gone(Waiting)
  BY DEF Waiting, RequestRows, RequestSteps, Inputs, Gone
<1>3. pairs = <<>> /\ DOMAIN pairs = {} /\ session = 0 /\ ended = {}
  BY DEF AdminInit
<1>4. PairsTyped
  <2>1. reqs \in [Requests -> RequestRows]
    BY <1>2, Zenon DEF AdminInit
  <2> QED BY <1>3, <2>1 DEF PairsTyped
<1>5. ASSUME NEW r \in Requests PROVE RequestOK(reqs[r])
  <2>1. Gone(reqs[r])
    BY <1>2, Zenon DEF AdminInit
  <2> QED BY <2>1, Zenon DEF Gone, RequestOK, RefreshSteps
<1> QED BY <1>1, <1>3, <1>4, <1>5, Zenon DEF SessionsInv, SessionKnown, EndedStaysEnded

\* What the invariant says of the sessions.
LEMMA SessionsInvHolds == SessionsInv => SessionsEnd
<1> SUFFICES ASSUME SessionsInv PROVE SessionsEnd
  BY Zenon
<1>1. AdminTypeOK
  <2>1. session \in {0} \cup {pairs[k].session : k \in DOMAIN pairs}
    BY Zenon DEF SessionsInv, SessionKnown
  <2>2. \A k \in DOMAIN pairs : pairs[k].from # 0 => pairs[k].session = pairs[pairs[k].from].session
    BY Zenon DEF SessionsInv, PairOK
  <2>3. KeysTyped
    BY Zenon DEF SessionsInv
  <2> QED BY <2>1, <2>2, <2>3, Zenon DEF AdminTypeOK, KeysTyped
<1>2. ASSUME NEW k \in DOMAIN pairs, <<"refresh", k>> \notin met
      PROVE  Cardinality({j \in DOMAIN pairs : pairs[j].from = k}) <= 1
  <2>1. \A i, j \in Successors(k) : i = j
    BY <1>2, Zenon DEF SessionsInv, SpentOnce
  <2>2. CASE Successors(k) = {}
    <3>1. Cardinality(Successors(k)) = 0
      BY <2>2, FS_EmptySet, Zenon
    <3> QED BY <3>1 DEF Successors
  <2>3. ASSUME NEW i \in Successors(k)
        PROVE  Cardinality({j \in DOMAIN pairs : pairs[j].from = k}) <= 1
    <3>1. Successors(k) = {i}
      BY <2>1, <2>3, Zenon
    <3>2. Cardinality(Successors(k)) = 1
      BY <3>1, FS_Singleton, Zenon
    <3> QED BY <3>2 DEF Successors
  <2> QED BY <2>2, <2>3, Zenon
<1>3. AdminRefreshedOnce
  BY <1>2, Zenon DEF AdminRefreshedOnce
<1> QED BY <1>1, <1>3, Zenon DEF SessionsInv, SessionsEnd

\* However logins, refreshes and logouts of an administrator (internal/user,
\* internal/platform/adminjwt) interleave and whatever command fails, a session that
\* ended does not come back and a refresh token gives one pair, unless a refresh had
\* been let in before, or two had read the status of the token.
THEOREM AdminSessionsEnd == AdminSpec => []SessionsEnd
<1>1. AdminSpec => []SessionsInv
  BY SessionsStart, SessionsStep, PTL DEF AdminSpec
<1> QED BY <1>1, SessionsInvHolds, PTL

----------------------------------------------------------------------------
(* Administrators: failed logins *)

\* A row of Pending.
Pends(row) == row.step \in {"fail", "lock"} \/ (MaxFails = 1 /\ row.step = "expire")

\* Sets of requests are finite.
LEMMA RequestsCounted ==
  /\ Cardinality(Requests) \in Nat
  /\ \A S \in SUBSET Requests :
       IsFiniteSet(S) /\ Cardinality(S) \in Nat /\ Cardinality(S) <= Cardinality(Requests)
<1>1. IsFiniteSet(Requests)
  BY AdminAssumption, Zenon
<1>2. Cardinality(Requests) \in Nat
  BY <1>1, FS_CardinalityType, Zenon
<1>3. ASSUME NEW S \in SUBSET Requests
      PROVE  IsFiniteSet(S) /\ Cardinality(S) \in Nat /\ Cardinality(S) <= Cardinality(Requests)
  <2>1. IsFiniteSet(S) /\ Cardinality(S) <= Cardinality(Requests)
    BY <1>1, FS_Subset, Zenon
  <2> QED BY <2>1, FS_CardinalityType, Zenon
<1> QED BY <1>2, <1>3, Zenon

\* A larger set of requests has more.
LEMMA RequestsSubset ==
  ASSUME NEW T \in SUBSET Requests, NEW S \in SUBSET T
  PROVE  Cardinality(S) <= Cardinality(T)
<1>1. IsFiniteSet(T)
  BY RequestsCounted, Zenon
<1> QED BY <1>1, FS_Subset, Zenon

\* One request joins, or one leaves.
LEMMA RequestJoins ==
  ASSUME NEW S \in SUBSET Requests, NEW r \in Requests \ S
  PROVE  Cardinality(S \cup {r}) = Cardinality(S) + 1
<1>1. IsFiniteSet(S) /\ r \notin S
  BY RequestsCounted, Zenon
<1> QED BY <1>1, FS_AddElement

\* What a request that has left leaves behind.
LEMMA RequestLeaves ==
  ASSUME NEW S \in SUBSET Requests, NEW r \in S
  PROVE  Cardinality(S \ {r}) = Cardinality(S) - 1
<1>1. IsFiniteSet(S)
  BY RequestsCounted, Zenon
<1> QED BY <1>1, FS_RemoveElement

\* The numbers of a state, and those of the next one.
LEMMA LoginNumbers ==
  ASSUME KeysTyped
  PROVE  /\ MaxFails \in Nat /\ MaxFails >= 1 /\ fails \in Nat /\ guesses \in Nat /\ broken \in Nat
         /\ Checking \in SUBSET Requests /\ Pending \in SUBSET Requests
         /\ Cardinality(Requests) \in Nat /\ Cardinality(Checking) \in Nat /\ Cardinality(Pending) \in Nat
         /\ Cardinality(Checking) + Cardinality(Pending) <= Cardinality(Requests)
         /\ Counted \in Nat /\ Counted <= MaxFails - 1
<1>1. MaxFails \in Nat /\ MaxFails >= 1 /\ fails \in Nat /\ guesses \in Nat /\ broken \in Nat
  BY AdminAssumption DEF KeysTyped
<1>2. Checking \in SUBSET Requests /\ Pending \in SUBSET Requests
  BY Zenon DEF Checking, Pending
<1>3. Checking \cup Pending \in SUBSET Requests /\ Checking \cap Pending = {}
  BY Zenon DEF Checking, Pending
<1>4. /\ Cardinality(Requests) \in Nat /\ Cardinality(Checking) \in Nat /\ Cardinality(Pending) \in Nat
      /\ Cardinality(Checking \cup Pending) <= Cardinality(Requests)
      /\ IsFiniteSet(Checking) /\ IsFiniteSet(Pending)
  BY <1>2, <1>3, RequestsCounted, Zenon
<1>5. Cardinality(Checking) + Cardinality(Pending) = Cardinality(Checking \cup Pending)
  <2>1. Cardinality(Checking \cap Pending) = 0
    BY <1>3, FS_EmptySet, Zenon
  <2>2. Cardinality(Checking \cup Pending) =
          Cardinality(Checking) + Cardinality(Pending) - Cardinality(Checking \cap Pending)
    BY <1>4, FS_Union, Zenon
  <2> QED BY <1>4, <2>1, <2>2
<1>6. Counted \in Nat /\ Counted <= MaxFails - 1
  BY <1>1 DEF Counted
<1> QED BY <1>1, <1>2, <1>4, <1>5, <1>6, Zenon

\* The numbers of the next state.
LEMMA NextNumbers ==
  ASSUME KeysTyped'
  PROVE  /\ fails' \in Nat /\ guesses' \in Nat /\ broken' \in Nat
         /\ Checking' \in SUBSET Requests /\ Pending' \in SUBSET Requests
         /\ Cardinality(Checking') \in Nat /\ Cardinality(Pending') \in Nat
         /\ Cardinality(Checking') <= Cardinality(Requests)
         /\ Counted' \in Nat
<1>1. fails' \in Nat /\ guesses' \in Nat /\ broken' \in Nat
  BY Zenon DEF KeysTyped
<1>2. Checking' \in SUBSET Requests /\ Pending' \in SUBSET Requests
  BY Zenon DEF Checking, Pending
<1>3. Counted' \in Nat
  BY <1>1, AdminAssumption DEF Counted
<1> QED BY <1>1, <1>2, <1>3, RequestsCounted, Zenon

\* Failures that were forgotten count nothing.
LEMMA GuessesForgotten ==
  ASSUME KeysTyped, KeysTyped', guesses' = 0
  PROVE  GuessesCounted'
<1>1. MaxFails \in Nat /\ MaxFails >= 1 /\ Cardinality(Requests) \in Nat
  BY LoginNumbers, Zenon
<1>2. /\ broken' \in Nat /\ Cardinality(Checking') \in Nat /\ Cardinality(Pending') \in Nat
      /\ Cardinality(Checking') <= Cardinality(Requests) /\ Counted' \in Nat
  BY NextNumbers, Zenon
<1>3. /\ guesses' <= Counted' + Cardinality(Pending') + broken'
      /\ guesses' + Cardinality(Checking') <= MaxFails - 1 + Cardinality(Requests) + broken'
  BY <1>1, <1>2
<1> QED BY <1>3, Zenon DEF GuessesCounted

\* A counter that grows counts at least as much.
LEMMA CountedGrows ==
  ASSUME KeysTyped, KeysTyped', fails' >= fails
  PROVE  Counted' >= Counted
BY AdminAssumption DEF Counted, KeysTyped

\* What was counted stays in bounds while nobody arrives at a locked account and
\* a password that was pending still is, but for one whose command failed.
LEMMA GuessesKept ==
  ASSUME GuessesCounted, KeysTyped, KeysTyped', UNCHANGED <<guesses, locked>>, Counted' >= Counted,
         locked => Checking' \subseteq Checking, NEW r \in Requests,
         \/ Pending \subseteq Pending' /\ broken' = broken
         \/ Pending \ {r} \subseteq Pending' /\ broken' = broken + 1
  PROVE  GuessesCounted'
<1>1. /\ MaxFails \in Nat /\ guesses \in Nat /\ broken \in Nat /\ Checking \in SUBSET Requests
      /\ Pending \in SUBSET Requests /\ Cardinality(Requests) \in Nat /\ Cardinality(Checking) \in Nat
      /\ Cardinality(Pending) \in Nat /\ Counted \in Nat
  BY LoginNumbers, Zenon
<1>2. /\ broken' \in Nat /\ Checking' \in SUBSET Requests /\ Pending' \in SUBSET Requests
      /\ Cardinality(Checking') \in Nat /\ Cardinality(Pending') \in Nat /\ Counted' \in Nat
  BY NextNumbers, Zenon
<1>3. broken' >= broken
  BY <1>1
<1>4. Cardinality(Pending) + broken <= Cardinality(Pending') + broken'
  <2>1. CASE Pending \subseteq Pending' /\ broken' = broken
    <3>1. Cardinality(Pending) <= Cardinality(Pending')
      BY <1>1, <1>2, <2>1, RequestsSubset, Zenon
    <3> QED BY <1>1, <1>2, <2>1, <3>1
  <2>2. CASE Pending \ {r} \subseteq Pending' /\ broken' = broken + 1
    <3>1. Cardinality(Pending \ {r}) <= Cardinality(Pending')
      BY <1>1, <1>2, <2>2, RequestsSubset, Zenon
    <3>2. CASE r \in Pending
      <4>1. Cardinality(Pending \ {r}) = Cardinality(Pending) - 1
        BY <1>1, <3>2, RequestLeaves, Zenon
      <4> QED BY <1>1, <1>2, <2>2, <3>1, <4>1
    <3>3. CASE r \notin Pending
      <4>1. Pending \ {r} = Pending
        BY <3>3, Zenon
      <4>2. Cardinality(Pending) <= Cardinality(Pending')
        BY <3>1, <4>1, Zenon
      <4> QED BY <1>1, <1>2, <2>2, <4>2
    <3> QED BY <3>2, <3>3, Zenon
  <2> QED BY <2>1, <2>2, Zenon
<1>5. ASSUME guesses <= Counted + Cardinality(Pending) + broken
      PROVE  guesses <= Counted' + Cardinality(Pending') + broken'
  BY <1>1, <1>2, <1>4, <1>5
<1>6. ASSUME locked, guesses + Cardinality(Checking) <= MaxFails - 1 + Cardinality(Requests) + broken
      PROVE  guesses + Cardinality(Checking') <= MaxFails - 1 + Cardinality(Requests) + broken'
  <2>1. Cardinality(Checking') <= Cardinality(Checking)
    BY <1>1, <1>6, RequestsSubset, Zenon
  <2> QED BY <1>1, <1>2, <1>3, <1>6, <2>1
<1> QED BY <1>5, <1>6, Zenon DEF GuessesCounted

\* A row is replaced: who pends and who checks among the others is the same.
LEMMA OneRow ==
  ASSUME LoginsInv, NEW r \in Requests, NEW new \in RequestRows, reqs' = [reqs EXCEPT ![r] = new]
  PROVE  /\ reqs'[r] = new /\ \A q \in Requests : q # r => reqs'[q] = reqs[q]
         /\ Pending \ {r} \subseteq Pending'
         /\ (Pends(reqs[r]) => Pends(new)) => Pending \subseteq Pending'
         /\ (new.step = "check" => reqs[r].step = "check") => Checking' \subseteq Checking
<1>1. reqs'[r] = new /\ \A q \in Requests : q # r => reqs'[q] = reqs[q]
  BY Zenon DEF LoginsInv, PairsTyped
<1>2. Pending \ {r} \subseteq Pending'
  BY <1>1, Zenon DEF Pending
<1>3. ASSUME Pends(reqs[r]) => Pends(new) PROVE Pending \subseteq Pending'
  <2>1. r \in Pending => r \in Pending'
    BY <1>1, <1>3, Zenon DEF Pending, Pends
  <2> QED BY <1>2, <2>1, Zenon
<1>4. ASSUME new.step = "check" => reqs[r].step = "check" PROVE Checking' \subseteq Checking
  BY <1>1, <1>4, Zenon DEF Checking
<1> QED BY <1>1, <1>2, <1>3, <1>4, Zenon

\* Nothing changes for the account.
LEMMA OneIsQuiet ==
  ASSUME LoginsInv, KeysTyped', UNCHANGED <<guesses, fails, locked>>, broken' \in {broken, broken + 1},
         NEW r \in Requests, NEW new \in RequestRows, reqs' = [reqs EXCEPT ![r] = new],
         Pends(reqs[r]) => Pends(new), new.step = "check" /\ locked => reqs[r].step = "check"
  PROVE  GuessesCounted'
<1>1. KeysTyped /\ GuessesCounted
  BY Zenon DEF LoginsInv
<1>2. Counted' >= Counted
  <2>1. Counted' = Counted /\ Counted \in Nat
    BY <1>1, LoginNumbers, Zenon DEF Counted
  <2> QED BY <2>1
<1>3. Pending \subseteq Pending' /\ Pending \ {r} \subseteq Pending' /\ (locked => Checking' \subseteq Checking)
  BY OneRow, Zenon
<1> QED BY <1>1, <1>2, <1>3, GuessesKept, Zenon

\* The counter will expire as long as the request that sees to it is there.
LEMMA CounterKept ==
  ASSUME LoginsInv, stuck' = stuck, failTTL' = failTTL, fails' > 0 => fails > 0,
         NEW r \in Requests, NEW new \in RequestRows, reqs' = [reqs EXCEPT ![r] = new],
         reqs[r].step # "expire"
  PROVE  CounterExpires'
<1>1. \A q \in Requests : q # r => reqs'[q] = reqs[q]
  BY Zenon DEF LoginsInv, PairsTyped
<1> QED BY <1>1, Zenon DEF LoginsInv, CounterExpires, At

\* A step of a request that has no password pending and does not see to the counter
\* changes nothing for the account.
LEMMA QuietStep ==
  ASSUME LoginsInv, KeysTyped', UNCHANGED <<guesses, fails, failTTL, locked, stuck>>,
         broken' \in {broken, broken + 1},
         NEW r \in Requests, NEW new \in RequestRows, reqs' = [reqs EXCEPT ![r] = new],
         reqs[r].step \notin {"fail", "lock", "expire"},
         new.step = "check" /\ locked => reqs[r].step = "check"
  PROVE  GuessesCounted' /\ CounterExpires'
<1>1. ~ Pends(reqs[r])
  BY Zenon DEF Pends
<1>2. GuessesCounted'
  BY <1>1, OneIsQuiet, Zenon
<1>3. CounterExpires'
  BY CounterKept, Zenon
<1> QED BY <1>2, <1>3, Zenon

\* The same for a step that a request moves to, or that answers it.
LEMMA QuietMove ==
  ASSUME LoginsInv, KeysTyped', UNCHANGED <<guesses, fails, failTTL, locked, stuck>>,
         broken' \in {broken, broken + 1},
         NEW r \in Requests, reqs[r].step \notin {"fail", "lock", "expire"},
         Answer(r) \/ \E s \in RequestSteps \ {"check"} : Move(r, s)
  PROVE  GuessesCounted' /\ CounterExpires'
<1>1. CASE Answer(r)
  <2>1. PICK new \in RequestRows : reqs' = [reqs EXCEPT ![r] = new] /\ Gone(new)
    BY <1>1, AnswerRow, Zenon
  <2>2. new.step # "check"
    BY <2>1, Zenon DEF Gone
  <2> QED BY <2>1, <2>2, QuietStep, Zenon
<1>2. ASSUME NEW s \in RequestSteps \ {"check"}, Move(r, s)
      PROVE  GuessesCounted' /\ CounterExpires'
  <2>1. PICK new \in RequestRows : reqs' = [reqs EXCEPT ![r] = new] /\ Moved(new, reqs[r], s)
    BY <1>2, MoveRow, Zenon DEF LoginsInv
  <2>2. new.step # "check"
    BY <2>1, Zenon DEF Moved
  <2> QED BY <2>1, <2>2, QuietStep, Zenon
<1> QED BY <1>1, <1>2, Zenon

\* verifyAdminPassword: a wrong password is pending, and its request no longer one
\* that passed the check of the lock.
LEMMA CheckStep ==
  ASSUME LoginsInv, KeysTyped', NEW r \in Requests, verifyAdminPassword(r)
  PROVE  GuessesCounted' /\ CounterExpires'
<1>0. {"fail", "migrate", "upgrade", "reset"} \subseteq RequestSteps \ {"check"}
  BY Zenon DEF RequestSteps, LoginSteps
<1>1. reqs[r].step = "check" /\ UNCHANGED <<fails, failTTL, locked, broken, stuck>>
  BY Zenon DEF verifyAdminPassword, At
<1>2. CASE reqs[r].input = "right"
  <2>1. stored \in {"none", "md5", "bcrypt"}
    BY Zenon DEF LoginsInv, KeysTyped
  <2>2. [none |-> "migrate", md5 |-> "upgrade", bcrypt |-> "reset"][stored]
          \in {"migrate", "upgrade", "reset"}
    BY <2>1
  <2>3. guesses' = guesses /\ \E s \in RequestSteps \ {"check"} : Move(r, s)
    BY <1>0, <1>2, <2>2, Zenon DEF verifyAdminPassword
  <2> QED BY <1>1, <2>3, QuietMove, Zenon
<1>3. CASE reqs[r].input # "right"
  <2>1. Move(r, "fail") /\ guesses' = guesses + 1
    BY <1>3, Zenon DEF verifyAdminPassword
  <2>2. PICK new \in RequestRows : reqs' = [reqs EXCEPT ![r] = new] /\ Moved(new, reqs[r], "fail")
    BY <1>0, <2>1, MoveRow, Zenon DEF LoginsInv
  <2>3. new.step = "fail"
    BY <2>2, Zenon DEF Moved
  <2>4. CounterExpires'
    BY <1>1, <2>2, CounterKept, Zenon
  <2>5. reqs'[r] = new /\ \A q \in Requests : q # r => reqs'[q] = reqs[q]
    BY <2>2, OneRow, Zenon
  <2>6. /\ MaxFails \in Nat /\ guesses \in Nat /\ broken \in Nat /\ Cardinality(Requests) \in Nat
        /\ Cardinality(Checking) \in Nat /\ Cardinality(Pending) \in Nat /\ Counted \in Nat
        /\ Checking \in SUBSET Requests /\ Pending \in SUBSET Requests
    BY LoginNumbers, Zenon DEF LoginsInv
  <2>7. Cardinality(Checking') = Cardinality(Checking) - 1
    <3>1. r \in Checking /\ Checking' = Checking \ {r}
      BY <1>1, <2>3, <2>5, Zenon DEF Checking
    <3> QED BY <2>6, <3>1, RequestLeaves, Zenon
  <2>8. Cardinality(Pending') = Cardinality(Pending) + 1
    <3>1. r \in Requests \ Pending
      BY <1>1, Zenon DEF Pending
    <3>2. Pending' = Pending \cup {r}
      BY <2>3, <2>5, Zenon DEF Pending
    <3> QED BY <2>6, <3>1, <3>2, RequestJoins, Zenon
  <2>9. Counted' = Counted
    BY <1>1, Zenon DEF Counted
  <2>10. ASSUME guesses <= Counted + Cardinality(Pending) + broken
         PROVE  guesses' <= Counted' + Cardinality(Pending') + broken'
    BY <1>1, <2>1, <2>6, <2>8, <2>9, <2>10
  <2>11. ASSUME guesses + Cardinality(Checking) <= MaxFails - 1 + Cardinality(Requests) + broken
         PROVE  guesses' + Cardinality(Checking') <= MaxFails - 1 + Cardinality(Requests) + broken'
    BY <1>1, <2>1, <2>6, <2>7, <2>11
  <2>12. GuessesCounted'
    BY <1>1, <2>10, <2>11, Zenon DEF LoginsInv, GuessesCounted
  <2> QED BY <2>4, <2>12, Zenon
<1> QED BY <1>2, <1>3, Zenon

\* handleLoginFail: the password is counted, and the one that reaches the limit is
\* about to lock the account.
LEMMA FailStep ==
  ASSUME LoginsInv, KeysTyped', NEW r \in Requests, handleLoginFail(r)
  PROVE  GuessesCounted' /\ CounterExpires'
<1>1. /\ reqs[r].step = "fail" /\ fails' = fails + 1
      /\ UNCHANGED <<failTTL, locked, broken, guesses, stuck>>
  BY Zenon DEF handleLoginFail, At
<1>2. PICK new \in RequestRows :
         /\ reqs' = [reqs EXCEPT ![r] = new]
         /\ IF fails + 1 = 1 THEN new.step = "expire"
            ELSE IF fails + 1 >= MaxFails THEN new.step = "lock" ELSE new.step = "idle"
  <2>1. /\ Move(r, "expire") => \E new \in RequestRows :
             reqs' = [reqs EXCEPT ![r] = new] /\ Moved(new, reqs[r], "expire")
        /\ Move(r, "lock") => \E new \in RequestRows :
             reqs' = [reqs EXCEPT ![r] = new] /\ Moved(new, reqs[r], "lock")
        /\ Answer(r) => \E new \in RequestRows : reqs' = [reqs EXCEPT ![r] = new] /\ Gone(new)
    <3>1. {"expire", "lock"} \subseteq RequestSteps
      BY Zenon DEF RequestSteps, LoginSteps
    <3> QED BY <3>1, MoveRow, AnswerRow, Zenon DEF LoginsInv
  <2>2. CASE fails + 1 = 1
    BY <2>1, <2>2, Zenon DEF handleLoginFail, Moved
  <2>3. CASE fails + 1 # 1 /\ fails + 1 >= MaxFails
    BY <2>1, <2>3, Zenon DEF handleLoginFail, Moved
  <2>4. CASE fails + 1 # 1 /\ ~ (fails + 1 >= MaxFails)
    BY <2>1, <2>4, Zenon DEF handleLoginFail, Gone
  <2> QED BY <2>2, <2>3, <2>4, Zenon
<1>3. reqs'[r] = new /\ \A q \in Requests : q # r => reqs'[q] = reqs[q]
  BY <1>2, OneRow, Zenon
<1>4. /\ MaxFails \in Nat /\ MaxFails >= 1 /\ fails \in Nat /\ guesses \in Nat /\ broken \in Nat
      /\ Cardinality(Requests) \in Nat /\ Cardinality(Checking) \in Nat /\ Cardinality(Pending) \in Nat
      /\ Counted \in Nat /\ Checking \in SUBSET Requests /\ Pending \in SUBSET Requests
  BY LoginNumbers, Zenon DEF LoginsInv
<1>5. CounterExpires'
  <2>1. CASE fails + 1 = 1
    BY <1>2, <1>3, <2>1, Zenon DEF CounterExpires, At
  <2>2. CASE fails + 1 # 1
    <3>1. fails > 0
      BY <1>4, <2>2
    <3> QED BY <1>1, <1>2, <3>1, CounterKept, Zenon
  <2> QED BY <2>1, <2>2, Zenon
<1>6. new.step # "check"
  BY <1>2, Zenon
<1>7. Checking' \subseteq Checking
  BY <1>2, <1>6, OneRow, Zenon
<1>8. CASE Pends(new)
  <2>1. Pending \subseteq Pending'
    BY <1>2, <1>8, OneRow, Zenon
  <2>2. fails' >= fails
    BY <1>1, <1>4
  <2>3. Counted' >= Counted
    BY <2>2, CountedGrows, Zenon DEF LoginsInv
  <2>4. GuessesCounted'
    BY <1>1, <1>7, <2>1, <2>3, GuessesKept, Zenon DEF LoginsInv
  <2> QED BY <1>5, <2>4, Zenon
<1>9. CASE ~ Pends(new)
  <2>1. fails + 1 < MaxFails
    <3>1. CASE fails + 1 = 1
      <4>1. MaxFails # 1
        BY <1>2, <1>9, <3>1, Zenon DEF Pends
      <4> QED BY <1>4, <3>1, <4>1
    <3>2. CASE fails + 1 # 1
      <4>1. ~ (fails + 1 >= MaxFails)
        BY <1>2, <1>9, <3>2, Zenon DEF Pends
      <4> QED BY <1>4, <4>1
    <3> QED BY <3>1, <3>2, Zenon
  <2>2. Counted' = Counted + 1
    BY <1>1, <1>4, <2>1 DEF Counted
  <2>3. Cardinality(Pending') = Cardinality(Pending) - 1
    <3>1. r \in Pending
      BY <1>1, Zenon DEF Pending
    <3>2. Pending' = Pending \ {r}
      BY <1>3, <1>9, Zenon DEF Pending, Pends
    <3> QED BY <1>4, <3>1, <3>2, RequestLeaves, Zenon
  <2>4. Cardinality(Checking') = Cardinality(Checking)
    <3>1. Checking' = Checking
      BY <1>1, <1>3, <1>6, Zenon DEF Checking
    <3> QED BY <3>1, Zenon
  <2>5. ASSUME guesses <= Counted + Cardinality(Pending) + broken
        PROVE  guesses' <= Counted' + Cardinality(Pending') + broken'
    BY <1>1, <1>4, <2>2, <2>3, <2>5
  <2>6. GuessesCounted'
    BY <1>1, <2>4, <2>5, Zenon DEF LoginsInv, GuessesCounted
  <2> QED BY <1>5, <2>6, Zenon
<1> QED BY <1>8, <1>9, Zenon

\* The counter gets its time to live; a request that is about to lock the account
\* still is.
LEMMA ExpireFailsStep ==
  ASSUME LoginsInv, KeysTyped', NEW r \in Requests, expireFails(r)
  PROVE  GuessesCounted' /\ CounterExpires'
<1>1. /\ reqs[r].step = "expire" /\ failTTL' = (fails > 0)
      /\ UNCHANGED <<guesses, fails, locked, broken>>
  BY Zenon DEF expireFails, At
<1>2. CounterExpires'
  BY <1>1, Zenon DEF CounterExpires
<1>3. PICK new \in RequestRows :
         reqs' = [reqs EXCEPT ![r] = new] /\ (MaxFails = 1 => new.step = "lock") /\ new.step # "check"
  <2>1. CASE MaxFails = 1
    <3>1. Move(r, "lock") /\ "lock" \in RequestSteps
      BY <2>1, Zenon DEF expireFails, RequestSteps, LoginSteps
    <3>2. PICK new \in RequestRows : reqs' = [reqs EXCEPT ![r] = new] /\ Moved(new, reqs[r], "lock")
      BY <3>1, MoveRow, Zenon DEF LoginsInv
    <3> QED BY <3>2, Zenon DEF Moved
  <2>2. CASE MaxFails # 1
    <3>1. PICK new \in RequestRows : reqs' = [reqs EXCEPT ![r] = new] /\ Gone(new)
      BY <2>2, AnswerRow, Zenon DEF expireFails
    <3> QED BY <2>2, <3>1, Zenon DEF Gone
  <2> QED BY <2>1, <2>2, Zenon
<1>4. Pends(reqs[r]) => Pends(new)
  BY <1>1, <1>3, Zenon DEF Pends
<1>5. GuessesCounted'
  BY <1>1, <1>3, <1>4, OneIsQuiet, Zenon
<1> QED BY <1>2, <1>5, Zenon

\* The account is locked: of the requests, some have a password pending and some
\* have yet to check theirs, and those are different ones.
LEMMA LockStep ==
  ASSUME LoginsInv, KeysTyped', NEW r \in Requests, lockAccount(r)
  PROVE  GuessesCounted' /\ CounterExpires'
<1>1. /\ reqs[r].step = "lock" /\ locked' = TRUE /\ Answer(r)
      /\ UNCHANGED <<guesses, fails, failTTL, broken, stuck>>
  BY Zenon DEF lockAccount, At
<1>2. PICK new \in RequestRows : reqs' = [reqs EXCEPT ![r] = new] /\ Gone(new)
  BY <1>1, AnswerRow, Zenon
<1>3. CounterExpires'
  BY <1>1, <1>2, CounterKept, Zenon
<1>4. Checking' \subseteq Checking
  BY <1>2, OneRow, Zenon DEF Gone
<1>5. /\ MaxFails \in Nat /\ guesses \in Nat /\ broken \in Nat /\ Cardinality(Requests) \in Nat
      /\ Cardinality(Checking) \in Nat /\ Cardinality(Pending) \in Nat /\ Counted \in Nat
      /\ Checking \in SUBSET Requests /\ Counted <= MaxFails - 1
      /\ Cardinality(Checking) + Cardinality(Pending) <= Cardinality(Requests)
  BY LoginNumbers, Zenon DEF LoginsInv
<1>6. Cardinality(Checking') <= Cardinality(Checking) /\ Cardinality(Checking') \in Nat
  BY <1>4, <1>5, RequestsSubset, NextNumbers, Zenon
<1>7. ASSUME \/ guesses <= Counted + Cardinality(Pending) + broken
             \/ guesses + Cardinality(Checking) <= MaxFails - 1 + Cardinality(Requests) + broken
      PROVE  guesses + Cardinality(Checking') <= MaxFails - 1 + Cardinality(Requests) + broken
  BY <1>5, <1>6, <1>7
<1>8. GuessesCounted'
  BY <1>1, <1>7, Zenon DEF LoginsInv, KeysTyped, GuessesCounted
<1> QED BY <1>3, <1>8, Zenon

\* A command that fails: the password that was pending is one more that the account
\* can take, and a counter left without a time to live is on record.
LEMMA FailedStep ==
  ASSUME LoginsInv, KeysTyped', NEW r \in Requests, failedCommand(r)
  PROVE  GuessesCounted' /\ CounterExpires'
<1>1. /\ broken' = broken + 1 /\ Answer(r) /\ UNCHANGED <<guesses, failTTL, locked>>
      /\ fails' = fails \/ (reqs[r].step = "fail" /\ fails' = fails + 1)
      /\ stuck' = (stuck \/ (reqs[r].step = "expire" /\ fails > 0) \/ (fails = 0 /\ fails' = 1))
  BY Zenon DEF failedCommand, Breaks, At
<1>2. PICK new \in RequestRows : reqs' = [reqs EXCEPT ![r] = new] /\ Gone(new)
  BY <1>1, AnswerRow, Zenon
<1>3. fails \in Nat /\ stuck \in BOOLEAN
  BY Zenon DEF LoginsInv, KeysTyped
<1>4. GuessesCounted'
  <2>1. fails' >= fails
    BY <1>1, <1>3
  <2>2. Counted' >= Counted
    BY <2>1, CountedGrows, Zenon DEF LoginsInv
  <2>3. Checking' \subseteq Checking /\ Pending \ {r} \subseteq Pending'
    BY <1>2, OneRow, Zenon DEF Gone
  <2> QED BY <1>1, <2>2, <2>3, GuessesKept, Zenon DEF LoginsInv
<1>5. CounterExpires'
  <2>1. ASSUME fails' > 0 PROVE fails > 0 \/ (fails = 0 /\ fails' = 1)
    BY <1>1, <1>3, <2>1
  <2>2. \A q \in Requests : q # r => reqs'[q] = reqs[q]
    BY <1>2, OneRow, Zenon
  <2>3. ASSUME fails > 0 PROVE failTTL' \/ stuck' \/ \E q \in Requests : reqs'[q].step = "expire"
    <3>1. failTTL \/ stuck \/ \E q \in Requests : reqs[q].step = "expire"
      BY <2>3, Zenon DEF LoginsInv, CounterExpires, At
    <3>2. stuck => stuck'
      BY <1>1, Zenon
    <3>3. ASSUME NEW q \in Requests, reqs[q].step = "expire"
          PROVE  stuck' \/ reqs'[q].step = "expire"
      BY <1>1, <2>2, <2>3, <3>3, Zenon
    <3> QED BY <1>1, <3>1, <3>2, <3>3, Zenon
  <2>4. fails = 0 /\ fails' = 1 => stuck'
    BY <1>1, Zenon
  <2> QED BY <2>1, <2>3, <2>4, Zenon DEF CounterExpires, At
<1> QED BY <1>4, <1>5, Zenon

\* The other steps of a request.
LEMMA OtherStep ==
  ASSUME LoginsInv, KeysTyped', NEW r \in Requests,
         \/ \E in \in Inputs : AdminLogin(r, in)
         \/ migrateLegacyAdmin(r) \/ tryUpgradeAdminPasswordHash(r)
         \/ GenerateAdminPair(r) \/ beginSession(r) \/ RefreshingAdmin(r)
  PROVE  GuessesCounted' /\ CounterExpires'
<1>0. {"reset", "issue", "mark", "load"} \subseteq RequestSteps \ {"check"}
  BY Zenon DEF RequestSteps, LoginSteps, RefreshSteps
<1>1. ASSUME NEW in \in Inputs, AdminLogin(r, in) PROVE GuessesCounted' /\ CounterExpires'
  <2>1. PICK new \in RequestRows : new = [Waiting EXCEPT !.step = "check", !.input = in]
    BY LoginRow, Zenon
  <2>2. /\ reqs[r].step = "idle" /\ ~ locked /\ reqs' = [reqs EXCEPT ![r] = new]
        /\ UNCHANGED <<guesses, fails, failTTL, locked, stuck, broken>>
    BY <1>1, <2>1, Zenon DEF AdminLogin, At
  <2> QED BY <2>2, QuietStep, Zenon
<1>2. CASE beginSession(r)
  <2>1. /\ reqs[r].step = "begin" /\ Answer(r)
        /\ UNCHANGED <<guesses, fails, failTTL, locked, stuck, broken>>
    BY <1>2, Zenon DEF beginSession, At
  <2> QED BY <2>1, QuietMove, Zenon
<1>3. CASE migrateLegacyAdmin(r)
  <2>1. /\ reqs[r].step = "migrate" /\ (Answer(r) \/ Move(r, "reset"))
        /\ UNCHANGED <<guesses, fails, failTTL, locked, stuck, broken>>
    BY <1>3, Zenon DEF migrateLegacyAdmin, At
  <2> QED BY <1>0, <2>1, QuietMove, Zenon
<1>4. CASE tryUpgradeAdminPasswordHash(r)
  <2>1. /\ reqs[r].step = "upgrade" /\ Move(r, "reset") /\ broken' \in {broken, broken + 1}
        /\ UNCHANGED <<guesses, fails, failTTL, locked, stuck>>
    BY <1>4, Zenon DEF tryUpgradeAdminPasswordHash, Breaks, At
  <2> QED BY <1>0, <2>1, QuietMove, Zenon
<1>5. CASE GenerateAdminPair(r)
  <2>1. PICK s \in Nat : reqs' = [reqs EXCEPT ![r] = [Waiting EXCEPT !.step = "begin", !.session = s]]
    <3>1. reqs[r].session \in Nat /\ Len(pairs) + 1 \in Nat
      BY DEF LoginsInv, PairsTyped, RequestRows
    <3> QED BY <1>5, <3>1, Zenon DEF GenerateAdminPair
  <2>2. PICK new \in RequestRows : /\ new = [Waiting EXCEPT !.step = "begin", !.session = s]
                                  /\ new.step = "begin" /\ new.pair = 0 /\ new.session = s
    BY BeginRow, Zenon
  <2>3. /\ reqs[r].step = "issue" /\ reqs' = [reqs EXCEPT ![r] = new] /\ new.step # "check"
        /\ UNCHANGED <<guesses, fails, failTTL, locked, stuck, broken>>
    BY <1>5, <2>1, <2>2, Zenon DEF GenerateAdminPair, At
  <2> QED BY <2>3, QuietStep, Zenon
<1>6. ASSUME NEW k \in DOMAIN pairs, AdminRefreshToken(r, k) PROVE GuessesCounted' /\ CounterExpires'
  <2>1. k \in Nat /\ pairs[k].session \in Nat
    <3>1. PICK p \in PairRows : p = pairs[k]
      BY DEF LoginsInv, PairsTyped
    <3>2. k \in Nat /\ p.session \in Nat
      BY DEF LoginsInv, PairsTyped, PairRows
    <3> QED BY <3>1, <3>2, Zenon
  <2>2. PICK new \in RequestRows :
          /\ new = [Waiting EXCEPT !.step = "consume", !.pair = k, !.session = pairs[k].session]
          /\ new.step = "consume"
    <3>1. PICK s \in Nat : s = pairs[k].session
      BY <2>1, Zenon
    <3>2. PICK new \in RequestRows :
            /\ new = [Waiting EXCEPT !.step = "consume", !.pair = k, !.session = s]
            /\ new.step = "consume" /\ new.pair = k /\ new.session = s
      <4>1. k \in Nat
        BY <2>1, Zenon
      <4> QED BY <4>1, RefreshRow, Zenon
    <3> QED BY <3>1, <3>2, Zenon
  <2>3. /\ reqs[r].step = "idle" /\ reqs' = [reqs EXCEPT ![r] = new]
        /\ UNCHANGED <<guesses, fails, failTTL, locked, stuck, broken>>
    BY <1>6, <2>2, Zenon DEF AdminRefreshToken, At
  <2>4. new.step # "check"
    BY <2>2, Zenon
  <2> QED BY <2>3, <2>4, QuietStep, Zenon
<1>7. CASE ConsumeRefreshToken(r)
  <2>1. /\ reqs[r].step = "consume" /\ (Answer(r) \/ Move(r, "mark"))
        /\ UNCHANGED <<guesses, fails, failTTL, locked, stuck, broken>>
    BY <1>7, Zenon DEF ConsumeRefreshToken, At
  <2> QED BY <1>0, <2>1, QuietMove, Zenon
<1>8. CASE markUsed(r)
  <2>1. /\ reqs[r].step = "mark" /\ Move(r, "load")
        /\ UNCHANGED <<guesses, fails, failTTL, locked, stuck, broken>>
    BY <1>8, Zenon DEF markUsed, At
  <2> QED BY <1>0, <2>1, QuietMove, Zenon
<1>9. CASE loadAdmin(r)
  <2>1. /\ reqs[r].step = "load" /\ Move(r, "issue")
        /\ UNCHANGED <<guesses, fails, failTTL, locked, stuck, broken>>
    BY <1>9, Zenon DEF loadAdmin, At
  <2> QED BY <1>0, <2>1, QuietMove, Zenon
<1>10. ASSUME NEW k \in DOMAIN pairs, AdminLogout(r, k) PROVE GuessesCounted' /\ CounterExpires'
  <2>1. PICK new \in RequestRows : /\ new = [Waiting EXCEPT !.step = "logout"]
                                  /\ new.step = "logout" /\ new.pair = 0 /\ new.session = 0
    BY LogoutRow, Zenon
  <2>2. /\ reqs[r].step = "idle" /\ reqs' = [reqs EXCEPT ![r] = new] /\ new.step # "check"
        /\ UNCHANGED <<guesses, fails, failTTL, locked, stuck, broken>>
    BY <1>10, <2>1, Zenon DEF AdminLogout, At
  <2> QED BY <2>2, QuietStep, Zenon
<1>11. CASE Logout(r)
  <2>1. /\ reqs[r].step = "logout" /\ Answer(r)
        /\ UNCHANGED <<guesses, fails, failTTL, locked, stuck, broken>>
    BY <1>11, Zenon DEF Logout, At
  <2> QED BY <2>1, QuietMove, Zenon
<1> QED BY <1>1, <1>2, <1>3, <1>4, <1>5, <1>6, <1>7, <1>8, <1>9, <1>10, <1>11, Zenon DEF RefreshingAdmin

\* The keys and the pairs have their types.
LEMMA SessionsAreTyped == SessionsInv => KeysTyped /\ PairsTyped
BY Zenon DEF SessionsInv

\* Every step keeps the bound on wrong passwords.
LEMMA LoginsStep ==
  ASSUME LoginsInv, SessionsInv', [AdminNext]_adminVars
  PROVE  LoginsInv'
<1>1. KeysTyped' /\ PairsTyped'
  BY SessionsAreTyped, Zenon DEF SessionsInv
<1>2. ASSUME fails' = 0, guesses' = 0 PROVE GuessesCounted' /\ CounterExpires'
  <2>1. ~ (fails' > 0)
    BY <1>2
  <2> QED BY <1>1, <1>2, <2>1, GuessesForgotten, Zenon DEF LoginsInv, CounterExpires
<1>3. ASSUME NEW r \in Requests, LoggingIn(r) \/ RefreshingAdmin(r)
      PROVE  GuessesCounted' /\ CounterExpires'
  <2>1. CASE resetFails(r)
    BY <1>2, <2>1, Zenon DEF resetFails
  <2> QED BY <1>1, <1>3, <2>1, CheckStep, FailStep, ExpireFailsStep, LockStep, FailedStep, OtherStep,
         Zenon DEF LoggingIn
<1>4. ASSUME expireCounter PROVE GuessesCounted' /\ CounterExpires'
  BY <1>2, <1>4, Zenon DEF expireCounter
<1>5. ASSUME expireLock PROVE GuessesCounted' /\ CounterExpires'
  <2>1. guesses' = 0 /\ UNCHANGED <<fails, failTTL, stuck, reqs>>
    BY <1>5, Zenon DEF expireLock
  <2>2. GuessesCounted'
    BY <1>1, <2>1, GuessesForgotten, Zenon DEF LoginsInv
  <2> QED BY <2>1, <2>2, Zenon DEF LoginsInv, CounterExpires, At
<1>6. ASSUME UNCHANGED <<guesses, fails, failTTL, locked, broken, stuck, reqs>>
      PROVE  GuessesCounted' /\ CounterExpires'
  <2>1. Pending' = Pending /\ Checking' = Checking /\ Counted' = Counted
    BY <1>6, Zenon DEF Pending, Checking, Counted
  <2> QED BY <1>6, <2>1, Zenon DEF LoginsInv, GuessesCounted, CounterExpires, At
<1>7. ASSUME NEW k \in DOMAIN pairs, expireAccess(k) \/ expireRefresh(k)
      PROVE  GuessesCounted' /\ CounterExpires'
  BY <1>6, <1>7, Zenon DEF expireAccess, expireRefresh
<1>8. ASSUME UNCHANGED adminVars PROVE GuessesCounted' /\ CounterExpires'
  BY <1>6, <1>8, Zenon DEF adminVars
<1> QED BY <1>1, <1>3, <1>4, <1>5, <1>7, <1>8, Zenon DEF AdminNext, LoginsInv

\* There are no failures at first.
LEMMA LoginsStart == AdminInit => LoginsInv
<1> SUFFICES ASSUME AdminInit PROVE LoginsInv
  BY Zenon
<1>1. KeysTyped /\ PairsTyped
  BY SessionsStart, SessionsAreTyped, Zenon
<1>2. guesses = 0 /\ fails = 0 /\ ~ locked
  BY Zenon DEF AdminInit
<1>3. broken \in Nat /\ Cardinality(Pending) \in Nat /\ Counted \in Nat
  BY <1>1, LoginNumbers, Zenon
<1>4. guesses <= Counted + Cardinality(Pending) + broken /\ ~ (fails > 0)
  BY <1>2, <1>3
<1> QED BY <1>1, <1>2, <1>4, Zenon DEF LoginsInv, GuessesCounted, CounterExpires

\* What the invariant says of wrong passwords.
LEMMA LoginsInvHolds == LoginsInv => LoginsAreLimited
<1> SUFFICES ASSUME LoginsInv PROVE LoginsAreLimited
  BY Zenon
<1>1. /\ MaxFails \in Nat /\ guesses \in Nat /\ broken \in Nat /\ Cardinality(Requests) \in Nat
      /\ Cardinality(Checking) \in Nat /\ Cardinality(Pending) \in Nat /\ Counted \in Nat
      /\ Counted <= MaxFails - 1
      /\ Cardinality(Checking) + Cardinality(Pending) <= Cardinality(Requests)
  BY LoginNumbers, Zenon DEF LoginsInv
<1>2. ASSUME \/ guesses <= Counted + Cardinality(Pending) + broken
             \/ guesses + Cardinality(Checking) <= MaxFails - 1 + Cardinality(Requests) + broken
      PROVE  guesses <= MaxFails - 1 + Cardinality(Requests) + broken
  BY <1>1, <1>2
<1>3. GuessesBounded
  BY <1>2, Zenon DEF LoginsInv, KeysTyped, GuessesCounted, GuessesBounded
<1> QED BY <1>3, Zenon DEF LoginsInv, LoginsAreLimited

\* However many logins overlap and whatever command fails, the account takes MaxFails
\* wrong passwords at most, one more from every other request that had passed the
\* check of the lock and one more for every command that failed, and the counter of
\* them goes away by itself unless the command that gives it its time to live was
\* not made or failed (internal/user/service_admin.go).
THEOREM AdminLoginsAreLimited == AdminSpec => []LoginsAreLimited
<1>1. AdminSpec => []SessionsInv
  BY SessionsStart, SessionsStep, PTL DEF AdminSpec
<1>2. AdminSpec => []LoginsInv
  BY <1>1, LoginsStart, LoginsStep, PTL DEF AdminSpec
<1> QED BY <1>2, LoginsInvHolds, PTL
=============================================================================
