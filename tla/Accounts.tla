------------------------------- MODULE Accounts -------------------------------
(***************************************************************************)
(* User accounts (internal/user), their certification by the school        *)
(* (internal/school), the tokens they are given (internal/platform/jwtutil)*)
(* and the copies of a nickname that topics and comments hold.             *)
(*                                                                         *)
(* Every request reads rows and writes them later, one statement at a      *)
(* time, so requests overlap between any two of their statements.          *)
(* `crossed' remembers overlaps the code does nothing against, the rows an *)
(* administrator entered and the times of renames.                         *)
(***************************************************************************)
EXTENDS Integers, Sequences, FiniteSets, FiniteSetsExt

CONSTANTS
  OpenIds,       \* WeChat identities
  Procs,         \* server processes, each with one identityMu
  Calls,         \* requests in progress
  MaxUsers, MaxPairs, MaxNames, MaxTime, MaxFaults,
  YearTicks,     \* length of a year
  WindowStart, WindowEnd,  \* the season of provisional certificates
  NicknameWait,  \* anonymousNicknameUpdateHourLimit
  None

ASSUME AccountsAssumption ==
  /\ {MaxUsers, MaxPairs, MaxNames, MaxTime, MaxFaults} \subseteq Nat
  /\ {YearTicks, WindowStart, WindowEnd, NicknameWait} \subseteq Nat \ {0}
  /\ WindowStart < WindowEnd /\ WindowEnd <= YearTicks
  /\ None \notin OpenIds \cup Procs

VARIABLES
  users,     \* campus_user: a row's id is its place
  tokens,    \* pairs handed out, with their keys in Redis
  identityMu,
  follows,   \* campus_follow: number of documents for a pair of users
  copies,    \* nickname held by a user's topic, comment and replied-to comment
  updates,   \* user updates on the two queues
  calls,
  now,
  names,     \* number of nicknames given so far
  faults,
  crossed,   \* history: overlapping requests, rows entered by administrators, renames
  switched   \* history: target of the last switch of a root user

acctVars == <<users, tokens, identityMu, follows, copies, updates, calls, now, names, faults, crossed, switched>>

Ids == 1..MaxUsers
Kinds == {"topic", "comment", "parent"}

User == [id: 0..MaxUsers, openId: OpenIds \cup {None}, accountType: {"base", "anonymous"}, rootUserID: 0..MaxUsers,
         lastSwitchID: 0..MaxUsers, stuIsCheck: BOOLEAN, provisionalExpiresAt: 0..(MaxTime + YearTicks),
         nickname: 0..MaxNames, updatedAt: 0..MaxTime]

NoUser == [id |-> 0, openId |-> None, accountType |-> "base", rootUserID |-> 0, lastSwitchID |-> 0,
           stuIsCheck |-> FALSE, provisionalExpiresAt |-> 0, nickname |-> 0, updatedAt |-> 0]

Idle == [op |-> "idle", step |-> "idle", proc |-> None, row |-> NoUser, target |-> 0, pair |-> 0]

-----------------------------------------------------------------------------
(* Reads.                                                                   *)

\* Old rows have no root and no last switch.
ensureUserDefaults(u) ==
  LET root == IF u.rootUserID = 0 THEN u.id ELSE u.rootUserID IN
  [u EXCEPT !.rootUserID = root, !.lastSwitchID = IF @ = 0 /\ root = u.id THEN u.id ELSE @]

FindUserByID(i) == IF i \in DOMAIN users THEN ensureUserDefaults(users[i]) ELSE NoUser

first(S) == IF S = {} THEN NoUser ELSE FindUserByID(Min(S))

FindUserByOpenID(o) == first({i \in DOMAIN users : users[i].openId = o})

FindUserByRootAndAccountType(root, type) ==
  first({i \in DOMAIN users : users[i].rootUserID = root /\ users[i].accountType = type})

FindUsersByRootUserID(root) == {i \in DOMAIN users : users[i].rootUserID = root \/ i = root}

ListIdentities(root) == {FindUserByID(i) : i \in FindUsersByRootUserID(root)}

rootOf(u) == IF u.rootUserID > 0 THEN u.rootUserID ELSE u.id

\* A root user that cannot be found is replaced by the user itself.
getRootUser(u) == IF u.rootUserID = u.id \/ FindUserByID(u.rootUserID) = NoUser THEN u ELSE FindUserByID(u.rootUserID)

IsFollowing(a, b) == follows[a][b] > 0

CountFollowers(u) == FoldSet(LAMBDA a, n : n + follows[a][u], 0, Ids)

CountFollowings(u) == FoldSet(LAMBDA b, n : n + follows[u][b], 0, Ids)

\* JWTAuth: the access token's key is in Redis and its signature has not expired.
ParseAndVerify(k) == k \in DOMAIN tokens /\ tokens[k].access

isInProvisionalWindow(t) == WindowStart <= t % YearTicks /\ t % YearTicks < WindowEnd

provisionalExpiresAt(t) == YearTicks * (t \div YearTicks) + WindowEnd

hasCertifiedAccess(u) == u.stuIsCheck \/ now < u.provisionalExpiresAt

\* An anonymous identity is as certified as its root user.
certificationSubjectID(k) ==
  IF users[tokens[k].id].accountType = "anonymous" THEN tokens[k].root ELSE tokens[k].id

CertifiedUserCheck(k) == hasCertifiedAccess(FindUserByID(certificationSubjectID(k)))

\* Every request that changes something passes both, but for logging in, refreshing
\* and authenticating.
Permitted(k) == ParseAndVerify(k) /\ CertifiedUserCheck(k)

-----------------------------------------------------------------------------
(* Writes. A row changed under a rename that has checked its age, and two   *)
(* requests that want the same change, are remembered.                      *)

Free(r) == calls[r] = Idle
In(r, op, step) == calls[r].op = op /\ calls[r].step = step
Goto(r, c) == calls' = [calls EXCEPT ![r] = c]
Return(r) == Goto(r, Idle)
Step(r, s) == [calls[r] EXCEPT !.step = s]

Others(r, op, step) == {q \in Calls \ {r} : In(q, op, step)}

renameCrossed(r, rows) ==
  {<<"rename", calls[q].target>> : q \in {q \in Others(r, "rename", "write") :
     rows[calls[q].target] # users[calls[q].target]}}

Save(r, rows, tags) == users' = rows /\ crossed' = crossed \cup tags \cup renameCrossed(r, rows)

\* Rows written through User get a new updated_at.
touch(u) == [u EXCEPT !.updatedAt = now]

Fault == faults < MaxFaults /\ faults' = faults + 1

certifying == {calls[q].row.id : q \in {q \in Calls : calls[q].op = "anonymous" /\ calls[q].step \in {"lock", "insert"}}}

mirrorCrossed(roots) == {<<"mirror", i>> : i \in roots}

-----------------------------------------------------------------------------
(* Login with WeChat.                                                       *)

WechatLogin(r, o) ==
  /\ Free(r)
  /\ LET u == FindUserByOpenID(o) IN
     /\ Goto(r, [Idle EXCEPT !.op = "login", !.step = IF u = NoUser THEN "create" ELSE "grant",
                             !.row = IF u = NoUser THEN [u EXCEPT !.openId = o] ELSE u])
     /\ crossed' = crossed \cup {<<"first", o>> : q \in {q \in Others(r, "login", "create") : calls[q].row.openId = o}}
  /\ UNCHANGED <<users, tokens, identityMu, follows, copies, updates, now, names, faults, switched>>

CreateUser(u) == Append(users, touch([u EXCEPT !.id = Len(users) + 1]))

loginCreate(r) ==
  /\ In(r, "login", "create") /\ Len(users) < MaxUsers
  /\ users' = CreateUser(calls[r].row)
  /\ Goto(r, [Step(r, "init") EXCEPT !.row.id = Len(users) + 1])
  /\ UNCHANGED <<tokens, identityMu, follows, copies, updates, now, names, faults, crossed, switched>>

InitializeRootIdentity(r) ==
  /\ In(r, "login", "init")
  /\ LET i == calls[r].row.id IN
     /\ Save(r, [users EXCEPT ![i] = touch([@ EXCEPT !.rootUserID = i, !.lastSwitchID = i, !.accountType = "base"])], {})
     /\ Goto(r, [Step(r, "grant") EXCEPT !.row.rootUserID = i, !.row.lastSwitchID = i])
  /\ UNCHANGED <<tokens, identityMu, follows, copies, updates, now, names, faults, switched>>

\* A statement that fails ends the login; the row stays as it is.
loginFails(r) ==
  /\ calls[r].op = "login" /\ calls[r].step \in {"init", "issue"} /\ Fault
  /\ Return(r)
  /\ UNCHANGED <<users, tokens, identityMu, follows, copies, updates, now, names, crossed, switched>>

provisionalGrantExpiresAt(u) ==
  [to |-> provisionalExpiresAt(now),
   ok |-> ~u.stuIsCheck /\ isInProvisionalWindow(now) /\ u.provisionalExpiresAt < provisionalExpiresAt(now)]

maybeGrantProvisionalCert(r) ==
  /\ In(r, "login", "grant")
  /\ LET u == calls[r].row g == provisionalGrantExpiresAt(u) IN
     /\ Save(r, IF g.ok THEN [users EXCEPT ![u.id] = touch([@ EXCEPT !.provisionalExpiresAt = g.to])] ELSE users, {})
     /\ Goto(r, Step(r, "active"))
  /\ UNCHANGED <<tokens, identityMu, follows, copies, updates, now, names, faults, switched>>

\* The last identity used, or the root user where that is gone or not its own.
resolveActiveIdentity(r) ==
  /\ In(r, "login", "active")
  /\ LET u == calls[r].row t == FindUserByID(u.lastSwitchID)
         own == u.lastSwitchID # u.id /\ t # NoUser /\ rootOf(t) = u.id IN
     /\ Goto(r, [Step(r, "issue") EXCEPT !.target = IF own THEN t.id ELSE u.id])
     /\ Save(r, IF own THEN users ELSE [users EXCEPT ![u.id] = touch([@ EXCEPT !.lastSwitchID = u.id])], {})
  /\ UNCHANGED <<tokens, identityMu, follows, copies, updates, now, names, faults, switched>>

GenerateTokenPair(id, root, from) ==
  /\ Len(tokens) < MaxPairs
  /\ tokens' = Append(tokens, [id |-> id, root |-> root, from |-> from, access |-> TRUE, valid |-> TRUE, status |-> "OK"])

\* The last step of a login, of a switch and of a refresh.
issue(r) ==
  /\ calls[r].step = "issue"
  /\ GenerateTokenPair(calls[r].target, calls[r].row.id, calls[r].pair)
  /\ Return(r)
  /\ UNCHANGED <<users, identityMu, follows, copies, updates, now, names, faults, crossed, switched>>

Login(r) ==
  \/ \E o \in OpenIds : WechatLogin(r, o)
  \/ loginCreate(r) \/ InitializeRootIdentity(r) \/ loginFails(r)
  \/ maybeGrantProvisionalCert(r) \/ resolveActiveIdentity(r) \/ issue(r)

-----------------------------------------------------------------------------
(* Refreshing a pair of tokens.                                             *)

RefreshToken(r, k) ==
  /\ Free(r) /\ tokens[k].status = "OK"
  /\ Goto(r, [Idle EXCEPT !.op = "refresh", !.step = "use", !.pair = k])
  /\ crossed' = crossed \cup {<<"refresh", k>> : q \in {q \in Others(r, "refresh", "use") : calls[q].pair = k}}
  /\ UNCHANGED <<users, tokens, identityMu, follows, copies, updates, now, names, faults, switched>>

\* Mutant: the token is not marked.
useNothing(r) ==
  /\ In(r, "refresh", "use")
  /\ Goto(r, Step(r, "parse"))
  /\ UNCHANGED <<users, tokens, identityMu, follows, copies, updates, now, names, faults, crossed, switched>>

useToken(r) ==
  /\ In(r, "refresh", "use")
  /\ tokens' = [tokens EXCEPT ![calls[r].pair].status = "USED"]
  /\ Goto(r, Step(r, "parse"))
  /\ UNCHANGED <<users, identityMu, follows, copies, updates, now, names, faults, crossed, switched>>

\* The token's user and its root user are read again.
parseRefresh(r) ==
  /\ In(r, "refresh", "parse")
  /\ LET u == FindUserByID(tokens[calls[r].pair].id) IN
     IF tokens[calls[r].pair].valid /\ u # NoUser
     THEN Goto(r, [Step(r, "issue") EXCEPT !.target = u.id, !.row = getRootUser(u)])
     ELSE Return(r)
  /\ UNCHANGED <<users, tokens, identityMu, follows, copies, updates, now, names, faults, crossed, switched>>

\* An administrator gets a pair for the account the administrator has, which the pair
\* names as its own root user whatever its root user is.
AdminUserToken(i) ==
  /\ i \in DOMAIN users
  /\ GenerateTokenPair(i, i, 0)
  /\ crossed' = crossed \cup {<<"admin", Len(tokens) + 1>>}
  /\ UNCHANGED <<users, identityMu, follows, copies, updates, calls, now, names, faults, switched>>

ExpireAccess(k) ==
  /\ tokens[k].access
  /\ tokens' = [tokens EXCEPT ![k].access = FALSE]
  /\ UNCHANGED <<users, identityMu, follows, copies, updates, calls, now, names, faults, crossed, switched>>

\* The key is set with the token's own lifetime or, once used, with a new one:
\* it is never gone while the token is still valid.
ExpireRefresh(k) ==
  /\ tokens[k].status # "gone"
  /\ tokens' = [tokens EXCEPT ![k] = IF @.valid THEN [@ EXCEPT !.valid = FALSE] ELSE [@ EXCEPT !.status = "gone"]]
  /\ UNCHANGED <<users, identityMu, follows, copies, updates, calls, now, names, faults, crossed, switched>>

Refreshing(r) ==
  \/ \E k \in DOMAIN tokens : RefreshToken(r, k)
  \/ useToken(r) \/ parseRefresh(r) \/ issue(r)

Expiring == \E k \in DOMAIN tokens : ExpireAccess(k) \/ ExpireRefresh(k)

-----------------------------------------------------------------------------
(* Identities of a root user.                                               *)

\* requireCurrentRootUserID and requireRootIdentity.
rootUserOf(k) == IF ParseAndVerify(k) THEN FindUserByID(tokens[k].root) ELSE NoUser

CreateAnonymousIdentity(r, p, k) ==
  /\ Free(r) /\ Permitted(k) /\ rootUserOf(k) # NoUser
  /\ Goto(r, [Idle EXCEPT !.op = "anonymous", !.step = "lock", !.proc = p, !.row = rootUserOf(k)])
  /\ UNCHANGED <<users, tokens, identityMu, follows, copies, updates, now, names, faults, crossed, switched>>

\* Mutant: nothing is locked.
lockNothing(r) ==
  LET p == calls[r].proc root == calls[r].row.id IN
  /\ In(r, "anonymous", "lock")
  /\ IF FindUserByRootAndAccountType(root, "anonymous") = NoUser
     THEN /\ Goto(r, Step(r, "insert"))
          /\ crossed' = crossed \cup {<<"anonymous", root>> : q \in {q \in Others(r, "anonymous", "insert") :
                          calls[q].row.id = root /\ calls[q].proc # p}}
     ELSE Return(r) /\ UNCHANGED crossed
  /\ UNCHANGED <<users, tokens, identityMu, follows, copies, updates, now, names, faults, switched>>

lockIdentity(r) ==
  LET p == calls[r].proc root == calls[r].row.id IN
  /\ In(r, "anonymous", "lock") /\ identityMu[p] = None
  /\ IF FindUserByRootAndAccountType(root, "anonymous") = NoUser
     THEN /\ identityMu' = [identityMu EXCEPT ![p] = r]
          /\ Goto(r, Step(r, "insert"))
          /\ crossed' = crossed \cup {<<"anonymous", root>> : q \in {q \in Others(r, "anonymous", "insert") :
                          calls[q].row.id = root /\ calls[q].proc # p}}
     ELSE Return(r) /\ UNCHANGED <<identityMu, crossed>>
  /\ UNCHANGED <<users, tokens, follows, copies, updates, now, names, faults, switched>>

newAnonymousUser(root) ==
  [NoUser EXCEPT !.accountType = "anonymous", !.rootUserID = root.id, !.stuIsCheck = root.stuIsCheck,
                 !.provisionalExpiresAt = root.provisionalExpiresAt]

insertAnonymous(r) ==
  /\ In(r, "anonymous", "insert") /\ Len(users) < MaxUsers
  /\ users' = CreateUser(newAnonymousUser(calls[r].row))
  /\ Goto(r, [Step(r, "mark") EXCEPT !.target = Len(users) + 1])
  /\ UNCHANGED <<tokens, identityMu, follows, copies, updates, now, names, faults, crossed, switched>>

unlock(r) == identityMu' = [p \in Procs |-> IF identityMu[p] = r THEN None ELSE identityMu[p]]

UpdateUserLastSwitch(i, t) == [users EXCEPT ![i] = touch([@ EXCEPT !.lastSwitchID = t])]

markAnonymous(r) ==
  /\ In(r, "anonymous", "mark")
  /\ Save(r, UpdateUserLastSwitch(calls[r].target, calls[r].target), {})
  /\ unlock(r) /\ Return(r)
  /\ UNCHANGED <<tokens, follows, copies, updates, now, names, faults, switched>>

anonymousFails(r) ==
  /\ calls[r].op = "anonymous" /\ calls[r].step \in {"insert", "mark"} /\ Fault
  /\ unlock(r) /\ Return(r)
  /\ UNCHANGED <<users, tokens, follows, copies, updates, now, names, crossed, switched>>

targetIdentityByAccountType(root, type) ==
  IF type = "base" THEN root ELSE FindUserByRootAndAccountType(root.id, type)

SwitchIdentityByAccountType(r, k, type) ==
  /\ Free(r) /\ Permitted(k) /\ rootUserOf(k) # NoUser
  /\ LET root == rootUserOf(k) t == targetIdentityByAccountType(root, type) IN
     /\ t # NoUser
     /\ Goto(r, [Idle EXCEPT !.op = "switch", !.step = "persist", !.row = root, !.target = t.id])
  /\ UNCHANGED <<users, tokens, identityMu, follows, copies, updates, now, names, faults, crossed, switched>>

\* Logins of the root user that have read where it was.
loggingIn(root) ==
  {q \in Calls : calls[q].op = "login" /\ calls[q].step \in {"init", "grant", "active"} /\ calls[q].row.id = root}

switchToIdentity(r) ==
  LET root == calls[r].row.id t == calls[r].target IN
  /\ In(r, "switch", "persist")
  /\ IF rootOf(FindUserByID(t)) = root
     THEN /\ Save(r, UpdateUserLastSwitch(root, t), {<<"switch", root>> : q \in loggingIn(root)})
          /\ switched' = [switched EXCEPT ![root] = t]
          /\ Goto(r, Step(r, "issue"))
     ELSE Return(r) /\ UNCHANGED <<users, crossed, switched>>
  /\ UNCHANGED <<tokens, identityMu, follows, copies, updates, now, names, faults>>

UpdateAnonymousNickname(r, k) ==
  /\ Free(r) /\ Permitted(k) /\ rootUserOf(k) # NoUser
  /\ LET a == FindUserByRootAndAccountType(tokens[k].root, "anonymous") IN
     /\ a # NoUser /\ now - a.updatedAt >= NicknameWait
     /\ Goto(r, [Idle EXCEPT !.op = "rename", !.step = "write", !.target = a.id])
  /\ UNCHANGED <<users, tokens, identityMu, follows, copies, updates, now, names, faults, crossed, switched>>

\* Topics and comments are not told of an anonymous identity's new nickname.
writeNickname(r) ==
  LET i == calls[r].target IN
  /\ In(r, "rename", "write") /\ names < MaxNames
  /\ names' = names + 1
  /\ Save(r, [users EXCEPT ![i] = touch([@ EXCEPT !.nickname = names + 1])],
          {<<"profile", i>>, <<"renamed", i, names, now>>})
  /\ Return(r)
  /\ UNCHANGED <<tokens, identityMu, follows, copies, updates, now, faults, switched>>

Identity(r) ==
  \/ \E p \in Procs, k \in DOMAIN tokens : CreateAnonymousIdentity(r, p, k)
  \/ lockIdentity(r) \/ insertAnonymous(r) \/ markAnonymous(r) \/ anonymousFails(r)
  \/ \E k \in DOMAIN tokens, type \in {"base", "anonymous"} : SwitchIdentityByAccountType(r, k, type)
  \/ switchToIdentity(r) \/ issue(r)
  \/ \E k \in DOMAIN tokens : UpdateAnonymousNickname(r, k)
  \/ writeNickname(r)

-----------------------------------------------------------------------------
(* Certification by the school and by administrators.                       *)

\* Authenticate asks for an uncertified root user, ReAuthenticate for a certified one.
Authenticate(r, k, again) ==
  /\ Free(r) /\ rootUserOf(k) # NoUser /\ rootUserOf(k).stuIsCheck = again /\ (again => Permitted(k))
  /\ Goto(r, [Idle EXCEPT !.op = "certify", !.step = "save", !.row = rootUserOf(k)])
  /\ UNCHANGED <<users, tokens, identityMu, follows, copies, updates, now, names, faults, crossed, switched>>

\* Answers of the school's system: an HTTP status and a body, if it can be read,
\* with a code of its own.
JWAnswers == [status: {200, 401}, readable: BOOLEAN, code: {0, 200, 401}, isLogin: BOOLEAN]

normalizeJWCommonResp(a) == [a EXCEPT !.code = IF @ = 0 THEN a.status ELSE @]

\* doJSON returns what can be read whatever the status, and fails otherwise.
doJSON(a) == IF a.readable THEN {normalizeJWCommonResp(a)} ELSE {}

checkJWLogin(a) == \E b \in doJSON(a) : b.code = 200 /\ b.isLogin

\* One transaction over the root user and its anonymous identity. The school's
\* view of the table has no updated_at. The root user of an administrator's pair can
\* be an anonymous identity, which is then certified alone.
SaveAuthentication(r) ==
  LET root == calls[r].row.id IN
  /\ In(r, "certify", "save") /\ \E a \in JWAnswers : checkJWLogin(a)
  /\ Save(r, [i \in DOMAIN users |->
                IF i = root \/ (users[i].rootUserID = root /\ users[i].accountType = "anonymous")
                THEN [users[i] EXCEPT !.stuIsCheck = TRUE] ELSE users[i]],
          mirrorCrossed(({root} \cap certifying) \cup ({rootOf(users[root])} \ {root})))
  /\ Return(r)
  /\ UNCHANGED <<tokens, identityMu, follows, copies, updates, now, names, faults, switched>>

\* The school's system does not accept the user, or cannot be reached.
certifyFails(r) ==
  /\ In(r, "certify", "save") /\ \E a \in JWAnswers : ~checkJWLogin(a)
  /\ Return(r)
  /\ UNCHANGED <<users, tokens, identityMu, follows, copies, updates, now, names, faults, crossed, switched>>

ClearAuthenticationByRootUserID(root) ==
  [i \in DOMAIN users |->
     IF i \in FindUsersByRootUserID(root) THEN touch([users[i] EXCEPT !.stuIsCheck = FALSE]) ELSE users[i]]

ClearAuthentication(i) ==
  LET root == rootOf(FindUserByID(i)) IN
  /\ i \in DOMAIN users
  /\ Save(None, ClearAuthenticationByRootUserID(root), mirrorCrossed({root} \cap certifying))
  /\ UNCHANGED <<tokens, identityMu, follows, copies, updates, calls, now, names, faults, switched>>

\* Certification of one row, whatever its root user's other identities have.
setCheck(i, b) == [users EXCEPT ![i] = touch([@ EXCEPT !.stuIsCheck = b])]

\* A batch is worked off item by item.
PreAuthenticationBatch(i) ==
  /\ i \in DOMAIN users
  /\ Save(None, setCheck(i, TRUE), mirrorCrossed({rootOf(FindUserByID(i))}))
  /\ UNCHANGED <<tokens, identityMu, follows, copies, updates, calls, now, names, faults, switched>>

\* The message of such an edit carries no nickname and is left out.
editCertification(i, b) ==
  /\ i \in DOMAIN users
  /\ Save(None, setCheck(i, b), mirrorCrossed({rootOf(FindUserByID(i))}))
  /\ UNCHANGED <<tokens, identityMu, follows, copies, updates, calls, now, names, faults, switched>>

\* The user in an administrator's request. JSON leaves out the WeChat identity; a last
\* switch, which only a login reads, and an id of the request's own are left out here.
NewUsers ==
  {[NoUser EXCEPT !.accountType = type, !.rootUserID = root, !.stuIsCheck = check, !.provisionalExpiresAt = end] :
     type \in {"base", "anonymous"}, root \in 0..MaxUsers, check \in BOOLEAN, end \in {0, MaxTime + YearTicks}}

AddUser(u) ==
  /\ Len(users) < MaxUsers
  /\ users' = CreateUser(u)
  /\ crossed' = crossed \cup {<<"added", Len(users) + 1>>}
       \cup mirrorCrossed({i \in {u.rootUserID} : u.accountType = "anonymous" /\ FindUserByID(i).stuIsCheck # u.stuIsCheck})
  /\ UNCHANGED <<tokens, identityMu, follows, copies, updates, calls, now, names, faults, switched>>

Certifying(r) ==
  \/ \E k \in DOMAIN tokens, again \in BOOLEAN : Authenticate(r, k, again)
  \/ SaveAuthentication(r) \/ certifyFails(r)

Staff ==
  \/ \E i \in Ids : ClearAuthentication(i) \/ PreAuthenticationBatch(i) \/ \E b \in BOOLEAN : editCertification(i, b)
  \/ \E u \in NewUsers : AddUser(u)
  \/ \E i \in Ids : AdminUserToken(i)

-----------------------------------------------------------------------------
(* Nicknames and their copies.                                              *)

editing(u) == {q \in Calls : calls[q].op = "edit" /\ calls[q].target = u}
posting(u) == {q \in Calls : calls[q].op = "post" /\ calls[q].row.id = u}
onTheWay(u) == {m \in updates : m.user = u}

profileCrossed(u, S) == {<<"profile", u>> : q \in S}

\* Edit by the user and EditAdminUser write the row first.
editNickname(r, i) ==
  /\ Free(r) /\ i \in DOMAIN users /\ names < MaxNames
  /\ names' = names + 1
  /\ Save(r, [users EXCEPT ![i] = touch([@ EXCEPT !.nickname = names + 1])],
          profileCrossed(i, editing(i) \cup posting(i) \cup onTheWay(i)))
  /\ Goto(r, [Idle EXCEPT !.op = "edit", !.step = "topic", !.target = i, !.row = [NoUser EXCEPT !.nickname = names + 1]])
  /\ UNCHANGED <<tokens, identityMu, follows, copies, updates, now, faults, switched>>

Edit(r, k) == Permitted(k) /\ editNickname(r, tokens[k].id)

EditAdminUser(r, i) == editNickname(r, i)

\* Topics are told first, then comments; a message that cannot be sent is logged.
publishUserUpdate(r) ==
  LET u == calls[r].target IN
  /\ calls[r].op = "edit"
  /\ \/ /\ updates' = updates \cup {[queue |-> calls[r].step, user |-> u, nickname |-> calls[r].row.nickname]}
        /\ UNCHANGED <<faults, crossed>>
     \/ Fault /\ crossed' = crossed \cup {<<"profile", u>>} /\ UNCHANGED updates
  /\ IF calls[r].step = "topic" THEN Goto(r, Step(r, "comment")) ELSE Return(r)
  /\ UNCHANGED <<users, tokens, identityMu, follows, copies, now, names, switched>>

Rename(kind, m) ==
  copies' = [copies EXCEPT ![kind][m.user] = IF @ >= 0 THEN m.nickname ELSE @]

Consume(m, queue, rest) ==
  /\ m.queue = queue
  /\ updates' = (updates \ {m}) \cup rest
  /\ crossed' = crossed \cup profileCrossed(m.user, posting(m.user))
  /\ UNCHANGED <<users, tokens, identityMu, follows, calls, now, names, faults, switched>>

handleTopicUpdate(m) == Consume(m, "topic", {}) /\ Rename("topic", m)

\* The user's comments are updated first, what replies say of the user after them.
handleCommentUpdate(m) == Consume(m, "comment", {[m EXCEPT !.queue = "parent"]}) /\ Rename("comment", m)

updateParents(m) == Consume(m, "parent", {}) /\ Rename("parent", m)

\* A message that fails for good goes to the dead letters.
loseUpdate(m) ==
  /\ Fault
  /\ updates' = updates \ {m}
  /\ crossed' = crossed \cup {<<"profile", m.user>>}
  /\ UNCHANGED <<users, tokens, identityMu, follows, copies, calls, now, names, switched>>

\* A topic or a comment takes its author's nickname, a reply that of the comment it answers.
Post(r, u, kind) ==
  /\ Free(r) /\ u \in DOMAIN users /\ copies[kind][u] < 0
  /\ kind = "parent" => copies["comment"][u] >= 0
  /\ Goto(r, [Idle EXCEPT !.op = "post", !.step = kind, !.row =
       [FindUserByID(u) EXCEPT !.nickname = IF kind = "parent" THEN copies["comment"][u] ELSE @]])
  /\ UNCHANGED <<users, tokens, identityMu, follows, copies, updates, now, names, faults, crossed, switched>>

insertPost(r) ==
  /\ calls[r].op = "post"
  /\ copies' = [copies EXCEPT ![calls[r].step][calls[r].row.id] = calls[r].row.nickname]
  /\ Return(r)
  /\ UNCHANGED <<users, tokens, identityMu, follows, updates, now, names, faults, crossed, switched>>

Profile(r) ==
  \/ \E k \in DOMAIN tokens : Edit(r, k)
  \/ \E i \in Ids : EditAdminUser(r, i)
  \/ publishUserUpdate(r)
  \/ \E u \in Ids, kind \in Kinds : Post(r, u, kind)
  \/ insertPost(r)

Spreading == \E m \in updates : handleTopicUpdate(m) \/ handleCommentUpdate(m) \/ updateParents(m) \/ loseUpdate(m)

-----------------------------------------------------------------------------
(* Followers.                                                               *)

Follow(r, k, b) ==
  LET a == tokens[k].id IN
  /\ Free(r) /\ Permitted(k) /\ a # b /\ FindUserByID(b) # NoUser /\ ~IsFollowing(a, b)
  /\ Goto(r, [Idle EXCEPT !.op = "follow", !.step = "insert", !.row = FindUserByID(a), !.target = b])
  /\ crossed' = crossed \cup {<<"follow", a, b>> : q \in {q \in Others(r, "follow", "insert") :
                                calls[q].row.id = a /\ calls[q].target = b}}
  /\ UNCHANGED <<users, tokens, identityMu, follows, copies, updates, now, names, faults, switched>>

CreateFollow(r) ==
  /\ In(r, "follow", "insert")
  /\ follows' = [follows EXCEPT ![calls[r].row.id][calls[r].target] = @ + 1]
  /\ Return(r)
  /\ UNCHANGED <<users, tokens, identityMu, copies, updates, now, names, faults, crossed, switched>>

Unfollow(r, k, b) ==
  LET a == tokens[k].id IN
  /\ Free(r) /\ Permitted(k) /\ a # b /\ b \in Ids /\ IsFollowing(a, b)
  /\ Goto(r, [Idle EXCEPT !.op = "unfollow", !.step = "delete", !.row = FindUserByID(a), !.target = b])
  /\ UNCHANGED <<users, tokens, identityMu, follows, copies, updates, now, names, faults, crossed, switched>>

\* One document is deleted, whichever is found.
DeleteFollow(r) ==
  /\ In(r, "unfollow", "delete")
  /\ follows' = [follows EXCEPT ![calls[r].row.id][calls[r].target] = IF @ > 0 THEN @ - 1 ELSE 0]
  /\ Return(r)
  /\ UNCHANGED <<users, tokens, identityMu, copies, updates, now, names, faults, crossed, switched>>

Following(r) ==
  \/ \E k \in DOMAIN tokens, b \in Ids : Follow(r, k, b) \/ Unfollow(r, k, b)
  \/ CreateFollow(r) \/ DeleteFollow(r)

-----------------------------------------------------------------------------

Tick ==
  /\ now < MaxTime
  /\ now' = now + 1
  /\ UNCHANGED <<users, tokens, identityMu, follows, copies, updates, calls, names, faults, crossed, switched>>

\* The tables may hold rows and pairs from earlier.
AccountsStart(rows, pairs) ==
  /\ users = rows /\ tokens = pairs
  /\ identityMu = [p \in Procs |-> None]
  /\ follows = [a \in Ids |-> [b \in Ids |-> 0]]
  /\ copies = [k \in Kinds |-> [u \in Ids |-> -1]]
  /\ updates = {} /\ calls = [r \in Calls |-> Idle]
  /\ now = 0 /\ names = 0 /\ faults = 0 /\ crossed = {}
  /\ switched = [u \in Ids |-> 0]

AccountsInit == AccountsStart(<<>>, <<>>)

AccountsNext ==
  \/ \E r \in Calls : Login(r) \/ Refreshing(r) \/ Identity(r) \/ Certifying(r) \/ Profile(r) \/ Following(r)
  \/ Expiring \/ Staff \/ Spreading \/ Tick

-----------------------------------------------------------------------------
(* Properties.                                                              *)

\* Rows and pairs have their types, and identityMu of a process is held by one
\* of its requests that is about to insert or mark an anonymous identity:
\* it is given back on every way out of CreateAnonymousIdentity.
AccountsTypeOK ==
  /\ users \in Seq(User) /\ \A i \in DOMAIN users : users[i].id = i
  /\ \A k \in DOMAIN tokens : {tokens[k].id, tokens[k].root} \subseteq DOMAIN users /\ tokens[k].from \in 0..(k - 1)
  /\ \A p \in Procs : identityMu[p] # None =>
       LET c == calls[identityMu[p]] IN c.op = "anonymous" /\ c.proc = p /\ c.step \in {"insert", "mark"}

\* A WeChat identity has one account, and one for every request where first logins
\* run at the same time: a login that fails between CreateUser and
\* InitializeRootIdentity leaves a row that the next login uses.
OneAccountPerOpenId ==
  \A o \in OpenIds :
    Cardinality({i \in DOMAIN users : users[i].openId = o}) <= IF <<"first", o>> \in crossed THEN Cardinality(Calls) ELSE 1

\* CreateAnonymousIdentity gives a root user one anonymous identity, and one for
\* every process at most where two, which do not share identityMu, create it at the same
\* time. An identity that an administrator entered counts as the one of the root user.
OneAnonymousPerRoot ==
  \A i \in DOMAIN users :
    Cardinality({u \in ListIdentities(i) : u.accountType = "anonymous" /\ u.rootUserID = i /\ <<"added", u.id>> \notin crossed})
      <= IF <<"anonymous", i>> \in crossed THEN Cardinality(Procs) ELSE 1

\* The identity that a root user switched to last is the one its next login
\* starts with. Only a login that had read the row before the switch takes it back.
SwitchStands ==
  \A i \in DOMAIN users : switched[i] # 0 /\ <<"switch", i>> \notin crossed =>
    users[i].lastSwitchID = switched[i]

\* An anonymous identity is certified exactly if its root user is, as
\* SaveAuthentication, ClearAuthenticationByRootUserID and newAnonymousUser keep it;
\* an administrator's change of one row, a row entered by one and a change while the
\* identity is created part them.
MirrorsRoot ==
  \A i \in DOMAIN users, root \in DOMAIN users :
    users[i].accountType = "anonymous" /\ users[i].rootUserID = root /\ <<"mirror", root>> \notin crossed =>
      users[i].stuIsCheck = users[root].stuIsCheck

\* A provisional certificate opens nothing outside its season, whenever it was
\* granted or copied to an anonymous identity, unless an administrator entered its end.
ProvisionalInSeason ==
  \A k \in DOMAIN tokens : CertifiedUserCheck(k) /\ <<"added", certificationSubjectID(k)>> \notin crossed =>
    isInProvisionalWindow(now) \/ FindUserByID(certificationSubjectID(k)).stuIsCheck

\* Every pair names an identity of the root user it names, through logins, switches
\* and refreshes; that of an administrator, or of a user that an administrator entered,
\* can name one account as both.
TokensBelong ==
  \A k \in DOMAIN tokens :
    \/ tokens[k].root = rootOf(FindUserByID(tokens[k].id))
    \/ tokens[k].root = tokens[k].id /\ crossed \cap {<<"admin", k>>, <<"added", tokens[k].id>>} # {}

\* A refresh token is good for one new pair, unless two requests had read its
\* status before either marked it USED.
RefreshedOnce ==
  \A k \in DOMAIN tokens : <<"refresh", k>> \notin crossed => Cardinality({j \in DOMAIN tokens : tokens[j].from = k}) <= 1

\* Once every update has been published and handled, topics, comments and
\* replies show the nickname of their user. Exempt are users whose edits
\* overlapped each other or a post, whose message was lost, and anonymous
\* identities renamed by UpdateAnonymousNickname, which tells nobody.
ProfilesAgree ==
  \A u \in DOMAIN users, kind \in Kinds :
    copies[kind][u] >= 0 /\ <<"profile", u>> \notin crossed /\ editing(u) \cup onTheWay(u) = {} =>
      copies[kind][u] = users[u].nickname

\* CountFollowers counts a follower once, and CountFollowings a followed user,
\* unless the same follow was requested twice at the same time.
FollowedOnce ==
  \A u \in Ids :
    /\ (\A a \in Ids : <<"follow", a, u>> \notin crossed) => CountFollowers(u) <= Cardinality({a \in Ids : IsFollowing(a, u)})
    /\ (\A b \in Ids : <<"follow", u, b>> \notin crossed) => CountFollowings(u) <= Cardinality({b \in Ids : IsFollowing(u, b)})

\* An anonymous identity is renamed once in the time that UpdateAnonymousNickname asks
\* to wait. Requests that all checked the wait before another change was written
\* rename it once each, and no more.
NicknamesRest ==
  \A i \in DOMAIN users, t \in 0..now :
    Cardinality({c \in crossed : c[1] = "renamed" /\ c[2] = i /\ c[4] \in t..(t + NicknameWait - 1)})
      <= IF <<"rename", i>> \in crossed THEN Cardinality(Calls) ELSE 1

\* The rows about one person agree: one account, one anonymous identity certified like
\* it, the identity switched to last, the same name wherever it is copied, follows
\* that are counted once and renames that wait. Requests that overlap and rows that
\* administrators write by hand part them, the first no further than stated.
AccountsAgree ==
  /\ AccountsTypeOK
  /\ OneAccountPerOpenId
  /\ OneAnonymousPerRoot
  /\ SwitchStands
  /\ MirrorsRoot
  /\ ProfilesAgree
  /\ FollowedOnce
  /\ NicknamesRest

\* A pair of tokens stands for an identity of its root user, is refreshed once, and
\* passes for certified only while its user is.
TokensAgree ==
  /\ TokensBelong
  /\ RefreshedOnce
  /\ ProvisionalInSeason
=============================================================================
