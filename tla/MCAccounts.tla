----------------------------- MODULE MCAccounts -----------------------------
(***************************************************************************)
(* An instance of Accounts, AdminSessions, Sensitive and Terms for TLC.    *)
(* They share no state.  Each behaviour stays with one part of one of      *)
(* them, so that the parts add up and do not multiply. The part profile    *)
(* changes two names, staff has one request at a time besides what         *)
(* administrators do at once, and in session the first pair expires:       *)
(*   login     first and later logins over more than a year                *)
(*   identity  an anonymous identity while the school certifies            *)
(*   switch    switches and logins                                         *)
(*   rename    nicknames of an anonymous identity                          *)
(*   refresh   pairs of tokens that are refreshed and expire               *)
(*   profile   a nickname and its copies                                   *)
(*   follow    followers                                                   *)
(*   staff     what administrators do to two users                         *)
(*   guess     administrators that log in with right and wrong passwords   *)
(*   session   administrators' sessions                                    *)
(*   words     changes of the table of sensitive words                     *)
(*   mask      filtering every short text with every set of words          *)
(*   terms, themes                                                         *)
(***************************************************************************)
EXTENDS Accounts, AdminSessions, Sensitive, Terms, TLC

CONSTANTS p1, p2, r1, r2, o1

VARIABLE part

Symmetry == Permutations(Calls) \cup Permutations(Procs)

MCWords == {<<"a">>, <<"a", "b">>, <<"b", "a">>, <<"a", "a", "b">>}
MCTexts == UNION {[1..n -> {"a", "A", "I", "b", " ", "~"}] : n \in 0..4}
MCThemes == <<"daily", "food">>

Root(o) == [NoUser EXCEPT !.id = 1, !.openId = o, !.rootUserID = 1, !.lastSwitchID = 1, !.stuIsCheck = TRUE]
Anonymous == [NoUser EXCEPT !.id = 2, !.accountType = "anonymous", !.rootUserID = 1, !.lastSwitchID = 2, !.stuIsCheck = TRUE]
Pair(i, root) == [id |-> i, root |-> root, from |-> 0, access |-> TRUE, valid |-> TRUE, status |-> "OK"]

RootOnly == \E o \in OpenIds, b \in BOOLEAN : AccountsStart(<<[Root(o) EXCEPT !.stuIsCheck = b]>>, <<Pair(1, 1)>>)
Both == \E o \in OpenIds : AccountsStart(<<Root(o), Anonymous>>, <<Pair(1, 1)>>)
Hidden == \E o \in OpenIds : AccountsStart(<<Root(o), Anonymous>>, <<Pair(2, 1)>>)
Two == AccountsStart(<<Root(None), [Root(None) EXCEPT !.id = 2, !.rootUserID = 2, !.lastSwitchID = 2]>>, <<Pair(1, 1), Pair(2, 2)>>)

Creating(r) ==
  \/ \E p \in Procs, k \in DOMAIN tokens : CreateAnonymousIdentity(r, p, k)
  \/ lockIdentity(r) \/ insertAnonymous(r) \/ markAnonymous(r) \/ anonymousFails(r)

Switching(r) ==
  \/ \E k \in DOMAIN tokens, type \in {"base", "anonymous"} : SwitchIdentityByAccountType(r, k, type)
  \/ switchToIdentity(r)

Renaming(r) == writeNickname(r) \/ \E k \in DOMAIN tokens : UpdateAnonymousNickname(r, k)

\* Nicknames and posts of the first user.
FirstProfile(r) ==
  \/ Edit(r, 1) \/ EditAdminUser(r, 1) \/ publishUserUpdate(r) \/ insertPost(r)
  \/ \E kind \in Kinds : Post(r, 1, kind)

AccountsPart ==
  \/ part = "login" /\ (Tick \/ \E r \in Calls : Login(r))
  \/ part = "identity" /\ (\E r \in Calls : Creating(r) \/ Certifying(r))
  \/ part = "identity" /\ (\E i \in Ids : ClearAuthentication(i))
  \/ part = "switch" /\ \E r \in Calls : Switching(r) \/ Login(r)
  \/ part = "rename" /\ (Tick \/ (\E r \in Calls : Renaming(r)) \/ \E i \in Ids : PreAuthenticationBatch(i))
  \/ part = "refresh" /\ (Expiring \/ \E r \in Calls : Refreshing(r))
  \/ part = "profile" /\ (Spreading \/ \E r \in Calls : FirstProfile(r)) /\ names' <= 2
  \/ part = "follow" /\ (\E r \in Calls : Following(r))
  \/ part = "staff" /\ (Staff \/ \E r \in Calls : Certifying(r)) /\ \E r \in Calls : calls'[r] = Idle

AdminPart ==
  \/ part = "guess" /\ (expireCounter \/ expireLock \/ \E r \in Requests : LoggingIn(r))
  \/ /\ part = "session"
     /\ \/ \E r \in Requests : RefreshingAdmin(r) \/ (LoggingIn(r) /\ reqs'[r].input = "right")
        \/ \E k \in DOMAIN pairs \cap {1} : expireAccess(k) \/ expireRefresh(k)

\* In the part words two words are added and deleted.
SensitivePart ==
  \/ part = "words" /\ (\E e \in Editors : Editing(e)) /\ \A e \in Editors : work'[e].word \in {<<>>, <<"a">>, <<"a", "b">>}
  \/ part = "mask" /\ shown.in = <<>> /\ \E text \in Texts : FilterText(p1, text)

TermsPart ==
  \/ part = "terms" /\ TermsNext
  \/ part = "themes" /\ ThemesNext

Starts ==
  /\ CASE part = "identity" -> RootOnly
       [] part \in {"switch", "rename"} -> Both
       [] part = "refresh" -> Hidden
       [] part \in {"profile", "follow", "staff"} -> Two
       [] OTHER -> AccountsInit
  /\ AdminInit /\ (part # "guess" => stored = "bcrypt")
  /\ IF part = "mask" THEN \E ws \in SUBSET Words : SensitiveStart(ws) ELSE SensitiveStart({})
  /\ TermsInit

MCInit == part \in {"login", "identity", "switch", "rename", "refresh", "profile", "follow", "staff", "guess", "session", "words", "mask", "terms", "themes"} /\ Starts
MCNext ==
  /\ \/ AccountsPart /\ UNCHANGED <<adminVars, sensVars, termVars>>
     \/ AdminPart /\ UNCHANGED <<acctVars, sensVars, termVars>>
     \/ SensitivePart /\ UNCHANGED <<acctVars, adminVars, termVars>>
     \/ TermsPart /\ UNCHANGED <<acctVars, adminVars, sensVars>>
  /\ UNCHANGED part
MCSpec == MCInit /\ [][MCNext]_<<acctVars, adminVars, sensVars, termVars, part>>
=============================================================================
