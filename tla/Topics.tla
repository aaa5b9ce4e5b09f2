------------------------------- MODULE Topics -------------------------------
(***************************************************************************)
(* Topics (src/internal/topic) and the consumers that check and clean them *)
(* up (src/internal/mq).                                                   *)
(*                                                                         *)
(* A topic is a MongoDB document; hasCheck says whether it is shown.  The  *)
(* topics a user likes or has collected are an array in a document of the  *)
(* user, the number of likes and collections is a field of the topic.      *)
(* MongoDB executes one statement on one document at a time: each is a     *)
(* step, and so is the read a handler acts on.  There is no unique index   *)
(* on the users' documents: an upsert that finds none inserts one later.   *)
(***************************************************************************)
EXTENDS Integers, Sequences, FiniteSets, FiniteSetsExt

CONSTANTS Topics, Users, Calls,
          RootOf, KindOf,    \* root_user_id and account_type of a user
          CollectionLimit,   \* 500
          MaxVersions,       \* bound: texts written for one topic
          MaxFaults,         \* bound: failing statements, lost and repeated messages
          None

ASSUME TopicsAssumption ==
  /\ RootOf \in [Users -> Users] /\ KindOf \in [Users -> {"base", "anonymous"}]
  /\ {CollectionLimit, MaxVersions, MaxFaults} \subseteq Nat
  /\ None \notin Users \cup Topics

Colls == {"like", "collection"}
\* Who cleans up: consumers of two delete messages at most, and an administrator's request.
Consumers == {"consumer", "second consumer"}
Cleaners == Consumers \cup {"admin"}

VARIABLES topics,      \* campus_topic: author, shown (hasCheck), text; None without a document
          versions,    \* texts written for each topic so far
          checks,      \* the check message of each topic, and the text the consumer read
          cleanups,    \* clean-up after a deletion: by consumers, by an administrator
          stateDocs,   \* campus_topic_like, campus_topic_collection: documents of each user
          nums,        \* likeNum and collectionNum
          calls,       \* requests to like, unlike, collect and uncollect
          cleared,     \* history: texts an administrator wrote or the check let through
          waived,      \* history: topics whose author asked for hasCheck
          gone,        \* history: topics deleted, and not shown again by their author
          crossed,     \* history: topics deleted or edited before their check was done
          drifted,     \* history: counts a clean-up or a failure left as they were
          overlapped,  \* history: <<collection, user>> with two requests at a time
          late,        \* history: topics hidden while a request for them was under way
          faults

topicVars == <<topics, versions, checks>>
socialVars == <<stateDocs, nums, calls>>
topicPast == <<cleared, waived, gone, crossed>>
socialPast == <<drifted, overlapped, late>>
tvars == <<topicVars, cleanups, socialVars, topicPast, socialPast, faults>>

NoCall == [step |-> "idle", coll |-> None, user |-> None, topic |-> None]
NoCheck == [step |-> "none", text |-> 0]

TopicsInit ==
  /\ topics = [t \in Topics |-> None]
  /\ versions = [t \in Topics |-> 0]
  /\ checks = [t \in Topics |-> NoCheck]
  /\ cleanups = [t \in Topics |-> [w \in Cleaners |-> "no"]]
  /\ stateDocs = [k \in Colls |-> [u \in Users |-> <<>>]]
  /\ nums = [k \in Colls |-> [t \in Topics |-> 0]]
  /\ calls = [r \in Calls |-> NoCall]
  /\ cleared = {} /\ waived = {} /\ gone = {} /\ crossed = {}
  /\ drifted = {} /\ overlapped = {} /\ late = {} /\ faults = 0

Fault == faults < MaxFaults /\ faults' = faults + 1
NoFault == UNCHANGED faults

Exists(t) == topics[t] # None
Shown(t) == Exists(t) /\ topics[t].shown
getTopicByID(t, onlyChecked) == IF onlyChecked THEN Shown(t) ELSE Exists(t)
CheckPending(t) == checks[t].step \in {"queued", "read"}

----------------------------------------------------------------------------
(* Writing *)

\* Topics are written under the root account or under its anonymous identity.
FindUserByRootAndAccountType(root, kind) ==
  {a \in Users : RootOf[a] = root /\ KindOf[a] = kind}
resolveTopicAuthor(u, kind) ==
  IF kind = "anonymous" THEN FindUserByRootAndAccountType(RootOf[u], "anonymous")
  ELSE {RootOf[u]}
resolveAdminTopicAuthor(u, kind) == resolveTopicAuthor(u, kind)

Write(t, a, shown) ==
  /\ topics' = [topics EXCEPT ![t] = [author |-> a, shown |-> shown, text |-> 1]]
  /\ versions' = [versions EXCEPT ![t] = 1]
CreateTopic(t, a, shown) == ~Exists(t) /\ Write(t, a, shown)

SendTopicCheck(t) == checks' = [checks EXCEPT ![t] = [step |-> "queued", text |-> 0]]

\* The topic is hidden until its check; a check that cannot be sent is only logged.
Create(u, kind, t) ==
  /\ \E a \in resolveTopicAuthor(u, kind) : CreateTopic(t, a, FALSE)
  /\ \/ SendTopicCheck(t) /\ NoFault
     \/ UNCHANGED checks /\ Fault
  /\ UNCHANGED <<cleanups, socialVars, topicPast, socialPast>>

\* What an administrator writes is shown at once, as it is.
buildAdminTopic(t, a) == Write(t, a, TRUE) /\ cleared' = cleared \cup {<<t, 1>>}
CreateAdmin(u, kind, t) ==
  /\ ~Exists(t)
  /\ \E a \in resolveAdminTopicAuthor(u, kind) : buildAdminTopic(t, a)
  /\ UNCHANGED <<checks, cleanups, socialVars, waived, gone, crossed, socialPast, faults>>

NewText(t) == versions[t] + 1
UpdateTopic(t, text, shown) ==
  topics' = [topics EXCEPT ![t].text = text, ![t].shown = shown]

\* The author edits: the topic is hidden unless the request says hasCheck, and no
\* new check is sent.  The request may change the text, hasCheck or both.
Update(u, t, changed, hasCheck) ==
  /\ Exists(t) /\ topics[t].author = u
  /\ changed \/ hasCheck # None
  /\ changed => versions[t] < MaxVersions
  /\ UpdateTopic(t, IF changed THEN NewText(t) ELSE topics[t].text, hasCheck = TRUE)
  /\ versions' = IF changed THEN [versions EXCEPT ![t] = NewText(t)] ELSE versions
  /\ waived' = IF hasCheck = TRUE THEN waived \cup {t} ELSE waived
  /\ gone' = IF hasCheck = TRUE THEN gone \ {t} ELSE gone
  /\ crossed' = IF changed /\ checks[t].step = "read" THEN crossed \cup {<<t, "edit">>} ELSE crossed
  /\ UNCHANGED <<checks, cleanups, socialVars, cleared, socialPast, faults>>

\* An administrator edits: hasCheck stays.
UpdateTopicAdmin(t, text) == UpdateTopic(t, text, topics[t].shown)
UpdateAdmin(t) ==
  /\ Exists(t) /\ versions[t] < MaxVersions
  /\ UpdateTopicAdmin(t, NewText(t))
  /\ versions' = [versions EXCEPT ![t] = NewText(t)]
  /\ cleared' = cleared \cup {<<t, NewText(t)>>}
  /\ crossed' = IF checks[t].step = "read" THEN crossed \cup {<<t, "edit">>} ELSE crossed
  /\ UNCHANGED <<checks, cleanups, socialVars, waived, gone, socialPast, faults>>

----------------------------------------------------------------------------
(* The check: the consumer reads the topic, asks, and writes what it read *)

checkRead(t) ==
  /\ checks[t].step = "queued"
  /\ checks' = [checks EXCEPT ![t] = [step |-> "read", text |-> topics[t].text]]
  /\ UNCHANGED <<topics, versions, cleanups, socialVars, topicPast, socialPast, faults>>

CheckDone(t) == checks' = [checks EXCEPT ![t].step = "done"]

\* Mutant: only hasCheck is written.
passFlag(t) == [topics[t] EXCEPT !.shown = TRUE]

\* Title, content and images are written back as they were read and filtered.
passed(t) == [topics[t] EXCEPT !.shown = TRUE, !.text = checks[t].text]

handleTopicCheck(t) ==
  /\ checks[t].step = "read"
  /\ topics' = [topics EXCEPT ![t] = passed(t)]
  /\ cleared' = cleared \cup {<<t, checks[t].text>>}
  /\ CheckDone(t)
  /\ UNCHANGED <<versions, cleanups, socialVars, waived, gone, crossed, socialPast, faults>>

\* A risky text leaves the topic as it is.
isRisky(t) ==
  /\ checks[t].step = "read"
  /\ CheckDone(t)
  /\ UNCHANGED <<topics, versions, cleanups, socialVars, topicPast, socialPast, faults>>

\* After an error the handler starts again, and after its third the message goes to the
\* die queue; the write of an attempt may have been made although it reports an error.
checkFails(t) ==
  /\ CheckPending(t) /\ Fault
  /\ CheckDone(t) \/ SendTopicCheck(t)
  /\ \/ UNCHANGED <<topics, cleared>>
     \/ /\ checks[t].step = "read"
        /\ topics' = [topics EXCEPT ![t] = passed(t)]
        /\ cleared' = cleared \cup {<<t, checks[t].text>>}
  /\ UNCHANGED <<versions, cleanups, socialVars, waived, gone, crossed, socialPast>>

\* The broker delivers again what was handled and not acknowledged.
checkAgain(t) ==
  /\ checks[t].step = "done" /\ Fault
  /\ SendTopicCheck(t)
  /\ crossed' = IF t \in gone THEN crossed \cup {<<t, "delete">>} ELSE crossed
  /\ UNCHANGED <<topics, versions, cleanups, socialVars, cleared, waived, gone, socialPast>>

----------------------------------------------------------------------------
(* Deletion: the topic is hidden, likes, collections and comments follow *)

Underway(t) == \E r \in Calls : calls[r].topic = t /\ calls[r].step \in {"found", "inserting"}

hideTopic(t) ==
  /\ Exists(t)
  /\ topics' = [topics EXCEPT ![t].shown = FALSE]
  /\ gone' = gone \cup {t}
  /\ crossed' = IF CheckPending(t) THEN crossed \cup {<<t, "delete">>} ELSE crossed
  /\ late' = IF Underway(t) THEN late \cup {t} ELSE late
HideTopicByUser(t, u) == hideTopic(t) /\ topics[t].author = u
HideTopicAdmin(t) == hideTopic(t)

SetCleanup(t, w, step) == cleanups' = [cleanups EXCEPT ![t][w] = step]
Cleaning(t, w) == cleanups[t][w] \in {"likes", "collections", "comments"}

\* Every deletion sends a message; the next one may be handled at the same time.
SendDeleteTopic(t) ==
  LET w == IF Cleaning(t, "consumer") THEN "second consumer" ELSE "consumer" IN
  ~Cleaning(t, w) /\ SetCleanup(t, w, "likes")

\* A message that cannot be sent is only logged.
Delete(u, t) ==
  /\ HideTopicByUser(t, u)
  /\ \/ SendDeleteTopic(t) /\ NoFault
     \/ UNCHANGED cleanups /\ Fault
  /\ UNCHANGED <<versions, checks, socialVars, cleared, waived, drifted, overlapped>>

\* The administrator's request cleans up by itself, and can be made again.
DeleteAdmin(t) ==
  /\ ~Cleaning(t, "admin")
  /\ HideTopicAdmin(t)
  /\ SetCleanup(t, "admin", "likes")
  /\ UNCHANGED <<versions, checks, socialVars, cleared, waived, drifted, overlapped, faults>>

CollOf(step) == IF step = "likes" THEN "like" ELSE "collection"
NextStep(step) == IF step = "likes" THEN "collections" ELSE "comments"

\* Mutant: one document is updated, not all of them.
pullFromOne(k, t) ==
  LET u == CHOOSE x \in Users : t \in UNION {stateDocs[k][x][i] : i \in DOMAIN stateDocs[k][x]} \/
                                \A y \in Users : t \notin UNION {stateDocs[k][y][i] : i \in DOMAIN stateDocs[k][y]} IN
  [stateDocs[k] EXCEPT ![u] = [i \in DOMAIN @ |-> @[i] \ {t}]]

removeTopicFromStateCollection(k, t) ==
  [u \in Users |-> [i \in DOMAIN stateDocs[k][u] |-> stateDocs[k][u][i] \ {t}]]

\* The counts of the topic stay as they are.
pull(t, w) ==
  /\ cleanups[t][w] \in {"likes", "collections"}
  /\ LET k == CollOf(cleanups[t][w]) IN
     /\ stateDocs' = [stateDocs EXCEPT ![k] = removeTopicFromStateCollection(k, t)]
     /\ drifted' = drifted \cup {<<k, t>>}
  /\ SetCleanup(t, w, NextStep(cleanups[t][w]))
  /\ UNCHANGED <<topicVars, nums, calls, topicPast, overlapped, late, faults>>

\* A statement fails: the administrator's request stops, the consumer goes on.
pullFails(t, w, step) ==
  /\ cleanups[t][w] \in {"likes", "collections"} /\ Fault
  /\ SetCleanup(t, w, step)
  /\ late' = late \cup {t}
  /\ UNCHANGED <<topicVars, socialVars, topicPast, drifted, overlapped>>

handleTopicDelete(t) ==
  \E w \in Consumers : pull(t, w) \/ pullFails(t, w, NextStep(cleanups[t][w]))
CleanupDeletedTopic(t) == pull(t, "admin") \/ pullFails(t, "admin", "failed")

----------------------------------------------------------------------------
(* Likes and collections *)

Goto(r, step) == calls' = [calls EXCEPT ![r].step = step]
Done(r) == calls' = [calls EXCEPT ![r] = NoCall]
InUse(k, u) == \E r \in Calls : calls[r].coll = k /\ calls[r].user = u
Start(r, step, k, u, t) ==
  /\ calls[r] = NoCall
  /\ calls' = [calls EXCEPT ![r] = [step |-> step, coll |-> k, user |-> u, topic |-> t]]
  /\ overlapped' = IF InUse(k, u) THEN overlapped \cup {<<k, u>>} ELSE overlapped

\* FindOne and UpdateOne meet the first document of the user.
FindTopicStateDocs(k, u) == IF stateDocs[k][u] = <<>> THEN {} ELSE stateDocs[k][u][1]

CountTopicStateItems(k, u) == Cardinality(FindTopicStateDocs(k, u))

LikeTopic(r, u, t) ==
  /\ getTopicByID(t, TRUE)
  /\ Start(r, "found", "like", u, t)
  /\ UNCHANGED <<topicVars, cleanups, stateDocs, nums, topicPast, drifted, late, faults>>

CollectTopic(r, u, t) ==
  /\ getTopicByID(t, TRUE)
  /\ CountTopicStateItems("collection", u) < CollectionLimit
  /\ Start(r, "found", "collection", u, t)
  /\ UNCHANGED <<topicVars, cleanups, stateDocs, nums, topicPast, drifted, late, faults>>

\* $addToSet on a document that is there; the result says whether it changed.
AddTopicState(r) ==
  LET k == calls[r].coll
      u == calls[r].user
      t == calls[r].topic IN
  /\ calls[r].step = "found" /\ stateDocs[k][u] # <<>>
  /\ IF t \in FindTopicStateDocs(k, u)
       THEN Done(r) /\ UNCHANGED stateDocs
       ELSE /\ stateDocs' = [stateDocs EXCEPT ![k][u][1] = @ \cup {t}]
            /\ Goto(r, "added")
  /\ UNCHANGED <<topicVars, cleanups, nums, topicPast, socialPast, faults>>

\* The upsert found no document; it inserts one, whatever came in between.
upsertMisses(r) ==
  /\ calls[r].step = "found" /\ stateDocs[calls[r].coll][calls[r].user] = <<>>
  /\ Goto(r, "inserting")
  /\ UNCHANGED <<topicVars, cleanups, stateDocs, nums, topicPast, socialPast, faults>>
upsertInserts(r) ==
  /\ calls[r].step = "inserting"
  /\ stateDocs' = [stateDocs EXCEPT ![calls[r].coll][calls[r].user] = Append(@, {calls[r].topic})]
  /\ Goto(r, "added")
  /\ UNCHANGED <<topicVars, cleanups, nums, topicPast, socialPast, faults>>

\* After an error nothing is counted, whether or not the statement was carried out.
addFails(r) ==
  LET k == calls[r].coll
      u == calls[r].user
      t == calls[r].topic IN
  /\ calls[r].step \in {"found", "inserting"} /\ Fault
  /\ \/ UNCHANGED <<stateDocs, drifted>>
     \/ /\ stateDocs' = [stateDocs EXCEPT ![k][u] =
             IF calls[r].step = "inserting" \/ @ = <<>> THEN Append(@, {t}) ELSE [@ EXCEPT ![1] = @ \cup {t}]]
        /\ drifted' = drifted \cup {<<k, t>>}
  /\ Done(r)
  /\ UNCHANGED <<topicVars, cleanups, nums, topicPast, overlapped, late>>

\* Mutant: the count changes whether or not the document did.
RemoveAlways(r, k, u, t) ==
  /\ stateDocs[k][u] # <<>>
  /\ stateDocs' = [stateDocs EXCEPT ![k][u][1] = @ \ {t}]
  /\ Start(r, "removed", k, u, t)

\* $pull; a document without the topic does not change, and neither does the count.
RemoveTopicState(r, k, u, t) ==
  /\ t \in FindTopicStateDocs(k, u)
  /\ stateDocs' = [stateDocs EXCEPT ![k][u][1] = @ \ {t}]
  /\ Start(r, "removed", k, u, t)

removeFails(k, u, t) ==
  /\ t \in FindTopicStateDocs(k, u) /\ Fault
  /\ stateDocs' = [stateDocs EXCEPT ![k][u][1] = @ \ {t}]
  /\ drifted' = drifted \cup {<<k, t>>}
  /\ UNCHANGED <<topicVars, cleanups, nums, calls, topicPast, overlapped, late>>

UnlikeTopic(r, u, t) ==
  /\ RemoveTopicState(r, "like", u, t)
  /\ UNCHANGED <<topicVars, cleanups, nums, topicPast, drifted, late, faults>>
UncollectTopic(r, u, t) ==
  /\ RemoveTopicState(r, "collection", u, t)
  /\ UNCHANGED <<topicVars, cleanups, nums, topicPast, drifted, late, faults>>

Delta(step) == IF step = "added" THEN 1 ELSE -1
IncrementTopicField(r) ==
  /\ calls[r].step \in {"added", "removed"}
  /\ nums' = [nums EXCEPT ![calls[r].coll][calls[r].topic] = @ + Delta(calls[r].step)]
  /\ Done(r)
  /\ UNCHANGED <<topicVars, cleanups, stateDocs, topicPast, socialPast, faults>>

\* A count that cannot be changed is only logged.
incrementFails(r) ==
  /\ calls[r].step \in {"added", "removed"} /\ Fault
  /\ drifted' = drifted \cup {<<calls[r].coll, calls[r].topic>>}
  /\ Done(r)
  /\ UNCHANGED <<topicVars, cleanups, stateDocs, nums, topicPast, overlapped, late>>

----------------------------------------------------------------------------
(* Reading *)

FindTopicsByIDs(T) == {t \in T : Shown(t)}
findByIDs(T) == FindTopicsByIDs(T)
listTopicsFromArrayDocs(k, u) == findByIDs(FindTopicStateDocs(k, u))
ListLikedTopics(u) == listTopicsFromArrayDocs("like", u)
ListCollectedTopics(u) == listTopicsFromArrayDocs("collection", u)

\* Pages, themes, words and the order are left out.
FindTopicsPage(A, onlyChecked) == {t \in Topics : getTopicByID(t, onlyChecked) /\ topics[t].author \in A}
listByFilter(A) == FindTopicsPage(A, TRUE)
SearchHotTopics == FindTopicsPage(Users, TRUE)
searchHot == SearchHotTopics
Search(byTime) == IF byTime THEN listByFilter(Users) ELSE searchHot
ListMine(u) == listByFilter({u})
ListTargetUserTopics(u) == listByFilter({u})
ListAdmin == FindTopicsPage(Users, FALSE)

\* The topics some list shows to users.
Listed ==
  Search(TRUE) \cup Search(FALSE)
    \cup UNION {ListMine(u) \cup ListTargetUserTopics(u) \cup ListLikedTopics(u) \cup ListCollectedTopics(u)
                : u \in Users}

----------------------------------------------------------------------------
Writing(t) ==
  \/ \E u \in Users, kind \in {"base", "anonymous"} : Create(u, kind, t) \/ CreateAdmin(u, kind, t)
  \/ \E u \in Users, changed \in BOOLEAN, hasCheck \in {None, TRUE, FALSE} : Update(u, t, changed, hasCheck)
  \/ UpdateAdmin(t)
Checking(t) ==
  checkRead(t) \/ handleTopicCheck(t) \/ isRisky(t) \/ checkFails(t) \/ checkAgain(t)
Deleting(t) ==
  (\E u \in Users : Delete(u, t)) \/ DeleteAdmin(t) \/ handleTopicDelete(t) \/ CleanupDeletedTopic(t)
Marking(r) ==
  \/ \E u \in Users, t \in Topics :
       LikeTopic(r, u, t) \/ UnlikeTopic(r, u, t) \/ CollectTopic(r, u, t) \/ UncollectTopic(r, u, t)
  \/ AddTopicState(r) \/ upsertMisses(r) \/ upsertInserts(r) \/ addFails(r)
  \/ IncrementTopicField(r) \/ incrementFails(r)
  \/ \E k \in Colls, u \in Users, t \in Topics : removeFails(k, u, t)

TopicsNext ==
  \/ \E t \in Topics : Writing(t) \/ Checking(t) \/ Deleting(t)
  \/ \E r \in Calls : Marking(r)

----------------------------------------------------------------------------
(* Properties *)

Holding(k, t) == {<<u, i>> \in Users \X (1..Cardinality(Calls)) :
                    i \in DOMAIN stateDocs[k][u] /\ t \in stateDocs[k][u][i]}
InStep(k, t, step) == {r \in Calls : calls[r].step = step /\ calls[r].coll = k /\ calls[r].topic = t}

\* Topics, the users' documents and the requests have the form the code gives them.
TopicsTypeOK ==
  /\ \A t \in Topics :
       topics[t] = None \/ topics[t] \in [author : Users, shown : BOOLEAN, text : 1..MaxVersions]
  /\ checks \in [Topics -> [step : {"none", "queued", "read", "done"}, text : 0..MaxVersions]]
  /\ cleanups \in [Topics -> [Cleaners -> {"no", "likes", "collections", "comments", "done", "failed"}]]
  /\ \A k \in Colls, u \in Users : Len(stateDocs[k][u]) <= Cardinality(Calls)
  /\ \A t \in Topics : (t \in waived \cup gone \/ versions[t] > 0 \/ checks[t] # NoCheck) => Exists(t)

\* likeNum and collectionNum: together with the increments still to come they count
\* the documents that hold the topic, unless a clean-up emptied documents or an
\* statement failed.  LikeTopic and UnlikeTopic increment only when the statement
\* says that it changed the document.
CountsAgree ==
  \A k \in Colls, t \in Topics :
    <<k, t>> \notin drifted =>
      nums[k][t] + Cardinality(InStep(k, t, "added")) - Cardinality(InStep(k, t, "removed"))
        = Cardinality(Holding(k, t))

\* A user counts once for a topic, and holds no more than the limit, unless two of
\* the user's requests were under way at a time: CollectTopic counts before it adds,
\* and two upserts that both find nothing leave two documents.
LimitsNeedARace ==
  \A k \in Colls, u \in Users :
    <<k, u>> \notin overlapped =>
      /\ Len(stateDocs[k][u]) <= 1
      /\ k = "collection" => Cardinality(FindTopicStateDocs(k, u)) <= CollectionLimit

\* The text in a list was let through by the check or written by an administrator,
\* unless the author asked for hasCheck: handleTopicCheck writes back the text it read,
\* so that an edit made meanwhile is not shown unchecked.
ShownWasCleared ==
  \A t \in Listed \ waived : <<t, topics[t].text>> \in cleared

\* A topic has the text that was written last, unless it was written while the
\* consumer had the text before it under review.
LatestTextStays ==
  \A t \in Topics : Exists(t) /\ <<t, "edit">> \notin crossed => topics[t].text = versions[t]

\* The text of a topic is the latest one, and where it is shown it was cleared.
TextsAgree ==
  /\ ShownWasCleared
  /\ LatestTextStays

\* A deleted topic is in no list, neither of the author's nor of those who liked it, unless its check was not done when it was deleted:
\* handleTopicCheck sets hasCheck whatever happened to the topic since.
DeletedStaysHidden ==
  \A t \in gone \cap Listed : <<t, "delete">> \in crossed

\* After the clean-up of a deletion nobody holds the topic, unless a request for it
\* had found it shown before or a statement failed, or it is shown again.
CleanupIsComplete ==
  \A t \in gone :
    /\ \E w \in Cleaners : cleanups[t][w] \in {"comments", "done"}
    /\ \A w \in Cleaners : cleanups[t][w] \notin {"likes", "collections"}
    /\ t \notin late \cup waived /\ <<t, "delete">> \notin crossed
    => \A k \in Colls : Holding(k, t) = {}

\* What is counted for a topic are the documents that mark it, and one user's marks
\* stay within their limits.
MarksAgree ==
  /\ CountsAgree
  /\ LimitsNeedARace
=============================================================================
