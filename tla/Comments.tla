------------------------------ MODULE Comments ------------------------------
(***************************************************************************)
(* Comments (src/internal/comment), the consumers that check and remove    *)
(* them (src/internal/mq), and the topics they belong to.                  *)
(*                                                                         *)
(* A comment is shown from the start: its document has no hasCheck, and    *)
(* the lists leave out only what has hasCheck = false.  It counts for its  *)
(* topic and its root comment once the consumer has checked it.            *)
(***************************************************************************)
EXTENDS Topics, Bags

CONSTANTS Comments,
          MaxLikes       \* bound: likeNum of a comment

ASSUME CommentsAssumption == None \notin Comments /\ MaxLikes \in Nat

VARIABLES comments,     \* campus_comment: topic, user, root, parent, state; None without a document
          commentNum,   \* commentNum of a topic
          replyNum,     \* commentNum of a comment
          likeNum,      \* likeNum of a comment
          likeDocs,     \* campus_comment_like: documents of each comment
          addMsgs,      \* the message that has a comment checked: how far it is handled, deliveries
          delMsgs,      \* the message that removes a comment, and how far it is handled
          requests,     \* requests to delete, like and unlike
          notices,      \* notifications sent, a bag: receiver, comment, type
          dropped,      \* history: comments deleted by their author or an administrator
          early,        \* history: comments deleted before their check was done
          slips,        \* history: how often the count of a topic or comment missed a change or took one twice
          removed,      \* history: comments whose document was removed
          raced,        \* history: comments whose likes met another request, a failure or a removal
          revived       \* history: topics with a comment added or checked after their deletion

countVars == <<commentNum, replyNum>>
likeVars == <<likeNum, likeDocs, raced>>
slipVars == <<slips, removed>>
cvars == <<comments, countVars, likeVars, addMsgs, delMsgs, requests, notices, dropped, early,
           slipVars, revived>>
vars == <<tvars, cvars>>
\* What a step on comments leaves alone.
topicState == <<topicVars, cleanups, socialVars, topicPast, socialPast>>

NoRequest == [op |-> "none", step |-> "idle", comment |-> None, user |-> None, root |-> None]

Init ==
  /\ TopicsInit
  /\ comments = [c \in Comments |-> None]
  /\ commentNum = [t \in Topics |-> 0]
  /\ replyNum = [c \in Comments |-> 0] /\ likeNum = [c \in Comments |-> 0]
  /\ likeDocs = [c \in Comments |-> <<>>]
  /\ addMsgs = [c \in Comments |-> [step |-> "none", doc |-> None, times |-> 0]]
  /\ delMsgs = [c \in Comments |-> [step |-> "none", doc |-> None]]
  /\ requests = [r \in Calls |-> NoRequest]
  /\ notices = EmptyBag /\ slips = [x \in Topics \cup Comments |-> 0]
  /\ dropped = {} /\ early = {} /\ removed = {} /\ raced = {} /\ revived = {}

\* The counts of what a comment belongs to, its topic and its root, are off by one more.
Slip(X) == slips' = [x \in DOMAIN slips |-> IF x \in X THEN slips[x] + 1 ELSE slips[x]]

HasDoc(c) == comments[c] # None
Visible(c) == HasDoc(c) /\ comments[c].state # "hidden"
Checked(c) == HasDoc(c) /\ comments[c].state = "checked"

ListByTopic(t) == {c \in Comments : Visible(c) /\ comments[c].topic = t}
ListCommentsOf(u) == {c \in Comments : Visible(c) /\ comments[c].user = u}
ListTargetUserComments(u) == ListCommentsOf(u)

\* The list of one's own comments fails over a comment whose topic is not shown.
ListMineFails(u) == \E c \in ListCommentsOf(u) : ~getTopicByID(comments[c].topic, TRUE)

----------------------------------------------------------------------------
(* Adding *)

\* An anonymous identity comments on anonymous topics only, and nobody comments
\* with the base account on what the same person wrote anonymously.
validateCommentPermission(u, t) ==
  LET a == topics[t].author IN
  IF KindOf[u] = "anonymous" THEN KindOf[a] = "anonymous"
  ELSE KindOf[a] = "anonymous" => RootOf[u] # RootOf[a]

\* A reply belongs to the root comment of its parent.
RootComment(p) ==
  IF p = None THEN None ELSE IF comments[p].root # None THEN comments[p].root ELSE p

newComment(u, t, p) ==
  [topic |-> t, user |-> u, root |-> RootComment(p), parent |-> p, state |-> "fresh"]

AddComment(u, c, t, p) ==
  /\ addMsgs[c].step = "none"
  /\ getTopicByID(t, FALSE) /\ validateCommentPermission(u, t)
  /\ p = None \/ (p \in Comments /\ HasDoc(p))
  /\ comments' = [comments EXCEPT ![c] = newComment(u, t, p)]
  /\ \/ addMsgs' = [addMsgs EXCEPT ![c] = [step |-> "queued", doc |-> newComment(u, t, p), times |-> 1]] /\ NoFault
     \/ addMsgs' = [addMsgs EXCEPT ![c] = [step |-> "done", doc |-> newComment(u, t, p), times |-> 0]] /\ Fault
  /\ revived' = IF t \in gone THEN revived \cup {t} ELSE revived
  /\ UNCHANGED <<topicState, countVars, likeVars, delMsgs, requests, notices, dropped, early, slipVars>>

SetAdd(c, step) == addMsgs' = [addMsgs EXCEPT ![c].step = step]
Counting(c) == {addMsgs[c].doc.topic, addMsgs[c].doc.root}

deleteRejectedComment(c) ==
  /\ addMsgs[c].step = "queued"
  /\ comments' = [comments EXCEPT ![c] = None]
  /\ Slip(IF Checked(c) THEN Counting(c) ELSE {})
  /\ removed' = removed \cup {c} /\ raced' = raced \cup {c}
  /\ SetAdd(c, "done")
  /\ UNCHANGED <<topicState, countVars, likeNum, likeDocs, delMsgs, requests, notices, dropped, early,
                 revived, faults>>

\* A document that is gone is inserted again, from the message.
passedComment(c) ==
  IF HasDoc(c) THEN [comments[c] EXCEPT !.state = "checked"]
  ELSE [addMsgs[c].doc EXCEPT !.state = "checked"]

markChecked(c) ==
  /\ comments' = [comments EXCEPT ![c] = passedComment(c)]
  /\ replyNum' = IF HasDoc(c) THEN replyNum ELSE [replyNum EXCEPT ![c] = 0]
  /\ likeNum' = IF HasDoc(c) THEN likeNum ELSE [likeNum EXCEPT ![c] = 0]
  /\ revived' = IF addMsgs[c].doc.topic \in gone THEN revived \cup {addMsgs[c].doc.topic} ELSE revived

\* A comment that was checked before is counted again.
handleCommentAdd(c) ==
  /\ addMsgs[c].step = "queued"
  /\ markChecked(c)
  /\ SetAdd(c, "topic")
  /\ Slip(IF Checked(c) THEN Counting(c) ELSE {})
  /\ UNCHANGED <<topicState, commentNum, likeDocs, raced, delMsgs, requests, notices, dropped, early, removed,
                 faults>>

\* Mutant: the topic counts its top-level comments only.
countTopLevel(c) == IF addMsgs[c].doc.root = None THEN 1 ELSE 0

countOne(c) == 1

addCountsTopic(c) ==
  LET t == addMsgs[c].doc.topic IN
  /\ addMsgs[c].step = "topic"
  /\ \/ commentNum' = [commentNum EXCEPT ![t] = @ + countOne(c)] /\ NoFault /\ UNCHANGED slips
     \/ UNCHANGED commentNum /\ Fault /\ Slip({t})
  /\ SetAdd(c, "root")
  /\ UNCHANGED <<topicState, comments, replyNum, likeVars, delMsgs, requests, notices, dropped, early, removed,
                 revived>>

\* The topic's author and the parent's hear of it, the writer does not; the parent's
\* author hears of a reply.
notifyCommentUsers(c) ==
  LET doc == addMsgs[c].doc
      author == topics[doc.topic].author
      parent == IF doc.parent = None THEN None
                ELSE addMsgs[doc.parent].doc.user
      receivers == {author} \cup ({parent} \ {None}) IN
  IF parent = doc.user THEN {}
  ELSE {<<x, c, IF x = parent THEN "reply" ELSE "comment">> : x \in receivers \ {doc.user}}

addCountsRoot(c) ==
  LET root == addMsgs[c].doc.root IN
  /\ addMsgs[c].step = "root"
  /\ \/ /\ replyNum' = IF root # None /\ HasDoc(root) THEN [replyNum EXCEPT ![root] = @ + 1] ELSE replyNum
        /\ NoFault /\ UNCHANGED slips
     \/ root # None /\ UNCHANGED replyNum /\ Fault /\ Slip({root})
  /\ notices' = notices (+) SetToBag(notifyCommentUsers(c))
  /\ SetAdd(c, "done")
  /\ UNCHANGED <<topicState, comments, commentNum, likeVars, delMsgs, requests, dropped, early, removed, revived>>

\* After an error the handler starts again, and after its third the message goes to the
\* die queue; the comment may have been marked although the statement reports an error.
addFailsMessage(c) ==
  /\ addMsgs[c].step = "queued" /\ Fault
  /\ SetAdd(c, "done") \/ UNCHANGED addMsgs
  /\ \/ UNCHANGED <<comments, replyNum, likeNum, slips, revived>>
     \/ markChecked(c) /\ Slip(IF Checked(c) THEN {} ELSE Counting(c))
  /\ UNCHANGED <<topicState, commentNum, likeDocs, raced, delMsgs, requests, notices, dropped, early, removed>>

\* What is still to be counted when the process ends.
Uncounted(c) ==
  CASE addMsgs[c].step = "topic" -> Counting(c)
    [] addMsgs[c].step = "root" -> {addMsgs[c].doc.root}
    [] OTHER -> {}

\* The process ends: the message is delivered again and taken for one being handled.
addStops(c) ==
  /\ addMsgs[c].step \in {"topic", "root"} /\ Fault
  /\ SetAdd(c, "done")
  /\ Slip(Uncounted(c))
  /\ UNCHANGED <<topicState, comments, countVars, likeVars, delMsgs, requests, notices, dropped, early, removed,
                 revived>>

\* The broker delivers again what was not acknowledged, and the key in Redis was not set.
addAgain(c) ==
  /\ addMsgs[c].step \in {"topic", "root", "done"} /\ Fault
  /\ addMsgs' = [addMsgs EXCEPT ![c].step = "queued", ![c].times = @ + 1]
  /\ Slip(Uncounted(c))
  /\ early' = IF c \in dropped THEN early \cup {c} ELSE early
  /\ UNCHANGED <<topicState, comments, countVars, likeVars, delMsgs, requests, notices, dropped, removed, revived>>

----------------------------------------------------------------------------
(* Deleting: hide, then take back the counts; a failure leaves it to the consumer *)

Ask(r, op, step, c, u) ==
  /\ requests[r] = NoRequest
  /\ requests' = [requests EXCEPT ![r] =
       [op |-> op, step |-> step, comment |-> c, user |-> u, root |-> comments[c].root]]
Step(r, step) == requests' = [requests EXCEPT ![r].step = step]
Answer(r) == requests' = [requests EXCEPT ![r] = NoRequest]
AddPending(c) == addMsgs[c].step = "queued"

DeleteComment(r, u, c) ==
  /\ HasDoc(c) /\ comments[c].user = u
  /\ Ask(r, "delete", "hide", c, u)
  /\ UNCHANGED <<topicState, comments, countVars, likeVars, addMsgs, delMsgs, notices, dropped, early,
                 slipVars, revived, faults>>

DeleteCommentAdmin(r, c) ==
  /\ HasDoc(c)
  /\ Ask(r, "delete", "hide", c, None)
  /\ UNCHANGED <<topicState, comments, countVars, likeVars, addMsgs, delMsgs, notices, dropped, early,
                 slipVars, revived, faults>>

\* deletedTime changes every time: hiding what is hidden counts as a change.
hideComment(r) ==
  LET c == requests[r].comment IN
  /\ requests[r].op = "delete" /\ requests[r].step = "hide"
  /\ IF HasDoc(c)
       THEN /\ comments' = [comments EXCEPT ![c].state = "hidden"]
            /\ Step(r, "topic")
            /\ dropped' = dropped \cup {c}
            /\ early' = IF AddPending(c) THEN early \cup {c} ELSE early
            /\ Slip(IF Checked(c) THEN {} ELSE Counting(c))
       ELSE Answer(r) /\ UNCHANGED <<comments, dropped, early, slips>>
  /\ UNCHANGED <<topicState, countVars, likeVars, addMsgs, delMsgs, notices, removed, revived, faults>>

IncrementTopicCommentNum(t, delta) == commentNum' = [commentNum EXCEPT ![t] = @ + delta]

IncrementRootCommentNum(c, delta) == replyNum' = [replyNum EXCEPT ![c] = @ + delta]
TopicOfComment(c) == addMsgs[c].doc.topic

SendDeleteComment(c) ==
  delMsgs' = [delMsgs EXCEPT ![c] = IF @.step = "none" THEN [step |-> "queued", doc |-> None] ELSE @]

\* A message that cannot be sent is only logged.
deleteCommentFallback(r) ==
  /\ Answer(r)
  /\ SendDeleteComment(requests[r].comment) \/ UNCHANGED delMsgs

decrementCommentCounters(r) ==
  LET c == requests[r].comment
      root == requests[r].root IN
  /\ requests[r].op = "delete"
  /\ \/ /\ requests[r].step = "topic"
        /\ IncrementTopicCommentNum(TopicOfComment(c), -1)
        /\ IF root = None THEN Answer(r) ELSE Step(r, "root")
        /\ UNCHANGED <<replyNum, delMsgs>>
     \/ /\ requests[r].step = "root"
        /\ IF HasDoc(root)
             THEN IncrementRootCommentNum(root, -1) /\ Answer(r) /\ UNCHANGED delMsgs
             ELSE deleteCommentFallback(r) /\ UNCHANGED replyNum
        /\ UNCHANGED commentNum
  /\ UNCHANGED <<topicState, comments, likeVars, addMsgs, notices, dropped, early, slipVars, revived, faults>>

\* The statement that fails may have hidden the comment.
deleteFails(r) ==
  LET c == requests[r].comment IN
  /\ requests[r].op = "delete" /\ Fault
  /\ deleteCommentFallback(r)
  /\ \/ /\ requests[r].step = "hide" /\ Checked(c)
        /\ comments' = [comments EXCEPT ![c].state = "hidden"]
        /\ Slip(Counting(c))
     \/ /\ UNCHANGED comments
        /\ Slip(CASE requests[r].step = "topic" -> Counting(c)
                  [] requests[r].step = "root" -> {requests[r].root}
                  [] OTHER -> {})
  /\ UNCHANGED <<topicState, countVars, likeVars, addMsgs, notices, dropped, early, removed, revived>>

SetDel(c, step) == delMsgs' = [delMsgs EXCEPT ![c].step = step]

takesBack(doc) == doc # None /\ doc.state = "checked"

\* The consumer takes the counts back from a comment that still counts.
handleCommentDelete(c) ==
  /\ delMsgs[c].step = "queued"
  /\ delMsgs' = [delMsgs EXCEPT ![c] = [step |-> IF takesBack(comments[c]) THEN "topic" ELSE "remove",
                                        doc |-> comments[c]]]
  /\ UNCHANGED <<topicState, comments, countVars, likeVars, addMsgs, requests, notices, dropped, early,
                 slipVars, revived, faults>>

\* A count that cannot be taken back is passed over.
deleteCounts(c) ==
  LET doc == delMsgs[c].doc IN
  /\ \/ /\ delMsgs[c].step = "topic"
        /\ \/ IncrementTopicCommentNum(doc.topic, -1) /\ NoFault /\ UNCHANGED slips
           \/ UNCHANGED commentNum /\ Fault /\ Slip({doc.topic})
        /\ UNCHANGED replyNum /\ SetDel(c, "root")
     \/ /\ delMsgs[c].step = "root"
        /\ \/ /\ IF doc.root # None /\ HasDoc(doc.root) THEN IncrementRootCommentNum(doc.root, -1)
                 ELSE UNCHANGED replyNum
              /\ NoFault /\ UNCHANGED slips
           \/ doc.root # None /\ UNCHANGED replyNum /\ Fault /\ Slip({doc.root})
        /\ UNCHANGED commentNum /\ SetDel(c, "remove")
  /\ UNCHANGED <<topicState, comments, likeVars, addMsgs, requests, notices, dropped, early, removed, revived>>

\* The counts were taken back for a comment that counts, or else they are off.
deleteDocument(c) ==
  /\ delMsgs[c].step = "remove"
  /\ comments' = [comments EXCEPT ![c] = None]
  /\ likeDocs' = [likeDocs EXCEPT ![c] = <<>>] /\ raced' = raced \cup {c}
  /\ SetDel(c, "none")
  /\ dropped' = dropped \cup {c} /\ removed' = removed \cup {c}
  /\ early' = IF AddPending(c) THEN early \cup {c} ELSE early
  /\ Slip(IF Checked(c) = takesBack(delMsgs[c].doc) THEN {} ELSE Counting(c))
  /\ UNCHANGED <<topicState, countVars, likeNum, addMsgs, requests, notices, revived, faults>>

hiddenUnder(t) ==
  [c \in Comments |-> IF HasDoc(c) /\ comments[c].topic = t THEN [comments[c] EXCEPT !.state = "hidden"]
                      ELSE comments[c]]

\* The last statement of a topic's clean-up hides its comments.
hideTopicComments(t, w) ==
  /\ cleanups[t][w] = "comments"
  /\ comments' = hiddenUnder(t)
  /\ SetCleanup(t, w, "done")
  /\ slips' = [x \in DOMAIN slips |-> slips[x] + Cardinality({c \in ListByTopic(t) : Checked(c) /\ x \in Counting(c)})]
  /\ UNCHANGED <<topicVars, socialVars, topicPast, socialPast, faults, countVars, likeVars, addMsgs,
                 delMsgs, requests, notices, dropped, early, removed, revived>>

\* A consumer starts again, three times at most.
hideTopicCommentsFails(t, w) ==
  /\ cleanups[t][w] = "comments" /\ Fault
  /\ SetCleanup(t, w, "failed") \/ (w \in Consumers /\ SetCleanup(t, w, "likes"))
  /\ UNCHANGED <<topicVars, socialVars, topicPast, socialPast, cvars>>

----------------------------------------------------------------------------
(* Likes of comments: the count first, then the document *)

\* Another request of the user, or one that may insert a second document.
Liking(c, u) ==
  \E r \in Calls :
    /\ requests[r].comment = c /\ requests[r].op \in {"like", "unlike"}
    /\ requests[r].user = u \/ likeDocs[c] = <<>>
CommentLikeExists(c, u) == \E i \in DOMAIN likeDocs[c] : u \in likeDocs[c][i]

LikeComment(r, u, c) ==
  /\ HasDoc(c) /\ ~CommentLikeExists(c, u)
  /\ Ask(r, "like", "count", c, u)
  /\ raced' = IF Liking(c, u) THEN raced \cup {c} ELSE raced
  /\ UNCHANGED <<topicState, comments, countVars, likeNum, likeDocs, addMsgs, delMsgs, notices, dropped,
                 early, slipVars, revived, faults>>

UnlikeComment(r, u, c) ==
  /\ HasDoc(c) /\ CommentLikeExists(c, u)
  /\ Ask(r, "unlike", "count", c, u)
  /\ raced' = IF Liking(c, u) THEN raced \cup {c} ELSE raced
  /\ UNCHANGED <<topicState, comments, countVars, likeNum, likeDocs, addMsgs, delMsgs, notices, dropped,
                 early, slipVars, revived, faults>>

likeDelta(op) == IF op = "like" THEN 1 ELSE -1

\* A comment that is gone ends the request.
incCommentLikeStrict(r) ==
  LET c == requests[r].comment IN
  /\ requests[r].step = "count" /\ likeNum[c] \in -MaxLikes..MaxLikes
  /\ IF HasDoc(c)
       THEN likeNum' = [likeNum EXCEPT ![c] = @ + likeDelta(requests[r].op)] /\ Step(r, "store")
       ELSE UNCHANGED likeNum /\ Answer(r)
  /\ UNCHANGED <<topicState, comments, countVars, likeDocs, raced, addMsgs, delMsgs, notices, dropped,
                 early, slipVars, revived, faults>>

\* An upsert that finds no document inserts one later.
AddCommentLike(r) ==
  LET c == requests[r].comment IN
  /\ requests[r].op = "like"
  /\ \/ /\ requests[r].step = "store" /\ likeDocs[c] # <<>>
        /\ likeDocs' = [likeDocs EXCEPT ![c][1] = @ \cup {requests[r].user}] /\ Answer(r)
     \/ /\ requests[r].step = "store" /\ likeDocs[c] = <<>>
        /\ Step(r, "insert") /\ UNCHANGED likeDocs
     \/ /\ requests[r].step = "insert"
        /\ likeDocs' = [likeDocs EXCEPT ![c] = Append(@, {requests[r].user})] /\ Answer(r)
  /\ UNCHANGED <<topicState, comments, countVars, likeNum, raced, addMsgs, delMsgs, notices, dropped, early,
                 slipVars, revived, faults>>

RemoveCommentLike(r) ==
  LET c == requests[r].comment IN
  /\ requests[r].op = "unlike" /\ requests[r].step = "store"
  /\ likeDocs' = [likeDocs EXCEPT ![c] =
       IF @ = <<>> THEN @ ELSE [@ EXCEPT ![1] = @ \ {requests[r].user}]]
  /\ Answer(r)
  /\ UNCHANGED <<topicState, comments, countVars, likeNum, raced, addMsgs, delMsgs, notices, dropped, early,
                 slipVars, revived, faults>>

storeFails(r) ==
  /\ requests[r].step \in {"store", "insert"} /\ Fault
  /\ raced' = raced \cup {requests[r].comment}
  /\ Answer(r)
  /\ UNCHANGED <<topicState, comments, countVars, likeNum, likeDocs, addMsgs, delMsgs, notices, dropped,
                 early, slipVars, revived>>

----------------------------------------------------------------------------
Adding(c) ==
  \/ \E u \in Users, t \in Topics, p \in Comments \cup {None} : AddComment(u, c, t, p)
  \/ deleteRejectedComment(c) \/ handleCommentAdd(c) \/ addCountsTopic(c) \/ addCountsRoot(c)
  \/ addFailsMessage(c) \/ addStops(c) \/ addAgain(c)
Removing(c) == handleCommentDelete(c) \/ deleteCounts(c) \/ deleteDocument(c)
Answering(r) ==
  \/ \E c \in Comments :
       \/ DeleteCommentAdmin(r, c)
       \/ \E u \in Users : DeleteComment(r, u, c) \/ LikeComment(r, u, c) \/ UnlikeComment(r, u, c)
  \/ hideComment(r) \/ decrementCommentCounters(r) \/ deleteFails(r)
  \/ incCommentLikeStrict(r) \/ AddCommentLike(r) \/ RemoveCommentLike(r) \/ storeFails(r)

Next ==
  \/ TopicsNext /\ UNCHANGED cvars
  \/ \E c \in Comments : Adding(c) \/ Removing(c)
  \/ \E r \in Calls : Answering(r)
  \/ \E t \in Topics, w \in Cleaners : hideTopicComments(t, w) \/ hideTopicCommentsFails(t, w)

Spec == Init /\ [][Next]_vars

----------------------------------------------------------------------------
(* Properties *)

OfTopic(t) == {c \in Comments : addMsgs[c].doc # None /\ addMsgs[c].doc.topic = t}
OfRoot(x) == {c \in Comments : addMsgs[c].doc # None /\ addMsgs[c].doc.root = x}
ToCount(S, steps) == Cardinality({c \in S : addMsgs[c].step \in steps})
ToTakeBack(S, steps) ==
  Cardinality({r \in Calls : requests[r].op = "delete" /\ requests[r].step \in steps
                             /\ requests[r].comment \in S})
\* Comments that still count and whose counts were taken back.
TakenBack(S, steps) ==
  Cardinality({c \in S : delMsgs[c].step \in steps /\ takesBack(delMsgs[c].doc)})
\* A number for the comments S of x, with the changes still to come.
Agrees(num, x, S, adding, deleting, removing) ==
  LET n == num + ToCount(S, adding) - ToTakeBack(S, deleting) + TakenBack(S, removing)
             - Cardinality({c \in S : Checked(c)})
  IN n \in -slips[x]..slips[x]

\* Comments, their counts and the messages about them have the form the code gives them.
TypeOK ==
  /\ TopicsTypeOK
  /\ \A c \in Comments :
       comments[c] = None \/ comments[c] \in
         [topic : Topics, user : Users, root : Comments \cup {None}, parent : Comments \cup {None},
          state : {"fresh", "checked", "hidden"}]
  /\ \A c \in Comments : HasDoc(c) => addMsgs[c].step # "none" /\ addMsgs[c].doc.user = comments[c].user
                                      /\ (comments[c].root = None) = (comments[c].parent = None)
  /\ requests \in [Calls -> [op : {"none", "delete", "like", "unlike"},
                             step : {"idle", "hide", "topic", "root", "count", "store", "insert"},
                             comment : Comments \cup {None}, user : Users \cup {None},
                             root : Comments \cup {None}]]

\* commentNum of a topic: with the changes still to come it counts the comments that
\* are checked and not deleted. It is off by one at most for every time a comment was
\* deleted again or before its check was done, a checked comment was checked again or
\* rejected, a statement failed or its answer was lost, a consumer ended between two
\* statements, or the clean-up of the topic hid a comment.
CommentCountAgrees ==
  \A t \in Topics : Agrees(commentNum[t], t, OfTopic(t), {"topic"}, {"topic"}, {"root", "remove"})

\* commentNum of a root comment that was never removed counts its replies in the same way.
ReplyCountAgrees ==
  \A x \in Comments \ removed :
    HasDoc(x) => Agrees(replyNum[x], x, OfRoot(x), {"topic", "root"}, {"topic", "root"}, {"remove"})

\* What its author or an administrator deleted is not shown again, unless its check
\* was not done at the time: handleCommentAdd sets hasCheck whatever happened since.
DeletedCommentStaysHidden ==
  \A c \in dropped : c \in ListByTopic(TopicOfComment(c)) => c \in early

\* After the clean-up of a deleted topic none of its comments is shown and its
\* commenters can list what they wrote, unless a comment was added or checked after
\* the deletion, or a statement failed.
CleanupHidesComments ==
  \A t \in gone \ revived :
    (\E w \in Cleaners : cleanups[t][w] = "done") /\ faults = 0
      => /\ ListByTopic(t) = {}
         /\ \A u \in Users : ListMineFails(u) => \E x \in Topics \ {t} : ListByTopic(x) # {}

\* likeNum of a comment counts the users in its documents, with the changes still to
\* come, unless two requests of a user overlapped, or two while there was no document,
\* one failed, or the comment was removed: LikeComment counts first and then stores,
\* and takes nothing back.
CommentLikesAgree ==
  \A c \in Comments \ raced :
    HasDoc(c) =>
      /\ Len(likeDocs[c]) <= 1
      /\ likeNum[c] = Cardinality({u \in Users : CommentLikeExists(c, u)})
           + FoldSet(LAMBDA r, n : n + likeDelta(requests[r].op), 0,
                     {r \in Calls : requests[r].comment = c /\ requests[r].step \in {"store", "insert"}})

\* A user hears of a comment once for every time its message was delivered, and by one
\* kind of notification, even if the topic and the parent are by the same user; the
\* writer does not hear of it.
OneNoticeEach ==
  \A n \in BagToSet(notices) :
    /\ n[1] # addMsgs[n[2]].doc.user
    /\ CopiesIn(n, notices) <= addMsgs[n[2]].times
    /\ \A m \in BagToSet(notices) : m[1] = n[1] /\ m[2] = n[2] => m = n

\* The counts of comments, replies and likes agree with the comments and the likes
\* there are, or are off by what went wrong on the way, and a user is told of a comment
\* no more often than its message came.
CommentsAgree ==
  /\ TypeOK
  /\ CommentCountAgrees
  /\ ReplyCountAgrees
  /\ CommentLikesAgree
  /\ OneNoticeEach

\* What was deleted is neither shown nor held any more: topics and comments, in every
\* list, before and after the clean-up.
DeletionHolds ==
  /\ DeletedStaysHidden
  /\ DeletedCommentStaysHidden
  /\ CleanupIsComplete
  /\ CleanupHidesComments
=============================================================================
