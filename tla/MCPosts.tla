------------------------------ MODULE MCPosts -------------------------------
(***************************************************************************)
(* An instance of Comments (and Topics) for TLC.  Each behaviour stays     *)
(* with one part of the operations, so that the parts add up and do not    *)
(* multiply:                                                               *)
(*   life     writing, checking and deleting one topic                     *)
(*   marks    likes and collections of one topic, with a deletion          *)
(*   shelf    collections of two topics, up to the limit and beyond        *)
(*   talk     two comments on one topic and their deletion                 *)
(*   sweep    one comment and the deletion of its topic                    *)
(*   applause likes of one comment                                         *)
(***************************************************************************)
EXTENDS Comments, TLC

CONSTANTS u1, u2, a1, t1, t2, r1, r2, c1, c2,
          MaxNum,   \* bound: the counts of a topic or a comment, from -1
          MaxSlips  \* bound: changes a count missed or took twice

VARIABLE part

MCRootOf == [u \in Users |-> IF u = a1 THEN u1 ELSE u]
MCKindOf == [u \in Users |-> IF u = a1 THEN "anonymous" ELSE "base"]
Symmetry == Permutations(Calls)

Mark(r, k, users, T) ==
  \/ \E u \in users, t \in T :
       IF k = "like" THEN LikeTopic(r, u, t) \/ UnlikeTopic(r, u, t)
       ELSE CollectTopic(r, u, t) \/ UncollectTopic(r, u, t)
  \/ calls[r].coll = k /\ Marking(r)

\* One request at a time.
Quiet(rs, none) == Cardinality({r \in Calls : rs[r] # none}) <= 1

Uncleaned == \A t \in Topics, w \in Cleaners : cleanups[t][w] \in {"no", "done"}

Life == (Writing(t1) \/ Checking(t1) \/ Deleting(t1)) /\ topics'[t1].author # u2

Marks ==
  \/ CreateAdmin(u1, "base", t1) \/ (Uncleaned /\ Deleting(t1)) \/ handleTopicDelete(t1)
  \/ CleanupDeletedTopic(t1)
  \/ /\ \E r \in Calls : Mark(r, "like", {u1, a1}, {t1}) \/ Mark(r, "collection", {u1}, {t1})
     /\ (faults' = 0 /\ \A r \in Calls : calls'[r].coll # "collection") \/ Quiet(calls', NoCall)

Shelf ==
  \/ \E t \in Topics : CreateAdmin(u1, "base", t)
  \/ \E r \in Calls : Mark(r, "collection", {u1}, Topics)

Comment(C, users) ==
  /\ \/ \E c \in C : Adding(c) \/ Removing(c)
     \/ \E r \in Calls : Answering(r)
  /\ \A r \in Calls : requests'[r].op \in {"none", "delete"}
  /\ \A r \in Calls : requests'[r].comment # None => requests'[r].user = users[requests'[r].comment]

\* The first comment is deleted by its author, the second by an administrator.
Talk ==
  \/ CreateAdmin(u1, "base", t1) /\ UNCHANGED cvars
  \/ /\ Comment(Comments, [c \in Comments |-> IF c = c1 THEN u1 ELSE None])
     /\ \A c \in Comments : addMsgs'[c].doc # None => addMsgs'[c].doc.user = IF c = c1 THEN u1 ELSE u2
     /\ faults' = 0 \/ Quiet(requests', NoRequest)

Sweep ==
  \/ (CreateAdmin(u1, "base", t1) \/ Delete(u1, t1) \/ handleTopicDelete(t1)) /\ UNCHANGED cvars
  \/ Comment({c1}, [c \in Comments |-> u2]) /\ Quiet(requests', NoRequest)
  \/ \E w \in Cleaners : hideTopicComments(t1, w) \/ hideTopicCommentsFails(t1, w)

Applause ==
  \/ CreateAdmin(u1, "base", t1) /\ UNCHANGED cvars
  \/ Adding(c1) /\ addMsgs'[c1].doc.user = u2
  \/ \E r \in Calls : Answering(r) /\ requests'[r].op # "delete" /\ requests'[r].user # a1

MCInit == Init /\ part \in {"life", "marks", "shelf", "talk", "sweep", "applause"}
MCNext ==
  /\ \/ part = "life" /\ Life /\ UNCHANGED cvars
     \/ part = "marks" /\ Marks /\ UNCHANGED cvars
     \/ part = "shelf" /\ Shelf /\ UNCHANGED cvars
     \/ part = "talk" /\ Talk
     \/ part = "sweep" /\ Sweep
     \/ part = "applause" /\ Applause
  /\ UNCHANGED part
MCSpec == MCInit /\ [][MCNext]_<<vars, part>>

Bounded ==
  /\ \A k \in Colls, t \in Topics : nums[k][t] \in -1..MaxNum
  /\ \A t \in Topics : commentNum[t] \in -1..MaxNum + 1
  /\ \A c \in Comments : replyNum[c] \in -1..MaxNum
  /\ \A x \in DOMAIN slips : slips[x] <= MaxSlips
  /\ addMsgs[c1].step = "none" => addMsgs[c2].step = "none"
=============================================================================
