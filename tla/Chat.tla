-------------------------------- MODULE Chat --------------------------------
(***************************************************************************)
(* Private conversations (src/internal/chat): conversations and members in *)
(* MySQL, messages in MongoDB, and one registered WebSocket connection per *)
(* user.                                                                   *)
(*                                                                         *)
(* A connection handles its messages one after the other; every statement  *)
(* that the two databases execute on their own is a step.  A deletion is a *)
(* MySQL transaction: what it reads is a snapshot, what it deletes is the  *)
(* present row.                                                            *)
(***************************************************************************)
EXTENDS Naturals, FiniteSets, FiniteSetsExt

CONSTANTS Peers, Chats, Conns,
          PeerOf,        \* the user a connection authenticates as
          MaxMessages,   \* bound: messages sent
          MaxChatFaults, \* bound: failing statements and restarts
          Nobody

ASSUME ChatAssumption ==
  /\ PeerOf \in [Conns -> Peers]
  /\ {MaxMessages, MaxChatFaults} \subseteq Nat
  /\ Nobody \notin Conns \cup Peers \cup Chats \cup Nat

VARIABLES convs,      \* conversations: identifiers that have a row
          members,    \* conversation_members: unread count, Nobody without a row
          messages,   \* MongoDB: the messages
          nextID,     \* message identifiers handed out
          sessions,   \* SessionManager: the connection registered for a user
          socks,      \* each connection: none (not there), open, closed
          jobs,       \* the message a connection is handling
          removals,   \* the deletion each user is in, per conversation
          newest,     \* history: the connection a user opened last
          overlapped, \* history: conversations with overlapping deletions
          cut,        \* history: conversations deleted while a message was on its way
          broken,     \* history: conversations in which a failure left half a change
          chatFaults

chatVars == <<convs, members, messages, nextID, sessions, socks, jobs, removals, newest,
          overlapped, cut, broken, chatFaults>>
stores == <<convs, members, messages, nextID>>
links == <<sessions, socks, newest>>
past == <<overlapped, cut, broken>>

NoJob == [step |-> "idle", conv |-> Nobody, to |-> Nobody, id |-> 0]
NoDelete == [step |-> "no", seen |-> {}]

ChatInit ==
  /\ convs = {}
  /\ members = [c \in Chats |-> [u \in Peers |-> Nobody]]
  /\ messages = {} /\ nextID = 0
  /\ sessions = [u \in Peers |-> Nobody]
  /\ socks = [k \in Conns |-> "none"]
  /\ jobs = [k \in Conns |-> NoJob]
  /\ removals = [c \in Chats |-> [u \in Peers |-> NoDelete]]
  /\ newest = [u \in Peers |-> Nobody]
  /\ overlapped = {} /\ cut = {} /\ broken = {} /\ chatFaults = 0

Members(c) == {u \in Peers : members[c][u] # Nobody}
ChatFault == chatFaults < MaxChatFaults /\ chatFaults' = chatFaults + 1

\* A deletion that has deleted rows holds their locks until it ends.
Locked(c) == \E u \in Peers : removals[c][u].step = "emptied"

----------------------------------------------------------------------------
(* Connections *)

\* SessionManager.Set: the new connection replaces and closes the old one.
Set(k) ==
  LET u == PeerOf[k] IN
  LET previous == sessions[u] IN
  /\ sessions' = [sessions EXCEPT ![u] = k]
  /\ newest' = [newest EXCEPT ![u] = k]
  /\ socks' = [i \in Conns |-> IF i = k THEN "open"
                               ELSE IF i = previous /\ socks[i] = "open" THEN "closed"
                               ELSE socks[i]]

ChatWS(k) ==
  /\ socks[k] = "none"
  /\ Set(k)
  /\ UNCHANGED <<stores, jobs, removals, past, chatFaults>>

\* The client leaves, or the read deadline passes.
Disconnect(k) ==
  /\ socks[k] = "open"
  /\ socks' = [socks EXCEPT ![k] = "closed"]
  /\ UNCHANGED <<stores, sessions, newest, jobs, removals, past, chatFaults>>

\* Mutant: the entry of the user goes, whichever connection it names.
RemoveAny(u, k) == [sessions EXCEPT ![u] = Nobody]

RemoveIfSame(u, k) == IF sessions[u] = k THEN [sessions EXCEPT ![u] = Nobody] ELSE sessions

\* The handler meets the read error when it is done with its last message.
ReadFails(k) ==
  /\ socks[k] = "closed" /\ jobs[k] = NoJob
  /\ socks' = [socks EXCEPT ![k] = "none"]
  /\ sessions' = RemoveIfSame(PeerOf[k], k)
  /\ UNCHANGED <<stores, newest, jobs, removals, past, chatFaults>>

----------------------------------------------------------------------------
(* Messages *)

Ready(k) == socks[k] = "open" /\ jobs[k] = NoJob /\ nextID < MaxMessages
Begin(k, step, c, to) ==
  /\ nextID' = nextID + 1
  /\ jobs' = [jobs EXCEPT ![k] = [step |-> step, conv |-> c, to |-> to, id |-> nextID + 1]]
Proceed(k, step) == jobs' = [jobs EXCEPT ![k].step = step]
Done(k) == jobs' = [jobs EXCEPT ![k] = NoJob]

\* The rows of a new conversation: the receiver has one message to read.
NewMembers(from, to) ==
  [u \in Peers |-> IF u = from THEN 0 ELSE IF u = to THEN 1 ELSE Nobody]

\* The identifier may be the client's; a row that exists makes the insert fail.
CreateConversationWithMembers(c, from, to) ==
  /\ c \notin convs /\ from # to
  /\ convs' = convs \cup {c}
  /\ members' = [members EXCEPT ![c] = NewMembers(from, to)]

handleInitMessage(k, c, to) ==
  /\ Ready(k)
  /\ CreateConversationWithMembers(c, PeerOf[k], to)
  /\ Begin(k, "init", c, to)
  /\ UNCHANGED <<messages, links, removals, past, chatFaults>>

InsertMessage(k) ==
  messages' = messages \cup {[id |-> jobs[k].id, conv |-> jobs[k].conv,
                              from |-> PeerOf[k], to |-> jobs[k].to]}

\* The first message is stored and goes to the receiver's connection.
initInsert(k) ==
  /\ jobs[k].step = "init"
  /\ InsertMessage(k)
  /\ Done(k)
  /\ UNCHANGED <<convs, members, nextID, links, removals, past, chatFaults>>

initInsertFails(k) ==
  /\ jobs[k].step = "init"
  /\ Proceed(k, "cleanup")
  /\ ChatFault
  /\ UNCHANGED <<stores, links, removals, past>>

\* A failure to take the conversation back is only logged.
DeleteConversationCascade(k) ==
  LET c == jobs[k].conv IN
  /\ jobs[k].step = "cleanup" /\ ~Locked(c)
  /\ convs' = convs \ {c}
  /\ members' = [members EXCEPT ![c] = [u \in Peers |-> Nobody]]
  /\ broken' = broken \cup {c}
  /\ Done(k)
  /\ UNCHANGED <<messages, nextID, links, removals, overlapped, cut, chatFaults>>

cleanupFails(k) ==
  /\ jobs[k].step = "cleanup"
  /\ broken' = broken \cup {jobs[k].conv}
  /\ Done(k) /\ ChatFault
  /\ UNCHANGED <<stores, links, removals, overlapped, cut>>

\* Both must be members when the message is accepted; they may be the same user.
handleChatMessage(k, c, to) ==
  /\ Ready(k)
  /\ {PeerOf[k], to} \subseteq Members(c)
  /\ Begin(k, "chat", c, to)
  /\ UNCHANGED <<convs, members, messages, links, removals, past, chatFaults>>

chatInsert(k) ==
  /\ jobs[k].step = "chat"
  /\ InsertMessage(k)
  /\ Proceed(k, "update")
  /\ UNCHANGED <<convs, members, nextID, links, removals, past, chatFaults>>

chatInsertFails(k) ==
  /\ jobs[k].step = "chat"
  /\ Done(k) /\ ChatFault
  /\ UNCHANGED <<stores, links, removals, past>>

\* Mutant: the receiver's count goes up, rows missing or not, once per member.
CountForAll(c, from, to) ==
  [u \in Peers |-> IF members[c][u] = Nobody THEN Nobody ELSE members[c][u] + 1]

CountUnread(c, from, to) == [members[c] EXCEPT ![to] = @ + 1]

\* One transaction, undone if a row is missing: the message stays in MongoDB.
UpdateConversationAfterMessage(k) ==
  LET c == jobs[k].conv IN
  /\ jobs[k].step = "update" /\ ~Locked(c)
  /\ members' = IF {PeerOf[k], jobs[k].to} \subseteq Members(c) /\ c \in convs
                  THEN [members EXCEPT ![c] = CountUnread(c, PeerOf[k], jobs[k].to)]
                  ELSE members
  /\ Done(k)
  /\ UNCHANGED <<convs, messages, nextID, links, removals, past, chatFaults>>

\* It may be the rows of a deletion that it waited for in vain.
updateFails(k) ==
  /\ jobs[k].step = "update"
  /\ broken' = IF Locked(jobs[k].conv) THEN broken \cup {jobs[k].conv} ELSE broken
  /\ Done(k) /\ ChatFault
  /\ UNCHANGED <<stores, links, removals, overlapped, cut>>

\* Entering a conversation with unread messages sets the count to zero.
EnterConversation(u, c) ==
  /\ members[c][u] \notin {Nobody, 0} /\ ~Locked(c)
  /\ members' = [members EXCEPT ![c][u] = 0]
  /\ UNCHANGED <<convs, messages, nextID, links, jobs, removals, past, chatFaults>>

----------------------------------------------------------------------------
(* Deletion: the last member takes the conversation and its messages along *)

Deleting(c) == {u \in Peers : removals[c][u].step # "no"}
OnTheWay(c) == \E k \in Conns : jobs[k].conv = c

\* The snapshot of the transaction is that of its first query.
DeleteConversationForUser(u, c) ==
  /\ c \in convs /\ u \in Members(c) /\ removals[c][u] = NoDelete
  /\ removals' = [removals EXCEPT ![c][u] = [step |-> "read", seen |-> Members(c)]]
  /\ UNCHANGED <<stores, links, jobs, past, chatFaults>>

\* Mutant: the members are counted before the user's own row is deleted.
CountedBefore(u, seen) == seen

Remaining(u, seen) == seen \ {u}

Leave(u, c) == [members EXCEPT ![c][u] = Nobody]

\* Members remain in the snapshot: only the user's own row goes.  A row that is
\* gone already makes the deletion fail.
deleteMember(u, c) ==
  /\ removals[c][u].step = "read" /\ Remaining(u, removals[c][u].seen) # {}
  /\ ~Locked(c)
  /\ members' = Leave(u, c)
  /\ overlapped' = IF u \in Members(c) /\ Deleting(c) # {u} THEN overlapped \cup {c} ELSE overlapped
  /\ cut' = IF OnTheWay(c) THEN cut \cup {c} ELSE cut
  /\ removals' = [removals EXCEPT ![c][u] = NoDelete]
  /\ UNCHANGED <<convs, messages, nextID, links, jobs, broken, chatFaults>>

\* Nobody remains: the messages go first, MongoDB is not part of the transaction.
deleteMessages(u, c) ==
  /\ removals[c][u].step = "read" /\ Remaining(u, removals[c][u].seen) = {}
  /\ ~Locked(c)
  /\ \/ /\ u \in Members(c)
        /\ messages' = {m \in messages : m.conv # c}
        /\ removals' = [removals EXCEPT ![c][u].step = "emptied"]
     \/ /\ u \notin Members(c)
        /\ removals' = [removals EXCEPT ![c][u] = NoDelete]
        /\ UNCHANGED messages
  /\ UNCHANGED <<convs, members, nextID, links, jobs, past, chatFaults>>

deleteCommits(u, c) ==
  /\ removals[c][u].step = "emptied"
  /\ convs' = convs \ {c}
  /\ members' = Leave(u, c)
  /\ cut' = IF OnTheWay(c) THEN cut \cup {c} ELSE cut
  /\ removals' = [removals EXCEPT ![c][u] = NoDelete]
  /\ UNCHANGED <<messages, nextID, links, jobs, overlapped, broken, chatFaults>>

removalFails(u, c) ==
  /\ removals[c][u] # NoDelete
  /\ broken' = IF removals[c][u].step = "emptied" THEN broken \cup {c} ELSE broken
  /\ removals' = [removals EXCEPT ![c][u] = NoDelete]
  /\ ChatFault
  /\ UNCHANGED <<stores, links, jobs, overlapped, cut>>

----------------------------------------------------------------------------
\* Messages being handled and open transactions are lost.
ChatRestart ==
  /\ ChatFault
  /\ sessions' = [u \in Peers |-> Nobody]
  /\ socks' = [k \in Conns |-> "none"]
  /\ jobs' = [k \in Conns |-> NoJob]
  /\ removals' = [c \in Chats |-> [u \in Peers |-> NoDelete]]
  /\ broken' = broken \cup {c \in Chats :
                   OnTheWay(c) \/ \E u \in Peers : removals[c][u].step = "emptied"}
  /\ UNCHANGED <<stores, newest, overlapped, cut>>

Connecting(k) == ChatWS(k) \/ Disconnect(k) \/ ReadFails(k)
Handling(k) == \/ initInsert(k) \/ initInsertFails(k) \/ DeleteConversationCascade(k)
               \/ cleanupFails(k) \/ chatInsert(k) \/ chatInsertFails(k)
               \/ UpdateConversationAfterMessage(k) \/ updateFails(k)
Leaving(u, c) == \/ DeleteConversationForUser(u, c) \/ deleteMember(u, c) \/ deleteMessages(u, c)
                 \/ deleteCommits(u, c) \/ removalFails(u, c)

ChatNext ==
  \/ \E k \in Conns : Connecting(k) \/ Handling(k)
  \/ \E k \in Conns, c \in Chats, to \in Peers :
        handleInitMessage(k, c, to) \/ handleChatMessage(k, c, to)
  \/ \E u \in Peers, c \in Chats : EnterConversation(u, c) \/ Leaving(u, c)
  \/ ChatRestart

ChatSpec == ChatInit /\ [][ChatNext]_chatVars

----------------------------------------------------------------------------
(* Queries *)

FindConversationIDsByUserID(u) == {c \in Chats : members[c][u] # Nobody}

SumUnreadCount(u) == MapThenSumSet(LAMBDA c : members[c][u], FindConversationIDsByUserID(u))

FindMessagesAfter(cs, last) == {m \in messages : m.conv \in cs /\ m.id > last}

GetOfflineMessages(u, last) == FindMessagesAfter(FindConversationIDsByUserID(u), last)

\* The newest messages that are older than the oldest one the client has.
FindConversationMessagesBefore(c, oldest, limit) ==
  LET older == {m \in messages : m.conv = c /\ m.id < oldest} IN
  {m \in older : Cardinality({n \in older : n.id > m.id}) < limit}

\* What a client has after asking for n pages, each before its oldest message.
Scrolled(c, limit) ==
  LET pages[n \in 0 .. MaxMessages] ==
        IF n = 0 THEN {}
        ELSE LET had == pages[n - 1] IN
             had \cup FindConversationMessagesBefore(c,
                         IF had = {} THEN MaxMessages + 1 ELSE Min({m.id : m \in had}), limit)
  IN pages[MaxMessages]

----------------------------------------------------------------------------
(* Properties *)

MessageRows == [id : 1 .. MaxMessages, conv : Chats, from : Peers, to : Peers]
JobRows == [step : {"idle", "init", "cleanup", "chat", "update"}, conv : Chats \cup {Nobody},
            to : Peers \cup {Nobody}, id : 0 .. MaxMessages]
RemovalRows == [step : {"no", "read", "emptied"}, seen : SUBSET Peers]

ChatTypeOK ==
  /\ convs \subseteq Chats
  /\ members \in [Chats -> [Peers -> Nat \cup {Nobody}]]
  /\ messages \subseteq MessageRows
  /\ nextID \in 0 .. MaxMessages
  /\ sessions \in [Peers -> Conns \cup {Nobody}] /\ newest \in [Peers -> Conns \cup {Nobody}]
  /\ socks \in [Conns -> {"none", "open", "closed"}]
  /\ jobs \in [Conns -> JobRows]
  /\ removals \in [Chats -> [Peers -> RemovalRows]]
  /\ {overlapped, cut, broken} \subseteq SUBSET Chats
  /\ chatFaults \in 0 .. MaxChatFaults

(***************************************************************************)
(* The connection a user opened last stays registered while it is open,    *)
(* however late the handlers of their older connections end, and no ended  *)
(* connection stays registered (SessionManager).                           *)
(***************************************************************************)
LatestConnectionIsRegistered ==
  \A u \in Peers :
    /\ newest[u] # Nobody /\ socks[newest[u]] = "open" => sessions[u] = newest[u]
    /\ sessions[u] # Nobody => socks[sessions[u]] # "none"

\* Messages that INIT has announced to the receiver and is about to store.
Expected(u) == {k \in Conns : jobs[k].step \in {"init", "cleanup"} /\ jobs[k].to = u}

(***************************************************************************)
(* The unread count shown to a user (HasUnreadMessages) is covered by      *)
(* messages their client can fetch, or that INIT is storing; only a        *)
(* failure between the two databases, or a deletion that overlaps a        *)
(* message, leaves a count without its message.  (Between the two          *)
(* deletions of the last member the messages are the first to go.)         *)
(***************************************************************************)
UnreadIsBacked ==
  \A u \in Peers :
    (\A c \in FindConversationIDsByUserID(u) : ~Locked(c) /\ c \notin broken \cup cut) =>
      SumUnreadCount(u) <= Cardinality({m \in GetOfflineMessages(u, 0) : m.to = u})
                           + Cardinality(Expected(u))

(***************************************************************************)
(* Scrolling back page by page shows every message of a conversation,      *)
(* whatever the page size (GetHistoryMessages).                            *)
(***************************************************************************)
HistoryIsComplete ==
  \A c \in Chats, limit \in 1 .. 2 :
    Scrolled(c, limit) = {m \in messages : m.conv = c}

(***************************************************************************)
(* The last member to leave takes the conversation along: one without      *)
(* members is left only by deletions that overlap, each of which still     *)
(* sees the other's row in its snapshot (DeleteConversationForUser).       *)
(***************************************************************************)
OrphansNeedARace == \A c \in convs : Members(c) = {} => c \in overlapped

(***************************************************************************)
(* Messages without a conversation are left only when the conversation     *)
(* was deleted under a message that was on its way, or by a failure.       *)
(***************************************************************************)
StraysNeedAnOverlap == \A m \in messages : m.conv \notin convs => m.conv \in cut \cup broken

(***************************************************************************)
(* What is counted and what is stored can be fetched: the unread counts    *)
(* have their messages, and scrolling back misses none.                    *)
(***************************************************************************)
MessagesAreReachable ==
  /\ UnreadIsBacked
  /\ HistoryIsComplete

(***************************************************************************)
(* Deletion leaves nothing behind: a conversation without members, or      *)
(* messages without a conversation, remain only where deletions overlapped *)
(* each other or a message, or a statement failed.                         *)
(***************************************************************************)
LeftoversNeedARace ==
  /\ ChatTypeOK
  /\ OrphansNeedARace
  /\ StraysNeedAnOverlap
=============================================================================
