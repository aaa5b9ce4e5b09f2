----------------------------- MODULE ChatProofs -----------------------------
(***************************************************************************)
(* Proofs about Chat, for any users, connections and number of messages:   *)
(* which connection of a user is registered, and what deleting a           *)
(* conversation leaves behind.                                             *)
(***************************************************************************)
EXTENDS Chat, TLAPS

----------------------------------------------------------------------------
(* The inductive invariants *)

\* The registered and the newest connection of a user are connections of theirs.
OwnConnections ==
  \A u \in Peers : /\ sessions[u] # Nobody => PeerOf[sessions[u]] = u
                   /\ newest[u] # Nobody => PeerOf[newest[u]] = u

BusyJobs == [step : {"init", "cleanup", "chat", "update"}, conv : Chats, to : Peers,
             id : 1 .. MaxMessages]
JobsTyped == jobs \in [Conns -> BusyJobs \cup {NoJob}]

\* Conversations in which a deletion met a message, or a failure left half a change.
Doomed == cut \cup broken

\* In the others members, messages, and messages on their way have a conversation,
\* the sender and the receiver of one on its way are members, two for the first one,
\* and so is a user who deletes; one who saw no other member is alone, and what they
\* emptied stays empty but for messages that wait for the rows.
First(k) == jobs[k].step \in {"init", "cleanup"}
Waits(k, c) == jobs[k].conv = c /\ jobs[k].step = "update"
Empty(c) == (\A m \in messages : m.conv # c) \/ \E k \in Conns : Waits(k, c)

Clean(c) ==
  /\ Members(c) # {} => c \in convs
  /\ \A m \in messages : m.conv = c => c \in convs
  /\ \A k \in Conns : jobs[k].conv = c =>
       /\ c \in convs /\ (First(k) => PeerOf[k] # jobs[k].to)
       /\ PeerOf[k] \in Members(c) /\ jobs[k].to \in Members(c)
  /\ \A u \in Peers : removals[c][u].step # "no" =>
       /\ c \in convs /\ u \in Members(c)
       /\ removals[c][u].seen \subseteq {u} => Members(c) \subseteq {u}
       /\ removals[c][u].step = "emptied" => Empty(c)

\* A user who deletes alone saw nobody else, unless their deletion overlapped another.
Raced(c) ==
  /\ \A u \in Peers : removals[c][u].step = "emptied" => removals[c][u].seen \subseteq {u}
  /\ c \in convs /\ c \notin overlapped =>
       /\ Members(c) # {}
       /\ \A u \in Peers : removals[c][u].step # "no" /\ Members(c) \subseteq {u} =>
            removals[c][u].seen \subseteq {u}

Kept(c) == (c \in Doomed \/ Clean(c)) /\ Raced(c)

ChatIInv == ChatTypeOK /\ JobsTyped /\ \A c \in Chats : Kept(c)

----------------------------------------------------------------------------
(* Which connection is registered *)

\* Set: the new connection is the newest and the registered one, and no
\* connection of another user is touched.
LEMMA SetStep ==
  ASSUME ChatTypeOK, OwnConnections, LatestConnectionIsRegistered,
         NEW k \in Conns, socks[k] = "none", Set(k)
  PROVE  OwnConnections' /\ LatestConnectionIsRegistered'
<1>1. PICK v \in Peers : v = PeerOf[k]
  BY ChatAssumption, Zenon
<1>2. /\ sessions \in [Peers -> Conns \cup {Nobody}] /\ newest \in [Peers -> Conns \cup {Nobody}]
      /\ socks \in [Conns -> {"none", "open", "closed"}]
  BY Zenon DEF ChatTypeOK
<1>3. /\ sessions'[v] = k /\ newest'[v] = k /\ socks'[k] = "open"
      /\ \A u \in Peers \ {v} : sessions'[u] = sessions[u] /\ newest'[u] = newest[u]
      /\ \A i \in Conns \ {k, sessions[v]} : socks'[i] = socks[i]
  BY <1>1, <1>2, Zenon DEF Set
<1>4. OwnConnections'
  <2>1. ASSUME NEW u \in Peers
        PROVE  /\ sessions'[u] # Nobody => PeerOf[sessions'[u]] = u
               /\ newest'[u] # Nobody => PeerOf[newest'[u]] = u
    <3>1. CASE u = v
      BY <1>1, <1>3, <3>1, Zenon
    <3>2. CASE u # v
      BY <1>3, <3>2, Zenon DEF OwnConnections
    <3> QED BY <3>1, <3>2, Zenon
  <2> QED BY <2>1, Zenon DEF OwnConnections
<1>5. ASSUME NEW u \in Peers
      PROVE  /\ newest'[u] # Nobody /\ socks'[newest'[u]] = "open" => sessions'[u] = newest'[u]
             /\ sessions'[u] # Nobody => socks'[sessions'[u]] # "none"
  <2>1. CASE u = v
    BY <1>3, <2>1, Zenon
  <2>2. CASE u # v
    <3>1. newest[u] # Nobody => newest[u] \in Conns \ {k, sessions[v]}
      BY <1>1, <1>2, <2>2, Zenon DEF OwnConnections
    <3>2. sessions[u] # Nobody => sessions[u] \in Conns \ {k, sessions[v]}
      BY <1>1, <1>2, <2>2, Zenon DEF OwnConnections
    <3>3. sessions'[u] = sessions[u] /\ newest'[u] = newest[u]
      BY <1>3, <2>2, Zenon
    <3>4. /\ newest[u] # Nobody => socks'[newest[u]] = socks[newest[u]]
          /\ sessions[u] # Nobody => socks'[sessions[u]] = socks[sessions[u]]
      BY <1>3, <3>1, <3>2, Zenon
    <3>5. /\ newest[u] # Nobody /\ socks[newest[u]] = "open" => sessions[u] = newest[u]
          /\ sessions[u] # Nobody => socks[sessions[u]] # "none"
      BY Zenon DEF LatestConnectionIsRegistered
    <3> QED BY <3>3, <3>4, <3>5, Zenon
  <2> QED BY <2>1, <2>2, Zenon
<1> QED BY <1>4, <1>5, Zenon DEF LatestConnectionIsRegistered

\* RemoveIfSame: the handler of a connection that has ended takes away no other.
LEMMA ReadFailsStep ==
  ASSUME ChatTypeOK, OwnConnections, LatestConnectionIsRegistered,
         NEW k \in Conns, ReadFails(k)
  PROVE  OwnConnections' /\ LatestConnectionIsRegistered'
<1>1. PICK v \in Peers : v = PeerOf[k]
  BY ChatAssumption, Zenon
<1>2. /\ sessions \in [Peers -> Conns \cup {Nobody}] /\ newest' = newest
      /\ newest \in [Peers -> Conns \cup {Nobody}]
      /\ socks \in [Conns -> {"none", "open", "closed"}]
  BY Zenon DEF ChatTypeOK, ReadFails
<1>3. /\ socks'[k] = "none" /\ \A i \in Conns \ {k} : socks'[i] = socks[i]
      /\ socks[k] = "closed"
      /\ sessions'[v] = (IF sessions[v] = k THEN Nobody ELSE sessions[v])
      /\ \A u \in Peers \ {v} : sessions'[u] = sessions[u]
  BY <1>1, <1>2, Zenon DEF ReadFails, RemoveIfSame
<1>4. ASSUME NEW u \in Peers
      PROVE  sessions'[u] \in {sessions[u], Nobody} /\ sessions'[u] # k
  <2>1. CASE u = v
    BY <1>3, <2>1, ChatAssumption, Zenon
  <2>2. CASE u # v
    <3>1. sessions'[u] = sessions[u]
      BY <1>3, <2>2, Zenon
    <3>2. sessions[u] # k
      BY <1>1, <2>2, ChatAssumption, Zenon DEF OwnConnections
    <3> QED BY <3>1, <3>2, Zenon
  <2> QED BY <2>1, <2>2, Zenon
<1>5. OwnConnections'
  BY <1>2, <1>4, Zenon DEF OwnConnections
<1>6. ASSUME NEW u \in Peers
      PROVE  /\ newest'[u] # Nobody /\ socks'[newest'[u]] = "open" => sessions'[u] = newest'[u]
             /\ sessions'[u] # Nobody => socks'[sessions'[u]] # "none"
  <2>1. ASSUME newest[u] # Nobody, socks'[newest[u]] = "open"
        PROVE  sessions'[u] = newest[u]
    <3>1. newest[u] # k /\ socks[newest[u]] = "open"
      BY <1>2, <1>3, <2>1, Zenon
    <3>2. sessions[u] = newest[u]
      BY <2>1, <3>1, Zenon DEF LatestConnectionIsRegistered
    <3> QED BY <1>3, <3>1, <3>2, Zenon
  <2>2. ASSUME sessions'[u] # Nobody
        PROVE  socks'[sessions'[u]] # "none"
    <3>1. sessions'[u] = sessions[u] /\ sessions[u] \in Conns \ {k}
      BY <1>2, <1>4, <2>2, Zenon
    <3> QED BY <1>3, <2>2, <3>1, Zenon DEF LatestConnectionIsRegistered
  <2> QED BY <1>2, <2>1, <2>2, Zenon
<1> QED BY <1>5, <1>6, Zenon DEF LatestConnectionIsRegistered

----------------------------------------------------------------------------
(* Types *)

\* Statements and handlers leave jobs of their kind.
LEMMA JobsKept ==
  ASSUME ChatTypeOK, JobsTyped, [ChatNext]_chatVars
  PROVE  JobsTyped' /\ nextID' \in 0 .. MaxMessages
<1>1. nextID \in 0 .. MaxMessages /\ MaxMessages \in Nat
  BY ChatAssumption, Zenon DEF ChatTypeOK
<1>2. NoJob.step = "idle" /\ \A j \in BusyJobs : j.step # "idle"
  BY Zenon DEF NoJob, BusyJobs
<1>3. ASSUME NEW k \in Conns, jobs[k].step # "idle",
             NEW step \in {"init", "cleanup", "chat", "update"}, Proceed(k, step)
      PROVE  JobsTyped'
  <2>1. jobs[k] \in BusyJobs
    BY <1>2, <1>3, Zenon DEF JobsTyped
  <2>2. [jobs[k] EXCEPT !.step = step] \in BusyJobs
    BY <2>1, Zenon DEF BusyJobs
  <2> QED BY <1>3, <2>2, Zenon DEF JobsTyped, Proceed
<1>4. ASSUME NEW k \in Conns, NEW step \in {"init", "chat"}, NEW c \in Chats,
             NEW to \in Peers, nextID < MaxMessages, Begin(k, step, c, to)
      PROVE  JobsTyped' /\ nextID' \in 0 .. MaxMessages
  <2>1. nextID + 1 \in 1 .. MaxMessages /\ nextID' \in 0 .. MaxMessages
    BY <1>1, <1>4 DEF Begin
  <2>2. [step |-> step, conv |-> c, to |-> to, id |-> nextID + 1] \in BusyJobs
    BY <2>1, Zenon DEF BusyJobs
  <2> QED BY <1>4, <2>1, <2>2, Zenon DEF JobsTyped, Begin
<1>5. ASSUME NEW k \in Conns, Done(k)
      PROVE  JobsTyped'
  BY <1>5, Zenon DEF JobsTyped, Done
<1>6. ASSUME NEW k \in Conns, Connecting(k) \/ Handling(k)
      PROVE  JobsTyped' /\ nextID' = nextID
  <2>1. CASE Connecting(k)
    BY <2>1, Zenon DEF Connecting, ChatWS, Disconnect, ReadFails, JobsTyped, stores
  <2>2. CASE initInsert(k) \/ cleanupFails(k) \/ DeleteConversationCascade(k) \/ chatInsertFails(k)
    BY <1>5, <2>2, Zenon
    DEF initInsert, cleanupFails, DeleteConversationCascade, chatInsertFails, stores
  <2>3. CASE initInsertFails(k) \/ chatInsert(k)
    BY <1>3, <2>3, Zenon DEF initInsertFails, chatInsert, stores
  <2>4. CASE UpdateConversationAfterMessage(k) \/ updateFails(k)
    BY <1>5, <2>4, Zenon DEF UpdateConversationAfterMessage, updateFails, stores
  <2> QED BY <1>6, <2>1, <2>2, <2>3, <2>4, Zenon DEF Handling
<1>7. ASSUME NEW k \in Conns, NEW c \in Chats, NEW to \in Peers,
             handleInitMessage(k, c, to) \/ handleChatMessage(k, c, to)
      PROVE  JobsTyped' /\ nextID' \in 0 .. MaxMessages
  BY <1>4, <1>7, Zenon DEF handleInitMessage, handleChatMessage, Ready
<1>8. ASSUME NEW u \in Peers, NEW c \in Chats, EnterConversation(u, c) \/ Leaving(u, c)
      PROVE  jobs' = jobs /\ nextID' = nextID
  BY <1>8, Zenon DEF EnterConversation, Leaving, DeleteConversationForUser, deleteMember,
     deleteMessages, deleteCommits, removalFails, stores
<1>9. ASSUME ChatRestart
      PROVE  JobsTyped' /\ nextID' = nextID
  BY <1>9, Zenon DEF ChatRestart, JobsTyped, stores
<1> QED BY <1>1, <1>6, <1>7, <1>8, <1>9, Zenon DEF ChatNext, chatVars, JobsTyped

\* The rows of the two stores.
LEMMA StoresKept ==
  ASSUME ChatTypeOK, JobsTyped, [ChatNext]_chatVars
  PROVE  /\ convs' \subseteq Chats /\ messages' \subseteq MessageRows
         /\ members' \in [Chats -> [Peers -> Nat \cup {Nobody}]]
<1>0. /\ convs \subseteq Chats /\ messages \subseteq MessageRows
      /\ members \in [Chats -> [Peers -> Nat \cup {Nobody}]]
  BY Zenon DEF ChatTypeOK
<1>1. NoJob.step = "idle"
  BY Zenon DEF NoJob
<1>2. ASSUME NEW k \in Conns, jobs[k].step # "idle"
      PROVE  jobs[k] \in BusyJobs /\ jobs[k].conv \in Chats /\ jobs[k].to \in Peers
             /\ PeerOf[k] \in Peers /\ jobs[k].id \in 1 .. MaxMessages
  <2>1. jobs[k] \in BusyJobs
    BY <1>1, <1>2, Zenon DEF JobsTyped
  <2> QED BY <2>1, ChatAssumption, Zenon DEF BusyJobs
<1>3. ASSUME NEW k \in Conns, jobs[k].step # "idle", InsertMessage(k)
      PROVE  messages' \subseteq MessageRows
  <2>1. [id |-> jobs[k].id, conv |-> jobs[k].conv, from |-> PeerOf[k], to |-> jobs[k].to] \in MessageRows
    BY <1>2, <1>3, Zenon DEF MessageRows
  <2> QED BY <1>0, <1>3, <2>1, Zenon DEF InsertMessage
<1>4. ASSUME NEW c \in Chats, NEW row \in [Peers -> Nat \cup {Nobody}],
             members' = [members EXCEPT ![c] = row]
      PROVE  members' \in [Chats -> [Peers -> Nat \cup {Nobody}]]
  BY <1>0, <1>4, Zenon
<1>5. ASSUME NEW c \in Chats, NEW u \in Peers, NEW n \in Nat \cup {Nobody},
             members' = [members EXCEPT ![c][u] = n]
      PROVE  members' \in [Chats -> [Peers -> Nat \cup {Nobody}]]
  BY <1>0, <1>5, Zenon
<1>6. ASSUME NEW k \in Conns, Connecting(k) \/ Handling(k)
      PROVE  /\ convs' \subseteq Chats /\ messages' \subseteq MessageRows
             /\ members' \in [Chats -> [Peers -> Nat \cup {Nobody}]]
  <2>1. CASE \/ Connecting(k) \/ initInsertFails(k) \/ cleanupFails(k) \/ chatInsertFails(k)
             \/ updateFails(k)
    BY <1>0, <2>1, Zenon DEF Connecting, ChatWS, Disconnect, ReadFails, initInsertFails,
       cleanupFails, chatInsertFails, updateFails, stores
  <2>2. CASE initInsert(k) \/ chatInsert(k)
    BY <1>0, <1>3, <2>2, Zenon DEF initInsert, chatInsert
  <2>3. CASE DeleteConversationCascade(k)
    <3>1. [u \in Peers |-> Nobody] \in [Peers -> Nat \cup {Nobody}]
      BY Zenon
    <3> QED BY <1>0, <1>2, <1>4, <2>3, <3>1, Zenon DEF DeleteConversationCascade
  <2>4. CASE UpdateConversationAfterMessage(k)
    <3>1. PICK c \in Chats, to \in Peers : c = jobs[k].conv /\ to = jobs[k].to
      BY <1>2, <2>4, Zenon DEF UpdateConversationAfterMessage
    <3>2. ASSUME to \in Members(c)
          PROVE  CountUnread(c, PeerOf[k], to) \in [Peers -> Nat \cup {Nobody}]
      <4>1. members[c] \in [Peers -> Nat \cup {Nobody}] /\ members[c][to] \in Nat
        BY <1>0, <3>2, Zenon DEF Members
      <4>2. members[c][to] + 1 \in Nat
        BY <4>1
      <4> QED BY <4>1, <4>2, Zenon DEF CountUnread
    <3> QED BY <1>0, <1>4, <2>4, <3>1, <3>2, Zenon DEF UpdateConversationAfterMessage
  <2> QED BY <1>6, <2>1, <2>2, <2>3, <2>4, Zenon DEF Handling
<1>7. ASSUME NEW k \in Conns, NEW c \in Chats, NEW to \in Peers,
             handleInitMessage(k, c, to) \/ handleChatMessage(k, c, to)
      PROVE  /\ convs' \subseteq Chats /\ messages' \subseteq MessageRows
             /\ members' \in [Chats -> [Peers -> Nat \cup {Nobody}]]
  <2>1. CASE handleInitMessage(k, c, to)
    <3>1. NewMembers(PeerOf[k], to) \in [Peers -> Nat \cup {Nobody}]
      BY Zenon DEF NewMembers
    <3> QED BY <1>0, <1>4, <2>1, <3>1, Zenon
        DEF handleInitMessage, CreateConversationWithMembers
  <2>2. CASE handleChatMessage(k, c, to)
    BY <1>0, <2>2, Zenon DEF handleChatMessage
  <2> QED BY <1>7, <2>1, <2>2, Zenon
<1>8. ASSUME NEW u \in Peers, NEW c \in Chats, EnterConversation(u, c) \/ Leaving(u, c)
      PROVE  /\ convs' \subseteq Chats /\ messages' \subseteq MessageRows
             /\ members' \in [Chats -> [Peers -> Nat \cup {Nobody}]]
  <2>1. CASE EnterConversation(u, c)
    BY <1>0, <1>5, <2>1, Zenon DEF EnterConversation
  <2>2. CASE deleteMember(u, c) \/ deleteCommits(u, c)
    BY <1>0, <1>5, <2>2, Zenon DEF deleteMember, deleteCommits, Leave
  <2>3. CASE DeleteConversationForUser(u, c) \/ deleteMessages(u, c) \/ removalFails(u, c)
    BY <1>0, <2>3, Zenon DEF DeleteConversationForUser, deleteMessages, removalFails, stores
  <2> QED BY <1>8, <2>1, <2>2, <2>3, Zenon DEF Leaving
<1> QED BY <1>0, <1>6, <1>7, <1>8, Zenon DEF ChatNext, ChatRestart, chatVars, stores

\* Deletions, their history and the count of failures.
LEMMA RemovalsKept ==
  ASSUME ChatTypeOK, JobsTyped, [ChatNext]_chatVars
  PROVE  /\ removals' \in [Chats -> [Peers -> RemovalRows]]
         /\ overlapped' \subseteq Chats /\ cut' \subseteq Chats /\ broken' \subseteq Chats
         /\ chatFaults' \in 0 .. MaxChatFaults
<1>0. /\ removals \in [Chats -> [Peers -> RemovalRows]]
      /\ overlapped \subseteq Chats /\ cut \subseteq Chats /\ broken \subseteq Chats
      /\ chatFaults \in 0 .. MaxChatFaults /\ MaxChatFaults \in Nat
  BY ChatAssumption, Zenon DEF ChatTypeOK
<1>1. ChatFault => chatFaults' \in 0 .. MaxChatFaults
  BY <1>0 DEF ChatFault
<1>2. NoDelete \in RemovalRows
  BY Zenon DEF NoDelete, RemovalRows
<1>3. ASSUME NEW c \in Chats, NEW u \in Peers, NEW r \in RemovalRows,
             removals' = [removals EXCEPT ![c][u] = r]
      PROVE  removals' \in [Chats -> [Peers -> RemovalRows]]
  BY <1>0, <1>3, Zenon
<1>4. ASSUME NEW k \in Conns, jobs[k].step # "idle"
      PROVE  jobs[k].conv \in Chats
  <2>1. NoJob.step = "idle"
    BY Zenon DEF NoJob
  <2>2. jobs[k] \in BusyJobs
    BY <1>4, <2>1, Zenon DEF JobsTyped
  <2> QED BY <2>2, Zenon DEF BusyJobs
<1>5. ASSUME NEW k \in Conns, Connecting(k) \/ Handling(k)
      PROVE  /\ removals' = removals /\ overlapped' = overlapped /\ cut' = cut
             /\ broken' \subseteq Chats /\ chatFaults' \in 0 .. MaxChatFaults
  <2>1. CASE Connecting(k)
    BY <1>0, <2>1, Zenon DEF Connecting, ChatWS, Disconnect, ReadFails, past
  <2>2. CASE initInsert(k) \/ chatInsert(k) \/ UpdateConversationAfterMessage(k)
    BY <1>0, <2>2, Zenon DEF initInsert, chatInsert, UpdateConversationAfterMessage, past
  <2>3. CASE initInsertFails(k) \/ chatInsertFails(k)
    BY <1>0, <1>1, <2>3, Zenon DEF initInsertFails, chatInsertFails, past
  <2>6. CASE updateFails(k)
    BY <1>0, <1>1, <1>4, <2>6, Zenon DEF updateFails
  <2>4. CASE DeleteConversationCascade(k)
    BY <1>0, <1>4, <2>4, Zenon DEF DeleteConversationCascade
  <2>5. CASE cleanupFails(k)
    BY <1>0, <1>1, <1>4, <2>5, Zenon DEF cleanupFails
  <2> QED BY <1>5, <2>1, <2>2, <2>3, <2>4, <2>5, <2>6, Zenon DEF Handling
<1>6. ASSUME NEW k \in Conns, NEW c \in Chats, NEW to \in Peers,
             handleInitMessage(k, c, to) \/ handleChatMessage(k, c, to)
      PROVE  UNCHANGED <<removals, overlapped, cut, broken, chatFaults>>
  BY <1>6, Zenon DEF handleInitMessage, handleChatMessage, past
<1>7. ASSUME NEW u \in Peers, NEW c \in Chats, Leaving(u, c)
      PROVE  /\ removals' \in [Chats -> [Peers -> RemovalRows]]
             /\ overlapped' \subseteq Chats /\ cut' \subseteq Chats /\ broken' \subseteq Chats
             /\ chatFaults' \in 0 .. MaxChatFaults
  <2>1. CASE DeleteConversationForUser(u, c)
    <3>1. [step |-> "read", seen |-> Members(c)] \in RemovalRows
      BY Zenon DEF Members, RemovalRows
    <3> QED BY <1>0, <1>3, <2>1, <3>1, Zenon DEF DeleteConversationForUser, past
  <2>2. CASE deleteMember(u, c)
    BY <1>0, <1>2, <1>3, <2>2, Zenon DEF deleteMember
  <2>3. CASE deleteMessages(u, c)
    <3>1. removals[c][u] \in RemovalRows
      BY <1>0, Zenon
    <3>2. [removals[c][u] EXCEPT !.step = "emptied"] \in RemovalRows
      BY <3>1, Zenon DEF RemovalRows
    <3>3. removals' = [removals EXCEPT ![c][u] = [removals[c][u] EXCEPT !.step = "emptied"]]
          \/ removals' = [removals EXCEPT ![c][u] = NoDelete]
      BY <1>0, <2>3, Zenon DEF deleteMessages
    <3> QED BY <1>0, <1>2, <1>3, <2>3, <3>2, <3>3, Zenon DEF deleteMessages, past
  <2>4. CASE deleteCommits(u, c)
    BY <1>0, <1>2, <1>3, <2>4, Zenon DEF deleteCommits
  <2>5. CASE removalFails(u, c)
    BY <1>0, <1>1, <1>2, <1>3, <2>5, Zenon DEF removalFails
  <2> QED BY <1>7, <2>1, <2>2, <2>3, <2>4, <2>5, Zenon DEF Leaving
<1>8. CASE ChatRestart
  BY <1>0, <1>1, <1>2, <1>8, Zenon DEF ChatRestart
<1> QED BY <1>0, <1>5, <1>6, <1>7, <1>8, Zenon DEF ChatNext, EnterConversation, chatVars, past

\* Only connecting, disconnecting and a restart change who is registered.
LEMMA LinksMove ==
  ASSUME [ChatNext]_chatVars
  PROVE  (\E k \in Conns : Connecting(k)) \/ ChatRestart \/ UNCHANGED links
<1>1. ASSUME NEW k \in Conns, Handling(k)
      PROVE  UNCHANGED links
  BY <1>1, Zenon DEF Handling, initInsert, initInsertFails, DeleteConversationCascade, cleanupFails,
     chatInsert, chatInsertFails, UpdateConversationAfterMessage, updateFails
<1>2. ASSUME NEW k \in Conns, NEW c \in Chats, NEW to \in Peers,
             handleInitMessage(k, c, to) \/ handleChatMessage(k, c, to)
      PROVE  UNCHANGED links
  BY <1>2, Zenon DEF handleInitMessage, handleChatMessage
<1>3. ASSUME NEW u \in Peers, NEW c \in Chats, EnterConversation(u, c) \/ Leaving(u, c)
      PROVE  UNCHANGED links
  BY <1>3, Zenon DEF EnterConversation, Leaving, DeleteConversationForUser, deleteMember,
     deleteMessages, deleteCommits, removalFails
<1> QED BY <1>1, <1>2, <1>3, Zenon DEF ChatNext, chatVars, links

\* Connections and who is registered.
LEMMA LinksKept ==
  ASSUME ChatTypeOK, [ChatNext]_chatVars
  PROVE  /\ sessions' \in [Peers -> Conns \cup {Nobody}]
         /\ newest' \in [Peers -> Conns \cup {Nobody}]
         /\ socks' \in [Conns -> {"none", "open", "closed"}]
<1>0. /\ sessions \in [Peers -> Conns \cup {Nobody}] /\ newest \in [Peers -> Conns \cup {Nobody}]
      /\ socks \in [Conns -> {"none", "open", "closed"}]
  BY Zenon DEF ChatTypeOK
<1>1. ASSUME NEW k \in Conns, ChatWS(k)
      PROVE  /\ sessions' \in [Peers -> Conns \cup {Nobody}]
             /\ newest' \in [Peers -> Conns \cup {Nobody}]
             /\ socks' \in [Conns -> {"none", "open", "closed"}]
  <2>1. PeerOf[k] \in Peers
    BY ChatAssumption, Zenon
  <2> QED BY <1>0, <1>1, <2>1, Zenon DEF ChatWS, Set
<1>2. ASSUME NEW k \in Conns, Disconnect(k)
      PROVE  socks' \in [Conns -> {"none", "open", "closed"}] /\ UNCHANGED <<sessions, newest>>
  BY <1>0, <1>2, Zenon DEF Disconnect
<1>3. ASSUME NEW k \in Conns, ReadFails(k)
      PROVE  /\ sessions' \in [Peers -> Conns \cup {Nobody}] /\ newest' = newest
             /\ socks' \in [Conns -> {"none", "open", "closed"}]
  BY <1>0, <1>3, ChatAssumption, Zenon DEF ReadFails, RemoveIfSame
<1>4. CASE ChatRestart
  BY <1>0, <1>4, Zenon DEF ChatRestart
<1>5. CASE UNCHANGED links
  BY <1>0, <1>5, Zenon DEF links
<1> QED BY <1>0, <1>1, <1>2, <1>3, <1>4, <1>5, LinksMove, Zenon DEF Connecting

\* Every step keeps the types.
LEMMA ChatTyped ==
  ASSUME ChatTypeOK, JobsTyped, [ChatNext]_chatVars
  PROVE  ChatTypeOK' /\ JobsTyped'
<1>1. BusyJobs \cup {NoJob} \subseteq JobRows
  BY ChatAssumption DEF BusyJobs, JobRows, NoJob
<1>2. jobs' \in [Conns -> JobRows]
  BY <1>1, JobsKept, Zenon DEF JobsTyped
<1> QED BY <1>2, JobsKept, StoresKept, RemovalsKept, LinksKept, Zenon DEF ChatTypeOK

\* Every step keeps the newest open connection registered.
LEMMA RegistryStep ==
  ASSUME ChatTypeOK, OwnConnections, LatestConnectionIsRegistered, [ChatNext]_chatVars
  PROVE  OwnConnections' /\ LatestConnectionIsRegistered'
<1>0. newest \in [Peers -> Conns \cup {Nobody}] /\ socks \in [Conns -> {"none", "open", "closed"}]
      /\ sessions \in [Peers -> Conns \cup {Nobody}]
  BY Zenon DEF ChatTypeOK
<1>1. ASSUME NEW k \in Conns, Disconnect(k)
      PROVE  OwnConnections' /\ LatestConnectionIsRegistered'
  <2>1. /\ sessions' = sessions /\ newest' = newest
        /\ \A i \in Conns : socks'[i] \in {socks[i], "closed"}
    BY <1>0, <1>1, Zenon DEF Disconnect
  <2>2. OwnConnections'
    BY <2>1, Zenon DEF OwnConnections
  <2>3. \A i \in Conns : socks'[i] = "open" => socks[i] = "open"
    BY <2>1, Zenon
  <2>4. \A i \in Conns : socks[i] # "none" => socks'[i] # "none"
    BY <2>1, Zenon
  <2>5. LatestConnectionIsRegistered'
    <3>1. ASSUME NEW u \in Peers, newest[u] # Nobody, socks'[newest[u]] = "open"
          PROVE  sessions[u] = newest[u]
      BY <1>0, <2>3, <3>1, Zenon DEF LatestConnectionIsRegistered
    <3>2. ASSUME NEW u \in Peers, sessions[u] # Nobody
          PROVE  socks'[sessions[u]] # "none"
      BY <1>0, <2>4, <3>2, Zenon DEF LatestConnectionIsRegistered
    <3> QED BY <2>1, <3>1, <3>2, Zenon DEF LatestConnectionIsRegistered
  <2> QED BY <2>2, <2>5, Zenon
<1>2. CASE ChatRestart
  BY <1>0, <1>2, Zenon DEF ChatRestart, OwnConnections, LatestConnectionIsRegistered
<1>3. CASE UNCHANGED links
  BY <1>3, Zenon DEF links, OwnConnections, LatestConnectionIsRegistered
<1> QED BY <1>1, <1>2, <1>3, SetStep, ReadFailsStep, LinksMove, Zenon DEF Connecting, ChatWS

\* The initial stores are typed and empty.
LEMMA ChatStarts == ChatInit => ChatTypeOK /\ JobsTyped /\ OwnConnections /\ LatestConnectionIsRegistered
<1> SUFFICES ASSUME ChatInit
             PROVE  ChatTypeOK /\ JobsTyped /\ OwnConnections /\ LatestConnectionIsRegistered
  BY Zenon
<1>1. NoJob \in JobRows /\ NoDelete \in RemovalRows /\ 0 \in 0 .. MaxMessages /\ 0 \in 0 .. MaxChatFaults
  BY ChatAssumption DEF NoJob, JobRows, NoDelete, RemovalRows
<1>2. ChatTypeOK
  BY <1>1, Zenon DEF ChatInit, ChatTypeOK
<1> QED BY <1>2, Zenon DEF ChatInit, JobsTyped, OwnConnections, LatestConnectionIsRegistered

\* The registered connection is the newest one while that is open, however late the
\* handlers of a user's older connections end (SessionManager.Set, RemoveIfSame).
THEOREM ConnectionsAreRegistered == ChatSpec => []LatestConnectionIsRegistered
<1>1. ChatTypeOK /\ JobsTyped /\ OwnConnections /\ LatestConnectionIsRegistered /\ [ChatNext]_chatVars
      => (ChatTypeOK /\ JobsTyped /\ OwnConnections /\ LatestConnectionIsRegistered)'
  BY ChatTyped, RegistryStep, Zenon
<1> QED BY <1>1, ChatStarts, PTL DEF ChatSpec

----------------------------------------------------------------------------
(* What a deletion leaves behind *)

\* What most steps do to a conversation: its row and its members stay, messages,
\* jobs and deletions end or go on, only a job of it adds a message, and one that
\* waits for the rows of a deletion does not end well.
Quiet(c) ==
  /\ c \in convs' <=> c \in convs
  /\ Members(c)' = Members(c)
  /\ Doomed \subseteq Doomed' /\ overlapped \subseteq overlapped'
  /\ \A k \in Conns : jobs'[k].conv = c => jobs[k].conv = c /\ jobs'[k].to = jobs[k].to /\ (First(k)' => First(k))
  /\ \A k \in Conns : Waits(k, c) /\ Locked(c) => Waits(k, c)' \/ c \in Doomed'
  /\ \A u \in Peers : removals'[c][u] \in {removals[c][u], NoDelete}
  /\ \A m \in messages' : m.conv = c => m \in messages \/ \E k \in Conns : jobs[k].conv = c /\ (First(k) \/ Waits(k, c)')

\* A quiet step keeps what the invariant says of the conversation.
LEMMA QuietStep ==
  ASSUME NEW c \in Chats, Kept(c), Quiet(c)
  PROVE  Kept(c)'
<1>0. NoDelete.step = "no"
  BY Zenon DEF NoDelete
<1>1. ASSUME NEW u \in Peers, removals'[c][u].step # "no"
      PROVE  removals'[c][u] = removals[c][u]
  BY <1>0, <1>1, Zenon DEF Quiet
<1>2. Raced(c)'
  <2>1. \A u \in Peers : removals'[c][u].step = "emptied" => removals'[c][u].seen \subseteq {u}
    BY <1>0, <1>1, Zenon DEF Kept, Raced
  <2>2. ASSUME c \in convs', c \notin overlapped'
        PROVE  /\ Members(c) # {}
               /\ \A u \in Peers : removals'[c][u].step # "no" /\ Members(c) \subseteq {u} =>
                    removals'[c][u].seen \subseteq {u}
    <3>1. c \in convs /\ c \notin overlapped
      BY <2>2, Zenon DEF Quiet
    <3>2. /\ Members(c) # {}
          /\ \A u \in Peers : removals[c][u].step # "no" /\ Members(c) \subseteq {u} =>
               removals[c][u].seen \subseteq {u}
      BY <3>1, Zenon DEF Kept, Raced
    <3> QED BY <1>1, <3>2, Zenon
  <2>3. Members(c)' = Members(c)
    BY Zenon DEF Quiet
  <2> QED BY <2>1, <2>2, <2>3, Zenon DEF Raced
<1>3. ASSUME c \notin Doomed'
      PROVE  Clean(c)'
  <2>1. Clean(c) /\ Raced(c)
    BY <1>3, Zenon DEF Kept, Quiet
  <2>2. (c \in convs' <=> c \in convs) /\ Members(c)' = Members(c)
    BY Zenon DEF Quiet
  <2>3. \A k \in Conns : jobs'[k].conv = c =>
          /\ c \in convs /\ (First(k)' => PeerOf[k] # jobs'[k].to)
          /\ PeerOf[k] \in Members(c) /\ jobs'[k].to \in Members(c)
    BY <2>1, Zenon DEF Clean, Quiet
  <2>4. \A m \in messages' : m.conv = c => c \in convs
    BY <2>1, Zenon DEF Clean, Quiet
  <2>5. ASSUME NEW u \in Peers, removals'[c][u].step # "no"
        PROVE  /\ c \in convs /\ u \in Members(c)
               /\ removals'[c][u].seen \subseteq {u} => Members(c) \subseteq {u}
               /\ removals'[c][u].step = "emptied" => Empty(c)'
    <3>1. removals'[c][u] = removals[c][u]
      BY <1>1, <2>5, Zenon
    <3>2. /\ c \in convs /\ u \in Members(c)
          /\ removals[c][u].seen \subseteq {u} => Members(c) \subseteq {u}
          /\ removals[c][u].step = "emptied" => Empty(c)
      BY <2>1, <2>5, <3>1, Zenon DEF Clean
    <3>3. ASSUME removals[c][u].step = "emptied"
          PROVE  Empty(c)'
      <4>1. Members(c) \subseteq {u} /\ Locked(c) /\ Empty(c)
        BY <2>1, <3>2, <3>3, Zenon DEF Raced, Locked
      <4>2. ASSUME NEW k \in Conns, Waits(k, c) PROVE Empty(c)'
        <5>1. Waits(k, c)'
          BY <1>3, <4>1, <4>2, Zenon DEF Quiet
        <5> QED BY <5>1, Zenon DEF Empty
      <4>3. ASSUME \A m \in messages : m.conv # c, NEW m \in messages', m.conv = c PROVE Empty(c)'
        <5>1. PICK k \in Conns : jobs[k].conv = c /\ (First(k) \/ Waits(k, c)')
          BY <4>3, Zenon DEF Quiet
        <5>2. ~First(k)
          <6>1. PeerOf[k] \in Members(c) /\ jobs[k].to \in Members(c) /\ (First(k) => PeerOf[k] # jobs[k].to)
            BY <2>1, <5>1, Zenon DEF Clean
          <6> QED BY <4>1, <6>1, Zenon
        <5> QED BY <5>1, <5>2, Zenon DEF Empty
      <4> QED BY <4>1, <4>2, <4>3, Zenon DEF Empty
    <3> QED BY <3>1, <3>2, <3>3, Zenon
  <2> QED BY <2>1, <2>2, <2>3, <2>4, <2>5, Zenon DEF Clean
<1> QED BY <1>2, <1>3, Zenon DEF Kept

\* CreateConversationWithMembers: what is left of a clean conversation of that name is nothing.
LEMMA InitStep ==
  ASSUME ChatTypeOK, NEW c \in Chats, Kept(c), NEW k \in Conns, NEW to \in Peers,
         handleInitMessage(k, c, to)
  PROVE  Kept(c)'
<1>0. PICK from \in Peers : from = PeerOf[k]
  BY ChatAssumption, Zenon
<1>1. /\ c \notin convs /\ c \in convs' /\ from # to
      /\ UNCHANGED <<messages, removals, overlapped, cut, broken>>
  BY <1>0, Zenon DEF handleInitMessage, CreateConversationWithMembers, past
<1>2. Members(c)' = {from, to}
  <2>1. members' = [members EXCEPT ![c] = NewMembers(from, to)]
        /\ members \in [Chats -> [Peers -> Nat \cup {Nobody}]]
    BY <1>0, Zenon DEF handleInitMessage, CreateConversationWithMembers, ChatTypeOK
  <2>2. members'[c] = [u \in Peers |-> IF u = from THEN 0 ELSE IF u = to THEN 1 ELSE Nobody]
    BY <2>1, Zenon DEF NewMembers
  <2>3. 0 # Nobody /\ 1 # Nobody
    BY ChatAssumption
  <2> QED BY <2>2, <2>3, Zenon DEF Members
<1>3. /\ jobs'[k].conv = c /\ jobs'[k].to = to
      /\ \A i \in Conns \ {k} : jobs'[i] = jobs[i]
  BY Zenon DEF handleInitMessage, Begin, ChatTypeOK
<1>4. Raced(c)'
  <2>1. \A u \in Peers : ~(Members(c)' \subseteq {u})
    BY <1>1, <1>2, Zenon
  <2> QED BY <1>1, <1>2, <2>1, Zenon DEF Kept, Raced
<1>5. ASSUME c \notin Doomed'
      PROVE  Clean(c)'
  <2>1. Clean(c)
    BY <1>1, <1>5, Zenon DEF Kept, Doomed
  <2>2. /\ \A m \in messages : m.conv # c
        /\ \A i \in Conns : jobs[i].conv # c
        /\ \A u \in Peers : removals[c][u].step = "no"
    BY <1>1, <2>1, Zenon DEF Clean
  <2>3. \A i \in Conns : jobs'[i].conv = c => i = k
    BY <1>3, <2>2, Zenon
  <2>4. \A i \in Conns : jobs'[i].conv = c =>
          /\ c \in convs' /\ (First(i)' => PeerOf[i] # jobs'[i].to)
          /\ PeerOf[i] \in Members(c)' /\ jobs'[i].to \in Members(c)'
    BY <1>0, <1>1, <1>2, <1>3, <2>3, Zenon
  <2> QED BY <1>1, <2>2, <2>4, Zenon DEF Clean
<1> QED BY <1>4, <1>5, Zenon DEF Kept

\* A connection without a message waits for no rows.
LEMMA IdleWaitsNot ==
  ASSUME NEW k \in Conns, NEW c \in Chats, jobs[k] = NoJob
  PROVE  ~Waits(k, c)
<1>1. NoJob.step = "idle"
  BY Zenon DEF NoJob
<1>2. jobs[k].step = "idle"
  BY <1>1, Zenon
<1> QED BY <1>2, Zenon DEF Waits

\* A message is accepted from a member for a member.
LEMMA ChatStep ==
  ASSUME ChatTypeOK, NEW c \in Chats, Kept(c), NEW k \in Conns, NEW to \in Peers,
         handleChatMessage(k, c, to)
  PROVE  Kept(c)'
<1>1. /\ UNCHANGED <<convs, members, messages, removals, overlapped, cut, broken>>
      /\ PeerOf[k] \in Members(c) /\ to \in Members(c)
  BY Zenon DEF handleChatMessage, past
<1>2. /\ jobs'[k].conv = c /\ jobs'[k].to = to /\ jobs'[k].step = "chat" /\ jobs[k] = NoJob
      /\ \A i \in Conns \ {k} : jobs'[i] = jobs[i]
  BY Zenon DEF handleChatMessage, Begin, Ready, ChatTypeOK
<1>3. Members(c)' = Members(c)
  BY <1>1, Zenon DEF Members
<1>4. Raced(c)'
  <2>1. Raced(c) /\ UNCHANGED <<convs, removals, overlapped>>
    BY <1>1, Zenon DEF Kept
  <2>2. \A v \in Peers : removals'[c][v] = removals[c][v]
    BY <2>1, Zenon
  <2> QED BY <1>3, <2>1, <2>2, Zenon DEF Raced
<1>5. ASSUME c \notin Doomed'
      PROVE  Clean(c)'
  <2>1. Clean(c)
    BY <1>1, <1>5, Zenon DEF Kept, Doomed
  <2>2. c \in convs
    BY <1>1, <2>1, Zenon DEF Clean
  <2>3. \A i \in Conns : jobs'[i].conv = c =>
          /\ c \in convs /\ (First(i)' => PeerOf[i] # jobs'[i].to)
          /\ PeerOf[i] \in Members(c) /\ jobs'[i].to \in Members(c)
    <3>1. ~First(k)'
      BY <1>2, Zenon DEF First
    <3>2. \A i \in Conns \ {k} : First(i)' <=> First(i)
      BY <1>2, Zenon DEF First
    <3> QED BY <1>1, <1>2, <2>1, <2>2, <3>1, <3>2, Zenon DEF Clean
  <2>4. Empty(c) => Empty(c)'
    <3>1. ~Waits(k, c)
      BY <1>2, IdleWaitsNot, Zenon
    <3>2. \A i \in Conns \ {k} : Waits(i, c) => Waits(i, c)'
      BY <1>2, Zenon DEF Waits
    <3> QED BY <1>1, <3>1, <3>2, Zenon DEF Empty
  <2>5. \A v \in Peers : removals'[c][v].step # "no" =>
          /\ c \in convs /\ v \in Members(c)
          /\ removals'[c][v].seen \subseteq {v} => Members(c) \subseteq {v}
          /\ removals'[c][v].step = "emptied" => Empty(c)'
    BY <1>1, <2>1, <2>4, Zenon DEF Clean
  <2>6. /\ Members(c)' # {} => c \in convs'
        /\ \A m \in messages' : m.conv = c => c \in convs'
    BY <1>1, <2>2, Zenon
  <2> QED BY <1>1, <1>3, <2>3, <2>5, <2>6, Zenon DEF Clean
<1> QED BY <1>4, <1>5, Zenon DEF Kept

\* DeleteConversationCascade: what it takes back is broken.
LEMMA CascadeStep ==
  ASSUME NEW c \in Chats, Kept(c), NEW k \in Conns, jobs[k].conv = c, DeleteConversationCascade(k)
  PROVE  Kept(c)'
<1>1. c \in Doomed' /\ c \notin convs' /\ removals' = removals
  BY Zenon DEF DeleteConversationCascade, Doomed
<1>2. Raced(c)'
  BY <1>1, Zenon DEF Kept, Raced
<1> QED BY <1>1, <1>2, Zenon DEF Kept

\* The deletion of one user ends or goes on; those of others stay.
LEMMA RemovalMoves ==
  ASSUME ChatTypeOK, NEW c \in Chats, NEW u \in Peers, NEW r,
         removals' = [removals EXCEPT ![c][u] = r]
  PROVE  /\ removals'[c][u] = r
         /\ \A v \in Peers \ {u} : removals'[c][v] = removals[c][v]
  BY Zenon DEF ChatTypeOK

\* A deletion that ends is no deletion any more.
LEMMA RemovalEnds ==
  ASSUME ChatTypeOK, NEW c \in Chats, NEW u \in Peers,
         removals' = [removals EXCEPT ![c][u] = NoDelete]
  PROVE  /\ removals'[c][u].step = "no"
         /\ \A v \in Peers \ {u} : removals'[c][v] = removals[c][v]
<1>1. NoDelete.step = "no"
  BY Zenon DEF NoDelete
<1>2. /\ removals'[c][u] = NoDelete
      /\ \A v \in Peers \ {u} : removals'[c][v] = removals[c][v]
  BY RemovalMoves, Zenon
<1> QED BY <1>1, <1>2, Zenon

\* The snapshot of a deletion is the members.
LEMMA ReadStep ==
  ASSUME ChatTypeOK, NEW c \in Chats, Kept(c), NEW u \in Peers, DeleteConversationForUser(u, c)
  PROVE  Kept(c)'
<1>1. /\ UNCHANGED <<convs, members, messages, jobs, overlapped, cut, broken>>
      /\ c \in convs /\ u \in Members(c)
  BY Zenon DEF DeleteConversationForUser, stores, past
<1>2. /\ removals'[c][u] = [step |-> "read", seen |-> Members(c)]
      /\ \A v \in Peers \ {u} : removals'[c][v] = removals[c][v]
  BY RemovalMoves, Zenon DEF DeleteConversationForUser
<1>3. /\ removals'[c][u].step = "read" /\ removals'[c][u].seen = Members(c)
  <2>1. [step |-> "read", seen |-> Members(c)].step = "read" /\ [step |-> "read", seen |-> Members(c)].seen = Members(c)
    BY Zenon
  <2> QED BY <1>2, <2>1, Zenon
<1>4. Members(c)' = Members(c) /\ Doomed' = Doomed
  BY <1>1, Zenon DEF Members, Doomed
<1>5. Raced(c)'
  <2>1. ASSUME NEW v \in Peers, v # u
        PROVE  removals'[c][v] = removals[c][v]
    BY <1>2, <2>1, Zenon
  <2>2. \A v \in Peers : removals'[c][v].step = "emptied" => removals'[c][v].seen \subseteq {v}
    BY <1>3, <2>1, Zenon DEF Kept, Raced
  <2>3. ASSUME c \notin overlapped, NEW v \in Peers, removals'[c][v].step # "no", Members(c) \subseteq {v}
        PROVE  removals'[c][v].seen \subseteq {v}
    <3>1. CASE v = u
      BY <1>3, <2>3, <3>1, Zenon
    <3>2. CASE v # u
      BY <1>1, <2>1, <2>3, <3>2, Zenon DEF Kept, Raced
    <3> QED BY <3>1, <3>2, Zenon
  <2>4. c \notin overlapped => Members(c) # {}
    BY <1>1, Zenon
  <2> QED BY <1>1, <1>4, <2>2, <2>3, <2>4, Zenon DEF Raced
<1>6. ASSUME c \notin Doomed
      PROVE  Clean(c)'
  <2>1. Clean(c)
    BY <1>6, Zenon DEF Kept
  <2>2. ASSUME NEW v \in Peers, removals'[c][v].step # "no"
        PROVE  /\ c \in convs /\ v \in Members(c)
               /\ removals'[c][v].seen \subseteq {v} => Members(c) \subseteq {v}
               /\ removals'[c][v].step = "emptied" => Empty(c)
    <3>1. CASE v = u
      BY <1>1, <1>3, <3>1, Zenon
    <3>2. CASE v # u
      <4>1. removals'[c][v] = removals[c][v]
        BY <1>2, <3>2, Zenon
      <4> QED BY <2>1, <2>2, <4>1, Zenon DEF Clean
    <3> QED BY <3>1, <3>2, Zenon
  <2>3. Empty(c)' = Empty(c) /\ \A k \in Conns : First(k)' = First(k)
    BY <1>1, Zenon DEF Empty, Waits, First
  <2> QED BY <1>1, <1>4, <2>1, <2>2, <2>3, Zenon DEF Clean
<1> QED BY <1>4, <1>5, <1>6, Zenon DEF Kept

\* A user whose row is deleted is a member no more.
LEMMA LeaveMembers ==
  ASSUME ChatTypeOK, NEW c \in Chats, NEW u \in Peers, members' = Leave(u, c)
  PROVE  Members(c)' = Members(c) \ {u}
<1>1. /\ members'[c][u] = Nobody
      /\ \A v \in Peers \ {u} : members'[c][v] = members[c][v]
  BY Zenon DEF ChatTypeOK, Leave
<1> QED BY <1>1, Zenon DEF Members

\* deleteMember: the conversation that loses its last member overlapped a deletion.
LEMMA MemberStep ==
  ASSUME ChatTypeOK, NEW c \in Chats, Kept(c), NEW u \in Peers, deleteMember(u, c)
  PROVE  Kept(c)'
<1>1. /\ UNCHANGED <<convs, messages, jobs, broken>>
      /\ removals[c][u].step = "read" /\ ~(removals[c][u].seen \subseteq {u})
      /\ overlapped \subseteq overlapped' /\ cut \subseteq cut'
  BY Zenon DEF deleteMember, Remaining
<1>2. Members(c)' = Members(c) \ {u}
  BY LeaveMembers, Zenon DEF deleteMember
<1>3. /\ removals'[c][u].step = "no"
      /\ \A v \in Peers \ {u} : removals'[c][v] = removals[c][v]
  BY RemovalEnds, Zenon DEF deleteMember
<1>4. Raced(c)'
  <2>1. \A v \in Peers : removals'[c][v].step = "emptied" => removals'[c][v].seen \subseteq {v}
    BY <1>3, Zenon DEF Kept, Raced
  <2>2. ASSUME c \in convs, c \notin overlapped'
        PROVE  /\ Members(c)' # {}
               /\ \A v \in Peers : removals'[c][v].step # "no" /\ Members(c)' \subseteq {v} =>
                    removals'[c][v].seen \subseteq {v}
    <3>1. c \notin overlapped /\ (u \in Members(c) => Deleting(c) = {u})
      BY <1>1, <2>2, Zenon DEF deleteMember
    <3>2. /\ Members(c) # {}
          /\ \A v \in Peers : removals[c][v].step # "no" /\ Members(c) \subseteq {v} =>
               removals[c][v].seen \subseteq {v}
      BY <2>2, <3>1, Zenon DEF Kept, Raced
    <3>3. Members(c)' # {}
      <4>1. ~(Members(c) \subseteq {u})
        BY <1>1, <3>2, Zenon
      <4> QED BY <1>2, <4>1, Zenon
    <3>4. ASSUME NEW v \in Peers, removals'[c][v].step # "no", Members(c)' \subseteq {v}
          PROVE  removals'[c][v].seen \subseteq {v}
      <4>1. v # u /\ removals'[c][v] = removals[c][v]
        BY <1>3, <3>4, Zenon
      <4>2. v \in Deleting(c)
        BY <3>4, <4>1, Zenon DEF Deleting
      <4>3. u \notin Members(c)
        BY <3>1, <4>1, <4>2, Zenon
      <4>4. Members(c) \subseteq {v}
        BY <1>2, <3>4, <4>3, Zenon
      <4> QED BY <3>2, <3>4, <4>1, <4>4, Zenon
    <3> QED BY <3>3, <3>4, Zenon
  <2> QED BY <1>1, <2>1, <2>2, Zenon DEF Raced
<1>5. ASSUME c \notin Doomed'
      PROVE  Clean(c)'
  <2>1. Clean(c) /\ \A k \in Conns : jobs[k].conv # c
    BY <1>1, <1>5, Zenon DEF Kept, Doomed, deleteMember, OnTheWay
  <2>2. ASSUME NEW v \in Peers, removals'[c][v].step # "no"
        PROVE  /\ c \in convs /\ v \in Members(c)'
               /\ removals'[c][v].seen \subseteq {v} => Members(c)' \subseteq {v}
               /\ removals'[c][v].step = "emptied" => Empty(c)
    <3>1. v # u /\ removals'[c][v] = removals[c][v]
      BY <1>3, <2>2, Zenon
    <3>2. /\ c \in convs /\ v \in Members(c)
          /\ removals[c][v].seen \subseteq {v} => Members(c) \subseteq {v}
          /\ removals[c][v].step = "emptied" => Empty(c)
      BY <2>1, <2>2, <3>1, Zenon DEF Clean
    <3> QED BY <1>2, <3>1, <3>2, Zenon
  <2>3. Members(c)' # {} => c \in convs
    BY <1>2, <2>1, Zenon DEF Clean
  <2>4. Empty(c)' = Empty(c)
    BY <1>1, Zenon DEF Empty, Waits
  <2> QED BY <1>1, <2>1, <2>2, <2>3, <2>4, Zenon DEF Clean
<1> QED BY <1>4, <1>5, Zenon DEF Kept

\* deleteMessages: the user saw no other member, and the messages are gone.
LEMMA EmptyStep ==
  ASSUME ChatTypeOK, NEW c \in Chats, Kept(c), NEW u \in Peers, deleteMessages(u, c)
  PROVE  Kept(c)'
<1>1. /\ UNCHANGED <<convs, members, jobs, overlapped, cut, broken>>
      /\ removals[c][u].step = "read" /\ removals[c][u].seen \subseteq {u}
      /\ messages' \subseteq messages
  BY Zenon DEF deleteMessages, Remaining, past
<1>2. Members(c)' = Members(c) /\ Doomed' = Doomed
  BY <1>1, Zenon DEF Members, Doomed
<1>3. \A v \in Peers \ {u} : removals'[c][v] = removals[c][v]
  <2>1. removals \in [Chats -> [Peers -> RemovalRows]]
    BY Zenon DEF ChatTypeOK
  <2>2. CASE removals' = [removals EXCEPT ![c][u] = NoDelete]
    BY <2>2, RemovalEnds, Zenon
  <2>3. CASE removals' = [removals EXCEPT ![c][u].step = "emptied"]
    BY <2>1, <2>3, Zenon
  <2> QED BY <2>2, <2>3, Zenon DEF deleteMessages
<1>4. \/ removals'[c][u].step = "no"
      \/ /\ removals'[c][u].step = "emptied" /\ removals'[c][u].seen = removals[c][u].seen
         /\ \A m \in messages' : m.conv # c
  <2>1. CASE removals' = [removals EXCEPT ![c][u] = NoDelete]
    BY <2>1, RemovalEnds, Zenon
  <2>2. CASE /\ messages' = {m \in messages : m.conv # c}
             /\ removals' = [removals EXCEPT ![c][u].step = "emptied"]
    <3>1. removals[c][u] \in RemovalRows
      BY Zenon DEF ChatTypeOK
    <3>2. removals'[c][u] = [removals[c][u] EXCEPT !.step = "emptied"]
      BY <2>2, Zenon DEF ChatTypeOK
    <3> QED BY <2>2, <3>1, <3>2, Zenon DEF RemovalRows
  <2> QED BY <2>1, <2>2, Zenon DEF deleteMessages
<1>5. Raced(c)'
  <2>1. ASSUME NEW v \in Peers, v # u
        PROVE  removals'[c][v] = removals[c][v]
    BY <1>3, <2>1, Zenon
  <2>2. \A v \in Peers : removals'[c][v].step = "emptied" => removals'[c][v].seen \subseteq {v}
    BY <1>1, <1>4, <2>1, Zenon DEF Kept, Raced
  <2>3. ASSUME c \in convs, c \notin overlapped
        PROVE  /\ Members(c) # {}
               /\ \A v \in Peers : removals'[c][v].step # "no" /\ Members(c) \subseteq {v} =>
                    removals'[c][v].seen \subseteq {v}
    <3>1. /\ Members(c) # {}
          /\ \A v \in Peers : removals[c][v].step # "no" /\ Members(c) \subseteq {v} =>
               removals[c][v].seen \subseteq {v}
      BY <2>3, Zenon DEF Kept, Raced
    <3>2. ASSUME NEW v \in Peers, removals'[c][v].step # "no", Members(c) \subseteq {v}
          PROVE  removals'[c][v].seen \subseteq {v}
      <4>1. CASE v = u
        <5>1. removals[c][u].step # "no" /\ removals'[c][u].seen = removals[c][u].seen
          BY <1>1, <1>4, <3>2, <4>1, Zenon
        <5> QED BY <3>1, <3>2, <4>1, <5>1, Zenon
      <4>2. CASE v # u
        <5>1. removals'[c][v] = removals[c][v]
          BY <2>1, <4>2, Zenon
        <5> QED BY <3>1, <3>2, <5>1, Zenon
      <4> QED BY <4>1, <4>2, Zenon
    <3> QED BY <3>1, <3>2, Zenon
  <2>4. convs' = convs /\ overlapped' = overlapped /\ Members(c)' = Members(c)
    BY <1>1, <1>2, Zenon
  <2>5. c \in convs' /\ c \notin overlapped' =>
          /\ Members(c)' # {}
          /\ \A v \in Peers : removals'[c][v].step # "no" /\ Members(c)' \subseteq {v} =>
               removals'[c][v].seen \subseteq {v}
    BY <2>3, <2>4, Zenon
  <2> QED BY <2>2, <2>5, Zenon DEF Raced
<1>6. ASSUME c \notin Doomed
      PROVE  Clean(c)'
  <2>1. Clean(c)
    BY <1>6, Zenon DEF Kept
  <2>7. Empty(c) => Empty(c)'
    BY <1>1, Zenon DEF Empty, Waits
  <2>8. (\A m \in messages' : m.conv # c) => Empty(c)'
    BY Zenon DEF Empty
  <2>2. ASSUME NEW v \in Peers, removals'[c][v].step # "no"
        PROVE  /\ c \in convs /\ v \in Members(c)
               /\ removals'[c][v].seen \subseteq {v} => Members(c) \subseteq {v}
               /\ removals'[c][v].step = "emptied" => Empty(c)'
    <3>1. CASE v = u
      <4>1. removals[c][u].step # "no"
        BY <1>1, Zenon
      <4>2. c \in convs /\ u \in Members(c) /\ Members(c) \subseteq {u}
        BY <1>1, <2>1, <4>1, Zenon DEF Clean
      <4> QED BY <1>4, <2>2, <2>8, <3>1, <4>2, Zenon
    <3>2. CASE v # u
      <4>1. removals'[c][v] = removals[c][v]
        BY <1>3, <3>2, Zenon
      <4>2. /\ c \in convs /\ v \in Members(c)
            /\ removals[c][v].seen \subseteq {v} => Members(c) \subseteq {v}
            /\ removals[c][v].step = "emptied" => Empty(c)
        BY <2>1, <2>2, <4>1, Zenon DEF Clean
      <4> QED BY <2>7, <4>1, <4>2, Zenon
    <3> QED BY <3>1, <3>2, Zenon
  <2>3. convs' = convs /\ jobs' = jobs /\ Members(c)' = Members(c)
    BY <1>1, <1>2, Zenon
  <2>4. /\ Members(c)' # {} => c \in convs'
        /\ \A m \in messages' : m.conv = c => c \in convs'
    BY <1>1, <2>1, <2>3, Zenon DEF Clean
  <2>5. \A i \in Conns : jobs'[i].conv = c =>
          /\ c \in convs' /\ (First(i)' => PeerOf[i] # jobs'[i].to)
          /\ PeerOf[i] \in Members(c)' /\ jobs'[i].to \in Members(c)'
    BY <2>1, <2>3, Zenon DEF Clean, First
  <2>6. \A v \in Peers : removals'[c][v].step # "no" =>
          /\ c \in convs' /\ v \in Members(c)'
          /\ removals'[c][v].seen \subseteq {v} => Members(c)' \subseteq {v}
          /\ removals'[c][v].step = "emptied" => Empty(c)'
    BY <2>2, <2>3, Zenon
  <2> QED BY <2>4, <2>5, <2>6, Zenon DEF Clean
<1> QED BY <1>2, <1>5, <1>6, Zenon DEF Kept

\* deleteCommits: the last member leaves nothing, unless a message is on its way.
LEMMA CommitStep ==
  ASSUME ChatTypeOK, NEW c \in Chats, Kept(c), NEW u \in Peers, deleteCommits(u, c)
  PROVE  Kept(c)'
<1>1. /\ UNCHANGED <<messages, jobs, overlapped, broken>> /\ c \notin convs'
      /\ removals[c][u].step = "emptied" /\ cut \subseteq cut'
  BY Zenon DEF deleteCommits
<1>2. Members(c)' = Members(c) \ {u}
  BY LeaveMembers, Zenon DEF deleteCommits
<1>3. /\ removals'[c][u].step = "no"
      /\ \A v \in Peers \ {u} : removals'[c][v] = removals[c][v]
  BY RemovalEnds, Zenon DEF deleteCommits
<1>4. Raced(c)'
  BY <1>1, <1>3, Zenon DEF Kept, Raced
<1>5. ASSUME c \notin Doomed'
      PROVE  Clean(c)'
  <2>1. Clean(c) /\ Raced(c) /\ \A k \in Conns : jobs[k].conv # c
    BY <1>1, <1>5, Zenon DEF Kept, Doomed, deleteCommits, OnTheWay
  <2>2. removals[c][u].step # "no" /\ removals[c][u].seen \subseteq {u}
    BY <1>1, <2>1, Zenon DEF Raced
  <2>3. Members(c) \subseteq {u} /\ \A m \in messages : m.conv # c
    BY <1>1, <2>1, <2>2, Zenon DEF Clean, Empty, Waits
  <2>4. \A v \in Peers : removals'[c][v].step = "no"
    BY <1>3, <2>1, <2>3, Zenon DEF Clean
  <2>5. Members(c)' = {}
    BY <1>2, <2>3, Zenon
  <2> QED BY <1>1, <2>1, <2>3, <2>4, <2>5, Zenon DEF Clean
<1> QED BY <1>4, <1>5, Zenon DEF Kept

\* No job of a conversation begins, and one that waits for its rows goes on waiting
\* while they are locked.
JobsStay(c) ==
  /\ \A k \in Conns : jobs'[k].conv = c => jobs[k].conv = c /\ jobs'[k].to = jobs[k].to /\ (First(k)' => First(k))
  /\ \A k \in Conns : Waits(k, c) /\ Locked(c) => Waits(k, c)' \/ c \in Doomed'

\* A conversation whose rows, deletions and messages stay is passed over quietly.
LEMMA StillQuiet ==
  ASSUME NEW c \in Chats, UNCHANGED <<convs, members, messages, removals>>,
         Doomed \subseteq Doomed', overlapped \subseteq overlapped',
         JobsStay(c)
  PROVE  Quiet(c)
<1>1. Members(c)' = Members(c)
  BY Zenon DEF Members
<1> QED BY <1>1, Zenon DEF Quiet, JobsStay

\* The end of a job, or a step of it, starts no other.
LEMMA JobMoves ==
  ASSUME JobsTyped, NEW c \in Chats, NEW k \in Conns,
         Done(k) \/ (Proceed(k, "cleanup") /\ First(k)) \/ (Proceed(k, "update") /\ ~Waits(k, c)),
         Done(k) => ~Waits(k, c) \/ ~Locked(c) \/ c \in Doomed'
  PROVE  JobsStay(c)
<1>1. NoJob.conv # c
  BY ChatAssumption, Zenon DEF NoJob
<1>2. CASE Done(k)
  <2>1. jobs'[k] = NoJob /\ \A i \in Conns \ {k} : jobs'[i] = jobs[i]
    BY <1>2, Zenon DEF Done, JobsTyped
  <2> QED BY <1>1, <1>2, <2>1, Zenon DEF JobsStay, First, Waits
<1>3. ASSUME NEW step \in {"cleanup", "update"}, Proceed(k, step), step = "cleanup" => First(k),
             ~Waits(k, c)
      PROVE  JobsStay(c)
  <2>1. /\ jobs'[k] = [jobs[k] EXCEPT !.step = step]
        /\ \A i \in Conns \ {k} : jobs'[i] = jobs[i]
    BY <1>3, Zenon DEF Proceed, JobsTyped
  <2>2. ASSUME jobs[k] \in BusyJobs
        PROVE  jobs'[k].conv = jobs[k].conv /\ jobs'[k].to = jobs[k].to /\ jobs'[k].step = step
    BY <2>1, <2>2, Zenon DEF BusyJobs
  <2>3. ASSUME jobs[k] = NoJob
        PROVE  jobs'[k].conv = jobs[k].conv /\ jobs'[k].to = jobs[k].to /\ jobs'[k].step = step
    BY <2>1, <2>3, Zenon DEF NoJob
  <2>4. jobs'[k].conv = jobs[k].conv /\ jobs'[k].to = jobs[k].to /\ jobs'[k].step = step
    BY <2>2, <2>3, Zenon DEF JobsTyped
  <2>5. First(k)' => First(k)
    BY <1>3, <2>4, Zenon DEF First
  <2> QED BY <1>3, <2>1, <2>4, <2>5, Zenon DEF JobsStay, First, Waits
<1>4. First(k) => ~Waits(k, c)
  BY Zenon DEF First, Waits
<1> QED BY <1>2, <1>3, <1>4, Zenon

\* What a connection and its handler do to a conversation.
LEMMA HandlingKinds ==
  ASSUME ChatTypeOK, JobsTyped, NEW c \in Chats, NEW k \in Conns, Connecting(k) \/ Handling(k)
  PROVE  Quiet(c) \/ (jobs[k].conv = c /\ DeleteConversationCascade(k))
<1>0. members \in [Chats -> [Peers -> Nat \cup {Nobody}]] /\ removals \in [Chats -> [Peers -> RemovalRows]]
  BY Zenon DEF ChatTypeOK
<1>1. CASE Connecting(k)
  <2>1. UNCHANGED <<convs, members, messages, removals, jobs, overlapped, cut, broken>>
    BY <1>1, Zenon DEF Connecting, ChatWS, Disconnect, ReadFails, stores, past
  <2>2. JobsStay(c)
    BY <2>1, Zenon DEF JobsStay, First, Waits
  <2> QED BY <2>1, <2>2, StillQuiet, Zenon DEF Doomed
<1>2. CASE initInsertFails(k) \/ cleanupFails(k) \/ chatInsertFails(k) \/ updateFails(k)
  <2>1. /\ UNCHANGED <<convs, members, messages, removals, overlapped, cut>>
        /\ broken \subseteq broken'
    BY <1>2, Zenon DEF initInsertFails, cleanupFails, chatInsertFails, updateFails, stores, past
  <2>2. Done(k) \/ (Proceed(k, "cleanup") /\ First(k))
    BY <1>2, Zenon DEF initInsertFails, cleanupFails, chatInsertFails, updateFails, First
  <2>3. Waits(k, c) => ~Locked(c) \/ c \in Doomed'
    BY <1>2, Zenon DEF initInsertFails, cleanupFails, chatInsertFails, updateFails, Waits, Doomed
  <2>4. JobsStay(c)
    BY <2>2, <2>3, JobMoves, Zenon
  <2> QED BY <2>1, <2>4, StillQuiet, Zenon DEF Doomed
<1>3. CASE initInsert(k) \/ chatInsert(k)
  <2>1. /\ UNCHANGED <<convs, members, removals, overlapped, cut, broken>> /\ InsertMessage(k) /\ ~Waits(k, c)
        /\ (Done(k) /\ First(k)) \/ Proceed(k, "update")
    BY <1>3, Zenon DEF initInsert, chatInsert, past, First, Waits
  <2>2. \A m \in messages' : m \in messages \/ m.conv = jobs[k].conv
    BY <2>1 DEF InsertMessage
  <2>3. Members(c)' = Members(c) /\ Doomed' = Doomed
    BY <2>1, Zenon DEF Members, Doomed
  <2>4. JobsStay(c)
    BY <2>1, JobMoves, Zenon
  <2>5. jobs[k].conv = c => First(k) \/ Waits(k, c)'
    <3>1. ASSUME Proceed(k, "update"), jobs[k].conv = c PROVE Waits(k, c)'
      <4>1. jobs'[k] = [jobs[k] EXCEPT !.step = "update"] /\ jobs[k] \in BusyJobs
        <5>1. NoJob.conv # c
          BY ChatAssumption, Zenon DEF NoJob
        <5>2. jobs[k] # NoJob
          BY <3>1, <5>1, Zenon
        <5> QED BY <3>1, <5>2, Zenon DEF Proceed, JobsTyped
      <4> QED BY <3>1, <4>1, Zenon DEF BusyJobs, Waits
    <3> QED BY <2>1, <3>1, Zenon
  <2> QED BY <2>1, <2>2, <2>3, <2>4, <2>5, Zenon DEF Quiet, JobsStay
<1>4. CASE UpdateConversationAfterMessage(k)
  <2>1. /\ UNCHANGED <<convs, messages, removals, overlapped, cut, broken>> /\ Done(k)
    BY <1>4, Zenon DEF UpdateConversationAfterMessage, past
  <2>2. Members(c)' = Members(c)
    <3>1. CASE members' = members
      BY <3>1, Zenon DEF Members
    <3>2. ASSUME NEW d, NEW to, d = jobs[k].conv, to = jobs[k].to, to \in Members(d),
                 members' = [members EXCEPT ![d] = CountUnread(d, PeerOf[k], to)]
          PROVE  Members(c)' = Members(c)
      <4>1. CASE d # c
        BY <1>0, <3>2, <4>1, Zenon DEF Members
      <4>2. CASE d = c
        <5>1. to \in Peers /\ members[c][to] \in Nat
          BY <1>0, <3>2, <4>2, Zenon DEF Members
        <5>2. members[c][to] + 1 \in Nat
          BY <5>1
        <5>3. /\ members'[c][to] = members[c][to] + 1
              /\ \A u \in Peers \ {to} : members'[c][u] = members[c][u]
          BY <1>0, <3>2, <4>2, <5>1, Zenon DEF CountUnread
        <5>4. members'[c][to] # Nobody
          BY <5>2, <5>3, ChatAssumption, Zenon
        <5> QED BY <3>2, <4>2, <5>3, <5>4, Zenon DEF Members
      <4> QED BY <4>1, <4>2, Zenon
    <3> QED BY <1>4, <3>1, <3>2, Zenon DEF UpdateConversationAfterMessage
  <2>3. Doomed' = Doomed
    BY <2>1, Zenon DEF Doomed
  <2>4. Waits(k, c) => ~Locked(c)
    BY <1>4, Zenon DEF UpdateConversationAfterMessage, Waits
  <2>5. JobsStay(c)
    BY <2>1, <2>4, JobMoves, Zenon
  <2> QED BY <2>1, <2>2, <2>3, <2>5, Zenon DEF Quiet, JobsStay
<1>5. CASE DeleteConversationCascade(k) /\ jobs[k].conv # c
  <2>1. /\ UNCHANGED <<messages, removals, overlapped, cut>> /\ Done(k)
        /\ broken \subseteq broken' /\ (c \in convs' <=> c \in convs)
        /\ members'[c] = members[c]
    BY <1>0, <1>5, Zenon DEF DeleteConversationCascade
  <2>2. Members(c)' = Members(c) /\ Doomed \subseteq Doomed'
    BY <2>1, Zenon DEF Members, Doomed
  <2>3. ~Waits(k, c)
    BY <1>5, Zenon DEF Waits
  <2>4. JobsStay(c)
    BY <2>1, <2>3, JobMoves, Zenon
  <2> QED BY <2>1, <2>2, <2>4, Zenon DEF Quiet, JobsStay
<1> QED BY <1>1, <1>2, <1>3, <1>4, <1>5, Zenon DEF Handling

\* What a deletion of a conversation does to another one, and what stays.
LEMMA LeavingKinds ==
  ASSUME ChatTypeOK, NEW c \in Chats, NEW u \in Peers, NEW d \in Chats,
         EnterConversation(u, d) \/ Leaving(u, d)
  PROVE  \/ Quiet(c)
         \/ /\ c = d
            /\ \/ DeleteConversationForUser(u, c) \/ deleteMember(u, c)
               \/ deleteMessages(u, c) \/ deleteCommits(u, c)
<1>0. members \in [Chats -> [Peers -> Nat \cup {Nobody}]] /\ removals \in [Chats -> [Peers -> RemovalRows]]
  BY Zenon DEF ChatTypeOK
<1>4. ASSUME jobs' = jobs PROVE JobsStay(c)
  BY <1>4, Zenon DEF JobsStay, First, Waits
<1>1. CASE EnterConversation(u, d)
  <2>1. /\ UNCHANGED <<convs, messages, jobs, removals, overlapped, cut, broken>>
        /\ members' = [members EXCEPT ![d][u] = 0] /\ members[d][u] # Nobody
    BY <1>1, Zenon DEF EnterConversation, past
  <2>2. 0 # Nobody
    BY ChatAssumption
  <2>3. \A v \in Peers : members'[c][v] = Nobody <=> members[c][v] = Nobody
    BY <1>0, <2>1, <2>2, Zenon
  <2>4. Members(c)' = Members(c) /\ Doomed' = Doomed
    BY <2>1, <2>3, Zenon DEF Members, Doomed
  <2> QED BY <1>4, <2>1, <2>4, Zenon DEF Quiet, JobsStay
<1>2. CASE removalFails(u, d)
  <2>1. /\ UNCHANGED <<convs, members, messages, jobs, overlapped, cut>> /\ broken \subseteq broken'
        /\ removals' = [removals EXCEPT ![d][u] = NoDelete]
    BY <1>2, Zenon DEF removalFails, stores
  <2>2. Members(c)' = Members(c) /\ Doomed \subseteq Doomed'
    BY <2>1, Zenon DEF Members, Doomed
  <2>3. \A v \in Peers : removals'[c][v] \in {removals[c][v], NoDelete}
    BY <1>0, <2>1, Zenon
  <2> QED BY <1>4, <2>1, <2>2, <2>3, Zenon DEF Quiet, JobsStay
<1>3. ASSUME c # d, \/ DeleteConversationForUser(u, d) \/ deleteMember(u, d)
                    \/ deleteMessages(u, d) \/ deleteCommits(u, d)
      PROVE  Quiet(c)
  <2>1. /\ jobs' = jobs /\ broken' = broken /\ cut \subseteq cut' /\ overlapped \subseteq overlapped'
        /\ messages' \subseteq messages /\ (c \in convs' <=> c \in convs)
    BY <1>3, Zenon DEF DeleteConversationForUser, deleteMember, deleteMessages, deleteCommits, stores, past
  <2>2. members'[c] = members[c]
    BY <1>0, <1>3, Zenon
    DEF DeleteConversationForUser, deleteMember, deleteMessages, deleteCommits, stores, Leave
  <2>3. removals'[c] = removals[c]
    BY <1>0, <1>3, Zenon DEF DeleteConversationForUser, deleteMember, deleteMessages, deleteCommits
  <2>4. Members(c)' = Members(c) /\ Doomed \subseteq Doomed'
    BY <2>1, <2>2, Zenon DEF Members, Doomed
  <2> QED BY <1>4, <2>1, <2>3, <2>4, Zenon DEF Quiet, JobsStay
<1> QED BY <1>1, <1>2, <1>3, Zenon DEF Leaving

\* Every step keeps what the invariant says of every conversation.
LEMMA KeptStep ==
  ASSUME ChatIInv, [ChatNext]_chatVars, NEW c \in Chats
  PROVE  Kept(c)'
<1>0. ChatTypeOK /\ JobsTyped /\ Kept(c)
  BY Zenon DEF ChatIInv
<1>1. ASSUME NEW k \in Conns, Connecting(k) \/ Handling(k)
      PROVE  Kept(c)'
  BY <1>0, <1>1, HandlingKinds, QuietStep, CascadeStep, Zenon
<1>2. ASSUME NEW k \in Conns, NEW d \in Chats, NEW to \in Peers,
             handleInitMessage(k, d, to) \/ handleChatMessage(k, d, to)
      PROVE  Kept(c)'
  <2>1. CASE d = c
    BY <1>0, <1>2, <2>1, InitStep, ChatStep, Zenon
  <2>2. CASE d # c
    <3>1. /\ UNCHANGED <<messages, removals, overlapped, cut, broken>>
          /\ \E step : Begin(k, step, d, to)
          /\ members'[c] = members[c] /\ (c \in convs' <=> c \in convs)
      BY <1>0, <1>2, <2>2, Zenon
      DEF handleInitMessage, handleChatMessage, CreateConversationWithMembers, past, ChatTypeOK
    <3>2. Members(c)' = Members(c) /\ Doomed' = Doomed
      BY <3>1, Zenon DEF Members, Doomed
    <3>3. PICK step : jobs' = [jobs EXCEPT ![k] = [step |-> step, conv |-> d, to |-> to, id |-> nextID + 1]]
      BY <3>1, Zenon DEF Begin
    <3>4. /\ jobs'[k].conv = d /\ jobs[k] = NoJob
          /\ \A i \in Conns \ {k} : jobs'[i] = jobs[i]
      BY <1>0, <1>2, <3>3, Zenon DEF JobsTyped, handleInitMessage, handleChatMessage, Ready
    <3>6. JobsStay(c)
      <4>1. ~Waits(k, c)
        BY <3>4, IdleWaitsNot, Zenon
      <4> QED BY <2>2, <3>4, <4>1, Zenon DEF JobsStay, First, Waits
    <3>5. Quiet(c)
      BY <3>1, <3>2, <3>6, Zenon DEF Quiet, JobsStay
    <3> QED BY <1>0, <3>5, QuietStep, Zenon
  <2> QED BY <2>1, <2>2, Zenon
<1>3. ASSUME NEW u \in Peers, NEW d \in Chats, EnterConversation(u, d) \/ Leaving(u, d)
      PROVE  Kept(c)'
  BY <1>0, <1>3, LeavingKinds, QuietStep, ReadStep, MemberStep, EmptyStep, CommitStep, Zenon
<1>4. CASE ChatRestart
  <2>1. /\ UNCHANGED <<convs, members, messages, overlapped, cut>> /\ broken \subseteq broken'
        /\ \A k \in Conns : jobs'[k] = NoJob
        /\ \A u \in Peers : removals'[c][u] = NoDelete
    BY <1>4, Zenon DEF ChatRestart, stores
  <2>2. Members(c)' = Members(c) /\ Doomed \subseteq Doomed' /\ NoJob.conv # c
    BY <2>1, ChatAssumption, Zenon DEF Members, Doomed, NoJob
  <2>4. \A k \in Conns : Waits(k, c) => c \in Doomed'
    BY <1>4, Zenon DEF ChatRestart, OnTheWay, Waits, Doomed
  <2>3. Quiet(c)
    BY <2>1, <2>2, <2>4, Zenon DEF Quiet
  <2> QED BY <1>0, <2>3, QuietStep, Zenon
<1>5. CASE UNCHANGED chatVars
  <2>2. JobsStay(c)
    BY <1>5, Zenon DEF chatVars, JobsStay, First, Waits
  <2>1. Quiet(c)
    BY <1>5, <2>2, StillQuiet, Zenon DEF chatVars, Doomed
  <2> QED BY <1>0, <2>1, QuietStep, Zenon
<1> QED BY <1>1, <1>2, <1>3, <1>4, <1>5, Zenon DEF ChatNext

\* Deletion leaves nothing behind but where deletions overlap each other or a
\* message, or a statement fails: a conversation without members, or messages
\* without a conversation, are not left otherwise (DeleteConversationForUser).
THEOREM LeftoversAreExplained == ChatSpec => []LeftoversNeedARace
<1>1. ChatInit => ChatIInv
  <2> SUFFICES ASSUME ChatInit, NEW c \in Chats
               PROVE  Kept(c)
    BY ChatStarts, Zenon DEF ChatIInv
  <2>1. /\ convs = {} /\ messages = {} /\ \A u \in Peers : members[c][u] = Nobody
        /\ \A k \in Conns : jobs[k] = NoJob
        /\ \A u \in Peers : removals[c][u] = NoDelete
    BY Zenon DEF ChatInit
  <2>2. Members(c) = {} /\ NoJob.conv # c /\ NoDelete.step = "no"
    BY <2>1, ChatAssumption, Zenon DEF Members, NoJob, NoDelete
  <2>3. \A u \in Peers : removals[c][u].step = "no"
    BY <2>1, <2>2, Zenon
  <2> QED BY <2>1, <2>2, <2>3, Zenon DEF Kept, Clean, Raced
<1>2. ChatIInv /\ [ChatNext]_chatVars => ChatIInv'
  BY ChatTyped, KeptStep, Zenon DEF ChatIInv
<1>3. ChatIInv => LeftoversNeedARace
  <2> SUFFICES ASSUME ChatIInv PROVE LeftoversNeedARace
    OBVIOUS
  <2>1. ChatTypeOK /\ \A c \in Chats : Kept(c)
    BY Zenon DEF ChatIInv
  <2>2. OrphansNeedARace
    <3>1. convs \subseteq Chats
      BY <2>1, Zenon DEF ChatTypeOK
    <3> QED BY <2>1, <3>1, Zenon DEF OrphansNeedARace, Kept, Raced
  <2>3. StraysNeedAnOverlap
    <3>1. \A m \in messages : m.conv \in Chats
      BY <2>1, Zenon DEF ChatTypeOK, MessageRows
    <3> QED BY <2>1, <3>1, Zenon DEF StraysNeedAnOverlap, Kept, Clean, Doomed
  <2> QED BY <2>1, <2>2, <2>3, Zenon DEF LeftoversNeedARace
<1> QED BY <1>1, <1>2, <1>3, PTL DEF ChatSpec
============================================================================
