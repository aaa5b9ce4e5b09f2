--------------------------- MODULE Notifications ---------------------------
(***************************************************************************)
(* Notifications (src/internal/notification): documents in MongoDB, pushed *)
(* through Redis pub/sub to the WebSocket sessions of every process.       *)
(***************************************************************************)
EXTENDS Integers, Sequences, FiniteSets

CONSTANTS Users,        \* account ids, main accounts and identities
          RootOf,       \* the main account of each account
          Categories,   \* "social" among them
          Servers,      \* processes that serve WebSockets
          Sessions,     \* WebSocket sessions
          OwnerOf,      \* the main account a session is authenticated for
          ServerOf,     \* the process a session is connected to
          Notified,     \* main accounts that domains notify directly
          Readers,      \* main accounts that open their notifications
          Types,        \* event types
          Times,        \* creation times
          LegacyDocs,   \* documents written before root accounts and categories
          MaxDocs,      \* bound on documents
          Nobody        \* an absent field

DocumentRows(events) ==
  [event : events, root : Users \cup {Nobody}, receiver : Users,
   category : Categories \cup {Nobody}, type : Types, at : Times, read : BOOLEAN]

ASSUME NotificationAssumption ==
  /\ RootOf \in [Users -> Users]
  /\ \A u \in Users : RootOf[RootOf[u]] = RootOf[u]
  /\ OwnerOf \in [Sessions -> Users] /\ ServerOf \in [Sessions -> Servers]
  /\ "social" \in Categories
  /\ Times \subseteq Int /\ MaxDocs \in Nat
  /\ Nobody \notin Users \cup Categories
  /\ Notified \subseteq Users /\ Readers \subseteq {RootOf[u] : u \in Users}
  /\ LegacyDocs \in Seq(DocumentRows({Nobody})) /\ Len(LegacyDocs) <= MaxDocs
  /\ \A i \in DOMAIN LegacyDocs :
       LegacyDocs[i].root \in {Nobody, RootOf[LegacyDocs[i].receiver]}

VARIABLES docs,        \* campus_notifications, in the order of insertion
          publishing,  \* documents whose creator has yet to publish them
          channel,     \* pub/sub: documents on their way to each process
          listing,     \* ListLegacy calls between their two queries
          sessions,    \* SessionHub: the open sessions
          closed,      \* sessions that have ended
          received     \* documents each session was sent, in order

nVars == <<docs, publishing, channel, listing, sessions, closed, received>>

NInit ==
  /\ docs = LegacyDocs
  /\ publishing = {} /\ listing = {} /\ sessions = {} /\ closed = {}
  /\ channel = [s \in Servers |-> <<>>]
  /\ received = [s \in Sessions |-> <<>>]

Roots == {RootOf[u] : u \in Users}
identityIDs(r) == {u \in Users : RootOf[u] = r}

receiverFilter(r, d) == d.root = r \/ d.receiver \in identityIDs(r)

\* A document without a category counts as social.
categoryFilter(c, d) == d.category = c \/ (c = "social" /\ d.category = Nobody)

Visible(r) == {i \in DOMAIN docs : receiverFilter(r, docs[i])}

UnreadCount(r, c) ==
  LET CategoryOf(i) == IF docs[i].category = Nobody THEN "social" ELSE docs[i].category
  IN Cardinality({i \in Visible(r) : ~docs[i].read /\ CategoryOf(i) = c})

----------------------------------------------------------------------------
(* Writing and publishing *)

\* The unique sparse index on event_id refuses a second document of an event.
DuplicateEvent(event) ==
  event # Nobody /\ \E i \in DOMAIN docs : docs[i].event = event

Document(event, u, category, type, at) ==
  [event |-> event, root |-> RootOf[u], receiver |-> u, category |-> category,
   type |-> type, at |-> at, read |-> FALSE]

Insert(d) ==
  /\ Len(docs) < MaxDocs
  /\ ~DuplicateEvent(d.event)
  /\ docs' = Append(docs, d)

Publish(i) == channel' = [s \in Servers |-> Append(channel[s], i)]

\* A domain's notification, which carries no event id.
Create(r, category, type, at) ==
  /\ Insert(Document(Nobody, r, category, type, at))
  /\ publishing' = publishing \cup {Len(docs) + 1}
  /\ UNCHANGED <<channel, listing, sessions, closed, received>>

PublishCreated(i) ==
  /\ i \in publishing
  /\ publishing' = publishing \ {i}
  /\ Publish(i)
  /\ UNCHANGED <<docs, listing, sessions, closed, received>>

\* Redis fails, which is only logged, or the process stops.
PublishCreatedFails(i) ==
  /\ i \in publishing
  /\ publishing' = publishing \ {i}
  /\ UNCHANGED <<docs, channel, listing, sessions, closed, received>>

----------------------------------------------------------------------------
(* Reading *)

SetRead(I) == docs' = [i \in DOMAIN docs |->
                         IF i \in I THEN [docs[i] EXCEPT !.read = TRUE] ELSE docs[i]]

MarkOneRead(r, i) ==
  /\ i \in Visible(r)
  /\ SetRead({i})
  /\ UNCHANGED <<publishing, channel, listing, sessions, closed, received>>

MarkRead(r, c) ==
  /\ SetRead({i \in Visible(r) : ~docs[i].read /\ categoryFilter(c, docs[i])})
  /\ UNCHANGED <<publishing, channel, listing, sessions, closed, received>>

MarkAllRead(r) ==
  /\ SetRead({i \in Visible(r) : ~docs[i].read})
  /\ UNCHANGED <<publishing, channel, listing, sessions, closed, received>>

OfType(r, type) == {i \in Visible(r) : docs[i].type = type}

\* The page is read first; an empty one is returned as it is.
ListLegacy(r, type) ==
  /\ OfType(r, type) # {}
  /\ listing' = listing \cup {<<r, type>>}
  /\ UNCHANGED <<docs, publishing, channel, sessions, closed, received>>

\* Then the latest document at that time is marked, listed or not.
MarkLatestLegacyRead(r, type) ==
  /\ <<r, type>> \in listing
  /\ \E i \in OfType(r, type) :
       /\ \A j \in OfType(r, type) : docs[j].at <= docs[i].at
       /\ SetRead({i})
  /\ listing' = listing \ {<<r, type>>}
  /\ UNCHANGED <<publishing, channel, sessions, closed, received>>

----------------------------------------------------------------------------
(* WebSocket sessions *)

HubAdd(s) ==
  /\ s \notin sessions \cup closed
  /\ sessions' = sessions \cup {s}
  /\ UNCHANGED <<docs, publishing, channel, listing, closed, received>>

HubRemove(s) ==
  /\ s \in sessions
  /\ sessions' = sessions \ {s}
  /\ closed' = closed \cup {s}
  /\ UNCHANGED <<docs, publishing, channel, listing, received>>

SessionsFor(server, d) ==
  {s \in sessions : ServerOf[s] = server /\ OwnerOf[s] = d.root}

\* The subscriber takes the next event and writes it to the owner's sessions;
\* each write may fail.
Broadcast(server) ==
  /\ channel[server] # <<>>
  /\ LET i == Head(channel[server]) IN
       \E written \in SUBSET SessionsFor(server, docs[i]) :
         received' = [s \in Sessions |->
            IF s \in written THEN Append(received[s], i) ELSE received[s]]
  /\ channel' = [channel EXCEPT ![server] = Tail(@)]
  /\ UNCHANGED <<docs, publishing, listing, sessions, closed>>

ServerRestarts(server) ==
  LET gone == {s \in sessions : ServerOf[s] = server} IN
  /\ channel' = [channel EXCEPT ![server] = <<>>]
  /\ sessions' = sessions \ gone
  /\ closed' = closed \cup gone
  /\ UNCHANGED <<docs, publishing, listing, received>>

NNext ==
  \/ \E r \in Notified, c \in Categories, t \in Types, at \in Times : Create(r, c, t, at)
  \/ \E i \in publishing : PublishCreated(i) \/ PublishCreatedFails(i)
  \/ \E r \in Readers : \/ \E i \in DOMAIN docs : MarkOneRead(r, i)
                        \/ \E c \in Categories : MarkRead(r, c)
                        \/ MarkAllRead(r)
                        \/ \E t \in Types : ListLegacy(r, t) \/ MarkLatestLegacyRead(r, t)
  \/ \E s \in Sessions : HubAdd(s) \/ HubRemove(s)
  \/ \E server \in Servers : Broadcast(server) \/ ServerRestarts(server)

----------------------------------------------------------------------------
(* Properties *)

Indexes == 1 .. MaxDocs

NTypeOK(events) ==
  /\ docs \in Seq(DocumentRows(events)) /\ Len(docs) <= MaxDocs
  /\ publishing \subseteq Indexes /\ listing \subseteq Roots \X Types
  /\ channel \in [Servers -> Seq(Indexes)] /\ received \in [Sessions -> Seq(Indexes)]
  /\ sessions \subseteq Sessions /\ closed \subseteq Sessions

(***************************************************************************)
(* An event has one document, however often the queue delivers it and a    *)
(* consumer retries (Insert takes a duplicate key for "already there").    *)
(***************************************************************************)
StoredOnce ==
  \A i, j \in DOMAIN docs : docs[i].event # Nobody /\ docs[i].event = docs[j].event => i = j

(***************************************************************************)
(* A session is sent only documents of its own main account, and each      *)
(* event at most once: only the call that inserted a document publishes it.*)
(***************************************************************************)
PushedOnce ==
  \A s \in Sessions : \A m, n \in DOMAIN received[s] :
    LET d == docs[received[s][m]]
        e == docs[received[s][n]] IN
    /\ d.root = OwnerOf[s]
    /\ m # n => received[s][m] # received[s][n] /\ (d.event = Nobody \/ d.event # e.event)

(***************************************************************************)
(* Marking a category read empties that category's unread count and leaves *)
(* every other count of every account as it is (the filter of MarkRead and *)
(* the grouping of UnreadCategories agree on documents without category).  *)
(***************************************************************************)
MarkReadIsExact ==
  [][docs' # docs => \A r \in Roots, c \in Categories : MarkRead(r, c) =>
       \A s \in Roots, k \in Categories :
         UnreadCount(s, k)' = IF s = r /\ k = c THEN 0 ELSE UnreadCount(s, k)]_nVars
=============================================================================
