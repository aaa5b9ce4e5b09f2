------------------------ MODULE NotificationPipeline ------------------------
(***************************************************************************)
(* Social notifications travel through the message queue: the consumer of  *)
(* the notify_user queue (src/internal/mq/consumer_notify_user.go) writes  *)
(* them with CreateLegacy (src/internal/notification/service.go).  The     *)
(* event id is drawn once, by SendNotifyUser, and is the message's         *)
(* identity here.                                                          *)
(***************************************************************************)
EXTENDS MessageQueue, Notifications

CONSTANTS TargetOf,   \* the account each notify_user message is for
          TypeOf,     \* its type
          SentAt      \* the creation time it carries

ASSUME PipelineAssumption ==
  /\ TargetOf \in [Messages -> Users] /\ TypeOf \in [Messages -> Types]
  /\ SentAt \in [Messages -> Times]
  /\ Nobody \notin Messages

vars == <<mqVars, nVars>>

Init == MQInit /\ NInit

Q == "notify_user"
Event(m) == Document(m, TargetOf[m], "social", TypeOf[m], SentAt[m])

\* CreateLegacy stores the document.
CreateLegacyInsert(p) ==
  LET m == jobs[p][Q].msg IN
  /\ Trying(p, Q)
  /\ Insert(Event(m))
  /\ Goto(p, Q, "publish")
  /\ UNCHANGED <<sent, queue, holder, dedup, conn, started, done, recorded, exposed, cut>>
  /\ UNCHANGED <<publishing, channel, listing, sessions, closed, received>>

\* The document is stored but the answer does not arrive: the attempt fails.
CreateLegacyInsertUnanswered(p) ==
  /\ Trying(p, Q)
  /\ Insert(Event(jobs[p][Q].msg))
  /\ PutJob(p, Q, Failed(jobs[p][Q]))
  /\ UNCHANGED <<sent, queue, holder, dedup, conn, started, done, recorded, exposed, cut>>
  /\ UNCHANGED <<publishing, channel, listing, sessions, closed, received>>

\* Mutant: what was there already is published as well.
PublishDuplicate(p) ==
  /\ Goto(p, Q, "publish")
  /\ UNCHANGED done

\* A document that is there already is a success that publishes nothing.
ReturnDuplicate(p) ==
  /\ Goto(p, Q, "ack")
  /\ done' = done \cup {jobs[p][Q].msg}

CreateLegacyDuplicate(p) ==
  /\ Trying(p, Q)
  /\ DuplicateEvent(jobs[p][Q].msg)
  /\ ReturnDuplicate(p)
  /\ UNCHANGED <<sent, queue, holder, dedup, conn, started, recorded, exposed, cut, nVars>>

\* publish reaches Redis or is logged; then the handler returns.
CreateLegacyPublish(p) ==
  LET m == jobs[p][Q].msg IN
  /\ jobs[p][Q].pc = "publish"
  /\ \/ \E i \in DOMAIN docs : docs[i].event = m /\ Publish(i)
     \/ UNCHANGED channel
  /\ Goto(p, Q, "ack")
  /\ done' = done \cup {m}
  /\ UNCHANGED <<sent, queue, holder, dedup, conn, started, recorded, exposed, cut>>
  /\ UNCHANGED <<docs, publishing, listing, sessions, closed, received>>

CreateLegacy(p) ==
  \/ CreateLegacyInsert(p) \/ CreateLegacyInsertUnanswered(p)
  \/ CreateLegacyDuplicate(p) \/ CreateLegacyPublish(p)

Handle(p, q) ==
  \/ HandlerFails(p, q) /\ UNCHANGED nVars
  \/ q # Q /\ HandlerSucceeds(p, q) /\ UNCHANGED nVars
  \/ q = Q /\ CreateLegacy(p)

Work(p, q) == (Claim(p, q) /\ UNCHANGED nVars) \/ Handle(p, q)
                \/ (Conclude(p, q) /\ UNCHANGED nVars)

QueueSteps ==
  \/ \E m \in Messages : Send(m) \/ BrokerRefuses(m)
  \/ \E p \in Processes, q \in Queues, m \in Messages : Deliver(p, q, m)
  \/ Fault

Next ==
  \/ QueueSteps /\ UNCHANGED nVars
  \/ \E p \in Processes, q \in Queues : Work(p, q)
  \/ NNext /\ UNCHANGED mqVars

Spec == Init /\ [][Next]_vars

\* The goroutines of a running process take their next step, and take up what
\* the broker holds for their queue.
Fairness ==
  \A p \in Processes, q \in Queues :
    /\ WF_vars(Work(p, q))
    /\ WF_vars(\E m \in Messages : Deliver(p, q, m) /\ UNCHANGED nVars)

FairSpec == Spec /\ Fairness

----------------------------------------------------------------------------
JobRows ==
  [pc : {"idle", "get", "set", "handle", "publish", "ack", "post"},
   msg : Messages \cup {None}, tries : 0 .. MaxTries, live : BOOLEAN]

\* Documents, deliveries and keys have their fields; a handler is tried at most
\* MaxTries times (HandleWithDedup).
TypeOK ==
  /\ NTypeOK(Messages \cup {Nobody})
  /\ sent \subseteq Messages /\ done \subseteq sent /\ recorded \subseteq sent
  /\ exposed \subseteq sent /\ cut \subseteq sent
  /\ queue \in [Messages -> Queues \cup {None}]
  /\ holder \in [Messages -> Processes \cup {None}]
  /\ dedup \in [Messages -> [KeyPrefixes -> {"none", "ing", "post"}]]
  /\ jobs \in [Processes -> [Queues -> JobRows]]
  /\ conn \in [Processes -> BOOLEAN] /\ started \in [Messages -> 0 .. Many]

(***************************************************************************)
(* A social notification that was handled is stored (CreateLegacy returns  *)
(* nil only after the insert or for a duplicate).                          *)
(***************************************************************************)
HandledIsStored ==
  \A m \in done : QueueOf[m] = Q => \E i \in DOMAIN docs : docs[i].event = m
=============================================================================
