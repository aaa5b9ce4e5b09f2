---------------------------- MODULE MessageQueue ----------------------------
(***************************************************************************)
(* The message queue (src/internal/mq): RabbitMQ queues with a dead-letter *)
(* queue, and consumers that deduplicate with a Redis key, try a handler   *)
(* three times and acknowledge or reject.                                  *)
(*                                                                         *)
(* Every process runs one goroutine per queue it serves; jobs[p][q] is the *)
(* delivery that goroutine works on.  The Redis commands, the attempts of  *)
(* the handler and the acknowledgement are steps of their own.  A process  *)
(* whose connection is lost does not reconnect: the broker hands out its   *)
(* unacknowledged deliveries again while the goroutine finishes the one it *)
(* is in.                                                                  *)
(***************************************************************************)
EXTENDS Integers, FiniteSets

CONSTANTS Messages,   \* identified by their unique id (Redis INCR)
          QueueOf,    \* the queue each message is routed to
          Processes,
          Serves,     \* the queues each process consumes
          MaxTries,   \* attempts of a handler, 3 in the code
          None

Die == "die"
DomainQueues == {"topic_check", "comment_add", "topic_update", "comment_update",
                 "topic_delete", "comment_delete", "notify_user"}
Queues == DomainQueues \cup {Die}

ASSUME RoutingAssumption ==
  /\ QueueOf \in [Messages -> DomainQueues]
  /\ Serves \in [Processes -> SUBSET Queues]
  /\ MaxTries \in Nat \ {0}
  /\ None \notin Messages \cup Processes \cup Queues

VARIABLES sent,      \* messages handed to Send
          queue,     \* broker: the queue a message is in
          holder,    \* broker: the process it is delivered to, unacknowledged
          dedup,     \* Redis: the state of each deduplication key
          jobs,      \* the delivery each consumer goroutine works on
          conn,      \* whether a process still has its connection
          started,   \* how often the handler of the message's queue was begun
          done,      \* messages a handler of their queue finished
          recorded,  \* dead letters written to the log
          exposed,   \* history: messages whose key could not protect them
          cut        \* history: messages dropped by a fault

mqVars == <<sent, queue, holder, dedup, jobs, conn, started, done, recorded,
            exposed, cut>>

\* The key prefix of a queue; the dead-letter queue shares that of the deletions.
dedupPrefix(q) ==
  CASE q \in {"topic_update", "comment_update"} -> "update"
    [] q \in {"topic_delete", "comment_delete", Die} -> "delete"
    [] OTHER -> q

KeyPrefixes == {dedupPrefix(q) : q \in Queues}

Idle == [pc |-> "idle", msg |-> None, tries |-> 0, live |-> FALSE]
Delivered(m) == [pc |-> "get", msg |-> m, tries |-> 0, live |-> TRUE]
Many == 2   \* begun more than once; not counted further

MQInit ==
  /\ sent = {} /\ done = {} /\ recorded = {} /\ exposed = {} /\ cut = {}
  /\ queue = [m \in Messages |-> None]
  /\ holder = [m \in Messages |-> None]
  /\ dedup = [m \in Messages |-> [x \in KeyPrefixes |-> "none"]]
  /\ jobs = [p \in Processes |-> [q \in Queues |-> Idle]]
  /\ conn = [p \in Processes |-> TRUE]
  /\ started = [m \in Messages |-> 0]

Key(q, m) == dedup[m][dedupPrefix(q)]
WriteKey(m, x, s) == dedup' = [dedup EXCEPT ![m] = [dedup[m] EXCEPT ![x] = s]]
SetKey(q, m, s) == WriteKey(m, dedupPrefix(q), s)

At(job, pc) == [job EXCEPT !.pc = pc]
Failed(job) == [job EXCEPT !.tries = job.tries + 1]
CutOff(job) == [job EXCEPT !.live = FALSE]
PutJob(p, q, job) == jobs' = [jobs EXCEPT ![p] = [jobs[p] EXCEPT ![q] = job]]
Goto(p, q, pc) == PutJob(p, q, At(jobs[p][q], pc))
EndJob(p, q) == PutJob(p, q, Idle)

\* Mutant: a repeated message is skipped without being acknowledged.
SettleHandled(job, next) ==
  IF job.live /\ job.pc # "get"
    THEN /\ queue' = [queue EXCEPT ![job.msg] = next]
         /\ holder' = [holder EXCEPT ![job.msg] = None]
    ELSE UNCHANGED <<queue, holder>>

\* A message leaves the broker when a delivery that still counts is settled.
Settle(job, next) ==
  IF job.live
    THEN /\ queue' = [queue EXCEPT ![job.msg] = next]
         /\ holder' = [holder EXCEPT ![job.msg] = None]
    ELSE UNCHANGED <<queue, holder>>

----------------------------------------------------------------------------
(* Producers and the broker *)

\* The topology binds every key, so an accepted message is in its queue.
Send(m) ==
  /\ m \notin sent
  /\ sent' = sent \cup {m}
  /\ queue' = [queue EXCEPT ![m] = QueueOf[m]]
  /\ UNCHANGED <<holder, dedup, jobs, conn, started, done, recorded, exposed, cut>>

\* The broker does not confirm the message; only the log learns of it.
BrokerRefuses(m) ==
  /\ m \notin sent
  /\ sent' = sent \cup {m}
  /\ cut' = cut \cup {m}
  /\ UNCHANGED <<queue, holder, dedup, jobs, conn, started, done, recorded, exposed>>

Deliver(p, q, m) ==
  /\ conn[p] /\ q \in Serves[p]
  /\ jobs[p][q] = Idle
  /\ queue[m] = q /\ holder[m] = None
  /\ holder' = [holder EXCEPT ![m] = p]
  /\ PutJob(p, q, Delivered(m))
  /\ UNCHANGED <<sent, queue, dedup, conn, started, done, recorded, exposed, cut>>

----------------------------------------------------------------------------
(* HandleWithDedup *)

\* Mutant: only a finished message is taken for a repeated one.
SeenWhenDone(q, m) == Key(q, m) = "post"

Seen(q, m) == Key(q, m) \in {"ing", "post"}

\* A message whose key is set is acknowledged without being handled.
GetKey(p, q) ==
  LET job == jobs[p][q] IN
  /\ job.pc = "get"
  /\ IF Seen(q, job.msg)
       THEN Settle(job, None) /\ EndJob(p, q)
       ELSE Goto(p, q, "set") /\ UNCHANGED <<queue, holder>>
  /\ UNCHANGED <<sent, dedup, conn, started, done, recorded, exposed, cut>>

\* An error of Redis is taken for a key that is not there.
GetKeyFails(p, q) ==
  /\ jobs[p][q].pc = "get"
  /\ Goto(p, q, "set")
  /\ exposed' = exposed \cup {jobs[p][q].msg}
  /\ UNCHANGED <<sent, queue, holder, dedup, conn, started, done, recorded, cut>>

Begin(p, q, m) ==
  /\ Goto(p, q, "handle")
  /\ started' = IF q = Die \/ started[m] = Many THEN started
                ELSE [started EXCEPT ![m] = @ + 1]

SetIng(p, q) ==
  LET m == jobs[p][q].msg IN
  /\ jobs[p][q].pc = "set"
  /\ SetKey(q, m, "ing")
  /\ Begin(p, q, m)
  /\ UNCHANGED <<sent, queue, holder, conn, done, recorded, exposed, cut>>

\* The handler runs even when the key could not be written.
SetIngFails(p, q) ==
  LET m == jobs[p][q].msg IN
  /\ jobs[p][q].pc = "set"
  /\ Begin(p, q, m)
  /\ exposed' = exposed \cup {m}
  /\ UNCHANGED <<sent, queue, holder, dedup, conn, done, recorded, cut>>

Trying(p, q) == jobs[p][q].pc = "handle" /\ jobs[p][q].tries < MaxTries

HandlerFails(p, q) ==
  /\ Trying(p, q)
  /\ PutJob(p, q, Failed(jobs[p][q]))
  /\ UNCHANGED <<sent, queue, holder, dedup, conn, started, done, recorded, exposed, cut>>

\* The handler returns nil; the one of the dead-letter queue writes the log.
HandlerSucceeds(p, q) ==
  LET m == jobs[p][q].msg IN
  /\ Trying(p, q)
  /\ Goto(p, q, "ack")
  /\ IF q = Die
       THEN recorded' = recorded \cup {m} /\ UNCHANGED done
       ELSE done' = done \cup {m} /\ UNCHANGED recorded
  /\ UNCHANGED <<sent, queue, holder, dedup, conn, started, exposed, cut>>

Ack(p, q) ==
  /\ jobs[p][q].pc = "ack"
  /\ Settle(jobs[p][q], None)
  /\ Goto(p, q, "post")
  /\ UNCHANGED <<sent, dedup, conn, started, done, recorded, exposed, cut>>

setDedupDone(p, q) ==
  /\ jobs[p][q].pc = "post"
  /\ SetKey(q, jobs[p][q].msg, "post")
  /\ EndJob(p, q)
  /\ UNCHANGED <<sent, queue, holder, conn, started, done, recorded, exposed, cut>>

setDedupDoneFails(p, q) ==
  /\ jobs[p][q].pc = "post"
  /\ EndJob(p, q)
  /\ UNCHANGED <<sent, queue, holder, dedup, conn, started, done, recorded, exposed, cut>>

\* Mutant: a message that failed three times is acknowledged.
DroppedAfterFailure(q) == None

\* The broker moves a rejected message to the dead letters; a rejected dead
\* letter is dropped.
DeadLetterQueue(q) == IF q = Die THEN None ELSE Die

\* Nack without requeue after three failures.  On a lost connection it does not
\* reach the broker.
Nack(p, q) ==
  LET job == jobs[p][q] IN
  /\ job.pc = "handle" /\ job.tries = MaxTries
  /\ Settle(job, DeadLetterQueue(q))
  /\ cut' = IF job.live /\ q # Die THEN cut ELSE cut \cup {job.msg}
  /\ EndJob(p, q)
  /\ UNCHANGED <<sent, dedup, conn, started, done, recorded, exposed>>

----------------------------------------------------------------------------
(* Faults *)

JobsOf(p) == {jobs[p][q] : q \in Queues}
Returned(p) == holder' = [m \in Messages |-> IF holder[m] = p THEN None ELSE holder[m]]

\* The deliveries return to their queues, the goroutines go on with theirs.
ConnectionLost(p) ==
  /\ conn[p]
  /\ conn' = [conn EXCEPT ![p] = FALSE]
  /\ Returned(p)
  /\ jobs' = [jobs EXCEPT ![p] = [q \in Queues |-> CutOff(jobs[p][q])]]
  /\ exposed' = exposed \cup {j.msg : j \in {k \in JobsOf(p) : k.pc \in {"get", "set"}}}
  /\ UNCHANGED <<sent, queue, dedup, started, done, recorded, cut>>

\* The process stops, at any point of its jobs, and is started again.
Restart(p) ==
  /\ conn' = [conn EXCEPT ![p] = TRUE]
  /\ Returned(p)
  /\ jobs' = [jobs EXCEPT ![p] = [q \in Queues |-> Idle]]
  /\ cut' = cut \cup {j.msg : j \in {k \in JobsOf(p) : k.pc \in {"handle", "publish"}}}
  /\ UNCHANGED <<sent, queue, dedup, started, done, recorded, exposed>>

\* Keys live three days, longer than any handler runs.
KeyExpires(m, x) ==
  /\ dedup[m][x] # "none"
  /\ \A p \in Processes : m \notin {j.msg : j \in JobsOf(p)}
  /\ WriteKey(m, x, "none")
  /\ exposed' = exposed \cup {m}
  /\ UNCHANGED <<sent, queue, holder, jobs, conn, started, done, recorded, cut>>

----------------------------------------------------------------------------
Claim(p, q) == GetKey(p, q) \/ GetKeyFails(p, q) \/ SetIng(p, q) \/ SetIngFails(p, q)
Conclude(p, q) == Ack(p, q) \/ setDedupDone(p, q) \/ setDedupDoneFails(p, q) \/ Nack(p, q)
Fault == \/ \E p \in Processes : ConnectionLost(p) \/ Restart(p)
         \/ \E m \in Messages, x \in KeyPrefixes : KeyExpires(m, x)

(***************************************************************************)
(* The handler of a message is begun a second time only if its key could   *)
(* not protect it: Redis failed or the key expired, or the connection was  *)
(* lost before the key was set (HandleWithDedup reads and sets the key in  *)
(* two commands).  A crash, a retry or a redelivery alone never repeats it.*)
(***************************************************************************)
TwiceOnlyIfExposed == \A m \in Messages : started[m] > 1 => m \in exposed

(***************************************************************************)
(* A message that has left the broker was handled or written to the log of *)
(* dead letters, or a goroutine still works on it, unless a fault cut it   *)
(* off after its key was set, or it is a deletion: dead letters of the     *)
(* deletion queues find the key of their first delivery (dedupPrefix).     *)
(***************************************************************************)
NoSilentLoss ==
  \A m \in sent : queue[m] = None =>
    \/ m \in done \cup recorded \cup cut
    \/ \E p \in Processes : m \in {j.msg : j \in JobsOf(p)}
    \/ dedupPrefix(QueueOf[m]) = dedupPrefix(Die)

(***************************************************************************)
(* Once processes neither lose their connection nor restart any more, one  *)
(* that serves the message's queues and is connected empties them: every   *)
(* message leaves the broker.                                              *)
(***************************************************************************)
Steady == <>[][\A p \in Processes : ~ConnectionLost(p) /\ ~Restart(p)]_mqVars
QueuesDrain ==
  Steady /\ (\E p \in Processes : Serves[p] = Queues /\ <>[]conn[p])
    => \A m \in Messages : queue[m] # None ~> queue[m] = None
=============================================================================
