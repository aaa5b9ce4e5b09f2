----------------------- MODULE MCNotificationPipeline -----------------------
(***************************************************************************)
(* NotificationPipeline for TLC.  A behaviour exercises one part, so that  *)
(* the state spaces add up instead of multiplying:                         *)
(*                                                                         *)
(*   queue  one message and two consumer processes                         *)
(*   push   one message, one consumer process and two WebSocket sessions   *)
(*   read   one message, one consumer process, and users who read beside   *)
(*          domains that notify them directly                              *)
(***************************************************************************)
EXTENDS NotificationPipeline

CONSTANTS n1, p1, p2, u, a, v, w1, w2

VARIABLE part

MCQueueOf == [m \in Messages |-> "notify_user"]
MCServes == [p \in Processes |-> Queues]
MCTargetOf == [m \in Messages |-> a]
MCTypeOf == [m \in Messages |-> "like"]
MCSentAt == [m \in Messages |-> 1]
MCRootOf == [x \in Users |-> IF x = a THEN u ELSE x]
MCOwnerOf == [s \in Sessions |-> IF s = w1 THEN u ELSE v]
MCServerOf == [s \in Sessions |-> "s"]
MCLegacyDocs == <<[event |-> Nobody, root |-> Nobody, receiver |-> a,
                   category |-> Nobody, type |-> "like", at |-> 1, read |-> FALSE]>>

Consume == \/ QueueSteps /\ UNCHANGED nVars
           \/ \E p \in Processes, q \in {Q, Die} : Work(p, q)
Connect == \/ \E s \in Sessions : HubAdd(s) \/ HubRemove(s)
           \/ \E server \in Servers : Broadcast(server) \/ ServerRestarts(server)

\* The first process takes what is there while it is free.
Queueing ==
  /\ Consume
  /\ \A q \in {Q, Die} :
       jobs[p1][q] = Idle /\ conn[p1] /\ jobs[p2][q] = Idle => jobs'[p2][q] = Idle

\* The second process loses its connection first and stays down.
OneProcess == ~conn'[p2]

Pushing == (Consume \/ (Connect /\ UNCHANGED mqVars)) /\ OneProcess

\* No fault meets the message, and its handler fails only when no document can
\* be added.
Reading ==
  /\ Next /\ OneProcess /\ sessions' = {} /\ Len(docs') <= 2
  /\ exposed' = {} /\ (cut' # cut => queue[n1] = Die)
  /\ Len(docs) < 2 => \A q \in Queues : jobs'[p1][q].tries = 0

MCInit == Init /\ part \in {"queue", "push", "read"}

MCNext == /\ \/ part = "queue" /\ Queueing
             \/ part = "push" /\ Pushing
             \/ part = "read" /\ Reading
          /\ UNCHANGED part

\* Fairness of the consumers a notification meets; it is in one queue at a time.
MCFairness ==
  \A p \in Processes :
    /\ WF_vars(\E q \in {Q, Die} : Work(p, q))
    /\ WF_vars(\E q \in {Q, Die} : Deliver(p, q, n1) /\ UNCHANGED nVars)

MCSpec == MCInit /\ [][MCNext]_<<vars, part>> /\ MCFairness
=============================================================================
