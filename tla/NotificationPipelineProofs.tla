---------------------- MODULE NotificationPipelineProofs ----------------------
(***************************************************************************)
(* Proofs about NotificationPipeline, for any messages, queues they are    *)
(* routed to, processes, accounts and sessions: a handler is begun twice   *)
(* only for a message that was exposed, no message is lost silently, an    *)
(* event is stored once, and a session is sent a document once.            *)
(***************************************************************************)
EXTENDS NotificationPipeline, TLAPS

----------------------------------------------------------------------------
(* The inductive invariant *)

\* A delivery whose handler has begun, and one that is still to be settled.
BusyPCs == {"handle", "publish", "ack", "post"}
OpenPCs == {"get", "set", "handle", "publish", "ack"}

KeyOf(m) == dedupPrefix(QueueOf[m])
Stored(m) == \E i \in DOMAIN docs : docs[i].event = m

\* A message was dealt with, was cut off by a fault, or its handler is running.
Ended(m) == m \in done \cup recorded \cup cut
Busy(m) == \E p \in Processes, q \in Queues : jobs[p][q].msg = m /\ jobs[p][q].pc \in BusyPCs
Cared(m) == Ended(m) \/ Busy(m)

\* What holds of a job that process p has for queue q.
JobOK(p, q, job) ==
  /\ job.pc = "idle" => job = Idle
  /\ job.pc # "idle" => job.msg \in sent /\ q \in {QueueOf[job.msg], Die}
  /\ job.pc # "idle" /\ q = Die => queue[job.msg] # QueueOf[job.msg]
  /\ job.pc \in OpenPCs /\ job.live => holder[job.msg] = p /\ queue[job.msg] = q
  /\ job.pc \in {"ack", "post"} => job.msg \in done \cup recorded
  /\ job.pc = "publish" => q = Q /\ Stored(job.msg)
  /\ job.pc \in BusyPCs /\ q # Die => started[job.msg] > 0
  /\ job.pc \in {"get", "set"} /\ q # Die /\ job.msg \notin exposed =>
        job.live /\ (job.pc = "set" => started[job.msg] = 0)

\* A message is in its queue, then dead or gone; until it is exposed, its key is
\* there once its handler has begun; and a key that is there has a reason.
MessageOK(m) ==
  /\ queue[m] \in {QueueOf[m], Die, None}
  /\ m \notin sent => queue[m] = None /\ \A x \in KeyPrefixes : dedup[m][x] = "none"
  /\ queue[m] = QueueOf[m] => \A x \in KeyPrefixes : x # KeyOf(m) => dedup[m][x] = "none"
  /\ m \notin exposed => /\ started[m] <= 1
                         /\ started[m] > 0 => dedup[m][KeyOf(m)] # "none"
  /\ KeyOf(m) # dedupPrefix(Die) =>
        /\ \A x \in KeyPrefixes : dedup[m][x] # "none" =>
              Cared(m) \/ (x = KeyOf(m) /\ queue[m] = Die)
        /\ m \in sent /\ queue[m] = None => Cared(m)
  /\ m \in done /\ QueueOf[m] = Q => Stored(m)

QueueInv == /\ \A p \in Processes, q \in Queues : JobOK(p, q, jobs[p][q])
            /\ \A m \in Messages : MessageOK(m)

Distinct(f) == \A i, j \in DOMAIN f : f[i] = f[j] => i = j
Values(f) == {f[i] : i \in DOMAIN f}

OnItsWay(i) == \/ \E server \in Servers : i \in Values(channel[server])
               \/ \E s \in Sessions : i \in Values(received[s])

\* Nothing is published twice: what waits to be published is not on its way, and
\* what is on its way to a session has not been received there.
PushInv ==
  /\ \A server \in Servers : Distinct(channel[server]) /\ Values(channel[server]) \subseteq DOMAIN docs
  /\ \A s \in Sessions : /\ Distinct(received[s]) /\ Values(received[s]) \subseteq DOMAIN docs
                         /\ \A i \in Values(received[s]) : docs[i].root = OwnerOf[s]
                         /\ Values(received[s]) \cap Values(channel[ServerOf[s]]) = {}
  /\ \A i \in publishing : i \in DOMAIN docs /\ docs[i].event = Nobody /\ ~OnItsWay(i)
  /\ \A p \in Processes : jobs[p][Q].pc = "publish" =>
        /\ \A i \in DOMAIN docs : docs[i].event = jobs[p][Q].msg => ~OnItsWay(i)
        /\ \A r \in Processes : jobs[r][Q].pc = "publish" /\ jobs[r][Q].msg = jobs[p][Q].msg => r = p

PipelineInv == TypeOK /\ QueueInv /\ StoredOnce /\ PushInv

----------------------------------------------------------------------------
(* Jobs *)

\* The part of TypeOK about the queue.
QueueTypeOK ==
  /\ sent \subseteq Messages /\ done \subseteq sent /\ recorded \subseteq sent
  /\ exposed \subseteq sent /\ cut \subseteq sent
  /\ queue \in [Messages -> Queues \cup {None}]
  /\ holder \in [Messages -> Processes \cup {None}]
  /\ dedup \in [Messages -> [KeyPrefixes -> {"none", "ing", "post"}]]
  /\ jobs \in [Processes -> [Queues -> JobRows]]
  /\ conn \in [Processes -> BOOLEAN] /\ started \in [Messages -> 0 .. Many]

\* TypeOK has a part for the documents and a part for the queue.
LEMMA TypeParts == TypeOK <=> NTypeOK(Messages \cup {Nobody}) /\ QueueTypeOK
BY Zenon DEF TypeOK, QueueTypeOK

\* The queues, their prefixes, and the values that are none of them.
LEMMA Routes ==
  /\ Die \in Queues /\ Q \in Queues /\ Q # Die
  /\ None \notin Messages /\ None \notin Processes /\ None \notin Queues
  /\ \A q \in Queues : dedupPrefix(q) \in KeyPrefixes
  /\ \A m \in Messages : QueueOf[m] \in Queues /\ QueueOf[m] # Die /\ QueueOf[m] # None
<1>1. \A m \in Messages : QueueOf[m] \in DomainQueues
  BY RoutingAssumption, Zenon
<1>2. \A q \in DomainQueues : q \in Queues /\ q # Die
  BY Zenon DEF DomainQueues, Queues, Die
<1>3. Die \in Queues /\ Q \in Queues /\ Q # Die
  BY Zenon DEF Queues, DomainQueues, Die, Q
<1>4. None \notin Messages /\ None \notin Processes /\ None \notin Queues
  BY RoutingAssumption, Zenon
<1>5. \A q \in Queues : dedupPrefix(q) \in KeyPrefixes
  BY Zenon DEF KeyPrefixes
<1>6. QED BY <1>1, <1>2, <1>3, <1>4, <1>5, Zenon

\* A goroutine's next job replaces its job and no other.
LEMMA JobPut ==
  ASSUME QueueTypeOK, NEW p \in Processes, NEW q \in Queues, NEW new \in JobRows,
         PutJob(p, q, new)
  PROVE  /\ jobs' \in [Processes -> [Queues -> JobRows]]
         /\ jobs'[p][q] = new
         /\ \A r \in Processes, s \in Queues : r # p \/ s # q => jobs'[r][s] = jobs[r][s]
BY Zenon DEF QueueTypeOK, PutJob

\* The fields of a job, and of what a step makes of it.
LEMMA JobFields ==
  ASSUME NEW job \in JobRows,
         NEW pc \in {"idle", "get", "set", "handle", "publish", "ack", "post"}
  PROVE  /\ job.pc \in {"idle", "get", "set", "handle", "publish", "ack", "post"}
         /\ job.msg \in Messages \cup {None} /\ job.tries \in 0 .. MaxTries /\ job.live \in BOOLEAN
         /\ At(job, pc) \in JobRows /\ At(job, pc).pc = pc /\ At(job, pc).msg = job.msg
         /\ At(job, pc).live = job.live
         /\ CutOff(job) \in JobRows /\ CutOff(job).pc = job.pc /\ CutOff(job).msg = job.msg
         /\ CutOff(job).live = FALSE
         /\ job.tries < MaxTries =>
              /\ Failed(job) \in JobRows /\ Failed(job).pc = job.pc
              /\ Failed(job).msg = job.msg /\ Failed(job).live = job.live
<1>1. /\ job.pc \in {"idle", "get", "set", "handle", "publish", "ack", "post"}
      /\ job.msg \in Messages \cup {None} /\ job.tries \in 0 .. MaxTries /\ job.live \in BOOLEAN
  BY Zenon DEF JobRows
<1>2. /\ At(job, pc) \in JobRows /\ At(job, pc).pc = pc /\ At(job, pc).msg = job.msg
      /\ At(job, pc).live = job.live
  BY <1>1, Zenon DEF JobRows, At
<1>3. /\ CutOff(job) \in JobRows /\ CutOff(job).pc = job.pc /\ CutOff(job).msg = job.msg
      /\ CutOff(job).live = FALSE
  BY <1>1, Zenon DEF JobRows, CutOff
<1>4. ASSUME job.tries < MaxTries
      PROVE  /\ Failed(job) \in JobRows /\ Failed(job).pc = job.pc
             /\ Failed(job).msg = job.msg /\ Failed(job).live = job.live
  <2>1. job.tries + 1 \in 0 .. MaxTries
    BY <1>1, <1>4, RoutingAssumption
  <2>2. QED BY <1>1, <2>1, Zenon DEF JobRows, Failed
<1>5. QED BY <1>1, <1>2, <1>3, <1>4, Zenon

\* A job goes to another program counter.
LEMMA JobAt ==
  ASSUME NEW job \in JobRows,
         NEW pc \in {"idle", "get", "set", "handle", "publish", "ack", "post"}
  PROVE  \E new \in JobRows : /\ new = At(job, pc) /\ new.pc = pc /\ new.msg = job.msg
                              /\ new.live = job.live
<1>1. /\ At(job, pc) \in JobRows /\ At(job, pc).pc = pc /\ At(job, pc).msg = job.msg
      /\ At(job, pc).live = job.live
  BY Zenon DEF JobRows, At
<1>2. QED BY <1>1, Zenon

\* A delivery that has begun, and a goroutine without one.
LEMMA NewJobs ==
  /\ Idle \in JobRows /\ Idle.pc = "idle" /\ Idle.msg = None /\ Idle.live = FALSE
  /\ \A m \in Messages : /\ Delivered(m) \in JobRows /\ Delivered(m).pc = "get"
                         /\ Delivered(m).msg = m /\ Delivered(m).live = TRUE
BY RoutingAssumption DEF JobRows, Idle, Delivered

\* A job stays right while its message's history grows, its delivery counts and
\* its handler is not begun elsewhere.
LEMMA JobKeeps ==
  ASSUME NEW r \in Processes, NEW s \in Queues, NEW job \in JobRows, JobOK(r, s, job),
         sent \subseteq sent', done \subseteq done', recorded \subseteq recorded',
         exposed \subseteq exposed', Stored(job.msg) => Stored(job.msg)',
         job.pc # "idle" =>
           /\ queue[job.msg] # QueueOf[job.msg] => queue'[job.msg] # QueueOf[job.msg]
           /\ job.pc \in OpenPCs /\ job.live =>
                holder'[job.msg] = holder[job.msg] /\ queue'[job.msg] = queue[job.msg]
           /\ started[job.msg] > 0 => started'[job.msg] > 0
           /\ job.pc = "set" /\ s # Die /\ job.msg \notin exposed' =>
                started'[job.msg] = started[job.msg]
  PROVE  JobOK(r, s, job)'
<1>1. /\ job.pc = "idle" => job = Idle
      /\ job.pc # "idle" => job.msg \in sent' /\ s \in {QueueOf[job.msg], Die}
      /\ job.pc # "idle" /\ s = Die => queue'[job.msg] # QueueOf[job.msg]
      /\ job.pc \in OpenPCs /\ job.live => holder'[job.msg] = r /\ queue'[job.msg] = s
  BY Zenon DEF JobOK, OpenPCs
<1>2. /\ job.pc \in {"ack", "post"} => job.msg \in done' \cup recorded'
      /\ job.pc = "publish" => s = Q /\ Stored(job.msg)'
      /\ job.pc \in BusyPCs /\ s # Die => started'[job.msg] > 0
  BY Zenon DEF JobOK, BusyPCs
<1>3. job.pc \in {"get", "set"} /\ s # Die /\ job.msg \notin exposed' =>
        job.live /\ (job.pc = "set" => started'[job.msg] = 0)
  BY Zenon DEF JobOK
<1>4. QED BY <1>1, <1>2, <1>3, Zenon DEF JobOK

\* Of two deliveries of a message at most one still counts.
LEMMA OneOpenJob ==
  ASSUME QueueInv, NEW r \in Processes, NEW s \in Queues,
         jobs[r][s].pc \in OpenPCs, jobs[r][s].live
  PROVE  holder[jobs[r][s].msg] = r /\ queue[jobs[r][s].msg] = s
BY Zenon DEF QueueInv, JobOK

\* A message that is cared for stays so while the job that changes goes on with
\* it or ends.
LEMMA CaredPut ==
  ASSUME QueueTypeOK, NEW p \in Processes, NEW q \in Queues, NEW new \in JobRows,
         PutJob(p, q, new), NEW m \in Messages, Cared(m),
         done \subseteq done', recorded \subseteq recorded', cut \subseteq cut',
         jobs[p][q].msg = m /\ jobs[p][q].pc \in BusyPCs =>
            Ended(m)' \/ (new.msg = m /\ new.pc \in BusyPCs)
  PROVE  Cared(m)'
<1>1. CASE Ended(m)
  BY <1>1, Zenon DEF Cared, Ended
<1>2. CASE Busy(m)
  <2>1. PICK r \in Processes, s \in Queues : jobs[r][s].msg = m /\ jobs[r][s].pc \in BusyPCs
    BY <1>2, Zenon DEF Busy
  <2>2. CASE r = p /\ s = q
    BY <2>1, <2>2, JobPut DEF Cared, Busy
  <2>3. CASE r # p \/ s # q
    BY <2>1, <2>3, JobPut DEF Cared, Busy
  <2>4. QED BY <2>2, <2>3, Zenon
<1>3. QED BY <1>1, <1>2, Zenon DEF Cared

\* A message stays right while its state stays and its history grows.
LEMMA MessageKeeps ==
  ASSUME NEW m \in Messages, MessageOK(m),
         m \in sent' <=> m \in sent, m \in done' => m \in done \/ QueueOf[m] # Q \/ Stored(m)',
         exposed \subseteq exposed', Stored(m) => Stored(m)', Cared(m) => Cared(m)',
         queue'[m] = queue[m], dedup'[m] = dedup[m], started'[m] = started[m]
  PROVE  MessageOK(m)'
BY Zenon DEF MessageOK, KeyOf

----------------------------------------------------------------------------
(* The steps of a consumer *)

\* What a step of the goroutine of queue q in process p does to message k, the
\* one it works on, and leaves to the others.
StepOn(p, q, k, new) ==
  /\ PutJob(p, q, new) /\ jobs[p][q].msg \in {k, None} /\ new.msg \in {k, None}
  /\ UNCHANGED <<sent, conn>>
  /\ done \subseteq done' /\ recorded \subseteq recorded' /\ cut \subseteq cut'
  /\ exposed \subseteq exposed'
  /\ done' \cup recorded' \cup cut' \cup exposed' \subseteq sent
  /\ \A m \in Messages : Stored(m) => Stored(m)'
  /\ queue' \in [Messages -> Queues \cup {None}]
  /\ holder' \in [Messages -> Processes \cup {None}]
  /\ dedup' \in [Messages -> [KeyPrefixes -> {"none", "ing", "post"}]]
  /\ started' \in [Messages -> 0 .. Many]
  /\ \A m \in Messages : m # k =>
        /\ queue'[m] = queue[m] /\ holder'[m] = holder[m] /\ dedup'[m] = dedup[m]
        /\ started'[m] = started[m] /\ (m \in done' => m \in done)
  /\ queue[k] # QueueOf[k] => queue'[k] # QueueOf[k]
  /\ \/ queue'[k] = queue[k] /\ holder'[k] = holder[k]
     \/ holder[k] = p /\ queue[k] = q
     \/ holder[k] = None
  /\ started[k] > 0 => started'[k] > 0
  /\ \/ started'[k] = started[k] \/ k \in exposed'
     \/ holder[k] = p /\ queue[k] = q
  /\ JobOK(p, q, new)' /\ MessageOK(k)'

\* A step of the goroutine of queue q in process p on message k.
LEMMA JobStep ==
  ASSUME QueueTypeOK, QueueInv, NEW p \in Processes, NEW q \in Queues, NEW k \in Messages,
         NEW new \in JobRows, StepOn(p, q, k, new)
  PROVE  QueueTypeOK' /\ QueueInv'
<1>1. /\ jobs' \in [Processes -> [Queues -> JobRows]] /\ jobs'[p][q] = new
      /\ \A r \in Processes, s \in Queues : r # p \/ s # q => jobs'[r][s] = jobs[r][s]
  BY JobPut, Zenon DEF StepOn
<1>2. QueueTypeOK'
  BY <1>1, Zenon DEF QueueTypeOK, StepOn
<1>3. ASSUME NEW r \in Processes, NEW s \in Queues
      PROVE  JobOK(r, s, jobs[r][s])'
  <2>1. CASE r = p /\ s = q
    BY <1>1, <2>1, Zenon DEF JobOK, Stored, StepOn
  <2>2. CASE r # p \/ s # q
    <3>1. PICK job \in JobRows : job = jobs[r][s]
      BY Zenon DEF QueueTypeOK
    <3>2. jobs'[r][s] = job /\ JobOK(r, s, job)
      BY <1>1, <2>2, <3>1, Zenon DEF QueueInv
    <3>3. job.pc # "idle" => job.msg \in Messages
      BY <3>2, Zenon DEF JobOK, QueueTypeOK
    <3>4. job.pc \in OpenPCs /\ job.live => holder[job.msg] = r /\ queue[job.msg] = s
      BY <3>1, OneOpenJob
    <3>5. job.pc = "set" /\ s # Die /\ job.msg \notin exposed => job.pc \in OpenPCs /\ job.live
      BY <3>2, Zenon DEF JobOK, OpenPCs
    <3>6. job.pc # "idle" =>
             /\ queue[job.msg] # QueueOf[job.msg] => queue'[job.msg] # QueueOf[job.msg]
             /\ started[job.msg] > 0 => started'[job.msg] > 0
      BY <3>3, Zenon DEF StepOn
    <3>7. job.pc # "idle" /\ job.pc \in OpenPCs /\ job.live =>
             holder'[job.msg] = holder[job.msg] /\ queue'[job.msg] = queue[job.msg]
      BY <2>2, <3>3, <3>4, Routes, Zenon DEF StepOn
    <3>8. job.pc = "set" /\ s # Die /\ job.msg \notin exposed' => started'[job.msg] = started[job.msg]
      BY <2>2, <3>3, <3>4, <3>5, Zenon DEF StepOn
    <3>9. Stored(job.msg) => Stored(job.msg)' \/ job.pc = "idle"
      BY <3>3, Zenon DEF StepOn
    <3>10. CASE job.pc = "idle"
      BY <3>2, <3>10, Zenon DEF JobOK, OpenPCs, BusyPCs
    <3>11. CASE job.pc # "idle"
      <4>1. JobOK(r, s, job)'
        BY <3>2, <3>6, <3>7, <3>8, <3>9, <3>11, JobKeeps, Zenon DEF StepOn
      <4>2. QED BY <3>2, <4>1 DEF JobOK, Stored
    <3>12. QED BY <3>10, <3>11, Zenon
  <2>3. QED BY <2>1, <2>2, Zenon
<1>4. ASSUME NEW m \in Messages, m # k
      PROVE  MessageOK(m)'
  <2>1. m # None
    BY Routes, Zenon
  <2>2. Cared(m) => Cared(m)'
    BY <1>4, <2>1, CaredPut DEF StepOn
  <2>3. MessageOK(m)
    BY Zenon DEF QueueInv
  <2>4. QED BY <1>4, <2>2, <2>3, MessageKeeps, Zenon DEF StepOn
<1>5. MessageOK(k)'
  BY Zenon DEF StepOn
<1>6. QED BY <1>2, <1>3, <1>4, <1>5, Zenon DEF QueueInv

\* A step may note message k in the histories, and nothing else.
Notes(k) ==
  /\ UNCHANGED <<sent, conn>>
  /\ done' \in {done, done \cup {k}} /\ recorded' \in {recorded, recorded \cup {k}}
  /\ cut' \in {cut, cut \cup {k}} /\ exposed' \in {exposed, exposed \cup {k}}

\* What a goroutine in a job knows of its message.
LEMMA AtWork ==
  ASSUME QueueTypeOK, QueueInv, NEW p \in Processes, NEW q \in Queues, jobs[p][q].pc # "idle"
  PROVE  /\ jobs[p][q] \in JobRows /\ jobs[p][q].msg \in Messages /\ jobs[p][q].msg \in sent
         /\ JobOK(p, q, jobs[p][q]) /\ MessageOK(jobs[p][q].msg)
         /\ q = Die \/ q = QueueOf[jobs[p][q].msg]
         /\ q = Die => queue[jobs[p][q].msg] # QueueOf[jobs[p][q].msg]
<1>1. jobs[p][q] \in JobRows /\ JobOK(p, q, jobs[p][q])
  BY Zenon DEF QueueTypeOK, QueueInv
<1>2. jobs[p][q].msg \in Messages
  BY <1>1, Zenon DEF JobOK, QueueTypeOK
<1>3. QED BY <1>1, <1>2, Zenon DEF JobOK, QueueInv

\* A step that only moves a job and notes its message.
LEMMA QuietStep ==
  ASSUME QueueTypeOK, QueueInv, NEW p \in Processes, NEW q \in Queues, NEW k \in Messages,
         jobs[p][q].pc # "idle", jobs[p][q].msg = k,
         NEW new \in JobRows, PutJob(p, q, new), new.msg \in {k, None},
         Notes(k), UNCHANGED <<queue, holder, dedup, started>>,
         \A m \in Messages : Stored(m) => Stored(m)',
         k \in done' => k \in done \/ QueueOf[k] # Q \/ Stored(k)',
         jobs[p][q].pc \in BusyPCs => Ended(k)' \/ (new.msg = k /\ new.pc \in BusyPCs),
         JobOK(p, q, new)'
  PROVE  QueueTypeOK' /\ QueueInv'
<1>1. k \in sent /\ MessageOK(k)
  BY AtWork, Zenon
<1>2. /\ done \subseteq done' /\ recorded \subseteq recorded' /\ cut \subseteq cut'
      /\ exposed \subseteq exposed' /\ UNCHANGED <<sent, conn>>
      /\ done' \cup recorded' \cup cut' \cup exposed' \subseteq sent
      /\ \A m \in Messages : m # k /\ m \in done' => m \in done
  BY <1>1, Zenon DEF Notes, QueueTypeOK
<1>3. Cared(k) => Cared(k)'
  BY <1>2, CaredPut, Zenon
<1>4. MessageOK(k)'
  BY <1>1, <1>2, <1>3, MessageKeeps, Zenon
<1>5. /\ queue' \in [Messages -> Queues \cup {None}]
      /\ holder' \in [Messages -> Processes \cup {None}]
      /\ dedup' \in [Messages -> [KeyPrefixes -> {"none", "ing", "post"}]]
      /\ started' \in [Messages -> 0 .. Many]
      /\ \A m \in Messages : /\ queue'[m] = queue[m] /\ holder'[m] = holder[m]
                             /\ dedup'[m] = dedup[m] /\ started'[m] = started[m]
  BY Zenon DEF QueueTypeOK
<1>6. StepOn(p, q, k, new)
  BY <1>2, <1>4, <1>5, Zenon DEF StepOn
<1>7. QED BY <1>6, JobStep, Zenon

\* Settling a delivery moves its message only if the delivery still counts.
Settled(p, q, k, next) ==
  /\ queue' \in [Messages -> Queues \cup {None}]
  /\ holder' \in [Messages -> Processes \cup {None}]
  /\ \A m \in Messages : m # k => queue'[m] = queue[m] /\ holder'[m] = holder[m]
  /\ jobs[p][q].live => /\ queue'[k] = next /\ holder'[k] = None
                        /\ holder[k] = p /\ queue[k] = q
  /\ ~jobs[p][q].live => UNCHANGED <<queue, holder>>

\* Settling a delivery moves its message only if the delivery still counts.
LEMMA SettleEffect ==
  ASSUME QueueTypeOK, QueueInv, NEW p \in Processes, NEW q \in Queues,
         jobs[p][q].pc \in OpenPCs, NEW k \in Messages, k = jobs[p][q].msg,
         NEW next \in Queues \cup {None}, Settle(jobs[p][q], next)
  PROVE  Settled(p, q, k, next)
<1>1. jobs[p][q].live => holder[k] = p /\ queue[k] = q
  BY OneOpenJob
<1>2. CASE jobs[p][q].live
  <2>1. queue' = [queue EXCEPT ![k] = next] /\ holder' = [holder EXCEPT ![k] = None]
    BY <1>2, Zenon DEF Settle
  <2>2. queue \in [Messages -> Queues \cup {None}] /\ holder \in [Messages -> Processes \cup {None}]
    BY Zenon DEF QueueTypeOK
  <2>3. QED BY <1>1, <1>2, <2>1, <2>2, Zenon DEF Settled
<1>3. CASE ~jobs[p][q].live
  BY <1>3, Zenon DEF Settle, QueueTypeOK, Settled
<1>4. QED BY <1>2, <1>3, Zenon

\* The key of a message is written.
LEMMA KeyWritten ==
  ASSUME QueueTypeOK, NEW k \in Messages, NEW x \in KeyPrefixes,
         NEW s \in {"none", "ing", "post"}, WriteKey(k, x, s)
  PROVE  /\ dedup' \in [Messages -> [KeyPrefixes -> {"none", "ing", "post"}]]
         /\ \A m \in Messages : m # k => dedup'[m] = dedup[m]
         /\ dedup'[k][x] = s /\ \A y \in KeyPrefixes : y # x => dedup'[k][y] = dedup[k][y]
BY Zenon DEF QueueTypeOK, WriteKey

\* The broker delivers a message to a free goroutine.
LEMMA DeliverStep ==
  ASSUME QueueTypeOK, QueueInv, NEW p \in Processes, NEW q \in Queues, NEW m \in Messages,
         Deliver(p, q, m), UNCHANGED docs
  PROVE  QueueTypeOK' /\ QueueInv'
<1>1. PICK new \in JobRows : new = Delivered(m)
  BY NewJobs, Zenon
<1>2. /\ new.pc = "get" /\ new.msg = m /\ new.live = TRUE
      /\ jobs[p][q].pc = "idle" /\ jobs[p][q].msg = None
  BY <1>1, NewJobs, Zenon DEF Deliver
<1>3. PutJob(p, q, new) /\ queue[m] = q /\ holder[m] = None
  BY <1>1, Zenon DEF Deliver
<1>4. MessageOK(m) /\ m \in sent /\ q \in {QueueOf[m], Die}
  BY <1>3, Routes, Zenon DEF QueueInv, MessageOK
<1>5. /\ UNCHANGED <<sent, queue, dedup, conn, started, done, recorded, exposed, cut>>
      /\ holder' = [holder EXCEPT ![m] = p]
  BY Zenon DEF Deliver
<1>6. /\ holder' \in [Messages -> Processes \cup {None}]
      /\ holder'[m] = p /\ \A k \in Messages : k # m => holder'[k] = holder[k]
  BY <1>5, Zenon DEF QueueTypeOK
<1>7. JobOK(p, q, new)'
  BY <1>2, <1>3, <1>4, <1>5, <1>6, Routes DEF JobOK, OpenPCs, BusyPCs
<1>8. \A k \in Messages : Stored(k)' <=> Stored(k)
  BY Zenon DEF Stored
<1>9. MessageOK(m)'
  <2>1. Cared(m) => Cared(m)'
    BY <1>2, <1>3, <1>5, CaredPut, Zenon DEF BusyPCs
  <2>2. QED BY <1>4, <1>5, <1>8, <2>1, MessageKeeps, Zenon
<1>10. StepOn(p, q, m, new)
  BY <1>2, <1>3, <1>5, <1>6, <1>7, <1>8, <1>9, Zenon DEF QueueTypeOK, StepOn
<1>11. QED BY <1>10, JobStep, Zenon

\* HandleWithDedup finds the key: the message is acknowledged and not handled.
LEMMA SkipStep ==
  ASSUME QueueTypeOK, QueueInv, NEW p \in Processes, NEW q \in Queues,
         GetKey(p, q), Seen(q, jobs[p][q].msg), UNCHANGED docs
  PROVE  QueueTypeOK' /\ QueueInv'
<1>0. jobs[p][q].pc = "get"
  BY Zenon DEF GetKey
<1>1. PICK k \in Messages : k = jobs[p][q].msg
  BY <1>0, AtWork, Zenon
<1>2. MessageOK(k) /\ k \in sent
  BY <1>0, <1>1, AtWork, Zenon
<1>3. PutJob(p, q, Idle) /\ Settle(jobs[p][q], None)
  BY Zenon DEF GetKey, EndJob
<1>4. UNCHANGED <<sent, dedup, conn, started, done, recorded, exposed, cut>>
  BY Zenon DEF GetKey
<1>5. /\ queue' \in [Messages -> Queues \cup {None}]
      /\ holder' \in [Messages -> Processes \cup {None}]
      /\ \A m \in Messages : m # k => queue'[m] = queue[m] /\ holder'[m] = holder[m]
      /\ jobs[p][q].live => queue'[k] = None /\ holder[k] = p /\ queue[k] = q
      /\ ~jobs[p][q].live => UNCHANGED <<queue, holder>>
  <2>1. jobs[p][q].pc \in OpenPCs /\ None \in Queues \cup {None}
    BY <1>0, Zenon DEF OpenPCs
  <2>2. Settled(p, q, k, None)
    BY <1>1, <1>3, <2>1, SettleEffect, Zenon
  <2> QED BY <2>2, Zenon DEF Settled
<1>6. \A m \in Messages : Stored(m)' <=> Stored(m)
  BY Zenon DEF Stored
<1>7. Cared(k) => Cared(k)'
  BY <1>0, <1>3, <1>4, NewJobs, CaredPut, Zenon DEF BusyPCs
<1>8. MessageOK(k)'
  <2>1. CASE ~jobs[p][q].live
    BY <1>2, <1>4, <1>5, <1>6, <1>7, <2>1, MessageKeeps, Zenon
  <2>2. CASE jobs[p][q].live
    <3>1. KeyOf(k) # dedupPrefix(Die) => Cared(k)
      <4>1. dedupPrefix(q) \in KeyPrefixes /\ dedup[k][dedupPrefix(q)] # "none"
        BY <1>1, Routes, Zenon DEF Seen, Key
      <4>2. QED BY <1>2, <1>5, <2>2, <4>1, Zenon DEF MessageOK
    <3>2. queue'[k] = None /\ QueueOf[k] # None
      BY <1>5, <2>2, Routes, Zenon
    <3>3. QED BY <1>2, <1>4, <1>6, <1>7, <3>1, <3>2, Zenon DEF MessageOK, KeyOf
  <2>3. QED BY <2>1, <2>2, Zenon
<1>9. JobOK(p, q, Idle)'
  BY NewJobs, Zenon DEF JobOK, OpenPCs, BusyPCs, Idle
<1>10. queue[k] # QueueOf[k] => queue'[k] # QueueOf[k]
  BY <1>5, Routes, Zenon
<1>11. PICK new \in JobRows : new = Idle /\ new.msg = None
  BY NewJobs, Zenon
<1>12. PutJob(p, q, new) /\ JobOK(p, q, new)'
  BY <1>3, <1>9, <1>11, Zenon DEF JobOK, Idle, Stored
<1>13. StepOn(p, q, k, new)
  BY <1>1, <1>4, <1>5, <1>6, <1>8, <1>10, <1>11, <1>12, Zenon DEF QueueTypeOK, StepOn
<1>14. QED BY <1>13, JobStep, Zenon

\* HandleWithDedup does not find the key, or Redis fails.
LEMMA GetStep ==
  ASSUME QueueTypeOK, QueueInv, NEW p \in Processes, NEW q \in Queues, UNCHANGED docs,
         (GetKey(p, q) /\ ~Seen(q, jobs[p][q].msg)) \/ GetKeyFails(p, q)
  PROVE  QueueTypeOK' /\ QueueInv'
<1>0. jobs[p][q].pc = "get"
  BY Zenon DEF GetKey, GetKeyFails
<1>1. PICK k \in Messages : k = jobs[p][q].msg
  BY <1>0, AtWork, Zenon
<1>2. /\ jobs[p][q] \in JobRows /\ JobOK(p, q, jobs[p][q]) /\ MessageOK(k) /\ k \in sent
      /\ q = Die \/ q = QueueOf[k]
  BY <1>0, <1>1, AtWork, Zenon
<1>3. PICK new \in JobRows : /\ new = At(jobs[p][q], "set") /\ new.pc = "set" /\ new.msg = k
                             /\ new.live = jobs[p][q].live
  BY <1>1, <1>2, JobAt
<1>4. PutJob(p, q, new)
  BY <1>3, Zenon DEF GetKey, GetKeyFails, Goto
<1>5. Notes(k) /\ UNCHANGED <<sent, done, recorded, queue, holder, dedup, started>>
  BY <1>1, Zenon DEF GetKey, GetKeyFails, Notes
<1>6. q # Die /\ k \notin exposed' => started[k] = 0 /\ k \notin exposed
  <2>1. CASE GetKeyFails(p, q)
    BY <1>1, <2>1, Zenon DEF GetKeyFails
  <2>2. CASE GetKey(p, q) /\ ~Seen(q, jobs[p][q].msg)
    <3>1. dedup[k][dedupPrefix(q)] = "none"
      BY <1>1, <2>2, Routes DEF Seen, Key, QueueTypeOK
    <3>2. started[k] \in 0 .. Many /\ exposed' = exposed
      BY <2>2, Zenon DEF QueueTypeOK, GetKey
    <3>3. QED BY <1>2, <3>1, <3>2 DEF MessageOK, KeyOf, Many
  <2>3. QED BY <2>1, <2>2, Zenon
<1>7. JobOK(p, q, new)'
  BY <1>0, <1>1, <1>2, <1>3, <1>5, <1>6, Zenon DEF JobOK, OpenPCs, BusyPCs
<1>8. \A m \in Messages : Stored(m)' <=> Stored(m)
  BY Zenon DEF Stored
<1>9. QED BY <1>0, <1>1, <1>3, <1>4, <1>5, <1>7, <1>8, QuietStep, Zenon DEF BusyPCs

\* HandleWithDedup sets the key, or fails to, and begins the handler.
LEMMA SetStep ==
  ASSUME QueueTypeOK, QueueInv, NEW p \in Processes, NEW q \in Queues, UNCHANGED docs,
         SetIng(p, q) \/ SetIngFails(p, q)
  PROVE  QueueTypeOK' /\ QueueInv'
<1>0. jobs[p][q].pc = "set"
  BY Zenon DEF SetIng, SetIngFails
<1>1. PICK k \in Messages : k = jobs[p][q].msg
  BY <1>0, AtWork, Zenon
<1>2. /\ jobs[p][q] \in JobRows /\ JobOK(p, q, jobs[p][q]) /\ MessageOK(k) /\ k \in sent
      /\ q = Die \/ q = QueueOf[k]
      /\ q = Die => queue[k] # QueueOf[k]
  BY <1>0, <1>1, AtWork, Zenon
<1>3. PICK new \in JobRows : /\ new = At(jobs[p][q], "handle") /\ new.pc = "handle" /\ new.msg = k
                             /\ new.live = jobs[p][q].live
  BY <1>1, <1>2, JobAt
<1>4. PutJob(p, q, new) /\ Begin(p, q, k)
  BY <1>1, <1>3, Zenon DEF SetIng, SetIngFails, Goto, Begin
<1>5. Notes(k) /\ UNCHANGED <<sent, done, recorded, cut, queue, holder>>
  BY <1>1, Zenon DEF SetIng, SetIngFails, Notes
<1>6. /\ started' \in [Messages -> 0 .. Many]
      /\ \A m \in Messages : m # k => started'[m] = started[m]
  BY <1>4 DEF Begin, QueueTypeOK, Many
<1>16. /\ q = Die => started'[k] = started[k]
       /\ q # Die => started'[k] > 0 /\ (started[k] = 0 => started'[k] = 1)
       /\ started[k] > 0 => started'[k] > 0
  BY <1>4 DEF Begin, QueueTypeOK, Many
<1>7. JobOK(p, q, new)'
  BY <1>0, <1>1, <1>2, <1>3, <1>5, <1>16, Routes, Zenon DEF JobOK, OpenPCs, BusyPCs
<1>8. Cared(k)'
  <2>1. jobs'[p][q] = new
    BY <1>4, JobPut, Zenon
  <2>2. QED BY <1>3, <2>1, Zenon DEF Cared, Busy, BusyPCs
<1>9. \A m \in Messages : Stored(m)' <=> Stored(m)
  BY Zenon DEF Stored
<1>10. /\ dedup' \in [Messages -> [KeyPrefixes -> {"none", "ing", "post"}]]
       /\ \A m \in Messages : m # k => dedup'[m] = dedup[m]
       /\ \A y \in KeyPrefixes : y # dedupPrefix(q) => dedup'[k][y] = dedup[k][y]
       /\ dedup'[k][dedupPrefix(q)] = "ing" \/ (dedup' = dedup /\ k \in exposed')
  <2>1. CASE SetIng(p, q)
    <3>1. dedupPrefix(q) \in KeyPrefixes /\ WriteKey(k, dedupPrefix(q), "ing")
      BY <1>1, <2>1, Routes, Zenon DEF SetIng, SetKey
    <3> QED BY <3>1, KeyWritten, Zenon
  <2>2. CASE SetIngFails(p, q)
    <3>1. dedup' = dedup /\ k \in exposed'
      BY <1>1, <2>2, Zenon DEF SetIngFails
    <3>2. dedup \in [Messages -> [KeyPrefixes -> {"none", "ing", "post"}]]
      BY Zenon DEF QueueTypeOK
    <3>3. QED BY <3>1, <3>2, Zenon
  <2>3. QED BY <2>1, <2>2, Zenon
<1>11. k \notin exposed' => /\ k \notin exposed /\ dedup'[k][dedupPrefix(q)] = "ing"
                            /\ q # Die => started[k] = 0 /\ jobs[p][q].live
  BY <1>0, <1>1, <1>2, <1>5, <1>10, Zenon DEF Notes, JobOK
<1>12. MessageOK(k)'
  <2>1. queue'[k] = QueueOf[k] => \A x \in KeyPrefixes : x # KeyOf(k) => dedup'[k][x] = "none"
    BY <1>2, <1>5, <1>10, Zenon DEF MessageOK, KeyOf
  <2>2. k \notin exposed' => started'[k] <= 1 /\ (started'[k] > 0 => dedup'[k][KeyOf(k)] # "none")
    <3>1. KeyOf(k) \in KeyPrefixes
      BY Routes, Zenon DEF KeyOf
    <3>2. CASE q = Die
      BY <1>2, <1>16, <1>10, <1>11, <3>1, <3>2, Zenon DEF MessageOK
    <3>3. CASE q # Die
      BY <1>2, <1>16, <1>11, <3>3 DEF KeyOf
    <3>4. QED BY <3>2, <3>3, Zenon
  <2>3. QED BY <1>2, <1>5, <1>8, <1>9, <2>1, <2>2, Zenon DEF MessageOK, KeyOf
<1>13. started'[k] = started[k] \/ k \in exposed' \/ (holder[k] = p /\ queue[k] = q)
  BY <1>0, <1>1, <1>2, <1>16, <1>11, Zenon DEF JobOK, OpenPCs
<1>14. StepOn(p, q, k, new)
  BY <1>1, <1>2, <1>3, <1>4, <1>5, <1>6, <1>16, <1>7, <1>9, <1>10, <1>12, <1>13, Zenon
     DEF QueueTypeOK, Notes, StepOn
<1>15. QED BY <1>14, JobStep, Zenon

\* An attempt of the handler fails.
LEMMA FailStep ==
  ASSUME QueueTypeOK, QueueInv, NEW p \in Processes, NEW q \in Queues,
         Trying(p, q), PutJob(p, q, Failed(jobs[p][q])),
         UNCHANGED <<sent, queue, holder, dedup, conn, started, done, recorded, exposed, cut>>,
         \A m \in Messages : Stored(m) => Stored(m)'
  PROVE  QueueTypeOK' /\ QueueInv'
<1>0. jobs[p][q].pc = "handle" /\ jobs[p][q].tries < MaxTries
  BY Zenon DEF Trying
<1>1. PICK k \in Messages : k = jobs[p][q].msg
  BY <1>0, AtWork, Zenon
<1>2. jobs[p][q] \in JobRows /\ JobOK(p, q, jobs[p][q])
  BY <1>0, <1>1, AtWork, Zenon
<1>3. PICK new \in JobRows : /\ new = Failed(jobs[p][q]) /\ new.pc = "handle" /\ new.msg = k
                             /\ new.live = jobs[p][q].live
  <2>1. "handle" \in {"idle", "get", "set", "handle", "publish", "ack", "post"}
    BY Zenon
  <2>2. /\ Failed(jobs[p][q]) \in JobRows /\ Failed(jobs[p][q]).pc = jobs[p][q].pc
        /\ Failed(jobs[p][q]).msg = jobs[p][q].msg /\ Failed(jobs[p][q]).live = jobs[p][q].live
    BY <1>0, <1>2, <2>1, JobFields, Zenon
  <2> QED BY <1>0, <1>1, <2>2, Zenon
<1>4. PutJob(p, q, new) /\ Notes(k)
  BY <1>3, Zenon DEF Notes
<1>5. JobOK(p, q, new)'
  <2>1. /\ "handle" \in OpenPCs /\ "handle" \in BusyPCs
        /\ "handle" \notin {"idle", "ack", "post", "publish", "get", "set"}
    BY Zenon DEF OpenPCs, BusyPCs
  <2>2. /\ k \in sent /\ q \in {QueueOf[k], Die} /\ (q = Die => queue[k] # QueueOf[k])
        /\ new.live => holder[k] = p /\ queue[k] = q
        /\ q # Die => started[k] > 0
    <3>1. PICK job \in JobRows : job = jobs[p][q]
      BY <1>2, Zenon
    <3>2. JobOK(p, q, job) /\ job.pc = "handle" /\ job.msg = k /\ new.live = job.live
      BY <1>0, <1>1, <1>2, <1>3, <3>1, Zenon
    <3> QED BY <2>1, <3>2, Zenon DEF JobOK
  <2> QED BY <1>3, <2>1, <2>2, Zenon DEF JobOK
<1>6. QED BY <1>0, <1>1, <1>3, <1>4, <1>5, QuietStep, Zenon DEF BusyPCs

\* The handler has stored what it has to publish, or returns.
LEMMA HandleStep ==
  ASSUME QueueTypeOK, QueueInv, NEW p \in Processes, NEW q \in Queues, NEW k \in Messages,
         k = jobs[p][q].msg, jobs[p][q].pc \in {"handle", "publish"},
         NEW pc \in {"publish", "ack"}, Goto(p, q, pc), Notes(k),
         UNCHANGED <<queue, holder, dedup, started, exposed, cut>>,
         \A m \in Messages : Stored(m) => Stored(m)',
         k \in done' => k \in done \/ QueueOf[k] # Q \/ Stored(k)',
         pc = "ack" => k \in done' \cup recorded',
         pc = "publish" => q = Q /\ Stored(k)'
  PROVE  QueueTypeOK' /\ QueueInv'
<1>1. jobs[p][q].pc # "idle" /\ jobs[p][q].pc \in OpenPCs /\ jobs[p][q].pc \in BusyPCs
  BY Zenon DEF OpenPCs, BusyPCs
<1>2. jobs[p][q] \in JobRows /\ JobOK(p, q, jobs[p][q]) /\ k \in sent
  BY <1>1, AtWork, Zenon
<1>3. PICK new \in JobRows : /\ new = At(jobs[p][q], pc) /\ new.pc = pc /\ new.msg = k
                             /\ new.live = jobs[p][q].live
  BY <1>2, JobAt, SMTT(20)
<1>4. PutJob(p, q, new) /\ sent' = sent
  BY <1>3, Zenon DEF Goto, Notes
<1>5. JobOK(p, q, new)'
  BY <1>1, <1>2, <1>3, <1>4, Zenon DEF JobOK, OpenPCs, BusyPCs
<1>6. new.pc \in BusyPCs
  BY <1>3, Zenon DEF BusyPCs
<1>7. QED BY <1>1, <1>3, <1>4, <1>5, <1>6, QuietStep, Zenon

\* A message that was handled is acknowledged.
LEMMA AckStep ==
  ASSUME QueueTypeOK, QueueInv, NEW p \in Processes, NEW q \in Queues, UNCHANGED docs,
         Ack(p, q)
  PROVE  QueueTypeOK' /\ QueueInv'
<1>0. jobs[p][q].pc = "ack"
  BY Zenon DEF Ack
<1>1. PICK k \in Messages : k = jobs[p][q].msg
  BY <1>0, AtWork, Zenon
<1>2. /\ jobs[p][q] \in JobRows /\ JobOK(p, q, jobs[p][q]) /\ MessageOK(k) /\ k \in sent
      /\ q = Die \/ q = QueueOf[k]
      /\ q = Die => queue[k] # QueueOf[k]
  BY <1>0, <1>1, AtWork, Zenon
<1>3. PICK new \in JobRows : /\ new = At(jobs[p][q], "post") /\ new.pc = "post" /\ new.msg = k
                             /\ new.live = jobs[p][q].live
  BY <1>1, <1>2, JobAt
<1>4. PutJob(p, q, new) /\ Settle(jobs[p][q], None)
  BY <1>3, Zenon DEF Ack, Goto
<1>5. UNCHANGED <<sent, dedup, conn, started, done, recorded, exposed, cut>>
  BY Zenon DEF Ack
<1>6. /\ queue' \in [Messages -> Queues \cup {None}]
      /\ holder' \in [Messages -> Processes \cup {None}]
      /\ \A m \in Messages : m # k => queue'[m] = queue[m] /\ holder'[m] = holder[m]
      /\ jobs[p][q].live => queue'[k] = None /\ holder[k] = p /\ queue[k] = q
      /\ ~jobs[p][q].live => UNCHANGED <<queue, holder>>
  <2>1. jobs[p][q].pc \in OpenPCs /\ None \in Queues \cup {None}
    BY <1>0, Zenon DEF OpenPCs
  <2>2. Settled(p, q, k, None)
    BY <1>1, <1>4, <2>1, SettleEffect, Zenon
  <2> QED BY <2>2, Zenon DEF Settled
<1>7. \A m \in Messages : Stored(m)' <=> Stored(m)
  BY Zenon DEF Stored
<1>8. Cared(k)'
  BY <1>0, <1>1, <1>2, <1>5, Zenon DEF JobOK, Cared, Ended
<1>9. queue'[k] \in {queue[k], None} /\ QueueOf[k] # None
  BY <1>6, Routes, Zenon
<1>10. MessageOK(k)'
  BY <1>2, <1>5, <1>7, <1>8, <1>9, Zenon DEF MessageOK, KeyOf
<1>11. JobOK(p, q, new)'
  BY <1>0, <1>1, <1>2, <1>3, <1>5, <1>9, Zenon DEF JobOK, OpenPCs, BusyPCs
<1>12. StepOn(p, q, k, new)
  BY <1>1, <1>3, <1>4, <1>5, <1>6, <1>7, <1>9, <1>10, <1>11, Zenon DEF QueueTypeOK, StepOn
<1>13. QED BY <1>12, JobStep, Zenon

\* The key is marked as done, or that fails; the goroutine is free again.
LEMMA PostStep ==
  ASSUME QueueTypeOK, QueueInv, NEW p \in Processes, NEW q \in Queues, UNCHANGED docs,
         setDedupDone(p, q) \/ setDedupDoneFails(p, q)
  PROVE  QueueTypeOK' /\ QueueInv'
<1>0. jobs[p][q].pc = "post"
  BY Zenon DEF setDedupDone, setDedupDoneFails
<1>1. PICK k \in Messages : k = jobs[p][q].msg
  BY <1>0, AtWork, Zenon
<1>2. /\ jobs[p][q] \in JobRows /\ JobOK(p, q, jobs[p][q]) /\ MessageOK(k) /\ k \in sent
      /\ q = Die \/ q = QueueOf[k]
      /\ q = Die => queue[k] # QueueOf[k]
  BY <1>0, <1>1, AtWork, Zenon
<1>3. PICK new \in JobRows : new = Idle /\ new.msg = None
  BY NewJobs, Zenon
<1>4. PutJob(p, q, new)
  BY <1>3, Zenon DEF setDedupDone, setDedupDoneFails, EndJob
<1>5. UNCHANGED <<sent, queue, holder, conn, started, done, recorded, exposed, cut>>
  BY Zenon DEF setDedupDone, setDedupDoneFails
<1>6. \A m \in Messages : Stored(m)' <=> Stored(m)
  BY Zenon DEF Stored
<1>7. Cared(k)'
  BY <1>0, <1>1, <1>2, <1>5, Zenon DEF JobOK, Cared, Ended
<1>8. /\ dedup' \in [Messages -> [KeyPrefixes -> {"none", "ing", "post"}]]
      /\ \A m \in Messages : m # k => dedup'[m] = dedup[m]
      /\ \A y \in KeyPrefixes : dedup'[k][y] = dedup[k][y] \/ (y = dedupPrefix(q) /\ dedup'[k][y] = "post")
  <2>1. CASE setDedupDone(p, q)
    <3>1. dedupPrefix(q) \in KeyPrefixes /\ WriteKey(k, dedupPrefix(q), "post")
      BY <1>1, <2>1, Routes, Zenon DEF setDedupDone, SetKey
    <3> QED BY <3>1, KeyWritten, Zenon
  <2>2. CASE setDedupDoneFails(p, q)
    BY <1>1, <2>2, Zenon DEF setDedupDoneFails, QueueTypeOK
  <2>3. QED BY <2>1, <2>2, Zenon
<1>9. MessageOK(k)'
  <2>1. queue'[k] = QueueOf[k] => \A x \in KeyPrefixes : x # KeyOf(k) => dedup'[k][x] = "none"
    BY <1>2, <1>5, <1>8, Zenon DEF MessageOK, KeyOf
  <2>2. k \notin exposed' => started'[k] <= 1 /\ (started'[k] > 0 => dedup'[k][KeyOf(k)] # "none")
    <3>1. KeyOf(k) \in KeyPrefixes
      BY Routes, Zenon DEF KeyOf
    <3>2. QED BY <1>2, <1>5, <1>8, <3>1, Zenon DEF MessageOK
  <2>3. QED BY <1>2, <1>5, <1>6, <1>7, <2>1, <2>2, Zenon DEF MessageOK, KeyOf
<1>10. JobOK(p, q, new)'
  BY <1>3, NewJobs, Zenon DEF JobOK, OpenPCs, BusyPCs, Idle
<1>11. StepOn(p, q, k, new)
  BY <1>1, <1>3, <1>4, <1>5, <1>6, <1>8, <1>9, <1>10, Zenon DEF QueueTypeOK, StepOn
<1>12. QED BY <1>11, JobStep, Zenon

\* A message that failed for the last time is rejected.
LEMMA NackStep ==
  ASSUME QueueTypeOK, QueueInv, NEW p \in Processes, NEW q \in Queues, UNCHANGED docs,
         Nack(p, q)
  PROVE  QueueTypeOK' /\ QueueInv'
<1>0. jobs[p][q].pc = "handle"
  BY Zenon DEF Nack
<1>1. PICK k \in Messages : k = jobs[p][q].msg
  BY <1>0, AtWork, Zenon
<1>2. /\ jobs[p][q] \in JobRows /\ MessageOK(k) /\ k \in sent
      /\ q = Die \/ q = QueueOf[k]
      /\ q = Die => queue[k] # QueueOf[k]
  BY <1>0, <1>1, AtWork, Zenon
<1>3. PICK new \in JobRows : new = Idle /\ new.msg = None
  BY NewJobs, Zenon
<1>4. PICK next \in Queues \cup {None} : next = DeadLetterQueue(q)
  BY Routes, Zenon DEF DeadLetterQueue
<1>5. PutJob(p, q, new) /\ Settle(jobs[p][q], next)
  BY <1>3, <1>4, Zenon DEF Nack, EndJob
<1>6. /\ UNCHANGED <<sent, dedup, conn, started, done, recorded, exposed>>
      /\ cut' = IF jobs[p][q].live /\ q # Die THEN cut ELSE cut \cup {k}
  BY <1>1, Zenon DEF Nack
<1>7. /\ queue' \in [Messages -> Queues \cup {None}]
      /\ holder' \in [Messages -> Processes \cup {None}]
      /\ \A m \in Messages : m # k => queue'[m] = queue[m] /\ holder'[m] = holder[m]
      /\ jobs[p][q].live => queue'[k] = next /\ holder[k] = p /\ queue[k] = q
      /\ ~jobs[p][q].live => UNCHANGED <<queue, holder>>
  <2>1. jobs[p][q].pc \in OpenPCs /\ None \in Queues \cup {None}
    BY <1>0, Zenon DEF OpenPCs
  <2>2. Settled(p, q, k, next)
    BY <1>1, <1>5, <2>1, SettleEffect, Zenon
  <2> QED BY <2>2, Zenon DEF Settled
<1>8. \A m \in Messages : Stored(m)' <=> Stored(m)
  BY Zenon DEF Stored
<1>9. /\ next \in {None, Die} /\ QueueOf[k] # None /\ QueueOf[k] # Die
      /\ q # Die => next = Die
      /\ queue'[k] \in {queue[k], next}
  BY <1>4, <1>7, Routes, Zenon DEF DeadLetterQueue
<1>10. /\ queue'[k] \in {QueueOf[k], Die, None}
       /\ queue'[k] = QueueOf[k] => queue[k] = QueueOf[k]
  BY <1>2, <1>9, Zenon DEF MessageOK
<1>11. KeyOf(k) # dedupPrefix(Die) =>
         /\ \A x \in KeyPrefixes : dedup'[k][x] # "none" =>
               Cared(k)' \/ (x = KeyOf(k) /\ queue'[k] = Die)
         /\ k \in sent' /\ queue'[k] = None => Cared(k)'
  <2>1. CASE jobs[p][q].live /\ q # Die
    <3>1. queue'[k] = Die /\ queue[k] = QueueOf[k] /\ Die # None
      BY <1>2, <1>7, <1>9, <2>1, Routes, Zenon
    <3>2. \A x \in KeyPrefixes : x # KeyOf(k) => dedup'[k][x] = "none"
      BY <1>2, <1>6, <3>1, Zenon DEF MessageOK
    <3>3. QED BY <3>1, <3>2, Zenon
  <2>2. CASE ~(jobs[p][q].live /\ q # Die)
    BY <1>6, <2>2, Zenon DEF Cared, Ended
  <2>3. QED BY <2>1, <2>2, Zenon
<1>12. MessageOK(k)'
  BY <1>2, <1>6, <1>8, <1>10, <1>11, Zenon DEF MessageOK, KeyOf
<1>13. JobOK(p, q, new)'
  BY <1>3, NewJobs, Zenon DEF JobOK, OpenPCs, BusyPCs, Idle
<1>14. /\ cut \subseteq cut' /\ done' \cup recorded' \cup cut' \cup exposed' \subseteq sent
       /\ dedup' \in [Messages -> [KeyPrefixes -> {"none", "ing", "post"}]]
       /\ started' \in [Messages -> 0 .. Many]
  BY <1>2, <1>6, Zenon DEF QueueTypeOK
<1>15. /\ queue[k] # QueueOf[k] => queue'[k] # QueueOf[k]
       /\ \/ queue'[k] = queue[k] /\ holder'[k] = holder[k]
          \/ holder[k] = p /\ queue[k] = q
  BY <1>7, <1>10, Zenon
<1>16. StepOn(p, q, k, new)
  BY <1>1, <1>3, <1>5, <1>6, <1>7, <1>8, <1>12, <1>13, <1>14, <1>15, Zenon DEF StepOn
<1>17. QED BY <1>16, JobStep, Zenon

----------------------------------------------------------------------------
(* Producers and faults *)

\* A step that leaves the jobs alone and touches one message.
LEMMA IdleStep ==
  ASSUME QueueTypeOK, QueueInv, QueueTypeOK', NEW k \in Messages,
         UNCHANGED <<jobs, holder, done, recorded, started>>,
         sent \subseteq sent', exposed \subseteq exposed', cut \subseteq cut', UNCHANGED docs,
         \A m \in Messages : m # k => /\ m \in sent' <=> m \in sent
                                      /\ queue'[m] = queue[m] /\ dedup'[m] = dedup[m],
         queue'[k] = queue[k] \/ k \notin sent,
         MessageOK(k)'
  PROVE  QueueInv'
<1>1. \A m \in Messages : Stored(m)' <=> Stored(m)
  BY Zenon DEF Stored
<1>2. ASSUME NEW r \in Processes, NEW s \in Queues
      PROVE  JobOK(r, s, jobs[r][s])'
  <2>1. PICK job \in JobRows : job = jobs[r][s]
    BY DEF QueueTypeOK
  <2>2. JobOK(r, s, job) /\ jobs'[r][s] = job
    BY <2>1, Zenon DEF QueueInv
  <2>3. CASE job.pc = "idle"
    BY <2>2, <2>3, Zenon DEF JobOK, OpenPCs, BusyPCs
  <2>4. CASE job.pc # "idle"
    <3>1. job.msg \in sent /\ job.msg \in Messages
      BY <2>2, <2>4, Zenon DEF JobOK, QueueTypeOK
    <3>2. queue'[job.msg] = queue[job.msg]
      <4>1. CASE job.msg = k
        BY <3>1, <4>1, Zenon
      <4>2. CASE job.msg # k
        BY <3>1, <4>2, Zenon
      <4> QED BY <4>1, <4>2, Zenon
    <3>3. JobOK(r, s, job)'
      BY <1>1, <2>2, <3>1, <3>2, JobKeeps, Zenon
    <3>4. QED BY <2>2, <3>3 DEF JobOK, Stored
  <2>5. QED BY <2>3, <2>4, Zenon
<1>3. ASSUME NEW m \in Messages, m # k
      PROVE  MessageOK(m)'
  <2>1. Cared(m) => Cared(m)'
    BY Zenon DEF Cared, Ended, Busy
  <2>2. MessageOK(m)
    BY Zenon DEF QueueInv
  <2>3. QED BY <1>1, <1>3, <2>1, <2>2, MessageKeeps, Zenon
<1>4. QED BY <1>2, <1>3, Zenon DEF QueueInv

\* A message is sent, and accepted by the broker or not.
LEMMA SendStep ==
  ASSUME QueueTypeOK, QueueInv, NEW k \in Messages, UNCHANGED docs,
         Send(k) \/ BrokerRefuses(k)
  PROVE  QueueTypeOK' /\ QueueInv'
<1>1. k \notin sent /\ sent' = sent \cup {k} /\ MessageOK(k)
  BY Zenon DEF Send, BrokerRefuses, QueueInv
<1>2. UNCHANGED <<holder, dedup, jobs, conn, started, done, recorded, exposed>>
  BY Zenon DEF Send, BrokerRefuses
<1>3. /\ queue' \in [Messages -> Queues \cup {None}]
      /\ \A m \in Messages : m # k => queue'[m] = queue[m]
      /\ \/ queue'[k] = QueueOf[k] /\ cut' = cut
         \/ queue'[k] = queue[k] /\ cut' = cut \cup {k}
  <2>1. CASE Send(k)
    BY <2>1, Routes, Zenon DEF Send, QueueTypeOK
  <2>2. CASE BrokerRefuses(k)
    BY <2>2, Zenon DEF BrokerRefuses, QueueTypeOK
  <2>3. QED BY <2>1, <2>2, Zenon
<1>4. QueueTypeOK'
  BY <1>1, <1>2, <1>3, Zenon DEF QueueTypeOK
<1>5. Stored(k)' <=> Stored(k)
  BY Zenon DEF Stored
<1>6. Cared(k) => Cared(k)'
  BY <1>2, <1>3, Zenon DEF Cared, Ended, Busy
<1>7. queue[k] = None /\ (\A x \in KeyPrefixes : dedup[k][x] = "none") /\ k \notin done
  BY <1>1, Zenon DEF MessageOK, QueueTypeOK
<1>8. MessageOK(k)'
  <2>1. CASE queue'[k] = QueueOf[k]
    BY <1>1, <1>2, <1>5, <1>7, <2>1, Routes, Zenon DEF MessageOK, KeyOf
  <2>2. CASE queue'[k] = queue[k] /\ cut' = cut \cup {k}
    <3>1. Cared(k)'
      BY <2>2, Zenon DEF Cared, Ended
    <3>2. QED BY <1>1, <1>2, <1>5, <1>7, <2>2, <3>1, Routes, Zenon DEF MessageOK, KeyOf
  <2>3. QED BY <1>3, <2>1, <2>2, Zenon
<1>9. QED BY <1>1, <1>2, <1>3, <1>4, <1>8, IdleStep, Zenon

\* A key expires that no goroutine works with.
LEMMA ExpireStep ==
  ASSUME QueueTypeOK, QueueInv, NEW k \in Messages, NEW x \in KeyPrefixes, UNCHANGED docs,
         KeyExpires(k, x)
  PROVE  QueueTypeOK' /\ QueueInv'
<1>1. /\ dedup' \in [Messages -> [KeyPrefixes -> {"none", "ing", "post"}]]
      /\ \A m \in Messages : m # k => dedup'[m] = dedup[m]
      /\ dedup'[k][x] = "none" /\ \A y \in KeyPrefixes : y # x => dedup'[k][y] = dedup[k][y]
  BY KeyWritten, Zenon DEF KeyExpires
<1>2. /\ UNCHANGED <<sent, queue, holder, jobs, conn, started, done, recorded, cut>>
      /\ exposed' = exposed \cup {k}
  BY Zenon DEF KeyExpires
<1>3. MessageOK(k) /\ k \in sent
  BY Zenon DEF KeyExpires, QueueInv, MessageOK
<1>4. QueueTypeOK'
  BY <1>1, <1>2, <1>3, Zenon DEF QueueTypeOK
<1>5. Stored(k)' <=> Stored(k)
  BY Zenon DEF Stored
<1>6. Cared(k) => Cared(k)'
  BY <1>2, Zenon DEF Cared, Ended, Busy
<1>7. MessageOK(k)'
  BY <1>1, <1>2, <1>3, <1>5, <1>6, Zenon DEF MessageOK, KeyOf
<1>8. QED BY <1>1, <1>2, <1>4, <1>7, IdleStep, Zenon

\* The unacknowledged messages of a process go back to their queues.
LEMMA ReturnedEffect ==
  ASSUME QueueTypeOK, NEW p \in Processes, Returned(p)
  PROVE  /\ holder' \in [Messages -> Processes \cup {None}]
         /\ \A m \in Messages : holder[m] # p => holder'[m] = holder[m]
BY Zenon DEF QueueTypeOK, Returned

\* A step of one process that ends its jobs or cuts them off.
LEMMA ProcessStep ==
  ASSUME QueueTypeOK, QueueInv, QueueTypeOK', NEW p \in Processes, Returned(p),
         UNCHANGED <<sent, queue, dedup, started, done, recorded>>,
         exposed \subseteq exposed', cut \subseteq cut', UNCHANGED docs,
         \A r \in Processes \ {p} : jobs'[r] = jobs[r],
         \A s \in Queues : JobOK(p, s, jobs[p][s])',
         \A m \in Messages : Cared(m) => Cared(m)'
  PROVE  QueueInv'
<1>1. \A m \in Messages : Stored(m)' <=> Stored(m)
  BY Zenon DEF Stored
<1>2. ASSUME NEW r \in Processes \ {p}, NEW s \in Queues
      PROVE  JobOK(r, s, jobs[r][s])'
  <2>1. PICK job \in JobRows : job = jobs[r][s]
    BY Zenon DEF QueueTypeOK
  <2>2. JobOK(r, s, job) /\ jobs'[r][s] = job
    BY <2>1, Zenon DEF QueueInv
  <2>3. CASE job.pc = "idle"
    BY <2>2, <2>3, Zenon DEF JobOK, OpenPCs, BusyPCs
  <2>4. CASE job.pc # "idle"
    <3>1. job.msg \in Messages
      BY <2>2, <2>4, Zenon DEF JobOK, QueueTypeOK
    <3>2. job.pc \in OpenPCs /\ job.live => holder'[job.msg] = holder[job.msg]
      <4>1. job.pc \in OpenPCs /\ job.live => holder[job.msg] = r
        BY <2>2, Zenon DEF JobOK
      <4>2. \A m \in Messages : holder[m] # p => holder'[m] = holder[m]
        BY ReturnedEffect, Zenon
      <4>3. QED BY <3>1, <4>1, <4>2, Zenon
    <3>3. JobOK(r, s, job)'
      BY <1>1, <2>2, <3>1, <3>2, JobKeeps, Zenon
    <3>4. QED BY <2>2, <3>3 DEF JobOK, Stored
  <2>5. QED BY <2>3, <2>4, Zenon
<1>3. ASSUME NEW m \in Messages
      PROVE  MessageOK(m)'
  BY <1>1, MessageKeeps, Zenon DEF QueueInv
<1>4. QED BY <1>2, <1>3, Zenon DEF QueueInv

\* A process loses its connection.
LEMMA LostStep ==
  ASSUME QueueTypeOK, QueueInv, NEW p \in Processes, UNCHANGED docs, ConnectionLost(p)
  PROVE  QueueTypeOK' /\ QueueInv'
<1>1. /\ UNCHANGED <<sent, queue, dedup, started, done, recorded, cut>> /\ Returned(p)
      /\ conn' = [conn EXCEPT ![p] = FALSE]
      /\ exposed' = exposed \cup {j.msg : j \in {k \in JobsOf(p) : k.pc \in {"get", "set"}}}
      /\ jobs' = [jobs EXCEPT ![p] = [q \in Queues |-> CutOff(jobs[p][q])]]
  BY Zenon DEF ConnectionLost
<1>2. \A s \in Queues : jobs[p][s] \in JobRows /\ JobOK(p, s, jobs[p][s])
  BY Zenon DEF QueueTypeOK, QueueInv
<1>3. ASSUME NEW s \in Queues
      PROVE  /\ jobs'[p][s] = CutOff(jobs[p][s]) /\ CutOff(jobs[p][s]) \in JobRows
             /\ CutOff(jobs[p][s]).pc = jobs[p][s].pc /\ CutOff(jobs[p][s]).msg = jobs[p][s].msg
             /\ CutOff(jobs[p][s]).live = FALSE
  <2>1. jobs'[p][s] = CutOff(jobs[p][s])
    BY <1>1, Zenon DEF QueueTypeOK
  <2>2. PICK job \in JobRows : job = jobs[p][s]
    BY <1>2, Zenon
  <2>3. /\ CutOff(job) \in JobRows /\ CutOff(job).pc = job.pc /\ CutOff(job).msg = job.msg
        /\ CutOff(job).live = FALSE
    BY Zenon DEF JobRows, CutOff
  <2>4. QED BY <2>1, <2>2, <2>3, Zenon
<1>4. \A r \in Processes \ {p} : jobs'[r] = jobs[r]
  BY <1>1, Zenon DEF QueueTypeOK
<1>5. jobs' \in [Processes -> [Queues -> JobRows]]
  BY <1>1, <1>3, Zenon DEF QueueTypeOK
<1>6. /\ exposed \subseteq exposed' /\ exposed' \subseteq sent
      /\ \A s \in Queues : jobs[p][s].pc \in {"get", "set"} => jobs[p][s].msg \in exposed'
  <2>1. \A s \in Queues : jobs[p][s] \in JobsOf(p)
    BY Zenon DEF JobsOf
  <2>2. \A j \in JobsOf(p) : \E s \in Queues : j = jobs[p][s]
    BY Zenon DEF JobsOf
  <2>3. \A j \in JobsOf(p) : j.pc \in {"get", "set"} => j.msg \in sent
    <3>1. ASSUME NEW j \in JobsOf(p), j.pc \in {"get", "set"}
          PROVE  j.msg \in sent
      <4>1. PICK s \in Queues : j = jobs[p][s]
        BY <2>2, Zenon
      <4>2. JobOK(p, s, j) /\ j.pc # "idle"
        BY <1>2, <3>1, <4>1, Zenon
      <4> QED BY <4>2, Zenon DEF JobOK
    <3> QED BY <3>1, Zenon
  <2>4. \A m \in exposed' : m \in exposed \/ \E j \in JobsOf(p) : j.pc \in {"get", "set"} /\ m = j.msg
    BY <1>1, Zenon
  <2>5. exposed \subseteq sent
    BY Zenon DEF QueueTypeOK
  <2>6. exposed' \subseteq sent
    BY <2>3, <2>4, <2>5, Zenon
  <2>7. \A s \in Queues : jobs[p][s].pc \in {"get", "set"} => jobs[p][s].msg \in exposed'
    BY <1>1, <2>1, Zenon
  <2> QED BY <1>1, <2>6, <2>7, Zenon
<1>7. QueueTypeOK'
  BY <1>1, <1>5, <1>6, ReturnedEffect, Zenon DEF QueueTypeOK
<1>8. ASSUME NEW s \in Queues
      PROVE  JobOK(p, s, jobs[p][s])'
  <2>1. PICK job \in JobRows : job = jobs[p][s]
    BY <1>2, Zenon
  <2>2. PICK new \in JobRows : /\ new = CutOff(job) /\ new = jobs'[p][s] /\ new.pc = job.pc
                               /\ new.msg = job.msg /\ new.live = FALSE
    BY <1>3, <2>1, Zenon
  <2>3. JobOK(p, s, job) /\ (job.pc \in {"get", "set"} => job.msg \in exposed')
    BY <1>2, <1>6, <2>1, Zenon
  <2>4. job.pc = "idle" => new = Idle
    <3>1. CutOff(Idle) = Idle
      <4>1. Idle.live = FALSE /\ Idle = [pc |-> Idle.pc, msg |-> Idle.msg, tries |-> Idle.tries, live |-> FALSE]
        BY Zenon DEF Idle
      <4>2. PICK i : i = Idle
        OBVIOUS
      <4>3. i = [pc |-> i.pc, msg |-> i.msg, tries |-> i.tries, live |-> FALSE]
        BY <4>1, <4>2, Zenon
      <4>4. [i EXCEPT !.live = FALSE] = i
        BY <4>3
      <4>5. QED BY <4>2, <4>4, Zenon DEF CutOff
    <3>2. QED BY <2>2, <2>3, <3>1, Zenon DEF JobOK
  <2>5. Stored(job.msg)' <=> Stored(job.msg)
    BY Zenon DEF Stored
  <2>6. JobOK(p, s, new)'
    <3>1. /\ job.pc # "idle" => job.msg \in sent' /\ s \in {QueueOf[job.msg], Die}
          /\ job.pc # "idle" /\ s = Die => queue'[job.msg] # QueueOf[job.msg]
          /\ job.pc \in {"ack", "post"} => job.msg \in done' \cup recorded'
          /\ job.pc = "publish" => s = Q /\ Stored(job.msg)'
          /\ job.pc \in BusyPCs /\ s # Die => started'[job.msg] > 0
      BY <1>1, <2>3, <2>5, Zenon DEF JobOK
    <3> QED BY <2>2, <2>3, <2>4, <3>1, Zenon DEF JobOK
  <2>7. QED BY <2>2, <2>6, Zenon DEF JobOK, Stored
<1>9. ASSUME NEW m \in Messages, Cared(m)
      PROVE  Cared(m)'
  <2>1. CASE Ended(m)
    BY <1>1, <2>1, Zenon DEF Cared, Ended
  <2>2. CASE Busy(m)
    <3>1. PICK r \in Processes, s \in Queues : jobs[r][s].msg = m /\ jobs[r][s].pc \in BusyPCs
      BY <2>2, Zenon DEF Busy
    <3>2. jobs'[r][s].msg = m /\ jobs'[r][s].pc \in BusyPCs
      BY <1>3, <1>4, <3>1, Zenon
    <3>3. QED BY <3>2, Zenon DEF Cared, Busy
  <2>3. QED BY <1>9, <2>1, <2>2, Zenon DEF Cared
<1>10. QED BY <1>1, <1>4, <1>6, <1>7, <1>8, <1>9, ProcessStep, Zenon

\* A process stops and is started again.
LEMMA RestartStep ==
  ASSUME QueueTypeOK, QueueInv, NEW p \in Processes, UNCHANGED docs, Restart(p)
  PROVE  QueueTypeOK' /\ QueueInv'
<1>1. /\ UNCHANGED <<sent, queue, dedup, started, done, recorded, exposed>> /\ Returned(p)
      /\ conn' = [conn EXCEPT ![p] = TRUE]
      /\ cut' = cut \cup {j.msg : j \in {k \in JobsOf(p) : k.pc \in {"handle", "publish"}}}
      /\ jobs' = [jobs EXCEPT ![p] = [q \in Queues |-> Idle]]
  BY Zenon DEF Restart
<1>2. \A s \in Queues : jobs[p][s] \in JobRows /\ JobOK(p, s, jobs[p][s])
  BY Zenon DEF QueueTypeOK, QueueInv
<1>3. /\ \A s \in Queues : jobs'[p][s] = Idle
      /\ \A r \in Processes \ {p} : jobs'[r] = jobs[r]
      /\ jobs' \in [Processes -> [Queues -> JobRows]]
  BY <1>1, NewJobs, Zenon DEF QueueTypeOK
<1>4. /\ cut \subseteq cut' /\ cut' \subseteq sent
      /\ \A s \in Queues : jobs[p][s].pc \in {"handle", "publish"} => jobs[p][s].msg \in cut'
  <2>1. \A s \in Queues : jobs[p][s].pc \in {"handle", "publish"} => jobs[p][s].msg \in sent
    BY <1>2, Zenon DEF JobOK
  <2>2. cut \subseteq sent
    BY Zenon DEF QueueTypeOK
  <2>3. QED BY <1>1, <2>1, <2>2, Zenon DEF JobsOf
<1>5. QueueTypeOK'
  BY <1>1, <1>3, <1>4, ReturnedEffect, Zenon DEF QueueTypeOK
<1>6. \A s \in Queues : JobOK(p, s, jobs[p][s])'
  BY <1>3, NewJobs, Zenon DEF JobOK, OpenPCs, BusyPCs
<1>7. ASSUME NEW m \in Messages, Cared(m)
      PROVE  Cared(m)'
  <2>1. CASE Ended(m)
    BY <1>1, <1>4, <2>1, Zenon DEF Cared, Ended
  <2>2. CASE Busy(m)
    <3>1. PICK r \in Processes, s \in Queues : jobs[r][s].msg = m /\ jobs[r][s].pc \in BusyPCs
      BY <2>2, Zenon DEF Busy
    <3>2. CASE r = p
      BY <1>1, <1>2, <1>4, <3>1, <3>2, Zenon DEF Cared, Ended, JobOK, BusyPCs
    <3>3. CASE r # p
      BY <1>3, <3>1, <3>3, Zenon DEF Cared, Busy
    <3>4. QED BY <3>2, <3>3, Zenon
  <2>3. QED BY <1>7, <2>1, <2>2, Zenon DEF Cared
<1>8. QED BY <1>1, <1>3, <1>4, <1>5, <1>6, <1>7, ProcessStep, Zenon

\* A handler other than CreateLegacy returns nil.
LEMMA SucceedStep ==
  ASSUME QueueTypeOK, QueueInv, NEW p \in Processes, NEW q \in Queues, q # Q, UNCHANGED docs,
         HandlerSucceeds(p, q)
  PROVE  QueueTypeOK' /\ QueueInv'
<1>0. jobs[p][q].pc = "handle"
  BY Zenon DEF HandlerSucceeds, Trying
<1>1. PICK k \in Messages : k = jobs[p][q].msg /\ k \in sent /\ (q = Die \/ q = QueueOf[k])
  BY <1>0, AtWork, Zenon
<1>2. Goto(p, q, "ack") /\ UNCHANGED <<queue, holder, dedup, started, exposed, cut, sent, conn>>
  BY Zenon DEF HandlerSucceeds
<1>3. Notes(k) /\ k \in done' \cup recorded' /\ (k \in done' => k \in done \/ QueueOf[k] # Q)
  <2>1. CASE q = Die
    BY <1>1, <2>1, Zenon DEF HandlerSucceeds, Notes, QueueTypeOK
  <2>2. CASE q # Die
    BY <1>1, <2>2, Zenon DEF HandlerSucceeds, Notes, QueueTypeOK
  <2>3. QED BY <2>1, <2>2, Zenon
<1>4. \A m \in Messages : Stored(m) => Stored(m)'
  BY Zenon DEF Stored
<1>5. QED BY <1>0, <1>1, <1>2, <1>3, <1>4, HandleStep, Zenon

\* Steps of the notification service leave the queue as it is.
LEMMA StayStep ==
  ASSUME QueueTypeOK, QueueInv, UNCHANGED mqVars, \A m \in Messages : Stored(m) => Stored(m)'
  PROVE  QueueTypeOK' /\ QueueInv'
<1>1. UNCHANGED <<sent, queue, holder, dedup, jobs, conn, started, done, recorded, exposed, cut>>
  BY Zenon DEF mqVars
<1>2. QueueTypeOK'
  BY <1>1, Zenon DEF QueueTypeOK
<1>3. ASSUME NEW r \in Processes, NEW s \in Queues
      PROVE  JobOK(r, s, jobs[r][s])'
  <2>1. PICK job \in JobRows : job = jobs[r][s]
    BY Zenon DEF QueueTypeOK
  <2>2. JobOK(r, s, job) /\ job = jobs'[r][s]
    BY <1>1, <2>1, Zenon DEF QueueInv
  <2>3. CASE job.pc = "idle"
    BY <2>2, <2>3, Zenon DEF JobOK, OpenPCs, BusyPCs
  <2>4. CASE job.pc # "idle"
    <3>1. job.msg \in Messages
      BY <2>2, <2>4, Zenon DEF JobOK, QueueTypeOK
    <3>2. JobOK(r, s, job)'
      BY <1>1, <2>2, <3>1, JobKeeps, Zenon
    <3>3. QED BY <2>2, <3>2 DEF JobOK, Stored
  <2>5. QED BY <2>3, <2>4, Zenon
<1>4. ASSUME NEW m \in Messages
      PROVE  MessageOK(m)'
  <2>1. Cared(m) => Cared(m)'
    BY <1>1, Zenon DEF Cared, Ended, Busy
  <2>2. MessageOK(m)
    BY Zenon DEF QueueInv
  <2>3. QED BY <1>1, <2>1, <2>2, MessageKeeps, Zenon
<1>5. QED BY <1>2, <1>3, <1>4, Zenon DEF QueueInv

----------------------------------------------------------------------------
(* Documents *)

Rows == DocumentRows(Messages \cup {Nobody})

\* A document without a main account, or with that of its receiver.
OwnRoot(d) == d.root = Nobody \/ d.root = RootOf[d.receiver]

\* No document goes away or changes its event or its account.
DocsKept == \A i \in DOMAIN docs : /\ i \in DOMAIN docs' /\ docs'[i].event = docs[i].event
                                   /\ docs'[i].root = docs[i].root

\* Insert adds one document at the end.
LEMMA Inserted ==
  ASSUME docs \in Seq(Rows), Len(docs) <= MaxDocs, NEW d \in Rows, Insert(d)
  PROVE  /\ docs' \in Seq(Rows) /\ Len(docs') <= MaxDocs
         /\ DOMAIN docs' = DOMAIN docs \cup {Len(docs) + 1}
         /\ Len(docs) + 1 \notin DOMAIN docs /\ Len(docs) + 1 \in Indexes
         /\ \A i \in DOMAIN docs : docs'[i] = docs[i]
         /\ docs'[Len(docs) + 1] = d
<1>1. docs' = Append(docs, d) /\ Len(docs) < MaxDocs
  BY Zenon DEF Insert
<1>2. Len(docs) \in Nat /\ DOMAIN docs = 1 .. Len(docs) /\ MaxDocs \in Nat
  BY NotificationAssumption
<1>3. docs' \in Seq(Rows) /\ Len(docs') = Len(docs) + 1
  BY <1>1
<1>4. DOMAIN docs' = 1 .. (Len(docs) + 1)
  BY <1>3
<1>5. (\A i \in DOMAIN docs : docs'[i] = docs[i]) /\ docs'[Len(docs) + 1] = d
  BY <1>1, <1>2
<1>6. QED BY <1>1, <1>2, <1>3, <1>4, <1>5 DEF Indexes

\* The documents a call creates have their fields.
LEMMA NewDocuments ==
  /\ \A r \in Users, c \in Categories, t \in Types, at \in Times :
        /\ Document(Nobody, r, c, t, at) \in Rows /\ Document(Nobody, r, c, t, at).event = Nobody
        /\ OwnRoot(Document(Nobody, r, c, t, at))
  /\ \A m \in Messages : Event(m) \in Rows /\ Event(m).event = m /\ OwnRoot(Event(m))
<1>1. ASSUME NEW e \in Messages \cup {Nobody}, NEW r \in Users, NEW c \in Categories,
             NEW t \in Types, NEW at \in Times
      PROVE  /\ Document(e, r, c, t, at) \in Rows /\ Document(e, r, c, t, at).event = e
             /\ OwnRoot(Document(e, r, c, t, at))
  <2>1. RootOf[r] \in Users
    BY NotificationAssumption, Zenon
  <2>2. QED BY <2>1, Zenon DEF Document, Rows, DocumentRows, OwnRoot
<1>2. ASSUME NEW m \in Messages
      PROVE  Event(m) \in Rows /\ Event(m).event = m /\ OwnRoot(Event(m))
  <2>1. TargetOf[m] \in Users /\ TypeOf[m] \in Types /\ SentAt[m] \in Times /\ "social" \in Categories
    BY NotificationAssumption, PipelineAssumption, Zenon
  <2>2. QED BY <1>1, <2>1, Zenon DEF Event
<1>3. QED BY <1>1, <1>2, Zenon

\* Marking documents read changes nothing else of them.
LEMMA MarkedRead ==
  ASSUME docs \in Seq(Rows), NEW I, SetRead(I)
  PROVE  /\ docs' \in Seq(Rows) /\ Len(docs') = Len(docs) /\ DOMAIN docs' = DOMAIN docs
         /\ \A i \in DOMAIN docs :
              /\ docs'[i].event = docs[i].event /\ docs'[i].root = docs[i].root
              /\ docs'[i].receiver = docs[i].receiver /\ docs'[i].category = docs[i].category
              /\ docs'[i].read = (i \in I \/ docs[i].read)
<1>1. Len(docs) \in Nat /\ DOMAIN docs = 1 .. Len(docs)
  OBVIOUS
<1>2. DOMAIN docs' = 1 .. Len(docs)
  BY <1>1, Zenon DEF SetRead
<1>3. ASSUME NEW i \in DOMAIN docs
      PROVE  /\ docs'[i] \in Rows
             /\ docs'[i].event = docs[i].event /\ docs'[i].root = docs[i].root
             /\ docs'[i].receiver = docs[i].receiver /\ docs'[i].category = docs[i].category
             /\ docs'[i].read = (i \in I \/ docs[i].read)
  <2>1. PICK d \in Rows : d = docs[i]
    BY <1>1
  <2>2. docs'[i] = IF i \in I THEN [d EXCEPT !.read = TRUE] ELSE d
    BY <2>1, Zenon DEF SetRead
  <2>3. /\ [d EXCEPT !.read = TRUE] \in Rows /\ [d EXCEPT !.read = TRUE].event = d.event
        /\ [d EXCEPT !.read = TRUE].root = d.root /\ [d EXCEPT !.read = TRUE].receiver = d.receiver
        /\ [d EXCEPT !.read = TRUE].category = d.category /\ [d EXCEPT !.read = TRUE].read = TRUE
    BY Zenon DEF Rows, DocumentRows
  <2>4. d.read \in BOOLEAN
    BY Zenon DEF Rows, DocumentRows
  <2>5. CASE i \in I
    BY <2>1, <2>2, <2>3, <2>5, Zenon
  <2>6. CASE i \notin I
    BY <2>1, <2>2, <2>4, <2>6, Zenon
  <2>7. QED BY <2>5, <2>6, Zenon
<1>4. docs' = [i \in 1 .. Len(docs) |-> docs'[i]]
  BY <1>1, Zenon DEF SetRead
<1>5. docs' \in [1 .. Len(docs) -> Rows]
  BY <1>1, <1>2, <1>3, <1>4, Zenon
<1>6. docs' \in Seq(Rows)
  BY <1>1, <1>5
<1>7. Len(docs') = Len(docs)
  BY <1>1, <1>2, <1>6
<1>8. QED BY <1>1, <1>2, <1>3, <1>6, <1>7, Zenon

\* What an insertion, and marking read, do to the documents as a whole.
LEMMA DocsStep ==
  ASSUME docs \in Seq(Rows), Len(docs) <= MaxDocs, StoredOnce,
         \/ UNCHANGED docs \/ (\E d \in Rows : Insert(d)) \/ (\E I \in SUBSET DOMAIN docs : SetRead(I))
  PROVE  docs' \in Seq(Rows) /\ Len(docs') <= MaxDocs /\ StoredOnce' /\ DocsKept
<1>1. CASE UNCHANGED docs
  BY <1>1, Zenon DEF StoredOnce, DocsKept
<1>2. ASSUME NEW d \in Rows, Insert(d)
      PROVE  docs' \in Seq(Rows) /\ Len(docs') <= MaxDocs /\ StoredOnce' /\ DocsKept
  <2>1. /\ docs' \in Seq(Rows) /\ Len(docs') <= MaxDocs
        /\ DOMAIN docs' = DOMAIN docs \cup {Len(docs) + 1}
        /\ \A i \in DOMAIN docs : docs'[i] = docs[i]
        /\ docs'[Len(docs) + 1] = d
    BY <1>2, Inserted, Zenon
  <2>2. d.event # Nobody => \A i \in DOMAIN docs : docs[i].event # d.event
    BY <1>2, Zenon DEF Insert, DuplicateEvent
  <2>3. StoredOnce'
    BY <2>1, <2>2, Zenon DEF StoredOnce
  <2>4. QED BY <2>1, <2>3, Zenon DEF DocsKept
<1>3. ASSUME NEW I \in SUBSET DOMAIN docs, SetRead(I)
      PROVE  docs' \in Seq(Rows) /\ Len(docs') <= MaxDocs /\ StoredOnce' /\ DocsKept
  <2>1. /\ docs' \in Seq(Rows) /\ Len(docs') = Len(docs) /\ DOMAIN docs' = DOMAIN docs
        /\ \A i \in DOMAIN docs : docs'[i].event = docs[i].event /\ docs'[i].root = docs[i].root
    BY <1>3, MarkedRead, Zenon
  <2>2. QED BY <2>1, Zenon DEF StoredOnce, DocsKept
<1>4. QED BY <1>1, <1>2, <1>3, Zenon

\* How a step may change the documents.
DocsChange == \/ UNCHANGED docs \/ (\E d \in Rows : OwnRoot(d) /\ Insert(d))
              \/ (\E I \in SUBSET DOMAIN docs : SetRead(I))

\* The part of TypeOK about the sessions and what is sent to them.
PushTypeOK ==
  /\ publishing \subseteq Indexes /\ listing \subseteq Roots \X Types
  /\ channel \in [Servers -> Seq(Indexes)] /\ received \in [Sessions -> Seq(Indexes)]
  /\ sessions \subseteq Sessions /\ closed \subseteq Sessions

\* The parts of NTypeOK.
LEMMA NTypeParts ==
  NTypeOK(Messages \cup {Nobody}) <=> docs \in Seq(Rows) /\ Len(docs) <= MaxDocs /\ PushTypeOK
BY Zenon DEF NTypeOK, PushTypeOK, Rows

\* Publishing a document appends it to every channel.
LEMMA Published ==
  ASSUME PushTypeOK, NEW i \in Indexes, Publish(i)
  PROVE  channel' \in [Servers -> Seq(Indexes)]
<1>1. \A s \in Servers : Append(channel[s], i) \in Seq(Indexes)
  BY DEF PushTypeOK
<1>2. QED BY <1>1, Zenon DEF Publish

\* The steps of the notification service keep the types, and change the
\* documents in one of three ways.
LEMMA NNextTypes ==
  ASSUME docs \in Seq(Rows), Len(docs) <= MaxDocs, PushTypeOK, NNext
  PROVE  PushTypeOK' /\ DocsChange
<1>1. ASSUME NEW r \in Notified, NEW c \in Categories, NEW t \in Types, NEW at \in Times,
             Create(r, c, t, at)
      PROVE  PushTypeOK' /\ DocsChange
  <2>1. PICK d \in Rows : d = Document(Nobody, r, c, t, at) /\ OwnRoot(d)
    BY NotificationAssumption, NewDocuments, Zenon
  <2>2. Insert(d)
    BY <1>1, <2>1, Zenon DEF Create
  <2>3. Len(docs) + 1 \in Indexes
    BY <2>2, Inserted, Zenon
  <2>4. QED BY <1>1, <2>1, <2>2, <2>3, Zenon DEF Create, PushTypeOK, DocsChange
<1>2. ASSUME NEW i \in publishing, PublishCreated(i)
      PROVE  PushTypeOK' /\ DocsChange
  <2>1. i \in Indexes
    BY Zenon DEF PushTypeOK
  <2>2. channel' \in [Servers -> Seq(Indexes)]
    BY <1>2, <2>1, Published, Zenon DEF PublishCreated
  <2>3. QED BY <1>2, <2>2, Zenon DEF PublishCreated, PushTypeOK, DocsChange
<1>3. ASSUME NEW i \in publishing, PublishCreatedFails(i)
      PROVE  PushTypeOK' /\ DocsChange
  BY <1>3, Zenon DEF PublishCreatedFails, PushTypeOK, DocsChange
<1>4. ASSUME NEW r \in Readers, NEW i \in DOMAIN docs, MarkOneRead(r, i)
      PROVE  PushTypeOK' /\ DocsChange
  <2>1. {i} \in SUBSET DOMAIN docs /\ SetRead({i})
    BY <1>4, Zenon DEF MarkOneRead
  <2>2. QED BY <1>4, <2>1, Zenon DEF MarkOneRead, PushTypeOK, DocsChange
<1>5. ASSUME NEW r \in Readers, NEW c \in Categories, MarkRead(r, c)
      PROVE  PushTypeOK' /\ DocsChange
  <2>1. PICK I : I = {i \in Visible(r) : ~docs[i].read /\ categoryFilter(c, docs[i])}
    OBVIOUS
  <2>2. I \in SUBSET DOMAIN docs /\ SetRead(I)
    BY <1>5, <2>1, Zenon DEF MarkRead, Visible
  <2>3. QED BY <1>5, <2>2, Zenon DEF MarkRead, PushTypeOK, DocsChange
<1>6. ASSUME NEW r \in Readers, MarkAllRead(r)
      PROVE  PushTypeOK' /\ DocsChange
  <2>1. PICK I : I = {i \in Visible(r) : ~docs[i].read}
    OBVIOUS
  <2>2. I \in SUBSET DOMAIN docs /\ SetRead(I)
    BY <1>6, <2>1, Zenon DEF MarkAllRead, Visible
  <2>3. QED BY <1>6, <2>2, Zenon DEF MarkAllRead, PushTypeOK, DocsChange
<1>7. ASSUME NEW r \in Readers, NEW t \in Types, ListLegacy(r, t)
      PROVE  PushTypeOK' /\ DocsChange
  <2>1. r \in Roots
    BY NotificationAssumption, Zenon DEF Roots
  <2>2. QED BY <1>7, <2>1 DEF ListLegacy, PushTypeOK, DocsChange
<1>8. ASSUME NEW r \in Readers, NEW t \in Types, MarkLatestLegacyRead(r, t)
      PROVE  PushTypeOK' /\ DocsChange
  <2>1. PICK i \in OfType(r, t) : SetRead({i})
    BY <1>8, Zenon DEF MarkLatestLegacyRead
  <2>2. {i} \in SUBSET DOMAIN docs
    BY Zenon DEF OfType, Visible
  <2>3. QED BY <1>8, <2>1, <2>2, Zenon DEF MarkLatestLegacyRead, PushTypeOK, DocsChange
<1>9. ASSUME NEW s \in Sessions, HubAdd(s) \/ HubRemove(s)
      PROVE  PushTypeOK' /\ DocsChange
  BY <1>9, Zenon DEF HubAdd, HubRemove, PushTypeOK, DocsChange
<1>10. ASSUME NEW server \in Servers, Broadcast(server)
       PROVE  PushTypeOK' /\ DocsChange
  <2>1. channel[server] \in Seq(Indexes) /\ channel[server] # <<>>
    BY <1>10, Zenon DEF Broadcast, PushTypeOK
  <2>2. PICK i : i = Head(channel[server])
    OBVIOUS
  <2>3. i \in Indexes /\ Tail(channel[server]) \in Seq(Indexes)
    BY <2>1, <2>2
  <2>4. PICK written \in SUBSET SessionsFor(server, docs[i]) :
          received' = [s \in Sessions |->
            IF s \in written THEN Append(received[s], i) ELSE received[s]]
    BY <1>10, <2>2, Zenon DEF Broadcast
  <2>5. \A s \in Sessions : received[s] \in Seq(Indexes) /\ Append(received[s], i) \in Seq(Indexes)
    BY <2>3 DEF PushTypeOK
  <2>6. received' \in [Sessions -> Seq(Indexes)]
    BY <2>4, <2>5, Zenon
  <2>7. channel' \in [Servers -> Seq(Indexes)]
    BY <1>10, <2>3, Zenon DEF Broadcast, PushTypeOK
  <2>8. QED BY <1>10, <2>6, <2>7, Zenon DEF Broadcast, PushTypeOK, DocsChange
<1>11. ASSUME NEW server \in Servers, ServerRestarts(server)
       PROVE  PushTypeOK' /\ DocsChange
  <2>1. <<>> \in Seq(Indexes)
    OBVIOUS
  <2>2. channel' \in [Servers -> Seq(Indexes)]
    BY <1>11, <2>1, Zenon DEF ServerRestarts, PushTypeOK
  <2>3. QED BY <1>11, <2>2, Zenon DEF ServerRestarts, PushTypeOK, DocsChange
<1>12. QED
  BY <1>1, <1>2, <1>3, <1>4, <1>5, <1>6, <1>7, <1>8, <1>9, <1>10, <1>11, Zenon DEF NNext

\* So do the steps of CreateLegacy.
LEMMA CreateLegacyTypes ==
  ASSUME docs \in Seq(Rows), Len(docs) <= MaxDocs, PushTypeOK, QueueTypeOK, QueueInv,
         NEW p \in Processes, CreateLegacy(p)
  PROVE  PushTypeOK' /\ DocsChange
<1>1. jobs[p][Q].msg \in Messages
  BY Routes, AtWork, Zenon DEF CreateLegacy, CreateLegacyInsert, CreateLegacyInsertUnanswered,
     CreateLegacyDuplicate, CreateLegacyPublish, Trying
<1>2. PICK d \in Rows : d = Event(jobs[p][Q].msg) /\ OwnRoot(d)
  BY <1>1, NewDocuments, Zenon
<1>3. CASE CreateLegacyInsert(p) \/ CreateLegacyInsertUnanswered(p)
  <2>1. Insert(d) /\ UNCHANGED <<publishing, channel, listing, sessions, closed, received>>
    BY <1>2, <1>3, Zenon DEF CreateLegacyInsert, CreateLegacyInsertUnanswered
  <2>2. QED BY <1>2, <2>1, Zenon DEF PushTypeOK, DocsChange
<1>4. CASE CreateLegacyDuplicate(p)
  BY <1>4, Zenon DEF CreateLegacyDuplicate, nVars, PushTypeOK, DocsChange
<1>5. CASE CreateLegacyPublish(p)
  <2>1. /\ (\E i \in DOMAIN docs : Publish(i)) \/ UNCHANGED channel
        /\ UNCHANGED <<docs, publishing, listing, sessions, closed, received>>
    BY <1>5, Zenon DEF CreateLegacyPublish
  <2>2. DOMAIN docs \subseteq Indexes
    BY NotificationAssumption DEF Indexes
  <2>3. channel' \in [Servers -> Seq(Indexes)]
    BY <2>1, <2>2, Published, Zenon DEF PushTypeOK
  <2>4. QED BY <2>1, <2>3, Zenon DEF PushTypeOK, DocsChange
<1>6. QED BY <1>3, <1>4, <1>5, Zenon DEF CreateLegacy

\* Every step keeps the types and the documents.
LEMMA DocsNext ==
  ASSUME PipelineInv, [Next]_vars
  PROVE  /\ docs' \in Seq(Rows) /\ Len(docs') <= MaxDocs /\ PushTypeOK'
         /\ StoredOnce' /\ DocsKept /\ DocsChange
<1>1. /\ docs \in Seq(Rows) /\ Len(docs) <= MaxDocs /\ PushTypeOK /\ QueueTypeOK /\ QueueInv
      /\ StoredOnce
  BY TypeParts, NTypeParts, Zenon DEF PipelineInv
<1>2. PushTypeOK' /\ DocsChange
  <2>1. CASE UNCHANGED nVars
    BY <1>1, <2>1, Zenon DEF nVars, PushTypeOK, DocsChange
  <2>2. CASE NNext
    BY <1>1, <2>2, NNextTypes, Zenon
  <2>3. ASSUME NEW p \in Processes, CreateLegacy(p)
        PROVE  PushTypeOK' /\ DocsChange
    BY <1>1, <2>3, CreateLegacyTypes, Zenon
  <2>4. UNCHANGED nVars \/ NNext \/ \E p \in Processes : CreateLegacy(p)
    BY Zenon DEF Next, vars, Work, Handle
  <2>5. QED BY <2>1, <2>2, <2>3, <2>4, Zenon
<1>3. QED BY <1>1, <1>2, DocsStep, Zenon DEF DocsChange

\* CreateLegacy, as a step of the consumer of notify_user.
LEMMA CreateLegacyStep ==
  ASSUME QueueTypeOK, QueueInv, docs \in Seq(Rows), Len(docs) <= MaxDocs,
         \A m \in Messages : Stored(m) => Stored(m)',
         NEW p \in Processes, CreateLegacy(p)
  PROVE  QueueTypeOK' /\ QueueInv'
<1>0. jobs[p][Q].pc \in {"handle", "publish"} /\ Q \in Queues
  BY Routes, Zenon DEF CreateLegacy, CreateLegacyInsert, CreateLegacyInsertUnanswered,
     CreateLegacyDuplicate, CreateLegacyPublish, Trying
<1>1. PICK k \in Messages : k = jobs[p][Q].msg /\ k \in sent /\ JobOK(p, Q, jobs[p][Q])
  BY <1>0, AtWork, Zenon
<1>2. CASE CreateLegacyInsert(p)
  <2>1. PICK d \in Rows : d = Event(k) /\ d.event = k
    BY NewDocuments, Zenon
  <2>2. Insert(d) /\ Goto(p, Q, "publish") /\ Notes(k)
        /\ UNCHANGED <<queue, holder, dedup, started, exposed, cut, done>>
    BY <1>1, <1>2, <2>1, Zenon DEF CreateLegacyInsert, Notes, QueueTypeOK
  <2>3. Stored(k)'
    BY <2>1, <2>2, Inserted, Zenon DEF Stored
  <2>4. QED BY <1>0, <1>1, <2>2, <2>3, HandleStep, Zenon
<1>3. CASE CreateLegacyInsertUnanswered(p)
  BY <1>0, <1>3, FailStep, Zenon DEF CreateLegacyInsertUnanswered
<1>4. CASE CreateLegacyDuplicate(p)
  <2>1. Stored(k)'
    BY <1>1, <1>4, Zenon DEF CreateLegacyDuplicate, DuplicateEvent, Stored
  <2>2. Goto(p, Q, "ack") /\ Notes(k) /\ k \in done'
        /\ UNCHANGED <<queue, holder, dedup, started, exposed, cut>>
    BY <1>1, <1>4, Zenon DEF CreateLegacyDuplicate, ReturnDuplicate, Notes, QueueTypeOK
  <2>3. QED BY <1>0, <1>1, <2>1, <2>2, HandleStep, Zenon
<1>5. CASE CreateLegacyPublish(p)
  <2>1. Stored(k)'
    BY <1>1, <1>5, Zenon DEF CreateLegacyPublish, JobOK
  <2>2. Goto(p, Q, "ack") /\ Notes(k) /\ k \in done'
        /\ UNCHANGED <<queue, holder, dedup, started, exposed, cut>>
    BY <1>1, <1>5, Zenon DEF CreateLegacyPublish, Notes, QueueTypeOK
  <2>3. QED BY <1>0, <1>1, <2>1, <2>2, HandleStep, Zenon
<1>6. QED BY <1>2, <1>3, <1>4, <1>5, Zenon DEF CreateLegacy

\* Every step keeps the invariant of the queue.
LEMMA QueueNext ==
  ASSUME PipelineInv, [Next]_vars
  PROVE  QueueTypeOK' /\ QueueInv'
<1>1. QueueTypeOK /\ QueueInv /\ docs \in Seq(Rows) /\ Len(docs) <= MaxDocs
  BY TypeParts, NTypeParts, Zenon DEF PipelineInv
<1>2. \A m \in Messages : Stored(m) => Stored(m)'
  BY DocsNext, Zenon DEF DocsKept, Stored
<1>3. CASE UNCHANGED mqVars
  BY <1>1, <1>2, <1>3, StayStep, Zenon
<1>4. CASE QueueSteps /\ UNCHANGED nVars
  <2>1. UNCHANGED docs
    BY <1>4, Zenon DEF nVars
  <2>2. ASSUME NEW m \in Messages, Send(m) \/ BrokerRefuses(m)
        PROVE  QueueTypeOK' /\ QueueInv'
    BY <1>1, <2>1, <2>2, SendStep, Zenon
  <2>3. ASSUME NEW p \in Processes, NEW q \in Queues, NEW m \in Messages, Deliver(p, q, m)
        PROVE  QueueTypeOK' /\ QueueInv'
    BY <1>1, <2>1, <2>3, DeliverStep, Zenon
  <2>4. ASSUME NEW p \in Processes, ConnectionLost(p) \/ Restart(p)
        PROVE  QueueTypeOK' /\ QueueInv'
    BY <1>1, <2>1, <2>4, LostStep, RestartStep, Zenon
  <2>5. ASSUME NEW m \in Messages, NEW x \in KeyPrefixes, KeyExpires(m, x)
        PROVE  QueueTypeOK' /\ QueueInv'
    BY <1>1, <2>1, <2>5, ExpireStep, Zenon
  <2>6. QED BY <1>4, <2>2, <2>3, <2>4, <2>5, Zenon DEF QueueSteps, Fault
<1>5. ASSUME NEW p \in Processes, NEW q \in Queues, Work(p, q)
      PROVE  QueueTypeOK' /\ QueueInv'
  <2>1. CASE Claim(p, q) /\ UNCHANGED nVars
    <3>1. UNCHANGED docs
      BY <2>1, Zenon DEF nVars
    <3>2. QED BY <1>1, <2>1, <3>1, SkipStep, GetStep, SetStep, Zenon DEF Claim
  <2>2. CASE Conclude(p, q) /\ UNCHANGED nVars
    <3>1. UNCHANGED docs
      BY <2>2, Zenon DEF nVars
    <3>2. QED BY <1>1, <2>2, <3>1, AckStep, PostStep, NackStep, Zenon DEF Conclude
  <2>3. CASE HandlerFails(p, q)
    BY <1>1, <1>2, <2>3, FailStep, Zenon DEF HandlerFails
  <2>4. CASE q # Q /\ HandlerSucceeds(p, q) /\ UNCHANGED nVars
    <3>1. UNCHANGED docs
      BY <2>4, Zenon DEF nVars
    <3>2. QED BY <1>1, <2>4, <3>1, SucceedStep, Zenon
  <2>5. CASE CreateLegacy(p)
    BY <1>1, <1>2, <2>5, CreateLegacyStep, Zenon
  <2>6. QED BY <1>5, <2>1, <2>2, <2>3, <2>4, <2>5, Zenon DEF Work, Handle
<1>6. QED BY <1>3, <1>4, <1>5, Zenon DEF Next, vars

----------------------------------------------------------------------------
(* Pushing *)

\* What an element appended to a sequence does to its values.
LEMMA Appended ==
  ASSUME NEW S, NEW f \in Seq(S), NEW i \in S
  PROVE  /\ Values(Append(f, i)) = Values(f) \cup {i}
         /\ Distinct(f) /\ i \notin Values(f) => Distinct(Append(f, i))
<1>0. /\ Append(f, i) \in Seq(S) /\ Len(Append(f, i)) = Len(f) + 1
      /\ \A n \in DOMAIN f : Append(f, i)[n] = f[n]
      /\ Append(f, i)[Len(f) + 1] = i
  OBVIOUS
<1>1. PICK g \in Seq(S) : g = Append(f, i)
  BY <1>0, Zenon
<1>2. /\ Len(f) \in Nat /\ DOMAIN f = 1 .. Len(f)
      /\ DOMAIN g = 1 .. (Len(f) + 1)
      /\ \A n \in DOMAIN f : g[n] = f[n]
      /\ g[Len(f) + 1] = i
  BY <1>0, <1>1
<1>3. DOMAIN g = DOMAIN f \cup {Len(f) + 1}
  BY <1>2
<1>4. Values(g) = Values(f) \cup {i}
  BY <1>2, <1>3 DEF Values
<1>5. Distinct(f) /\ i \notin Values(f) => Distinct(g)
  BY <1>2, <1>3, Zenon DEF Values, Distinct
<1>6. QED BY <1>1, <1>4, <1>5, Zenon

\* The first element of a sequence without repetition is not in its tail.
LEMMA Removed ==
  ASSUME NEW S, NEW f \in Seq(S), f # <<>>, Distinct(f)
  PROVE  /\ Distinct(Tail(f)) /\ Values(Tail(f)) \subseteq Values(f)
         /\ Head(f) \in Values(f) /\ Head(f) \notin Values(Tail(f))
<1>0. /\ Tail(f) \in Seq(S) /\ Len(f) # 0 /\ Len(Tail(f)) = Len(f) - 1
      /\ \A n \in 1 .. (Len(f) - 1) : Tail(f)[n] = f[n + 1]
  OBVIOUS
<1>1. PICK g \in Seq(S) : g = Tail(f)
  BY <1>0, Zenon
<1>2. /\ Len(f) \in Nat /\ Len(f) # 0 /\ DOMAIN f = 1 .. Len(f)
      /\ DOMAIN g = 1 .. (Len(f) - 1)
      /\ \A n \in DOMAIN g : g[n] = f[n + 1]
  BY <1>0, <1>1
<1>3. /\ \A n \in DOMAIN g : n + 1 \in DOMAIN f /\ n + 1 # 1
      /\ \A n, l \in DOMAIN g : n + 1 = l + 1 => n = l
      /\ 1 \in DOMAIN f /\ Head(f) = f[1]
  BY <1>2
<1>4. Distinct(g)
  BY <1>2, <1>3, Zenon DEF Distinct
<1>5. Values(g) \subseteq Values(f) /\ Head(f) \in Values(f)
  BY <1>2, <1>3 DEF Values
<1>6. Head(f) \notin Values(g)
  BY <1>2, <1>3 DEF Values, Distinct
<1>7. QED BY <1>1, <1>4, <1>5, <1>6, Zenon

ChannelOK(server) == Distinct(channel[server]) /\ Values(channel[server]) \subseteq DOMAIN docs
SessionOK(s) == /\ Distinct(received[s]) /\ Values(received[s]) \subseteq DOMAIN docs
                /\ \A i \in Values(received[s]) : docs[i].root = OwnerOf[s]
                /\ Values(received[s]) \cap Values(channel[ServerOf[s]]) = {}
WaitOK == \A i \in publishing : i \in DOMAIN docs /\ docs[i].event = Nobody /\ ~OnItsWay(i)
Pushing(p) == jobs[p][Q].pc = "publish"
PushingOK ==
  \A p \in Processes : Pushing(p) =>
     /\ \A i \in DOMAIN docs : docs[i].event = jobs[p][Q].msg => ~OnItsWay(i)
     /\ \A r \in Processes : Pushing(r) /\ jobs[r][Q].msg = jobs[p][Q].msg => r = p

\* The parts of PushInv.
LEMMA PushParts ==
  PushInv <=> /\ \A server \in Servers : ChannelOK(server)
              /\ \A s \in Sessions : SessionOK(s)
              /\ WaitOK /\ PushingOK
BY Zenon DEF PushInv, ChannelOK, SessionOK, WaitOK, PushingOK, Pushing

\* The same after a step.
LEMMA PushPartsNext ==
  ASSUME \A server \in Servers : ChannelOK(server)', \A s \in Sessions : SessionOK(s)',
         WaitOK', PushingOK'
  PROVE  PushInv'
BY Zenon DEF PushInv, ChannelOK, SessionOK, WaitOK, PushingOK, Pushing

\* A goroutine of notify_user in process p goes on publishing the same document.
GoesOn(p) == Pushing(p)' => Pushing(p) /\ jobs'[p][Q].msg = jobs[p][Q].msg

\* A step that publishes nothing: a document that waits to be published anew is
\* a new one.
LEMMA PushFrame ==
  ASSUME PushInv, QueueInv, DocsKept, UNCHANGED <<channel, received>>,
         \A i \in publishing' : i \in publishing \/
            (i \in DOMAIN docs' /\ i \notin DOMAIN docs /\ docs'[i].event = Nobody),
         NEW p0, \A p \in Processes : p # p0 => GoesOn(p),
         p0 \in Processes /\ Pushing(p0)' =>
            GoesOn(p0) \/ (jobs'[p0][Q].msg \in Messages /\ ~Stored(jobs'[p0][Q].msg))
  PROVE  PushInv'
<1>1. /\ \A server \in Servers : ChannelOK(server)
      /\ \A s \in Sessions : SessionOK(s)
      /\ WaitOK /\ PushingOK
  BY PushParts, Zenon
<1>2. \A server \in Servers : ChannelOK(server)'
  BY <1>1, Zenon DEF ChannelOK, DocsKept
<1>3. \A s \in Sessions : SessionOK(s)'
  BY <1>1, Zenon DEF SessionOK, DocsKept
<1>4. \A i : OnItsWay(i)' <=> OnItsWay(i)
  BY Zenon DEF OnItsWay
<1>5. \A i : OnItsWay(i) => i \in DOMAIN docs
  BY <1>1, Zenon DEF OnItsWay, ChannelOK, SessionOK
<1>6. WaitOK'
  BY <1>1, <1>4, <1>5, Zenon DEF WaitOK, DocsKept
<1>7. ASSUME NEW p \in Processes, Pushing(p)', NEW i \in DOMAIN docs', docs'[i].event = jobs'[p][Q].msg
      PROVE  ~OnItsWay(i)'
  <2>1. CASE i \notin DOMAIN docs
    BY <1>4, <1>5, <2>1, Zenon
  <2>2. CASE i \in DOMAIN docs
    <3>1. docs[i].event = jobs'[p][Q].msg
      BY <1>7, <2>2, Zenon DEF DocsKept
    <3>2. CASE GoesOn(p)
      BY <1>1, <1>4, <1>7, <2>2, <3>1, <3>2, Zenon DEF GoesOn, PushingOK
    <3>3. CASE ~GoesOn(p)
      BY <1>7, <2>2, <3>1, <3>3, Zenon DEF Stored
    <3>4. QED BY <3>2, <3>3, Zenon
  <2>3. QED BY <2>1, <2>2, Zenon
<1>8. \A r \in Processes : Pushing(r) => Stored(jobs[r][Q].msg)
  BY Routes, Zenon DEF QueueInv, JobOK, Pushing
<1>9. ASSUME NEW p \in Processes, NEW r \in Processes, Pushing(p)', Pushing(r)',
             jobs'[r][Q].msg = jobs'[p][Q].msg
      PROVE  r = p
  BY <1>1, <1>8, <1>9, Zenon DEF GoesOn, PushingOK
<1>10. PushingOK'
  BY <1>7, <1>9, Zenon DEF PushingOK
<1>11. QED BY <1>2, <1>3, <1>6, <1>10, PushPartsNext, Zenon

\* A document that is not on its way is published, and waits no more.
LEMMA PushOut ==
  ASSUME PushInv, PushTypeOK, UNCHANGED <<docs, received>>, NEW i \in DOMAIN docs, i \in Indexes,
         Publish(i), ~OnItsWay(i), publishing' \subseteq publishing \ {i},
         \A p \in Processes : GoesOn(p) /\ (Pushing(p)' => docs[i].event # jobs[p][Q].msg)
  PROVE  PushInv'
<1>1. /\ \A server \in Servers : ChannelOK(server)
      /\ \A s \in Sessions : SessionOK(s)
      /\ WaitOK /\ PushingOK
  BY PushParts, Zenon
<1>2. ASSUME NEW server \in Servers
      PROVE  Values(channel'[server]) = Values(channel[server]) \cup {i} /\ Distinct(channel'[server])
  <2>1. channel[server] \in Seq(Indexes) /\ channel'[server] = Append(channel[server], i)
    BY Zenon DEF PushTypeOK, Publish
  <2>2. Distinct(channel[server]) /\ i \notin Values(channel[server])
    BY <1>1, Zenon DEF ChannelOK, OnItsWay
  <2>3. QED BY <2>1, <2>2, Appended
<1>3. \A server \in Servers : ChannelOK(server)'
  BY <1>1, <1>2, Zenon DEF ChannelOK
<1>4. ASSUME NEW s \in Sessions
      PROVE  SessionOK(s)'
  <2>1. ServerOf[s] \in Servers /\ i \notin Values(received[s])
    BY NotificationAssumption, Zenon DEF OnItsWay
  <2>2. SessionOK(s) /\ received'[s] = received[s]
    BY <1>1, Zenon
  <2>3. Values(channel'[ServerOf[s]]) = Values(channel[ServerOf[s]]) \cup {i}
    BY <1>2, <2>1, Zenon
  <2>4. QED BY <2>1, <2>2, <2>3, Zenon DEF SessionOK
<1>5. \A n : OnItsWay(n)' => OnItsWay(n) \/ n = i
  BY <1>2, Zenon DEF OnItsWay
<1>6. WaitOK'
  BY <1>1, <1>5, Zenon DEF WaitOK
<1>7. PushingOK'
  BY <1>1, <1>5, Zenon DEF PushingOK, GoesOn
<1>8. QED BY <1>3, <1>4, <1>6, <1>7, PushPartsNext, Zenon

\* A subscriber writes the next document of its channel to sessions of its owner.
LEMMA BroadcastStep ==
  ASSUME PushInv, PushTypeOK, UNCHANGED jobs, NEW server \in Servers, Broadcast(server)
  PROVE  PushInv'
<1>1. /\ \A srv \in Servers : ChannelOK(srv)
      /\ \A s \in Sessions : SessionOK(s)
      /\ WaitOK /\ PushingOK
  BY PushParts, Zenon
<1>2. channel[server] \in Seq(Indexes) /\ channel[server] # <<>> /\ Distinct(channel[server])
  BY <1>1, Zenon DEF Broadcast, PushTypeOK, ChannelOK
<1>3. PICK i \in Indexes : i = Head(channel[server])
  BY <1>2
<1>4. PICK written \in SUBSET SessionsFor(server, docs[i]) :
        received' = [s \in Sessions |-> IF s \in written THEN Append(received[s], i) ELSE received[s]]
  BY <1>3, Zenon DEF Broadcast
<1>5. /\ channel'[server] = Tail(channel[server])
      /\ \A srv \in Servers : srv # server => channel'[srv] = channel[srv]
      /\ UNCHANGED <<docs, publishing>>
  BY Zenon DEF Broadcast, PushTypeOK
<1>6. /\ Distinct(channel'[server]) /\ Values(channel'[server]) \subseteq Values(channel[server])
      /\ i \in Values(channel[server]) /\ i \notin Values(channel'[server])
  BY <1>2, <1>3, <1>5, Removed, Zenon
<1>7. \A srv \in Servers : /\ Distinct(channel'[srv])
                           /\ Values(channel'[srv]) \subseteq Values(channel[srv])
  BY <1>1, <1>5, <1>6, Zenon DEF ChannelOK
<1>8. \A srv \in Servers : ChannelOK(srv)'
  BY <1>1, <1>5, <1>7, Zenon DEF ChannelOK
<1>9. ASSUME NEW s \in Sessions
      PROVE  SessionOK(s)' /\ Values(received'[s]) \subseteq Values(received[s]) \cup {i}
  <2>1. SessionOK(s) /\ ServerOf[s] \in Servers /\ received[s] \in Seq(Indexes)
    BY <1>1, NotificationAssumption, Zenon DEF PushTypeOK
  <2>2. CASE s \in written
    <3>1. ServerOf[s] = server /\ OwnerOf[s] = docs[i].root
      BY <2>2, Zenon DEF SessionsFor
    <3>2. received'[s] = Append(received[s], i)
      BY <1>4, <2>2, Zenon
    <3>3. i \notin Values(received[s]) /\ i \in DOMAIN docs
      BY <1>1, <1>6, <2>1, <3>1, Zenon DEF SessionOK, ChannelOK
    <3>4. Values(received'[s]) = Values(received[s]) \cup {i} /\ Distinct(received'[s])
      BY <1>3, <2>1, <3>2, <3>3, Appended DEF SessionOK
    <3>5. QED BY <1>5, <1>6, <1>7, <2>1, <3>1, <3>3, <3>4, Zenon DEF SessionOK
  <2>3. CASE s \notin written
    <3>1. received'[s] = received[s]
      BY <1>4, <2>3, Zenon
    <3>2. QED BY <1>5, <1>7, <2>1, <3>1, Zenon DEF SessionOK
  <2>4. QED BY <2>2, <2>3, Zenon
<1>10. OnItsWay(i)
  BY <1>6, Zenon DEF OnItsWay
<1>11. \A n : OnItsWay(n)' => OnItsWay(n)
  BY <1>7, <1>9, <1>10, Zenon DEF OnItsWay
<1>12. WaitOK'
  BY <1>1, <1>5, <1>11, Zenon DEF WaitOK
<1>13. PushingOK'
  BY <1>1, <1>5, <1>11, Zenon DEF PushingOK, Pushing
<1>14. QED BY <1>8, <1>9, <1>12, <1>13, PushPartsNext, Zenon

\* A server that stops loses what was on its way to it.
LEMMA ServerStep ==
  ASSUME PushInv, PushTypeOK, UNCHANGED jobs, NEW server \in Servers, ServerRestarts(server)
  PROVE  PushInv'
<1>1. /\ \A srv \in Servers : ChannelOK(srv)
      /\ \A s \in Sessions : SessionOK(s)
      /\ WaitOK /\ PushingOK
  BY PushParts, Zenon
<1>2. /\ channel'[server] = <<>>
      /\ \A srv \in Servers : srv # server => channel'[srv] = channel[srv]
      /\ UNCHANGED <<docs, publishing, received>>
  BY Zenon DEF ServerRestarts, PushTypeOK
<1>3. \A srv \in Servers : /\ Distinct(channel'[srv])
                           /\ Values(channel'[srv]) \subseteq Values(channel[srv])
  <2>1. Distinct(<<>>) /\ Values(<<>>) = {}
    BY DEF Distinct, Values
  <2>2. QED BY <1>1, <1>2, <2>1, Zenon DEF ChannelOK
<1>4. \A srv \in Servers : ChannelOK(srv)'
  BY <1>1, <1>2, <1>3, Zenon DEF ChannelOK
<1>5. ASSUME NEW s \in Sessions
      PROVE  SessionOK(s)'
  <2>1. ServerOf[s] \in Servers /\ SessionOK(s)
    BY <1>1, NotificationAssumption, Zenon
  <2>2. Values(channel'[ServerOf[s]]) \subseteq Values(channel[ServerOf[s]])
    BY <1>3, <2>1, Zenon
  <2>3. QED BY <1>2, <2>1, <2>2, Zenon DEF SessionOK
<1>6. \A n : OnItsWay(n)' => OnItsWay(n)
  BY <1>2, <1>3, Zenon DEF OnItsWay
<1>7. WaitOK'
  BY <1>1, <1>2, <1>6, Zenon DEF WaitOK
<1>8. PushingOK'
  BY <1>1, <1>2, <1>6, Zenon DEF PushingOK, Pushing
<1>9. QED BY <1>4, <1>5, <1>7, <1>8, PushPartsNext, Zenon

\* A goroutine that does not begin to publish.
LEMMA PutGoesOn ==
  ASSUME QueueTypeOK, NEW p \in Processes, NEW q \in Queues, NEW new \in JobRows, PutJob(p, q, new),
         new.pc # "publish" \/ (new.pc = jobs[p][q].pc /\ new.msg = jobs[p][q].msg)
  PROVE  \A r \in Processes : GoesOn(r)
<1>1. /\ jobs'[p][q] = new
      /\ \A r \in Processes, s \in Queues : r # p \/ s # q => jobs'[r][s] = jobs[r][s]
  BY JobPut
<1>2. QED BY <1>1, Routes, Zenon DEF GoesOn, Pushing

\* Goto, EndJob and a failed attempt are such steps.
LEMMA QuietJobs ==
  ASSUME QueueTypeOK, NEW p \in Processes, NEW q \in Queues,
         \/ \E pc \in {"get", "set", "handle", "ack", "post"} : Goto(p, q, pc)
         \/ EndJob(p, q)
         \/ jobs[p][q].tries < MaxTries /\ PutJob(p, q, Failed(jobs[p][q]))
  PROVE  \A r \in Processes : GoesOn(r)
<1>1. PICK job \in JobRows : job = jobs[p][q]
  BY Zenon DEF QueueTypeOK
<1>2. ASSUME NEW pc \in {"get", "set", "handle", "ack", "post"}, Goto(p, q, pc)
      PROVE  \A r \in Processes : GoesOn(r)
  <2>1. PICK new \in JobRows : new = At(job, pc) /\ new.pc = pc
    BY JobAt
  <2>2. PutJob(p, q, new)
    BY <1>1, <1>2, <2>1, Zenon DEF Goto
  <2>3. QED BY <2>1, <2>2, PutGoesOn, Zenon
<1>3. CASE EndJob(p, q)
  BY <1>3, NewJobs, PutGoesOn, Zenon DEF EndJob
<1>4. CASE jobs[p][q].tries < MaxTries /\ PutJob(p, q, Failed(jobs[p][q]))
  <2>1. PICK new \in JobRows : new = Failed(job) /\ new.pc = job.pc /\ new.msg = job.msg
    <3>1. job.tries \in 0 .. MaxTries /\ job.tries < MaxTries /\ MaxTries \in Nat
      BY <1>1, <1>4, RoutingAssumption, Zenon DEF JobRows
    <3>2. job.tries + 1 \in 0 .. MaxTries
      BY <3>1
    <3>3. Failed(job) \in JobRows /\ Failed(job).pc = job.pc /\ Failed(job).msg = job.msg
      BY <3>2, Zenon DEF JobRows, Failed
    <3>4. QED BY <3>3, Zenon
  <2>2. PutJob(p, q, new)
    BY <1>1, <1>4, <2>1, Zenon
  <2>3. QED BY <1>1, <2>1, <2>2, PutGoesOn, Zenon
<1>5. QED BY <1>2, <1>3, <1>4, Zenon

\* No step of the queue alone begins to publish.
LEMMA QueueGoesOn ==
  ASSUME QueueTypeOK, QueueInv,
         \/ QueueSteps
         \/ \E p \in Processes, q \in Queues :
              Claim(p, q) \/ Conclude(p, q) \/ HandlerFails(p, q) \/ HandlerSucceeds(p, q)
  PROVE  \A r \in Processes : GoesOn(r)
<1>1. ASSUME NEW m \in Messages, Send(m) \/ BrokerRefuses(m)
      PROVE  \A r \in Processes : GoesOn(r)
  BY <1>1, Zenon DEF Send, BrokerRefuses, GoesOn, Pushing
<1>2. ASSUME NEW p \in Processes, NEW q \in Queues, NEW m \in Messages, Deliver(p, q, m)
      PROVE  \A r \in Processes : GoesOn(r)
  BY <1>2, NewJobs, PutGoesOn, Zenon DEF Deliver
<1>3. ASSUME NEW p \in Processes, ConnectionLost(p)
      PROVE  \A r \in Processes : GoesOn(r)
  <2>1. jobs' = [jobs EXCEPT ![p] = [q \in Queues |-> CutOff(jobs[p][q])]]
    BY <1>3, Zenon DEF ConnectionLost
  <2>2. \A r \in Processes \ {p} : jobs'[r] = jobs[r]
    BY <2>1, Zenon DEF QueueTypeOK
  <2>3. jobs'[p][Q] = CutOff(jobs[p][Q]) /\ jobs[p][Q] \in JobRows
    BY <2>1, Routes DEF QueueTypeOK
  <2>4. jobs'[p][Q].pc = jobs[p][Q].pc /\ jobs'[p][Q].msg = jobs[p][Q].msg
    <3>1. PICK job \in JobRows : job = jobs[p][Q]
      BY <2>3, Zenon
    <3>2. CutOff(job).pc = job.pc /\ CutOff(job).msg = job.msg
      BY Zenon DEF CutOff, JobRows
    <3>3. QED BY <2>3, <3>1, <3>2, Zenon
  <2>5. QED BY <2>2, <2>4, Zenon DEF GoesOn, Pushing
<1>4. ASSUME NEW p \in Processes, Restart(p)
      PROVE  \A r \in Processes : GoesOn(r)
  <2>1. jobs' = [jobs EXCEPT ![p] = [q \in Queues |-> Idle]]
    BY <1>4, Zenon DEF Restart
  <2>2. (\A r \in Processes \ {p} : jobs'[r] = jobs[r]) /\ jobs'[p][Q] = Idle
    BY <2>1, Routes, Zenon DEF QueueTypeOK
  <2>3. QED BY <2>2, NewJobs, Zenon DEF GoesOn, Pushing
<1>5. ASSUME NEW m \in Messages, NEW x \in KeyPrefixes, KeyExpires(m, x)
      PROVE  \A r \in Processes : GoesOn(r)
  BY <1>5, Zenon DEF KeyExpires, GoesOn, Pushing
<1>6. ASSUME NEW p \in Processes, NEW q \in Queues,
             Claim(p, q) \/ Conclude(p, q) \/ HandlerFails(p, q) \/ HandlerSucceeds(p, q)
      PROVE  \A r \in Processes : GoesOn(r)
  <2>1. \/ \E pc \in {"get", "set", "handle", "ack", "post"} : Goto(p, q, pc)
        \/ EndJob(p, q)
        \/ jobs[p][q].tries < MaxTries /\ PutJob(p, q, Failed(jobs[p][q]))
    BY <1>6, Zenon DEF Claim, Conclude, GetKey, GetKeyFails, SetIng, SetIngFails, Begin, Ack,
       setDedupDone, setDedupDoneFails, Nack, HandlerFails, HandlerSucceeds, Trying
  <2>2. QED BY <2>1, QuietJobs, Zenon
<1>7. QED BY <1>1, <1>2, <1>3, <1>4, <1>5, <1>6, Zenon DEF QueueSteps, Fault

\* CreateLegacy publishes what it inserted, once.
LEMMA CreateLegacyPush ==
  ASSUME QueueTypeOK, QueueInv, docs \in Seq(Rows), Len(docs) <= MaxDocs, PushTypeOK,
         StoredOnce, PushInv, DocsKept, NEW p \in Processes, CreateLegacy(p)
  PROVE  PushInv'
<1>0. jobs[p][Q].pc \in {"handle", "publish"} /\ Q \in Queues
  BY Routes, Zenon DEF CreateLegacy, CreateLegacyInsert, CreateLegacyInsertUnanswered,
     CreateLegacyDuplicate, CreateLegacyPublish, Trying
<1>1. PICK k \in Messages : k = jobs[p][Q].msg
  BY <1>0, AtWork, Zenon
<1>2. CASE CreateLegacyInsert(p)
  <2>1. PICK d \in Rows : d = Event(k) /\ d.event = k
    BY NewDocuments, Zenon
  <2>2. Insert(d) /\ Goto(p, Q, "publish") /\ UNCHANGED <<publishing, channel, received>>
    BY <1>1, <1>2, <2>1, Zenon DEF CreateLegacyInsert
  <2>3. ~Stored(k)
    BY <2>1, <2>2, PipelineAssumption, Zenon DEF Insert, DuplicateEvent, Stored
  <2>4. PICK job \in JobRows : job = jobs[p][Q]
    BY <1>0, Zenon DEF QueueTypeOK
  <2>5. PICK new \in JobRows : new = At(job, "publish") /\ new.msg = job.msg
    BY JobAt
  <2>6. PutJob(p, Q, new)
    BY <2>2, <2>4, <2>5, Zenon DEF Goto
  <2>7. /\ jobs'[p][Q] = new
        /\ \A r \in Processes : r # p => jobs'[r][Q] = jobs[r][Q]
    BY <1>0, <2>6, JobPut
  <2>8. \A r \in Processes : r # p => GoesOn(r)
    BY <2>7, Zenon DEF GoesOn, Pushing
  <2>9. jobs'[p][Q].msg \in Messages /\ ~Stored(jobs'[p][Q].msg)
    BY <1>1, <2>3, <2>4, <2>5, <2>7, Zenon
  <2>10. QED BY <2>2, <2>8, <2>9, PushFrame, Zenon
<1>3. CASE CreateLegacyInsertUnanswered(p)
  <2>1. \A r \in Processes : GoesOn(r)
    BY <1>0, <1>3, QuietJobs, Zenon DEF CreateLegacyInsertUnanswered, Trying
  <2>2. UNCHANGED <<publishing, channel, received>>
    BY <1>3, Zenon DEF CreateLegacyInsertUnanswered
  <2>3. QED BY <2>1, <2>2, PushFrame, Zenon
<1>4. CASE CreateLegacyDuplicate(p)
  <2>1. \A r \in Processes : GoesOn(r)
    BY <1>0, <1>4, QuietJobs, Zenon DEF CreateLegacyDuplicate, ReturnDuplicate
  <2>2. UNCHANGED <<publishing, channel, received>>
    BY <1>4, Zenon DEF CreateLegacyDuplicate, nVars
  <2>3. QED BY <2>1, <2>2, PushFrame, Zenon
<1>5. CASE CreateLegacyPublish(p)
  <2>1. /\ Pushing(p) /\ Goto(p, Q, "ack")
        /\ \/ \E i \in DOMAIN docs : docs[i].event = k /\ Publish(i)
           \/ UNCHANGED channel
        /\ UNCHANGED <<docs, publishing, received>>
    BY <1>1, <1>5, Zenon DEF CreateLegacyPublish, Pushing
  <2>2. \A r \in Processes : GoesOn(r)
    BY <1>0, <2>1, QuietJobs, Zenon
  <2>3. CASE UNCHANGED channel
    BY <2>1, <2>2, <2>3, PushFrame, Zenon
  <2>4. ASSUME NEW i \in DOMAIN docs, docs[i].event = k, Publish(i)
        PROVE  PushInv'
    <3>1. WaitOK /\ PushingOK
      BY PushParts, Zenon
    <3>2. i \in Indexes
      BY NotificationAssumption DEF Indexes
    <3>3. ~OnItsWay(i)
      BY <1>1, <2>1, <2>4, <3>1, Zenon DEF PushingOK
    <3>4. i \notin publishing
      BY <2>4, <3>1, PipelineAssumption, Zenon DEF WaitOK
    <3>5. PICK new \in JobRows : new.pc = "ack" /\ new = At(jobs[p][Q], "ack")
      <4>1. jobs[p][Q] \in JobRows
        BY <1>0, Zenon DEF QueueTypeOK
      <4>2. QED BY <4>1, JobAt
    <3>6. ~Pushing(p)'
      BY <1>0, <2>1, <3>5, JobPut, Zenon DEF Goto, Pushing
    <3>7. \A r \in Processes : Pushing(r)' => docs[i].event # jobs[r][Q].msg
      BY <1>1, <2>1, <2>2, <2>4, <3>1, <3>6, Zenon DEF GoesOn, PushingOK
    <3>8. QED BY <2>1, <2>2, <2>4, <3>2, <3>3, <3>4, <3>7, PushOut, Zenon
  <2>5. QED BY <2>1, <2>3, <2>4, Zenon
<1>6. QED BY <1>2, <1>3, <1>4, <1>5, Zenon DEF CreateLegacy

\* The notification service publishes what it created, once.
LEMMA NNextPush ==
  ASSUME QueueTypeOK, QueueInv, docs \in Seq(Rows), Len(docs) <= MaxDocs, PushTypeOK,
         StoredOnce, PushInv, DocsKept, UNCHANGED mqVars, NNext
  PROVE  PushInv'
<1>1. UNCHANGED jobs /\ \A r \in Processes : GoesOn(r)
  BY Zenon DEF mqVars, GoesOn, Pushing
<1>2. ASSUME NEW r \in Notified, NEW c \in Categories, NEW t \in Types, NEW at \in Times,
             Create(r, c, t, at)
      PROVE  PushInv'
  <2>1. PICK d \in Rows : d = Document(Nobody, r, c, t, at) /\ d.event = Nobody
    BY NotificationAssumption, NewDocuments
  <2>2. Insert(d) /\ publishing' = publishing \cup {Len(docs) + 1} /\ UNCHANGED <<channel, received>>
    BY <1>2, <2>1, Zenon DEF Create
  <2>3. /\ Len(docs) + 1 \in DOMAIN docs' /\ Len(docs) + 1 \notin DOMAIN docs
        /\ docs'[Len(docs) + 1] = d
    BY <2>2, Inserted, Zenon
  <2>4. QED BY <1>1, <2>1, <2>2, <2>3, PushFrame, Zenon
<1>3. ASSUME NEW i \in publishing, PublishCreated(i)
      PROVE  PushInv'
  <2>1. i \in DOMAIN docs /\ docs[i].event = Nobody /\ ~OnItsWay(i) /\ i \in Indexes
    BY PushParts, Zenon DEF WaitOK, PushTypeOK
  <2>2. Publish(i) /\ publishing' = publishing \ {i} /\ UNCHANGED <<docs, received>>
    BY <1>3, Zenon DEF PublishCreated
  <2>3. \A p \in Processes : Pushing(p)' => jobs[p][Q].msg \in Messages
    BY <1>1, AtWork, Routes, Zenon DEF Pushing
  <2>4. QED BY <1>1, <2>1, <2>2, <2>3, PipelineAssumption, PushOut, Zenon
<1>4. ASSUME UNCHANGED <<channel, received>>, publishing' \subseteq publishing
      PROVE  PushInv'
  BY <1>1, <1>4, PushFrame, Zenon
<1>5. ASSUME NEW server \in Servers, Broadcast(server) \/ ServerRestarts(server)
      PROVE  PushInv'
  BY <1>1, <1>5, BroadcastStep, ServerStep, Zenon
<1>6. \/ \E r \in Notified, c \in Categories, t \in Types, at \in Times : Create(r, c, t, at)
      \/ \E i \in publishing : PublishCreated(i)
      \/ UNCHANGED <<channel, received>> /\ publishing' \subseteq publishing
      \/ \E server \in Servers : Broadcast(server) \/ ServerRestarts(server)
  BY Zenon DEF NNext, PublishCreatedFails, MarkOneRead, MarkRead, MarkAllRead, ListLegacy,
     MarkLatestLegacyRead, HubAdd, HubRemove
<1>7. QED BY <1>2, <1>3, <1>4, <1>5, <1>6, Zenon

\* Every step keeps the invariant of what is pushed.
LEMMA PushNext ==
  ASSUME PipelineInv, [Next]_vars
  PROVE  PushInv'
<1>1. /\ docs \in Seq(Rows) /\ Len(docs) <= MaxDocs /\ PushTypeOK /\ QueueTypeOK /\ QueueInv
      /\ StoredOnce /\ PushInv /\ DocsKept
  BY TypeParts, NTypeParts, DocsNext, Zenon DEF PipelineInv
<1>2. CASE UNCHANGED vars
  <2>1. UNCHANGED <<channel, received, publishing>> /\ \A r \in Processes : GoesOn(r)
    BY <1>2, Zenon DEF vars, mqVars, nVars, GoesOn, Pushing
  <2>2. QED BY <1>1, <2>1, PushFrame, Zenon
<1>3. CASE NNext /\ UNCHANGED mqVars
  BY <1>1, <1>3, NNextPush, Zenon
<1>4. ASSUME NEW p \in Processes, CreateLegacy(p)
      PROVE  PushInv'
  BY <1>1, <1>4, CreateLegacyPush, Zenon
<1>5. ASSUME UNCHANGED nVars,
             \/ QueueSteps
             \/ \E p \in Processes, q \in Queues :
                  Claim(p, q) \/ Conclude(p, q) \/ HandlerFails(p, q) \/ HandlerSucceeds(p, q)
      PROVE  PushInv'
  <2>1. UNCHANGED <<channel, received, publishing>> /\ \A r \in Processes : GoesOn(r)
    BY <1>1, <1>5, QueueGoesOn, Zenon DEF nVars
  <2>2. QED BY <1>1, <2>1, PushFrame, Zenon
<1>6. QED BY <1>2, <1>3, <1>4, <1>5, Zenon DEF Next, Work, Handle

----------------------------------------------------------------------------
(* The invariant and what follows from it *)

\* A sequence over a set is one over every larger set.
LEMMA SeqMonotone ==
  ASSUME NEW S, NEW T, S \subseteq T, NEW f \in Seq(S)
  PROVE  f \in Seq(T)
OBVIOUS

\* The invariant holds when the processes start.
LEMMA InitInv == Init => PipelineInv
<1> SUFFICES ASSUME Init PROVE PipelineInv
  OBVIOUS
<1>1. docs = LegacyDocs /\ LegacyDocs \in Seq(DocumentRows({Nobody})) /\ Len(LegacyDocs) <= MaxDocs
  BY NotificationAssumption, Zenon DEF Init, NInit
<1>2. DocumentRows({Nobody}) \subseteq Rows
  BY Zenon DEF Rows, DocumentRows
<1>3. docs \in Seq(Rows)
  BY <1>1, <1>2, SeqMonotone, Zenon
<1>4. \A i \in DOMAIN docs : docs[i].event = Nobody
  <2>1. \A d \in DocumentRows({Nobody}) : d.event = Nobody
    BY Zenon DEF DocumentRows
  <2>2. QED BY <1>1, <2>1
<1>5. StoredOnce
  BY <1>4, Zenon DEF StoredOnce
<1>6. PushTypeOK
  BY DEF Init, NInit, PushTypeOK
<1>7. QueueTypeOK
  BY NewJobs DEF Init, MQInit, QueueTypeOK, Many
<1>8. \A p \in Processes, q \in Queues : jobs[p][q] = Idle
  BY Zenon DEF Init, MQInit
<1>9. \A p \in Processes, q \in Queues : JobOK(p, q, jobs[p][q])
  BY <1>8, NewJobs DEF JobOK, OpenPCs, BusyPCs
<1>10. ASSUME NEW m \in Messages
       PROVE  MessageOK(m)
  <2>1. /\ queue[m] = None /\ started[m] = 0 /\ m \notin sent /\ m \notin done
        /\ \A x \in KeyPrefixes : dedup[m][x] = "none"
    BY Zenon DEF Init, MQInit
  <2>2. QED BY <2>1 DEF MessageOK
<1>11. \A p \in Processes : jobs[p][Q].pc # "publish"
  BY <1>8, NewJobs, Routes, Zenon
<1>12. PushInv
  <2>1. /\ \A s \in Servers : channel[s] = <<>>
        /\ \A s \in Sessions : received[s] = <<>>
        /\ publishing = {}
    BY Zenon DEF Init, NInit
  <2>2. Distinct(<<>>) /\ Values(<<>>) = {}
    BY DEF Distinct, Values
  <2>3. QED BY <1>11, <2>1, <2>2, Zenon DEF PushInv
<1>13. QED BY <1>1, <1>3, <1>5, <1>6, <1>7, <1>9, <1>10, <1>12, TypeParts, NTypeParts, Zenon
          DEF PipelineInv, QueueInv

\* PipelineInv is an invariant of the consumers, the broker and the notification
\* service together: keys, deliveries, jobs and documents agree after every step.
THEOREM PipelineInvariant == Spec => []PipelineInv
<1>1. ASSUME PipelineInv, [Next]_vars
      PROVE  PipelineInv'
  <2>1. QueueTypeOK' /\ QueueInv'
    BY <1>1, QueueNext, Zenon
  <2>2. docs' \in Seq(Rows) /\ Len(docs') <= MaxDocs /\ PushTypeOK' /\ StoredOnce'
    BY <1>1, DocsNext, Zenon
  <2>3. PushInv'
    BY <1>1, PushNext, Zenon
  <2>4. TypeOK'
    BY <2>1, <2>2, Zenon DEF TypeOK, NTypeOK, QueueTypeOK, PushTypeOK, Rows
  <2>5. QED BY <2>1, <2>2, <2>3, <2>4, Zenon DEF PipelineInv
<1>2. QED BY <1>1, InitInv, PTL DEF Spec

\* The types hold, and a handler is tried at most MaxTries times.
THEOREM PipelineTypes == Spec => []TypeOK
<1>1. PipelineInv => TypeOK
  BY Zenon DEF PipelineInv
<1>2. QED BY <1>1, PipelineInvariant, PTL

\* A handler is begun twice only for a message whose key could not protect it
\* (HandleWithDedup).
THEOREM BegunOnce == Spec => []TwiceOnlyIfExposed
<1>1. PipelineInv => TwiceOnlyIfExposed
  <2> SUFFICES ASSUME PipelineInv, NEW m \in Messages, started[m] > 1, m \notin exposed
               PROVE  FALSE
    BY Zenon DEF TwiceOnlyIfExposed
  <2>1. started[m] \in Nat /\ started[m] <= 1
    BY DEF PipelineInv, QueueInv, MessageOK, TypeOK, Many
  <2>2. QED BY <2>1
<1>2. QED BY <1>1, PipelineInvariant, PTL

\* A social notification that was handled is stored (CreateLegacy).
THEOREM HandledStored == Spec => []HandledIsStored
<1>1. PipelineInv => HandledIsStored
  BY Zenon DEF PipelineInv, QueueInv, MessageOK, TypeOK, HandledIsStored, Stored
<1>2. QED BY <1>1, PipelineInvariant, PTL

\* An event has one document (the unique index on event_id, Insert).
THEOREM EventsStoredOnce == Spec => []StoredOnce
<1>1. PipelineInv => StoredOnce
  BY Zenon DEF PipelineInv
<1>2. QED BY <1>1, PipelineInvariant, PTL

\* A session is sent documents of its own account, each once (CreateLegacy,
\* Create and the subscriber's Broadcast).
THEOREM DocumentsPushedOnce == Spec => []PushedOnce
<1>1. PipelineInv => PushedOnce
  <2> SUFFICES ASSUME PipelineInv, NEW s \in Sessions,
                      NEW m \in DOMAIN received[s], NEW n \in DOMAIN received[s]
               PROVE  /\ docs[received[s][m]].root = OwnerOf[s]
                      /\ m # n => /\ received[s][m] # received[s][n]
                                  /\ \/ docs[received[s][m]].event = Nobody
                                     \/ docs[received[s][m]].event # docs[received[s][n]].event
    BY Zenon DEF PushedOnce
  <2>1. SessionOK(s) /\ StoredOnce
    BY PushParts, Zenon DEF PipelineInv
  <2>2. received[s][m] \in Values(received[s]) /\ received[s][n] \in Values(received[s])
    BY Zenon DEF Values
  <2>3. received[s][m] \in DOMAIN docs /\ received[s][n] \in DOMAIN docs
    BY <2>1, <2>2, Zenon DEF SessionOK
  <2>4. m # n => received[s][m] # received[s][n]
    BY <2>1, Zenon DEF SessionOK, Distinct
  <2>5. QED BY <2>1, <2>2, <2>3, <2>4, Zenon DEF SessionOK, StoredOnce
<1>2. QED BY <1>1, PipelineInvariant, PTL

\* A message that has left the broker was handled, logged, is being worked on, or
\* was cut off by a fault, unless its queue shares the prefix of the dead letters
\* (HandleWithDedup, the dead-letter consumer).
THEOREM NoMessageLost == Spec => []NoSilentLoss
<1>1. PipelineInv => NoSilentLoss
  <2> SUFFICES ASSUME PipelineInv, NEW m \in sent, queue[m] = None,
                      dedupPrefix(QueueOf[m]) # dedupPrefix(Die)
               PROVE  \/ m \in done \cup recorded \cup cut
                      \/ \E p \in Processes : m \in {j.msg : j \in JobsOf(p)}
    BY Zenon DEF NoSilentLoss
  <2>1. m \in Messages
    BY Zenon DEF PipelineInv, TypeOK
  <2>2. Cared(m)
    BY <2>1, Zenon DEF PipelineInv, QueueInv, MessageOK, KeyOf
  <2>3. CASE Ended(m)
    BY <2>3, Zenon DEF Ended
  <2>4. CASE Busy(m)
    <3>1. PICK p \in Processes, q \in Queues : jobs[p][q].msg = m
      BY <2>4, Zenon DEF Busy
    <3>2. m \in {j.msg : j \in JobsOf(p)}
      BY <3>1, Zenon DEF JobsOf
    <3>3. QED BY <3>2, Zenon
  <2>5. QED BY <2>2, <2>3, <2>4, Zenon DEF Cared
<1>2. QED BY <1>1, PipelineInvariant, PTL

\* Documents have no main account, or that of their receiver.
Addressed == \A i \in DOMAIN docs : OwnRoot(docs[i])

\* Every document is addressed so (Document, and the legacy documents).
LEMMA AddressedInvariant == Spec => []Addressed
<1>1. Init => Addressed
  BY NotificationAssumption, Zenon DEF Init, NInit, Addressed, OwnRoot
<1>2. ASSUME Addressed, PipelineInv, [Next]_vars
      PROVE  Addressed'
  <2>1. DocsChange /\ docs \in Seq(Rows) /\ Len(docs) <= MaxDocs
    BY <1>2, DocsNext, TypeParts, NTypeParts, Zenon DEF PipelineInv
  <2>2. CASE UNCHANGED docs
    BY <1>2, <2>2, Zenon DEF Addressed
  <2>3. ASSUME NEW d \in Rows, OwnRoot(d), Insert(d)
        PROVE  Addressed'
    <3>1. /\ DOMAIN docs' = DOMAIN docs \cup {Len(docs) + 1}
          /\ \A i \in DOMAIN docs : docs'[i] = docs[i]
          /\ docs'[Len(docs) + 1] = d
      BY <2>1, <2>3, Inserted, Zenon
    <3>2. QED BY <1>2, <2>3, <3>1, Zenon DEF Addressed
  <2>4. ASSUME NEW I \in SUBSET DOMAIN docs, SetRead(I)
        PROVE  Addressed'
    <3>1. /\ DOMAIN docs' = DOMAIN docs
          /\ \A i \in DOMAIN docs : /\ docs'[i].root = docs[i].root
                                    /\ docs'[i].receiver = docs[i].receiver
      BY <2>1, <2>4, MarkedRead, Zenon
    <3>2. QED BY <1>2, <3>1, Zenon DEF Addressed, OwnRoot
  <2>5. QED BY <2>1, <2>2, <2>3, <2>4, Zenon DEF DocsChange
<1>3. QED BY <1>1, <1>2, PipelineInvariant, PTL DEF Spec

\* The unread documents of account r in category c.
Unread(r, c) == {i \in Visible(r) : ~docs[i].read /\ categoryFilter(c, docs[i])}

\* UnreadCategories groups by category as MarkRead filters.
LEMMA Grouping ==
  ASSUME NEW r \in Roots, NEW c \in Categories
  PROVE  UnreadCount(r, c) = Cardinality(Unread(r, c))
<1>1. ASSUME NEW i \in Visible(r)
      PROVE  ((IF docs[i].category = Nobody THEN "social" ELSE docs[i].category) = c)
               <=> categoryFilter(c, docs[i])
  <2>1. c # Nobody
    BY NotificationAssumption, Zenon
  <2>2. QED BY <2>1, Zenon DEF categoryFilter
<1>2. {i \in Visible(r) : ~docs[i].read /\
         (IF docs[i].category = Nobody THEN "social" ELSE docs[i].category) = c} = Unread(r, c)
  BY <1>1, Zenon DEF Unread
<1>3. QED BY <1>2, Zenon DEF UnreadCount

\* The same after a step.
LEMMA GroupingNext ==
  ASSUME NEW r \in Roots, NEW c \in Categories
  PROVE  UnreadCount(r, c)' = Cardinality(Unread(r, c)')
<1>1. ASSUME NEW i \in Visible(r)'
      PROVE  ((IF docs'[i].category = Nobody THEN "social" ELSE docs'[i].category) = c)
               <=> categoryFilter(c, docs'[i])
  <2>1. c # Nobody
    BY NotificationAssumption, Zenon
  <2>2. QED BY <2>1, Zenon DEF categoryFilter
<1>2. {i \in Visible(r)' : ~docs'[i].read /\
         (IF docs'[i].category = Nobody THEN "social" ELSE docs'[i].category) = c} = Unread(r, c)'
  BY <1>1, Zenon DEF Unread, categoryFilter
<1>3. QED BY <1>2, Zenon DEF UnreadCount

\* Nothing is left to count in an empty category.
LEMMA NothingUnread == Cardinality({}) = 0
<1>1. \E g : g = [T \in SUBSET {} |-> IF T = {} THEN 0 ELSE 1 + g[T \ {CHOOSE x : x \in T}]]
  <2>1. PICK h : h = [T \in SUBSET {} |-> 0]
    BY Zenon
  <2>2. \A T \in SUBSET {} : T = {}
    OBVIOUS
  <2>3. h = [T \in SUBSET {} |-> IF T = {} THEN 0 ELSE 1 + h[T \ {CHOOSE x : x \in T}]]
    BY <2>1, <2>2
  <2>4. QED BY <2>3
<1> DEFINE f == CHOOSE g : g = [T \in SUBSET {} |->
                                  IF T = {} THEN 0 ELSE 1 + g[T \ {CHOOSE x : x \in T}]]
<1>2. f = [T \in SUBSET {} |-> IF T = {} THEN 0 ELSE 1 + f[T \ {CHOOSE x : x \in T}]]
  BY <1>1, Zenon
<1>3. Cardinality({}) = f[{}]
  BY DEF Cardinality
<1> HIDE DEF f
<1>4. QED BY <1>2, <1>3

\* MarkRead empties its category and leaves every other as it is.
LEMMA ReadExactly ==
  ASSUME docs \in Seq(Rows), Addressed, NEW r \in Roots, NEW c \in Categories, MarkRead(r, c),
         NEW s \in Roots, NEW k \in Categories
  PROVE  UnreadCount(s, k)' = IF s = r /\ k = c THEN 0 ELSE UnreadCount(s, k)
<1>1. PICK I : I = Unread(r, c)
  OBVIOUS
<1>2. SetRead(I)
  BY <1>1, Zenon DEF MarkRead, Unread
<1>3. /\ DOMAIN docs' = DOMAIN docs
      /\ \A i \in DOMAIN docs :
           /\ docs'[i].root = docs[i].root /\ docs'[i].receiver = docs[i].receiver
           /\ docs'[i].category = docs[i].category
           /\ docs'[i].read = (i \in I \/ docs[i].read)
  BY <1>2, MarkedRead, Zenon
<1>4. Visible(s)' = Visible(s)
  BY <1>3, Zenon DEF Visible, receiverFilter
<1>5. Unread(s, k)' = Unread(s, k) \ I
  <2>1. \A i \in DOMAIN docs : categoryFilter(k, docs[i])' <=> categoryFilter(k, docs[i])
    BY <1>3, Zenon DEF categoryFilter
  <2>2. \A i \in Visible(s) : i \in DOMAIN docs
    BY Zenon DEF Visible
  <2>3. QED BY <1>3, <1>4, <2>1, <2>2, Zenon DEF Unread
<1>6. CASE s = r /\ k = c
  <2>1. Unread(s, k)' = {}
    BY <1>1, <1>5, <1>6, Zenon
  <2>2. UnreadCount(s, k)' = Cardinality(Unread(s, k)')
    BY GroupingNext
  <2>3. Cardinality(Unread(s, k)') = 0
    BY <2>1, NothingUnread
  <2>4. QED BY <1>6, <2>2, <2>3
<1>7. CASE ~(s = r /\ k = c)
  <2>1. ASSUME NEW i \in Unread(s, k), i \in I
        PROVE  FALSE
    <3>1. PICK d \in Rows : d = docs[i]
      BY DEF Unread, Visible
    <3>2. i \in DOMAIN docs /\ OwnRoot(d)
      BY <3>1, Zenon DEF Unread, Visible, Addressed
    <3>3. /\ receiverFilter(s, d) /\ categoryFilter(k, d)
          /\ receiverFilter(r, d) /\ categoryFilter(c, d)
      BY <1>1, <2>1, <3>1, Zenon DEF Unread, Visible
    <3>4. Nobody \notin Roots /\ Nobody \notin Categories
      BY NotificationAssumption, Zenon DEF Roots
    <3>5. s = RootOf[d.receiver] /\ r = RootOf[d.receiver]
      BY <3>2, <3>3, <3>4, Zenon DEF OwnRoot, receiverFilter, identityIDs
    <3>6. k = c
      BY <3>3, <3>4 DEF categoryFilter
    <3>7. QED BY <1>7, <3>5, <3>6, Zenon
  <2>2. Unread(s, k)' = Unread(s, k)
    BY <1>5, <2>1, Zenon
  <2>3. QED BY <1>7, <2>2, Grouping, GroupingNext, Zenon
<1>8. QED BY <1>6, <1>7, Zenon

\* Marking a category read empties its unread count and no other (MarkRead and
\* UnreadCategories).
THEOREM MarkReadExact == Spec => MarkReadIsExact
<1>1. ASSUME PipelineInv, Addressed, [Next]_vars
      PROVE  [docs' # docs => \A r \in Roots, c \in Categories : MarkRead(r, c) =>
                \A s \in Roots, k \in Categories :
                  UnreadCount(s, k)' = IF s = r /\ k = c THEN 0 ELSE UnreadCount(s, k)]_nVars
  <2>1. docs \in Seq(Rows)
    BY <1>1, TypeParts, NTypeParts, Zenon DEF PipelineInv
  <2>2. \A r \in Roots, c \in Categories : MarkRead(r, c) =>
          \A s \in Roots, k \in Categories :
            UnreadCount(s, k)' = IF s = r /\ k = c THEN 0 ELSE UnreadCount(s, k)
    BY <1>1, <2>1, ReadExactly, Zenon
  <2>3. QED BY <2>2, Zenon
<1>2. QED BY <1>1, PipelineInvariant, AddressedInvariant, PTL DEF Spec, MarkReadIsExact
===============================================================================
