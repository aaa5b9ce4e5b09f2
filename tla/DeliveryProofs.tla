---------------------------- MODULE DeliveryProofs ----------------------------
(***************************************************************************)
(* Proofs about Delivery.                                                  *)
(***************************************************************************)
EXTENDS Delivery, TLAPS

Steps == {"none", "detect", "verify", "publish", "wait", "end"}
Publishing == {"merge", "list", "write", "read", "record", "done", "failed"}
Waiting == {"wait", "stable", "fail", "failed", "done"}
Revisions == 1..head \cup {NoRevision}
Pushed == Diffs \cup {<<>>, ValuesChange}

Builds == [step : Steps, push : Nat, commit : Nat, affected : SUBSET Services,
           builds : SUBSET Services, done : SUBSET Services]

\* The shapes of the variables, and what the branches of a stage may be at.
Shapes ==
  /\ pushes \in Seq(Pushed) /\ pushes # <<>> /\ pushes[1] = <<>> /\ queue \in Seq(Nat)
  /\ build \in Builds
  /\ build.builds \subseteq build.affected /\ build.done \subseteq build.affected
  /\ At("detect") => build.done = {}
  /\ branch \in [Services -> Publishing \cup Waiting]
  /\ values \in [Services -> Nat] /\ stable \in [Services -> Nat]
  /\ open \subseteq [service : Services, commit : Nat, over : Nat]
  /\ cluster \in [Services -> [image : Nat, rev : Nat]]

\* Revisions are revisions of main.
Heads ==
  /\ head \in Nat /\ 1 <= head /\ headFile \in Revisions
  /\ listed \in [Services -> Revisions] /\ configRev \in [Services -> Revisions]

\* Only the services to build have something to do in the parallel stages.
Branches ==
  \A s \in Services :
    /\ At("publish") => branch[s] \in (IF s \in build.builds THEN Publishing ELSE {"done"})
    /\ At("wait") => branch[s] \in (IF s \in build.builds THEN Waiting ELSE {"done"})

\* Commits are those of pushes, and none is later than the one that is being built.
InOrder ==
  /\ \A s \in Services : /\ 1 <= stable[s] /\ stable[s] <= cluster[s].image
                         /\ cluster[s].image <= values[s] /\ values[s] <= Len(pushes)
  /\ \A pr \in open : pr.over <= pr.commit /\ pr.commit <= Len(pushes)
  /\ ~At("none") =>
       /\ build.push <= build.commit /\ 1 <= build.commit /\ build.commit <= Len(pushes)
       /\ \A s \in Services : values[s] <= build.commit
       /\ \A pr \in open : pr.commit <= build.commit
  /\ \A i \in DOMAIN queue : queue[i] <= Len(pushes)

\* A service that was merged has the commit of the build in its values, and in the
\* cluster once its release has been found there.
Merged ==
  \A s \in build.builds :
    /\ At("publish") /\ branch[s] \in {"list", "write", "read", "record", "done"} => values[s] = build.commit
    /\ At("wait") => values[s] = build.commit
    /\ At("wait") /\ branch[s] = "stable" => cluster[s].image = build.commit

\* What was built is in the records, and only what was built can be sick.
Logged ==
  /\ log \subseteq Services \X {"releasing", "failed"} \X DOMAIN pushes
  /\ sick \subseteq {r \in Services \X Nat : r[2] # 1 /\ <<r[1], "releasing", r[2]>> \in log}
  /\ \A s \in Services : stable[s] = 1 \/ <<s, "releasing", stable[s]>> \in log

\* What the build has built is in the records.
Built ==
  \A s \in build.builds :
    (At("verify") /\ s \in build.done) \/ build.step \in {"publish", "wait"} => <<s, "releasing", build.commit>> \in log

\* What is stable, or about to be marked stable, is not sick.
Healthy ==
  /\ \A s \in Services : <<s, stable[s]>> \notin sick
  /\ \A s \in build.builds : At("wait") /\ branch[s] = "stable" => release(s) \notin sick

Reasons == sick \cup disturbed \cup overtaken

\* The revision that a release waits for is the head, or it waits for none, unless it
\* was overtaken.
Followed(s) ==
  /\ At("publish") /\ branch[s] = "write" => listed[s] \in {head, NoRevision}
  /\ At("publish") /\ branch[s] = "read" => headFile \in {head, NoRevision}
  /\ At("publish") /\ branch[s] \in {"record", "done"} => configRev[s] \in {head, NoRevision}
  /\ At("wait") /\ branch[s] = "wait" => configRev[s] \in {head, NoRevision}

Reasoned ==
  ~scriptEnds =>
    /\ \A s \in build.builds : Followed(s) \/ release(s) \in overtaken
    /\ \A s \in build.builds : At("wait") /\ branch[s] = "fail" => release(s) \in Reasons
    /\ \A s \in Services, c \in DOMAIN pushes : <<s, "failed", c>> \in log => <<s, c>> \in Reasons

\* What came of push i for service s.
Settled(i, s) ==
  /\ values[s] >= i
  /\ \/ stable[s] >= i
     \/ \E c \in i..Len(pushes) : <<s, "failed", c>> \in log \/ <<s, c>> \in disturbed

Ended ==
  \A s \in build.builds : At("wait") =>
    /\ branch[s] = "done" => stable[s] = build.commit
    /\ branch[s] = "failed" => <<s, "failed", build.commit>> \in log \/ release(s) \in disturbed

\* A push that changes a service is queued, in the build, or settled for the service.
Underway(i, s) ==
  \/ \E j \in DOMAIN queue : queue[j] = i
  \/ build.push = i /\ (At("detect") \/ (build.step \in {"verify", "publish", "wait"} /\ s \in build.builds))
  \/ Settled(i, s)

Accounted ==
  \A i \in DOMAIN pushes, s \in Services :
    changesRuntime(s, pushes[i]) /\ <<s, i>> \notin missed => Underway(i, s)

DeliveryInv ==
  /\ Shapes /\ Heads /\ Branches /\ InOrder /\ Merged
  /\ Logged /\ Built /\ Healthy /\ Reasoned /\ Ended /\ Accounted

-----------------------------------------------------------------------------
(* Shapes and revisions.                                                    *)

Moves == [DeliveryNext]_deliveryVars

\* What Impact finds is among the services of the manifest.
LEMMA ImpactOfServices ==
  ASSUME NEW push, NEW r \in impactOf(push)
  PROVE  r.tests \subseteq Services /\ r.builds \subseteq Services
<1>1. FullResult({}, FALSE).tests = Services /\ FullResult({}, FALSE).builds = Services
  BY Zenon DEF FullResult
<1>2. runFails({}).tests = Services /\ runFails({}).builds = Services
  BY Zenon DEF FullResult, runFails
<1>3. ASSUME NEW f PROVE testedFor(f) \subseteq Services /\ builtFor(f) \subseteq Services
  BY ImpactAssumption, Zenon DEF testedFor, builtFor
<1>4. ASSUME NEW changes
      PROVE  Evaluate(changes).tests \subseteq Services /\ Evaluate(changes).builds \subseteq Services
  <2> DEFINE files == changedPaths(changes)
             stops == {i \in DOMAIN changes : selectsAll(changes[i].path)}
             taken == {c.path : c \in {c \in Range(changes) : ~ignorable(c.path)}}
             rest == [tests |-> UNION {testedFor(f) : f \in taken}, builds |-> UNION {builtFor(f) : f \in taken},
                      proto |-> \E f \in taken : f.class = "proto", fallback |-> FALSE]
  <2>1. \A b : FullResult(files, b).tests = Services /\ FullResult(files, b).builds = Services
    BY Zenon DEF FullResult
  <2>2. rest.tests \subseteq Services /\ rest.builds \subseteq Services
    <3>1. rest.tests = UNION {testedFor(f) : f \in taken} /\ rest.builds = UNION {builtFor(f) : f \in taken}
      OBVIOUS
    <3> QED BY <3>1, <1>3, Zenon
  <2>3. \/ \E b : Evaluate(changes) = FullResult(files, b)
        \/ Evaluate(changes) = rest
    BY Zenon DEF Evaluate
  <2> QED BY <2>1, <2>2, <2>3, Zenon
<1> QED BY <1>1, <1>2, <1>4, Zenon DEF impactOf, EvaluateDiff

\* One step of the pipeline or of what is around it.
LEMMA Cases ==
  ASSUME Moves
  PROVE  \/ UNCHANGED deliveryVars
         \/ Checkout \/ Detect \/ stageFails \/ startPublishing \/ startWaiting \/ endBuild
         \/ Trigger \/ (\E d \in Diffs : Push(d)) \/ (\E pr \in open : mergeLate(pr))
         \/ \E s \in Services :
              \/ runServiceBranch(s)
              \/ mergeGitOps(s) \/ listHead(s) \/ writeHead(s) \/ readHead(s) \/ recordReleasing(s) \/ publishFails(s)
              \/ waitForRelease(s) \/ waitTimesOut(s) \/ recordStable(s) \/ recordFailed(s) \/ ArgoSync(s)
BY Zenon DEF Moves, DeliveryNext, Pipeline, Outside

\* The pushes are a sequence.
LEMMA SeqFacts ==
  ASSUME NEW S, NEW q \in Seq(S)
  PROVE  Len(q) \in Nat /\ DOMAIN q = 1..Len(q) /\ \A i \in DOMAIN q : i \in Nat /\ i # 0
OBVIOUS

\* The queue and the pushes only have things added at the end, or taken from the front.
LEMMA AppendShapes ==
  ASSUME NEW S, NEW q \in Seq(S), NEW x \in S
  PROVE  /\ Append(q, x) \in Seq(S) /\ Append(q, x) # <<>> /\ Len(Append(q, x)) = Len(q) + 1
         /\ DOMAIN Append(q, x) = DOMAIN q \cup {Len(q) + 1} /\ Append(q, x)[Len(q) + 1] = x
         /\ \A i \in DOMAIN q : Append(q, x)[i] = q[i]
<1>1. Append(q, x) \in Seq(S) /\ Len(Append(q, x)) = Len(q) + 1 /\ Append(q, x)[Len(q) + 1] = x
  OBVIOUS
<1>2. \A i \in DOMAIN q : Append(q, x)[i] = q[i]
  OBVIOUS
<1>3. Append(q, x) # <<>>
  <2>1. Len(<<>>) = 0 /\ Len(q) + 1 # 0 OBVIOUS
  <2> QED BY <1>1, <2>1, Zenon
<1>4. DOMAIN Append(q, x) = DOMAIN q \cup {Len(q) + 1}
  BY <1>1
<1> QED BY <1>1, <1>2, <1>3, <1>4, Zenon

\* A push, or a merge, adds itself to main.
LEMMA PushFacts ==
  ASSUME Shapes, NEW d \in Pushed, MovesHead(d)
  PROVE  /\ Len(pushes) \in Nat /\ Len(pushes) + 1 \in Nat /\ Len(pushes') = Len(pushes) + 1
         /\ DOMAIN pushes' = DOMAIN pushes \cup {Len(pushes) + 1} /\ pushes'[Len(pushes) + 1] = d
         /\ \A i \in DOMAIN pushes : pushes'[i] = pushes[i]
<1>1. pushes \in Seq(Pushed) /\ pushes' = Append(pushes, d)
  BY Zenon DEF Shapes, MovesHead
<1>2. Len(pushes) \in Nat /\ Len(pushes) + 1 \in Nat
  BY <1>1
<1> QED BY <1>1, <1>2, AppendShapes

\* One change is added to main, and a build may be asked for.
Adds(d) == MovesHead(d) /\ (queue' = queue \/ queue' = Append(queue, head + 1))

\* A push adds its diff.
LEMMA AddsPush ==
  ASSUME NEW d \in Diffs, Push(d)
  PROVE  d \in Pushed /\ Adds(d)
BY Zenon DEF Push, Adds, Pushed

\* A merge adds a change of values.
LEMMA AddsMerge ==
  ASSUME Merge
  PROVE  ValuesChange \in Pushed /\ Adds(ValuesChange)
BY Zenon DEF Merge, Adds, Pushed

\* There are two ways for a pull request to be merged.
LEMMA Merges ==
  /\ \A pr : mergeLate(pr) => Merge
  /\ \A s : mergeGitOps(s) => Merge
BY Zenon DEF mergeLate, mergeGitOps

\* What is added keeps main and the queue as they are to be.
LEMMA AddsShapes ==
  ASSUME Shapes, NEW d \in Pushed, Adds(d)
  PROVE  /\ pushes' \in Seq(Pushed) /\ pushes' # <<>> /\ pushes'[1] = <<>>
         /\ queue' \in Seq(Nat) /\ Len(pushes) + 1 \in Nat
<1>1. pushes \in Seq(Pushed) /\ pushes # <<>> /\ pushes[1] = <<>> /\ queue \in Seq(Nat) /\ pushes' = Append(pushes, d)
  BY Zenon DEF Shapes, Adds, MovesHead
<1>2. Len(pushes) + 1 \in Nat /\ 1 \in DOMAIN pushes
  BY <1>1
<1>6. /\ Append(pushes, d) \in Seq(Pushed) /\ Append(pushes, d) # <<>>
      /\ \A i \in DOMAIN pushes : Append(pushes, d)[i] = pushes[i]
  BY <1>1, AppendShapes
<1>3. pushes' \in Seq(Pushed) /\ pushes' # <<>> /\ pushes'[1] = <<>>
  BY <1>1, <1>2, <1>6, Zenon
<1>4. queue' = queue \/ queue' = Append(queue, Len(pushes) + 1)
  BY Zenon DEF Adds, head
<1>5. Append(queue, Len(pushes) + 1) \in Seq(Nat)
  BY <1>1, <1>2, AppendShapes, Zenon
<1> QED BY <1>1, <1>2, <1>3, <1>4, <1>5, Zenon

\* Taking the head of the queue leaves the others in their order.
LEMMA TailShapes ==
  ASSUME NEW S, NEW q \in Seq(S), q # <<>>
  PROVE  /\ Head(q) \in S /\ Tail(q) \in Seq(S) /\ 1 \in DOMAIN q /\ Head(q) = q[1]
         /\ \A i \in DOMAIN Tail(q) : i + 1 \in DOMAIN q /\ Tail(q)[i] = q[i + 1]
         /\ \A i \in DOMAIN q : i # 1 => i - 1 \in DOMAIN Tail(q) /\ Tail(q)[i - 1] = q[i]
<1>1. Len(q) \in Nat /\ Len(q) > 0 /\ DOMAIN q = 1..Len(q)
  OBVIOUS
<1>2. Head(q) \in S /\ Tail(q) \in Seq(S) /\ 1 \in DOMAIN q /\ Head(q) = q[1]
  BY <1>1
<1>3. Len(Tail(q)) = Len(q) - 1 /\ DOMAIN Tail(q) = 1..(Len(q) - 1)
  BY <1>1, <1>2
<1>4. \A i \in 1..(Len(q) - 1) : Tail(q)[i] = q[i + 1]
  BY <1>1
<1>5. \A i \in 1..(Len(q) - 1) : i + 1 \in 1..Len(q)
  BY <1>1
<1>6. \A i \in 1..Len(q) : i # 1 => i - 1 \in 1..(Len(q) - 1) /\ (i - 1) + 1 = i
  BY <1>1
<1>7. \A i \in DOMAIN q : i # 1 => i - 1 \in DOMAIN Tail(q) /\ Tail(q)[i - 1] = q[i]
  BY <1>1, <1>3, <1>4, <1>6, Zenon
<1> QED BY <1>1, <1>2, <1>3, <1>4, <1>5, <1>7, Zenon

\* The record of a build keeps its shape when fields are replaced.
LEMMA BuildShapes ==
  ASSUME NEW b \in Builds
  PROVE  /\ \A push, commit \in Nat :
              [NoBuild EXCEPT !.step = "detect", !.push = push, !.commit = commit] \in Builds
         /\ \A A, B \in SUBSET Services, step \in Steps :
              [b EXCEPT !.step = step, !.affected = A, !.builds = B] \in Builds
         /\ NoBuild \in Builds
BY Zenon DEF Builds, NoBuild, Steps

\* Every variable keeps its shape, whatever step is taken.
LEMMA ShapesStep ==
  ASSUME Shapes, Heads, Moves
  PROVE  Shapes'
<1> USE DEF Shapes, Publishing, Waiting, At
<1> USE DEF source, gitops, revisions, records, world, deliveryVars
<1>0. build.commit \in Nat
  BY Zenon DEF Builds
<1>1. CASE UNCHANGED deliveryVars
  BY <1>1, Zenon
<1>2. CASE Checkout
  <2>1. queue' \in Seq(Nat) /\ Head(queue) \in Nat /\ Len(pushes) \in Nat
    BY <1>2, TailShapes DEF Checkout
  <2>2. build' = [NoBuild EXCEPT !.step = "detect", !.push = Head(queue), !.commit = Len(pushes)]
    BY <1>2, Zenon DEF Checkout, head
  <2>3. build' \in Builds
    BY <2>1, <2>2, BuildShapes, Zenon
  <2>4. build'.builds = {} /\ build'.done = {}
    BY <2>2, Zenon DEF NoBuild
  <2> QED BY <1>2, <2>1, <2>3, <2>4, Zenon DEF Checkout
<1>3. CASE Detect
  <2>1. PICK r \in impactOf(build.push) :
          build' = [build EXCEPT !.step = IF r.tests \cup r.builds = {} THEN "end" ELSE "verify",
                                 !.affected = r.tests \cup r.builds, !.builds = r.builds]
    BY <1>3, Zenon DEF Detect
  <2> DEFINE step == IF r.tests \cup r.builds = {} THEN "end" ELSE "verify"
  <2>2. step \in Steps /\ r.tests \cup r.builds \in SUBSET Services /\ r.builds \in SUBSET Services
    BY ImpactOfServices, Zenon DEF Steps
  <2>3. build' \in Builds
    BY <2>1, <2>2, BuildShapes, Zenon
  <2>4. build'.builds = r.builds /\ build'.affected = r.tests \cup r.builds /\ build'.done = build.done
    BY <2>1, Zenon DEF Builds
  <2>5. build.done = {}
    BY <1>3, Zenon DEF Detect
  <2>6. build'.step \in {"end", "verify"}
    BY <2>1, Zenon DEF Builds
  <2> QED BY <1>3, <2>3, <2>4, <2>5, <2>6, Zenon DEF Detect
<1>4. CASE stageFails
  BY <1>4, BuildShapes, Zenon DEF stageFails, EndsBuild, NoBuild
<1>5. CASE startPublishing
  BY <1>5, Zenon DEF Builds, Steps, startPublishing, Goto
<1>6. CASE startWaiting
  <2>1. CASE Goto("wait") /\ branch' = [s \in Services |-> IF s \in build.builds THEN "wait" ELSE "done"]
    BY <1>6, <2>1, Zenon DEF startWaiting, Goto, Builds, Steps
  <2>2. CASE EndsBuild
    BY <1>6, <2>2, BuildShapes, Zenon DEF startWaiting, EndsBuild, NoBuild
  <2> QED BY <1>6, <2>1, <2>2, Zenon DEF startWaiting
<1>7. CASE endBuild
  BY <1>7, BuildShapes, Zenon DEF endBuild, EndsBuild, NoBuild
<1>8. CASE Trigger
  BY <1>8, AppendShapes, 0 \in Nat, Zenon DEF Trigger
<1>9. ASSUME NEW d \in Diffs, Push(d) PROVE Shapes'
  <2>1. pushes' \in Seq(Pushed) /\ pushes' # <<>> /\ pushes'[1] = <<>> /\ queue' \in Seq(Nat)
    BY <1>9, AddsPush, AddsShapes, Zenon
  <2> QED BY <1>9, <2>1, Zenon DEF Push
<1>20. ASSUME Merge
       PROVE  pushes' \in Seq(Pushed) /\ pushes' # <<>> /\ pushes'[1] = <<>> /\ queue' \in Seq(Nat)
  BY <1>20, AddsMerge, AddsShapes, Zenon
<1>10. ASSUME NEW pr \in open, mergeLate(pr) PROVE Shapes'
  BY <1>10, <1>20, Zenon DEF mergeLate
<1>11. ASSUME NEW s \in Services, runServiceBranch(s) PROVE Shapes'
  BY <1>11, Zenon DEF Builds, Steps, runServiceBranch, Record
<1>12. ASSUME NEW s \in Services, mergeGitOps(s) PROVE Shapes'
  BY <1>0, <1>12, <1>20, Zenon DEF mergeGitOps, BranchTo
<1>13. ASSUME NEW s \in Services, listHead(s) \/ writeHead(s) \/ readHead(s) PROVE Shapes'
  BY <1>13, Zenon DEF listHead, writeHead, readHead, BranchTo
<1>14. ASSUME NEW s \in Services, recordReleasing(s) PROVE Shapes'
  BY <1>14, Zenon DEF recordReleasing, Record, BranchTo
<1>15. ASSUME NEW s \in Services, publishFails(s) PROVE Shapes'
  BY <1>0, <1>15 DEF publishFails, BranchTo
<1>16. ASSUME NEW s \in Services, waitForRelease(s) \/ waitTimesOut(s) PROVE Shapes'
  BY <1>16, Zenon DEF waitForRelease, waitTimesOut, BranchTo
<1>17. ASSUME NEW s \in Services, recordStable(s) \/ recordFailed(s) PROVE Shapes'
  BY <1>0, <1>17, Zenon DEF recordStable, recordFailed, Record, BranchTo
<1>18. ASSUME NEW s \in Services, ArgoSync(s) PROVE Shapes'
  <2>1. [image |-> values[s], rev |-> head] \in [image : Nat, rev : Nat]
    BY Zenon DEF Heads
  <2> QED BY <1>18, <2>1, Zenon DEF ArgoSync
<1> QED BY <1>1, <1>2, <1>3, <1>4, <1>5, <1>6, <1>7, <1>8, <1>9, <1>10, <1>11, <1>12, <1>13, <1>14,
           <1>15, <1>16, <1>17, <1>18, Cases, Zenon

\* Every revision that is kept anywhere is one main has had.
LEMMA HeadsStep ==
  ASSUME Shapes, Heads, Moves
  PROVE  Heads'
<1> USE DEF Heads, Revisions, head
<1> USE DEF source, gitops, revisions, records, world, deliveryVars, BranchTo
<1>0. ASSUME NEW d \in Pushed, MovesHead(d), UNCHANGED revisions PROVE Heads'
  <2>1. Len(pushes) \in Nat /\ Len(pushes') = Len(pushes) + 1
    BY <1>0, PushFacts, Zenon
  <2>2. Len(pushes') \in Nat /\ 1 <= Len(pushes') /\ 1..Len(pushes) \subseteq 1..Len(pushes')
    BY <2>1
  <2> QED BY <1>0, <2>2, Zenon
<1>1. CASE UNCHANGED deliveryVars
  BY <1>1, Zenon
<1>2. CASE Checkout
  BY <1>2, Zenon DEF Checkout
<1>3. CASE Detect
  BY <1>3, Zenon DEF Detect
<1>4. CASE stageFails
  BY <1>4, Zenon DEF stageFails, EndsBuild
<1>5. CASE startPublishing
  BY <1>5, Zenon DEF startPublishing
<1>6. CASE startWaiting
  BY <1>6, Zenon DEF startWaiting, EndsBuild
<1>7. CASE endBuild
  BY <1>7, Zenon DEF endBuild, EndsBuild
<1>8. CASE Trigger
  BY <1>8, Zenon DEF Trigger
<1>9. ASSUME NEW d \in Diffs, Push(d) PROVE Heads'
  BY <1>0, <1>9, AddsPush, Zenon DEF Adds, Push
<1>10. ASSUME NEW pr \in open, mergeLate(pr) PROVE Heads'
  BY <1>0, <1>10, AddsMerge, Zenon DEF Adds, mergeLate
<1>11. ASSUME NEW s \in Services, runServiceBranch(s) PROVE Heads'
  BY <1>11, Zenon DEF runServiceBranch
<1>12. ASSUME NEW s \in Services, mergeGitOps(s) PROVE Heads'
  BY <1>0, <1>12, AddsMerge, Zenon DEF Adds, mergeGitOps
<1>13. ASSUME NEW s \in Services, listHead(s) PROVE Heads'
  <2>1. Len(pushes) \in Revisions /\ NoRevision \in Revisions
    BY DEF Shapes
  <2> QED BY <1>13, <2>1, Zenon DEF listHead
<1>14. ASSUME NEW s \in Services, writeHead(s) PROVE Heads'
  BY <1>14, Zenon DEF writeHead
<1>15. ASSUME NEW s \in Services, readHead(s) PROVE Heads'
  BY <1>15, Zenon DEF readHead
<1>16. ASSUME NEW s \in Services, recordReleasing(s) \/ publishFails(s) PROVE Heads'
  BY <1>16, Zenon DEF recordReleasing, publishFails
<1>17. ASSUME NEW s \in Services, waitForRelease(s) \/ waitTimesOut(s) PROVE Heads'
  BY <1>17, Zenon DEF waitForRelease, waitTimesOut
<1>18. ASSUME NEW s \in Services, recordStable(s) \/ recordFailed(s) \/ ArgoSync(s) PROVE Heads'
  BY <1>18, Zenon DEF recordStable, recordFailed, ArgoSync
<1> QED BY <1>1, <1>2, <1>3, <1>4, <1>5, <1>6, <1>7, <1>8, <1>9, <1>10, <1>11, <1>12, <1>13, <1>14,
           <1>15, <1>16, <1>17, <1>18, Cases, Zenon

\* The branches of a parallel stage stay among those of the stage.
LEMMA BranchesStep ==
  ASSUME Shapes, Branches, Moves
  PROVE  Branches'
<1> USE DEF Branches, At, Goto
<1> USE DEF source, deliveryVars
<1>0. branch \in [Services -> Publishing \cup Waiting] /\ build \in Builds
  BY Zenon DEF Shapes
<1>1. CASE UNCHANGED <<build, branch>>
  BY <1>1, Zenon
<1>2. CASE Checkout
  BY <1>2, Zenon DEF Checkout, NoBuild
<1>3. CASE Detect
  BY <1>0, <1>3, Zenon DEF Detect, Builds
<1>4. CASE EndsBuild
  BY <1>4, Zenon DEF EndsBuild, NoBuild
<1>5. CASE startPublishing
  <2>1. CASE build'.step = "end"
    BY <2>1, Zenon
  <2>2. CASE Goto("publish") /\ branch' = [s \in Services |-> IF s \in build.builds THEN "merge" ELSE "done"]
    BY <1>0, <2>2, Zenon DEF Builds, Publishing
  <2> QED BY <1>0, <1>5, <2>1, <2>2, Zenon DEF startPublishing, Builds
<1>6. CASE Goto("wait") /\ branch' = [s \in Services |-> IF s \in build.builds THEN "wait" ELSE "done"]
  BY <1>0, <1>6, Zenon DEF Builds, Waiting
<1>7. ASSUME NEW s \in Services, runServiceBranch(s) PROVE Branches'
  BY <1>0, <1>7, Zenon DEF runServiceBranch, Builds
<1>8. ASSUME NEW s \in Services, NEW step \in Publishing \ {"merge"}, At("publish"), branch[s] # "done",
             BranchTo(s, step), UNCHANGED build
      PROVE  Branches'
  BY <1>0, <1>8, Zenon DEF BranchTo
<1>9. ASSUME NEW s \in Services, NEW step \in Waiting, At("wait"), branch[s] # "done",
             BranchTo(s, step), UNCHANGED build
      PROVE  Branches'
  BY <1>0, <1>9, Zenon DEF BranchTo
<1>10. ASSUME NEW s \in Services, mergeGitOps(s) PROVE Branches'
  BY <1>8, <1>10, Zenon DEF mergeGitOps, Publishing
<1>11. ASSUME NEW s \in Services, listHead(s) \/ writeHead(s) \/ readHead(s) PROVE Branches'
  BY <1>8, <1>11, Zenon DEF listHead, writeHead, readHead, Publishing
<1>12. ASSUME NEW s \in Services, recordReleasing(s) \/ publishFails(s) PROVE Branches'
  BY <1>8, <1>12, Zenon DEF recordReleasing, publishFails, Publishing
<1>13. ASSUME NEW s \in Services, waitForRelease(s) \/ waitTimesOut(s) PROVE Branches'
  BY <1>9, <1>13, Zenon DEF waitForRelease, waitTimesOut, Waiting
<1>14. ASSUME NEW s \in Services, recordStable(s) \/ recordFailed(s) PROVE Branches'
  BY <1>9, <1>14, Zenon DEF recordStable, recordFailed, Waiting
<1>15. CASE UNCHANGED deliveryVars \/ Trigger \/ (\E d \in Diffs : Push(d)) \/ (\E pr \in open : mergeLate(pr))
            \/ \E s \in Services : ArgoSync(s)
  BY <1>1, <1>15, Zenon DEF Trigger, Push, mergeLate, ArgoSync
<1>16. CASE stageFails \/ startWaiting \/ endBuild
  BY <1>4, <1>6, <1>16, Zenon DEF stageFails, startWaiting, endBuild
<1> QED BY <1>2, <1>3, <1>5, <1>7, <1>10, <1>11, <1>12, <1>13, <1>14, <1>15, <1>16, Cases, Zenon

-----------------------------------------------------------------------------
(* The order of commits.                                                    *)

\* The build in progress is the same one, or there is none any more.
SameBuild ==
  \/ build'.step = "none"
  \/ ~At("none") /\ build'.step # "none" /\ build'.commit = build.commit /\ build'.push = build.push

\* Steps that touch nothing that InOrder is about.
InPlace == UNCHANGED <<pushes, queue, values, stable, open, cluster>> /\ SameBuild

\* InOrder is kept by every such step.
LEMMA InPlaceStep ==
  ASSUME InOrder, InPlace
  PROVE  InOrder'
BY Zenon DEF InOrder, InPlace, SameBuild, At

\* The steps that only move the build, or one of its branches, on.
LEMMA InPlaceSteps ==
  ASSUME Shapes,
         \/ UNCHANGED deliveryVars \/ Detect \/ stageFails \/ startPublishing \/ startWaiting \/ endBuild
         \/ \E s \in Services : \/ runServiceBranch(s) \/ listHead(s) \/ writeHead(s) \/ readHead(s)
                                \/ recordReleasing(s) \/ waitForRelease(s) \/ waitTimesOut(s) \/ recordFailed(s)
  PROVE  InPlace
<1> USE DEF InPlace, source, gitops, world, records, deliveryVars, At
<1>0. build \in Builds
  BY Zenon DEF Shapes
<1>1. ASSUME UNCHANGED build PROVE SameBuild
  BY <1>1, Zenon DEF SameBuild
<1>2. ASSUME EndsBuild PROVE SameBuild
  BY <1>2, Zenon DEF EndsBuild, NoBuild, SameBuild
<1>3. ASSUME NEW step, step # "none", ~At("none"), Goto(step) PROVE SameBuild
  BY <1>0, <1>3, Zenon DEF Goto, SameBuild, Builds
<1>4. CASE UNCHANGED deliveryVars
  BY <1>1, <1>4, Zenon
<1>5. CASE Detect
  <2>1. SameBuild
    BY <1>0, <1>5, Zenon DEF Detect, SameBuild, Builds
  <2> QED BY <1>5, <2>1, Zenon DEF Detect
<1>6. CASE stageFails \/ endBuild
  BY <1>2, <1>6, Zenon DEF stageFails, endBuild
<1>7. CASE startPublishing
  <2>1. Goto("end") \/ Goto("publish")
    BY <1>7, Zenon DEF startPublishing
  <2>2. SameBuild
    BY <1>3, <1>7, <2>1, Zenon DEF startPublishing
  <2> QED BY <1>7, <2>2, Zenon DEF startPublishing
<1>8. CASE startWaiting
  <2>1. Goto("wait") \/ EndsBuild
    BY <1>8, Zenon DEF startWaiting
  <2>2. SameBuild
    BY <1>2, <1>3, <1>8, <2>1, Zenon DEF startWaiting, stageDone
  <2> QED BY <1>8, <2>2, Zenon DEF startWaiting
<1>9. ASSUME NEW s \in Services, runServiceBranch(s) PROVE InPlace
  <2>1. SameBuild
    BY <1>0, <1>9, Zenon DEF runServiceBranch, SameBuild, Builds
  <2> QED BY <1>9, <2>1, Zenon DEF runServiceBranch, Record
<1>10. ASSUME NEW s \in Services, listHead(s) \/ writeHead(s) \/ readHead(s) PROVE InPlace
  BY <1>1, <1>10, Zenon DEF listHead, writeHead, readHead
<1>11. ASSUME NEW s \in Services, recordReleasing(s) \/ recordFailed(s) PROVE InPlace
  <2>1. UNCHANGED stable
    BY <1>11, Zenon DEF recordReleasing, recordFailed, Record
  <2> QED BY <1>1, <1>11, <2>1, Zenon DEF recordReleasing, recordFailed
<1>12. ASSUME NEW s \in Services, waitForRelease(s) \/ waitTimesOut(s) PROVE InPlace
  BY <1>1, <1>12, Zenon DEF waitForRelease, waitTimesOut
<1> QED BY <1>4, <1>5, <1>6, <1>7, <1>8, <1>9, <1>10, <1>11, <1>12, Zenon

\* No commit overtakes the one that is being built, and values and stable rows go
\* forward: a late merge is one over older values, and the commit of a build is the
\* head of main.
LEMMA InOrderStep ==
  ASSUME Shapes, Heads, InOrder, Merged, Branches, Moves
  PROVE  InOrder' /\ goesForward
<1> USE DEF source, gitops, world, records, At
<1> DEFINE Goal == InOrder' /\ goesForward
<1>0. /\ values \in [Services -> Nat] /\ stable \in [Services -> Nat] /\ cluster \in [Services -> [image : Nat, rev : Nat]]
      /\ build \in Builds /\ open \subseteq [service : Services, commit : Nat, over : Nat]
      /\ queue \in Seq(Nat) /\ pushes \in Seq(Pushed) /\ Len(pushes) \in Nat
      /\ build.commit \in Nat /\ build.push \in Nat
  BY DEF Shapes, Builds
<1>1. ASSUME InPlace PROVE Goal
  <2>1. goesForward
    BY <1>0, <1>1 DEF InPlace, goesForward
  <2> QED BY <1>1, <2>1, InPlaceStep, Zenon
<1>2. CASE Checkout
  <2>1. build'.push = Head(queue) /\ build'.commit = Len(pushes) /\ build'.step = "detect"
    BY <1>2, Zenon DEF Checkout, NoBuild, head
  <2>2. Head(queue) <= Len(pushes) /\ \A i \in DOMAIN queue' : queue'[i] <= Len(pushes)
    BY <1>0, <1>2, TailShapes DEF Checkout, InOrder
  <2>3. 1 <= Len(pushes)
    BY <1>0 DEF Shapes
  <2>4. UNCHANGED <<pushes, values, stable, open, cluster>>
    BY <1>2, Zenon DEF Checkout
  <2>5. goesForward
    BY <1>0, <2>4 DEF goesForward
  <2>6. build'.push <= build'.commit /\ 1 <= build'.commit /\ build'.commit <= Len(pushes)
    BY <1>0, <2>1, <2>2, <2>3
  <2>7. (\A s \in Services : values[s] <= build'.commit) /\ \A pr \in open : pr.commit <= build'.commit
    BY <2>1, Zenon DEF InOrder
  <2> QED BY <2>2, <2>4, <2>5, <2>6, <2>7, Zenon DEF InOrder
<1>3. CASE Trigger
  <2>1. \A i \in DOMAIN queue' : queue'[i] <= Len(pushes)
    BY <1>0, <1>3, AppendShapes DEF Trigger, InOrder
  <2>2. UNCHANGED <<pushes, values, stable, open, cluster, build>>
    BY <1>3, Zenon DEF Trigger
  <2>3. goesForward
    BY <1>0, <2>2 DEF goesForward
  <2> QED BY <2>1, <2>2, <2>3, Zenon DEF InOrder
<1>11. ASSUME NEW d \in Pushed, Adds(d)
       PROVE  /\ Len(pushes') \in Nat /\ Len(pushes) <= Len(pushes')
              /\ \A i \in DOMAIN queue' : queue'[i] <= Len(pushes')
  <2>1. Len(pushes') = Len(pushes) + 1
    BY <1>11, PushFacts, Zenon DEF Adds
  <2>2. queue' = queue \/ queue' = Append(queue, Len(pushes) + 1)
    BY <1>11, Zenon DEF Adds, head
  <2>3. \A i \in DOMAIN queue : queue[i] <= Len(pushes')
    BY <1>0, <2>1 DEF InOrder
  <2>4. Len(pushes) + 1 \in Nat /\ Len(pushes) + 1 <= Len(pushes') /\ Len(pushes') \in Nat /\ Len(pushes) <= Len(pushes')
    BY <1>0, <2>1
  <2>5. CASE queue' = Append(queue, Len(pushes) + 1)
    <3>1. /\ DOMAIN queue' = DOMAIN queue \cup {Len(queue) + 1} /\ queue'[Len(queue) + 1] = Len(pushes) + 1
          /\ \A i \in DOMAIN queue : queue'[i] = queue[i]
      BY <1>0, <2>4, <2>5, AppendShapes
    <3> QED BY <2>3, <2>4, <3>1, Zenon
  <2> QED BY <2>2, <2>3, <2>4, <2>5, Zenon
<1>4. ASSUME NEW d \in Diffs, Push(d) PROVE Goal
  <2>1. /\ Len(pushes') \in Nat /\ Len(pushes) <= Len(pushes')
        /\ \A i \in DOMAIN queue' : queue'[i] <= Len(pushes')
    BY <1>4, <1>11, AddsPush, Zenon
  <2>3. UNCHANGED <<values, stable, open, cluster, build>>
    BY <1>4, Zenon DEF Push
  <2>4. goesForward
    BY <1>0, <2>3 DEF goesForward
  <2>5. /\ \A s \in Services : values[s] <= Len(pushes')
        /\ \A pr \in open : pr.commit <= Len(pushes')
        /\ build.step # "none" => build.commit <= Len(pushes')
    BY <1>0, <2>1 DEF InOrder
  <2> QED BY <2>1, <2>3, <2>4, <2>5, Zenon DEF InOrder
<1>5. ASSUME NEW s \in Services, NEW c \in Nat, values[s] <= c, c <= Len(pushes), ~At("none") => c <= build.commit,
             values' = [values EXCEPT ![s] = c], open' \subseteq open, Merge,
             UNCHANGED <<stable, cluster, build>>
      PROVE  Goal
  <2>0. /\ Len(pushes') \in Nat /\ Len(pushes) <= Len(pushes')
        /\ \A i \in DOMAIN queue' : queue'[i] <= Len(pushes')
    BY <1>5, <1>11, AddsMerge, Zenon
  <2>1. goesForward
    BY <1>0, <1>5 DEF goesForward
  <2>2. \A q \in Services : cluster[q].image <= values'[q] /\ values'[q] <= Len(pushes')
    BY <1>0, <1>5, <2>0 DEF InOrder
  <2>3. ~At("none") => \A q \in Services : values'[q] <= build.commit
    BY <1>0, <1>5, Zenon DEF InOrder
  <2>4. /\ \A pr \in open : pr.commit <= Len(pushes')
        /\ build.step # "none" => build.commit <= Len(pushes')
    BY <1>0, <2>0 DEF InOrder
  <2> QED BY <1>5, <2>0, <2>1, <2>2, <2>3, <2>4, Zenon DEF InOrder
<1>6. ASSUME NEW pr \in open, mergeLate(pr) PROVE Goal
  <2>1. values[pr.service] <= pr.commit /\ pr.commit <= Len(pushes) /\ (~At("none") => pr.commit <= build.commit)
    BY <1>0, <1>6, Zenon DEF mergeLate, InOrder
  <2> QED BY <1>0, <1>5, <1>6, <2>1, Zenon DEF mergeLate
<1>7. ASSUME NEW s \in Services, mergeGitOps(s) PROVE Goal
  <2>1. values[s] <= build.commit /\ build.commit <= Len(pushes) /\ build.commit <= build.commit
    BY <1>0, <1>7 DEF mergeGitOps, InOrder
  <2> QED BY <1>0, <1>5, <1>7, <2>1, Zenon DEF mergeGitOps
<1>8. ASSUME NEW s \in Services, publishFails(s) PROVE Goal
  <2>1. UNCHANGED <<pushes, queue, values, stable, cluster, build>>
    BY <1>8, Zenon DEF publishFails
  <2>2. goesForward
    BY <1>0, <2>1 DEF goesForward
  <2>3. \A pr \in open' : pr \in open \/ pr = [service |-> s, commit |-> build.commit, over |-> values[s]]
    BY <1>8, Zenon DEF publishFails
  <2>4. ~At("none") /\ values[s] <= build.commit /\ build.commit <= Len(pushes)
    BY <1>8, Zenon DEF publishFails, InOrder
  <2>5. \A pr \in open' : pr.over <= pr.commit /\ pr.commit <= Len(pushes) /\ pr.commit <= build.commit
    BY <1>0, <2>3, <2>4 DEF InOrder
  <2> QED BY <2>1, <2>2, <2>4, <2>5, Zenon DEF InOrder
<1>9. ASSUME NEW s \in Services, recordStable(s) PROVE Goal
  <2>1. CASE UNCHANGED records
    BY <1>1, <1>9, <2>1, Zenon DEF recordStable, InPlace, SameBuild
  <2>2. CASE Record(s, "stable")
    <3>1. stable' = [stable EXCEPT ![s] = build.commit]
      BY <2>2, Zenon DEF Record
    <3>2. UNCHANGED <<pushes, queue, values, open, cluster, build>>
      BY <1>9, Zenon DEF recordStable
    <3>3. s \in build.builds
      BY <1>9, Zenon DEF recordStable, Branches
    <3>4. cluster[s].image = build.commit /\ 1 <= build.commit /\ stable[s] <= build.commit
      BY <1>0, <1>9, <3>3, Zenon DEF recordStable, Merged, InOrder
    <3>5. \A q \in Services : 1 <= stable'[q] /\ stable'[q] <= cluster[q].image /\ stable'[q] >= stable[q]
      BY <1>0, <3>1, <3>4 DEF InOrder
    <3>6. goesForward
      BY <1>0, <3>2, <3>5 DEF goesForward
    <3> QED BY <3>2, <3>5, <3>6, Zenon DEF InOrder
  <2> QED BY <1>9, <2>1, <2>2, Zenon DEF recordStable
<1>10. ASSUME NEW s \in Services, ArgoSync(s) PROVE Goal
  <2>1. UNCHANGED <<pushes, queue, values, stable, open, build>>
    BY <1>10, Zenon DEF ArgoSync
  <2>2. goesForward
    BY <1>0, <2>1 DEF goesForward
  <2>3. \A q \in Services : stable[q] <= cluster'[q].image /\ cluster'[q].image <= values[q]
    BY <1>0, <1>10 DEF ArgoSync, InOrder
  <2> QED BY <2>1, <2>2, <2>3, Zenon DEF InOrder
<1> QED BY <1>1, <1>2, <1>3, <1>4, <1>6, <1>7, <1>8, <1>9, <1>10, InPlaceSteps, Cases, Zenon

-----------------------------------------------------------------------------
(* What the stages leave behind.                                            *)

\* What a step does to the record of the build, field by field.
LEMMA GotoFields ==
  ASSUME Shapes, NEW step, Goto(step)
  PROVE  /\ build'.step = step /\ build'.push = build.push /\ build'.commit = build.commit
         /\ build'.affected = build.affected /\ build'.builds = build.builds /\ build'.done = build.done
BY Zenon DEF Shapes, Builds, Goto

LEMMA EndFields ==
  ASSUME EndsBuild
  PROVE  build'.step = "none" /\ build'.builds = {}
BY Zenon DEF EndsBuild, NoBuild

LEMMA CheckoutFields ==
  ASSUME Checkout
  PROVE  build'.step = "detect" /\ build'.push = Head(queue) /\ build'.commit = Len(pushes) /\ build'.builds = {}
BY Zenon DEF Checkout, NoBuild, head

LEMMA DetectFields ==
  ASSUME Shapes, Detect
  PROVE  /\ build'.step \in {"end", "verify"} /\ build'.push = build.push /\ build'.commit = build.commit
         /\ build'.done = {}
         /\ \E r \in impactOf(build.push) : /\ build'.builds = r.builds
                                            /\ build'.step = "end" => r.builds = {}
<1>1. PICK r \in impactOf(build.push) :
        build' = [build EXCEPT !.step = IF r.tests \cup r.builds = {} THEN "end" ELSE "verify",
                               !.affected = r.tests \cup r.builds, !.builds = r.builds]
  BY Zenon DEF Detect
<1>2. build \in Builds /\ build.done = {}
  BY Zenon DEF Detect, Shapes
<1>3. /\ build'.step = (IF r.tests \cup r.builds = {} THEN "end" ELSE "verify") /\ build'.builds = r.builds
      /\ build'.push = build.push /\ build'.commit = build.commit /\ build'.done = build.done
  BY <1>1, <1>2, Zenon DEF Builds
<1> QED BY <1>2, <1>3, Zenon

LEMMA VerifyFields ==
  ASSUME Shapes, NEW s \in Services, runServiceBranch(s)
  PROVE  /\ build.step = "verify" /\ build'.step = "verify" /\ build'.push = build.push /\ build'.commit = build.commit
         /\ build'.builds = build.builds /\ build'.done = build.done \cup {s}
BY Zenon DEF Shapes, Builds, runServiceBranch, At

\* A step that is in no parallel stage afterwards.
Idles == build'.step \notin {"publish", "wait"}

\* One branch of a parallel stage goes from one step to the next.
BranchMoves(stage, s, from, to) ==
  At(stage) /\ branch[s] = from /\ branch' = [branch EXCEPT ![s] = to] /\ UNCHANGED build

\* The branches of a build begin.
Begins(stage, first) ==
  /\ Goto(stage)
  /\ branch' = [s \in Services |-> IF s \in build.builds THEN first ELSE "done"]

\* Every step is of one of these kinds, as far as the stages are concerned.
LEMMA Kinds ==
  ASSUME Shapes, Moves
  PROVE  \/ UNCHANGED <<build, branch>> /\ (UNCHANGED deliveryVars \/ Trigger \/ (\E d \in Diffs : Push(d))
                          \/ (\E pr \in open : mergeLate(pr)) \/ \E s \in Services : ArgoSync(s))
         \/ Idles /\ (Checkout \/ Detect \/ stageFails \/ startPublishing \/ startWaiting \/ endBuild
                        \/ \E s \in Services : runServiceBranch(s))
         \/ startPublishing /\ Begins("publish", "merge")
         \/ startWaiting /\ stageOK /\ Begins("wait", "wait")
         \/ \E s \in Services :
              \/ mergeGitOps(s) /\ BranchMoves("publish", s, "merge", "list")
              \/ listHead(s) /\ BranchMoves("publish", s, "list", "write")
              \/ writeHead(s) /\ BranchMoves("publish", s, "write", "read")
              \/ readHead(s) /\ BranchMoves("publish", s, "read", "record")
              \/ recordReleasing(s) /\ BranchMoves("publish", s, "record", "done")
              \/ publishFails(s) /\ BranchMoves("publish", s, branch[s], "failed")
              \/ waitForRelease(s) /\ BranchMoves("wait", s, "wait", IF scriptEnds \/ release(s) \in sick THEN "fail" ELSE "stable")
              \/ waitTimesOut(s) /\ BranchMoves("wait", s, "wait", "fail")
              \/ recordStable(s) /\ Record(s, "stable") /\ UNCHANGED disturbed /\ BranchMoves("wait", s, "stable", "done")
              \/ recordStable(s) /\ disturbed' = disturbed \cup {release(s)} /\ UNCHANGED records
                                 /\ BranchMoves("wait", s, "stable", "fail")
              \/ recordFailed(s) /\ BranchMoves("wait", s, "fail", "failed")
<1> USE DEF source, deliveryVars, BranchTo, Begins
<1>1. CASE UNCHANGED deliveryVars \/ Trigger \/ (\E d \in Diffs : Push(d)) \/ (\E pr \in open : mergeLate(pr))
            \/ \E s \in Services : ArgoSync(s)
  BY <1>1, Zenon DEF Trigger, Push, mergeLate, ArgoSync
<1>2. CASE Checkout
  BY <1>2, CheckoutFields, Zenon DEF Idles
<1>3. CASE Detect
  BY <1>3, DetectFields, Zenon DEF Idles
<1>4. ASSUME EndsBuild PROVE Idles
  BY <1>4, EndFields, Zenon DEF Idles
<1>5. CASE stageFails \/ endBuild
  BY <1>4, <1>5, Zenon DEF stageFails, endBuild
<1>6. CASE startPublishing
  <2>1. CASE Goto("end")
    <3>1. Idles BY <2>1, GotoFields DEF Idles
    <3> QED BY <1>6, <3>1, Zenon
  <2> QED BY <1>6, <2>1, Zenon DEF startPublishing
<1>7. CASE startWaiting
  BY <1>4, <1>7, Zenon DEF startWaiting
<1>8. ASSUME NEW s \in Services, runServiceBranch(s) PROVE Idles
  BY <1>8, VerifyFields, Zenon DEF Idles
<1>9. ASSUME NEW s \in Services PROVE mergeGitOps(s) => BranchMoves("publish", s, "merge", "list")
  BY Zenon DEF mergeGitOps, BranchMoves
<1>10. ASSUME NEW s \in Services
       PROVE  /\ listHead(s) => BranchMoves("publish", s, "list", "write")
              /\ writeHead(s) => BranchMoves("publish", s, "write", "read")
              /\ readHead(s) => BranchMoves("publish", s, "read", "record")
  BY Zenon DEF listHead, writeHead, readHead, BranchMoves
<1>11. ASSUME NEW s \in Services
       PROVE  /\ recordReleasing(s) => BranchMoves("publish", s, "record", "done")
              /\ publishFails(s) => BranchMoves("publish", s, branch[s], "failed")
  BY Zenon DEF recordReleasing, publishFails, BranchMoves
<1>12. ASSUME NEW s \in Services
       PROVE  /\ waitForRelease(s) => BranchMoves("wait", s, "wait", IF scriptEnds \/ release(s) \in sick THEN "fail" ELSE "stable")
              /\ waitTimesOut(s) => BranchMoves("wait", s, "wait", "fail")
              /\ recordFailed(s) => BranchMoves("wait", s, "fail", "failed")
  BY Zenon DEF waitForRelease, waitTimesOut, recordFailed, BranchMoves
<1>13. ASSUME NEW s \in Services, recordStable(s)
       PROVE  \/ Record(s, "stable") /\ UNCHANGED disturbed /\ BranchMoves("wait", s, "stable", "done")
              \/ disturbed' = disturbed \cup {release(s)} /\ UNCHANGED records /\ BranchMoves("wait", s, "stable", "fail")
  BY <1>13, Zenon DEF recordStable, BranchMoves
<1> QED BY <1>1, <1>2, <1>3, <1>5, <1>6, <1>7, <1>8, <1>9, <1>10, <1>11, <1>12, <1>13, Cases, Zenon

\* The branches that do not move stay where they are.
LEMMA MovedBranch ==
  ASSUME Shapes, NEW s \in Services, NEW stage, NEW from, NEW to, BranchMoves(stage, s, from, to)
  PROVE  branch'[s] = to /\ \A q \in Services \ {s} : branch'[q] = branch[q]
BY Zenon DEF Shapes, BranchMoves

LEMMA BegunBranches ==
  ASSUME Shapes, NEW stage, NEW first, Begins(stage, first)
  PROVE  \A s \in build'.builds : branch'[s] = first /\ s \in build.builds /\ s \in Services
<1>1. build.builds \subseteq Services /\ build'.builds = build.builds
  BY GotoFields, Zenon DEF Shapes, Builds, Begins
<1> QED BY <1>1, Zenon DEF Begins

\* A service that was merged keeps the commit of the build in its values: a late
\* merge would be over these values, with the same commit.
LEMMA MergedStep ==
  ASSUME Shapes, Heads, Branches, InOrder, Merged, Moves
  PROVE  Merged'
<1> USE DEF source, gitops, world, records, deliveryVars, At
<1> DEFINE MergedAt(s) ==
      /\ build.step = "publish" /\ branch[s] \in {"list", "write", "read", "record", "done"} => values[s] = build.commit
      /\ build.step = "wait" => values[s] = build.commit
      /\ build.step = "wait" /\ branch[s] = "stable" => cluster[s].image = build.commit
<1>0. /\ build \in Builds /\ build.builds \subseteq Services /\ values \in [Services -> Nat]
      /\ cluster \in [Services -> [image : Nat, rev : Nat]] /\ build.commit \in Nat
      /\ open \subseteq [service : Services, commit : Nat, over : Nat]
  BY Zenon DEF Shapes, Builds
<1>1. \A s \in build.builds : MergedAt(s)
  BY Zenon DEF Merged
<1>2. SUFFICES ASSUME NEW q \in build'.builds PROVE MergedAt(q)'
  BY Zenon DEF Merged
<1> HIDE DEF MergedAt
<1>3. CASE Idles
  BY <1>3, Zenon DEF Idles, MergedAt
<1>4. ASSUME UNCHANGED <<build, branch, values, cluster>> PROVE MergedAt(q)'
  BY <1>1, <1>2, <1>4, Zenon DEF MergedAt
<1>5. CASE Begins("publish", "merge")
  <2>1. branch'[q] = "merge" /\ build'.step = "publish"
    BY <1>2, <1>5, BegunBranches, GotoFields, Zenon DEF Begins
  <2> QED BY <2>1, Zenon DEF MergedAt
<1>6. CASE startWaiting /\ stageOK /\ Begins("wait", "wait")
  <2>1. branch'[q] = "wait" /\ q \in build.builds /\ q \in Services
    BY <1>2, <1>6, BegunBranches, Zenon
  <2>2. build'.step = "wait" /\ build'.commit = build.commit /\ build.step = "publish" /\ branch[q] = "done"
    BY <1>6, <2>1, GotoFields, Zenon DEF Begins, startWaiting, stageDone, stageOK
  <2>3. values[q] = build.commit
    BY <1>1, <2>1, <2>2, Zenon DEF MergedAt
  <2>4. UNCHANGED values
    BY <1>6, Zenon DEF startWaiting
  <2> QED BY <2>1, <2>2, <2>3, <2>4, Zenon DEF MergedAt
<1>7. ASSUME NEW pr \in open, mergeLate(pr) PROVE MergedAt(q)'
  <2>1. q \in build.builds /\ UNCHANGED <<build, branch, cluster>>
    BY <1>2, <1>7, Zenon DEF mergeLate
  <2>2. pr.over <= pr.commit /\ (build.step # "none" => pr.commit <= build.commit) /\ values[pr.service] = pr.over
    BY <1>7, Zenon DEF mergeLate, InOrder
  <2>3. pr.over \in Nat /\ pr.commit \in Nat /\ pr.service \in Services
    BY <1>0, Zenon
  <2>4. build.step # "none" /\ values[q] = build.commit => values'[q] = build.commit
    <3>1. values' = [values EXCEPT ![pr.service] = pr.commit]
      BY <1>7, Zenon DEF mergeLate
    <3> QED BY <1>0, <2>1, <2>2, <2>3, <3>1
  <2>5. MergedAt(q)
    BY <1>1, <2>1, Zenon
  <2> QED BY <2>1, <2>4, <2>5, Zenon DEF MergedAt
<1>8. ASSUME NEW s \in Services, ArgoSync(s) PROVE MergedAt(q)'
  <2>1. q \in build.builds /\ UNCHANGED <<build, branch, values>> /\ q \in Services
    BY <1>0, <1>2, <1>8, Zenon DEF ArgoSync
  <2>2. cluster'[q] = cluster[q] \/ cluster'[q].image = values[q]
    BY <1>0, <1>8, <2>1, Zenon DEF ArgoSync
  <2>3. MergedAt(q)
    BY <1>1, <2>1, Zenon
  <2> QED BY <2>1, <2>2, <2>3, Zenon DEF MergedAt
<1>9. ASSUME NEW s \in Services, mergeGitOps(s), BranchMoves("publish", s, "merge", "list") PROVE MergedAt(q)'
  <2>1. UNCHANGED <<build, cluster>> /\ build.step = "publish" /\ q \in build.builds /\ q \in Services
    BY <1>0, <1>2, <1>9, Zenon DEF mergeGitOps
  <2>2. CASE q = s
    <3>1. values'[q] = build.commit
      BY <1>0, <1>9, <2>2, Zenon DEF mergeGitOps
    <3> QED BY <2>1, <3>1, Zenon DEF MergedAt
  <2>3. CASE q # s
    <3>1. values'[q] = values[q] /\ branch'[q] = branch[q]
      BY <1>0, <1>9, <2>1, <2>3, MovedBranch, Zenon DEF mergeGitOps
    <3>2. MergedAt(q)
      BY <1>1, <2>1, Zenon
    <3> QED BY <2>1, <3>1, <3>2, Zenon DEF MergedAt
  <2> QED BY <2>2, <2>3, Zenon
<1>10. ASSUME NEW s \in Services, NEW from, NEW to, BranchMoves("publish", s, from, to), UNCHANGED values,
              to = "failed" \/ from \in {"list", "write", "read", "record"}
       PROVE  MergedAt(q)'
  <2>1. UNCHANGED build /\ build.step = "publish" /\ q \in build.builds /\ q \in Services
    BY <1>0, <1>2, <1>10, Zenon DEF BranchMoves
  <2>2. MergedAt(q)
    BY <1>1, <2>1, Zenon
  <2>3. branch'[q] = branch[q] \/ (branch'[q] = to /\ branch[q] = from)
    <3>1. branch[s] = from
      BY <1>10, Zenon DEF BranchMoves
    <3>2. branch'[s] = to /\ \A x \in Services \ {s} : branch'[x] = branch[x]
      BY <1>10, MovedBranch, Zenon
    <3> QED BY <2>1, <3>1, <3>2, Zenon
  <2> QED BY <1>10, <2>1, <2>2, <2>3, Zenon DEF MergedAt
<1>11. ASSUME NEW s \in Services, NEW from, NEW to, BranchMoves("wait", s, from, to), UNCHANGED <<values, cluster>>,
              to = "stable" => cluster[s].image = build.commit
       PROVE  MergedAt(q)'
  <2>1. UNCHANGED build /\ build.step = "wait" /\ q \in build.builds /\ q \in Services
    BY <1>0, <1>2, <1>11, Zenon DEF BranchMoves
  <2>2. MergedAt(q)
    BY <1>1, <2>1, Zenon
  <2>3. branch'[q] = branch[q] \/ (branch'[q] = to /\ q = s)
    BY <1>11, <2>1, MovedBranch, Zenon
  <2> QED BY <1>11, <2>1, <2>2, <2>3, Zenon DEF MergedAt
<1>12. ASSUME NEW s \in Services,
              \/ listHead(s) /\ BranchMoves("publish", s, "list", "write")
              \/ writeHead(s) /\ BranchMoves("publish", s, "write", "read")
              \/ readHead(s) /\ BranchMoves("publish", s, "read", "record")
              \/ recordReleasing(s) /\ BranchMoves("publish", s, "record", "done")
              \/ publishFails(s) /\ BranchMoves("publish", s, branch[s], "failed")
       PROVE  MergedAt(q)'
  <2>1. UNCHANGED values
    BY <1>12, Zenon DEF listHead, writeHead, readHead, recordReleasing, publishFails
  <2> QED BY <1>10, <1>12, <2>1, Zenon
<1>13. ASSUME NEW s \in Services,
              \/ waitForRelease(s) /\ BranchMoves("wait", s, "wait", IF scriptEnds \/ release(s) \in sick THEN "fail" ELSE "stable")
              \/ waitTimesOut(s) /\ BranchMoves("wait", s, "wait", "fail")
              \/ recordStable(s) /\ BranchMoves("wait", s, "stable", "done")
              \/ recordStable(s) /\ BranchMoves("wait", s, "stable", "fail")
              \/ recordFailed(s) /\ BranchMoves("wait", s, "fail", "failed")
       PROVE  MergedAt(q)'
  <2>1. UNCHANGED <<values, cluster>>
    BY <1>13, Zenon DEF waitForRelease, waitTimesOut, recordStable, recordFailed
  <2>2. waitForRelease(s) => cluster[s].image = build.commit
    BY Zenon DEF waitForRelease, synced
  <2> QED BY <1>11, <1>13, <2>1, <2>2, Zenon
<1>14. CASE UNCHANGED deliveryVars \/ Trigger \/ \E d \in Diffs : Push(d)
  BY <1>4, <1>14, Zenon DEF Trigger, Push
<1> QED BY <1>3, <1>5, <1>6, <1>7, <1>8, <1>9, <1>12, <1>13, <1>14, Kinds, Zenon

-----------------------------------------------------------------------------
(* The records.                                                             *)

\* What can be added to the records.
LEMMA RecordFields ==
  ASSUME NEW s, NEW status, Record(s, status)
  PROVE  /\ status = "stable" => stable' = [stable EXCEPT ![s] = build.commit] /\ log' = log
         /\ status # "stable" => stable' = stable /\ log' = log \cup {<<s, status, build.commit>>}
BY Zenon DEF Record

\* A record names the commit of a push.
LEMMA RecordTyped ==
  ASSUME Shapes, InOrder, ~At("none"), Logged, NEW s \in Services, NEW status \in {"releasing", "failed"}
  PROVE  <<s, status, build.commit>> \in Services \X {"releasing", "failed"} \X DOMAIN pushes
<1>1. build.commit \in Nat /\ DOMAIN pushes = 1..Len(pushes) /\ Len(pushes) \in Nat
  BY DEF Shapes, Builds
<1>2. build.commit \in DOMAIN pushes
  BY <1>1 DEF InOrder
<1> QED BY <1>2, Zenon

\* The records grow, and pushes too.
LEMMA RecordsGrow ==
  ASSUME Shapes, Heads, InOrder, Logged, Moves
  PROVE  /\ log \subseteq log' /\ DOMAIN pushes \subseteq DOMAIN pushes'
         /\ log' \subseteq Services \X {"releasing", "failed"} \X DOMAIN pushes'
<1> USE DEF source, gitops, world, records, deliveryVars, At
<1> DEFINE Rows == Services \X {"releasing", "failed"} \X DOMAIN pushes
<1>1. log \subseteq Rows
  BY Zenon DEF Logged
<1>2. CASE UNCHANGED <<pushes, log>>
  BY <1>1, <1>2, Zenon
<1>3. ASSUME NEW s \in Services, NEW status \in {"releasing", "failed"}, Record(s, status), UNCHANGED pushes, ~At("none")
      PROVE  log \subseteq log' /\ DOMAIN pushes \subseteq DOMAIN pushes' /\ log' \subseteq Rows'
  <2>1. <<s, status, build.commit>> \in Rows
    BY <1>3, RecordTyped, Zenon
  <2>2. log' = log \cup {<<s, status, build.commit>>}
    BY <1>3, RecordFields, Zenon
  <2> QED BY <1>1, <1>3, <2>1, <2>2, Zenon
<1>4. ASSUME NEW d \in Pushed, Adds(d), UNCHANGED log
      PROVE  log \subseteq log' /\ DOMAIN pushes \subseteq DOMAIN pushes' /\ log' \subseteq Rows'
  <2>1. DOMAIN pushes \subseteq DOMAIN pushes'
    BY <1>4, PushFacts, Zenon DEF Adds
  <2> QED BY <1>1, <1>4, <2>1, Zenon
<1>9. ASSUME (\E d \in Diffs : Push(d)) \/ (\E pr \in open : mergeLate(pr)) \/ (\E s \in Services : mergeGitOps(s))
      PROVE  UNCHANGED log /\ \E d \in Pushed : Adds(d)
  <2>1. UNCHANGED log
    BY <1>9, Zenon DEF Push, mergeLate, mergeGitOps
  <2> QED BY <1>9, <2>1, AddsPush, AddsMerge, Merges, Zenon
<1>5. ASSUME NEW s \in Services, runServiceBranch(s)
      PROVE  UNCHANGED <<pushes, log>> \/ (Record(s, "releasing") /\ UNCHANGED pushes /\ ~At("none"))
  BY <1>5, Zenon DEF runServiceBranch
<1>6. ASSUME NEW s \in Services, recordReleasing(s) \/ recordStable(s) \/ recordFailed(s)
      PROVE  UNCHANGED <<pushes, log>> \/ \E status \in {"releasing", "failed"} : (Record(s, status) /\ UNCHANGED pushes /\ ~At("none"))
  <2>1. Record(s, "stable") => log' = log
    BY RecordFields, Zenon
  <2>2. ~At("none")
    BY <1>6, Zenon DEF recordReleasing, recordStable, recordFailed
  <2> QED BY <1>6, <2>1, <2>2, Zenon DEF recordReleasing, recordStable, recordFailed
<1>7. CASE UNCHANGED deliveryVars \/ Checkout \/ Detect \/ stageFails \/ startPublishing \/ startWaiting \/ endBuild
           \/ Trigger
  BY <1>2, <1>7, Zenon DEF Checkout, Detect, stageFails, startPublishing, startWaiting, endBuild, Trigger
<1>8. ASSUME NEW s \in Services,
             \/ listHead(s) \/ writeHead(s) \/ readHead(s) \/ publishFails(s)
             \/ waitForRelease(s) \/ waitTimesOut(s) \/ ArgoSync(s)
      PROVE  UNCHANGED <<pushes, log>>
  BY <1>8, Zenon DEF listHead, writeHead, readHead, publishFails, waitForRelease, waitTimesOut, ArgoSync
<1> QED BY <1>2, <1>3, <1>4, <1>5, <1>6, <1>7, <1>8, <1>9, Cases, Zenon

\* What the build has built stays in the records; the parallel stages begin once
\* every service has been built.
LEMMA BuiltStep ==
  ASSUME Shapes, Heads, InOrder, Logged, Built, Moves
  PROVE  Built'
<1> USE DEF source, deliveryVars, At
<1>1. log \subseteq log'
  BY RecordsGrow, Zenon
<1>2. ASSUME build'.builds = build.builds, build'.commit = build.commit, build'.done = build.done,
             build'.step = build.step \/ (build.step = "publish" /\ build'.step = "wait")
      PROVE  Built'
  BY <1>1, <1>2, Zenon DEF Built
<1>3. ASSUME build'.step \notin {"verify", "publish", "wait"} PROVE Built'
  BY <1>3, Zenon DEF Built
<1>4. CASE Checkout
  BY <1>3, <1>4, CheckoutFields, Zenon
<1>5. CASE Detect
  <2>1. build'.done = {} /\ build'.step \in {"end", "verify"}
    BY <1>5, DetectFields, Zenon
  <2> QED BY <2>1, Zenon DEF Built
<1>6. CASE EndsBuild
  BY <1>6, EndFields, Zenon DEF Built
<1>7. CASE startPublishing
  <2>1. CASE Goto("end")
    BY <1>3, <2>1, GotoFields
  <2>2. CASE Goto("publish")
    <3>1. build'.builds = build.builds /\ build'.commit = build.commit
      BY <2>2, GotoFields, Zenon
    <3>2. build.step = "verify" /\ build.builds \subseteq build.done
      BY <1>7, Zenon DEF startPublishing, Shapes
    <3> QED BY <1>1, <3>1, <3>2, Zenon DEF Built
  <2> QED BY <1>7, <2>1, <2>2, Zenon DEF startPublishing
<1>8. CASE startWaiting
  <2>1. CASE Goto("wait")
    BY <1>2, <1>8, <2>1, GotoFields, Zenon DEF startWaiting, stageDone
  <2> QED BY <1>6, <1>8, <2>1, Zenon DEF startWaiting
<1>9. ASSUME NEW s \in Services, runServiceBranch(s) PROVE Built'
  <2>1. /\ build.step = "verify" /\ build'.step = "verify" /\ build'.commit = build.commit
        /\ build'.builds = build.builds /\ build'.done = build.done \cup {s}
    BY <1>9, VerifyFields, Zenon
  <2>2. s \in build.builds => <<s, "releasing", build.commit>> \in log'
    <3>1. s \in build.builds => Record(s, "releasing")
      BY <1>9, Zenon DEF runServiceBranch
    <3> QED BY <3>1, RecordFields
  <2> QED BY <1>1, <2>1, <2>2, Zenon DEF Built
<1>10. CASE UNCHANGED build
  BY <1>2, <1>10, Zenon
<1>11. CASE stageFails \/ endBuild
  BY <1>6, <1>11, Zenon DEF stageFails, endBuild
<1> QED BY <1>4, <1>5, <1>7, <1>8, <1>9, <1>10, <1>11, Kinds, Zenon DEF BranchMoves, Idles

\* Which steps find an image sick, and which write the stable row.
LEMMA Findings ==
  ASSUME Shapes, Moves
  PROVE  /\ \/ UNCHANGED sick
            \/ \E s \in Services : /\ runServiceBranch(s) /\ Record(s, "releasing")
                                   /\ \E bad \in SUBSET ({release(s)} \ known) : sick' = sick \cup bad
         /\ \/ UNCHANGED stable
            \/ \E s \in Services : recordStable(s) /\ Record(s, "stable") /\ UNCHANGED sick
<1> USE DEF source, gitops, world, records, deliveryVars
<1>1. ASSUME NEW s \in Services, runServiceBranch(s)
      PROVE  /\ \/ UNCHANGED sick
                \/ Record(s, "releasing") /\ \E bad \in SUBSET ({release(s)} \ known) : sick' = sick \cup bad
             /\ UNCHANGED stable
  <2>1. Record(s, "releasing") => UNCHANGED stable
    BY RecordFields
  <2> QED BY <1>1, <2>1, Zenon DEF runServiceBranch
<1>2. ASSUME NEW s \in Services, recordReleasing(s) \/ recordFailed(s)
      PROVE  UNCHANGED <<sick, stable>>
  <2>1. (Record(s, "releasing") \/ Record(s, "failed")) => UNCHANGED stable
    BY RecordFields
  <2> QED BY <1>2, <2>1, Zenon DEF recordReleasing, recordFailed
<1>3. ASSUME NEW s \in Services, recordStable(s)
      PROVE  UNCHANGED sick /\ (UNCHANGED stable \/ Record(s, "stable"))
  BY <1>3, Zenon DEF recordStable
<1>4. CASE UNCHANGED deliveryVars \/ Checkout \/ Detect \/ stageFails \/ startPublishing \/ startWaiting \/ endBuild
           \/ Trigger \/ (\E d \in Diffs : Push(d)) \/ (\E pr \in open : mergeLate(pr))
  BY <1>4, Zenon DEF Checkout, Detect, stageFails, startPublishing, startWaiting, endBuild, Trigger, Push, mergeLate
<1>5. ASSUME NEW s \in Services,
             \/ mergeGitOps(s) \/ listHead(s) \/ writeHead(s) \/ readHead(s) \/ publishFails(s)
             \/ waitForRelease(s) \/ waitTimesOut(s) \/ ArgoSync(s)
      PROVE  UNCHANGED <<sick, stable>>
  BY <1>5, Zenon DEF mergeGitOps, listHead, writeHead, readHead, publishFails, waitForRelease, waitTimesOut, ArgoSync
<1> QED BY <1>1, <1>2, <1>3, <1>4, <1>5, Cases, Zenon

\* What is found sick has just been built for the first time.
LEMMA NewlySick ==
  ASSUME Shapes, InOrder, Logged, NEW s \in Services, runServiceBranch(s), Record(s, "releasing"),
         NEW r \in sick', r \notin sick,
         \E bad \in SUBSET ({release(s)} \ known) : sick' = sick \cup bad
  PROVE  /\ r = <<s, build.commit>> /\ build.commit \in Nat /\ build.commit # 1
         /\ <<s, "releasing", build.commit>> \in log' /\ <<s, "releasing", build.commit>> \notin log
<1>1. r = <<s, build.commit>> /\ r \notin known
  BY Zenon DEF release
<1>2. build.commit \in Nat /\ DOMAIN pushes = 1..Len(pushes) /\ Len(pushes) \in Nat
  BY DEF Shapes, Builds
<1>3. build.commit \in DOMAIN pushes
  <2>1. build.step # "none"
    BY VerifyFields, Zenon
  <2> QED BY <1>2, <2>1 DEF InOrder, At
<1>4. <<s, build.commit>> \in Services \X DOMAIN pushes /\ <<s, build.commit>>[1] = s /\ <<s, build.commit>>[2] = build.commit
  BY <1>3, Zenon
<1>5. ~(build.commit = 1 \/ <<s, "releasing", build.commit>> \in log)
  BY <1>1, <1>4, Zenon DEF known
<1>6. <<s, "releasing", build.commit>> \in log'
  BY RecordFields
<1> QED BY <1>1, <1>2, <1>5, <1>6, Zenon

\* Records come before the rollout, and what is known is not found sick later.
LEMMA LoggedStep ==
  ASSUME Shapes, Heads, Branches, InOrder, Logged, Built, Moves
  PROVE  Logged'
<1>1. log \subseteq log' /\ log' \subseteq Services \X {"releasing", "failed"} \X DOMAIN pushes'
  BY RecordsGrow, Zenon
<1>2. sick' \subseteq {r \in Services \X Nat : r[2] # 1 /\ <<r[1], "releasing", r[2]>> \in log'}
  <2>1. SUFFICES ASSUME NEW r \in sick'
                 PROVE  r \in Services \X Nat /\ r[2] # 1 /\ <<r[1], "releasing", r[2]>> \in log'
    BY Zenon
  <2>2. CASE r \in sick
    BY <1>1, <2>2, Zenon DEF Logged
  <2>3. CASE r \notin sick
    <3>1. PICK s \in Services : /\ runServiceBranch(s) /\ Record(s, "releasing")
                                /\ \E bad \in SUBSET ({release(s)} \ known) : sick' = sick \cup bad
      BY <2>3, Findings, Zenon
    <3>2. r = <<s, build.commit>> /\ build.commit \in Nat /\ build.commit # 1 /\ <<s, "releasing", build.commit>> \in log'
      BY <2>3, <3>1, NewlySick, Zenon
    <3> QED BY <3>2, Zenon
  <2> QED BY <2>2, <2>3, Zenon
<1>3. \A q \in Services : stable'[q] = 1 \/ <<q, "releasing", stable'[q]>> \in log'
  <2>1. CASE UNCHANGED stable
    BY <1>1, <2>1, Zenon DEF Logged
  <2>2. ASSUME NEW s \in Services, recordStable(s), Record(s, "stable")
        PROVE  \A q \in Services : stable'[q] = 1 \/ <<q, "releasing", stable'[q]>> \in log'
    <3>1. stable' = [stable EXCEPT ![s] = build.commit] /\ stable \in [Services -> Nat]
      BY <2>2, RecordFields, Zenon DEF Shapes
    <3>2. s \in build.builds /\ build.step = "wait"
      BY <2>2, Zenon DEF recordStable, Branches, At
    <3>3. <<s, "releasing", build.commit>> \in log
      BY <3>2, Zenon DEF Built
    <3>4. stable'[s] = build.commit /\ \A q \in Services \ {s} : stable'[q] = stable[q]
      BY <3>1, Zenon
    <3> QED BY <1>1, <3>3, <3>4, Zenon DEF Logged
  <2> QED BY <2>1, <2>2, Findings, Zenon
<1> QED BY <1>1, <1>2, <1>3, Zenon DEF Logged

\* The stable row never names a sick image.
LEMMA HealthyStep ==
  ASSUME Shapes, Heads, Branches, InOrder, Logged, Built, Healthy, Moves
  PROVE  Healthy'
<1> USE DEF source, gitops, world, records, deliveryVars, At
<1>1. \A q \in Services : <<q, stable'[q]>> \notin sick'
  <2>1. ASSUME NEW s \in Services, recordStable(s), Record(s, "stable"), UNCHANGED sick, NEW q \in Services
        PROVE  <<q, stable'[q]>> \notin sick'
    <3>1. stable' = [stable EXCEPT ![s] = build.commit] /\ stable \in [Services -> Nat]
      BY <2>1, RecordFields, Zenon DEF Shapes
    <3>2. s \in build.builds /\ build.step = "wait" /\ branch[s] = "stable"
      BY <2>1, Zenon DEF recordStable, Branches
    <3>3. <<s, build.commit>> \notin sick
      BY <3>2, Zenon DEF Healthy, release
    <3>4. stable'[s] = build.commit /\ (q # s => stable'[q] = stable[q])
      BY <3>1, Zenon
    <3> QED BY <2>1, <3>3, <3>4, Zenon DEF Healthy
  <2>2. ASSUME UNCHANGED stable, NEW q \in Services, <<q, stable[q]>> \in sick'
        PROVE  FALSE
    <3>1. <<q, stable[q]>> \notin sick
      BY <2>2, Zenon DEF Healthy
    <3>2. PICK s \in Services : /\ runServiceBranch(s) /\ Record(s, "releasing")
                                /\ \E bad \in SUBSET ({release(s)} \ known) : sick' = sick \cup bad
      BY <2>2, <3>1, Findings, Zenon
    <3>3. <<q, stable[q]>> = <<s, build.commit>> /\ build.commit # 1 /\ <<s, "releasing", build.commit>> \notin log
      BY <2>2, <3>1, <3>2, NewlySick, Zenon
    <3>4. q = s /\ stable[q] = build.commit
      BY <3>3, Zenon
    <3> QED BY <2>2, <3>3, <3>4, Zenon DEF Logged
  <2> QED BY <2>1, <2>2, Findings, Zenon
<1>2. SUFFICES ASSUME NEW q \in build'.builds, build'.step = "wait", branch'[q] = "stable"
               PROVE  <<q, build'.commit>> \notin sick'
  BY <1>1, Zenon DEF Healthy, release
<1>3. build.builds \subseteq Services
  BY Zenon DEF Shapes, Builds
<1>4. UNCHANGED sick
  <2>1. ASSUME NEW s \in Services, runServiceBranch(s) PROVE FALSE
    BY <1>2, <2>1, VerifyFields, Zenon
  <2> QED BY <2>1, Findings, Zenon
<1>5. CASE UNCHANGED build /\ branch'[q] = branch[q]
  BY <1>2, <1>4, <1>5, Zenon DEF Healthy, release
<1>6. ASSUME NEW stage, NEW first \in {"merge", "wait"}, Begins(stage, first) PROVE FALSE
  BY <1>2, <1>6, BegunBranches, Zenon
<1>7. ASSUME NEW s \in Services, NEW stage, NEW from, NEW to, to # "stable", BranchMoves(stage, s, from, to)
      PROVE  <<q, build'.commit>> \notin sick'
  <2>1. branch'[s] = to /\ (\A x \in Services \ {s} : branch'[x] = branch[x])
    BY <1>7, MovedBranch, Zenon
  <2>2. UNCHANGED build
    BY <1>7, Zenon DEF BranchMoves
  <2> QED BY <1>2, <1>3, <1>5, <1>7, <2>1, <2>2, Zenon
<1>8. ASSUME NEW s \in Services, waitForRelease(s),
             BranchMoves("wait", s, "wait", IF scriptEnds \/ release(s) \in sick THEN "fail" ELSE "stable")
      PROVE  <<q, build'.commit>> \notin sick'
  <2>1. CASE scriptEnds \/ release(s) \in sick
    BY <1>7, <1>8, <2>1, Zenon
  <2>2. CASE release(s) \notin sick
    <3>1. \A x \in Services \ {s} : branch'[x] = branch[x]
      BY <1>8, MovedBranch, Zenon
    <3>2. UNCHANGED build
      BY <1>8, Zenon DEF BranchMoves
    <3> QED BY <1>2, <1>3, <1>4, <1>5, <2>2, <3>1, <3>2, Zenon DEF release
  <2> QED BY <2>1, <2>2, Zenon
<1>9. CASE Idles
  BY <1>2, <1>9, Zenon DEF Idles
<1>10. CASE UNCHANGED <<build, branch>>
  BY <1>5, <1>10, Zenon
<1> QED BY <1>6, <1>7, <1>8, <1>9, <1>10, Kinds, Zenon

-----------------------------------------------------------------------------
(* Failures.                                                                *)

\* The agent is set up once.
LEMMA AgentStays ==
  ASSUME Moves
  PROVE  fixtureMode' = fixtureMode
<1> USE DEF world, deliveryVars
<1>1. CASE UNCHANGED deliveryVars \/ Checkout \/ Detect \/ stageFails \/ startPublishing \/ startWaiting \/ endBuild
           \/ Trigger \/ (\E d \in Diffs : Push(d)) \/ (\E pr \in open : mergeLate(pr))
  BY <1>1, Zenon DEF Checkout, Detect, stageFails, startPublishing, startWaiting, endBuild, Trigger, Push, mergeLate
<1>2. ASSUME NEW s \in Services,
             \/ runServiceBranch(s) \/ mergeGitOps(s) \/ listHead(s) \/ writeHead(s) \/ readHead(s)
             \/ recordReleasing(s) \/ publishFails(s)
      PROVE  fixtureMode' = fixtureMode
  BY <1>2, Zenon DEF runServiceBranch, mergeGitOps, listHead, writeHead, readHead, recordReleasing, publishFails
<1>3. ASSUME NEW s \in Services,
             \/ waitForRelease(s) \/ waitTimesOut(s) \/ recordStable(s) \/ recordFailed(s) \/ ArgoSync(s)
      PROVE  fixtureMode' = fixtureMode
  BY <1>3, Zenon DEF waitForRelease, waitTimesOut, recordStable, recordFailed, ArgoSync
<1> QED BY <1>1, <1>2, <1>3, Cases, Zenon

\* No reason is forgotten, and no miss.
LEMMA HistoriesGrow ==
  ASSUME Shapes, Moves
  PROVE  Reasons \subseteq Reasons' /\ overtaken \subseteq overtaken' /\ disturbed \subseteq disturbed' /\ missed \subseteq missed'
<1> USE DEF deliveryVars
<1> DEFINE Grow == overtaken \subseteq overtaken' /\ disturbed \subseteq disturbed' /\ missed \subseteq missed'
<1>1. ASSUME UNCHANGED deliveryVars \/ Checkout \/ Detect \/ stageFails \/ startPublishing \/ startWaiting \/ endBuild
             \/ Trigger
      PROVE  Grow
  BY <1>1, Zenon DEF Checkout, Detect, stageFails, startPublishing, startWaiting, endBuild, Trigger, Misses
<1>2. ASSUME (\E d \in Diffs : Push(d)) \/ (\E pr \in open : mergeLate(pr)) PROVE Grow
  BY <1>2, Zenon DEF Push, mergeLate, Merge, MovesHead
<1>3. ASSUME NEW s \in Services,
             \/ runServiceBranch(s) \/ mergeGitOps(s) \/ listHead(s) \/ writeHead(s) \/ readHead(s)
             \/ recordReleasing(s) \/ publishFails(s)
      PROVE  Grow
  BY <1>3, Zenon DEF runServiceBranch, mergeGitOps, Merge, MovesHead, listHead, writeHead, readHead, recordReleasing, publishFails
<1>4. ASSUME NEW s \in Services,
             \/ waitForRelease(s) \/ waitTimesOut(s) \/ recordStable(s) \/ recordFailed(s) \/ ArgoSync(s)
      PROVE  Grow
  BY <1>4, Zenon DEF waitForRelease, waitTimesOut, recordStable, recordFailed, ArgoSync
<1>5. sick \subseteq sick'
  BY Findings, Zenon
<1>6. Grow
  BY <1>1, <1>2, <1>3, <1>4, Cases, Zenon
<1> QED BY <1>5, <1>6, Zenon DEF Reasons

\* Only recordFailed records a failure.
LEMMA FailedRows ==
  ASSUME Shapes, Moves, NEW q, NEW c, <<q, "failed", c>> \in log', <<q, "failed", c>> \notin log
  PROVE  q \in Services /\ recordFailed(q) /\ c = build.commit
<1> USE DEF records, deliveryVars
<1>1. ~UNCHANGED log
  OBVIOUS
<1>2. ASSUME NEW s \in Services, Record(s, "releasing") PROVE FALSE
  <2>1. log' = log \cup {<<s, "releasing", build.commit>>}
    BY <1>2, RecordFields, Zenon
  <2> QED BY <2>1, Zenon
<1>3. ASSUME NEW s \in Services, Record(s, "stable") PROVE FALSE
  BY <1>1, <1>3, RecordFields, Zenon
<1>4. ASSUME NEW s \in Services, Record(s, "failed") PROVE q = s /\ c = build.commit
  <2>1. log' = log \cup {<<s, "failed", build.commit>>}
    BY <1>4, RecordFields, Zenon
  <2> QED BY <2>1, Zenon
<1>5. ASSUME UNCHANGED deliveryVars \/ Checkout \/ Detect \/ stageFails \/ startPublishing \/ startWaiting \/ endBuild
             \/ Trigger \/ (\E d \in Diffs : Push(d)) \/ (\E pr \in open : mergeLate(pr))
      PROVE  FALSE
  BY <1>1, <1>5, Zenon DEF Checkout, Detect, stageFails, startPublishing, startWaiting, endBuild, Trigger, Push, mergeLate
<1>6. ASSUME NEW s \in Services,
             \/ mergeGitOps(s) \/ listHead(s) \/ writeHead(s) \/ readHead(s) \/ publishFails(s)
             \/ waitForRelease(s) \/ waitTimesOut(s) \/ ArgoSync(s)
      PROVE  FALSE
  BY <1>1, <1>6, Zenon DEF mergeGitOps, listHead, writeHead, readHead, publishFails, waitForRelease, waitTimesOut, ArgoSync
<1>7. ASSUME NEW s \in Services, runServiceBranch(s) \/ recordReleasing(s) \/ recordStable(s) PROVE FALSE
  BY <1>1, <1>2, <1>3, <1>7, Zenon DEF runServiceBranch, recordReleasing, recordStable
<1>8. ASSUME NEW s \in Services, recordFailed(s) PROVE Record(s, "failed")
  BY <1>1, <1>8, Zenon DEF recordFailed
<1> QED BY <1>4, <1>5, <1>6, <1>7, <1>8, Cases, Zenon

\* A release that has read the head and is followed by another is marked.
LEMMA FollowedStep ==
  ASSUME Shapes, Heads, Branches, Moves, \A s \in build.builds : Followed(s) \/ release(s) \in overtaken,
         NEW q \in build'.builds
  PROVE  Followed(q)' \/ release(q)' \in overtaken'
<1> USE DEF source, gitops, revisions, world, records, deliveryVars, At, head
<1> DEFINE Goal == Followed(q)' \/ release(q)' \in overtaken'
<1>0. build.builds \subseteq Services /\ listed \in [Services -> Revisions] /\ configRev \in [Services -> Revisions]
  BY Zenon DEF Shapes, Builds, Heads
<1>1. overtaken \subseteq overtaken'
  BY HistoriesGrow, Zenon
<1>2. CASE Idles
  BY <1>2, Zenon DEF Idles, Followed
<1>3. ASSUME UNCHANGED <<build, branch, pushes, revisions>> PROVE Goal
  BY <1>1, <1>3, Zenon DEF Followed, release
<1>4. ASSUME NEW d, MovesHead(d), UNCHANGED build, branch'[q] = branch[q] PROVE Goal
  <2>1. q \in build.builds /\ release(q)' = release(q)
    BY <1>4, Zenon DEF release
  <2>2. CASE \/ build.step = "publish" /\ branch[q] \in {"write", "read", "record", "done"}
             \/ build.step = "wait" /\ branch[q] = "wait"
    <3>1. release(q) \in haveRead
      BY <2>1, <2>2, Zenon DEF haveRead
    <3> QED BY <1>4, <2>1, <3>1, Zenon DEF MovesHead
  <2>3. CASE ~(\/ build.step = "publish" /\ branch[q] \in {"write", "read", "record", "done"}
               \/ build.step = "wait" /\ branch[q] = "wait")
    BY <1>4, <2>3, Zenon DEF Followed
  <2> QED BY <2>2, <2>3, Zenon
<1>5. CASE Begins("publish", "merge")
  <2>1. branch'[q] = "merge" /\ build'.step = "publish"
    BY <1>5, BegunBranches, GotoFields, Zenon DEF Begins
  <2> QED BY <2>1, Zenon DEF Followed
<1>6. CASE startWaiting /\ stageOK /\ Begins("wait", "wait")
  <2>1. branch'[q] = "wait" /\ q \in build.builds /\ q \in Services
    BY <1>6, BegunBranches, Zenon
  <2>2. build'.step = "wait" /\ build'.commit = build.commit /\ build.step = "publish" /\ branch[q] = "done"
    BY <1>6, <2>1, GotoFields, Zenon DEF Begins, startWaiting, stageDone, stageOK
  <2>3. configRev[q] \in {head, NoRevision} \/ release(q) \in overtaken
    BY <2>1, <2>2, Zenon DEF Followed
  <2>4. UNCHANGED <<pushes, overtaken>> /\ (UNCHANGED configRev \/ EndsBuild)
    BY <1>6, Zenon DEF startWaiting
  <2>5. ~EndsBuild
    BY <2>2, EndFields, Zenon
  <2> QED BY <2>1, <2>2, <2>3, <2>4, <2>5, Zenon DEF Followed, release
<1>7. ASSUME NEW s \in Services, mergeGitOps(s), BranchMoves("publish", s, "merge", "list") PROVE Goal
  <2>1. MovesHead(ValuesChange) /\ UNCHANGED build /\ build'.step = "publish" /\ q \in Services
    BY <1>0, <1>7, Zenon DEF mergeGitOps, Merge
  <2>2. branch'[s] = "list" /\ \A x \in Services \ {s} : branch'[x] = branch[x]
    BY <1>7, MovedBranch, Zenon
  <2>3. CASE q = s
    BY <2>1, <2>2, <2>3, Zenon DEF Followed
  <2> QED BY <1>4, <2>1, <2>2, <2>3, Zenon
<1>8. ASSUME NEW s \in Services, listHead(s), BranchMoves("publish", s, "list", "write") PROVE Goal
  <2>1. UNCHANGED <<build, pushes, configRev>> /\ build.step = "publish" /\ q \in build.builds /\ q \in Services
    BY <1>0, <1>8, Zenon DEF listHead
  <2>2. branch'[s] = "write" /\ \A x \in Services \ {s} : branch'[x] = branch[x]
    BY <1>8, MovedBranch, Zenon
  <2>3. headFile' = NoRevision /\ listed'[s] \in {head, NoRevision} /\ \A x \in Services \ {s} : listed'[x] = listed[x]
    BY <1>0, <1>8, Zenon DEF listHead
  <2>4. CASE q = s
    BY <2>1, <2>2, <2>3, <2>4, Zenon DEF Followed
  <2>5. CASE q # s
    <3>1. branch'[q] = branch[q] /\ listed'[q] = listed[q]
      BY <2>1, <2>2, <2>3, <2>5, Zenon
    <3> QED BY <1>1, <2>1, <2>3, <3>1, Zenon DEF Followed, release
  <2> QED BY <2>4, <2>5, Zenon
<1>9. ASSUME NEW s \in Services, writeHead(s), BranchMoves("publish", s, "write", "read") PROVE Goal
  <2>1. UNCHANGED <<build, pushes, configRev>> /\ build.step = "publish" /\ q \in build.builds /\ q \in Services
    BY <1>0, <1>9, Zenon DEF writeHead
  <2>2. branch'[s] = "read" /\ \A x \in Services \ {s} : branch'[x] = branch[x]
    BY <1>9, MovedBranch, Zenon
  <2>3. /\ headFile' = listed[s] /\ overtaken' = overtaken \cup crossing(s) /\ branch[s] = "write"
        /\ \A x \in Services \ {s} : listed'[x] = listed[x]
    BY <1>0, <1>9, Zenon DEF writeHead
  <2>4. CASE q = s
    <3>1. listed[s] \in {head, NoRevision} \/ release(q) \in overtaken
      BY <2>1, <2>3, <2>4, Zenon DEF Followed
    <3> QED BY <1>1, <2>1, <2>2, <2>3, <2>4, <3>1, Zenon DEF Followed, release
  <2>5. CASE q # s /\ branch[q] = "read" /\ listed[s] \notin {head, NoRevision}
    <3>1. release(q) \in crossing(s)
      BY <2>1, <2>5, Zenon DEF crossing
    <3> QED BY <2>1, <2>3, <3>1, Zenon DEF release
  <2>6. CASE q # s /\ ~(branch[q] = "read" /\ listed[s] \notin {head, NoRevision})
    <3>1. branch'[q] = branch[q] /\ listed'[q] = listed[q]
      BY <2>1, <2>2, <2>3, <2>6, Zenon
    <3> QED BY <1>1, <2>1, <2>3, <2>6, <3>1, Zenon DEF Followed, release
  <2> QED BY <2>4, <2>5, <2>6, Zenon
<1>10. ASSUME NEW s \in Services, readHead(s), BranchMoves("publish", s, "read", "record") PROVE Goal
  <2>1. UNCHANGED <<build, pushes, headFile, listed>> /\ build.step = "publish" /\ q \in build.builds /\ q \in Services
    BY <1>0, <1>10, Zenon DEF readHead
  <2>2. branch'[s] = "record" /\ \A x \in Services \ {s} : branch'[x] = branch[x]
    BY <1>10, MovedBranch, Zenon
  <2>3. configRev'[s] = headFile /\ branch[s] = "read" /\ \A x \in Services \ {s} : configRev'[x] = configRev[x]
    BY <1>0, <1>10, Zenon DEF readHead
  <2>4. CASE q = s
    <3>1. headFile \in {head, NoRevision} \/ release(q) \in overtaken
      BY <2>1, <2>3, <2>4, Zenon DEF Followed
    <3> QED BY <1>1, <2>1, <2>2, <2>3, <2>4, <3>1, Zenon DEF Followed, release
  <2>5. CASE q # s
    <3>1. branch'[q] = branch[q] /\ configRev'[q] = configRev[q]
      BY <2>1, <2>2, <2>3, <2>5, Zenon
    <3> QED BY <1>1, <2>1, <3>1, Zenon DEF Followed, release
  <2> QED BY <2>4, <2>5, Zenon
<1>11. ASSUME NEW s \in Services, NEW stage, NEW from, NEW to, BranchMoves(stage, s, from, to),
              UNCHANGED <<pushes, revisions>>,
              \/ from = "record" /\ to = "done" /\ stage = "publish"
              \/ to \in {"failed", "fail", "stable"}
              \/ stage = "wait" /\ to # "wait"
       PROVE  Goal
  <2>1. UNCHANGED build /\ build.step = stage /\ branch[s] = from /\ q \in build.builds /\ q \in Services
    BY <1>0, <1>11, Zenon DEF BranchMoves
  <2>2. branch'[s] = to /\ \A x \in Services \ {s} : branch'[x] = branch[x]
    BY <1>11, MovedBranch, Zenon
  <2>3. CASE q = s
    BY <1>1, <1>11, <2>1, <2>2, <2>3, Zenon DEF Followed, release
  <2>4. CASE q # s
    <3>1. branch'[q] = branch[q]
      BY <2>1, <2>2, <2>4, Zenon
    <3> QED BY <1>1, <1>11, <2>1, <3>1, Zenon DEF Followed, release
  <2> QED BY <2>3, <2>4, Zenon
<1>12. ASSUME NEW s \in Services,
              \/ recordReleasing(s) \/ publishFails(s) \/ waitForRelease(s) \/ waitTimesOut(s)
              \/ recordStable(s) \/ recordFailed(s)
       PROVE  UNCHANGED <<pushes, revisions>>
  BY <1>12, Zenon DEF recordReleasing, publishFails, waitForRelease, waitTimesOut, recordStable, recordFailed
<1>13. ASSUME NEW s \in Services, waitForRelease(s),
              BranchMoves("wait", s, "wait", IF scriptEnds \/ release(s) \in sick THEN "fail" ELSE "stable")
       PROVE  Goal
  BY <1>11, <1>12, <1>13, Zenon
<1>14. ASSUME (\E d \in Diffs : Push(d)) \/ (\E pr \in open : mergeLate(pr)) PROVE Goal
  BY <1>4, <1>14, Zenon DEF Push, mergeLate, Merge
<1>15. ASSUME UNCHANGED deliveryVars \/ Trigger \/ \E s \in Services : ArgoSync(s) PROVE Goal
  BY <1>3, <1>15, Zenon DEF Trigger, ArgoSync
<1>16. ASSUME NEW s \in Services,
              \/ recordReleasing(s) /\ BranchMoves("publish", s, "record", "done")
              \/ publishFails(s) /\ BranchMoves("publish", s, branch[s], "failed")
              \/ waitTimesOut(s) /\ BranchMoves("wait", s, "wait", "fail")
              \/ recordStable(s) /\ BranchMoves("wait", s, "stable", "done")
              \/ recordStable(s) /\ BranchMoves("wait", s, "stable", "fail")
              \/ recordFailed(s) /\ BranchMoves("wait", s, "fail", "failed")
       PROVE  Goal
  BY <1>11, <1>12, <1>16, Zenon
<1> QED BY <1>2, <1>5, <1>6, <1>7, <1>8, <1>9, <1>10, <1>13, <1>14, <1>15, <1>16, Kinds, Zenon

\* A branch is about to record a failure only if there is a reason for it: the
\* script did not end by itself, so the image was sick, a step failed, or Argo CD had
\* caught up with a head that was not the revision waited for.
LEMMA FailingStep ==
  ASSUME Shapes, Heads, Branches, Merged, Moves, ~scriptEnds,
         \A s \in build.builds : Followed(s) \/ release(s) \in overtaken,
         \A s \in build.builds : At("wait") /\ branch[s] = "fail" => release(s) \in Reasons,
         NEW q \in build'.builds, build'.step = "wait", branch'[q] = "fail"
  PROVE  release(q)' \in Reasons'
<1> USE DEF At
<1>0. build.builds \subseteq Services /\ Reasons \subseteq Reasons'
  BY HistoriesGrow, Zenon DEF Shapes, Builds
<1>1. ASSUME UNCHANGED build, branch'[q] = branch[q] PROVE release(q)' \in Reasons'
  BY <1>0, <1>1, Zenon DEF release
<1>2. ASSUME NEW stage, NEW first \in {"merge", "wait"}, Begins(stage, first) PROVE FALSE
  BY <1>2, BegunBranches, Zenon
<1>3. ASSUME NEW s \in Services, NEW stage, NEW from, NEW to, BranchMoves(stage, s, from, to),
             to = "fail" /\ q = s => release(q) \in Reasons'
      PROVE  release(q)' \in Reasons'
  <2>1. branch'[s] = to /\ (\A x \in Services \ {s} : branch'[x] = branch[x])
    BY <1>3, MovedBranch, Zenon
  <2>2. UNCHANGED build
    BY <1>3, Zenon DEF BranchMoves
  <2> QED BY <1>0, <1>1, <1>3, <2>1, <2>2, Zenon DEF release
<1>4. ASSUME NEW s \in Services, waitForRelease(s),
             BranchMoves("wait", s, "wait", IF scriptEnds \/ release(s) \in sick THEN "fail" ELSE "stable")
      PROVE  release(q)' \in Reasons'
  <2>1. release(s) \in sick => release(s) \in Reasons'
    BY <1>0, Zenon DEF Reasons
  <2> QED BY <1>3, <1>4, <2>1, Zenon
<1>5. ASSUME NEW s \in Services, waitTimesOut(s), BranchMoves("wait", s, "wait", "fail")
      PROVE  release(q)' \in Reasons'
  <2>1. CASE disturbed' = disturbed \cup {release(s)}
    <3>1. release(s) \in Reasons'
      BY <2>1, Zenon DEF Reasons
    <3> QED BY <1>3, <1>5, <3>1, Zenon
  <2>2. CASE ~synced(s) /\ cluster[s] = [image |-> values[s], rev |-> head]
    <3>1. build.step = "wait" /\ branch[s] = "wait"
      BY <1>5, Zenon DEF waitTimesOut
    <3>2. s \in build.builds
      BY <3>1, Zenon DEF Branches
    <3>3. values[s] = build.commit
      BY <3>1, <3>2, Zenon DEF Merged
    <3>4. cluster[s].image = build.commit /\ cluster[s].rev = head
      BY <2>2, <3>3
    <3>5. configRev[s] \notin {head, NoRevision}
      BY <2>2, <3>4, Zenon DEF synced
    <3>6. release(s) \in overtaken
      BY <3>1, <3>2, <3>5, Zenon DEF Followed
    <3>7. release(s) \in Reasons'
      BY <1>0, <3>6, Zenon DEF Reasons
    <3> QED BY <1>3, <1>5, <3>7, Zenon
  <2> QED BY <1>5, <2>1, <2>2, Zenon DEF waitTimesOut
<1>6. ASSUME NEW s \in Services, disturbed' = disturbed \cup {release(s)}, BranchMoves("wait", s, "stable", "fail")
      PROVE  release(q)' \in Reasons'
  <2>1. release(s) \in Reasons'
    BY <1>6, Zenon DEF Reasons
  <2> QED BY <1>3, <1>6, <2>1, Zenon
<1>7. ASSUME NEW s \in Services, NEW stage, NEW from, NEW to, to # "fail", BranchMoves(stage, s, from, to)
      PROVE  release(q)' \in Reasons'
  BY <1>3, <1>7, Zenon
<1>8. CASE Idles
  BY <1>8, Zenon DEF Idles
<1>9. CASE UNCHANGED <<build, branch>>
  BY <1>1, <1>9, Zenon
<1> QED BY <1>2, <1>4, <1>5, <1>6, <1>7, <1>8, <1>9, Kinds, Zenon

\* A recorded failure has a reason.
LEMMA ReasonedStep ==
  ASSUME Shapes, Heads, Branches, InOrder, Merged, Logged, Reasoned, Moves
  PROVE  Reasoned'
<1>0. SUFFICES ASSUME ~scriptEnds'
               PROVE  /\ \A s \in build'.builds : Followed(s)' \/ release(s)' \in overtaken'
                      /\ \A s \in build'.builds : build'.step = "wait" /\ branch'[s] = "fail" => release(s)' \in Reasons'
                      /\ \A s \in Services, c \in DOMAIN pushes' : <<s, "failed", c>> \in log' => <<s, c>> \in Reasons'
  BY Zenon DEF Reasoned, At
<1>1. ~scriptEnds
  BY <1>0, AgentStays, Zenon DEF scriptEnds
<1>2. /\ \A s \in build.builds : Followed(s) \/ release(s) \in overtaken
      /\ \A s \in build.builds : At("wait") /\ branch[s] = "fail" => release(s) \in Reasons
      /\ \A s \in Services, c \in DOMAIN pushes : <<s, "failed", c>> \in log => <<s, c>> \in Reasons
  BY <1>1, Zenon DEF Reasoned
<1>3. \A s \in build'.builds : Followed(s)' \/ release(s)' \in overtaken'
  BY <1>2, FollowedStep, Zenon
<1>4. \A s \in build'.builds : build'.step = "wait" /\ branch'[s] = "fail" => release(s)' \in Reasons'
  BY <1>1, <1>2, FailingStep, Zenon
<1>5. ASSUME NEW s \in Services, NEW c, <<s, "failed", c>> \in log'
      PROVE  <<s, c>> \in Reasons'
  <2>1. Reasons \subseteq Reasons'
    BY HistoriesGrow, Zenon
  <2>2. CASE <<s, "failed", c>> \in log
    <3>1. c \in DOMAIN pushes
      BY <2>2, Zenon DEF Logged
    <3> QED BY <1>2, <2>1, <2>2, <3>1, Zenon
  <2>3. CASE <<s, "failed", c>> \notin log
    <3>1. recordFailed(s) /\ c = build.commit
      BY <1>5, <2>3, FailedRows
    <3>2. build.step = "wait" /\ branch[s] = "fail"
      BY <3>1, Zenon DEF recordFailed, At
    <3>3. s \in build.builds
      BY <3>2, Zenon DEF Branches, At
    <3> QED BY <1>2, <2>1, <3>1, <3>2, <3>3, Zenon DEF release, At
  <2> QED BY <2>2, <2>3, Zenon
<1> QED BY <1>3, <1>4, <1>5, Zenon

\* A branch that has ended left its record, or its step is known to have failed.
LEMMA EndedStep ==
  ASSUME Shapes, Heads, Branches, InOrder, Logged, Ended, Moves
  PROVE  Ended'
<1> USE DEF At
<1> DEFINE EndedAt(s) == build.step = "wait" =>
      /\ branch[s] = "done" => stable[s] = build.commit
      /\ branch[s] = "failed" => <<s, "failed", build.commit>> \in log \/ <<s, build.commit>> \in disturbed
<1>0. build.builds \subseteq Services /\ stable \in [Services -> Nat]
  BY Zenon DEF Shapes, Builds
<1>1. \A s \in build.builds : EndedAt(s)
  BY Zenon DEF Ended, release
<1>2. SUFFICES ASSUME NEW q \in build'.builds PROVE EndedAt(q)'
  BY Zenon DEF Ended, release
<1> HIDE DEF EndedAt
<1>3. log \subseteq log' /\ disturbed \subseteq disturbed'
  BY RecordsGrow, HistoriesGrow, Zenon
<1>4. ASSUME UNCHANGED build, branch'[q] = branch[q], stable'[q] = stable[q] PROVE EndedAt(q)'
  BY <1>1, <1>2, <1>3, <1>4, Zenon DEF EndedAt
<1>5. ASSUME NEW s \in Services, recordStable(s), Record(s, "stable"), BranchMoves("wait", s, "stable", "done")
      PROVE  EndedAt(q)'
  <2>1. stable' = [stable EXCEPT ![s] = build.commit]
    BY <1>5, RecordFields, Zenon
  <2>2. UNCHANGED build
    BY <1>5, Zenon DEF BranchMoves
  <2>3. branch'[s] = "done" /\ (\A x \in Services \ {s} : branch'[x] = branch[x])
    BY <1>5, MovedBranch, Zenon
  <2>4. CASE q = s
    <3>1. stable'[q] = build.commit
      BY <1>0, <2>1, <2>4, Zenon
    <3> QED BY <2>2, <2>3, <2>4, <3>1, Zenon DEF EndedAt
  <2>5. CASE q # s
    <3>1. stable'[q] = stable[q] /\ branch'[q] = branch[q]
      BY <1>0, <1>2, <2>1, <2>2, <2>3, <2>5, Zenon
    <3> QED BY <1>4, <2>2, <3>1, Zenon
  <2> QED BY <2>4, <2>5, Zenon
<1>6. CASE UNCHANGED stable
  <2>1. ASSUME NEW s \in Services, NEW stage, NEW from, NEW to, BranchMoves(stage, s, from, to),
               q = s /\ stage = "wait" => /\ to # "done"
                                          /\ to = "failed" => <<s, "failed", build.commit>> \in log' \/ <<s, build.commit>> \in disturbed'
        PROVE  EndedAt(q)'
    <3>1. branch'[s] = to /\ (\A x \in Services \ {s} : branch'[x] = branch[x])
      BY <2>1, MovedBranch, Zenon
    <3>2. UNCHANGED build /\ build.step = stage
      BY <2>1, Zenon DEF BranchMoves
    <3>3. CASE q = s
      BY <2>1, <3>1, <3>2, <3>3, Zenon DEF EndedAt
    <3> QED BY <1>0, <1>2, <1>4, <1>6, <3>1, <3>2, <3>3, Zenon
  <2>2. ASSUME NEW stage, NEW first \in {"merge", "wait"}, Begins(stage, first) PROVE EndedAt(q)'
    <3>1. branch'[q] = first
      BY <1>2, <2>2, BegunBranches, Zenon
    <3> QED BY <3>1, Zenon DEF EndedAt
  <2>3. ASSUME NEW s \in Services, recordFailed(s)
        PROVE  <<s, "failed", build.commit>> \in log' \/ <<s, build.commit>> \in disturbed'
    <3>1. Record(s, "failed") => <<s, "failed", build.commit>> \in log'
      BY RecordFields
    <3> QED BY <2>3, <3>1, Zenon DEF recordFailed, release
  <2>4. ASSUME NEW s \in Services, recordFailed(s), BranchMoves("wait", s, "fail", "failed") PROVE EndedAt(q)'
    BY <2>1, <2>3, <2>4, Zenon
  <2>5. ASSUME NEW s \in Services, NEW from, NEW to, BranchMoves("publish", s, from, to) PROVE EndedAt(q)'
    BY <2>1, <2>5, Zenon
  <2>6. ASSUME NEW s \in Services, NEW from, NEW to \in {"fail", "stable"}, BranchMoves("wait", s, from, to) PROVE EndedAt(q)'
    BY <2>1, <2>6, Zenon
  <2>7. ASSUME NEW s \in Services,
               BranchMoves("wait", s, "wait", IF scriptEnds \/ release(s) \in sick THEN "fail" ELSE "stable")
        PROVE  EndedAt(q)'
    BY <2>6, <2>7, Zenon
  <2>8. CASE Idles
    BY <2>8, Zenon DEF Idles, EndedAt
  <2>9. CASE UNCHANGED <<build, branch>>
    BY <1>4, <1>6, <2>9, Zenon
  <2>10. "fail" \in {"fail", "stable"}
    OBVIOUS
  <2> QED BY <1>5, <2>2, <2>4, <2>5, <2>6, <2>7, <2>8, <2>9, <2>10, Kinds, Zenon
<1>7. ASSUME NEW s \in Services, recordStable(s), Record(s, "stable") PROVE EndedAt(q)'
  <2>1. CASE BranchMoves("wait", s, "stable", "done")
    BY <1>5, <1>7, <2>1, Zenon
  <2>2. CASE UNCHANGED records
    BY <1>6, <2>2, Zenon DEF records
  <2> QED BY <1>7, <2>1, <2>2, Zenon DEF recordStable, BranchTo, BranchMoves
<1> QED BY <1>6, <1>7, Findings, Zenon

-----------------------------------------------------------------------------
(* Delivery of what was pushed.                                             *)

\* The changes that Evaluate gets for a diff.
Changes(diff) == [i \in DOMAIN diff |-> ParseNameStatus(diff[i])]

\* A file of a line is the path of its change, or was moved or copied: then the
\* status is not one that Evaluate takes as safe.
LEMMA FileOfLine ==
  ASSUME NEW line, isLine(line), NEW f \in Range(line.files), ~ignorable(f)
  PROVE  unsafe(ParseNameStatus(line)) \/ f = ParseNameStatus(line).path
<1>1. NoFile \notin Range(line.files)
  BY Zenon DEF isLine
<1>2. CASE line.status \in {"R", "C"}
  <2>1. DOMAIN line.files = 1..2
    BY <1>2, Zenon DEF isLine
  <2>2. f = line.files[1] \/ f = line.files[2]
    BY <2>1 DEF Range
  <2>3. /\ ParseNameStatus(line).status = line.status /\ ParseNameStatus(line).old = line.files[1]
        /\ ParseNameStatus(line).path = line.files[2]
    BY <1>2, Zenon DEF ParseNameStatus
  <2>4. CASE f = line.files[1]
    <3>1. ~changeIsIgnorable(ParseNameStatus(line))
      BY <1>1, <2>3, <2>4, Zenon DEF changeIsIgnorable
    <3> QED BY <1>2, <2>3, <3>1, Zenon DEF unsafe
  <2> QED BY <2>2, <2>3, <2>4, Zenon
<1>3. CASE line.status \notin {"R", "C"}
  <2>1. DOMAIN line.files = 1..1
    BY <1>3, Zenon DEF isLine
  <2>2. f = line.files[1]
    BY <2>1 DEF Range
  <2>3. ParseNameStatus(line).path = line.files[1]
    BY <1>3, Zenon DEF ParseNameStatus
  <2> QED BY <2>2, <2>3, Zenon
<1> QED BY <1>2, <1>3, Zenon

\* ecampus-impact selects every service whose code a diff changes, whatever else is
\* in the diff.
LEMMA ImpactSelects ==
  ASSUME NEW diff \in Diffs, NEW s \in Services, changesRuntime(s, diff)
  PROVE  s \in EvaluateDiff(diff).builds
<1> DEFINE changes == Changes(diff)
           files == changedPaths(changes)
           stops == {i \in DOMAIN changes : selectsAll(changes[i].path)}
           taken == {c.path : c \in {c \in Range(changes) : ~ignorable(c.path)}}
           rest == [tests |-> UNION {testedFor(f) : f \in taken}, builds |-> UNION {builtFor(f) : f \in taken},
                    proto |-> \E f \in taken : f.class = "proto", fallback |-> FALSE]
<1>1. PICK i \in DOMAIN diff : \E f \in Range(diff[i].files) :
        ~ignorable(f) /\ f.class = "code" /\ ~f.test /\ f.pkg \in Deps({Entrypoint[s]})
  BY Zenon DEF changesRuntime
<1>2. PICK f \in Range(diff[i].files) :
        ~ignorable(f) /\ f.class = "code" /\ ~f.test /\ f.pkg \in Deps({Entrypoint[s]})
  BY <1>1, Zenon
<1>3. isLine(diff[i])
  BY DeliveryAssumption, Zenon
<1>4. DOMAIN changes = DOMAIN diff /\ changes[i] = ParseNameStatus(diff[i])
  BY Zenon DEF Changes
<1>5. changes[i] \in Range(changes)
  BY <1>4, Zenon DEF Range
<1>6. \A b : FullResult(files, b).builds = Services
  BY Zenon DEF FullResult
<1>7. CASE \E c \in Range(changes) : unsafe(c)
  <2>1. Evaluate(changes) = FullResult(files, TRUE)
    BY <1>7, Zenon DEF Evaluate
  <2> QED BY <1>6, <2>1, Zenon DEF EvaluateDiff, Changes
<1>8. CASE ~(\E c \in Range(changes) : unsafe(c)) /\ stops # {}
  <2>1. \E b : Evaluate(changes) = FullResult(files, b)
    BY <1>8, Zenon DEF Evaluate
  <2> QED BY <1>6, <2>1, Zenon DEF EvaluateDiff, Changes
<1>9. CASE ~(\E c \in Range(changes) : unsafe(c)) /\ stops = {}
  <2>1. Evaluate(changes) = rest
    BY <1>9, Zenon DEF Evaluate
  <2>2. rest.builds = UNION {builtFor(g) : g \in taken}
    OBVIOUS
  <2>3. f = changes[i].path
    BY <1>2, <1>3, <1>4, <1>5, <1>9, FileOfLine, Zenon
  <2>4. f \in taken
    BY <1>2, <1>5, <2>3, Zenon
  <2>5. s \in builtFor(f)
    BY <1>2, Zenon DEF builtFor, RuntimePackages
  <2> QED BY <2>1, <2>2, <2>4, <2>5, Zenon DEF EvaluateDiff, Changes
<1> QED BY <1>7, <1>8, <1>9, Zenon

\* A change of values is no change of code.
LEMMA ValuesAreNoCode ==
  ASSUME NEW s \in Services
  PROVE  ~changesRuntime(s, ValuesChange)
<1>1. ASSUME NEW i \in DOMAIN ValuesChange, NEW f \in Range(ValuesChange[i].files) PROVE f = ValuesFile
  <2>1. i = 1 /\ ValuesChange[1].files = <<ValuesFile>>
    BY DEF ValuesChange
  <2>2. \A x \in DOMAIN <<ValuesFile>> : <<ValuesFile>>[x] = ValuesFile
    OBVIOUS
  <2> QED BY <2>1, <2>2, Zenon DEF Range
<1>2. ValuesFile.pkg = NoPackage
  BY DEF ValuesFile
<1> QED BY <1>1, <1>2, Zenon DEF changesRuntime

\* The build of a push builds every service whose code the push changes.
LEMMA BuildSelects ==
  ASSUME Shapes, NEW i \in DOMAIN pushes, NEW s \in Services, changesRuntime(s, pushes[i]), NEW r \in impactOf(i)
  PROVE  s \in r.builds
<1>1. pushes[i] \in Pushed /\ i # 0
  BY DEF Shapes
<1>2. pushes[i] \in Diffs
  <2>1. ~changesRuntime(s, <<>>)
    BY DEF changesRuntime
  <2> QED BY <1>1, <2>1, ValuesAreNoCode, Zenon DEF Pushed
<1>3. s \in EvaluateDiff(pushes[i]).builds
  BY <1>2, ImpactSelects, Zenon
<1>4. FullResult({}, FALSE).builds = Services /\ runFails({}).builds = Services
  BY Zenon DEF FullResult, runFails
<1> QED BY <1>1, <1>3, <1>4, Zenon DEF impactOf

\* What came of a push for a service stays.
LEMMA SettledStays ==
  ASSUME Shapes, Shapes', Heads, InOrder, Logged, Moves, goesForward,
         NEW i \in DOMAIN pushes, NEW s \in Services, Settled(i, s)
  PROVE  Settled(i, s)'
<1>1. /\ values[s] \in Nat /\ stable[s] \in Nat /\ i \in Nat /\ Len(pushes) \in Nat
      /\ DOMAIN pushes = 1..Len(pushes)
  BY SeqFacts, Zenon DEF Shapes
<1>2. values'[s] \in Nat /\ stable'[s] \in Nat /\ Len(pushes') \in Nat /\ DOMAIN pushes' = 1..Len(pushes')
  BY SeqFacts, Zenon DEF Shapes
<1>3. log \subseteq log' /\ DOMAIN pushes \subseteq DOMAIN pushes' /\ disturbed \subseteq disturbed'
  BY RecordsGrow, HistoriesGrow, Zenon
<1>4. values'[s] >= values[s] /\ stable'[s] >= stable[s]
  BY Zenon DEF goesForward
<1>5. Len(pushes) <= Len(pushes')
  BY <1>1, <1>2, <1>3
<1>6. values'[s] >= i
  BY <1>1, <1>2, <1>4 DEF Settled
<1>7. CASE stable[s] >= i
  <2>1. stable'[s] >= i
    BY <1>1, <1>2, <1>4, <1>7
  <2> QED BY <1>6, <2>1, Zenon DEF Settled
<1>8. CASE \E c \in i..Len(pushes) : <<s, "failed", c>> \in log \/ <<s, c>> \in disturbed
  <2>1. i..Len(pushes) \subseteq i..Len(pushes')
    BY <1>1, <1>2, <1>5
  <2> QED BY <1>3, <1>6, <1>8, <2>1, Zenon DEF Settled
<1> QED BY <1>7, <1>8, Zenon DEF Settled

\* Only a push and a merge add to main.
LEMMA PushesStay ==
  ASSUME Moves
  PROVE  UNCHANGED pushes \/ (\E d \in Diffs : Push(d)) \/ Merge
<1> USE DEF source, deliveryVars
<1>1. ASSUME NEW x \in Services,
             \/ listHead(x) \/ writeHead(x) \/ readHead(x) \/ publishFails(x)
             \/ waitForRelease(x) \/ waitTimesOut(x) \/ ArgoSync(x)
      PROVE  UNCHANGED pushes
  BY <1>1, Zenon DEF listHead, writeHead, readHead, publishFails, waitForRelease, waitTimesOut, ArgoSync
<1>2. ASSUME NEW x \in Services, runServiceBranch(x) \/ recordReleasing(x) \/ recordStable(x) \/ recordFailed(x)
      PROVE  UNCHANGED pushes
  BY <1>2, Zenon DEF runServiceBranch, recordReleasing, recordStable, recordFailed
<1>3. CASE UNCHANGED deliveryVars \/ Checkout \/ Detect \/ stageFails \/ startPublishing \/ startWaiting \/ endBuild
           \/ Trigger
  BY <1>3, Zenon DEF Checkout, Detect, stageFails, startPublishing, startWaiting, endBuild, Trigger
<1> QED BY <1>1, <1>2, <1>3, Merges, Cases, Zenon

\* A push that changes a service is queued, in the build, or settled for the service,
\* unless its webhook was lost or its build or branch failed while publishing.
LEMMA AccountedStep ==
  ASSUME Shapes, Shapes', Heads, Branches, InOrder, Merged, Logged, Ended, Accounted, Moves, goesForward
  PROVE  Accounted'
<1> USE DEF source, gitops, revisions, world, records, deliveryVars, At
<1>0. /\ pushes \in Seq(Pushed) /\ Len(pushes) \in Nat /\ DOMAIN pushes = 1..Len(pushes) /\ queue \in Seq(Nat)
      /\ build.push \in Nat /\ build.commit \in Nat /\ build.builds \subseteq Services /\ values \in [Services -> Nat]
  BY DEF Shapes, Builds
<1>1. SUFFICES ASSUME NEW i \in DOMAIN pushes', NEW s \in Services, changesRuntime(s, pushes'[i]), <<s, i>> \notin missed'
               PROVE  Underway(i, s)'
  BY Zenon DEF Accounted
<1>2. missed \subseteq missed'
  BY HistoriesGrow, Zenon
<1>3. ASSUME NEW d \in Diffs, Push(d), i \notin DOMAIN pushes PROVE Underway(i, s)'
  <2>1. i = Len(pushes) + 1 /\ Len(pushes) + 1 \in Nat
    <3>1. DOMAIN pushes' = DOMAIN pushes \cup {Len(pushes) + 1} /\ Len(pushes) + 1 \in Nat
      BY <1>3, AddsPush, PushFacts, Zenon DEF Adds
    <3> QED BY <1>1, <1>3, <3>1, Zenon
  <2>2. queue' = Append(queue, i)
    BY <1>1, <1>3, <2>1, Zenon DEF Push, head
  <2>3. Len(queue) + 1 \in DOMAIN queue' /\ queue'[Len(queue) + 1] = i
    BY <1>0, <2>1, <2>2, AppendShapes
  <2> QED BY <2>3, Zenon DEF Underway
<1>4. ASSUME Merge
      PROVE  /\ i \in DOMAIN pushes => pushes'[i] = pushes[i]
             /\ i \notin DOMAIN pushes => pushes'[i] = ValuesChange
  <2>1. ValuesChange \in Pushed /\ MovesHead(ValuesChange)
    BY <1>4, AddsMerge, Zenon DEF Adds
  <2>2. /\ DOMAIN pushes' = DOMAIN pushes \cup {Len(pushes) + 1} /\ pushes'[Len(pushes) + 1] = ValuesChange
        /\ \A j \in DOMAIN pushes : pushes'[j] = pushes[j]
    BY <2>1, PushFacts, Zenon
  <2> QED BY <1>1, <2>2, Zenon
<1>25. i \in DOMAIN pushes => pushes'[i] = pushes[i]
  <2>1. ASSUME NEW d \in Diffs, Push(d), i \in DOMAIN pushes PROVE pushes'[i] = pushes[i]
    BY <2>1, AddsPush, PushFacts, Zenon DEF Adds
  <2> QED BY <1>4, <2>1, PushesStay, Zenon
<1>5. i \notin DOMAIN pushes => \E d \in Diffs : Push(d)
  BY <1>1, <1>4, PushesStay, ValuesAreNoCode, Zenon
<1>6. SUFFICES ASSUME i \in DOMAIN pushes, changesRuntime(s, pushes[i]), Underway(i, s)
               PROVE  Underway(i, s)'
  BY <1>1, <1>2, <1>3, <1>5, <1>25, Zenon DEF Accounted
<1>7. i \in Nat /\ i # 0
  BY <1>0, <1>6, SeqFacts, Zenon
<1>8. ASSUME Settled(i, s) PROVE Underway(i, s)'
  BY <1>6, <1>8, SettledStays, Zenon DEF Underway
<1>9. ASSUME UNCHANGED queue \/ (\E x \in Nat : queue' = Append(queue, x)), NEW j \in DOMAIN queue, queue[j] = i
      PROVE  Underway(i, s)'
  <2>1. j \in DOMAIN queue' /\ queue'[j] = i
    <3>1. ASSUME NEW x \in Nat, queue' = Append(queue, x) PROVE j \in DOMAIN queue' /\ queue'[j] = queue[j]
      BY <1>0, <3>1, AppendShapes
    <3> QED BY <1>9, <3>1, Zenon
  <2> QED BY <2>1, Zenon DEF Underway
<1>10. ASSUME build'.push = build.push, build'.builds = build.builds,
              \/ build'.step = build.step
              \/ {build.step, build'.step} \subseteq {"verify", "publish", "wait"},
              UNCHANGED queue \/ \E x \in Nat : queue' = Append(queue, x)
       PROVE  Underway(i, s)'
  <2>1. CASE build.push = i /\ (build.step = "detect" \/ (build.step \in {"verify", "publish", "wait"} /\ s \in build.builds))
    BY <1>10, <2>1, Zenon DEF Underway
  <2> QED BY <1>6, <1>8, <1>9, <1>10, <2>1, Zenon DEF Underway
<1>11. CASE Checkout
  <2>1. build.step = "none" /\ queue # <<>> /\ queue' = Tail(queue)
    BY <1>11, Zenon DEF Checkout
  <2>2. CASE \E j \in DOMAIN queue : queue[j] = i
    <3>1. PICK j \in DOMAIN queue : queue[j] = i
      BY <2>2, Zenon
    <3>2. CASE j = 1
      <4>1. build'.push = i /\ build'.step = "detect"
        BY <1>0, <1>11, <2>1, <3>1, <3>2, CheckoutFields, TailShapes, Zenon
      <4> QED BY <4>1, Zenon DEF Underway
    <3>3. CASE j # 1
      <4>1. j - 1 \in DOMAIN queue' /\ queue'[j - 1] = i
        BY <1>0, <2>1, <3>1, <3>3, TailShapes, Zenon
      <4> QED BY <4>1, Zenon DEF Underway
    <3> QED BY <3>2, <3>3, Zenon
  <2> QED BY <1>6, <1>8, <2>1, <2>2, Zenon DEF Underway
<1>12. CASE Detect
  <2>1. build.step = "detect" /\ UNCHANGED queue
    BY <1>12, Zenon DEF Detect
  <2>2. CASE build.push = i
    <3>1. PICK r \in impactOf(i) : build'.builds = r.builds /\ (build'.step = "end" => r.builds = {})
      BY <1>12, <2>2, DetectFields, Zenon
    <3>2. s \in r.builds
      BY <1>6, BuildSelects, Zenon
    <3>3. build'.step = "verify" /\ build'.push = i
      BY <1>12, <2>2, <3>1, <3>2, DetectFields, Zenon
    <3> QED BY <3>1, <3>2, <3>3, Zenon DEF Underway
  <2> QED BY <1>6, <1>8, <1>9, <2>1, <2>2, Zenon DEF Underway
<1>13. ASSUME build.push # i, UNCHANGED queue PROVE Underway(i, s)'
  BY <1>6, <1>8, <1>9, <1>13, Zenon DEF Underway
<1>14. CASE stageFails
  <2>1. build.push # i
    BY <1>1, <1>14, Zenon DEF stageFails, Misses
  <2> QED BY <1>13, <1>14, <2>1, Zenon DEF stageFails
<1>15. CASE startPublishing
  <2>1. UNCHANGED queue /\ build.step = "verify"
    BY <1>15, Zenon DEF startPublishing
  <2>2. CASE Goto("publish")
    <3>1. build'.push = build.push /\ build'.builds = build.builds /\ build'.step = "publish"
      BY <2>2, GotoFields, Zenon
    <3> QED BY <1>10, <2>1, <3>1, Zenon
  <2>3. CASE build.builds = {} \/ build.push = 0
    BY <1>6, <1>7, <1>8, <1>9, <2>1, <2>3, Zenon DEF Underway
  <2> QED BY <1>15, <2>2, <2>3, Zenon DEF startPublishing
<1>16. CASE startWaiting
  <2>1. UNCHANGED queue /\ build.step = "publish"
    BY <1>16, Zenon DEF startWaiting, stageDone
  <2>2. CASE Goto("wait")
    <3>1. build'.push = build.push /\ build'.builds = build.builds /\ build'.step = "wait"
      BY <2>2, GotoFields, Zenon
    <3> QED BY <1>10, <2>1, <3>1, Zenon
  <2>3. ASSUME ~stageOK, build.push = i, s \in build.builds PROVE Underway(i, s)'
    <3>1. /\ Misses({x \in Services : branch[x] = "failed"}) /\ UNCHANGED <<values, pushes>>
          /\ disturbed' = disturbed \cup {release(x) : x \in {x \in build.builds : branch[x] = "done"}}
      BY <1>16, <2>3, Zenon DEF startWaiting
    <3>2. branch[s] # "failed"
      BY <1>1, <2>3, <3>1, Zenon DEF Misses
    <3>3. branch[s] = "done"
      BY <1>16, <3>2, Zenon DEF startWaiting, stageDone
    <3>4. <<s, build.commit>> \in disturbed'
      BY <2>3, <3>1, <3>3, Zenon DEF release
    <3>5. values[s] = build.commit /\ build.push <= build.commit /\ build.commit <= Len(pushes)
      BY <2>1, <2>3, <3>3, Zenon DEF Merged, InOrder
    <3>6. values'[s] >= i /\ build.commit \in i..Len(pushes')
      BY <1>0, <1>7, <2>3, <3>1, <3>5
    <3> QED BY <3>4, <3>6, Zenon DEF Underway, Settled
  <2>4. CASE ~stageOK
    <3>1. CASE ~(build.push = i /\ s \in build.builds)
      BY <1>6, <1>8, <1>9, <2>1, <3>1, Zenon DEF Underway
    <3> QED BY <2>3, <2>4, <3>1, Zenon
  <2> QED BY <1>16, <2>2, <2>4, Zenon DEF startWaiting
<1>17. CASE endBuild
  <2>1. UNCHANGED queue
    BY <1>17, Zenon DEF endBuild
  <2>2. CASE build.push = i /\ build.step = "wait" /\ s \in build.builds
    <3>1. branch[s] \in {"done", "failed"}
      BY <1>17, <2>2, Zenon DEF endBuild, stageDone
    <3>2. values[s] = build.commit /\ build.push <= build.commit /\ build.commit <= Len(pushes)
      BY <2>2, Zenon DEF Merged, InOrder
    <3>3. i <= build.commit /\ values[s] = build.commit /\ i \in Nat /\ build.commit \in Nat /\ Len(pushes) \in Nat
      BY <1>0, <1>7, <2>2, <3>2, Zenon
    <3>4. build.commit >= i /\ build.commit \in i..Len(pushes)
      BY <3>2, <3>3
    <3>5. stable[s] = build.commit \/ <<s, "failed", build.commit>> \in log \/ <<s, build.commit>> \in disturbed
      BY <2>2, <3>1, Zenon DEF Ended, release
    <3>6. Settled(i, s)
      BY <3>3, <3>4, <3>5, Zenon DEF Settled
    <3> QED BY <1>8, <3>6, Zenon
  <2>3. CASE ~(build.push = i /\ build.step = "wait" /\ s \in build.builds)
    BY <1>6, <1>8, <1>9, <1>17, <2>1, <2>3, Zenon DEF Underway, endBuild, stageDone
  <2> QED BY <2>2, <2>3, Zenon
<1>18. ASSUME NEW x \in Services, runServiceBranch(x) PROVE Underway(i, s)'
  <2>1. UNCHANGED queue
    BY <1>18, Zenon DEF runServiceBranch
  <2> QED BY <1>10, <1>18, <2>1, VerifyFields, Zenon
<1>19. ASSUME UNCHANGED build, UNCHANGED queue \/ \E x \in Nat : queue' = Append(queue, x) PROVE Underway(i, s)'
  BY <1>10, <1>19, Zenon
<1>20. ASSUME NEW d \in Diffs, Push(d) PROVE Underway(i, s)'
  <2>1. Len(pushes) + 1 \in Nat
    BY <1>0
  <2> QED BY <1>19, <1>20, <2>1, Zenon DEF Push, head
<1>21. CASE Trigger
  <2>1. 0 \in Nat
    OBVIOUS
  <2> QED BY <1>19, <1>21, <2>1, Zenon DEF Trigger
<1>26. ASSUME Merge, UNCHANGED build PROVE Underway(i, s)'
  <2>1. Len(pushes) + 1 \in Nat
    BY <1>0
  <2> QED BY <1>19, <1>26, <2>1, Zenon DEF Merge, head
<1>27. ASSUME (\E pr \in open : mergeLate(pr)) \/ \E x \in Services : mergeGitOps(x) PROVE Underway(i, s)'
  BY <1>26, <1>27, Zenon DEF mergeLate, mergeGitOps
<1>22. ASSUME NEW x \in Services,
              \/ listHead(x) \/ writeHead(x) \/ readHead(x) \/ recordReleasing(x) \/ publishFails(x)
       PROVE  Underway(i, s)'
  BY <1>19, <1>22, Zenon DEF listHead, writeHead, readHead, recordReleasing, publishFails
<1>23. ASSUME NEW x \in Services,
              waitForRelease(x) \/ waitTimesOut(x) \/ recordStable(x) \/ recordFailed(x) \/ ArgoSync(x)
       PROVE  Underway(i, s)'
  BY <1>19, <1>23, Zenon DEF waitForRelease, waitTimesOut, recordStable, recordFailed, ArgoSync
<1>24. CASE UNCHANGED deliveryVars
  BY <1>19, <1>24, Zenon
<1> QED BY <1>11, <1>12, <1>14, <1>15, <1>16, <1>17, <1>18, <1>20, <1>21, <1>22, <1>23, <1>24, <1>27, Cases, Zenon

-----------------------------------------------------------------------------
(* The theorems.                                                            *)

\* The first push is in place and nothing has happened.
LEMMA DeliveryStarts ==
  ASSUME DeliveryInit
  PROVE  DeliveryInv
<1>1. Shapes
  <2>1. << <<>> >> \in Seq(Pushed) /\ << <<>> >> # <<>> /\ << <<>> >>[1] = <<>> /\ <<>> \in Seq(Nat)
    BY DEF Pushed
  <2>2. NoBuild \in Builds /\ NoBuild.builds = {} /\ NoBuild.done = {}
    BY Zenon DEF NoBuild, Builds, Steps
  <2>3. [image |-> 1, rev |-> 1] \in [image : Nat, rev : Nat]
    OBVIOUS
  <2>4. cluster \in [Services -> [image : Nat, rev : Nat]]
    BY <2>3, Zenon DEF DeliveryInit
  <2>5. branch \in [Services -> Publishing \cup Waiting] /\ values \in [Services -> Nat] /\ stable \in [Services -> Nat]
    BY Zenon DEF DeliveryInit, Publishing, Waiting
  <2> QED BY <2>1, <2>2, <2>4, <2>5, Zenon DEF DeliveryInit, Shapes
<1>2. Heads
  <2>1. head = 1
    BY DEF DeliveryInit, head
  <2>2. head \in Nat /\ 1 <= head
    BY <2>1
  <2>3. headFile = NoRevision /\ NoRevision \in Revisions
    BY Zenon DEF DeliveryInit, Revisions
  <2>4. listed \in [Services -> Revisions] /\ configRev \in [Services -> Revisions]
    BY <2>3, Zenon DEF DeliveryInit
  <2> QED BY <2>2, <2>3, <2>4, Zenon DEF Heads
<1>3. build.step = "none" /\ build.builds = {} /\ build.push = 0 /\ Len(pushes) = 1 /\ DOMAIN queue = {}
  BY DEF DeliveryInit, NoBuild
<1>4. Branches /\ Merged /\ Built /\ Ended
  BY <1>3, Zenon DEF Branches, Merged, Built, Ended, At
<1>5. InOrder
  BY <1>3 DEF InOrder, At, DeliveryInit
<1>6. Logged
  BY Zenon DEF Logged, DeliveryInit
<1>7. Healthy
  BY <1>3, Zenon DEF Healthy, DeliveryInit
<1>8. Reasoned
  BY <1>3, Zenon DEF Reasoned, DeliveryInit
<1>9. Accounted
  <2>1. ASSUME NEW i \in DOMAIN pushes, NEW s \in Services PROVE ~changesRuntime(s, pushes[i])
    <3>1. pushes[i] = <<>>
      BY DEF DeliveryInit
    <3> QED BY <3>1 DEF changesRuntime
  <2> QED BY <2>1, Zenon DEF Accounted
<1> QED BY <1>1, <1>2, <1>4, <1>5, <1>6, <1>7, <1>8, <1>9, Zenon DEF DeliveryInv

\* The invariant is inductive, and no step takes values or stable rows back.
LEMMA DeliveryInductive ==
  ASSUME DeliveryInv, Moves
  PROVE  DeliveryInv' /\ goesForward
<1> USE DEF DeliveryInv
<1>1. Shapes' /\ Heads' /\ Branches' /\ Merged'
  BY ShapesStep, HeadsStep, BranchesStep, MergedStep, Zenon
<1>2. InOrder' /\ goesForward
  BY InOrderStep, Zenon
<1>3. Logged' /\ Built' /\ Healthy'
  BY LoggedStep, BuiltStep, HealthyStep, Zenon
<1>4. Reasoned' /\ Ended'
  BY ReasonedStep, EndedStep, Zenon
<1>5. Accounted'
  BY <1>1, <1>2, AccountedStep, Zenon
<1> QED BY <1>1, <1>2, <1>3, <1>4, <1>5, Zenon

\* The invariant says what the records and the values are to say.
LEMMA DeliveryAgrees ==
  ASSUME DeliveryInv
  PROVE  ReleasesAgree
<1>0. /\ values \in [Services -> Nat] /\ stable \in [Services -> Nat] /\ cluster \in [Services -> [image : Nat, rev : Nat]]
      /\ DOMAIN pushes = 1..Len(pushes) /\ Len(pushes) \in Nat
  BY DEF DeliveryInv, Shapes
<1>1. ASSUME NEW s \in Services
      PROVE  /\ values[s] \in DOMAIN pushes /\ stable[s] \in DOMAIN pushes
             /\ stable[s] <= values[s] /\ stable[s] <= cluster[s].image
  BY <1>0 DEF DeliveryInv, InOrder
<1>2. DeliveryTypeOK
  <2>1. values \in [Services -> DOMAIN pushes] /\ stable \in [Services -> DOMAIN pushes]
    BY <1>0, <1>1, Zenon
  <2> QED BY <2>1, Zenon DEF DeliveryTypeOK, DeliveryInv, Heads, Revisions, Shapes, Logged
<1>3. StableWasHealthy
  BY <1>1, Zenon DEF StableWasHealthy, DeliveryInv, Healthy
<1>4. FailuresHaveReason
  BY Zenon DEF FailuresHaveReason, DeliveryInv, Reasoned, Reasons
<1>5. Delivered
  <2>1. SUFFICES ASSUME At("none"), NEW i \in DOMAIN pushes, NEW s \in Services,
                        changesRuntime(s, pushes[i]), i \notin Range(queue), <<s, i>> \notin missed
                 PROVE  Settled(i, s)
    BY Zenon DEF Delivered, Settled
  <2>2. Underway(i, s)
    BY <2>1, Zenon DEF DeliveryInv, Accounted
  <2>3. ~\E j \in DOMAIN queue : queue[j] = i
    BY <2>1, Zenon DEF Range
  <2> QED BY <2>1, <2>2, <2>3, Zenon DEF Underway, At
<1> QED BY <1>2, <1>3, <1>4, <1>5, Zenon DEF ReleasesAgree

\* Whatever is pushed, queued, retried, merged late or fails, and however many
\* services the manifest has: between builds every push whose build is not queued has
\* been delivered to the services it changes or is accounted for as missed, the stable
\* row of a service names an image that was not sick and that the cluster has run, and a
\* recorded failure has a reason.
THEOREM DeliveryReleasesAgree == DeliverySpec => []ReleasesAgree
<1>1. DeliveryInit => DeliveryInv
  BY DeliveryStarts, Zenon
<1>2. DeliveryInv /\ [DeliveryNext]_deliveryVars => DeliveryInv'
  BY DeliveryInductive, Zenon DEF Moves
<1>3. DeliveryInv => ReleasesAgree
  BY DeliveryAgrees, Zenon
<1> QED BY <1>1, <1>2, <1>3, PTL DEF DeliverySpec

\* The image in the values of a service and its stable row never go back to an older
\* commit, a late auto-merge included.
THEOREM DeliveryNeverBackwards == DeliverySpec => NeverBackwards
<1>1. DeliveryInit => DeliveryInv
  BY DeliveryStarts, Zenon
<1>2. DeliveryInv /\ [DeliveryNext]_deliveryVars => DeliveryInv' /\ goesForward
  BY DeliveryInductive, Zenon DEF Moves
<1> QED BY <1>1, <1>2, PTL DEF DeliverySpec, NeverBackwards
=============================================================================
