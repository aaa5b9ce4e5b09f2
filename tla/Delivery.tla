------------------------------- MODULE Delivery -------------------------------
(***************************************************************************)
(* Delivery of the services: the Jenkins pipeline                          *)
(* (k3s/ci/jenkins/ecampus.Jenkinsfile), the services it finds affected    *)
(* (Impact), the GitOps values it changes, the cluster that follows them,  *)
(* and the release records (platform/server/internal/releasestore).        *)
(*                                                                         *)
(* Source and values are on the same main branch: a merge that changes     *)
(* values is a push as well. Pushes are numbered, a revision of main is the*)
(* number of its last push, and an image is known by the revision it was   *)
(* built from. Push 1 is in place at the start.                            *)
(***************************************************************************)
EXTENDS Impact

CONSTANTS
  Diffs,        \* what a push can change
  NoRevision,   \* the empty content of gitops-head.txt
  MaxPushes, MaxManual, MaxEchoes, MaxDeliveryFaults   \* bounds; a merge that asks for a build is an echo

ASSUME DeliveryAssumption ==
  /\ {MaxPushes, MaxManual, MaxEchoes, MaxDeliveryFaults} \subseteq Nat
  /\ \A diff \in Diffs : \A i \in DOMAIN diff : isLine(diff[i])

VARIABLES
  pushes,     \* the diff of every push to main, merges included
  queue,      \* builds asked for: the push of a webhook, 0 for one without SHAs
  manual, echoes,
  build,      \* the build in progress
  branch,     \* where the branch of a service is in a parallel stage
  values,     \* the image in the values of a service
  open,       \* pull requests the pipeline stopped waiting for
  headFile,   \* gitops-head.txt, which all branches share
  listed,     \* revision a branch got from git ls-remote
  configRev,  \* revision a branch read from gitops-head.txt
  cluster,    \* what Argo CD has synced: image and revision
  stable,     \* service_releases: the stable row of a service
  log,        \* service_releases: all other rows
  sick,       \* images that fail their health check or metrics
  fixtureMode,\* FIXTURE_MODE of the agent: "unset", or set and "empty"
  broken,
  missed,     \* history: services a push may not reach: its webhook was lost, or the build or their branch failed while publishing
  overtaken,  \* history: releases whose revision was followed by another or replaced by an older one
  disturbed   \* history: releases with a failing step, or that the build did not get to wait for

source == <<pushes, queue, manual, echoes>>
gitops == <<values, open>>
revisions == <<headFile, listed, configRev>>
records == <<stable, log>>
world == <<cluster, sick, fixtureMode>>
deliveryVars == <<source, build, branch, gitops, revisions, records, world, broken, missed, overtaken, disturbed>>

NoBuild == [step |-> "none", push |-> 0, commit |-> 0, affected |-> {}, builds |-> {}, done |-> {}]

At(step) == build.step = step
Goto(step) == build' = [build EXCEPT !.step = step]
BranchTo(s, step) == branch' = [branch EXCEPT ![s] = step]
release(s) == <<s, build.commit>>

Breaks == broken < MaxDeliveryFaults /\ broken' = broken + 1

\* Releases that have taken the head of main for theirs and still need it.
haveRead ==
  {release(s) : s \in {s \in build.builds : \/ At("publish") /\ branch[s] \in {"write", "read", "record", "done"}
                                            \/ At("wait") /\ branch[s] = "wait"}}

head == Len(pushes)
MovesHead(diff) == pushes' = Append(pushes, diff) /\ overtaken' = overtaken \cup haveRead

\* The agent, with its workspace, goes with the build.
EndsBuild ==
  /\ build' = NoBuild
  /\ branch' = [s \in Services |-> "done"]
  /\ headFile' = NoRevision
  /\ listed' = [s \in Services |-> NoRevision] /\ configRev' = [s \in Services |-> NoRevision]

-----------------------------------------------------------------------------
(* Pushes and builds.                                                       *)

\* A file below k3s/helm-values, which is in no Go package.
ValuesFile == [class |-> "code", pkg |-> NoPackage, test |-> FALSE, proto |-> FALSE]
ValuesChange == <<[status |-> "M", files |-> <<ValuesFile>>]>>

\* A webhook may be lost.
Push(diff) ==
  /\ Cardinality({i \in DOMAIN pushes : pushes[i] # ValuesChange}) <= MaxPushes
  /\ MovesHead(diff)
  /\ \/ queue' = Append(queue, head + 1) /\ UNCHANGED <<broken, missed>>
     \/ Breaks /\ missed' = missed \cup (Services \X {head + 1}) /\ UNCHANGED queue
  /\ UNCHANGED <<manual, echoes, build, branch, values, open, revisions, records, world, disturbed>>

\* A merge is a push to main too. Which pushes the webhook reports is set up outside
\* the repository.
Merge ==
  /\ MovesHead(ValuesChange)
  /\ \/ echoes < MaxEchoes /\ echoes' = echoes + 1 /\ queue' = Append(queue, head + 1)
     \/ UNCHANGED <<queue, echoes>>
  /\ UNCHANGED manual

\* A build started by hand has no SHAs.
Trigger ==
  /\ manual < MaxManual
  /\ manual' = manual + 1
  /\ queue' = Append(queue, 0)
  /\ UNCHANGED <<pushes, echoes, build, branch, gitops, revisions, records, world, broken, missed, overtaken, disturbed>>

\* One build at a time; the source is the head of main, not the push that asked.
Checkout ==
  /\ At("none") /\ queue # <<>>
  /\ build' = [NoBuild EXCEPT !.step = "detect", !.push = Head(queue), !.commit = head]
  /\ queue' = Tail(queue)
  /\ UNCHANGED <<pushes, manual, echoes, branch, gitops, revisions, records, world, broken, missed, overtaken, disturbed>>

\* Without SHAs, or with SHAs that are not in the clone, everything is affected.
impactOf(push) ==
  IF push = 0 THEN {FullResult({}, FALSE)}
  ELSE {EvaluateDiff(pushes[push]), FullResult({}, FALSE), runFails({})}

Detect ==
  /\ At("detect")
  /\ \E r \in impactOf(build.push) :
       build' = [build EXCEPT !.step = IF r.tests \cup r.builds = {} THEN "end" ELSE "verify",
                              !.affected = r.tests \cup r.builds, !.builds = r.builds]
  /\ UNCHANGED <<source, branch, gitops, revisions, records, world, broken, missed, overtaken, disturbed>>

\* There is one stable row for a service, and it is replaced; other rows are added.
Record(s, status) ==
  IF status = "stable" THEN stable' = [stable EXCEPT ![s] = build.commit] /\ UNCHANGED log
  ELSE log' = log \cup {<<s, status, build.commit>>} /\ UNCHANGED stable

\* A commit that was built, or is in place, is sick or not already.
known == {r \in Services \X DOMAIN pushes : r[2] = 1 \/ <<r[1], "releasing", r[2]>> \in log}

\* Services are checked one after the other, and built if they are to be.
runServiceBranch(s) ==
  /\ At("verify") /\ s \in build.affected \ build.done
  /\ build' = [build EXCEPT !.done = @ \cup {s}]
  /\ IF s \in build.builds
     THEN Record(s, "releasing") /\ \E bad \in SUBSET ({release(s)} \ known) : sick' = sick \cup bad
     ELSE UNCHANGED <<records, sick>>
  /\ UNCHANGED <<source, branch, gitops, revisions, cluster, fixtureMode, broken, missed, overtaken, disturbed>>

\* What the build was to deliver is not looked at again: the next build has its own
\* push.
Misses(S) == missed' = missed \cup (S \X {build.push})

\* The catalog, a check, an image or a record that fails ends the build.
stageFails ==
  /\ build.step \in {"detect", "verify"} /\ Breaks
  /\ EndsBuild /\ Misses(Services)
  /\ UNCHANGED <<source, gitops, records, world, overtaken, disturbed>>

\* SKIP_RELEASE, which only a build by hand sets, leaves it at that.
startPublishing ==
  /\ At("verify") /\ build.affected = build.done
  /\ \/ (build.builds = {} \/ build.push = 0) /\ Goto("end") /\ UNCHANGED branch
     \/ /\ build.builds # {} /\ Goto("publish")
        /\ branch' = [s \in Services |-> IF s \in build.builds THEN "merge" ELSE "done"]
  /\ UNCHANGED <<source, gitops, revisions, records, world, broken, missed, overtaken, disturbed>>

-----------------------------------------------------------------------------
(* Publishing, one branch for every service.                                *)

\* GitHub takes no second pull request for a branch release/<service>/<sha>.
hasOpen(s) == \E pr \in open : pr.service = s /\ pr.commit = build.commit

\* publishGitOps changes the values of one service in a pull request that
\* mergeGitOps waits for.
mergeGitOps(s) ==
  /\ At("publish") /\ branch[s] = "merge" /\ ~hasOpen(s)
  /\ Merge
  /\ values' = [values EXCEPT ![s] = build.commit]
  /\ BranchTo(s, "list")
  /\ UNCHANGED <<build, open, revisions, records, world, broken, missed, disturbed>>

\* gitopsRevisionAfterMerge empties gitops-head.txt while it asks for the head,
\* writes the answer to it and reads it back. git ls-remote is followed by a pipe: if
\* it fails the answer is empty. A branch may read what another has written.
listHead(s) ==
  /\ At("publish") /\ branch[s] = "list"
  /\ headFile' = NoRevision
  /\ \/ listed' = [listed EXCEPT ![s] = head] /\ UNCHANGED broken
     \/ Breaks /\ listed' = [listed EXCEPT ![s] = NoRevision]
  /\ BranchTo(s, "write")
  /\ UNCHANGED <<source, build, gitops, configRev, records, world, missed, overtaken, disturbed>>

\* Branches that are about to read, where s writes a revision that is not the head.
crossing(s) ==
  {release(q) : q \in {q \in Services \ {s} : branch[q] = "read" /\ listed[s] \notin {head, NoRevision}}}

writeHead(s) ==
  /\ At("publish") /\ branch[s] = "write"
  /\ headFile' = listed[s] /\ listed' = [listed EXCEPT ![s] = NoRevision]
  /\ overtaken' = overtaken \cup crossing(s)
  /\ BranchTo(s, "read")
  /\ UNCHANGED <<source, build, gitops, configRev, records, world, broken, missed, disturbed>>

readHead(s) ==
  /\ At("publish") /\ branch[s] = "read"
  /\ configRev' = [configRev EXCEPT ![s] = headFile]
  /\ BranchTo(s, "record")
  /\ UNCHANGED <<source, build, gitops, headFile, listed, records, world, broken, missed, overtaken, disturbed>>

recordReleasing(s) ==
  /\ At("publish") /\ branch[s] = "record"
  /\ Record(s, "releasing")
  /\ BranchTo(s, "done")
  /\ UNCHANGED <<source, build, gitops, revisions, world, broken, missed, overtaken, disturbed>>

\* The other branches of the stage go on. A pull request that was not merged in
\* time stays open, with auto-merge enabled.
publishFails(s) ==
  /\ At("publish")
  /\ \/ branch[s] = "merge" /\ hasOpen(s) /\ UNCHANGED <<open, broken>>
     \/ branch[s] \in {"merge", "list", "write", "read", "record"} /\ Breaks /\ UNCHANGED open
     \/ /\ branch[s] = "merge" /\ ~hasOpen(s) /\ Breaks
        /\ open' = open \cup {[service |-> s, commit |-> build.commit, over |-> values[s]]}
  /\ BranchTo(s, "failed")
  /\ UNCHANGED <<source, build, values, revisions, records, world, missed, overtaken, disturbed>>

\* Mutant: an old pull request replaces newer values.
mergeAnyhow(pr) ==
  /\ Merge
  /\ values' = [values EXCEPT ![pr.service] = pr.commit]
  /\ open' = open \ {pr}
  /\ UNCHANGED <<build, branch, revisions, records, world, broken, missed, disturbed>>

\* It is merged late, unless the values it changes have changed.
mergeLate(pr) ==
  /\ values[pr.service] = pr.over
  /\ Merge
  /\ values' = [values EXCEPT ![pr.service] = pr.commit]
  /\ open' = open \ {pr}
  /\ UNCHANGED <<build, branch, revisions, records, world, broken, missed, disturbed>>

stageDone(step) == At(step) /\ \A s \in Services : branch[s] \in {"done", "failed"}
stageOK == \A s \in Services : branch[s] = "done"

\* Mutant: the stage waits for every branch to succeed.
startWhenOK ==
  /\ stageDone("publish") /\ stageOK
  /\ Goto("wait") /\ branch' = [s \in Services |-> IF s \in build.builds THEN "wait" ELSE "done"]
  /\ UNCHANGED <<source, gitops, revisions, records, world, broken, missed, overtaken, disturbed>>

\* A parallel stage ends when all its branches have. If one failed no release is
\* waited for, those that were merged included.
startWaiting ==
  /\ stageDone("publish")
  /\ \/ /\ stageOK /\ Goto("wait") /\ UNCHANGED <<revisions, missed, disturbed>>
        /\ branch' = [s \in Services |-> IF s \in build.builds THEN "wait" ELSE "done"]
     \/ /\ ~stageOK /\ EndsBuild
        /\ Misses({s \in Services : branch[s] = "failed"})
        /\ disturbed' = disturbed \cup {release(s) : s \in {s \in build.builds : branch[s] = "done"}}
  /\ UNCHANGED <<source, gitops, records, world, broken, overtaken>>

-----------------------------------------------------------------------------
(* Waiting for the cluster.                                                 *)

\* Argo CD brings a service to the head of main.
ArgoSync(s) ==
  /\ cluster[s] # [image |-> values[s], rev |-> head]
  /\ cluster' = [cluster EXCEPT ![s] = [image |-> values[s], rev |-> head]]
  /\ UNCHANGED <<source, build, branch, gitops, revisions, records, sick, fixtureMode, broken, missed, overtaken, disturbed>>

\* wait_for_digest, and wait_for_argocd if there is a revision.
synced(s) == cluster[s].image = build.commit /\ configRev[s] \in {NoRevision, cluster[s].rev}

\* wait-for-release.sh runs under set -u and ends at FIXTURE_MODE if that is not set.
scriptEnds == fixtureMode = "unset"

\* Then the rollout, the metrics and the health check.
waitForRelease(s) ==
  /\ At("wait") /\ branch[s] = "wait" /\ synced(s)
  /\ BranchTo(s, IF scriptEnds \/ release(s) \in sick THEN "fail" ELSE "stable")
  /\ UNCHANGED <<source, build, gitops, revisions, records, world, broken, missed, overtaken, disturbed>>

\* The wait is given up after Argo CD has caught up, or before where it is slow; and
\* each of the commands may fail.
waitTimesOut(s) ==
  /\ At("wait") /\ branch[s] = "wait"
  /\ \/ ~synced(s) /\ cluster[s] = [image |-> values[s], rev |-> head] /\ UNCHANGED <<broken, disturbed>>
     \/ Breaks /\ disturbed' = disturbed \cup {release(s)}
  /\ BranchTo(s, "fail")
  /\ UNCHANGED <<source, build, gitops, revisions, records, world, missed, overtaken>>

\* A command that fails makes the release a failure.
recordStable(s) ==
  /\ At("wait") /\ branch[s] = "stable"
  /\ \/ Record(s, "stable") /\ BranchTo(s, "done") /\ UNCHANGED <<broken, disturbed>>
     \/ Breaks /\ disturbed' = disturbed \cup {release(s)} /\ BranchTo(s, "fail") /\ UNCHANGED records
  /\ UNCHANGED <<source, build, gitops, revisions, world, missed, overtaken>>

\* Mutant: a failure is only logged.
dropFailed(s) ==
  /\ At("wait") /\ branch[s] = "fail"
  /\ BranchTo(s, "failed")
  /\ UNCHANGED <<source, build, gitops, revisions, records, world, broken, missed, overtaken, disturbed>>

\* A failure that cannot be recorded is logged only.
recordFailed(s) ==
  /\ At("wait") /\ branch[s] = "fail"
  /\ \/ Record(s, "failed") /\ UNCHANGED <<broken, disturbed>>
     \/ Breaks /\ disturbed' = disturbed \cup {release(s)} /\ UNCHANGED records
  /\ BranchTo(s, "failed")
  /\ UNCHANGED <<source, build, gitops, revisions, world, missed, overtaken>>

\* The build ends, with an error if a branch failed.
endBuild ==
  /\ stageDone("wait") \/ At("end")
  /\ EndsBuild
  /\ UNCHANGED <<source, gitops, records, world, broken, missed, overtaken, disturbed>>

-----------------------------------------------------------------------------

DeliveryInit ==
  /\ pushes = << <<>> >> /\ queue = <<>> /\ manual = 0 /\ echoes = 0 /\ build = NoBuild
  /\ branch = [s \in Services |-> "done"]
  /\ values = [s \in Services |-> 1] /\ open = {}
  /\ headFile = NoRevision
  /\ listed = [s \in Services |-> NoRevision] /\ configRev = [s \in Services |-> NoRevision]
  /\ cluster = [s \in Services |-> [image |-> 1, rev |-> 1]] /\ sick = {} /\ fixtureMode \in {"unset", "empty"}
  /\ stable = [s \in Services |-> 1] /\ log = {}
  /\ broken = 0 /\ missed = {} /\ overtaken = {} /\ disturbed = {}

Pipeline ==
  \/ Checkout \/ Detect \/ stageFails \/ startPublishing \/ startWaiting \/ endBuild
  \/ \E s \in Services :
       \/ runServiceBranch(s)
       \/ mergeGitOps(s) \/ listHead(s) \/ writeHead(s) \/ readHead(s) \/ recordReleasing(s) \/ publishFails(s)
       \/ waitForRelease(s) \/ waitTimesOut(s) \/ recordStable(s) \/ recordFailed(s)

Outside == Trigger \/ (\E d \in Diffs : Push(d)) \/ (\E pr \in open : mergeLate(pr)) \/ \E s \in Services : ArgoSync(s)

DeliveryNext == Pipeline \/ Outside

DeliverySpec == DeliveryInit /\ [][DeliveryNext]_deliveryVars

-----------------------------------------------------------------------------
(* Properties.                                                              *)

\* Images, revisions and records have their types.
DeliveryTypeOK ==
  /\ values \in [Services -> DOMAIN pushes] /\ stable \in [Services -> DOMAIN pushes]
  /\ configRev \in [Services -> 1..head \cup {NoRevision}]
  /\ log \subseteq Services \X {"releasing", "failed"} \X DOMAIN pushes
  /\ build.builds \subseteq build.affected /\ build.done \subseteq build.affected

\* Code of a service, or of a package it is built from, changed.
changesRuntime(s, diff) ==
  \E i \in DOMAIN diff : \E f \in Range(diff[i].files) :
    ~ignorable(f) /\ f.class = "code" /\ ~f.test /\ f.pkg # NoPackage /\ f.pkg \in Deps({Entrypoint[s]})

\* Between builds the values of every service whose code a push changed have an
\* image of that push or a later one, unless its build is still queued, and this
\* release is stable or was recorded as failed. The exceptions are a lost webhook, a
\* build that failed before the service was merged, since later builds look at their
\* own push only, and for the record a release whose step failed or that the build
\* did not wait for.
Delivered ==
  At("none") =>
    \A i \in DOMAIN pushes, s \in Services :
      changesRuntime(s, pushes[i]) /\ i \notin Range(queue) /\ <<s, i>> \notin missed =>
        /\ values[s] >= i
        /\ \/ stable[s] >= i
           \/ \E c \in i..Len(pushes) : <<s, "failed", c>> \in log \/ <<s, c>> \in disturbed

\* The stable row of a service names an image that was not sick and that is, or
\* was before a later merge, the one in the values and in the cluster: the release
\* is recorded as stable after the cluster has been asked.
StableWasHealthy ==
  \A s \in Services : <<s, stable[s]>> \notin sick /\ stable[s] <= values[s] /\ stable[s] <= cluster[s].image

\* Where the script gets past FIXTURE_MODE a release recorded as failed was sick, had
\* a step that failed, or had its revision overtaken: wait_for_argocd compares with
\* the head read after the merge, which does not come up again once main has moved
\* on, and which is an older one where another branch wrote gitops-head.txt before it
\* was read.
FailuresHaveReason ==
  ~scriptEnds => \A s \in Services, c \in DOMAIN pushes :
    <<s, "failed", c>> \in log => <<s, c>> \in sick \cup disturbed \cup overtaken

\* Values and stable rows never go back to an older commit, whatever is queued,
\* repeated or merged late.
goesForward == \A s \in Services : values'[s] >= values[s] /\ stable'[s] >= stable[s]
NeverBackwards == [][goesForward]_deliveryVars

\* Every build ends, whatever fails in it, and while something is queued the next one
\* starts, so that every push gets the build it asked for in its turn, whatever is
\* queued behind it. That the queue ever gets empty is not said: where the webhook
\* reports merges, each of them asks for a build of every service.
BuildsEnd ==
  /\ []<>At("none")
  /\ queue # <<>> ~> At("detect")

\* The stable row is what README says of it: a healthy release that nothing disturbed
\* is marked stable after its checks.
HealthyIsStable ==
  \A s \in Services, c \in DOMAIN pushes :
    <<s, "failed", c>> \in log => <<s, c>> \in sick \cup disturbed \cup overtaken

\* What was pushed is delivered, and the records tell what happened to it: stable
\* releases were healthy and failed ones had a reason.
ReleasesAgree ==
  /\ DeliveryTypeOK
  /\ Delivered
  /\ StableWasHealthy
  /\ FailuresHaveReason
=============================================================================
