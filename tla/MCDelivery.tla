------------------------------ MODULE MCDelivery ------------------------------
(***************************************************************************)
(* Delivery of two services, and every diff of up to two lines evaluated   *)
(* by itself.                                                              *)
(***************************************************************************)
EXTENDS Delivery, SequencesExt

VARIABLES part, probe

MCServices == {"agentchat", "topic"}
MCPackages == {"agentchat", "topic", "lib", "kit"}
MCEntrypoint == [s \in MCServices |-> s]
\* Both services use lib; kit helps to test topic, and agentchat.
MCImports == [p \in MCPackages |-> CASE p \in MCServices -> {"lib"} [] p = "kit" -> {"topic"} [] OTHER -> {}]
MCTestImports == [p \in MCPackages |-> IF p \in MCServices THEN {"kit"} ELSE {}]

File(class, pkg, test, proto) == [class |-> class, pkg |-> pkg, test |-> test, proto |-> proto]
Code(p) == File("code", p, FALSE, FALSE)
MCFiles ==
  {File("ignored", NoPackage, FALSE, b) : b \in BOOLEAN} \cup {File("full", NoPackage, FALSE, FALSE)}
  \cup {File("proto", NoPackage, FALSE, TRUE)} \cup {Code(NoPackage)}
  \cup {File("code", p, b, FALSE) : p \in MCPackages, b \in BOOLEAN}

Line(status, files) == [status |-> status, files |-> files]
Lines ==
  {Line(t, <<f>>) : t \in {"M", "D", "U"}, f \in MCFiles}
  \cup {Line("R", <<f, g>>) : f, g \in {Code("lib"), File("ignored", NoPackage, FALSE, FALSE)}}

OnlyTopic == <<Line("M", <<Code("topic")>>)>>
MCDiffs == {OnlyTopic, <<Line("M", <<Code("lib")>>)>>,
            <<Line("M", <<File("ignored", NoPackage, FALSE, FALSE)>>)>>}

MCInit ==
  /\ DeliveryInit
  /\ \/ part \in {"queueing", "echoing"} /\ fixtureMode = "empty" /\ probe = <<>>
     \/ part = "failing" /\ probe = <<>>
     \/ part = "impact" /\ fixtureMode = "empty" /\ probe \in {<<a>> : a \in Lines} \cup {<<a, b>> : a, b \in Lines}

\* Builds that evaluate their diff, where the alternative adds only states.
Evaluated == At("detect") /\ build.push # 0 /\ build'.step = "verify" => build'.builds = EvaluateDiff(pushes[build.push]).builds

ByPeople(p) == Tail(SelectSeq(p, LAMBDA d : d # ValuesChange))

\* Two pushes, or a push and a build by hand, wait for each other, nothing fails.
Queueing ==
  /\ broken' = 0 /\ sick' = {} /\ echoes' = 0 /\ Evaluated
  /\ ToSet(ByPeople(pushes')) \subseteq {OnlyTopic} /\ Len(ByPeople(pushes')) + manual' <= 2

\* The merges of a push ask for a build of their own.
Echoing == broken' = 0 /\ sick' = {} /\ manual' = 0 /\ ByPeople(pushes') \in {<<>>, <<OnlyTopic>>} /\ Evaluated

\* One push, whose release is disturbed, and another once the first was missed.
Failing ==
  /\ manual' = 0 /\ echoes' = 0 /\ sick' \subseteq {<<"topic", 2>>}
  /\ Len(ByPeople(pushes')) > 1 => missed # {} /\ ByPeople(pushes')[2] = OnlyTopic
  /\ IF fixtureMode = "unset" THEN broken' = 0 ELSE Evaluated

InPart ==
  /\ UNCHANGED <<part, probe>>
  /\ \/ part = "queueing" /\ Queueing
     \/ part = "echoing" /\ Echoing
     \/ part = "failing" /\ Failing

MCNext == DeliveryNext /\ InPart

\* Jenkins carries a build on, and Argo CD polls the repository.
MCFairness == WF_deliveryVars(Pipeline /\ InPart) /\ \A s \in Services : WF_deliveryVars(ArgoSync(s) /\ InPart)
MCSpec == MCInit /\ [][MCNext]_<<deliveryVars, part, probe>> /\ MCFairness

result == EvaluateDiff(probe)
touched == UNION {ToSet(probe[i].files) : i \in DOMAIN probe}
testing(s, p) == {q \in RuntimePackages(s) : p \in {q} \cup TestDeps(q)}

\* A service is built when the code it is built from changes, and tested when the
\* packages or the tests it consists of change, by whatever kind of change and
\* next to whatever other one. A test helper is missed where it imports the package
\* it helps to test: go list names it differently then.
ImpactComplete ==
  \A f \in {f \in touched : f.class = "code" /\ f.pkg # NoPackage}, s \in Services :
    /\ f.pkg \in Deps({Entrypoint[s]}) /\ ~f.test => s \in result.builds
    /\ (\E q \in testing(s, f.pkg) : f.pkg \notin recompiled(q)) => s \in result.tests

\* Another change never takes a service, or the check of the agent's protocol, away,
\* and the order of the changes does not matter.
ImpactMonotone ==
  Len(probe) = 2 =>
    /\ LET other == EvaluateDiff(Reverse(probe)) IN
         result.tests = other.tests /\ result.builds = other.builds /\ result.proto = other.proto
    /\ LET one == EvaluateDiff(<<probe[1]>>) IN
         one.tests \subseteq result.tests /\ one.builds \subseteq result.builds /\ (one.proto => result.proto)

\* The services to build and test are all that a push touches, whatever else it touches.
ImpactAgrees ==
  /\ ImpactComplete
  /\ ImpactMonotone
=============================================================================
