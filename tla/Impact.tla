-------------------------------- MODULE Impact --------------------------------
(***************************************************************************)
(* Which services a change affects (internal/ciimpact, cmd/ecampus-impact).*)
(*                                                                         *)
(* A file is a record: the class its path falls in, whether it lies below  *)
(* proto/agent, the package of its directory and whether it is a test.     *)
(***************************************************************************)
EXTENDS Integers, Sequences, FiniteSets, FiniteSetsExt, Functions

CONSTANTS
  Services,     \* the manifest
  AgentChat,    \* the service that speaks the agent's protocol
  Packages,     \* packages of the main module
  Entrypoint,   \* the package of a service's command
  Imports,      \* packages a package imports
  TestImports,  \* packages its tests import
  NoPackage, NoFile

ASSUME ImpactAssumption ==
  /\ Entrypoint \in [Services -> Packages] /\ AgentChat \in Services
  /\ Imports \in [Packages -> SUBSET Packages] /\ TestImports \in [Packages -> SUBSET Packages]
  /\ NoPackage \notin Packages

-----------------------------------------------------------------------------
(* The dependency graph.                                                    *)

\* go list -deps.
Deps(S) ==
  LET reach[n \in 0..Cardinality(Packages)] ==
        IF n = 0 THEN S ELSE reach[n - 1] \cup UNION {Imports[p] : p \in reach[n - 1]}
  IN reach[Cardinality(Packages)]

\* Packages the tests of p need. One that itself imports p is compiled again for
\* those tests, and go list -test names it "q [p.test]".
TestDeps(p) == Deps(TestImports[p])
recompiled(p) == {q \in TestDeps(p) : p \in Deps({q})}

\* localImports leaves out p.test only: a recompiled package keeps its longer name.
localImports(p) == TestDeps(p) \ recompiled(p)

RuntimePackages(s) == Deps({Entrypoint[s]})

BuildGraph(s) == RuntimePackages(s) \cup UNION {localImports(p) : p \in RuntimePackages(s)}

-----------------------------------------------------------------------------
(* Changed files.                                                           *)

\* A line of git diff --name-status has a second file for a rename or a copy.
isLine(line) ==
  DOMAIN line.files = 1..(IF line.status \in {"R", "C"} THEN 2 ELSE 1) /\ NoFile \notin Range(line.files)

ParseNameStatus(line) ==
  IF line.status \in {"R", "C"} THEN [status |-> line.status, old |-> line.files[1], path |-> line.files[2]]
  ELSE [status |-> line.status, old |-> NoFile, path |-> line.files[1]]

ignorable(f) == f.class = "ignored"

\* Mutant: where a file came from is not looked at.
newPathIgnorable(c) == ignorable(c.path)

changeIsIgnorable(c) == ignorable(c.path) /\ (c.old = NoFile \/ ignorable(c.old))

changedPaths(changes) == {c.path : c \in Range(changes)} \cup ({c.old : c \in Range(changes)} \ {NoFile})

FullResult(files, fallback) ==
  [tests |-> Services, builds |-> Services, proto |-> \E f \in files : f.proto, fallback |-> fallback]

\* Services that are tested, and built, for one file.
testedFor(f) ==
  IF f.class = "proto" THEN {AgentChat} ELSE {s \in Services : f.pkg \in BuildGraph(s)}
builtFor(f) ==
  IF f.class = "proto" THEN {AgentChat} ELSE {s \in Services : f.pkg \in RuntimePackages(s) /\ ~f.test}

\* A file that cannot be mapped, or is outside every closure, selects everything.
unmapped(f) == f.class = "code" /\ (f.pkg = NoPackage \/ testedFor(f) = {})

\* The first loop of Evaluate.
unsafe(c) == ~changeIsIgnorable(c) /\ c.status \notin {"A", "M", "T"}

\* The second loop returns at the first file that selects everything.
selectsAll(f) == f.class = "full" \/ unmapped(f)

Evaluate(changes) ==
  LET files == changedPaths(changes)
      stops == {i \in DOMAIN changes : selectsAll(changes[i].path)}
      taken == {c.path : c \in {c \in Range(changes) : ~ignorable(c.path)}}
  IN IF \E c \in Range(changes) : unsafe(c) THEN FullResult(files, TRUE)
     ELSE IF stops # {} THEN FullResult(files, unmapped(changes[Min(stops)].path))
     ELSE [tests |-> UNION {testedFor(f) : f \in taken}, builds |-> UNION {builtFor(f) : f \in taken},
           proto |-> \E f \in taken : f.class = "proto", fallback |-> FALSE]

\* The result for a diff.
EvaluateDiff(lines) == Evaluate([i \in DOMAIN lines |-> ParseNameStatus(lines[i])])

\* readChanges or BuildGraph failed: everything is tested and built.
runFails(files) == FullResult(files, TRUE)
=============================================================================
