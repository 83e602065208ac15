------------------------------ MODULE MCBackend ------------------------------
(***************************************************************************)
(* Six parts of the command line program for TLC: the commands that share  *)
(* a repository, the build's output, the dev server, HTTP requests, the    *)
(* graph of collections and the parallel map.  They share no state in the  *)
(* model, so a behaviour is of one of them, `part`, and leaves the others  *)
(* where they began.                                                       *)
(***************************************************************************)
EXTENDS Naturals, FiniteSets

CONSTANTS
  Process, Nobody, MaxCrashes,
  Key, MaxBuilds, MaxBuildFaults,
  Broken, Importing, Elsewhere, MaxVersion, MaxFaults, MaxRestarts,
  Get, Url, Origin, Retries, MaxRedirects,
  Document, Root, Local, MaxDepth, MaxDocuments, MaxEdges, MaxFailures,
  Inputs, Worker

VARIABLES
  part,
  \* Workspace
  kind, todo, plan, holder, exists, recorder, body, sidecar, trees, named,
  witnessed, crashed,
  \* BuildOutput
  out, current, previous, manifest, aside, building, key, retain, fresh, had,
  result, torn, builds, buildFaults,
  \* DevServer
  saved, release, served, disk, staged, refreshing, project, round, syncs,
  visible, watching, events, missed, failed, devFaults, restarts,
  \* HttpRequest
  manner, leads, http1, browser, emulated, state, url, first, headers,
  compatible, over1, stage, challenged, hops, attempt, left, outcome, faults,
  \* ImportGraph
  names, moved, allowChains, stack, seen, documents, entered, cut, failures,
  \* ParallelMap
  failing, cursor, step, held, slots

\* A sync, a clean or `dev --clean` beside any other command, and two trios.
Beside ==
  {<<c, d, "none">> :
     c \in {"sync", "build --clean", "clean", "clean --dry-run", "dev",
            "dev --clean"},
     d \in {"sync", "clean", "dev --clean"}}
Started ==
  Beside \cup {<<"sync", "clean --dry-run", "clean">>, <<"dev", "clean", "sync">>}

\* A local document beside the configuration file, and two origins.
home ==
  [d \in Document |-> CASE d = Root -> Local
                        [] d \in {"a1", "a2"} -> "a.example"
                        [] OTHER -> "b.example"]

\* Two URLs of one origin, and one of another.
SiteOf ==
  [u \in Url |-> IF u = "b1" THEN "b.example" ELSE "a.example"]

\* Where they redirect: within an origin, to the other one and back, in circles.
Route(a1, a2, b1) ==
  [u \in Url |-> CASE u = "a1" -> a1 [] u = "a2" -> a2 [] OTHER -> b1]
Routes ==
  {Route("nowhere", "nowhere", "nowhere"), Route("a2", "nowhere", "nowhere"),
   Route("b1", "nowhere", "nowhere"), Route("a2", "b1", "nowhere"),
   Route("b1", "nowhere", "a2"), Route("a2", "a1", "nowhere"),
   Route("b1", "nowhere", "a1")}
Firsts ==
  {[g \in Get |-> IF g = CHOOSE h \in Get : TRUE THEN "a1" ELSE u] :
     u \in {"a1", "b1"}}

Commands == INSTANCE Workspace
Output == INSTANCE BuildOutput WITH
  step <- building, outcome <- result, faults <- buildFaults,
  MaxFaults <- MaxBuildFaults
Dev == INSTANCE DevServer WITH step <- refreshing, faults <- devFaults
Http == INSTANCE HttpRequest
Imports == INSTANCE ImportGraph
Parallel == INSTANCE ParallelMap

ASSUME BackendAssumption ==
  /\ Commands!WorkspaceAssumption /\ Output!OutputAssumption
  /\ Dev!DevAssumption /\ Http!HttpAssumption /\ Imports!GraphAssumption
  /\ Parallel!ParallelAssumption

workspaceVars ==
  <<kind, todo, plan, holder, exists, recorder, body, sidecar, trees, named,
    witnessed, crashed>>
outputVars ==
  <<out, current, previous, manifest, aside, building, key, retain, fresh,
    had, result, torn, builds, buildFaults>>
devVars ==
  <<saved, release, served, disk, staged, refreshing, project, round, syncs,
    visible, watching, events, missed, failed, devFaults, restarts>>
httpVars ==
  <<manner, leads, http1, browser, emulated, state, url, first, headers,
    compatible, over1, stage, challenged, hops, attempt, left, outcome, faults>>
expandVars ==
  <<names, moved, allowChains, stack, seen, documents, entered, cut, failures>>
parallelVars == <<failing, cursor, step, held, slots>>
mcVars ==
  <<part, workspaceVars, outputVars, devVars, httpVars, expandVars,
    parallelVars>>

\* The parts that do not run begin in one state; the origins and the URLs of
\* the HTTP requests are those an instance of this size can tell apart.
Resting ==
  /\ part # "commands" => kind = <<"sync", "sync", "none">> /\ trees = {}
  /\ part # "dev" => release = FALSE
  /\ part # "http" => /\ manner = [o \in Origin |-> {}]
                      /\ leads = [u \in Url |-> Http!Nowhere]
                      /\ first = [g \in Get |-> "a1"]
  /\ part = "http" => /\ leads \in Routes
                      /\ first \in Firsts
  /\ part # "imports" => /\ names = [d \in Document |-> {}]
                         /\ moved = [d \in Document |-> d]
                         /\ allowChains = FALSE
  /\ part # "parallel" => failing = {}

\* The documents that name the configuration file; one, without redirects.
Naming == {d \in Document : Root \in names[d]}

MCInit ==
  /\ part \in {"commands", "output", "dev", "http", "imports", "parallel"}
  /\ Resting
  /\ Commands!Init /\ Output!Init /\ Dev!Init /\ Http!Init /\ Imports!Init
  /\ Parallel!Init
  /\ part = "http" => Cardinality(manner["b.example"]) <= 1
  /\ part = "imports" /\ Naming # {} =>
       Cardinality(Naming) = 1 /\ \A d \in Document : moved[d] = d

MCNext ==
  \/ /\ part = "commands" /\ Commands!Next
     /\ UNCHANGED <<part, outputVars, devVars, httpVars, expandVars, parallelVars>>
  \/ /\ part = "output" /\ Output!Next
     /\ UNCHANGED <<part, workspaceVars, devVars, httpVars, expandVars, parallelVars>>
  \/ /\ part = "dev" /\ Dev!Next
     /\ UNCHANGED <<part, workspaceVars, outputVars, httpVars, expandVars, parallelVars>>
  \/ /\ part = "http" /\ Http!Next
     /\ UNCHANGED <<part, workspaceVars, outputVars, devVars, expandVars, parallelVars>>
  \/ /\ part = "imports" /\ Imports!Next
     /\ UNCHANGED <<part, workspaceVars, outputVars, devVars, httpVars, parallelVars>>
  \/ /\ part = "parallel" /\ Parallel!Next
     /\ UNCHANGED <<part, workspaceVars, outputVars, devVars, httpVars, expandVars>>

\* HttpRequest's own fairness: requests are answered or time out.
MCSpec ==
  /\ MCInit /\ [][MCNext]_mcVars
  /\ \A g \in Get : WF_httpVars(part = "http" /\ (Http!Ask(g) \/ Http!Answered(g)))

-----------------------------------------------------------------------------

\* Every part keeps the types and the limits it declares, the depth of nested
\* collections and the number of redirects among them.
TypesOK ==
  /\ Commands!TypeOK /\ Output!TypeOK /\ Dev!TypeOK /\ Http!TypeOK
  /\ Imports!TypeOK /\ Parallel!TypeOK

\* Workspace: a lock conflict names a command that held the lock meanwhile, or
\* one that ended without clearing its record (src/src/commands/lock.rs).
NamedHeld == Commands!NamedHeld

\* Workspace: nobody but `dev --clean` removes a tree under a running command
\* (src/src/commands/clean.rs).
TreeKept == Commands!TreeKept

\* BuildOutput: a build that reports success leaves the whole site it was asked
\* for, unless a restoration before it was cut short
\* (src/src/cache.rs, src/src/site/output_dir.rs).
RestoredWholeUnlessTorn == Output!RestoredWholeUnlessTorn

\* BuildOutput: a failed build does not cost the site published before it.
OutputStays == Output!OutputStays

\* DevServer: once it is quiet the dev server shows what was saved, unless a
\* save came between loading and hashing the files
\* (src/src/commands/server.rs).
ServedIsSavedUnlessOvertaken == Dev!ServedIsSavedUnlessOvertaken

\* HttpRequest: a caller's headers reach only the origin it asked
\* (src/src/http.rs).
HeadersStayHome == Http!HeadersStayHome

\* HttpRequest: a get that meets no fault is answered, whoever learns its
\* origin's manner first.
Recovered == Http!Recovered

\* HttpRequest: every get comes to an end.
GetsEnd == part = "http" ~> \A g \in Get : state[g] = "done"

\* ImportGraph: the collections that may be reached are expanded, once each
\* (src/src/config/import_graph.rs).
ExpandsReachable == Imports!ExpandsReachable

\* ParallelMap: the caller gets what one thread would give, and no input is
\* worked on twice (src/src/site/parallel.rs).
SameAsSequential ==
  Parallel!SameAsSequential /\ Parallel!HandedOutOnce /\ Parallel!InputOrder
=============================================================================
