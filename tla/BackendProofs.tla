---------------------------- MODULE BackendProofs ----------------------------
(***************************************************************************)
(* The parts of the command line program, for every value of the           *)
(* constants.  A behaviour of the whole is, seen from each part, one of    *)
(* that part (PartsBegin, PartsMove), so what is proved of a part holds of *)
(* the specification that TLC checks.  Workspace and ParallelMap have      *)
(* modules of their own for their proofs; the others are proved here, each *)
(* from an inductive invariant: OutputInv, DevInv, HttpInv, TrailInv,      *)
(* ImportsInv.                                                             *)
(***************************************************************************)
EXTENDS MCBackend, Sequences, FiniteSetTheorems, TLAPS

ParallelP == INSTANCE ParallelMapProofs
WorkspaceP == INSTANCE WorkspaceProofs

-----------------------------------------------------------------------------
(* Composition                                                             *)

LEMMA PartsBegin ==
  MCInit => /\ Commands!Init /\ Output!Init /\ Dev!Init /\ Http!Init
            /\ Imports!Init /\ ParallelP!Init
BY DEF MCInit, Parallel!Init, ParallelP!Init, Parallel!Input, ParallelP!Input,
       Parallel!None, ParallelP!None

LEMMA PartsMove ==
  ASSUME [MCNext]_mcVars
  PROVE  /\ [Commands!Next]_workspaceVars /\ [Output!Next]_outputVars
         /\ [Dev!Next]_devVars /\ [Http!Next]_httpVars
         /\ [Imports!Next]_expandVars /\ [ParallelP!Next]_parallelVars
<1>1. CASE UNCHANGED mcVars
  BY <1>1 DEF mcVars, workspaceVars, outputVars, devVars, httpVars, expandVars,
              parallelVars
<1>2. Parallel!Next => ParallelP!Next
  BY DEF Parallel!Next, ParallelP!Next, Parallel!Claim, ParallelP!Claim,
         Parallel!InOrder, ParallelP!InOrder, Parallel!Transform,
         ParallelP!Transform, Parallel!Store, ParallelP!Store, Parallel!None,
         ParallelP!None
<1>3. CASE MCNext
  BY <1>2, <1>3 DEF MCNext, workspaceVars, outputVars, devVars, httpVars,
                    expandVars, parallelVars
<1> QED BY <1>1, <1>3

-----------------------------------------------------------------------------
(* ParallelMap                                                             *)

LEMMA ParallelHolds == MCSpec => []ParallelP!Inv
<1>1. Inputs \in Nat
  BY BackendAssumption DEF Parallel!ParallelAssumption
<1>2. MCInit => ParallelP!Inv
  BY <1>1, PartsBegin, ParallelP!InvInit
<1>3. ParallelP!Inv /\ [MCNext]_mcVars => ParallelP!Inv'
  BY <1>1, PartsMove, ParallelP!InvStep DEF parallelVars, ParallelP!parallelVars
<1> QED BY <1>2, <1>3, PTL DEF MCSpec

\* What the caller of the parallel map gets is what one thread that stops at
\* its first failure would give, and no input is worked on twice, for any
\* number of inputs and workers (src/src/site/parallel.rs).
THEOREM MapIsSequential == MCSpec => []SameAsSequential
<1>1. ParallelP!Inv => SameAsSequential
  BY BackendAssumption, ParallelP!JoinedInOrder
  DEF Parallel!ParallelAssumption, SameAsSequential, ParallelP!Inv,
      ParallelP!SameAsSequential, Parallel!SameAsSequential,
      ParallelP!HandedOutOnce, Parallel!HandedOutOnce,
      ParallelP!InputOrder, Parallel!InputOrder, ParallelP!Joined,
      Parallel!Joined, ParallelP!Reports, Parallel!Reports, ParallelP!Input,
      Parallel!Input, ParallelP!None, Parallel!None
<1> QED BY <1>1, ParallelHolds, PTL

-----------------------------------------------------------------------------
(* BuildOutput.  A rendering is retained whole or not at all, and the      *)
(* output is whole or gone, except while it is restored and after a        *)
(* restoration was cut short.  Hence what carries the key of a retained    *)
(* rendering is that rendering.                                            *)

Sites == {Output!Site(k) : k \in Key}
WholeOrGone(tree) == tree = Output!Absent \/ tree \in Sites

\* The steps that take the output apart, or leave it empty for a moment.
Apart == {"clearing", "copying", "publishing"}

OutputInv ==
  /\ Output!TypeOK
  /\ WholeOrGone(current) /\ WholeOrGone(previous)
  /\ building # "idle" => key \in Key /\ result = "none"
  /\ building \in {"clearing", "copying"} => current = Output!Site(key)
  /\ building = "copying" => out.of = key
  /\ building = "publishing" => out = Output!Absent
  /\ ~torn => /\ building \notin Apart => WholeOrGone(out)
              /\ building = "publishing" => WholeOrGone(aside)
              /\ had /\ building \notin Apart \cup {"idle"} => out \in Sites
              /\ had /\ building = "publishing" => aside \in Sites
              /\ building = "idle" /\ result = "done" => out = Output!Site(key)
              /\ /\ building = "idle" /\ result \in {"failed", "refused"} /\ had
                 => out \in Sites

LEMMA OutputBegins == ASSUME Output!OutputAssumption, Output!Init PROVE OutputInv
<1>1. Output!Absent \in Output!Trees
  BY DEF Output!Absent, Output!Trees, Output!None
<1>2. Output!TypeOK
  <2>1. 0 \in 0..MaxBuilds /\ 0 \in 0..MaxBuildFaults
    BY DEF Output!OutputAssumption
  <2>2. {retain, fresh, had, torn} \subseteq BOOLEAN
    BY DEF Output!Init
  <2> QED BY <1>1, <2>1, <2>2 DEF Output!Init, Output!TypeOK
<1> QED BY <1>2 DEF Output!Init, OutputInv, WholeOrGone, Apart

\* A tree that is whole or gone, and has its marker, is whole.
LEMMA MarkedIsWhole ==
  ASSUME NEW tree, WholeOrGone(tree), tree.parts # {}
  PROVE  tree \in Sites /\ tree = Output!Site(tree.of)
BY DEF WholeOrGone, Sites, Output!Site, Output!Absent

LEMMA SiteIsTree ==
  /\ \A k \in Key : /\ Output!Site(k) \in Output!Trees
                    /\ Output!Site(k).of = k
                    /\ Output!Site(k).parts = Output!Part
  /\ Output!Absent \in Output!Trees
BY DEF Output!Site, Output!Trees, Output!Absent, Output!None

LEMMA StartKeeps ==
  ASSUME Output!OutputAssumption, OutputInv, NEW k \in Key, NEW kept \in BOOLEAN,
         Output!Start(k, kept)
  PROVE  OutputInv'
<1>1. Output!TypeOK'
  <2>1. had' \in BOOLEAN /\ builds' \in 0..MaxBuilds
    BY DEF Output!OutputAssumption, OutputInv, Output!TypeOK, Output!Start,
           Output!Whole
  <2> QED BY <2>1 DEF OutputInv, Output!TypeOK, Output!Start, Output!cacheVars
<1>2. had' => out \in Sites
  BY DEF Output!Start, Output!Whole, Sites
<1> QED BY <1>1, <1>2 DEF OutputInv, Output!Start, Output!Running,
          Output!cacheVars, WholeOrGone, Apart

LEMMA RestoreKeeps ==
  ASSUME Output!OutputAssumption, OutputInv, Output!Restore
  PROVE  OutputInv'
<1> USE DEF Output!Restore, Output!Go, Output!End, Output!cacheVars
<1>1. Output!TypeOK'
  BY DEF OutputInv, Output!TypeOK
<1>2. Output!Retained(key) => current = Output!Site(key)
  BY MarkedIsWhole DEF OutputInv, Output!Retained
<1>3. WholeOrGone(out) /\ Output!Carries(out, key) => out = Output!Site(key)
  BY MarkedIsWhole DEF Output!Carries
<1> QED BY <1>1, <1>2, <1>3 DEF OutputInv, WholeOrGone, Apart
LEMMA ClearKeeps ==
  ASSUME OutputInv, Output!Clear
  PROVE  OutputInv'
<1> USE DEF Output!Go, Output!cacheVars, Output!buildVars
<1>1. current = Output!Site(key) /\ key \in Key /\ building = "clearing"
  BY DEF Output!Clear, OutputInv
<1>2. CASE Output!Exists(out)
  <2>1. out' \in Output!Trees
    BY <1>2 DEF Output!Clear, OutputInv, Output!TypeOK, Output!Trees
  <2> QED BY <1>2, <2>1 DEF OutputInv, Output!TypeOK, Output!Clear,
                            WholeOrGone, Apart
<1>3. CASE ~Output!Exists(out)
  <2>1. out' = [of |-> key, parts |-> {}] /\ out' \in Output!Trees
    BY <1>1, <1>3, SiteIsTree DEF Output!Clear, Output!Trees
  <2> QED BY <1>1, <1>3, <2>1 DEF OutputInv, Output!TypeOK, Output!Clear,
                                  WholeOrGone, Apart
<1> QED BY <1>2, <1>3

LEMMA CopyKeeps ==
  ASSUME OutputInv, Output!Copy
  PROVE  OutputInv'
<1> USE DEF Output!End, Output!cacheVars, Output!buildVars
<1>1. /\ current = Output!Site(key) /\ current.parts = Output!Part
      /\ key \in Key /\ building = "copying" /\ out.of = key
      /\ out \in Output!Trees /\ out.parts \subseteq Output!Part
  BY SiteIsTree DEF Output!Copy, OutputInv, Output!TypeOK, Output!Trees
<1>2. CASE Output!Part \ out.parts # {}
  <2>1. out' \in Output!Trees /\ out'.of = key
    BY <1>1, <1>2 DEF Output!Copy, Output!Trees
  <2> QED BY <1>1, <1>2, <2>1 DEF OutputInv, Output!TypeOK, Output!Copy,
                                  WholeOrGone, Apart
<1>3. CASE Output!Part \ out.parts = {}
  <2>1. out' = Output!Site(key)
    BY <1>1, <1>3 DEF Output!Copy, Output!Site, Output!Part
  <2>2. out' \in Sites /\ out' \in Output!Trees
    BY <1>1, <2>1, SiteIsTree DEF Sites
  <2> QED BY <1>1, <1>3, <2>1, <2>2 DEF OutputInv, Output!TypeOK, Output!Copy,
                                        WholeOrGone, Apart
<1> QED BY <1>2, <1>3

LEMMA RenderKeeps ==
  ASSUME OutputInv, Output!Render \/ Output!SetAside
  PROVE  OutputInv'
<1>1. Output!TypeOK'
  BY SiteIsTree DEF OutputInv, Output!TypeOK, Output!Render, Output!SetAside,
                    Output!Go, Output!cacheVars
<1> QED BY <1>1 DEF OutputInv, Output!Render, Output!SetAside, Output!Go,
                    Output!cacheVars, WholeOrGone, Apart

LEMMA StoreKeeps ==
  ASSUME OutputInv, Output!Store
  PROVE  OutputInv'
<1>1. key \in Key /\ Output!Site(key) \in Sites
  BY DEF OutputInv, Output!Store, Sites
<1>2. Output!TypeOK'
  <2>1. {out, current, previous, aside}' \subseteq Output!Trees
    BY <1>1, SiteIsTree DEF OutputInv, Output!TypeOK, Output!Store, Output!Go
  <2> QED BY <1>1, <2>1 DEF OutputInv, Output!TypeOK, Output!Store, Output!Go
<1> QED BY <1>1, <1>2 DEF OutputInv, Output!Store, Output!Go, WholeOrGone, Apart

LEMMA PromoteKeeps ==
  ASSUME OutputInv, Output!Promote
  PROVE  OutputInv'
<1> USE DEF Output!Promote, Output!Go, Output!End, Output!cacheVars
<1>1. key \in Key /\ Output!Site(key) \in Sites
  BY DEF OutputInv, Sites
<1>2. Output!TypeOK'
  <2>1. {out, current, previous, aside}' \subseteq Output!Trees
    BY <1>1, SiteIsTree DEF OutputInv, Output!TypeOK
  <2> QED BY <1>1, <2>1 DEF OutputInv, Output!TypeOK
<1> QED BY <1>1, <1>2 DEF OutputInv, WholeOrGone, Apart

LEMMA FailureKeeps ==
  ASSUME Output!OutputAssumption, OutputInv, Output!StepFails
  PROVE  OutputInv'
<1> USE DEF Output!StepFails, Output!PutBack, Output!End, Output!Unfinished,
            Output!Running
<1>1. buildFaults' \in 0..MaxBuildFaults /\ torn' \in BOOLEAN
  BY DEF Output!OutputAssumption, OutputInv, Output!TypeOK
<1>2. Output!TypeOK'
  BY <1>1, SiteIsTree DEF OutputInv, Output!TypeOK
<1> QED BY <1>2 DEF OutputInv, WholeOrGone, Apart

LEMMA KillKeeps ==
  ASSUME Output!OutputAssumption, OutputInv, Output!Kill
  PROVE  OutputInv'
<1> USE DEF Output!Kill, Output!End, Output!Unfinished, Output!Running,
            Output!cacheVars
<1>1. buildFaults' \in 0..MaxBuildFaults /\ torn' \in BOOLEAN
  BY DEF Output!OutputAssumption, OutputInv, Output!TypeOK
<1>2. Output!TypeOK'
  BY <1>1, SiteIsTree DEF OutputInv, Output!TypeOK
<1> QED BY <1>2 DEF OutputInv, WholeOrGone, Apart

LEMMA OutputStep ==
  ASSUME Output!OutputAssumption, OutputInv, [Output!Next]_outputVars
  PROVE  OutputInv'
<1>1. CASE UNCHANGED outputVars
  BY <1>1 DEF outputVars, OutputInv, Output!TypeOK, WholeOrGone
<1>2. CASE Output!Next
  BY <1>2, StartKeeps, RestoreKeeps, ClearKeeps, CopyKeeps, RenderKeeps,
     StoreKeeps, PromoteKeeps, FailureKeeps, KillKeeps DEF Output!Next
<1> QED BY <1>1, <1>2

LEMMA OutputHolds == MCSpec => []OutputInv
<1>1. Output!OutputAssumption
  BY BackendAssumption
<1>2. MCInit => OutputInv
  BY <1>1, PartsBegin, OutputBegins
<1>3. OutputInv /\ [MCNext]_mcVars => OutputInv'
  BY <1>1, PartsMove, OutputStep
<1> QED BY <1>2, <1>3, PTL DEF MCSpec

\* A build that reports success leaves the whole site it was asked for,
\* whichever builds failed or were killed before it, unless one of them was
\* cut short while it restored (src/src/cache.rs:399).
THEOREM WhatIsRestoredIsWhole == MCSpec => []RestoredWholeUnlessTorn
<1>1. OutputInv => RestoredWholeUnlessTorn
  BY DEF OutputInv, Output!TypeOK, RestoredWholeUnlessTorn,
         Output!RestoredWholeUnlessTorn, Output!RestoredWhole
<1> QED BY <1>1, OutputHolds, PTL

\* A build that fails on its way leaves the site published before it, unless
\* it was interrupted inside the output directory
\* (src/src/site/output_dir.rs:20).
THEOREM OutputOutlivesFailure == MCSpec => []OutputStays
<1>1. OutputInv => OutputStays
  BY DEF OutputInv, OutputStays, Output!OutputStays, Output!Whole, Sites
<1> QED BY <1>1, OutputHolds, PTL
-----------------------------------------------------------------------------
(* DevServer.  Unless the watcher has something to report, or could not    *)
(* see it, a round works on the files as they are: the project it loaded,  *)
(* and the key of what it rendered.                                        *)

Unreported == ~events /\ ~missed
Settled == refreshing \in {"start", "idle"} /\ ~failed

DevInv ==
  /\ Dev!TypeOK
  /\ refreshing = "boot" => round = "cached"
  /\ Unreported =>
       /\ round # "cached" /\ refreshing \in {"watch", "sync", "key", "swap"}
          => project = saved
       /\ refreshing = "swap" => staged.key = Dev!Hashed(project, saved)
       /\ Settled => /\ project = saved
                     /\ Dev!Standing.key = Dev!Hashed(project, saved)

LEMMA VersionsAndBounds ==
  ASSUME Dev!DevAssumption
  PROVE  /\ 1 \in Dev!Version /\ 0 \in 0..MaxFaults /\ 0 \in 0..MaxRestarts
         /\ MaxVersion \in Nat /\ MaxFaults \in Nat /\ MaxRestarts \in Nat
         /\ Importing \in Nat /\ Elsewhere \subseteq (Importing + 1)..MaxVersion
BY DEF Dev!DevAssumption, Dev!Version

LEMMA Snapshots ==
  ASSUME Dev!DevAssumption
  PROVE  /\ Dev!Nothing \in Dev!Snapshot
         /\ \A v, s \in Dev!Version :
              [of |-> v, key |-> Dev!Hashed(v, s)] \in Dev!Snapshot
<1>1. \A v, s \in Dev!Version : Dev!Hashed(v, s) \in SUBSET (0..MaxVersion)
  BY VersionsAndBounds DEF Dev!Hashed, Dev!Version
<1> QED BY <1>1 DEF Dev!Snapshot, Dev!Nothing

\* A key over the files as they were loaded tells which they were.
LEMMA KeyTells ==
  ASSUME Dev!DevAssumption, NEW v \in Nat, NEW w \in Nat,
         Dev!Hashed(v, v) = Dev!Hashed(w, w)
  PROVE  v = w
<1>1. ASSUME NEW a \in Nat, NEW b \in Nat, Dev!Hashed(a, a) = Dev!Hashed(b, b),
             b < a
      PROVE  FALSE
  <2>1. a \in 1..a /\ (a \in Elsewhere => Dev!HasImport(a))
    BY <1>1, VersionsAndBounds DEF Dev!HasImport
  <2>2. a \in Dev!Hashed(a, a)
    BY <2>1 DEF Dev!Hashed
  <2>3. a \in Dev!Hashed(b, b)
    BY <1>1, <2>2
  <2>4. a \in 1..b \/ a = 0
    BY <2>3 DEF Dev!Hashed
  <2> QED BY <1>1, <2>4
<1> QED BY <1>1

LEMMA DevBegins == ASSUME Dev!DevAssumption, Dev!Init PROVE DevInv
BY VersionsAndBounds, Snapshots
DEF Dev!Init, DevInv, Dev!TypeOK, Settled

\* Where the end of a round leads.
LEMMA RoundEnds ==
  ASSUME DevInv, NEW error, Dev!EndRound(error)
  PROVE  /\ \/ /\ refreshing' = "load" /\ round' = "first"
            \/ /\ refreshing' \in {"start", "idle"}
               /\ round # "cached" /\ round' = "later"
         /\ failed' = error
         /\ UNCHANGED <<project, syncs>>
BY DEF Dev!EndRound

LEMMA SaveKeeps ==
  ASSUME Dev!DevAssumption, DevInv, Dev!Save
  PROVE  DevInv'
<1> USE DEF Dev!Save, Dev!snapshotVars, Dev!taskVars, Dev!Watched
<1>1. saved' \in Dev!Version /\ events' \in BOOLEAN /\ missed' \in BOOLEAN
  BY VersionsAndBounds DEF DevInv, Dev!TypeOK, Dev!Version
<1>2. Dev!TypeOK'
  BY <1>1 DEF DevInv, Dev!TypeOK
<1>3. refreshing # "boot" => ~Unreported'
  BY DEF Unreported
<1> QED BY <1>2, <1>3 DEF DevInv, Settled

\* The steps that render nothing.
LEMMA QuietStepKeeps ==
  ASSUME DevInv,
         \/ Dev!PrepareWatch \/ Dev!CreateWatcher \/ Dev!Sync
         \/ Dev!Notice \/ Dev!Settle
  PROVE  DevInv'
<1> USE DEF Dev!PrepareWatch, Dev!CreateWatcher, Dev!Sync, Dev!Notice,
            Dev!Settle, Dev!Go, Dev!snapshotVars, Dev!watchVars
<1>1. Dev!TypeOK'
  <2>1. \A v : Dev!HasImport(v) \in BOOLEAN
    BY DEF Dev!HasImport
  <2>2. watching' \in BOOLEAN
    BY <2>1 DEF DevInv, Dev!TypeOK
  <2> QED BY <2>2 DEF DevInv, Dev!TypeOK
<1> QED BY <1>1 DEF DevInv, Unreported, Settled, Dev!Standing

LEMMA LoadKeeps ==
  ASSUME DevInv, Dev!Load
  PROVE  DevInv'
<1> USE DEF Dev!Load, Dev!EndRound, Dev!snapshotVars
<1>1. Dev!TypeOK'
  BY DEF DevInv, Dev!TypeOK
<1>2. CASE Dev!EndRound(TRUE)
  BY <1>1, <1>2, RoundEnds DEF DevInv, Settled
<1>3. CASE ~Dev!EndRound(TRUE)
  BY <1>1, <1>3 DEF DevInv, Unreported, Settled
<1> QED BY <1>2, <1>3

LEMMA FingerprintKeeps ==
  ASSUME Dev!DevAssumption, DevInv, Dev!Fingerprint
  PROVE  DevInv'
<1> USE DEF Dev!Fingerprint, Dev!Go, Dev!EndRefresh, Dev!EndRound, Dev!watchVars
<1>1. [of |-> project, key |-> Dev!Hashed(project, saved)] \in Dev!Snapshot
  BY Snapshots DEF DevInv, Dev!TypeOK
<1>2. Dev!TypeOK'
  BY <1>1 DEF DevInv, Dev!TypeOK
<1>3. UNCHANGED <<Dev!Standing, Dev!Hashed(project, saved)>>
  BY DEF Dev!Standing
<1> DEFINE render == /\ refreshing' = "swap"
                     /\ staged'.key = Dev!Hashed(project, saved)
                     /\ UNCHANGED <<project, round, failed>>
           again  == refreshing' = "key" /\ UNCHANGED <<project, round, failed>>
           over   == /\ Dev!EndRound(FALSE)
                     /\ Dev!Standing.key = Dev!Hashed(project, saved)
<1>4. UNCHANGED <<saved, events, missed>> /\ (render \/ again \/ over)
  OBVIOUS
<1>5. CASE render
  BY <1>2, <1>4, <1>5 DEF DevInv, Unreported, Settled, Dev!Fingerprint
<1>6. CASE again
  BY <1>2, <1>4, <1>6 DEF DevInv, Unreported, Settled, Dev!Fingerprint
<1>7. CASE over
  BY <1>2, <1>3, <1>4, <1>7, RoundEnds
  DEF DevInv, Unreported, Settled, Dev!Fingerprint
<1> QED BY <1>4, <1>5, <1>6, <1>7

LEMMA SwapKeeps ==
  ASSUME Dev!DevAssumption, DevInv, Dev!Swap
  PROVE  DevInv'
<1> USE DEF Dev!Swap, Dev!EndRefresh, Dev!EndRound, Dev!watchVars
<1>1. Dev!TypeOK'
  BY Snapshots DEF DevInv, Dev!TypeOK
<1>2. Dev!Standing' = staged
  BY DEF Dev!Standing
<1>3. CASE Dev!EndRound(FALSE)
  BY <1>1, <1>2, <1>3, RoundEnds DEF DevInv, Unreported, Settled
<1>4. CASE ~Dev!EndRound(FALSE)
  BY <1>1, <1>2, <1>4 DEF DevInv, Unreported, Settled
<1> QED BY <1>3, <1>4

LEMMA FailsKeeps ==
  ASSUME Dev!DevAssumption, DevInv, Dev!Fails
  PROVE  DevInv'
<1> USE DEF Dev!Fails, Dev!EndRound, Dev!watchVars
<1>1. devFaults' \in 0..MaxFaults
  BY VersionsAndBounds DEF DevInv, Dev!TypeOK
<1>2. disk' \in Dev!Snapshot /\ staged' \in Dev!Snapshot
  BY Snapshots DEF DevInv, Dev!TypeOK
<1>3. Dev!TypeOK'
  BY <1>1, <1>2 DEF DevInv, Dev!TypeOK
<1> QED BY <1>3, RoundEnds DEF DevInv, Settled

LEMMA RestartKeeps ==
  ASSUME Dev!DevAssumption, DevInv, Dev!Restart
  PROVE  DevInv'
<1> USE DEF Dev!Restart, Dev!Boot
<1>1. restarts' \in 0..MaxRestarts
  BY VersionsAndBounds DEF DevInv, Dev!TypeOK
<1>2. {served', disk', staged'} \subseteq Dev!Snapshot
  BY Snapshots DEF DevInv, Dev!TypeOK
<1>3. Dev!TypeOK'
  BY <1>1, <1>2 DEF DevInv, Dev!TypeOK
<1> QED BY <1>3 DEF DevInv, Settled

LEMMA DevStep ==
  ASSUME Dev!DevAssumption, DevInv, [Dev!Next]_devVars
  PROVE  DevInv'
<1>1. CASE UNCHANGED devVars
  BY <1>1 DEF devVars, DevInv, Dev!TypeOK, Unreported, Settled, Dev!Standing
<1>2. CASE Dev!Next
  BY <1>2, SaveKeeps, QuietStepKeeps, LoadKeeps, FingerprintKeeps, SwapKeeps,
     FailsKeeps, RestartKeeps DEF Dev!Next
<1> QED BY <1>1, <1>2

LEMMA DevHolds == MCSpec => []DevInv
<1>1. Dev!DevAssumption
  BY BackendAssumption
<1>2. MCInit => DevInv
  BY <1>1, PartsBegin, DevBegins
<1>3. DevInv /\ [MCNext]_mcVars => DevInv'
  BY <1>1, PartsMove, DevStep
<1> QED BY <1>2, <1>3, PTL DEF MCSpec

\* Once it is quiet the dev server shows what was saved, however many saves,
\* failures and restarts came before, unless a save came between loading and
\* hashing the files, a promoted build was not served, or a save was outside
\* the directories watched (src/src/commands/server.rs:343).
THEOREM QuietServerIsCurrent == MCSpec => []ServedIsSavedUnlessOvertaken
<1> DEFINE Excepted == Dev!Overtaken \/ Dev!Unswapped \/ missed
<1>1. ASSUME DevInv, Dev!Quiet, ~Excepted PROVE served.of = saved
  <2>1. project = saved /\ Dev!Standing.key = Dev!Hashed(saved, saved)
    BY <1>1 DEF DevInv, Dev!Quiet, Unreported, Settled
  <2>2. Dev!Hashed(served.of, served.of) = Dev!Hashed(saved, saved)
    BY <1>1, <2>1 DEF Dev!Overtaken, Dev!Unswapped, Dev!Standing
  <2>3. served.of \in Nat /\ saved \in Nat
    BY <1>1 DEF DevInv, Dev!TypeOK, Dev!Snapshot, Dev!Nothing, Dev!Version
  <2> QED BY <2>2, <2>3, BackendAssumption, KeyTells
<1>2. DevInv => ServedIsSavedUnlessOvertaken
  BY <1>1 DEF ServedIsSavedUnlessOvertaken, Dev!ServedIsSavedUnlessOvertaken,
              Dev!ServedIsSaved
<1> QED BY <1>2, DevHolds, PTL
-----------------------------------------------------------------------------
(* HttpRequest                                                             *)

\* The type invariant, one variable at a time.
HttpTypes ==
  /\ manner \in [Origin -> Http!Manner]
  /\ http1 \subseteq Origin /\ browser \subseteq Origin /\ emulated \subseteq Origin
  /\ state \in [Get -> {"ready", "waiting", "done"}]
  /\ url \in [Get -> Url] /\ first \in [Get -> Url]
  /\ headers \in [Get -> SUBSET {"own", "agent"}]
  /\ compatible \in [Get -> BOOLEAN] /\ over1 \in [Get -> BOOLEAN]
  /\ left \in [Get -> BOOLEAN]
  /\ stage \in [Get -> Http!Stages]
  /\ challenged \in [Get -> Origin \cup {Http!Nowhere}]
  /\ hops \in [Get -> 0..MaxRedirects] /\ attempt \in [Get -> 0..Retries]
  /\ outcome \in [Get -> Http!Failure \cup {"none", "success", "timeout"}]
  /\ faults \in 0..MaxFaults

LEMMA HttpTypesOK == HttpTypes <=> Http!TypeOK
BY DEF HttpTypes, Http!TypeOK

HttpInv ==
  /\ HttpTypes
  /\ leads \in [Url -> Url \cup {Http!Nowhere}]
  /\ \A g \in Get :
       "own" \in headers[g] => SiteOf[url[g]] = SiteOf[first[g]] /\ ~left[g]

LEMMA Sited ==
  ASSUME Http!HttpAssumption, HttpInv, NEW g \in Get
  PROVE  Http!Site(g) = SiteOf[url[g]] /\ Http!Site(g) \in Origin
BY DEF Http!Site, Http!HttpAssumption, HttpInv, HttpTypes

LEMMA HttpBegins == ASSUME Http!HttpAssumption, Http!Init PROVE HttpInv
<1>1. 0 \in 0..MaxFaults /\ 0 \in 0..MaxRedirects /\ 0 \in 0..Retries
  BY DEF Http!HttpAssumption
<1> QED BY <1>1 DEF Http!Init, HttpInv, HttpTypes, Http!Stages

LEMMA AskKeeps ==
  ASSUME HttpInv, NEW g \in Get, Http!Ask(g)
  PROVE  HttpInv'
<1> USE DEF Http!Ask, Http!originVars, Http!sharedVars
<1>1. HttpTypes'
  BY DEF HttpInv, HttpTypes, Http!Stages
<1> QED BY <1>1 DEF HttpInv, HttpTypes

\* What becomes of a get that gives up: it starts over where it began, with
\* its own headers, or ends.
LEMMA GiveUpKeeps ==
  ASSUME Http!HttpAssumption, HttpInv, NEW g \in Get,
         NEW error \in Http!Failure, Http!GiveUp(g, error),
         http1' \subseteq Origin, browser' \subseteq Origin, emulated' \subseteq Origin,
         faults' \in 0..MaxFaults
  PROVE  HttpInv'
<1> USE DEF HttpInv, HttpTypes
<1>1. CASE error \in Http!Transient /\ attempt[g] < Retries
  <2>1. attempt' \in [Get -> 0..Retries] /\ hops' \in [Get -> 0..MaxRedirects]
    BY <1>1 DEF Http!GiveUp, Http!HttpAssumption
  <2>2. /\ state' = [state EXCEPT ![g] = "ready"]
        /\ url' = [url EXCEPT ![g] = first[g]]
        /\ headers' = [headers EXCEPT ![g] = {"own"}]
        /\ left' = [left EXCEPT ![g] = FALSE]
        /\ UNCHANGED <<manner, leads, first, compatible, over1, stage, challenged,
                       outcome>>
    BY <1>1 DEF Http!GiveUp, Http!originVars
  <2>3. url' \in [Get -> Url] /\ left' \in [Get -> BOOLEAN]
        /\ headers' \in [Get -> SUBSET {"own", "agent"}]
    BY <2>2
  <2>4. HttpTypes'
    BY <2>1, <2>2, <2>3
  <2> QED BY <2>2, <2>4 DEF Http!GiveUp, Http!originVars
<1>2. CASE ~(error \in Http!Transient /\ attempt[g] < Retries)
  <2>1. Http!End(g, error)
    BY <1>2 DEF Http!GiveUp
  <2> USE DEF Http!End, Http!originVars, Http!wireVars
  <2>2. HttpTypes'
    BY <2>1
  <2> QED BY <2>1, <2>2
<1> QED BY <1>1, <1>2

LEMMA AgainKeeps ==
  ASSUME HttpInv, NEW g \in Get, NEW next \in Http!Stages, Http!Again(g, next),
         http1' \subseteq Origin, browser' \subseteq Origin,
         emulated' \subseteq Origin, faults' = faults,
         headers' = headers
           \/ headers' = [headers EXCEPT ![g] = @ \cup {"agent"}],
         compatible' \in [Get -> BOOLEAN], over1' \in [Get -> BOOLEAN],
         challenged' \in [Get -> Origin \cup {Http!Nowhere}]
  PROVE  HttpInv'
<1> USE DEF HttpInv, HttpTypes
<1>1. headers' \in [Get -> SUBSET {"own", "agent"}]
  <2>1. CASE headers' = headers
    BY <2>1
  <2>2. CASE headers' = [headers EXCEPT ![g] = @ \cup {"agent"}]
    BY <2>2
  <2> QED BY <2>1, <2>2
<1>2. stage' \in [Get -> Http!Stages]
  BY DEF Http!Again
<1>3. HttpTypes'
  BY <1>1, <1>2 DEF Http!Again, Http!originVars
<1>4. \A h \in Get : "own" \in headers'[h] => "own" \in headers[h]
  OBVIOUS
<1> QED BY <1>3, <1>4 DEF Http!Again, Http!originVars

LEMMA AnsweredKeeps ==
  ASSUME Http!HttpAssumption, HttpInv, NEW g \in Get,
         \/ Http!OverHttp1(g) \/ Http!Identified(g) \/ Http!Emulated(g)
  PROVE  HttpInv'
<1> USE DEF HttpInv, HttpTypes
<1>1. CASE Http!OverHttp1(g)
  <2>1. browser' = browser /\ emulated' = emulated /\ faults' = faults
        /\ http1' \in {http1, http1 \cup {Http!Site(g)}}
    BY <1>1 DEF Http!OverHttp1
  <2>2. http1' \subseteq Origin
    BY <2>1, Sited
  <2>3. CASE Http!GiveUp(g, "stream error")
    BY <2>1, <2>2, <2>3, GiveUpKeeps DEF Http!Failure
  <2>4. CASE ~Http!GiveUp(g, "stream error")
    <3>1. Http!Again(g, "http1") /\ over1' = [over1 EXCEPT ![g] = TRUE]
          /\ UNCHANGED <<headers, compatible, challenged>>
      BY <1>1, <2>4 DEF Http!OverHttp1
    <3> QED BY <2>1, <2>2, <3>1, AgainKeeps DEF Http!Stages
  <2> QED BY <2>3, <2>4
<1>2. CASE Http!Identified(g)
  <2>1. http1' = http1 /\ browser' \subseteq Origin /\ emulated' = emulated
        /\ faults' = faults
    BY <1>2, Sited DEF Http!Identified
  <2>2. CASE Http!GiveUp(g, "blocked")
    BY <2>1, <2>2, GiveUpKeeps DEF Http!Failure
  <2>3. CASE ~Http!GiveUp(g, "blocked")
    <3>1. /\ Http!Again(g, "identified")
          /\ headers' = [headers EXCEPT ![g] = @ \cup {"agent"}]
          /\ over1' \in [Get -> BOOLEAN] /\ UNCHANGED <<compatible, challenged>>
      BY <1>2, <2>3 DEF Http!Identified
    <3> QED BY <2>1, <3>1, AgainKeeps DEF Http!Stages
  <2> QED BY <2>2, <2>3
<1>3. CASE Http!Emulated(g)
  <2>1. http1' = http1 /\ browser' = browser /\ emulated' = emulated
        /\ faults' = faults
    BY <1>3 DEF Http!Emulated, Http!sharedVars
  <2>2. CASE Http!GiveUp(g, "challenge")
    BY <2>1, <2>2, GiveUpKeeps DEF Http!Failure
  <2>3. CASE ~Http!GiveUp(g, "challenge")
    <3>1. /\ Http!Again(g, "compatible") /\ headers' = headers
          /\ compatible' = [compatible EXCEPT ![g] = TRUE]
          /\ over1' = [over1 EXCEPT ![g] = FALSE]
          /\ challenged' = [challenged EXCEPT ![g] = Http!Site(g)]
      BY <1>3, <2>3 DEF Http!Emulated
    <3>2. challenged' \in [Get -> Origin \cup {Http!Nowhere}]
      BY <3>1, Sited
    <3> QED BY <2>1, <3>1, <3>2, AgainKeeps DEF Http!Stages
  <2> QED BY <2>2, <2>3
<1> QED BY <1>1, <1>2, <1>3

LEMMA AnswerSays ==
  ASSUME NEW g \in Get
  PROVE  /\ Http!Waiting(g, "stream error") => Http!BreaksStream(g)
         /\ Http!Waiting(g, "blocked") => ~Http!BreaksStream(g) /\ Http!Blocks(g)
         /\ Http!Waiting(g, "challenge") =>
              /\ ~Http!BreaksStream(g) /\ ~Http!Blocks(g)
              /\ Http!Challenges(g)
         /\ Http!Waiting(g, "redirect") => leads[url[g]] # Http!Nowhere
         /\ \A answer : Http!Waiting(g, answer) => state[g] = "waiting"
BY DEF Http!Waiting, Http!Answer

LEMMA RedirectedKeeps ==
  ASSUME Http!HttpAssumption, HttpInv, NEW g \in Get, Http!Redirected(g)
  PROVE  HttpInv'
<1> USE DEF Http!Redirected, Http!originVars, Http!sharedVars
<1>1. CASE Http!TooMany(g)
  BY <1>1, GiveUpKeeps DEF HttpInv, HttpTypes, Http!Failure
<1>2. CASE ~Http!TooMany(g)
  <2>1. leads[url[g]] \in Url
    BY AnswerSays DEF HttpInv, HttpTypes
  <2>2. hops' \in [Get -> 0..MaxRedirects]
    BY <1>2 DEF Http!HttpAssumption, HttpInv, HttpTypes
  <2>3. /\ url' = [url EXCEPT ![g] = leads[url[g]]]
        /\ headers' = [headers EXCEPT ![g] =
             IF SiteOf[leads[url[g]]] = SiteOf[url[g]] THEN @ ELSE {}]
        /\ left' = [left EXCEPT ![g] =
             @ \/ SiteOf[leads[url[g]]] # SiteOf[url[g]]]
        /\ UNCHANGED <<leads, first>>
    BY <1>2 DEF Http!Carried, Http!Site
  <2>4. left' \in [Get -> BOOLEAN]
    <3>1. left \in [Get -> BOOLEAN]
      BY DEF HttpInv, HttpTypes
    <3>2. (left[g] \/ SiteOf[leads[url[g]]] # SiteOf[url[g]]) \in BOOLEAN
      BY Zenon
    <3> QED BY Zenon, <2>3, <3>1, <3>2
  <2>5. url' \in [Get -> Url] /\ headers' \in [Get -> SUBSET {"own", "agent"}]
    BY <2>1, <2>3 DEF HttpInv, HttpTypes
  <2>6. HttpTypes'
    BY <1>2, <2>2, <2>4, <2>5 DEF HttpInv, HttpTypes
  <2>7. ASSUME NEW h \in Get, "own" \in headers'[h]
        PROVE  SiteOf[url'[h]] = SiteOf[first'[h]] /\ ~left'[h]
    <3>1. CASE h = g
      <4>1. /\ "own" \in headers[g] /\ SiteOf[leads[url[g]]] = SiteOf[url[g]]
            /\ url'[g] = leads[url[g]]
            /\ left'[g] = (left[g] \/ SiteOf[leads[url[g]]] # SiteOf[url[g]])
        BY <2>3, <2>7, <3>1 DEF HttpInv, HttpTypes
      <4> QED BY <2>3, <3>1, <4>1 DEF HttpInv
    <3>2. CASE h # g
      BY <2>3, <2>7, <3>2 DEF HttpInv, HttpTypes
    <3> QED BY <3>1, <3>2
  <2> QED BY <2>3, <2>6, <2>7 DEF HttpInv
<1> QED BY <1>1, <1>2

LEMMA SucceedsKeeps ==
  ASSUME Http!HttpAssumption, HttpInv, NEW g \in Get, Http!Succeeds(g)
  PROVE  HttpInv'
<1> USE DEF Http!Succeeds, Http!End, Http!originVars, Http!wireVars
<1>1. HttpTypes'
  BY Sited DEF HttpInv, HttpTypes
<1> QED BY <1>1 DEF HttpInv, HttpTypes

LEMMA FaultKeeps ==
  ASSUME Http!HttpAssumption, HttpInv, NEW g \in Get, Http!Fault(g)
  PROVE  HttpInv'
<1> USE DEF Http!Fault, Http!sharedVars
<1>1. faults' \in 0..MaxFaults
  BY DEF Http!HttpAssumption, HttpInv, HttpTypes
<1>2. CASE Http!GiveUp(g, "fault")
  BY <1>1, <1>2, GiveUpKeeps DEF HttpInv, HttpTypes, Http!Failure
<1>3. CASE Http!End(g, "timeout")
  <2> USE DEF Http!End, Http!originVars, Http!wireVars
  <2>1. HttpTypes'
    BY <1>1, <1>3 DEF HttpInv, HttpTypes
  <2> QED BY <1>3, <2>1 DEF HttpInv, HttpTypes
<1> QED BY <1>2, <1>3

LEMMA HttpStep ==
  ASSUME Http!HttpAssumption, HttpInv, [Http!Next]_httpVars
  PROVE  HttpInv'
<1>1. CASE UNCHANGED httpVars
  BY <1>1 DEF httpVars, HttpInv, HttpTypes
<1>2. CASE Http!Next
  BY <1>2, AskKeeps, AnsweredKeeps, RedirectedKeeps, SucceedsKeeps, FaultKeeps
  DEF Http!Next, Http!Answered
<1> QED BY <1>1, <1>2

LEMMA HttpHolds == MCSpec => []HttpInv
<1>1. Http!HttpAssumption
  BY BackendAssumption
<1>2. MCInit => HttpInv
  BY <1>1, PartsBegin, HttpBegins
<1>3. HttpInv /\ [MCNext]_mcVars => HttpInv'
  BY <1>1, PartsMove, HttpStep
<1> QED BY <1>2, <1>3, PTL DEF MCSpec

\* The caller's headers are sent only to the origin it asked, whatever
\* redirects, retries and identities come between, for any number of gets and
\* origins (src/src/http.rs).
THEOREM OwnHeadersStayHome == MCSpec => []HeadersStayHome
<1>1. HttpInv => HeadersStayHome
  BY DEF HttpInv, HeadersStayHome, Http!HeadersStayHome, Http!Site
<1> QED BY <1>1, HttpHolds, PTL
-----------------------------------------------------------------------------
(* HttpRequest, without faults.  A get follows the one trail that starts   *)
(* at its first origin; it has lost as many races over HTTP/1.1 as there   *)
(* are origins on it that were learnt, without the one it may be losing.   *)

Breaks(o) == "breaks h2" \in manner[o]
At(g) == SiteOf[url[g]]
Racing(g) ==
  state[g] = "waiting" /\ Breaks(At(g)) /\ ~compatible[g] /\ ~over1[g]
Learnt(trail) == {o \in Http!Passed(trail) : Breaks(o) /\ o \in http1}
Lost(g, trail) ==
  IF Racing(g) THEN Learnt(trail) \ {At(g)} ELSE Learnt(trail)
Challengers(trail) == Http!Wanting(trail, "challenges")

OnTrail(g, n, trail) ==
  /\ hops[g] \in 0..n /\ url[g] = trail[hops[g]]
  /\ attempt[g] <= Cardinality(Lost(g, trail))
  /\ challenged[g] = Http!Nowhere \/ challenged[g] \in Challengers(trail)

Refusing(g) == "blocks" \in manner[At(g)] /\ "agent" \notin headers[g]

\* How the request on the wire came to be asked that way.
AsAsked(g) == state[g] = "waiting" =>
  /\ over1[g] => At(g) \in http1
  /\ stage[g] = "http1" => over1[g]
  /\ stage[g] = "identified" => ~Racing(g) /\ "agent" \in headers[g]
  /\ stage[g] = "compatible" => compatible[g] /\ ~Refusing(g)
  /\ challenged[g] = At(g) => compatible[g]

Kindly(n, trail) ==
  /\ n \in 0..MaxRedirects /\ trail \in [0..n -> Url]
  /\ leads[trail[n]] = Http!Nowhere
  /\ \A i \in 1..n : trail[i] = leads[trail[i - 1]]
  /\ Cardinality(Http!Wanting(trail, "breaks h2")) <= Retries
  /\ Cardinality(Challengers(trail)) <= 1
Heading(g) == \A n, trail :
  Kindly(n, trail) /\ trail[0] = first[g] =>
    IF state[g] = "done" THEN outcome[g] = "success" ELSE OnTrail(g, n, trail)
TrailInv == faults = 0 => \A g \in Get : AsAsked(g) /\ Heading(g)

LEMMA Answering ==
  ASSUME NEW g \in Get
  PROVE  /\ Http!Site(g) = At(g)
         /\ Http!BreaksStream(g) =
              (Breaks(At(g)) /\ ~compatible[g] /\ ~over1[g])
         /\ Http!Blocks(g) = Refusing(g)
         /\ Http!Challenges(g) =
              ("challenges" \in manner[At(g)] /\ ~compatible[g])
BY Zenon DEF Http!Site, At, Http!BreaksStream, Breaks, Http!Blocks, Refusing,
     Http!Challenges

LEMMA SameCardinality == \A S : Http!Cardinality(S) = Cardinality(S)
BY Zenon DEF Http!Cardinality, Cardinality

LEMMA TrailIs ==
  ASSUME Http!HttpAssumption, NEW n, NEW trail, Kindly(n, trail)
  PROVE  /\ n \in 0..MaxRedirects /\ n \in Nat /\ IsFiniteSet(Http!Passed(trail))
         /\ \A i \in 0..n : SiteOf[trail[i]] \in Http!Passed(trail) /\ trail[i] \in Url
         /\ \A i \in 0..n :
              i # n => i + 1 \in 0..n /\ leads[trail[i]] = trail[i + 1]
<1>1. n \in 0..MaxRedirects /\ n \in Nat /\ trail \in [0..n -> Url]
      /\ \A i \in 1..n : trail[i] = leads[trail[i - 1]]
  <2>1. n \in 0..MaxRedirects /\ trail \in [0..n -> Url]
        /\ \A i \in 1..n : trail[i] = leads[trail[i - 1]]
    BY Zenon DEF Kindly
  <2> QED BY <2>1 DEF Http!HttpAssumption
<1>2. IsFiniteSet(Http!Passed(trail))
  <2> DEFINE f == [i \in 0..n |-> SiteOf[trail[i]]]
  <2>1. f \in Surjection(0..n, Http!Passed(trail))
    BY <1>1 DEF Surjection, Http!Passed
  <2>2. IsFiniteSet(0..n)
    BY <1>1, FS_Interval
  <2> QED BY <2>1, <2>2, FS_Surjection
<1>3. \A i \in 0..n : SiteOf[trail[i]] \in Http!Passed(trail) /\ trail[i] \in Url
  BY <1>1 DEF Http!Passed
<1>4. ASSUME NEW i \in 0..n, i # n
      PROVE  i + 1 \in 0..n /\ leads[trail[i]] = trail[i + 1]
  <2>1. i + 1 \in 1..n /\ i + 1 \in 0..n /\ (i + 1) - 1 = i
    BY <1>1, <1>4
  <2> QED BY <1>1, <2>1
<1> QED BY <1>1, <1>2, <1>3, <1>4

\* The races a get has lost are fewer than the retries it has.
LEMMA Counted ==
  ASSUME Http!HttpAssumption, NEW n, NEW trail, Kindly(n, trail)
  PROVE  /\ Cardinality(Learnt(trail)) \in Nat
         /\ Cardinality(Learnt(trail)) <= Retries
         /\ IsFiniteSet(Learnt(trail))
         /\ \A x, y \in Challengers(trail) : x = y
<1>1. IsFiniteSet(Http!Passed(trail))
  BY TrailIs
<1> DEFINE W == Http!Wanting(trail, "breaks h2")
<1>2. W \subseteq Http!Passed(trail) /\ Learnt(trail) \subseteq W
      /\ Challengers(trail) \subseteq Http!Passed(trail)
  BY DEF Http!Wanting, Learnt, Breaks, Challengers
<1>3. Cardinality(W) <= Retries /\ Cardinality(Challengers(trail)) <= 1
  BY Zenon DEF Kindly
<1> HIDE DEF W
<1>4. IsFiniteSet(W) /\ IsFiniteSet(Challengers(trail))
  BY <1>1, <1>2, FS_Subset
<1>5. IsFiniteSet(Learnt(trail)) /\ Cardinality(Learnt(trail)) <= Cardinality(W)
  BY <1>2, <1>4, FS_Subset
<1>6. Cardinality(Learnt(trail)) \in Nat /\ Cardinality(W) \in Nat
      /\ Cardinality(Challengers(trail)) \in Nat
  BY <1>4, <1>5, FS_CardinalityType
<1>7. \A x, y \in Challengers(trail) : x = y
  <2>1. Cardinality(Challengers(trail)) = 0 \/ Cardinality(Challengers(trail)) = 1
    BY <1>3, <1>6
  <2> QED BY <1>4, <2>1, FS_EmptySet, FS_Singleton
<1> QED BY <1>3, <1>5, <1>6, <1>7 DEF Http!HttpAssumption

LEMMA LostGrows ==
  ASSUME Http!HttpAssumption, NEW g \in Get, NEW n, NEW trail,
         Kindly(n, trail), OnTrail(g, n, trail), attempt[g] \in Nat,
         attempt'[g] = attempt[g], Lost(g, trail) \subseteq Lost(g, trail)'
  PROVE  attempt'[g] <= Cardinality(Lost(g, trail)')
<1>1. Lost(g, trail)' \subseteq Http!Passed(trail)
  BY DEF Lost, Learnt, Http!Passed
<1>2. IsFiniteSet(Http!Passed(trail))
  BY TrailIs
<1>3. IsFiniteSet(Lost(g, trail)')
  BY <1>1, <1>2, FS_Subset
<1>4. /\ Cardinality(Lost(g, trail)) <= Cardinality(Lost(g, trail)')
      /\ Cardinality(Lost(g, trail)) \in Nat /\ Cardinality(Lost(g, trail)') \in Nat
  <2>1. IsFiniteSet(Lost(g, trail))
    BY <1>3, FS_Subset
  <2> QED BY <1>3, <2>1, FS_Subset, FS_CardinalityType
<1>5. attempt[g] <= Cardinality(Lost(g, trail))
  BY Zenon DEF OnTrail
<1> QED BY <1>4, <1>5

\* What the other gets learn only adds to what has been learnt.
LEMMA Unmoved ==
  ASSUME Http!HttpAssumption, NEW g \in Get, AsAsked(g), Heading(g),
         manner' = manner, leads' = leads, first' = first, http1 \subseteq http1',
         state'[g] = state[g], url'[g] = url[g], headers'[g] = headers[g],
         compatible'[g] = compatible[g], over1'[g] = over1[g],
         stage'[g] = stage[g], challenged'[g] = challenged[g],
         hops'[g] = hops[g], attempt'[g] = attempt[g], outcome'[g] = outcome[g],
         attempt[g] \in Nat
  PROVE  AsAsked(g)' /\ Heading(g)'
<1>1. AsAsked(g)'
  BY DEF AsAsked, Racing, Refusing, Breaks, At
<1>2. ASSUME NEW n, NEW trail, Kindly(n, trail)', trail[0] = first'[g]
      PROVE  IF state'[g] = "done" THEN outcome'[g] = "success" ELSE OnTrail(g, n, trail)'
  <2>1. Kindly(n, trail) /\ trail[0] = first[g]
    BY Zenon, <1>2 DEF Kindly, Http!Wanting, Http!Passed, Challengers
  <2>2. IF state[g] = "done" THEN outcome[g] = "success" ELSE OnTrail(g, n, trail)
    BY Zenon, <2>1 DEF Heading
  <2>3. ASSUME OnTrail(g, n, trail) PROVE OnTrail(g, n, trail)'
    <3>1. Lost(g, trail) \subseteq Lost(g, trail)'
      BY DEF Lost, Learnt, Racing, Breaks, At, Http!Passed
    <3>2. attempt'[g] <= Cardinality(Lost(g, trail)')
      BY <2>1, <2>3, <3>1, LostGrows
    <3>3. challenged'[g] = Http!Nowhere \/ challenged'[g] \in Challengers(trail)'
      BY Zenon, <2>3 DEF OnTrail, Challengers, Http!Wanting, Http!Passed
    <3>4. hops'[g] \in 0..n /\ url'[g] = trail[hops'[g]]
      BY Zenon, <2>3 DEF OnTrail
    <3> QED BY Zenon, <3>2, <3>3, <3>4 DEF OnTrail
  <2> QED BY <2>2, <2>3
<1>3. Heading(g)'
  BY Zenon, <1>2 DEF Heading
<1> QED BY <1>1, <1>3

\* A get that is on a trail, as its step leaves it there.
LEMMA StillHeading ==
  ASSUME Http!HttpAssumption, NEW g \in Get, Heading(g), state[g] # "done",
         manner' = manner, leads' = leads, first' = first,
         \A n, trail :
           Kindly(n, trail) /\ trail[0] = first[g] /\ OnTrail(g, n, trail) =>
             IF state'[g] = "done" THEN outcome'[g] = "success"
             ELSE OnTrail(g, n, trail)'
  PROVE  Heading(g)'
<1> SUFFICES ASSUME NEW n, NEW trail, Kindly(n, trail)', trail[0] = first'[g]
             PROVE  IF state'[g] = "done" THEN outcome'[g] = "success"
                    ELSE OnTrail(g, n, trail)'
  BY Zenon DEF Heading
<1>1. Kindly(n, trail) /\ trail[0] = first[g]
  BY Zenon DEF Kindly, Http!Wanting, Http!Passed, Challengers
<1>2. OnTrail(g, n, trail)
  BY Zenon, <1>1 DEF Heading
<1> QED BY Zenon, <1>1, <1>2

LEMMA AskHeads ==
  ASSUME Http!HttpAssumption, HttpInv, NEW g \in Get, AsAsked(g), Heading(g),
         Http!Ask(g)
  PROVE  AsAsked(g)' /\ Heading(g)'
<1>1. /\ state[g] = "ready" /\ state'[g] = "waiting" /\ stage'[g] = "asked"
      /\ challenged' = challenged /\ url' = url /\ hops' = hops
      /\ attempt' = attempt /\ http1' = http1 /\ manner' = manner
      /\ leads' = leads /\ first' = first
      /\ challenged[g] = At(g) => compatible'[g]
      /\ ~compatible'[g] /\ ~over1'[g] => At(g) \notin http1
      /\ over1'[g] => At(g) \in http1
  <2>1. /\ state \in [Get -> {"ready", "waiting", "done"}]
        /\ stage \in [Get -> Http!Stages] /\ compatible \in [Get -> BOOLEAN]
        /\ over1 \in [Get -> BOOLEAN]
    BY DEF HttpInv, HttpTypes
  <2>2. /\ compatible' = [compatible EXCEPT ![g] =
             At(g) \in emulated \/ challenged[g] = At(g)]
        /\ over1' = [over1 EXCEPT ![g] =
             ~(At(g) \in emulated \/ challenged[g] = At(g)) /\ At(g) \in http1]
        /\ state[g] = "ready" /\ state' = [state EXCEPT ![g] = "waiting"]
        /\ stage' = [stage EXCEPT ![g] = "asked"]
        /\ UNCHANGED <<challenged, url, hops, attempt, http1, manner, leads, first>>
    BY Zenon, Answering DEF Http!Ask, Http!originVars, Http!sharedVars
  <2>3. /\ compatible'[g] = (At(g) \in emulated \/ challenged[g] = At(g))
        /\ over1'[g] =
             (~(At(g) \in emulated \/ challenged[g] = At(g)) /\ At(g) \in http1)
        /\ state'[g] = "waiting" /\ stage'[g] = "asked"
    BY Zenon, <2>1, <2>2
  <2> QED BY Zenon, <2>2, <2>3
<1>2. AsAsked(g)'
  BY <1>1 DEF AsAsked, At
<1>3. ASSUME NEW n, NEW trail, OnTrail(g, n, trail)
      PROVE  OnTrail(g, n, trail)'
  <2>1. ~Racing(g)
    BY <1>1 DEF Racing
  <2>2. Lost(g, trail)' = Lost(g, trail)
    BY <1>1, <2>1 DEF Lost, Learnt, Racing, Breaks, At, Http!Passed
  <2> QED BY Zenon, <1>1, <1>3, <2>2
       DEF OnTrail, Challengers, Http!Wanting, Http!Passed
<1>4. state[g] # "done" /\ state'[g] # "done"
  BY <1>1
<1>5. Heading(g)'
  BY Zenon, <1>1, <1>3, <1>4, StillHeading
<1> QED BY <1>2, <1>5

\* The same request again: the get stays where it was on its trail.
LEMMA AgainHeads ==
  ASSUME Http!HttpAssumption, HttpInv, NEW g \in Get, Heading(g),
         state[g] = "waiting", state' = state, manner' = manner, leads' = leads,
         url' = url, first' = first, hops' = hops, attempt' = attempt,
         http1 \subseteq http1', ~Racing(g)',
         \/ challenged'[g] = challenged[g]
         \/ challenged'[g] = At(g) /\ "challenges" \in manner[At(g)]
  PROVE  Heading(g)'
<1>1. ASSUME NEW n, NEW trail, Kindly(n, trail), OnTrail(g, n, trail)
      PROVE  OnTrail(g, n, trail)'
  <2>1. Lost(g, trail) \subseteq Lost(g, trail)'
    BY DEF Lost, Learnt, Racing, Breaks, At, Http!Passed
  <2>2. attempt[g] \in Nat /\ attempt'[g] = attempt[g]
    BY DEF HttpInv, HttpTypes, Http!HttpAssumption
  <2>3. attempt'[g] <= Cardinality(Lost(g, trail)')
    BY <1>1, <2>1, <2>2, LostGrows
  <2>4. hops'[g] \in 0..n /\ url'[g] = trail[hops'[g]]
    BY Zenon, <1>1 DEF OnTrail
  <2>5. At(g) \in Http!Passed(trail)
    <3>1. \A i \in 0..n : SiteOf[trail[i]] \in Http!Passed(trail)
      BY Zenon, <1>1, TrailIs
    <3> QED BY Zenon, <1>1, <3>1 DEF OnTrail, At
  <2>6. challenged'[g] = Http!Nowhere \/ challenged'[g] \in Challengers(trail)'
    BY Zenon, <1>1, <2>5 DEF OnTrail, Challengers, Http!Wanting, Http!Passed
  <2> QED BY Zenon, <2>3, <2>4, <2>6 DEF OnTrail
<1>2. state[g] # "done" /\ state'[g] # "done"
  BY DEF HttpInv
<1> QED BY Zenon, <1>1, <1>2, StillHeading

\* Whoever meets a broken stream asks again, or has lost a race it can afford.
LEMMA OverHttp1Heads ==
  ASSUME Http!HttpAssumption, HttpInv, NEW g \in Get, AsAsked(g), Heading(g),
         Http!OverHttp1(g)
  PROVE  AsAsked(g)' /\ Heading(g)'
<1>1. Racing(g) /\ state[g] = "waiting" /\ Breaks(At(g)) /\ ~compatible[g]
      /\ ~over1[g]
  BY Zenon, AnswerSays, Answering DEF Http!OverHttp1, Racing
<1>2. stage[g] = "asked"
  <2>1. stage[g] \in Http!Stages
    BY DEF HttpInv, HttpTypes
  <2>2. stage[g] # "identified" /\ stage[g] # "http1" /\ stage[g] # "compatible"
    BY Zenon, <1>1 DEF AsAsked
  <2> QED BY Zenon, <2>1, <2>2 DEF Http!Stages
<1>3. challenged[g] # At(g)
  BY Zenon, <1>1 DEF AsAsked
<1>4. CASE At(g) \notin http1
  <2>1. /\ stage' = [stage EXCEPT ![g] = "http1"] /\ over1' = [over1 EXCEPT ![g] = TRUE]
        /\ http1' = http1 \cup {At(g)}
        /\ UNCHANGED <<manner, leads, state, url, first, hops, attempt, outcome,
                       headers, compatible, challenged>>
    BY Zenon, <1>2, <1>4, Answering DEF Http!OverHttp1, Http!Again, Http!originVars
  <2>2. stage'[g] = "http1" /\ over1'[g]
    BY <2>1 DEF HttpInv, HttpTypes
  <2>3. AsAsked(g)'
    BY <1>3, <2>1, <2>2 DEF AsAsked, At
  <2>4. /\ ~Racing(g)' /\ http1 \subseteq http1' /\ challenged'[g] = challenged[g]
        /\ state' = state /\ manner' = manner /\ leads' = leads /\ url' = url
        /\ first' = first /\ hops' = hops /\ attempt' = attempt
    BY <2>1, <2>2 DEF Racing
  <2>5. Heading(g)'
    BY <1>1, <2>4, AgainHeads
  <2> QED BY <2>3, <2>5
<1>5. CASE At(g) \in http1
  <2>1. http1' = http1 /\ Http!GiveUp(g, "stream error")
    <3>1. Http!GiveUp(g, "stream error")
      BY Zenon, <1>5, Answering DEF Http!OverHttp1
    <3>2. http1' = http1 \cup {At(g)}
      BY Zenon, <1>2, Answering DEF Http!OverHttp1
    <3> QED BY <1>5, <3>1, <3>2
  <2>2. /\ manner' = manner /\ leads' = leads /\ first' = first
        /\ challenged' = challenged
        /\ attempt[g] < Retries =>
             /\ attempt' = [attempt EXCEPT ![g] = @ + 1]
             /\ state' = [state EXCEPT ![g] = "ready"]
             /\ url' = [url EXCEPT ![g] = first[g]]
             /\ hops' = [hops EXCEPT ![g] = 0]
        /\ state' = [state EXCEPT ![g] = "ready"] \/ state' = [state EXCEPT ![g] = "done"]
    BY Zenon, <2>1 DEF Http!GiveUp, Http!Transient, Http!End, Http!originVars
  <2>3. state'[g] # "waiting"
    BY <2>2 DEF HttpInv, HttpTypes
  <2>4. ASSUME NEW n, NEW trail, Kindly(n, trail), trail[0] = first[g],
               OnTrail(g, n, trail)
        PROVE  state'[g] = "ready" /\ OnTrail(g, n, trail)'
    <3>1. At(g) \in Learnt(trail)
      <4>1. \A i \in 0..n : SiteOf[trail[i]] \in Http!Passed(trail)
        BY Zenon, <2>4, TrailIs
      <4> QED BY Zenon, <1>1, <1>5, <2>4, <4>1 DEF Learnt, OnTrail, At
    <3>2. /\ Cardinality(Learnt(trail)) \in Nat /\ Cardinality(Learnt(trail)) <= Retries
          /\ IsFiniteSet(Learnt(trail))
      BY <2>4, Counted
    <3>3. attempt[g] <= Cardinality(Learnt(trail) \ {At(g)})
      BY Zenon, <1>1, <2>4 DEF OnTrail, Lost
    <3>4. Cardinality(Learnt(trail) \ {At(g)}) = Cardinality(Learnt(trail)) - 1
      BY <3>1, <3>2, FS_RemoveElement
    <3>5. attempt[g] \in Nat /\ n \in Nat /\ Retries \in Nat
      BY <2>4, TrailIs DEF HttpInv, HttpTypes, Http!HttpAssumption
    <3>6. attempt[g] < Retries /\ attempt[g] + 1 <= Cardinality(Learnt(trail))
      BY <3>2, <3>3, <3>4, <3>5
    <3>7. /\ attempt'[g] = attempt[g] + 1 /\ state'[g] = "ready"
          /\ url'[g] = first[g] /\ hops'[g] = 0
      BY <2>2, <3>6 DEF HttpInv, HttpTypes
    <3>8. Lost(g, trail)' = Learnt(trail)
      <4>1. ~Racing(g)'
        BY <3>7 DEF Racing
      <4> QED BY Zenon, <2>1, <2>2, <4>1 DEF Lost, Learnt, Breaks, Http!Passed
    <3>9. attempt'[g] <= Cardinality(Lost(g, trail)')
      BY <3>6, <3>7, <3>8
    <3>10. hops'[g] \in 0..n /\ url'[g] = trail[hops'[g]]
      BY <2>4, <3>5, <3>7
    <3>11. challenged'[g] = Http!Nowhere \/ challenged'[g] \in Challengers(trail)'
      BY Zenon, <2>2, <2>4 DEF OnTrail, Challengers, Http!Wanting, Http!Passed
    <3> QED BY Zenon, <3>7, <3>9, <3>10, <3>11 DEF OnTrail
  <2>5. AsAsked(g)'
    BY Zenon, <2>3 DEF AsAsked
  <2>6. Heading(g)'
    <3>1. state[g] # "done"
      BY <1>1
    <3>2. \A n, trail :
            Kindly(n, trail) /\ trail[0] = first[g] /\ OnTrail(g, n, trail) =>
              IF state'[g] = "done" THEN outcome'[g] = "success"
              ELSE OnTrail(g, n, trail)'
      <4>1. "ready" # "done"
        OBVIOUS
      <4> QED BY Zenon, <2>4, <4>1
    <3> QED BY Zenon, <2>2, <3>1, <3>2, StillHeading
  <2> QED BY <2>5, <2>6
<1> QED BY <1>4, <1>5

\* No get gives up on a challenge or a block that its trail can bear.
LEMMA LastStraw ==
  ASSUME Http!HttpAssumption, HttpInv, NEW g \in Get, Heading(g),
         state[g] = "waiting", NEW error, error \notin Http!Transient,
         Http!GiveUp(g, error),
         \A n, trail : ~(/\ Kindly(n, trail) /\ trail[0] = first[g]
                         /\ OnTrail(g, n, trail))
  PROVE  AsAsked(g)' /\ Heading(g)'
<1>1. /\ manner' = manner /\ leads' = leads /\ first' = first
      /\ state' = [state EXCEPT ![g] = "done"]
  BY Zenon DEF Http!GiveUp, Http!End, Http!originVars
<1>2. state'[g] = "done"
  BY <1>1 DEF HttpInv, HttpTypes
<1>3. AsAsked(g)'
  BY <1>2 DEF AsAsked
<1>4. Heading(g)'
  <2>1. state[g] # "done"
    BY DEF HttpInv
  <2> QED BY Zenon, <1>1, <2>1, StillHeading
<1> QED BY <1>3, <1>4

LEMMA IdentifiedHeads ==
  ASSUME Http!HttpAssumption, HttpInv, NEW g \in Get, AsAsked(g), Heading(g),
         Http!Identified(g)
  PROVE  AsAsked(g)' /\ Heading(g)'
<1>1. Refusing(g) /\ state[g] = "waiting" /\ ~Racing(g)
  BY Zenon, AnswerSays, Answering DEF Http!Identified, Racing
<1>2. stage[g] \in {"asked", "http1"}
  <2>1. stage[g] \in Http!Stages
    BY DEF HttpInv, HttpTypes
  <2>2. stage[g] # "identified" /\ stage[g] # "compatible"
    BY Zenon, <1>1 DEF AsAsked, Refusing
  <2> QED BY Zenon, <2>1, <2>2 DEF Http!Stages
<1>3. /\ stage' = [stage EXCEPT ![g] = "identified"]
      /\ headers' = [headers EXCEPT ![g] = @ \cup {"agent"}]
      /\ over1' = [over1 EXCEPT ![g] = ~compatible[g] /\ At(g) \in http1]
      /\ UNCHANGED <<manner, leads, state, url, first, hops, attempt, outcome,
                     compatible, challenged, http1>>
  BY Zenon, <1>2, Answering DEF Http!Identified, Http!Again, Http!originVars
<1>4. /\ stage'[g] = "identified" /\ "agent" \in headers'[g]
      /\ over1'[g] => At(g) \in http1
      /\ over1[g] /\ ~compatible[g] => over1'[g]
  <2>1. stage'[g] = "identified" /\ "agent" \in headers'[g]
    BY <1>3 DEF HttpInv, HttpTypes
  <2>2. over1'[g] = (~compatible[g] /\ At(g) \in http1)
    <3>1. over1 \in [Get -> BOOLEAN]
      BY DEF HttpInv, HttpTypes
    <3> QED BY Zenon, <1>3, <3>1
  <2>3. over1[g] => At(g) \in http1
    BY Zenon, <1>1 DEF AsAsked
  <2> QED BY Zenon, <2>1, <2>2, <2>3
<1>5. ~Racing(g)'
  BY <1>1, <1>3, <1>4 DEF Racing, Breaks, At
<1>6. AsAsked(g)'
  BY <1>1, <1>3, <1>4, <1>5 DEF AsAsked, At
<1>7. Heading(g)'
  <2>1. /\ http1 \subseteq http1' /\ challenged'[g] = challenged[g]
        /\ state' = state /\ manner' = manner /\ leads' = leads /\ url' = url
        /\ first' = first /\ hops' = hops /\ attempt' = attempt
    BY <1>3
  <2> QED BY <1>1, <1>5, <2>1, AgainHeads
<1> QED BY <1>6, <1>7

LEMMA EmulatedHeads ==
  ASSUME Http!HttpAssumption, HttpInv, NEW g \in Get, AsAsked(g), Heading(g),
         Http!Emulated(g)
  PROVE  AsAsked(g)' /\ Heading(g)'
<1>1. /\ "challenges" \in manner[At(g)] /\ ~compatible[g] /\ ~Refusing(g)
      /\ state[g] = "waiting" /\ challenged[g] # At(g) /\ stage[g] # "compatible"
  <2>1. /\ "challenges" \in manner[At(g)] /\ ~compatible[g] /\ ~Refusing(g)
        /\ state[g] = "waiting"
    BY Zenon, AnswerSays, Answering DEF Http!Emulated
  <2> QED BY Zenon, <2>1 DEF AsAsked
<1>2. CASE challenged[g] = Http!Nowhere
  <2>1. /\ stage' = [stage EXCEPT ![g] = "compatible"]
        /\ challenged' = [challenged EXCEPT ![g] = At(g)]
        /\ compatible' = [compatible EXCEPT ![g] = TRUE]
        /\ over1' = [over1 EXCEPT ![g] = FALSE]
        /\ UNCHANGED <<manner, leads, state, url, first, hops, attempt, outcome,
                       headers, http1>>
    BY Zenon, <1>1, <1>2, Answering
    DEF Http!Emulated, Http!Again, Http!originVars, Http!sharedVars
  <2>2. /\ stage'[g] = "compatible" /\ challenged'[g] = At(g) /\ compatible'[g]
        /\ ~over1'[g]
    BY <2>1 DEF HttpInv, HttpTypes
  <2>3. ~Racing(g)'
    BY <2>2 DEF Racing
  <2>4. AsAsked(g)'
    BY <1>1, <2>1, <2>2 DEF AsAsked, Refusing, At
  <2>5. Heading(g)'
    <3>1. http1 \subseteq http1'
      BY <2>1
    <3> QED BY Zenon, <1>1, <2>1, <2>2, <2>3, <3>1, AgainHeads
  <2> QED BY <2>4, <2>5
<1>3. CASE challenged[g] # Http!Nowhere
  <2>1. Http!GiveUp(g, "challenge") /\ "challenge" \notin Http!Transient
    BY Zenon, <1>3 DEF Http!Emulated, Http!Transient
  <2>2. ASSUME NEW n, NEW trail, Kindly(n, trail), OnTrail(g, n, trail)
        PROVE  FALSE
    <3>1. challenged[g] \in Challengers(trail) /\ At(g) \in Challengers(trail)
      <4>1. \A i \in 0..n : SiteOf[trail[i]] \in Http!Passed(trail)
        BY Zenon, <2>2, TrailIs
      <4> QED BY Zenon, <1>1, <1>3, <2>2, <4>1
           DEF OnTrail, Challengers, Http!Wanting, At
    <3>2. \A x, y \in Challengers(trail) : x = y
      BY Zenon, <2>2, Counted
    <3> QED BY Zenon, <1>1, <3>1, <3>2
  <2> QED BY Zenon, <1>1, <2>1, <2>2, LastStraw
<1> QED BY <1>2, <1>3

LEMMA RedirectedHeads ==
  ASSUME Http!HttpAssumption, HttpInv, NEW g \in Get, AsAsked(g), Heading(g),
         Http!Redirected(g)
  PROVE  AsAsked(g)' /\ Heading(g)'
<1>1. leads[url[g]] # Http!Nowhere /\ state[g] = "waiting"
  BY Zenon, AnswerSays DEF Http!Redirected
<1>2. ASSUME NEW n, NEW trail, Kindly(n, trail), OnTrail(g, n, trail)
      PROVE  /\ hops[g] + 1 \in 0..n /\ leads[url[g]] = trail[hops[g] + 1]
             /\ hops[g] \in Nat /\ n \in 0..MaxRedirects
  <2>1. hops[g] \in 0..n /\ url[g] = trail[hops[g]] /\ leads[trail[n]] = Http!Nowhere
    BY Zenon, <1>2 DEF OnTrail, Kindly
  <2>2. hops[g] # n
    BY Zenon, <1>1, <2>1
  <2>3. n \in 0..MaxRedirects /\ n \in Nat /\ \A i \in 0..n :
              i # n => i + 1 \in 0..n /\ leads[trail[i]] = trail[i + 1]
    BY Zenon, <1>2, TrailIs
  <2> QED BY <2>1, <2>2, <2>3
<1>3. CASE Http!TooMany(g)
  <2>1. Http!GiveUp(g, "redirects") /\ "redirects" \notin Http!Transient
    BY Zenon, <1>3 DEF Http!Redirected, Http!Transient
  <2>2. ASSUME NEW n, NEW trail, Kindly(n, trail), OnTrail(g, n, trail)
        PROVE  FALSE
    <3>1. hops[g] = MaxRedirects /\ MaxRedirects \in Nat
      BY <1>3 DEF Http!TooMany, Http!HttpAssumption
    <3> QED BY <1>2, <2>2, <3>1
  <2> QED BY Zenon, <1>1, <2>1, <2>2, LastStraw
<1>4. CASE ~Http!TooMany(g)
  <2>1. /\ state' = [state EXCEPT ![g] = "ready"]
        /\ url' = [url EXCEPT ![g] = leads[url[g]]]
        /\ hops' = [hops EXCEPT ![g] = IF @ < MaxRedirects THEN @ + 1 ELSE @]
        /\ UNCHANGED <<manner, leads, first, challenged, attempt, outcome, http1>>
    BY Zenon, <1>4 DEF Http!Redirected, Http!originVars, Http!sharedVars
  <2>2. /\ state'[g] = "ready" /\ url'[g] = leads[url[g]]
        /\ hops'[g] = IF hops[g] < MaxRedirects THEN hops[g] + 1 ELSE hops[g]
    BY <2>1 DEF HttpInv, HttpTypes
  <2>3. AsAsked(g)'
    BY <2>2 DEF AsAsked
  <2>4. ~Racing(g)'
    BY <2>2 DEF Racing
  <2>5. ASSUME NEW n, NEW trail, Kindly(n, trail), OnTrail(g, n, trail)
        PROVE  OnTrail(g, n, trail)'
    <3>1. Lost(g, trail) \subseteq Lost(g, trail)'
      BY <2>1, <2>4 DEF Lost, Learnt, Breaks, Http!Passed
    <3>2. attempt[g] \in Nat /\ attempt'[g] = attempt[g]
      BY <2>1 DEF HttpInv, HttpTypes, Http!HttpAssumption
    <3>3. attempt'[g] <= Cardinality(Lost(g, trail)')
      BY <2>5, <3>1, <3>2, LostGrows
    <3>4. /\ hops[g] + 1 \in 0..n /\ leads[url[g]] = trail[hops[g] + 1]
          /\ hops[g] \in Nat /\ n \in 0..MaxRedirects /\ MaxRedirects \in Nat
      BY <1>2, <2>5 DEF Http!HttpAssumption
    <3>5. hops'[g] = hops[g] + 1
      BY <2>2, <3>4
    <3>6. hops'[g] \in 0..n /\ url'[g] = trail[hops'[g]]
      BY <2>2, <3>4, <3>5
    <3>7. challenged'[g] = Http!Nowhere \/ challenged'[g] \in Challengers(trail)'
      BY Zenon, <2>1, <2>5 DEF OnTrail, Challengers, Http!Wanting, Http!Passed
    <3> QED BY Zenon, <3>3, <3>6, <3>7 DEF OnTrail
  <2>6. Heading(g)'
    <3>1. state[g] # "done" /\ state'[g] # "done"
      BY <1>1, <2>2
    <3> QED BY Zenon, <2>1, <2>5, <3>1, StillHeading
  <2> QED BY <2>3, <2>6
<1> QED BY <1>3, <1>4

LEMMA SucceedsHeads ==
  ASSUME Http!HttpAssumption, HttpInv, NEW g \in Get, AsAsked(g), Heading(g),
         Http!Succeeds(g)
  PROVE  AsAsked(g)' /\ Heading(g)'
<1>1. /\ state[g] = "waiting" /\ state' = [state EXCEPT ![g] = "done"]
      /\ outcome' = [outcome EXCEPT ![g] = "success"]
      /\ UNCHANGED <<manner, leads, first>>
  BY Zenon DEF Http!Succeeds, Http!Waiting, Http!End, Http!originVars
<1>2. state[g] # "done" /\ state'[g] = "done" /\ outcome'[g] = "success"
  BY <1>1 DEF HttpInv, HttpTypes
<1>3. AsAsked(g)'
  BY <1>2 DEF AsAsked
<1>4. Heading(g)'
  BY Zenon, <1>1, <1>2, StillHeading
<1> QED BY <1>3, <1>4

LEMMA TrailBegins ==
  ASSUME Http!HttpAssumption, Http!Init
  PROVE  TrailInv
<1>1. ASSUME NEW g \in Get, NEW n, NEW trail, Kindly(n, trail), trail[0] = first[g]
      PROVE  OnTrail(g, n, trail)
  <2>1. /\ url[g] = first[g] /\ hops[g] = 0 /\ attempt[g] = 0
        /\ challenged[g] = Http!Nowhere /\ ~Racing(g)
    BY <1>1 DEF Http!Init, Racing
  <2>2. Cardinality(Lost(g, trail)) \in Nat
    BY <1>1, <2>1, Counted DEF Lost
  <2>3. 0 \in 0..n
    BY <1>1, TrailIs
  <2> QED BY <1>1, <2>1, <2>2, <2>3 DEF OnTrail
<1>2. \A g \in Get : state[g] # "done" /\ AsAsked(g)
  BY DEF Http!Init, AsAsked
<1> QED BY Zenon, <1>1, <1>2 DEF TrailInv, Heading

\* A get that gives up changes nothing of the others, whatever made it do so.
Alone(g) ==
  /\ manner' = manner /\ leads' = leads /\ first' = first
  /\ \A h \in Get \ {g} :
       /\ state'[h] = state[h] /\ url'[h] = url[h] /\ headers'[h] = headers[h]
       /\ compatible'[h] = compatible[h] /\ over1'[h] = over1[h]
       /\ stage'[h] = stage[h] /\ challenged'[h] = challenged[h]
       /\ hops'[h] = hops[h] /\ attempt'[h] = attempt[h]
       /\ outcome'[h] = outcome[h]

LEMMA GivesUpAlone ==
  ASSUME HttpInv, NEW g \in Get, NEW error, Http!GiveUp(g, error)
  PROVE  Alone(g)
<1> USE DEF HttpInv, HttpTypes, Http!originVars, Http!wireVars, Alone
<1>1. CASE Http!End(g, error)
  BY <1>1 DEF Http!End
<1>2. CASE ~Http!End(g, error)
  BY <1>2 DEF Http!GiveUp
<1> QED BY <1>1, <1>2

LEMMA TrailStep ==
  ASSUME Http!HttpAssumption, HttpInv, TrailInv, [Http!Next]_httpVars
  PROVE  TrailInv'
<1>1. CASE UNCHANGED httpVars
  <2>1. /\ manner' = manner /\ leads' = leads /\ http1' = http1 /\ state' = state
        /\ url' = url /\ first' = first /\ headers' = headers
        /\ compatible' = compatible /\ over1' = over1 /\ stage' = stage
        /\ challenged' = challenged /\ hops' = hops /\ attempt' = attempt
        /\ outcome' = outcome /\ faults' = faults
    BY <1>1 DEF httpVars
  <2>2. \A g \in Get : attempt[g] \in Nat
    BY DEF HttpInv, HttpTypes, Http!HttpAssumption
  <2>3. ASSUME NEW g \in Get, AsAsked(g), Heading(g)
        PROVE  AsAsked(g)' /\ Heading(g)'
    BY <2>1, <2>2, <2>3, Unmoved
  <2> QED BY Zenon, <2>1, <2>3 DEF TrailInv
<1>2. ASSUME NEW g \in Get, Http!Ask(g) \/ Http!Answered(g), faults' = 0
      PROVE  TrailInv'
  <2>1. Alone(g) /\ faults' = faults /\ http1 \subseteq http1'
    <3> USE DEF HttpInv, HttpTypes, Http!originVars, Http!sharedVars, Http!wireVars
    <3>1. CASE Http!Ask(g)
      BY <3>1 DEF Http!Ask, Alone
    <3>2. CASE Http!OverHttp1(g)
      <4>1. http1 \subseteq http1' /\ faults' = faults
        BY <3>2 DEF Http!OverHttp1
      <4>2. CASE Http!GiveUp(g, "stream error")
        BY Zenon, <4>1, <4>2, GivesUpAlone
      <4>3. CASE ~Http!GiveUp(g, "stream error")
        <5>1. Http!Again(g, "http1") /\ over1' = [over1 EXCEPT ![g] = TRUE]
              /\ headers' = headers /\ compatible' = compatible
              /\ challenged' = challenged
          BY Zenon, <3>2, <4>3 DEF Http!OverHttp1
        <5> QED BY <4>1, <5>1 DEF Http!Again, Alone
      <4> QED BY <4>2, <4>3
    <3>3. CASE Http!Identified(g)
      BY <3>3, GivesUpAlone DEF Http!Identified, Http!Again, Alone
    <3>4. CASE Http!Emulated(g)
      BY <3>4, GivesUpAlone DEF Http!Emulated, Http!Again, Alone
    <3>5. CASE Http!Redirected(g)
      BY <3>5, GivesUpAlone DEF Http!Redirected, Alone
    <3>6. CASE Http!Succeeds(g)
      BY <3>6 DEF Http!Succeeds, Http!End, Alone
    <3> QED BY Zenon, <1>2, <3>1, <3>2, <3>3, <3>4, <3>5, <3>6 DEF Http!Answered
  <2>2. \A h \in Get : AsAsked(h) /\ Heading(h) /\ attempt[h] \in Nat
    <3>1. \A h \in Get : attempt[h] \in Nat
      BY DEF HttpInv, HttpTypes, Http!HttpAssumption
    <3> QED BY Zenon, <1>2, <2>1, <3>1 DEF TrailInv
  <2>3. AsAsked(g)' /\ Heading(g)'
    BY Zenon, <1>2, <2>2, AskHeads, OverHttp1Heads, IdentifiedHeads,
       EmulatedHeads, RedirectedHeads, SucceedsHeads DEF Http!Answered
  <2>4. ASSUME NEW h \in Get, h # g
        PROVE  AsAsked(h)' /\ Heading(h)'
    <3>1. h \in Get \ {g}
      BY <2>4
    <3> QED BY <2>1, <2>2, <3>1, Unmoved DEF Alone
  <2> QED BY Zenon, <2>3, <2>4 DEF TrailInv
<1>3. ASSUME NEW g \in Get, Http!Fault(g)
      PROVE  faults' # 0
  BY <1>3 DEF Http!Fault, HttpInv, HttpTypes, Http!HttpAssumption
<1>4. CASE Http!Next
  BY Zenon, <1>2, <1>3, <1>4 DEF Http!Next, TrailInv
<1> QED BY <1>1, <1>4

LEMMA TrailsHold == MCSpec => []TrailInv
<1>1. Http!HttpAssumption
  BY BackendAssumption
<1>2. MCInit => TrailInv
  BY <1>1, PartsBegin, TrailBegins
<1>3. HttpInv /\ TrailInv /\ [MCNext]_mcVars => TrailInv'
  BY <1>1, PartsMove, TrailStep
<1> QED BY <1>2, <1>3, HttpHolds, PTL DEF MCSpec

\* A get that meets no fault is answered, whatever the origins on its trail want
\* and whichever get learns it first, for any number of gets and origins, as
\* long as it has a retry for each race over HTTP/1.1 that it may lose and no
\* two of its origins challenge it (src/src/http.rs:434).
THEOREM GetsRecover == MCSpec => []Recovered
<1>1. TrailInv => Recovered
  <2> SUFFICES ASSUME TrailInv, NEW g \in Get, state[g] = "done", faults = 0,
                      NEW n \in 0..MaxRedirects,
                      NEW trail \in Http!Trail(first[g], n), Http!Bearable(trail)
               PROVE  outcome[g] = "success"
    BY Zenon DEF Recovered, Http!Recovered
  <2>1. Kindly(n, trail) /\ trail[0] = first[g]
    BY SameCardinality DEF Kindly, Http!Trail, Http!Bearable, Challengers
  <2> QED BY Zenon, <2>1 DEF TrailInv, Heading
<1> QED BY <1>1, TrailsHold, PTL

-----------------------------------------------------------------------------
(* ImportGraph.  What has been expanded leads to what has been expanded or *)
(* is still to be visited by a document on the stack, unless something was *)
(* left out.                                                               *)

Expanded == {entered[i] : i \in DOMAIN entered}

\* A document on the stack that still has `u` to visit.
Pending(d, u) ==
  \E i \in 1..Len(stack) : stack[i].at = d /\ u \in stack[i].left

Frame == [at : Document, left : SUBSET Document]

ImportsInv ==
  /\ Imports!TypeOK
  /\ names \in [Document -> SUBSET Document]
  /\ moved \in [Document -> Document]
  /\ moved[Root] = Root /\ \A d \in Document : moved[moved[d]] = moved[d]
  /\ \A i \in 1..Len(stack) :
       stack[i].at \in Expanded /\ stack[i].left \subseteq names[stack[i].at]
  /\ \A i, j \in DOMAIN entered : entered[i] = entered[j] => i = j
  /\ Root \in Expanded
  /\ \A s \in seen : moved[s] \in Expanded
  /\ Expanded \subseteq seen
  /\ Expanded \subseteq Imports!Reachable
  /\ ~cut => \A d \in Expanded, u \in Document :
       Imports!Leads(d, u) => moved[u] \in Expanded \/ Pending(d, u)

LEMMA ImportsBounds ==
  ASSUME Imports!GraphAssumption
  PROVE  MaxDepth \in Nat /\ MaxDocuments \in Nat /\ MaxFailures \in Nat
BY DEF Imports!GraphAssumption

LEMMA ImportsBegins ==
  ASSUME Imports!GraphAssumption, Imports!Init PROVE ImportsInv
<1> USE DEF Imports!GraphAssumption
<1>1. /\ names \in [Document -> SUBSET Document] /\ moved \in [Document -> Document]
      /\ Root \in Document
  BY DEF Imports!Init
<1>2. moved[Root] = Root /\ \A d \in Document : moved[moved[d]] = moved[d]
  BY <1>1 DEF Imports!Init, Imports!Remote
<1>3. /\ stack = <<[at |-> Root, left |-> names[Root]]>>
      /\ [at |-> Root, left |-> names[Root]] \in Frame
      /\ entered = <<Root>> /\ seen = {Root}
  BY <1>1 DEF Imports!Init, Frame
<1>4. /\ Len(stack) = 1 /\ stack[1].at = Root /\ stack[1].left = names[Root]
      /\ stack \in Seq(Frame) /\ entered \in Seq(Document)
      /\ DOMAIN entered = {1} /\ entered[1] = Root
  BY <1>1, <1>3
<1>5. Imports!TypeOK
  <2>1. 0 \in 0..MaxDocuments /\ 0 \in 0..MaxFailures /\ 1 <= MaxDepth + 1
    BY ImportsBounds
  <2>2. cut \in BOOLEAN
    BY DEF Imports!Init
  <2> QED BY <1>1, <1>3, <1>4, <2>1, <2>2 DEF Imports!Init, Imports!TypeOK, Frame
<1>6. Expanded = {Root}
  BY <1>4 DEF Expanded
<1>7. Root \in Imports!Reachable
  BY <1>1 DEF Imports!Reachable
<1>8. \A u \in Document : Imports!Leads(Root, u) => Pending(Root, u)
  BY <1>4 DEF Imports!Leads, Pending
<1> QED BY <1>1, <1>2, <1>3, <1>4, <1>5, <1>6, <1>7, <1>8 DEF ImportsInv

\* What a document on the stack may lead to is reachable.
LEMMA LeadsToReachable ==
  ASSUME ImportsInv, NEW d \in Imports!Reachable, NEW u \in Document,
         Imports!Leads(d, u)
  PROVE  moved[u] \in Imports!Reachable
BY DEF ImportsInv, Imports!Reachable

LEMMA StackTop ==
  ASSUME ImportsInv, stack # <<>>
  PROVE  /\ Len(stack) \in 1..MaxDepth + 1 /\ stack \in Seq(Frame)
         /\ stack[Len(stack)] \in Frame
         /\ Imports!Top.at \in Expanded /\ Imports!Top.at \in Document
         /\ Imports!Top.left \subseteq names[Imports!Top.at]
         /\ Imports!Top.left \subseteq Document
<1>1. stack \in Seq(Frame) /\ Len(stack) <= MaxDepth + 1
  BY DEF ImportsInv, Imports!TypeOK, Frame
<1>2. Len(stack) \in 1..MaxDepth + 1 /\ Len(stack) \in 1..Len(stack)
  BY <1>1
<1>3. stack[Len(stack)] \in Frame
  BY <1>1, <1>2
<1> QED BY <1>1, <1>2, <1>3 DEF Imports!Top, Frame, ImportsInv

\* One target less to visit.
LEMMA RestIsStack ==
  ASSUME ImportsInv, stack # <<>>, NEW t \in Document
  PROVE  /\ Imports!Rest(t) \in Seq(Frame) /\ Len(Imports!Rest(t)) = Len(stack)
         /\ \A i \in 1..Len(stack) :
              /\ Imports!Rest(t)[i].at = stack[i].at
              /\ Imports!Rest(t)[i].left =
                   IF i = Len(stack) THEN stack[i].left \ {t} ELSE stack[i].left
<1>1. stack \in Seq(Frame) /\ Len(stack) \in 1..Len(stack)
  BY StackTop
<1>2. Imports!Rest(t) =
        [stack EXCEPT ![Len(stack)] =
           [stack[Len(stack)] EXCEPT !.left = @ \ {t}]]
  BY <1>1 DEF Imports!Rest
<1>3. /\ [stack[Len(stack)] EXCEPT !.left = @ \ {t}] \in Frame
      /\ [stack[Len(stack)] EXCEPT !.left = @ \ {t}].at = stack[Len(stack)].at
      /\ [stack[Len(stack)] EXCEPT !.left = @ \ {t}].left
           = stack[Len(stack)].left \ {t}
  BY StackTop DEF Frame
<1>4. Imports!Rest(t) \in Seq(Frame) /\ Len(Imports!Rest(t)) = Len(stack)
  BY <1>1, <1>2, <1>3
<1>5. Imports!Rest(t)[Len(stack)] = [stack[Len(stack)] EXCEPT !.left = @ \ {t}]
  <2>1. Len(stack) \in DOMAIN stack
    BY <1>1
  <2> QED BY <1>2, <2>1
<1>6. ASSUME NEW i \in 1..Len(stack), i # Len(stack)
      PROVE  Imports!Rest(t)[i] = stack[i]
  <2>1. i \in DOMAIN stack
    BY <1>1
  <2> QED BY <1>2, <1>6, <2>1
<1> QED BY <1>1, <1>3, <1>4, <1>5, <1>6

\* A target that was dealt with leaves the rest to visit, if it leads nowhere
\* new or something is left out.
LEMMA SkipKeeps ==
  ASSUME Imports!GraphAssumption, ImportsInv, stack # <<>>, NEW t \in Document,
         Imports!Skip(t), UNCHANGED <<names, moved, allowChains>>,
         documents' \in 0..MaxDocuments, failures' \in 0..MaxFailures,
         \/ cut' = TRUE
         \/ /\ cut' = cut
            /\ Imports!Leads(Imports!Top.at, t) => moved[t] \in Expanded
  PROVE  ImportsInv'
<1>1. /\ stack' = Imports!Rest(t) /\ seen' = seen /\ entered' = entered
      /\ names' = names /\ moved' = moved /\ allowChains' = allowChains
  BY DEF Imports!Skip
<1>2. /\ stack' \in Seq(Frame) /\ Len(stack') = Len(stack)
      /\ stack \in Seq(Frame) /\ Len(stack) \in 1..MaxDepth + 1
      /\ \A i \in 1..Len(stack) :
           /\ stack'[i].at = stack[i].at
           /\ stack'[i].left = IF i = Len(stack) THEN stack[i].left \ {t}
                               ELSE stack[i].left
  BY <1>1, RestIsStack, StackTop
<1>3. Imports!TypeOK'
  <2>1. Len(stack') <= MaxDepth + 1 /\ cut' \in BOOLEAN
    BY <1>2 DEF ImportsInv, Imports!TypeOK
  <2> QED BY <1>1, <1>2, <2>1 DEF ImportsInv, Imports!TypeOK, Frame
<1>4. Expanded' = Expanded /\ Imports!Reachable' = Imports!Reachable
      /\ \A d, u : Imports!Leads(d, u)' = Imports!Leads(d, u)
  BY <1>1 DEF Expanded, Imports!Reachable, Imports!Leads, Imports!Vetoed,
              Imports!ChainAllowed, Imports!Remote
<1>5. \A i \in 1..Len(stack') :
        stack'[i].at \in Expanded /\ stack'[i].left \subseteq names[stack'[i].at]
  BY <1>2 DEF ImportsInv
<1>6. ASSUME ~cut', NEW d \in Expanded, NEW u \in Document, Imports!Leads(d, u)
      PROVE  moved[u] \in Expanded \/ Pending(d, u)'
  <2>1. ~cut /\ (moved[u] \in Expanded \/ Pending(d, u))
    BY <1>6 DEF ImportsInv
  <2>2. CASE moved[u] \in Expanded
    BY <2>2
  <2>3. CASE moved[u] \notin Expanded
    <3>1. PICK i \in 1..Len(stack) : stack[i].at = d /\ u \in stack[i].left
      BY <2>1, <2>3 DEF Pending
    <3>2. ~(i = Len(stack) /\ u = t)
      BY <1>6, <2>3, <3>1 DEF Imports!Top
    <3>3. stack'[i].at = d /\ u \in stack'[i].left
      BY <1>2, <3>1, <3>2
    <3> QED BY <1>2, <3>1, <3>3 DEF Pending
  <2> QED BY <2>2, <2>3
<1> QED BY <1>1, <1>3, <1>4, <1>5, <1>6 DEF ImportsInv

LEMMA VisitKeeps ==
  ASSUME Imports!GraphAssumption, ImportsInv, stack # <<>>, NEW t \in Document,
         Imports!Visit(t)
  PROVE  ImportsInv'
<1>1. /\ t \in Imports!Top.left /\ Imports!Top.at \in Expanded
      /\ Imports!Top.at \in Document
      /\ UNCHANGED <<names, moved, allowChains>> /\ failures' = failures
      /\ failures \in 0..MaxFailures
      /\ moved[t] \in Document /\ moved[moved[t]] = moved[t]
  BY StackTop DEF Imports!Visit, Imports!graphVars, ImportsInv, Imports!TypeOK
<1>2. documents' \in 0..MaxDocuments
  BY ImportsBounds DEF Imports!Visit, ImportsInv, Imports!TypeOK
<1>3. CASE Imports!Vetoed(Imports!Top.at, t) \/ t \in seen
  BY <1>1, <1>2, <1>3, SkipKeeps DEF Imports!Visit, Imports!Leads, ImportsInv
<1>4. CASE /\ ~(Imports!Vetoed(Imports!Top.at, t) \/ t \in seen)
           /\ \/ Imports!Repeated(t)
              \/ ~Imports!ChainAllowed(Imports!Top.at, moved[t])
           /\ Imports!Skip(t) /\ cut' = cut
  <2>1. Imports!Leads(Imports!Top.at, t) => moved[t] \in Expanded
    BY <1>1, <1>4 DEF Imports!Repeated, Imports!Leads, ImportsInv
  <2> QED BY <1>1, <1>2, <1>4, <2>1, SkipKeeps
<1>5. CASE Imports!Skip(t) /\ cut' = TRUE
  BY <1>1, <1>2, <1>5, SkipKeeps
<1>6. CASE /\ ~Imports!Vetoed(Imports!Top.at, t)
           /\ ~Imports!Repeated(t) /\ ~Imports!TooDeep
           /\ Imports!ChainAllowed(Imports!Top.at, moved[t])
           /\ seen' = seen \cup {t, moved[t]}
           /\ entered' = Append(entered, moved[t])
           /\ stack' = Append(Imports!Rest(t),
                              [at |-> moved[t], left |-> names[moved[t]]])
           /\ cut' = cut
  <2> DEFINE c == moved[t]
             n == Len(stack)
  <2>1. c \in Document /\ c \notin seen /\ names[c] \in SUBSET Document
    BY <1>1, <1>6 DEF Imports!Repeated, ImportsInv
  <2>2. /\ entered \in Seq(Document) /\ entered' \in Seq(Document)
        /\ DOMAIN entered = 1..Len(entered) /\ Len(entered) \in Nat
        /\ DOMAIN entered' = 1..Len(entered) + 1
        /\ entered'[Len(entered) + 1] = c
        /\ \A i \in DOMAIN entered : entered'[i] = entered[i]
    BY <1>6, <2>1 DEF ImportsInv, Imports!TypeOK
  <2>3. Expanded' = Expanded \cup {c} /\ c \notin Expanded
    <3>1. c \notin Expanded
      BY <2>1 DEF ImportsInv
    <3> HIDE DEF c
    <3>2. Expanded' = {entered'[i] : i \in DOMAIN entered'}
      BY DEF Expanded
    <3>3. \A x : x \in Expanded' <=> x \in Expanded \/ x = c
      BY <2>2, <3>2 DEF Expanded
    <3> QED BY <3>1, <3>3
  <2>4. \A i, j \in DOMAIN entered' : entered'[i] = entered'[j] => i = j
    BY <2>2, <2>3 DEF Expanded, ImportsInv
  <2>5. /\ n \in 1..MaxDepth + 1 /\ stack \in Seq(Frame)
        /\ Imports!Rest(t) \in Seq(Frame) /\ Len(Imports!Rest(t)) = n
        /\ \A i \in 1..n :
             /\ Imports!Rest(t)[i].at = stack[i].at
             /\ Imports!Rest(t)[i].left =
                  IF i = n THEN stack[i].left \ {t} ELSE stack[i].left
    BY StackTop, RestIsStack
  <2>6. n + 1 <= MaxDepth + 1
    BY <1>6, <2>5, ImportsBounds DEF Imports!TooDeep, Imports!Depth
  <2>7. [at |-> c, left |-> names[c]] \in Frame
    BY <2>1 DEF Frame
  <2>8. /\ stack' \in Seq(Frame) /\ Len(stack') = n + 1
        /\ stack'[n + 1] = [at |-> c, left |-> names[c]]
        /\ \A i \in 1..n : stack'[i] = Imports!Rest(t)[i]
    BY <1>6, <2>5, <2>7
  <2>9. stack'[n + 1].at = c /\ stack'[n + 1].left = names[c]
    BY <2>8
  <2>10. Imports!TypeOK'
    <3>1. seen' \subseteq Document /\ Len(stack') <= MaxDepth + 1
      BY <1>1, <1>6, <2>6, <2>8 DEF ImportsInv, Imports!TypeOK
    <3>2. cut' \in BOOLEAN
      BY <1>6 DEF ImportsInv, Imports!TypeOK
    <3> QED BY <1>1, <1>2, <2>2, <2>8, <3>1, <3>2 DEF Imports!TypeOK, Frame
  <2>11. /\ Imports!Reachable' = Imports!Reachable
         /\ \A d, u : Imports!Leads(d, u)' = Imports!Leads(d, u)
    BY <1>1 DEF Imports!Reachable, Imports!Leads, Imports!Vetoed,
                Imports!ChainAllowed, Imports!Remote
  <2>12. ASSUME NEW i \in 1..Len(stack')
         PROVE  stack'[i].at \in Expanded'
                /\ stack'[i].left \subseteq names[stack'[i].at]
    <3>1. CASE i = n + 1
      BY <2>3, <2>9, <3>1
    <3>2. CASE i # n + 1
      <4>1. i \in 1..n
        BY <2>5, <2>8, <3>2
      <4>2. /\ stack'[i].at = stack[i].at
            /\ stack'[i].left \subseteq stack[i].left
        BY <2>5, <2>8, <4>1
      <4>3. /\ stack[i].at \in Expanded
            /\ stack[i].left \subseteq names[stack[i].at]
        BY <4>1 DEF ImportsInv
      <4> QED BY <2>3, <4>2, <4>3
    <3> QED BY <3>1, <3>2
  <2>13. \A s \in seen' : moved[s] \in Expanded'
    BY <1>1, <1>6, <2>3 DEF ImportsInv
  <2>14. Expanded' \subseteq seen' /\ Root \in Expanded'
    BY <1>6, <2>3 DEF ImportsInv
  <2>15. c \in Imports!Reachable
    <3>1. Imports!Leads(Imports!Top.at, t)
      BY <1>1, <1>6, StackTop DEF Imports!Leads
    <3> QED BY <1>1, <3>1, LeadsToReachable DEF ImportsInv
  <2>16. ASSUME ~cut', NEW d \in Expanded', NEW u \in Document,
                Imports!Leads(d, u)
         PROVE  moved[u] \in Expanded' \/ Pending(d, u)'
    <3>1. CASE d = c
      <4>1. n + 1 \in 1..Len(stack') /\ u \in names[c]
        BY <2>5, <2>8, <2>16, <3>1 DEF Imports!Leads
      <4> QED BY <2>9, <3>1, <4>1 DEF Pending
    <3>2. CASE d # c /\ moved[u] \notin Expanded'
      <4>1. ~cut /\ d \in Expanded /\ moved[u] \notin Expanded /\ moved[u] # c
        BY <1>6, <2>3, <2>16, <3>2
      <4>2. PICK i \in 1..n : stack[i].at = d /\ u \in stack[i].left
        BY <2>16, <4>1 DEF ImportsInv, Pending
      <4>3. u # t /\ i \in 1..Len(stack')
        BY <2>5, <2>8, <4>1, <4>2
      <4>4. stack'[i].at = d /\ u \in stack'[i].left
        BY <2>5, <2>8, <4>2, <4>3
      <4> QED BY <4>3, <4>4 DEF Pending
    <3> QED BY <3>1, <3>2
  <2> QED
    <3>1. names' = names /\ moved' = moved
      BY <1>1
    <3>2. Expanded' \subseteq Imports!Reachable
      BY <2>3, <2>15 DEF ImportsInv
    <3> QED BY <2>4, <2>10, <2>11, <2>12, <2>13, <2>14, <2>16, <3>1, <3>2
            DEF ImportsInv
<1> QED BY <1>3, <1>4, <1>5, <1>6 DEF Imports!Visit

LEMMA ReadFailsKeeps ==
  ASSUME Imports!GraphAssumption, ImportsInv, stack # <<>>, NEW t \in Document,
         Imports!ReadFails(t)
  PROVE  ImportsInv'
<1>1. documents' \in 0..MaxDocuments /\ failures' \in 0..MaxFailures
  BY ImportsBounds DEF Imports!ReadFails, ImportsInv, Imports!TypeOK
<1> QED BY <1>1, SkipKeeps DEF Imports!ReadFails, Imports!graphVars

LEMMA PopKeeps ==
  ASSUME Imports!GraphAssumption, ImportsInv, stack # <<>>,
         Imports!Exhausted \/ Imports!Return
  PROVE  ImportsInv'
<1> DEFINE n == Len(stack)
<1>1. /\ stack' = SubSeq(stack, 1, n - 1)
      /\ UNCHANGED <<names, moved, allowChains, seen, documents, entered, failures>>
      /\ cut' = TRUE \/ (cut' = cut /\ Imports!Top.left = {})
  BY DEF Imports!Exhausted, Imports!Return, Imports!graphVars
<1>2. stack \in Seq(Frame) /\ n \in 1..MaxDepth + 1
  BY StackTop
<1>3. /\ stack' \in Seq(Frame) /\ Len(stack') = n - 1
      /\ \A i \in 1..Len(stack') : i \in 1..n /\ stack'[i] = stack[i]
  <2> DEFINE s == stack
  <2>1. s \in Seq(Frame) /\ n = Len(s) /\ n \in Nat /\ n >= 1
    BY <1>2, ImportsBounds
  <2> HIDE DEF s
  <2>2. /\ SubSeq(s, 1, n - 1) \in Seq(Frame)
        /\ Len(SubSeq(s, 1, n - 1)) = n - 1
        /\ \A i \in 1..n - 1 : SubSeq(s, 1, n - 1)[i] = s[i]
    BY <2>1
  <2> QED BY <1>1, <2>1, <2>2 DEF s
<1>4. Imports!TypeOK'
  <2>1. Len(stack') <= MaxDepth + 1
    BY <1>2, <1>3, ImportsBounds
  <2>2. cut' \in BOOLEAN
    BY <1>1 DEF ImportsInv, Imports!TypeOK
  <2> QED BY <1>1, <1>3, <2>1, <2>2 DEF ImportsInv, Imports!TypeOK, Frame
<1>5. Expanded' = Expanded /\ Imports!Reachable' = Imports!Reachable
      /\ \A d, u : Imports!Leads(d, u)' = Imports!Leads(d, u)
  BY <1>1 DEF Expanded, Imports!Reachable, Imports!Leads, Imports!Vetoed,
              Imports!ChainAllowed, Imports!Remote
<1>6. ASSUME ~cut', NEW d \in Expanded, NEW u \in Document, Imports!Leads(d, u)
      PROVE  moved[u] \in Expanded \/ Pending(d, u)'
  <2>1. ~cut /\ (moved[u] \in Expanded \/ Pending(d, u)) /\ Imports!Top.left = {}
    BY <1>1, <1>6 DEF ImportsInv
  <2>2. CASE moved[u] \in Expanded
    BY <2>2
  <2>3. CASE Pending(d, u)
    <3>1. PICK i \in 1..n : stack[i].at = d /\ u \in stack[i].left
      BY <2>3 DEF Pending
    <3>2. i # n
      BY <2>1, <3>1 DEF Imports!Top
    <3>3. i \in 1..Len(stack')
      BY <1>2, <1>3, <3>1, <3>2
    <3> QED BY <1>3, <3>1, <3>3 DEF Pending
  <2> QED BY <2>1, <2>2, <2>3
<1>7. \A i \in 1..Len(stack') :
        stack'[i].at \in Expanded /\ stack'[i].left \subseteq names[stack'[i].at]
  BY <1>3 DEF ImportsInv
<1> QED BY <1>1, <1>4, <1>5, <1>6, <1>7 DEF ImportsInv

LEMMA ImportsStep ==
  ASSUME Imports!GraphAssumption, ImportsInv, [Imports!Next]_expandVars
  PROVE  ImportsInv'
<1>1. CASE UNCHANGED expandVars
  <2>1. UNCHANGED <<names, moved, allowChains, stack, seen, documents, entered,
                    cut, failures>>
    BY <1>1 DEF expandVars
  <2>2. Expanded' = Expanded /\ Imports!Reachable' = Imports!Reachable
        /\ \A d, u : /\ Imports!Leads(d, u)' = Imports!Leads(d, u)
                     /\ Pending(d, u)' = Pending(d, u)
    BY <2>1 DEF Expanded, Imports!Reachable, Imports!Leads, Imports!Vetoed,
                Imports!ChainAllowed, Imports!Remote, Pending
  <2>3. Imports!TypeOK'
    BY <2>1 DEF ImportsInv, Imports!TypeOK
  <2> QED BY <2>1, <2>2, <2>3 DEF ImportsInv
<1>2. CASE Imports!Next
  BY <1>2, VisitKeeps, ReadFailsKeeps, PopKeeps DEF Imports!Next
<1> QED BY <1>1, <1>2

\* With nothing left to visit, what was expanded holds all it leads to.
LEMMA AllExpanded ==
  ASSUME ImportsInv, stack = <<>>, ~cut
  PROVE  Imports!Reachable \subseteq Expanded
<1>1. \A d, u : ~Pending(d, u)
  BY DEF Pending
<1>2. \A d \in Expanded, u \in Document :
        Imports!Leads(d, u) => moved[u] \in Expanded
  BY <1>1 DEF ImportsInv
<1>3. Expanded \in SUBSET Document /\ Root \in Expanded
  BY DEF ImportsInv, Imports!TypeOK
<1> QED BY <1>2, <1>3 DEF Imports!Reachable

LEMMA ImportsHolds == MCSpec => []ImportsInv
<1>1. Imports!GraphAssumption
  BY BackendAssumption
<1>2. MCInit => ImportsInv
  BY <1>1, PartsBegin, ImportsBegins
<1>3. ImportsInv /\ [MCNext]_mcVars => ImportsInv'
  BY <1>1, PartsMove, ImportsStep
<1> QED BY <1>2, <1>3, PTL DEF MCSpec

\* Every collection that may be reached is expanded, once, and nothing else,
\* whatever the cycles and the redirects, unless a read failed or a limit was
\* met (src/src/config/import_graph.rs).
THEOREM ReachableIsExpanded == MCSpec => []ExpandsReachable
<1>1. ImportsInv => ExpandsReachable
  BY AllExpanded DEF ImportsInv, ExpandsReachable, Imports!ExpandsReachable,
                     Expanded
<1> QED BY <1>1, ImportsHolds, PTL

-----------------------------------------------------------------------------
(* Workspace.  WorkspaceProofs proves it; what it calls a step of the      *)
(* commands is one here.                                                   *)

LEMMA CommandsBegin ==
  ASSUME Commands!WorkspaceAssumption
  PROVE  WorkspaceP!WorkspaceAssumption /\ (Commands!Init => WorkspaceP!Init)
<1>1. WorkspaceP!WorkspaceAssumption
  BY Zenon DEF Commands!WorkspaceAssumption, WorkspaceP!WorkspaceAssumption,
               Commands!Command, WorkspaceP!Command
<1>2. Commands!Init => WorkspaceP!Init
  BY Zenon DEF Commands!Init, WorkspaceP!Init, Commands!Lock, WorkspaceP!Lock,
     Commands!Tree, WorkspaceP!Tree, Commands!Program, WorkspaceP!Program,
     Commands!Sync, WorkspaceP!Sync, Commands!Work, WorkspaceP!Work,
     Commands!LockedClean, WorkspaceP!LockedClean, Commands!DevLockedClean,
     WorkspaceP!DevLockedClean, Commands!Removal, WorkspaceP!Removal,
     Commands!Drop, WorkspaceP!Drop, Commands!Steps, WorkspaceP!Steps,
     Commands!Try, WorkspaceP!Try
<1> QED BY Zenon, <1>1, <1>2

\* An instance has its own name for what it takes from FiniteSets.
LEMMA SameCount ==
  Commands!Cardinality(crashed) < MaxCrashes =>
    WorkspaceP!Cardinality(crashed) < MaxCrashes
BY Zenon DEF Commands!Cardinality, WorkspaceP!Cardinality

LEMMA CommandsMove ==
  ASSUME [Commands!Next]_workspaceVars
  PROVE  [WorkspaceP!Next]_(WorkspaceP!workspaceVars)
<1> USE DEF Commands!Doing, WorkspaceP!Doing, Commands!On, WorkspaceP!On,
            Commands!Advance, WorkspaceP!Advance, Commands!lockVars,
            WorkspaceP!lockVars, Commands!toldVars, WorkspaceP!toldVars,
            Commands!Steps, WorkspaceP!Steps, Commands!DropHeld,
            WorkspaceP!DropHeld, Commands!Drop, WorkspaceP!Drop, Commands!Fail,
            WorkspaceP!Fail
<1>1. CASE UNCHANGED workspaceVars
  BY <1>1 DEF workspaceVars, WorkspaceP!workspaceVars
<1>2. ASSUME NEW p \in Process
      PROVE  /\ Commands!TryLock(p) => WorkspaceP!TryLock(p)
             /\ Commands!Ask(p) => WorkspaceP!Ask(p)
             /\ Commands!WriteRecord(p) => WorkspaceP!WriteRecord(p)
             /\ Commands!RecordFails(p) => WorkspaceP!RecordFails(p)
             /\ Commands!ClearRecord(p) => WorkspaceP!ClearRecord(p)
             /\ Commands!Unlock(p) => WorkspaceP!Unlock(p)
             /\ Commands!MakePlan(p) => WorkspaceP!MakePlan(p)
             /\ Commands!RemovePlanned(p) => WorkspaceP!RemovePlanned(p)
             /\ Commands!Run(p) => WorkspaceP!Run(p)
             /\ Commands!Kill(p) => WorkspaceP!Kill(p)
  <2>1. Commands!TryLock(p) => WorkspaceP!TryLock(p)
    BY Zenon DEF Commands!TryLock, WorkspaceP!TryLock, Commands!Writes,
       WorkspaceP!Writes, Commands!Record, WorkspaceP!Record, Commands!Witness,
       WorkspaceP!Witness, Commands!Asking, WorkspaceP!Asking
  <2>2. Commands!Ask(p) => WorkspaceP!Ask(p)
    BY Zenon DEF Commands!Ask, WorkspaceP!Ask
  <2>3. Commands!WriteRecord(p) => WorkspaceP!WriteRecord(p)
    BY Zenon DEF Commands!WriteRecord, WorkspaceP!WriteRecord
  <2>4. Commands!RecordFails(p) => WorkspaceP!RecordFails(p)
    BY Zenon, SameCount DEF Commands!RecordFails, WorkspaceP!RecordFails
  <2>5. Commands!ClearRecord(p) => WorkspaceP!ClearRecord(p)
    BY Zenon DEF Commands!ClearRecord, WorkspaceP!ClearRecord
  <2>6. Commands!Unlock(p) => WorkspaceP!Unlock(p)
    BY Zenon DEF Commands!Unlock, WorkspaceP!Unlock
  <2>7. Commands!MakePlan(p) => WorkspaceP!MakePlan(p)
    BY Zenon DEF Commands!MakePlan, WorkspaceP!MakePlan
  <2>8. Commands!RemovePlanned(p) => WorkspaceP!RemovePlanned(p)
    BY Zenon DEF Commands!RemovePlanned, WorkspaceP!RemovePlanned
  <2>9. Commands!Run(p) => WorkspaceP!Run(p)
    BY Zenon DEF Commands!Run, WorkspaceP!Run
  <2>10. Commands!Kill(p) => WorkspaceP!Kill(p)
    BY Zenon, SameCount DEF Commands!Kill, WorkspaceP!Kill, Commands!Lock,
       WorkspaceP!Lock
  <2> QED
    BY Zenon, <2>1, <2>2, <2>3, <2>4, <2>5, <2>6, <2>7, <2>8, <2>9, <2>10
<1>3. CASE Commands!Next
  BY Zenon, <1>2, <1>3 DEF Commands!Next, WorkspaceP!Next
<1> QED BY Zenon, <1>1, <1>3

LEMMA CommandsHold == MCSpec => []WorkspaceP!WorkspaceInv
<1>1. Commands!WorkspaceAssumption
  BY Zenon, BackendAssumption
<1>2. MCInit => WorkspaceP!WorkspaceInv
  BY Zenon, <1>1, PartsBegin, CommandsBegin, WorkspaceP!InitHolds
<1>3. WorkspaceP!WorkspaceInv /\ [MCNext]_mcVars => WorkspaceP!WorkspaceInv'
  BY Zenon, <1>1, PartsMove, CommandsBegin, CommandsMove, WorkspaceP!StepHolds
<1> QED BY <1>2, <1>3, PTL DEF MCSpec

\* A lock conflict names nobody, or a command that held the lock while the
\* newcomer was turned away, or one that ended without clearing its record, for
\* the commands of Started; WorkspaceProofs has any (src/src/commands/lock.rs:23).
THEOREM ConflictsNameHolders == MCSpec => []NamedHeld
<1>1. WorkspaceP!WorkspaceInv => NamedHeld
  <2>1. WorkspaceP!NamedHeld => NamedHeld
    BY Zenon DEF NamedHeld, Commands!NamedHeld, WorkspaceP!NamedHeld
  <2> QED BY Zenon, <2>1, WorkspaceP!Implied
<1> QED BY <1>1, CommandsHold, PTL

\* No command but `dev --clean` removes a tree that another one works in, for
\* the commands of Started; WorkspaceProofs has any (src/src/commands/clean.rs:15).
THEOREM WorkedTreesStay == MCSpec => []TreeKept
<1>1. WorkspaceP!WorkspaceInv => TreeKept
  <2>1. WorkspaceP!TreeKept => TreeKept
    BY Zenon DEF TreeKept, Commands!TreeKept, WorkspaceP!TreeKept,
       Commands!Doing, WorkspaceP!Doing, Commands!On, WorkspaceP!On
  <2> QED BY Zenon, <2>1, WorkspaceP!Implied
<1> QED BY <1>1, CommandsHold, PTL

-----------------------------------------------------------------------------
(* The types of the whole                                                  *)

\* Every part keeps its types and the limits it declares, the redirects a
\* request follows and the depth of nested collections among them.
THEOREM TypesHold == MCSpec => []TypesOK
<1>1. /\ WorkspaceP!WorkspaceInv /\ OutputInv /\ DevInv /\ HttpInv /\ ImportsInv
      /\ ParallelP!Inv
      => TypesOK
  <2>1. WorkspaceP!WorkspaceInv => Commands!TypeOK
    <3>1. WorkspaceP!TypeOK => Commands!TypeOK
      BY Zenon DEF Commands!TypeOK, WorkspaceP!TypeOK, Commands!Command,
         WorkspaceP!Command, Commands!Tree, WorkspaceP!Tree, Commands!Lock,
         WorkspaceP!Lock
    <3> QED BY Zenon, <3>1, WorkspaceP!Implied
  <2>2. /\ (OutputInv => Output!TypeOK) /\ (DevInv => Dev!TypeOK)
        /\ (ImportsInv => Imports!TypeOK)
    BY Zenon DEF OutputInv, DevInv, ImportsInv
  <2>3. HttpInv => Http!TypeOK
    BY Zenon, HttpTypesOK DEF HttpInv
  <2>4. ParallelP!Inv => Parallel!TypeOK
    BY Zenon DEF ParallelP!Inv, ParallelP!TypeOK, Parallel!TypeOK,
       ParallelP!Input, Parallel!Input, ParallelP!None, Parallel!None
  <2> QED BY Zenon, <2>1, <2>2, <2>3, <2>4 DEF TypesOK
<1> QED BY <1>1, CommandsHold, OutputHolds, DevHolds, HttpHolds, ImportsHolds,
           ParallelHolds, PTL
=============================================================================
