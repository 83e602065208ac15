------------------------------ MODULE FetchRun ------------------------------
(***************************************************************************)
(* The shared fetch stage of aggr (src/src/commands/fetch.rs): one task    *)
(* per subscribed source downloads its feed, reserves the links nobody has *)
(* archived yet, writes the new items into its own directory of the data   *)
(* worktree and records their dedupe keys, inside a per-source file        *)
(* transaction that is rolled back when the source fails.  Retention runs  *)
(* before and after, and everything on disk survives a crash.              *)
(*                                                                         *)
(* An article stands for its dedupe keys and its normalized link.  A title *)
(* or date, the bytes of an item and its companions, and the repairs of    *)
(* items already archived are abstracted away; --dry-run, --refresh,       *)
(* --reprocess and --backfill-media are not modelled.                      *)
(***************************************************************************)
EXTENDS Naturals, FiniteSets

CONSTANTS
  Source,      \* source slugs
  Article,     \* articles the feeds may list
  Linked,      \* the articles with a non-empty normalized link
  Policy,      \* digests of a source's content, media and limit settings
  Feed,        \* Feed[s]: the entries of s within its limits
  Retirable,   \* articles an age, count or byte limit may select
  Limit,       \* [fetch] concurrency
  Events,      \* what the environment does: see EventKinds
  None         \* no policy, no article

EventKinds == {"error", "panic", "crash", "delete", "configure"}

ASSUME ConstantsAssumption ==
  /\ Linked \subseteq Article
  /\ Retirable \subseteq Article
  /\ Feed \in [Source -> SUBSET Article]
  /\ Limit \in Nat \ {0}
  /\ Events \subseteq EventKinds
  /\ None \notin Policy
  /\ None \notin Article

VARIABLES
  \* The data worktree, and the parser receipts of the cache.
  items,       \* items[s]: articles with a visible .md under items/<s>
  seen,        \* seen[s]: keys in sources/<s>/seen.txt
  evicted,     \* evicted[s][a]: the policy that evicted a, or None
  validated,   \* validated[s]: state.toml holds the feed's current validators
  receipt,     \* receipt[s]: the policy of the last complete enumeration
  failing,     \* sources named by status.toml
  \* The configuration, and what a reader of the archive did by hand.
  config,      \* config[s]: the policy of s, None when it is not subscribed
  deleted,     \* deleted[s]: articles deleted by hand from items/<s>
  ever,        \* articles some run has found or left in the archive
  \* One run.
  phase, final, drop, committed, reserved, waiters,
  \* The task of each source.
  pc, todo, held, written, stored, logged, writing, before

bookVars == <<seen, evicted, validated>>
diskVars == <<items, bookVars, receipt, failing>>
userVars == <<config, deleted>>
linkVars == <<committed, reserved, waiters, ever>>
stageVars == <<phase, final, drop>>
txVars == <<written, stored, logged, writing, before>>
taskVars == <<pc, todo, held, txVars>>
vars == <<diskVars, userVars, linkVars, stageVars, taskVars>>

Phases == {"idle", "planning", "recording", "removing", "forgetting",
           "indexing", "fetching", "aborting"}
Ended == {"off", "done", "failed", "panicked"}
Unreserved == {"queued", "fetching", "reserving", "checking", "asleep"}
Writing == {"storing", "evictions", "state", "receipt"}
Closing == {"committing", "releasing", "unwinding", "panicking"}
Permitted == (Unreserved \ {"queued"}) \cup Writing \cup Closing
Snapshot == [items : SUBSET Article, seen : SUBSET Article,
             evicted : [Article -> Policy \cup {None}], validated : BOOLEAN]
Empty == [items |-> {}, seen |-> {}, evicted |-> [a \in Article |-> None],
          validated |-> FALSE]

Subscribed == {s \in Source : config[s] # None}
Archived == UNION {items[s] : s \in Source}

Init ==
  /\ config \in [Source -> Policy]
  /\ items = [s \in Source |-> {}]
  /\ seen = [s \in Source |-> {}]
  /\ evicted = [s \in Source |-> Empty.evicted]
  /\ validated = [s \in Source |-> FALSE]
  /\ receipt = [s \in Source |-> None]
  /\ failing = {}
  /\ deleted = [s \in Source |-> {}]
  /\ ever = {}
  /\ phase = "idle"
  /\ final = FALSE
  /\ drop = [s \in Source |-> {}]
  /\ committed = {}
  /\ reserved = {}
  /\ waiters = {}
  /\ pc = [s \in Source |-> "off"]
  /\ todo = [s \in Source |-> {}]
  /\ held = [s \in Source |-> {}]
  /\ written = [s \in Source |-> {}]
  /\ stored = [s \in Source |-> {}]
  /\ logged = [s \in Source |-> {}]
  /\ writing = [s \in Source |-> None]
  /\ before = [s \in Source |-> Empty]

-----------------------------------------------------------------------------
(* Retention: apply_retention, before indexing and after the last task.    *)

\* `run` starts: nothing of an earlier run is left in memory.
BeginRun ==
  /\ phase = "idle"
  /\ phase' = "planning"
  /\ final' = FALSE
  /\ UNCHANGED <<diskVars, userVars, linkVars, drop, taskVars>>

\* The plan drops every item of an unsubscribed source, and of the others
\* the items their limits select.
PlanRetention ==
  /\ phase = "planning"
  /\ \E selected \in [Source -> SUBSET Retirable] :
       drop' = [s \in Source |-> IF s \in Subscribed
                                THEN items[s] \cap selected[s]
                                ELSE items[s]]
  /\ phase' = "recording"
  /\ UNCHANGED <<diskVars, userVars, linkVars, final, taskVars>>

\* Only what a limit selected is a policy eviction.  Every source has a file
\* of its own, saved when its records changed, before any item goes.
Saved(s) == \A a \in drop[s] : evicted[s][a] = config[s]

RecordEvictions(s) ==
  /\ phase = "recording"
  /\ s \in Subscribed
  /\ ~Saved(s)
  /\ evicted' = [evicted EXCEPT ![s] =
       [a \in Article |-> IF a \in drop[s] THEN config[s] ELSE @[a]]]
  /\ UNCHANGED <<items, seen, validated, receipt, failing, userVars, linkVars,
                 stageVars, taskVars>>

EvictionsRecorded ==
  /\ phase = "recording"
  /\ \A s \in Subscribed : Saved(s)
  /\ phase' = "removing"
  /\ UNCHANGED <<diskVars, userVars, linkVars, final, drop, taskVars>>

\* The files of the plan go one by one; the .md is what makes an item visible.
RemoveItem(s, a) ==
  /\ phase = "removing"
  /\ a \in drop[s]
  /\ items' = [items EXCEPT ![s] = @ \ {a}]
  /\ drop' = [drop EXCEPT ![s] = @ \ {a}]
  /\ UNCHANGED <<bookVars, receipt, failing, userVars, linkVars, phase, final,
                 taskVars>>

ItemsRemoved ==
  /\ phase = "removing"
  /\ \A s \in Source : drop[s] = {}
  /\ phase' = "forgetting"
  /\ UNCHANGED <<diskVars, userVars, linkVars, final, drop, taskVars>>

\* A source that left the config loses its bookkeeping, file by file, so
\* subscribing to it again starts from nothing.
RemoveUnconfigured(s) ==
  /\ phase = "forgetting"
  /\ s \notin Subscribed
  /\ \/ /\ seen[s] # {}
        /\ seen' = [seen EXCEPT ![s] = {}]
        /\ deleted' = [deleted EXCEPT ![s] = {}]
        /\ UNCHANGED <<evicted, validated>>
     \/ /\ seen[s] = {} /\ validated[s]
        /\ validated' = [validated EXCEPT ![s] = FALSE]
        /\ UNCHANGED <<seen, evicted, deleted>>
     \/ /\ seen[s] = {} /\ ~validated[s] /\ evicted[s] # Empty.evicted
        /\ evicted' = [evicted EXCEPT ![s] = Empty.evicted]
        /\ UNCHANGED <<seen, validated, deleted>>
  /\ UNCHANGED <<items, receipt, failing, config, linkVars, stageVars,
                 taskVars>>

\* Mutant: the bookkeeping of an unsubscribed source is kept.
ForgottenAnyway(s) == s \in Source
Forgotten(s) == seen[s] = {} /\ ~validated[s] /\ evicted[s] = Empty.evicted

\* The second pass ends the run.
Retained ==
  /\ phase = "forgetting"
  /\ \A s \in Source \ Subscribed : Forgotten(s)
  /\ phase' = IF final THEN "idle" ELSE "indexing"
  /\ UNCHANGED <<diskVars, userVars, linkVars, final, drop, taskVars>>

\* The link index covers the whole archive; then every task is spawned.
IndexArchive ==
  /\ phase = "indexing"
  /\ committed' = Archived \cap Linked
  /\ reserved' = {}
  /\ waiters' = {}
  /\ ever' = ever \cup Archived
  /\ pc' = [s \in Source |-> IF s \in Subscribed THEN "queued" ELSE "off"]
  /\ phase' = "fetching"
  /\ UNCHANGED <<diskVars, userVars, final, drop, todo, held, txVars>>

-----------------------------------------------------------------------------
(* One source: fetch_one, fetch_one_inner and the transactions around it.  *)

Go(s, next) == pc' = [pc EXCEPT ![s] = next]

\* A task resumes at one of these awaits; once it is cancelled it does not.
At(s, await) == pc[s] = await /\ phase = "fetching"

\* The concurrency permit is held until the task ends.
Acquire(s) ==
  /\ At(s, "queued")
  /\ Cardinality({t \in Source : pc[t] \in Permitted}) < Limit
  /\ Go(s, "fetching")
  /\ before' = [before EXCEPT ![s] =
       [items |-> items[s], seen |-> seen[s], evicted |-> evicted[s],
        validated |-> validated[s]]]
  /\ UNCHANGED <<diskVars, userVars, linkVars, stageVars, todo, held,
                 written, stored, logged, writing>>

\* Validators are sent only while the parser receipt matches the policy, so
\* a policy change forces one complete enumeration.
FetchUnchanged(s) ==
  /\ At(s, "fetching")
  /\ validated[s]
  /\ receipt[s] = config[s]
  /\ Go(s, "done")
  /\ UNCHANGED <<diskVars, userVars, linkVars, stageVars, todo, held, txVars>>

\* Mutant: an eviction is reconsidered under the policy that caused it.
EligibleAlways(s) == {a \in Article : evicted[s][a] # None}
Eligible(s) == {a \in Article : evicted[s][a] \notin {None, config[s]}}
Readmitted(s) == (seen[s] \cap Eligible(s)) \ items[s]
Candidates(s) ==
  {a \in Feed[s] : /\ a \notin seen[s] \/ a \in Readmitted(s)
                   /\ a \notin committed}

\* The feed changed: select what is new to this source, or may be captured
\* again, and is not archived by another.  What is skipped leaves no trace.
FetchChanged(s) ==
  /\ At(s, "fetching")
  /\ todo' = [todo EXCEPT ![s] = Candidates(s)]
  /\ Go(s, "reserving")
  /\ UNCHANGED <<diskVars, userVars, linkVars, stageVars, held, txVars>>

\* `enable` registers the waiter before the state is examined.
RegisterWaiter(s) ==
  /\ pc[s] = "reserving"
  /\ waiters' = waiters \cup {s}
  /\ Go(s, "checking")
  /\ UNCHANGED <<diskVars, userVars, committed, reserved, ever, stageVars,
                 todo, held, txVars>>

Wanted(s) == todo[s] \cap Linked

\* Mutant: links that another source holds are granted.
NeverBlocked(s) == s \notin Source
Blocked(s) == Wanted(s) \cap reserved # {}

\* The whole set at once: links another source archived meanwhile are
\* dropped as duplicates, the others belong to this source.
ReserveLinks(s) ==
  /\ pc[s] = "checking"
  /\ ~Blocked(s)
  /\ held' = [held EXCEPT ![s] = Wanted(s) \ committed]
  /\ reserved' = reserved \cup (Wanted(s) \ committed)
  /\ todo' = [todo EXCEPT ![s] = @ \ committed]
  /\ waiters' = waiters \ {s}
  /\ Go(s, "storing")
  /\ UNCHANGED <<diskVars, userVars, committed, ever, stageVars, txVars>>

AwaitRelease(s) ==
  /\ pc[s] = "checking"
  /\ Blocked(s)
  /\ Go(s, "asleep")
  /\ UNCHANGED <<diskVars, userVars, linkVars, stageVars, todo, held, txVars>>

Wake(s) ==
  /\ At(s, "asleep")
  /\ s \notin waiters
  /\ Go(s, "reserving")
  /\ UNCHANGED <<diskVars, userVars, linkVars, stageVars, todo, held, txVars>>

\* Enrichment finishes in any order; the path is tracked, then the write is
\* handed to the blocking pool.
TrackItem(s, a) ==
  /\ At(s, "storing")
  /\ a \in todo[s]
  /\ writing[s] = None
  /\ written' = [written EXCEPT ![s] = @ \cup {a}]
  /\ writing' = [writing EXCEPT ![s] = a]
  /\ UNCHANGED <<diskVars, userVars, linkVars, stageVars, pc, todo, held,
                 stored, logged, before>>

\* Mutant: a job runs that was never handed over.
Storable(s) == pc[s] = "storing"
InFlight(s) == writing[s] # None

\* The atomic rename of the .md makes the item visible.  The write is a
\* detached blocking job: it lands even when its task was cancelled.
PersistItem(s) ==
  /\ InFlight(s)
  /\ items' = [items EXCEPT ![s] = @ \cup {writing[s]}]
  /\ writing' = [writing EXCEPT ![s] = None]
  /\ IF pc[s] = "storing"
     THEN /\ stored' = [stored EXCEPT ![s] = @ \cup {writing[s]}]
          /\ todo' = [todo EXCEPT ![s] = @ \ {writing[s]}]
     ELSE UNCHANGED <<stored, todo>>
  /\ UNCHANGED <<bookVars, receipt, failing, userVars, linkVars, stageVars,
                 pc, held, written, logged, before>>

\* Mutant: state.toml is not snapshotted.
TrackKeysOnly(s, file) ==
  logged' = [logged EXCEPT ![s] = (@ \cup {file}) \ {"state"}]

\* `track_*`: snapshot a bookkeeping file before its first write.
Track(s, file) == logged' = [logged EXCEPT ![s] = @ \cup {file}]

AppendSeen(s) ==
  /\ At(s, "storing")
  /\ todo[s] = {}
  /\ writing[s] = None
  /\ IF stored[s] \ before[s].seen # {}
     THEN /\ Track(s, "seen")
          /\ seen' = [seen EXCEPT ![s] = @ \cup stored[s]]
     ELSE UNCHANGED <<seen, logged>>
  /\ Go(s, "evictions")
  /\ UNCHANGED <<items, evicted, validated, receipt, failing, userVars,
                 linkVars, stageVars, todo, held, written, stored, writing,
                 before>>

\* Mutant: the records of readmitted items are kept.
KeepEvictions(s) ==
  /\ pc[s] = "evictions"
  /\ Go(s, "state")
  /\ UNCHANGED <<diskVars, userVars, linkVars, stageVars, todo, held, txVars>>

ClearEvictions(s) ==
  /\ pc[s] = "evictions"
  /\ IF \E a \in stored[s] : evicted[s][a] # None
     THEN /\ Track(s, "evictions")
          /\ evicted' = [evicted EXCEPT ![s] =
               [a \in Article |-> IF a \in stored[s] THEN None ELSE @[a]]]
     ELSE UNCHANGED <<evicted, logged>>
  /\ Go(s, "state")
  /\ UNCHANGED <<items, seen, validated, receipt, failing, userVars, linkVars,
                 stageVars, todo, held, written, stored, writing, before>>

\* Validators alone never earn a commit: state.toml follows new items or a
\* renamed source.
WriteState(s) ==
  /\ At(s, "state")
  /\ \E renamed \in BOOLEAN :
       IF stored[s] # {} \/ renamed
       THEN /\ Track(s, "state")
            /\ validated' = [validated EXCEPT ![s] = TRUE]
       ELSE UNCHANGED <<validated, logged>>
  /\ Go(s, "receipt")
  /\ UNCHANGED <<items, seen, evicted, receipt, failing, userVars, linkVars,
                 stageVars, todo, held, written, stored, writing, before>>

CommitReceipt(s) ==
  /\ pc[s] = "receipt"
  /\ receipt' = [receipt EXCEPT ![s] = config[s]]
  /\ Go(s, "committing")
  /\ UNCHANGED <<items, bookVars, failing, userVars, linkVars, stageVars,
                 todo, held, txVars>>

\* `transaction.commit(); links.commit()`: the links become archived ...
CommitLinks(s) ==
  /\ pc[s] = "committing"
  /\ committed' = committed \cup held[s]
  /\ ever' = ever \cup stored[s]
  /\ Go(s, "releasing")
  /\ UNCHANGED <<diskVars, userVars, reserved, waiters, stageVars, todo, held,
                 txVars>>

Outcome(s) == CASE pc[s] = "releasing" -> "done"
                [] pc[s] = "unwinding" -> "failed"
                [] pc[s] = "panicking" -> "panicked"

\* Mutant: only a committed reservation wakes the waiters.
ReleaseQuietly(s) ==
  /\ pc[s] \in {"releasing", "unwinding", "panicking"}
  /\ reserved' = reserved \ held[s]
  /\ held' = [held EXCEPT ![s] = {}]
  /\ waiters' = IF pc[s] = "releasing" THEN {} ELSE waiters
  /\ Go(s, Outcome(s))
  /\ UNCHANGED <<diskVars, userVars, committed, ever, stageVars, todo, txVars>>

\* Mutant: links of a failed source become archived too.
ReleaseAsCommitted(s) ==
  /\ pc[s] \in {"releasing", "unwinding", "panicking"}
  /\ committed' = committed \cup held[s]
  /\ reserved' = reserved \ held[s]
  /\ held' = [held EXCEPT ![s] = {}]
  /\ waiters' = {}
  /\ Go(s, Outcome(s))
  /\ UNCHANGED <<diskVars, userVars, ever, stageVars, todo, txVars>>

\* ... and dropping the reservation, committed or not, wakes every waiter.
Release(s) ==
  /\ pc[s] \in {"releasing", "unwinding", "panicking"}
  /\ reserved' = reserved \ held[s]
  /\ held' = [held EXCEPT ![s] = {}]
  /\ waiters' = {}
  /\ Go(s, Outcome(s))
  /\ UNCHANGED <<diskVars, userVars, committed, ever, stageVars, todo, txVars>>

-----------------------------------------------------------------------------
(* Failure, cancellation and the end of a run.                             *)

\* Mutant: a failed source keeps the items it wrote.
RollBackKeysOnly(s) ==
  /\ seen' = [seen EXCEPT ![s] = before[s].seen]
  /\ evicted' = [evicted EXCEPT ![s] = before[s].evicted]
  /\ validated' = [validated EXCEPT ![s] = before[s].validated]
  /\ UNCHANGED <<items, receipt, failing>>

\* Every tracked path gets back its content from before the transaction.
RollBack(s) ==
  /\ items' = [items EXCEPT ![s] =
       (@ \ written[s]) \cup (before[s].items \cap written[s])]
  /\ seen' = IF "seen" \in logged[s]
             THEN [seen EXCEPT ![s] = before[s].seen] ELSE seen
  /\ evicted' = IF "evictions" \in logged[s]
                THEN [evicted EXCEPT ![s] = before[s].evicted] ELSE evicted
  /\ validated' = IF "state" \in logged[s]
                  THEN [validated EXCEPT ![s] = before[s].validated]
                  ELSE validated
  /\ UNCHANGED <<receipt, failing>>

\* Leave the task: nothing more is written, the transaction rolls back.
Unwind(s, next) ==
  /\ RollBack(s)
  /\ todo' = [todo EXCEPT ![s] = {}]
  /\ Go(s, next)
  /\ UNCHANGED <<userVars, committed, reserved, ever, final, drop, held,
                 written, stored, logged, before>>

\* An error of the download, the preparation, a write or the bookkeeping.
Fail(s) ==
  /\ "error" \in Events
  /\ pc[s] \in {"fetching"} \cup Writing
  /\ Unwind(s, IF pc[s] = "fetching" THEN "failed" ELSE "unwinding")
  /\ writing' = [writing EXCEPT ![s] = None]
  /\ UNCHANGED <<phase, waiters>>

Panic(s) ==
  /\ "panic" \in Events
  /\ pc[s] \in {"fetching"} \cup Writing
  /\ writing[s] = None
  /\ Unwind(s, IF pc[s] = "fetching" THEN "panicked" ELSE "panicking")
  /\ UNCHANGED <<phase, waiters, writing>>

\* Joining a panicked task makes `run` return and drop the JoinSet, which
\* cancels every other task at its next await ...
JoinPanicked ==
  /\ phase = "fetching"
  /\ \E s \in Source : pc[s] = "panicked"
  /\ phase' = "aborting"
  /\ UNCHANGED <<diskVars, userVars, linkVars, final, drop, taskVars>>

\* ... where its transaction rolls back, but a write already handed to the
\* blocking pool is still on its way.
Abort(s) ==
  /\ phase = "aborting"
  /\ pc[s] \in {"queued", "fetching", "asleep", "storing", "state"}
  /\ Unwind(s, CASE pc[s] = "queued" -> "off"
                 [] pc[s] \in {"fetching", "asleep"} -> "failed"
                 [] pc[s] \in {"storing", "state"} -> "unwinding")
  /\ waiters' = waiters \ {s}
  /\ UNCHANGED <<phase, writing>>

\* The tasks and the shared links live in the process' memory only.
ForgetTasks ==
  /\ drop' = [s \in Source |-> {}]
  /\ committed' = {}
  /\ reserved' = {}
  /\ waiters' = {}
  /\ pc' = [s \in Source |-> "off"]
  /\ todo' = [s \in Source |-> {}]
  /\ held' = [s \in Source |-> {}]
  /\ written' = [s \in Source |-> {}]
  /\ stored' = [s \in Source |-> {}]
  /\ logged' = [s \in Source |-> {}]
  /\ writing' = [s \in Source |-> None]
  /\ before' = [s \in Source |-> Empty]

AllEnded == \A s \in Source : pc[s] \in Ended

\* An aborted run returns its error.  A detached write that has not begun by
\* then is dropped with the blocking pool.
FinishAbort ==
  /\ phase = "aborting"
  /\ AllEnded
  /\ ForgetTasks
  /\ phase' = "idle"
  /\ final' = FALSE
  /\ UNCHANGED <<diskVars, userVars, ever>>

\* Every task was joined: status.toml names the sources that failed, and the
\* archive is retained once more.
Report ==
  /\ phase = "fetching"
  /\ AllEnded
  /\ \A s \in Source : pc[s] # "panicked"
  /\ failing' = {s \in Subscribed : pc[s] = "failed"}
  /\ ForgetTasks
  /\ phase' = "planning"
  /\ final' = TRUE
  /\ UNCHANGED <<items, bookVars, receipt, userVars, ever>>

\* The process dies, or an error outside the tasks ends the run, at any point;
\* the worktree keeps what was written.
Crash ==
  /\ "crash" \in Events
  /\ phase # "idle"
  /\ ForgetTasks
  /\ phase' = "idle"
  /\ final' = FALSE
  /\ UNCHANGED <<diskVars, userVars, ever>>

-----------------------------------------------------------------------------
(* Between runs: the archive edited by hand, the configuration changed.    *)

DeleteItem(s, a) ==
  /\ "delete" \in Events
  /\ phase = "idle"
  /\ a \in items[s]
  /\ items' = [items EXCEPT ![s] = @ \ {a}]
  /\ deleted' = [deleted EXCEPT ![s] = @ \cup {a}]
  /\ UNCHANGED <<bookVars, receipt, failing, config, linkVars, stageVars,
                 taskVars>>

Configure(s, p) ==
  /\ "configure" \in Events
  /\ phase = "idle"
  /\ p # config[s]
  /\ config' = [config EXCEPT ![s] = p]
  /\ UNCHANGED <<diskVars, deleted, linkVars, stageVars, taskVars>>

-----------------------------------------------------------------------------

Stage == \/ \E s \in Source : \/ RecordEvictions(s) \/ RemoveUnconfigured(s)
                             \/ \E a \in Article : RemoveItem(s, a)
         \/ PlanRetention \/ EvictionsRecorded \/ ItemsRemoved \/ Retained \/ IndexArchive
         \/ JoinPanicked \/ FinishAbort \/ Report

Fetching(s) == Acquire(s) \/ FetchUnchanged(s) \/ FetchChanged(s)

Reserving(s) == \/ RegisterWaiter(s) \/ ReserveLinks(s) \/ AwaitRelease(s)
                \/ Wake(s)

Storing(s) == \/ \E a \in Article : TrackItem(s, a)
              \/ PersistItem(s) \/ AppendSeen(s) \/ ClearEvictions(s)
              \/ WriteState(s) \/ CommitReceipt(s) \/ CommitLinks(s)
              \/ Release(s)

\* Steps a task takes by itself, and a cancellation tokio carries out.
Task(s) == Fetching(s) \/ Reserving(s) \/ Storing(s) \/ Abort(s)

Trouble == Crash \/ \E s \in Source : Fail(s) \/ Panic(s)

Edit == \E s \in Source : \/ \E a \in Article : DeleteItem(s, a)
                          \/ \E p \in Policy \cup {None} : Configure(s, p)

Next == BeginRun \/ Stage \/ (\E s \in Source : Task(s)) \/ Trouble \/ Edit

Spec == Init /\ [][Next]_vars

\* The stages are sequential code and the runtime polls every task that can
\* run.  Nothing makes a run start, an edit happen or a source fail.
Fairness == WF_vars(Stage) /\ \A s \in Source : WF_vars(Task(s))

FairSpec == Spec /\ Fairness

-----------------------------------------------------------------------------

TypeOK ==
  /\ items \in [Source -> SUBSET Article]
  /\ seen \in [Source -> SUBSET Article]
  /\ evicted \in [Source -> [Article -> Policy \cup {None}]]
  /\ validated \in [Source -> BOOLEAN]
  /\ receipt \in [Source -> Policy \cup {None}]
  /\ failing \subseteq Source
  /\ config \in [Source -> Policy \cup {None}]
  /\ deleted \in [Source -> SUBSET Article]
  /\ ever \subseteq Article
  /\ phase \in Phases
  /\ final \in BOOLEAN
  /\ drop \in [Source -> SUBSET Article]
  /\ committed \subseteq Article
  /\ reserved \subseteq Article
  /\ waiters \subseteq Source
  /\ pc \in [Source -> Unreserved \cup Writing \cup Closing \cup Ended]
  /\ todo \in [Source -> SUBSET Article]
  /\ held \in [Source -> SUBSET Article]
  /\ written \in [Source -> SUBSET Article]
  /\ stored \in [Source -> SUBSET Article]
  /\ logged \in [Source -> SUBSET {"seen", "evictions", "state"}]
  /\ writing \in [Source -> Article \cup {None}]
  /\ before \in [Source -> Snapshot]

-----------------------------------------------------------------------------
(* Safety *)

\* One article is archived under one source only, however the feeds that list
\* it interleave, fail, panic or crash (fetch/links.rs, module comment).
StoredOnce ==
  \A s, t \in Source : s # t => items[s] \cap items[t] \cap Linked = {}

\* Why: the links a source has on disk, or on their way there, are archived or
\* reserved for it, and nobody else writes them.  The inductive invariant.
Footprint(s) == (items[s] \cup {writing[s]}) \cap Linked
Exclusive == \A s, t \in Source : s # t =>
  /\ Footprint(s) \cap Footprint(t) = {}
  /\ held[s] \cap held[t] = {}
Reservations == \A s \in Source :
  /\ held[s] \subseteq reserved
  /\ pc[s] \in Ended \cup Unreserved => held[s] = {}
  /\ pc[s] \in Writing \cup {"committing"} => held[s] \cap committed = {}
  /\ pc[s] = "releasing" => held[s] \subseteq committed
  /\ pc[s] = "storing" => todo[s] \cap Linked \subseteq held[s]
Backed == phase = "fetching" => \A s \in Source :
  /\ Footprint(s) \subseteq committed \cup held[s]
  /\ Footprint(s) \ written[s] \subseteq committed
  /\ before[s].items \cap Linked \subseteq committed
  /\ pc[s] \in {"unwinding", "panicking"} => Footprint(s) \subseteq committed
Snapshots == \A s \in Source :
  /\ before[s].items \subseteq items[s]
  /\ writing[s] # None => writing[s] \in written[s]
Quiet == phase \notin {"fetching", "aborting"} => \A s \in Source :
  /\ pc[s] = "off" /\ held[s] = {} /\ written[s] = {}
  /\ writing[s] = None /\ before[s] = Empty
Ownership == Exclusive /\ Reservations /\ Backed /\ Snapshots /\ Quiet

Current(s) == [items |-> items[s], seen |-> seen[s], evicted |-> evicted[s],
               validated |-> validated[s]]

\* A source that fails midway leaves the archive exactly as it found it
\* (fetch/transaction.rs, module comment): rollback undoes every write.
FailedLeavesNoTrace ==
  \A s \in Source : pc[s] \in {"failed", "panicked"} => Current(s) = before[s]

\* A source that commits has lost nothing: what its feed lists was suppressed
\* by its own keys already, and not up for readmission, or is archived now,
\* here or by the source that made it a duplicate.
NothingLost ==
  \A s \in Source : (pc[s] = "releasing" /\ phase = "fetching") =>
    \A a \in Feed[s] \ Archived :
      /\ a \in before[s].seen
      /\ before[s].evicted[a] \in {None, config[s]}

\* Once state.toml holds the validators of a feed the server may answer
\* "unchanged" for ever: every entry must have reached the keys of the source,
\* or the archive, whatever failed or crashed before.
ValidatorsCoverFeed ==
  \A s \in Source : validated[s] => Feed[s] \subseteq seen[s] \cup ever

\* A key suppresses an article for a reason: it is archived, it was deleted by
\* hand, or a policy evicted it and the record is there to reconsider it.  No
\* unsubscription, readmission or failure leaves a key that hides an article.
SuppressionExplained ==
  phase = "idle" =>
    \A s \in Subscribed : \A a \in seen[s] :
      a \in items[s] \cup deleted[s] \/ evicted[s][a] # None

-----------------------------------------------------------------------------
(* What a step may never do *)

Added(s) == items'[s] \ items[s]

\* An item the current policy evicted is not downloaded again under it.
NoChurn ==
  [][\A s \in Source : \A a \in Added(s) \cap seen[s] :
       evicted[s][a] # config[s]]_vars

\* "Deleted stays deleted" (docs/git-model.md:78): the keys of a source keep
\* what was deleted by hand from returning to it.
DeletedStaysDeleted ==
  [][\A s \in Source : Added(s) \cap deleted[s] = {}]_vars

\* The same page about the archive as a whole (docs/git-model.md:246): "Delete:
\* remove the .md and .html. The dedupe keys keep it from returning."
DeletedNeverReturns ==
  [][\A s, t \in Source : Added(s) \cap deleted[t] = {}]_vars

-----------------------------------------------------------------------------
(* Liveness, and what the stage implements *)

\* Every run ends: no source waits for ever for a permit, for the links of
\* another, or for a wakeup that was sent before it slept.
RunEnds == phase # "idle" ~> phase = "idle"

\* What a reader of the archive may rely on: a source's items and keys appear
\* together, when its transaction and its links commit.
Open(s) == pc[s] \in Writing \cup {"committing"}
Ledger == INSTANCE ArticleLedger WITH
  archive <- [s \in Source |-> IF Open(s) THEN before[s].items ELSE items[s]],
  keys <- [s \in Source |-> IF Open(s) THEN before[s].seen ELSE seen[s]]
ImplementsLedger == Ledger!Spec
=============================================================================
