# aggr, specified

TLA+ modules, TLC configurations and TLAPS proofs kept beside the source of
`aggr`, a feed aggregator that archives articles on a Git branch and renders
them as a static site. Paths are relative to the repository, with the prefix
`src/` of this checkout: `src/src` is the Rust program, `src/web/src` the
browser application, `src/docs` the documentation.

    tlasany M.tla                          parse a module
    tlc -config FetchFaults.cfg MCFetchRun check a run
    tlapm FetchRunProofs.tla               check the proofs

## The system

| component | state it keeps | operations | what is hard |
| --- | --- | --- | --- |
| Fetch stage, `commands/fetch.rs`, `fetch/{plan,index,duration}.rs` | one task per source; permits; parser receipts in the cache | enumerate a feed, select, reserve, store, record, report | tasks interleave at awaits, fail at any of them, panic and are cancelled; crashes |
| Link reservations, `fetch/links.rs` | committed and reserved links, the waiters of a `Notify` | `reserve`, `duplicate`, `commit`, release on drop | wakeups, deadlock, what a failed source leaves reserved |
| Source transaction, `fetch/transaction.rs` | snapshots of the files a source writes | `track_*`, `commit`, `rollback` | rollback must be exact; detached writes |
| Store, `store/mod.rs` | items, `seen.txt`, `state.toml`, `evicted.json`, `status.toml` in the data worktree | write, append, remove | files change one at a time |
| Retention, `store/{retention,evictions}.rs` | eviction records, per source | plan, record, readmit, clear | evictions against keys against hand deletions |
| Git data branch, `git.rs` | a branch, its remote and `refs/aggr/last-good` | `ensure_worktree`, `commit`, `push`, `update_ref` | races of machines, lost answers, rebases, shallow clones |
| Sync, `commands/sync.rs` | none of its own | fetch, commit, push, point | dies between any two steps |
| Run locks, `commands/{lock,clean}.rs` | `aggr.lock`, `dev.lock`, the record of each holder (a body and a sidecar file) | `open`, `inspect`, drop, `clean` | the record is written after the lock is taken and cleared before it is let go; a killed holder leaves it |
| Dev server, `commands/{dev,server}.rs`, `site/dev.rs` | snapshot shown, promoted and staged builds, watched paths | load, sync, fingerprint, render, swap, watch | saves during a round, a crash between two renames |
| HTTP client, `http.rs` | origins known to need HTTP/1.1, another identity or another transport | redirects, retries, one total timeout | what one request learns while another runs; retries restart the chain |
| Caches, `cache.rs`, `cache/limits.rs` | the retained rendering and its manifest; cached documents and media | restore, store, limits | interrupted copies and renames |
| Site build, `site/*`, `commands/build.rs` | the output directory | render, promote | what a failed or killed build leaves |
| Configuration, `config.rs`, `config/*` | none | parse, expand nested collections | cycles, redirects, depth and size limits |
| Service worker, `web/src/sw` | Cache Storage, the configured count, tasks and queues in memory | configure, download articles and index, activate, answer status | superseded downloads resume after every await; the worker is killed |
| Web updates, `web/src/updates` | the version last announced, a poll and a swap in flight | poll, notice, swap | versions that arrive during a swap, answers out of order |
| Navigation, `web/src/navigation` | the page on screen, history, page cache, requests on their way | follow, Back, Forward, stay | answers that land after the reader moved on |
| Search field, `web/src/search` | text, page of results, catalogue, queries on their way | type, submit, turn, arrive, leave | who waits for the catalogue when it is taken away |
| Player, `web/src/media` | the recording in play, its element kept outside the page, a place for each recording | play, pause, promote, retire, resume, dismiss | media events arrive late; cards go and come back around an element that plays on |
| Preferences and views, `web/src/{ui,article}` | stored settings | choose, show | |
| Repairs, discussions, sources, content, media, other commands | files | rewrite, parse, extract, render | mostly functions of their input |

`sync` calls the fetch stage on the worktree that `git.rs` brought up to date,
then commits and pushes what it left. The tasks of the fetch stage share the
link reservations and write to disjoint directories, each through its own
transaction. `sync`, `build`, `clean` and `dev` exclude each other by two locks.
A build restores the retained rendering or renders anew, and the dev server does
the same in a loop around its file watcher. The browser learns of a new build
from `updates.json`, fetches the list on screen again while the reader navigates
and searches, and the service worker keeps chosen articles and the search index
offline; pages and worker talk by messages.

What makes the modelled parts correct:

- an article is archived once, whichever sources list it; a source that fails
  changes nothing; nothing a feed listed is lost behind stored validators; a key
  hides an article only for a reason; a run ends;
- a run is the same commit, after the same history, on every machine; its work is
  kept and reaches published history once; `last-good` advances along published
  history;
- a command turned away by a lock is told the truth about who holds it, and
  nobody removes a directory another command works in;
- a build that reports success leaves the whole site, one that fails leaves the
  site published before, and the dev server, once quiet, shows what was saved;
- a request ends, keeps the caller's headers at home, and succeeds whichever
  request learned first how its origin wants to be asked;
- nested collections are expanded once each; work spread over threads gives what
  one thread gives;
- an offline index is active only when complete and survives until it is
  replaced; offline articles are never lost to a failed download nor vouched for
  by a newer revision; the reader's count reaches the worker;
- the page shown is the one the address names; a list on screen never goes back
  and catches up with the deployed build; a query is answered, by rows that are
  its own;
- one recording sounds at a time, the bar shows it, it plays on across pages, and
  the place it reached is kept.

## Modules

| module | models | notes |
| --- | --- | --- |
| `FetchRun` | fetch stage, reservations, transactions, retention | the detailed specification |
| `ArticleLedger` | what the stage promises: items and keys appear together, once | abstract; `FetchRun` implements it |
| `MCFetchRun` | feeds for TLC | |
| `FetchRunProofs` | theorems about `FetchRun`: types, ownership of links | for every value of the constants |
| `FetchTransactionProofs` | and about the transaction of one source | extends `FetchRunProofs` |
| `FetchArchiveProofs` | and about the archive between runs, with the refinement of `ArticleLedger` | extends `FetchTransactionProofs` |
| `DataBranch` | `sync` of several machines over Git | commits opaque |
| `MCDataBranch` | two machines for TLC | |
| `DataBranchProofs` | theorems about `DataBranch` | for every value of the constants |
| `Workspace` | the two locks, their records, `clean`, the commands beside each other | a command is a list of file operations |
| `WorkspaceProofs` | theorems about `Workspace` | for any processes and any commands started together |
| `BuildOutput` | the output directory and the retained rendering | |
| `DevServer` | the dev server's rounds and watcher | |
| `HttpRequest` | GETs of one client and what they share | |
| `ImportGraph` | expansion of nested collections | with a reference definition, `Reachable` |
| `ParallelMap` | ordered work on scoped threads | |
| `ParallelMapProofs` | theorems about `ParallelMap` | for any inputs and workers |
| `MCBackend` | the six modules above for TLC | |
| `BackendProofs` | theorems about `MCBackend`: one of its parts each | instantiates `WorkspaceProofs` and `ParallelMapProofs` |
| `OfflineSearch` | the offline index in the service worker | |
| `OfflineArticles` | the offline articles in the service worker | |
| `ServiceWorker` | activation and configuration of the worker, and the page's side of it | |
| `Navigation` | following links in place | part of `LiveFeed` |
| `LiveFeed` | polls and list swaps, with the navigation around them | extends `Navigation` |
| `SearchBox` | the search field over its session | |
| `Player` | the recording that plays on across pages | |
| `MCReader` | the six parts of the browser side for TLC | |
| `ReaderProofs` | theorems about `MCReader`: every part of the browser side | |

### FetchRun

One action is the code between two points where another task, or a crash, can
be seen to intervene. The variables in the first group are files and survive a
crash; `phase`, the link state and the tasks are memory.

| action | code |
| --- | --- |
| `BeginRun`, `PlanRetention`, `RecordEvictions`, `EvictionsRecorded`, `RemoveItem`, `ItemsRemoved`, `RemoveUnconfigured`, `Retained` | `apply_retention`, before indexing and once more at the end of the run; one `evicted.json` after the other, then removals file by file |
| `IndexArchive` | `index_archive`, and the spawning of one task per source |
| `Acquire` | the semaphore permit; the transaction opens |
| `FetchUnchanged`, `FetchChanged` | the download; validators are only sent when the parser receipt matches the policy; selection of candidates against keys, evictions and archived links |
| `RegisterWaiter`, `ReserveLinks`, `AwaitRelease`, `Wake` | the loop of `LinkTransaction::reserve` |
| `TrackItem`, `PersistItem` | `track_item`, then `persist_item`, whose write is a detached blocking job |
| `AppendSeen`, `ClearEvictions`, `WriteState`, `CommitReceipt` | the bookkeeping at the end of `fetch_one_inner` |
| `CommitLinks`, `Release` | `transaction.commit`, `links.commit` and the drop of the reservation |
| `Fail`, `Panic` with `Unwind` and `RollBack` | an error or panic at any await, rollback, then `Release` |
| `JoinPanicked`, `Abort`, `FinishAbort` | `join_next()` returns the panic: the `JoinSet` is dropped, tasks stop at their next await, the run returns its error |
| `Report` | `Status::apply`, then retention again |
| `Crash` | the process dies, or an error outside the tasks ends the run |
| `DeleteItem`, `Configure` | between runs: a reader deletes an item, edits the configuration |

Abstractions. An article stands for all its dedupe keys and its one normalized
link, or none (`Linked`); the keys' derivation is not modelled. An article
without a link that a crash left on disk without keys may be stored a second
time under a suffixed file name, which a set does not show. Which items a limit
selects is any subset of `Retirable`. `WriteState` also covers a changed title
and the dev server's policy of always keeping validators. A write whose task was
cancelled lands before the run returns or never. A rollback that fails itself,
`--dry-run`, `--refresh`, `--reprocess`, `--backfill-media` and the repairs of
archived items are not modelled. `deleted` and `ever` are history variables.

### DataBranch

A commit is the run whose files it adds and what it writes to `status.toml`; its
hash stands for the history before it, so a branch is a sequence and "is an
ancestor of" is "is a prefix of". `EnsureWorktree` to `SyncFails` follow
`Repo::ensure_worktree`, `Worktree::commit` and `Worktree::push`; `PointLastGood`
to `StorePointer` follow `Worktree::update_ref`. `Stop` is a crash at any point,
`PushUnconfirmed` a push whose answer was lost, the second disjunct of
`EnsureWorktree` and `SyncFails` a conflict or an error of git. One machine runs
one `sync` at a time: `aggr.lock` is external to this module. A worktree is there or
not, and on the branch or detached (`Worktrees`). A rebase that is killed midway
(`LeaveMidway`, `StopMidRebase`) leaves HEAD on a part of the replayed commits and the
branch as it was, and runs are refused there (`Refused`) until somebody has git abort the
rebase (`ResolveManually`). A branch without commits cannot be replayed nor pushed
(`Enter`, `Pushable`). Resolving by `git rebase --continue`, moving the directory away, an
autostash that conflicts and shallow clones are left out.

### The command line around the archive

| module | actions | code |
| --- | --- | --- |
| `Workspace` | `TryLock`, `Ask` | `lock::open`: `try_lock`, then, turned away, the sidecar and the body of the record |
| | `WriteRecord`, `RecordFails`, `ClearRecord`, `Unlock` | the record after the lock is taken; `Guard::drop`: forget, blank, unlock |
| | `MakePlan`, `RemovePlanned` | `clean::Plan::new` and `execute`, under `aggr.lock`, or under `dev.lock` alone for `dev --clean` |
| | `Run`, `Kill` | the work of a command in its directory; the process dies and the system releases its locks |
| `BuildOutput` | `Start`, `Restore`, `Clear`, `Copy` | `build::run`, `restore_render`: is the retained rendering this key's, is the output already; else wipe and copy, part by part in directory order |
| | `Render`, `SetAside`, `Store`, `Promote`, `PutBack` | `store_render` and `output_dir::promote`: two renames and what undoes the first |
| | `StepFails`, `Kill` | an error at any of them; the process dies |
| `DevServer` | `PrepareWatch`, `Load`, `CreateWatcher`, `Sync`, `Fingerprint`, `Swap`, `EndRefresh`, `Fails` | one round of the background task (`run_with_reload`, `refresh`, `render_snapshot`) |
| | `Save`, `Notice`, `Settle` | an editor saves; the watcher hears it and waits 150 ms |
| | `Restart` | the server is started again and may show the promoted build first |
| `HttpRequest` | `Ask` | `send`: one request, in the way the origin is known to want it |
| | `OverHttp1`, `Identified`, `Emulated`, `Redirected`, `Succeeds` | what `send` does with an answer, up to the next request |
| | `GiveUp`, `Fault` | a retry of the whole chain; a fault or the total timeout |
| `ImportGraph` | `Visit`, `Skip`, `Repeated`, `TooDeep`, `ReadFails`, `Exhausted`, `Return` | `expand_sources`, depth first |
| `ParallelMap` | `Claim`, `Transform`, `Store` | the loop of a worker in `map_with_workers` |

`Workspace` runs lists of steps (`Program`) so that a command killed between any
two file operations is one action. The record is two files because the code
writes two. What a command does in its directory is one step, `work`; `TreeKept`
says the directory is there.

`BuildOutput` has one directory for every name the renames use (`out`, `aside`,
`current`, `previous`); a tree has three parts, the marker, the key and the
pages, since those are what the code looks for. A build killed while it wipes or
copies before the marker is there leaves a directory the next build refuses to
replace (outcome `refused`): the code prefers that to deleting what it does not
own. Two failed renames in one promotion are left out, and so are the other
cached files, each written whole.

`DevServer` numbers what an editor saved: the file named on the command line and, from
the version `Importing` on, a file it names in a directory of its own (`Elsewhere`). The
watcher covers that directory only after a load found it (`CreateWatcher`), so a save
there between the two is heard by nobody (`missed`). A rendering is the version whose
settings it has and the saves its key hashed, those of the files that were loaded. The
two differ when a save comes between (`Overtaken`), and a release may keep on the disk a
build that was never shown (`Unswapped`); `ServedIsSavedUnlessOvertaken` excepts the
three. A round may render again after its discussions were refreshed (`EndRefresh`).
Theme edits are left out: a rendering reads the theme from the disk each time.

`HttpRequest` treats an HTTP/2 stream error as transient (`is_transient`), a
deadline as a fault at any time, and one transport, identity or header set per
request. An origin may do several things to a request (`Manner` is a set): it breaks
the stream first, and blocks an identity before it challenges. The opposite order, on
which the code gives up, is left out, and so are the bounds of 256 origins on what is
remembered. Two origins that both challenge on one chain of redirects are never
reached, since each get emulates once. `Recovered` speaks of the trail of redirects
that leads from the first origin to an answer: a get without a fault succeeds when
the trail is within `MaxRedirects`, has no more origins that break HTTP/2 than
there are retries, and at most one that challenges.

`ImportGraph` leaves out what a collection names besides collections. Any document may
name any other, the configuration file included. A document is a location, as it is
to `Location::key`: spellings of one location are one document; two locations that
serve the same text, say a file on GitHub and a copy of it elsewhere, are two, to the
code as well. What a configuration should reach (`Reachable`) is the smallest set with
the root that is closed under what its documents may name; the expansion is checked
against it. At the depth limit the depth-first marking makes it depend on the order of
names which documents are reached (`cut`).

### The browser side

| module | actions | code |
| --- | --- | --- |
| `OfflineSearch` | `Configure`, `StartTask`, `ReadManifest`, `CheckManifest` | `configureOfflineSearch`, `restoreSearch`, the start of `downloadSearch` |
| | `PruneBefore`, `FetchListing`, `TakeFile`, `AtHand`, `SaveFile`, `FilesDone`, `VerifyIndex`, `CommitIndex`, `TrimIndex` | `downloadSearch`, two files at a time, verified before stored, committed at the end |
| | `GiveUp`, `DropBlocked`, `ClearIndexes`, `ForgetManifest` | its failures; disabling |
| | `ReadStatus`, `RestoreStatus` | a status reader restores the active index beside the task |
| | `Restart`, `Evict` | the worker is killed and started again; the browser reclaims storage |
| `OfflineArticles` | `Request`, `StartRun`, `LoadCatalog` | `configureOfflineArticles`: one run at a time, the newest request next |
| | `TakeArticle`, `CheckResource`, `StoreBody`, `RecordRevision`, `FinishArticle`, `SlotsDone` | `saveOfflineArticles`: slots, bodies before revisions |
| | `StoreList`, `BeginPrune`, `PruneEntry`, `PruneDone`, `Finish` | the list, then what is outside it goes |
| | `Deploy`, `Kill` | a new build; the worker is killed |
| `ServiceWorker` | `Prefer`, `Announced`, `Reload` | `client.svelte.ts`: the preference and the message that carries it |
| | `BeginActivation`, `Claim`, `ReadCount`, `ApplyCount`, `HandleMessage` | `worker.ts`: activation, and messages handled during it |
| | `ConfigureOffline`, `StoreCount`, `TaskDone`, `Kill` | `configureOffline` and its settings queue |
| `Navigation` | `Follow`, `Traverse`, `Arrive`, `FetchFails`, `Stay`, `Prefetch`, `Assign` | `go`, `install`, `cancel`, `prefetch`, `fallback` |
| `LiveFeed` | `Check`, `PollAnswers`, `PollFails`, `News` | `Poller.check` and `onBuild` |
| | `Notice`, `Attempt`, `ScrollTop`, `ScrollAway`, `ComeBack`, `SwapAnswers`, `SwapFails` | `FeedUpdater` |
| | `FollowLink`, `GoBack`, `PageAnswers`, `PageFails`, `Restart` | navigation with the updater stopped and started around it |
| `SearchBox` | `Type`, `Blur`, `Fire`, `Submit`, `Turn`, `Focus`, `Arrive`, `Leave`, `Reload` | the driver of `controller.ts` and the field of `Toolbar.svelte` |
| | `Run`, `LoadCatalogue`, `FetchAnswers`, `FetchFails`, `OrphanEnds`, `QueryAnswers`, `QueryFails` | `run`, `loadCatalogue`, the session in `engine.ts` |
| | `Deploy`, `Announced`, `IndexSaved`, `Network`, `Refresh` | what takes the catalogue away |
| `Player` | `Press`, `PressBar`, `PressNative`, `PauseNative`, `Dismiss` | the button of a card, the bar and media keys, the element's own controls, the close button or leaving the site |
| | `Loads`, `Plays`, `Advances`, `Ends`, `Breaks`, `Hear` | what an element does, and the slot hearing of it: `createPlayback`, `accept`, `promote`, `retire`, `restore` |
| | `Leave`, `Mount`, `MountStarted` | the page's abort signal; `connect`, `connectVisual` and `claimVisual` when the media chunk arrives |

A step is the effect of one awaited call and the synchronous code up to the next
await: JavaScript runs that without interruption. A generation counter is only
ever compared with the latest, so whatever waits carries one bit, whether it
still is.

`OfflineSearch`: a status reader that began under one configuration may set the
active index back under the same one, and a commit that was superseded says
`ready` until the task that disables it runs; both are in the model, and
`ActiveComplete` is stated beside them (`Disabling`, `Dropped`). A kill between
the two deletions of disabling leaves a manifest without an index (`lost`).
`OfflineArticles`: writing the list fails silently; a run that goes on to prune
then keeps what it could not list no longer (`list # kept`, excepted from
`RunKeepsComplete`). The copies of visited pages are left out. `ServiceWorker` has
one page; the installation of the shell and the routing of requests are left out.
`Navigation`: two requests for one page share a fetch (`OnItsWay`), and a go that finds a
prefetch on its way takes it over (`Awaited`); a prefetch lands in memory alone. After
`location.assign` (`Assign`) the history is the new document's entry: Back to the entries
of earlier documents, and what the browser kept of them, is left out. Scrolling,
tabs, fragments and the bound of the page cache are left out. Cancelling a Back
leaves the page that was left on screen under the other entry's address
(`stayed`). `LiveFeed` leaves out badges. `SearchBox` leaves out suggestions and
counts, the address, the scope of a list, the rewriting of a query, the clamping
of a page and the time before the module is loaded. A composition that ends outside the
field leaves its text waiting for the next gesture (`lapse = "abandoned"`, excepted by
`SearchAnswered`); rows of an older index may stay after a revalidation failed
(`lapse = "kept"`). `Player` has a place in three values (`Start`, `Underway`, `End`)
and one card for a recording; the frames of providers, buffering, seeking, volume,
speed, the media session and the seat a picture glides in are left out. Two ways
the place of a recording is lost are in the model and excepted by `PlaceKept`: a
recording retired while its card stays on screen has lost its source, so the
card's button stops what plays, brings back a dead element and starts nothing
(`now-playing.ts:1106`), and the next retirement saves the start; and a pause
before the length is known, archived or loaded, saves the start because
`tryResume` has not run yet.

## Runs

| run | instance | checks |
| --- | --- | --- |
| `fetch_faults` | 2 sources, the same 2 linked articles in both feeds, 2 permits, errors, panics, crashes; 368 thousand states | `TypeOK`, `StoredOnce`, `Ownership`, `NothingLost`, `ValidatorsCoverFeed`, `RunEnds` |
| `fetch_retention` | 2 sources, one article shared, one without a link, 2 policies, 1 permit, errors, deletions, reconfiguration; 1.8 million states | `FailedLeavesNoTrace`, `SuppressionExplained`, `NoChurn`, `DeletedStaysDeleted`, `ImplementsLedger` |
| `data_branch` | 2 machines, 2 push attempts, 3 runs between them; 78 thousand states | `TypeOK`, `CommittedOnce`, `PointerPublished`, `OneHistory`, `NothingDropped`, `PointerAdvances` |
| `reader` | the six parts of the browser side; 224 thousand states | `TypesOK`, `ActiveComplete`, `OfflineTruthful`, `PreferenceReachedAfterActivation`, `ShownIsCurrentUnlessStayed`, `SearchAnswered`, `PlayerTruthful`, `OfflineStays`, `Settles`, `NeverGoesBack`, `CatchesUp`, `PlaybackKept` |
| `backend` | the six parts of the command line; 538 thousand states | `TypesOK`, `NamedHeld`, `TreeKept`, `RestoredWholeUnlessTorn`, `OutputStays`, `ServedIsSavedUnlessOvertaken`, `HeadersStayHome`, `Recovered`, `GetsEnd`, `ExpandsReachable`, `SameAsSequential` |
| `fetch_delete_overlap` | 2 sources, 1 article, deletions, no faults | refutes `DeletedNeverReturns` |
| `fetch_resubscribe_crash` | 1 source, reconfiguration, crashes | refutes `SuppressionExplained` in the presence of crashes |
| `last_good` | as `data_branch` | refutes `LastGoodHealthy` |
| `preference_overridden` | `ServiceWorker` | refutes `PreferenceReached` |
| `restored_partial` | `BuildOutput` | refutes `RestoredWhole` |
| `dev_config_lost` | `DevServer` | refutes `ServedIsSaved` |
| `search_overtaken` | `SearchBox` | refutes `QueryAnswered` |

Bounds. `FetchRun` needs none: a behaviour has any number of runs, crashes and
edits, and the state space is finite because items and keys are sets. Two
sources that want the same two links give every conflict between reservations,
including a partial overlap with what is already archived; one permit for two
sources makes the second start where the first ended, two let them interleave.
Two policies suffice for evicted, readmitted and evicted again, since only
equality with the recorded policy is ever tested. In `DataBranch`, `MaxRuns` bounds the
number of runs: three let one machine fail, or leave its commits behind, and come
back while the other publishes between its steps. Two attempts, not the three of
`PUSH_ATTEMPTS`: every rejection takes a run of the other machine, and with two the
retry limit itself is reached within the bound (the `TypeOK` mutant is caught there). `DataBranch` turns off the
deadlock check because it ends when `MaxRuns` runs have been made.

Panics are left out of `fetch_retention`. A panic cancels the other sources, and
the write of a cancelled task can land after its transaction rolled back, so a
source may leave a trace in that one case, against the module comment of
`transaction.rs`; the next run finds the leftover and keeps it (`fetch_faults`
includes it). Crashes are left out of it because `SuppressionExplained` and
`DeletedStaysDeleted` fail there: the first is the run `fetch_resubscribe_crash`,
the second the same as its deletion case, a crash after an item is written and
before its keys are. `fetch_faults` keeps its time by having nothing to retire, so a crash between
two sources' `evicted.json` is in no run with two sources; one source with crashes and
retention is `fetch_resubscribe_crash`, and the theorems below cover any number.

`reader` and `backend` put several modules in one run. The parts share no state in
the code either, so interleaving them shows nothing: a behaviour is of one of
them (`part`), and the others stay in an initial state. Each of their properties
names the modules it is about in its comment. Both turn off the deadlock check,
since every part ends at its bounds.

- `OfflineSearch`: two files, one shared by both versions, three configurations
  and two restarts: on, off and on again with a kill between, or a new version
  during a download. `OfflineArticles`: two builds, counts up to two, two slots,
  three requests, one kill: a request supersedes one that superseded another.
  `ServiceWorker`: two changes, two workers, one kill.
- `LiveFeed`: a list and an article page, two moves and prefetches before the second
  (`token < MaxMoves`), two builds of which one may be
  another release, which the page then has to load. `SearchBox`: a complete and a
  partial query, two result pages, two indexes, three events; four events were
  checked on the module alone (107 thousand states). `Player`: an audio recording
  and a video, one change of page, three gestures, one media error: played, left,
  brought back and played again; two changes of page, and a second audio recording,
  were checked on the module alone.
- `Workspace`: pairs and two trios of commands (`Started`), one kill. `BuildOutput`:
  two keys, four builds, two faults: a fault, a build of the other key, and the
  first again. `DevServer`: four versions, of which one does not load, the third names a
  second file and the fourth is saved there, one fault, one restart. `HttpRequest`: two
  gets over three URLs of two origins, one of any manners and one of at most one, one
  retry, two redirects within an origin or between them (`Routes`): the second get meets
  what the first is learning. `ImportGraph`: four
  documents of three origins, four edges, depth two, one failed read; one document may
  name the configuration file, where nothing redirects (`Naming`). `ParallelMap`:
  five inputs, three workers, any of them failing.

Fairness. `RunEnds` assumes weak fairness of the sequential stages of a run
and of every task. The stages are straight-line code and tokio polls every task
that is woken; a request ends because the client has a total timeout, so the
download is a step. Nothing forces a run to start, an edit to happen or a source
to fail. `RunEnds` fails if a released reservation does not wake its waiters,
which is one of the listed mutants. `Settles` assumes weak fairness of a run of
`OfflineArticles` and of the worker's own steps: an await of Cache Storage or the
network returns or rejects. `CatchesUp` assumes that the poll timer fires, that a
page on its way is answered, and strong fairness of a poll and of a swap that is
answered and of the reader coming back to the top of the list: each may be aborted
or put off again and again by navigation, but not for ever. `GetsEnd` assumes that each get
is asked and answered. Deploys, kills, requests and the reader's moves are never
forced.

### What the refuted statements say

- The documentation promises that dedupe keys keep a deleted article from
  returning. Keys belong to a source; one that skipped the article as another's
  duplicate has none, and archives it once it is deleted
  (`fetch_delete_overlap`).
- `remove_unconfigured_sources` clears the keys of a source that left the
  configuration so that it can be fetched again later. It runs after the items
  were removed; a crash between the two and a renewed subscription leave keys
  that hide articles which are gone (`fetch_resubscribe_crash`).
- `last-good` is documented as the last fully healthy snapshot. Whether a run is
  healthy is decided from its own sources; a race can rebase it onto another
  machine's unhealthy commit before the pointer moves (`last_good`).
- "Every change reaches the worker": an activating worker reads the stored count,
  and applies it after a page it has just claimed sent it the reader's newer one,
  in memory and in storage (`preference_overridden`). In every other order it does
  reach (`PreferenceReachedAfterActivation`).
- `restore_render` takes an output directory that carries the key for restored.
  The key and the marker are copied wherever the directory lists them; a
  restoration interrupted after them and before the pages is never finished by
  the next build, which reports success (`restored_partial`).
- The watcher is set up before the first build so that no save is missed. A save
  between loading the configuration and hashing it gives the old settings the new
  key, and the save's own event then finds the build current (`dev_config_lost`).
- "The live query still runs" when a list opens at its address. A query that
  waits for the first catalogue of the document is dropped when the reader focuses
  the field meanwhile, and nothing runs it again (`search_overtaken`).

## Proofs

Everything below is for every value of the constants, from the named
assumptions of the modules alone. A theorem is proved from an inductive
invariant whose preservation has one step per action or group of actions.

`FetchRunProofs`, for any sources, articles, links, feeds, policies, permits and
faults:

- `TypeCorrect`: `Spec => []TypeOK`.
- `OwnershipHolds`: `Spec => []Ownership`.
- `ArchivedOnce`: `Spec => []StoredOnce`.

`StoredOnce` is not inductive: that no other source holds a link says nothing of
a task about to write it. `Ownership` is the strengthening. A source's
*footprint* is what it has on disk or in a write on its way; footprints of two
sources are disjoint (`Exclusive`), reservations are disjoint and recorded in the
shared set for exactly as long as a task may write (`Reservations`), during
the tasks every footprint is archived or held, and what a rollback will not
remove is archived (`Backed`), rollback restores nothing that was not there
(`Snapshots`), and between the tasks nothing is held or on its way (`Quiet`).
The proof has a lemma per action or group of actions (`MoveOwned`,
`FetchingOwned`, `WritingOwned`, `ItemOwned`, `LandingOwned`, `CommitOwned`,
`ReleaseOwned`, `UnwindOwned`, `TroubleOwned`, `ForgetOwned`, `StageOwned`), and
`OwnershipStep` combines them. `Ownership` is also checked by TLC in
`fetch_faults`.

`DataBranchProofs`, for any number of machines, runs and push attempts:

- `TypeCorrect`: `Spec => []TypeOK`, which holds the limit of attempts.
- `HistoriesAgree`: `Spec => []OneHistory`.
- `PointersStayPublished`: `Spec => []PointerPublished`.
- `PointersAdvance`: `Spec => PointerAdvances`.
- `RunsCommittedOnce`: `Spec => []CommittedOnce`.
- `WorkNeverDropped`: `Spec => NothingDropped`.

The inductive invariant `Inv` has four parts. `Typed` adds to the types that the
limit of attempts is tested before one is counted, and that HEAD stands for the branch
in every worktree a run works in (`Attached`). A run compares pointers, moves the remote's, and stores its own, each in another
step, while other machines push. `Pointers` says what stays true meanwhile: what a
clone last fetched is a prefix of the remote, and from its push to the end of its
run its branch and the pointer it is about to store are published and ahead of
what it has. `CommittedOnce` needs to know where two branches may share a run:
`Lineage` says that they then share the history before it, and that two clones share
nothing unpublished, so what a clone adds after the place where it parted from the
remote is nobody else's and a rebase cannot replay it on top of itself
(`OwnCommits`, `LineageRebase`). `Work` says that what waits in a worktree, or is being
fetched into it, is on no branch and in no other worktree. That a rebased branch starts with the one it was replayed onto, keeps
the rest in order, and is the old branch when there is nothing to replay
(`RebasedFollows`, `RebasedAdds`) rests on what a longest common prefix is
(`LongestCommonPrefixes`), by the least-number principle.

`ParallelMapProofs`, for any number of inputs and workers and any failures:

- `ReportsFirstFailure`: `Spec => []SameAsSequential`, what the caller gets is the
  first failure in input order, or every output.
- `WorkedOnOnce`: no input is held by two workers, or by one after it is done.

That the results found when the workers are joined decide the answer needs to know
which inputs nobody worked on. `HandedOutOnce` says it: an input handed out and
not held has its result, or comes after a failure; `InputOrder` orders what the
workers hold and what the collector joins.

`FetchTransactionProofs`, for the same constants:

- `TransactionHolds`: `Spec => []Transaction`.
- `NothingIsLost`: `Spec => []NothingLost`.
- `FailureUndone`: `Spec => [](phase = "fetching" => FailedLeavesNoTrace)`.
- `FailureLeavesNoTrace`: `Spec => []FailedLeavesNoTrace`, if nothing panics.
- `NotChurned`: `Spec => NoChurn`.

`Transaction` says, for each place of a task in `fetch_one_inner`, how what it has
taken on, stored and written down agrees with its snapshot: nothing is written
before the links are reserved (`Clean`); whatever differs from the snapshot is in the
log of what to restore (`Snapped`); what is picked was not suppressed when the task
began (`Chosen`); every entry of the feed is to be stored, stored, a duplicate or
suppressed (`Accounted`); the files and lists follow the items (`Stores`, `Books`);
and once it has failed all but a detached write is undone (`Undone`). The detached
write is the reason of the hypothesis on panics: an error returns in the task that
wrote, and the rollback waits for the write; a panic drops the other tasks, and
theirs may land when their rollback is over. During the tasks
the statement holds in any case (`FailureUndone`).

`FetchArchiveProofs`, for the same constants:

- `ValidatorsCover`: `Spec => []ValidatorsCoverFeed`, and
- `KeysExplained`: `Spec => []SuppressionExplained`, if there are no crashes or the
  subscriptions stay.
- `DeletionsStay`: `Spec => DeletedStaysDeleted`, and
- `FetchImplementsLedger`: `Spec => ImplementsLedger`, if nothing panics or crashes.

The hypotheses are the ones the code needs. Forgetting a source that left the
configuration takes several steps; killed between them, it leaves keys that hide
articles which are gone (`fetch_resubscribe_crash`), or validators whose keys are gone. An item
is written before its key; killed between them, the item has no key, and once it is
deleted by hand nothing keeps it away. `Explained` and `Covers` say the same of the
snapshots as of the files, since a rollback brings the snapshot back; `Keyed` adds
that outside a transaction every item has its key. The ledger sees the files as they
were at the snapshot until the source commits (`Archive`, `Keys`): only the commit
shows, in one step.

`WorkspaceProofs`, for any set of processes and any commands started together
(`WorkspaceAssumption`):

- `WorkspaceHolds`: `Spec => []WorkspaceInv`, and from it `ConflictsNameHolders`
  (`NamedHeld`) and `WorkedTreesStay` (`TreeKept`).

A process is what is left of its list of steps, so the invariant is about lists.
`Ordered` says that after a record is written it is forgotten and blanked before the
lock is let go, and that a question follows no other lock; `Guarded` says that every
step on a tree comes under the lock of that tree, unless the plan excludes it. Both
hold of every program (`Program`) and of what remains after any step or error, where
`Fail` puts a new list in the place of the rest. `Recorded` then ties a standing
record to its holder or to a killed process, `Told` what a newcomer reads to who held
the lock meanwhile, and `Standing` a tree to whoever works in it.

`BackendProofs`, about the specification that the run `backend` checks, under
`BackendAssumption`:

- `ConflictsNameHolders`, `WorkedTreesStay`, `MapIsSequential`: the properties of
  `Workspace` and `ParallelMap`, carried over from their own modules.
- `WhatIsRestoredIsWhole`, `OutputOutlivesFailure`: what is retained is whole or gone,
  and so is the output outside the steps that take it apart, unless one of them was
  cut short (`OutputInv`).
- `QuietServerIsCurrent`: a build about to be shown, and the one shown while the
  server is quiet, hashed what is on disk, or the watcher has something to report, or
  could not hear of it (`DevInv`).
- `OwnHeadersStayHome`: a get that still has the caller's headers never left its
  origin, and keeps none once it has (`HttpInv`).
- `GetsRecover`: without faults a get is always somewhere on the one trail of its
  first origin, and has lost no more races over HTTP/1.1 than there are origins on
  that trail which the client has learnt about (`TrailInv`). What is counted is what the
  client knows, so that another get may teach it at any moment.
- `ReachableIsExpanded`: what is expanded leads to what is expanded or is still
  to be visited by a document on the stack, unless something was left out
  (`ImportsInv`).
- `TypesHold`: the types of every part.

Every step of the whole is a step of each part or leaves it alone (`PartsMove`,
`CommandsMove`). The commands started together (`Started`) and the origins of the
documents (`home`) are those of `MCBackend`; `WorkspaceProofs` holds for any, and the
proof about `ImportGraph` asks nothing of `home`.

`ReaderProofs`, about the specification that the run `reader` checks, under
`ReaderAssumption`:

- `PreferencesReach`: `PreferenceReachedAfterActivation`. The last message on its
  way to the worker is the reader's last word, and so is what the worker was last
  told, unless it was told while it activated (`WorkerInv`).
- `PageIsCurrent` and `RowsNeverGoBack`: `ShownIsCurrentUnlessStayed` and
  `NeverGoesBack`. Only the latest navigation lands, and what is kept for later was
  asked for after what is not (`Requests`); a request that may still replace the page
  on screen by itself was made on leaving it, so nothing replaced its rows since
  (`Newer`); a prefetch is kept, and one that is not beside another request is alone for a
  page neither on screen nor in memory (`Prefetches`); with nothing on its way the page is at the address (`Placed`). A list
  that is being fetched in place began with the page on screen and is not older than
  what it shows (`SwapInv`). `NeverGoesBack` excepts one landing (`LandsBeside`): a version
  clears the memory and what is on its way is forgotten by it; a prefetch of the same
  page starts beside it; the forgotten request lands with a newer build, and a Forward
  that took the prefetch over puts the older one in its place. That takes three moves,
  one more than the run makes: there the property holds without the exception, and the
  theorem is for any number of moves with it.
- `IndexIsComplete` and the first half of `OfflineStaysStored`: `ActiveComplete` and
  `IndexStays`. A task that was superseded has another queued after it, for what the
  reader wanted last (`SearchTurns`). While no index lost its files, the manifest
  names a complete one, a download is of another version, and what memory or a status
  reader relies on is one of the two that pruning spares, or is empty (`SearchWhole`).
- `OfflineIsTruthful` and the rest of `OfflineStaysStored`: `OfflineTruthful`,
  `RunKeepsComplete`, `NothingOrphaned`. What a slot is done with is stored at the
  catalogue's revision (`ArticleProgress`); what will be pruned is neither selected
  nor listed (`ArticleSelection`); what was complete when the run began is complete
  still or was taken anew (`Lasting`, `ArticleCount`), which needs that the newest
  articles within a count are that many, or all (`NewestCount`).
- `QueriesAreAnswered`: `SearchAnswered`. A run that waits for the catalogue has no
  query yet, and is the latest call of the session unless it was overtaken
  (`BoxCalls`); a query whose answer will be shown is of the text and the page in
  the field and of the index in use, unless a failed check kept an older one
  (`BoxQueries`).
- `OnePlayerSounds` and `PlaybackStays`: `PlayerTruthful` and `PlaybackKept`. The last
  event on its way, or what was heard last when there is none, tells what the element
  does (`Sound`), so that one that sounds outside the bar has the event under way that
  will promote it; what is in play took its place up, and has one to remember
  (`InPlay`). Every control and event ends in `Accept` or `RetiredBut`, which
  the lemmas `AcceptKeeps` and `RetiredKeeps` settle once.
- `TypesHold`: the types of every part, with two downloads of index files, one swap
  of a list and one latest call of a session at a time.

Only model-checked, in these instances: the liveness properties (`RunEnds`,
`Settles`, `CatchesUp`, `GetsEnd`). They follow from fairness, and `ENABLED` is out of
the prover's reach. Every other property of a passing run is proved.

## Plan

Done, in the order of importance: the fetch stage and its ledger, the data branch
and `last-good`, the locks, the output directory and the dev server, the HTTP client,
nested collections, the parallel map, the service worker, navigation, live lists,
the search field and the player.

What would add most from here:

1. `FetchRun` with rollbacks that themselves fail;
2. several dedupe keys per article, so that an eviction record that lacks one of
   them (`store/evictions.rs:91`) can be told from one that has them all;
3. `DataBranch` over the files of `FetchRun` instead of opaque runs, so that two
   machines archive one article under different sources;
4. the capture of discussions, and the frames of video providers.

## Not modelled

- Sources and parsers (`sources/*`, `config.rs` beyond the expansion of
  collections), extraction and cleanup (`content/*`), media (`media.rs`), preview,
  themes, and the rendering of pages (`site/mod.rs`, `site/render.rs`,
  `site/outputs.rs` beyond the directory they end in). They are most of the source
  by lines, and are functions of text or of a document: no state of their own, no
  step another actor can come between. Their tests compare inputs with outputs,
  which says more than a model that abstracts the text. The map therefore covers a
  small share of the lines.
- The presentation in the browser: components, styles, scrolling, tabs, badges,
  suggestions, threads on screen, the address (`routing.ts`). They draw state that
  `LiveFeed` and `SearchBox` do model.
- The installation of the application shell and the routing of its requests in the
  service worker: one handler each, without shared state of ours.
- Cache limits (`cache/limits.rs`) and the limiter of requests per host: what they
  choose depends on sizes and clocks.
- One-shot commands (`init`, `check`, `storage`, `offline`) and repairs of archived
  items: sequential, one file at a time.
- Within the modelled components: what the subsections above name as left out.
