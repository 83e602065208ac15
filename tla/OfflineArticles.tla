--------------------------- MODULE OfflineArticles ---------------------------
(***************************************************************************)
(* The articles kept for offline reading (src/web/src/sw/offline.ts): one  *)
(* run at a time stores the newest `count` articles of the catalogue,      *)
(* lists them and drops the rest; a newer count supersedes it; the browser *)
(* may kill the worker between two awaits.                                 *)
(*                                                                         *)
(* Articles are numbered in the order they were published and every build  *)
(* publishes one more.  An article is its page and an image all of them    *)
(* share.  A page's revision is the build that rendered it, the image is   *)
(* content-addressed and has one; what a fetch returns is the deployed     *)
(* build's, whichever build the catalogue in memory came from.  A list     *)
(* entry is an article and the build whose revisions it names.  Reading    *)
(* the caches never fails, and the copies of visited pages are left out.   *)
(***************************************************************************)
EXTENDS Integers, FiniteSets, FiniteSetsExt

CONSTANTS
  Slots,       \* DOWNLOAD_SLOTS
  MaxCount,    \* bound: the largest count asked for
  MaxBuild,    \* bound: builds deployed
  MaxRequests, \* bound: counts asked for
  MaxKills     \* bound: worker kills

ArticlesAssumption ==
  /\ {MaxCount, MaxRequests, MaxKills} \subseteq Nat
  /\ {Slots, MaxBuild} \subseteq Nat \ {0}

VARIABLES
  live,                 \* the deployed build
  catalog,              \* state.offlineCatalog: the build it came from
  pending, report,      \* state.offlinePendingCount, state.offlineStatus
  queued,               \* the count of the task waiting to run
  stage, count, stale,  \* the running task, its count, whether superseded
  taken, step,          \* articles its slots took, how far each resource is
  complete, failed,     \* articles stored and articles given up
  wanted, kept,         \* resources to keep, the entries to list
  before,               \* listed articles that were complete when it began
  pages, revisions, list,   \* the protected caches and __offline_articles
  requests, kills       \* bounds

runVars == <<stage, count, stale, taken, step, complete, failed, wanted,
             kept, before>>
stateVars == <<catalog, pending, report>>
cacheVars == <<pages, revisions, list>>
boundVars == <<requests, kills>>
articleVars == <<live, stateVars, queued, runVars, cacheVars, boundVars>>

Build == 1..MaxBuild
None == 0
Image == 0
Article == 1..MaxBuild
Resource == {Image} \cup Article     \* an article's page bears its number
Unset == -1
Listed == [article : Article, build : Build]

Revision(build, r) == IF r = Image THEN 1 ELSE build
Resources(articles) == IF articles = {} THEN {} ELSE articles \cup {Image}
Newest(articles, n) ==
  {a \in articles : Cardinality({b \in articles : b > a}) < n}
Selected == IF count = 0 \/ catalog = None THEN {} ELSE Newest(1..catalog, count)

StoredAt(r, revision) == pages[r] # None /\ revisions[r] = revision
Stored(entry) == \A r \in {Image, entry.article} :
                   StoredAt(r, Revision(entry.build, r))
Saved == {entry \in list : Stored(entry)}

NoRun ==
  /\ stage = "idle" /\ count = 0 /\ stale = FALSE
  /\ taken = {} /\ step = [r \in Resource |-> "none"]
  /\ complete = {} /\ failed = {} /\ wanted = {} /\ kept = {}
  /\ before = 0

Init ==
  /\ live = 1 /\ catalog = None
  /\ pending = Unset /\ report = {} /\ queued = Unset
  /\ NoRun
  /\ pages = [r \in Resource |-> None] /\ revisions = [r \in Resource |-> None]
  /\ list = {}
  /\ requests = 0 /\ kills = 0

-----------------------------------------------------------------------------

\* configureOfflineArticles: the same count is shared, another supersedes.
Request(n) ==
  /\ requests < MaxRequests
  /\ n # pending
  /\ requests' = requests + 1
  /\ pending' = n /\ queued' = n
  /\ stale' = (stage # "idle")
  /\ UNCHANGED <<live, catalog, report, stage, count, taken, step, complete,
                 failed, wanted, kept, before, cacheVars, kills>>

\* Mutant: the generation is compared with the number of another counter.
OutOfStep == stale \/ requests > 1
Superseded == stale

Move(to) ==
  /\ stage' = to
  /\ UNCHANGED <<count, stale, taken, step, complete, failed, wanted, kept,
                 before>>

EndRun ==
  /\ stage' = "idle" /\ count' = 0 /\ stale' = FALSE
  /\ taken' = {} /\ step' = [r \in Resource |-> "none"]
  /\ complete' = {} /\ failed' = {} /\ wanted' = {} /\ kept' = {}
  /\ before' = 0

StartRun ==
  /\ stage = "idle" /\ queued # Unset
  /\ stage' = "catalog" /\ count' = queued /\ queued' = Unset
  /\ before' = Cardinality(Saved)
  /\ UNCHANGED <<live, stateVars, stale, taken, step, complete, failed, wanted,
                 kept, cacheVars, boundVars>>

\* The end of a run that was not superseded; one that was says nothing.
Finish(saved) ==
  /\ IF Superseded THEN UNCHANGED <<pending, report>>
                   ELSE pending' = Unset /\ report' = saved
  /\ EndRun

\* The catalogue is read once per worker, and never for a count of zero.
LoadCatalog ==
  /\ stage = "catalog"
  /\ \/ /\ catalog' = IF count = 0 \/ catalog # None THEN catalog ELSE live
        /\ stage' = "saving"
        /\ wanted' = IF count = 0 THEN {}
                     ELSE Resources(Newest(1..catalog', count))
        /\ UNCHANGED <<pending, report, count, stale, taken, step, complete,
                       failed, kept, before>>
     \/ /\ count > 0 /\ catalog = None
        /\ Finish({})
        /\ UNCHANGED catalog
  /\ UNCHANGED <<live, queued, cacheVars, boundVars>>

\* A free slot takes the next article.
TakeArticle(a) ==
  /\ stage = "saving" /\ ~Superseded
  /\ a \in Newest(Selected \ taken, 1)
  /\ Cardinality(taken \ (complete \cup failed)) < Slots
  /\ taken' = taken \cup {a}
  /\ UNCHANGED <<live, stateVars, queued, stage, count, stale, step, complete,
                 failed, wanted, kept, before, cacheVars, boundVars>>

Advance(r, to) ==
  /\ step' = [step EXCEPT ![r] = to]
  /\ UNCHANGED <<live, stateVars, queued, stage, count, stale, taken, complete,
                 failed, wanted, kept, before, boundVars>>

\* "Renditions first, the page last"; a shared image is saved once.
CheckResource(r) ==
  /\ stage = "saving" /\ step[r] = "none"
  /\ \/ r = Image /\ taken # {}
     \/ r \in taken /\ step[Image] = "done"
  /\ Advance(r, IF StoredAt(r, Revision(catalog, r)) THEN "done" ELSE "body")
  /\ UNCHANGED cacheVars

\* The fetch of a superseded run is aborted, unless it was done already; the
\* body is stored, or the disk is full.
StoreBody(r) ==
  /\ step[r] = "body"
  /\ \/ /\ pages' = [pages EXCEPT ![r] = IF r = Image THEN 1 ELSE live]
        /\ Advance(r, "revision")
     \/ Advance(r, "failed") /\ UNCHANGED pages
  /\ UNCHANGED <<revisions, list>>

\* "Record a revision only after its body is safely kept."
RecordRevision(r) ==
  /\ step[r] = "revision"
  /\ \/ /\ revisions' = [revisions EXCEPT ![r] = Revision(catalog, r)]
        /\ Advance(r, "done")
     \/ Advance(r, "failed") /\ UNCHANGED revisions
  /\ UNCHANGED <<pages, list>>

\* Mutant: the revision is recorded before its body is there.
RevisionFirst(r) ==
  /\ step[r] = "body"
  /\ revisions' = [revisions EXCEPT ![r] = Revision(catalog, r)]
  /\ \/ /\ pages' = [pages EXCEPT ![r] = IF r = Image THEN 1 ELSE live]
        /\ Advance(r, "done")
     \/ Advance(r, "failed") /\ UNCHANGED pages
  /\ UNCHANGED list
SaveBody(r) == StoreBody(r)

At(build, articles) == {[article |-> a, build |-> build] : a \in articles}

\* Progress is published unless the run is superseded.
FinishArticle(a) ==
  /\ stage = "saving" /\ a \in taken \ (complete \cup failed)
  /\ \/ step[Image] = "done" /\ step[a] = "done"
     \/ "failed" \in {step[Image], step[a]}
  /\ IF step[Image] = "done" /\ step[a] = "done"
     THEN complete' = complete \cup {a} /\ UNCHANGED failed
     ELSE failed' = failed \cup {a} /\ UNCHANGED complete
  /\ report' = IF Superseded THEN report ELSE At(catalog, complete')
  /\ UNCHANGED <<live, catalog, pending, queued, stage, count, stale, taken,
                 step, wanted, kept, before, cacheVars, boundVars>>

SlotsDone ==
  /\ stage = "saving" /\ taken = complete \cup failed
  /\ taken = Selected \/ Superseded
  /\ IF Superseded THEN Finish({}) ELSE Move("listing") /\ UNCHANGED <<pending, report>>
  /\ UNCHANGED <<live, catalog, queued, cacheVars, boundVars>>

\* Mutant: the files of the older downloads are not asked to stay.
OnlySelected(entries) == IF entries = {} THEN {} ELSE {Image}
FilesOf(entries) == Resources({entry.article : entry \in entries})

\* Older downloads that are still complete fill the room failures left.
Older ==
  LET usable == {entry \in Saved : entry.article \notin complete}
      fits == Newest({entry.article : entry \in usable},
                     count - Cardinality(complete)) IN
  IF failed = {} THEN {} ELSE {entry \in usable : entry.article \in fits}

\* The new list is stored, or silently not.  A run superseded while it read
\* the old one stores nothing.
StoreList ==
  /\ stage = "listing"
  /\ LET new == At(catalog, complete) \cup Older IN
     IF Superseded THEN Finish({}) /\ UNCHANGED list
     ELSE /\ list' \in {new, list} /\ kept' = new
          /\ wanted' = wanted \cup FilesOf(Older)
          /\ stage' = "listed"
          /\ UNCHANGED <<pending, report, count, stale, taken, step, complete,
                         failed, before>>
  /\ UNCHANGED <<live, catalog, queued, pages, revisions, boundVars>>

Unwanted(cache) == {r \in Resource \ wanted : cache[r] # None}

\* A supersession seen before the deletions leaves everything.
BeginPrune ==
  /\ stage = "listed"
  /\ IF Superseded THEN Finish({}) ELSE Move("pruning") /\ UNCHANGED <<pending, report>>
  /\ UNCHANGED <<live, catalog, queued, cacheVars, boundVars>>

\* Entries are deleted all at once, so in any order.
PruneEntry(r) ==
  /\ stage = "pruning"
  /\ \/ /\ r \in Unwanted(pages)
        /\ pages' = [pages EXCEPT ![r] = None] /\ UNCHANGED revisions
     \/ /\ r \in Unwanted(revisions)
        /\ revisions' = [revisions EXCEPT ![r] = None] /\ UNCHANGED pages
  /\ UNCHANGED <<live, stateVars, queued, runVars, list, boundVars>>

PruneDone ==
  /\ stage = "pruning"
  /\ Unwanted(pages) = {} /\ Unwanted(revisions) = {}
  /\ Finish(kept)
  /\ UNCHANGED <<live, catalog, queued, cacheVars, boundVars>>

Run ==
  \/ StartRun \/ LoadCatalog \/ SlotsDone \/ StoreList \/ BeginPrune
  \/ PruneDone
  \/ \E a \in Article : TakeArticle(a) \/ FinishArticle(a)
  \/ \E r \in Resource : \/ CheckResource(r) \/ SaveBody(r)
                         \/ RecordRevision(r) \/ PruneEntry(r)

Deploy ==
  /\ live < MaxBuild
  /\ live' = live + 1
  /\ UNCHANGED <<stateVars, queued, runVars, cacheVars, boundVars>>

\* The worker is killed, or replaced by the next build's.
Kill ==
  /\ kills < MaxKills
  /\ kills' = kills + 1
  /\ catalog' = None /\ pending' = Unset /\ report' = {} /\ queued' = Unset
  /\ EndRun
  /\ UNCHANGED <<live, cacheVars, requests>>

Next == Run \/ Deploy \/ Kill \/ \E n \in 0..MaxCount : Request(n)

\* A promise that is settled runs its continuation; a fetch ends or times out.
Fairness == WF_articleVars(Run)
Spec == Init /\ [][Next]_articleVars /\ Fairness

-----------------------------------------------------------------------------

Stages == {"idle", "catalog", "saving", "listing", "listed", "pruning"}
Progress == {"none", "body", "revision", "done", "failed"}

TypeOK ==
  /\ live \in Build /\ catalog \in Build \cup {None}
  /\ {pending, queued} \subseteq 0..MaxCount \cup {Unset}
  /\ {report, list, kept} \subseteq SUBSET Listed
  /\ stage \in Stages /\ count \in 0..MaxCount /\ stale \in BOOLEAN
  /\ {taken, complete, failed} \subseteq SUBSET Article
  /\ step \in [Resource -> Progress] /\ wanted \subseteq Resource
  /\ before \in 0..MaxBuild
  /\ {pages, revisions} \subseteq [Resource -> Build \cup {None}]
  /\ requests \in 0..MaxRequests /\ kills \in 0..MaxKills

\* A revision never vouches for a body older than it, wherever a run was
\* killed, superseded or out of space.
RevisionCovered ==
  \A r \in Resource :
    pages[r] # None /\ revisions[r] # None => pages[r] >= revisions[r]

\* What the last run reported as saved is stored once nothing runs: neither its
\* own pruning nor the runs it overlapped with took anything away.
ReportTruthful ==
  stage = "idle" /\ queued = Unset => \A entry \in report : Stored(entry)

\* "Older complete downloads within `count` survive a failed replacement": a
\* run that reaches its end leaves as many listed articles complete as it
\* found, or as many as it was asked for.
RunKeepsComplete ==
  [][stage = "pruning" /\ stage' = "idle" /\ kills' = kills /\ ~stale
       => \/ list # kept
          \/ Cardinality(Saved)' >= Min({before, count})]_articleVars

\* "Everything outside the selection is dropped": after such a run nothing is
\* stored for an article neither selected nor listed.
NothingOrphaned ==
  [][stage = "pruning" /\ stage' = "idle" /\ kills' = kills
       => \A r \in Resource :
            pages[r] # None \/ revisions[r] # None
              => r \in FilesOf(kept) \cup Resources(Selected)]_articleVars

\* A count that was asked for is eventually dealt with, so the status does not
\* say "downloading" for ever and the next request is not taken for the same.
Settles == pending # Unset ~> pending = Unset
=============================================================================
