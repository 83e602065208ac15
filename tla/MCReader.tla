------------------------------ MODULE MCReader ------------------------------
(***************************************************************************)
(* The reader's side of the program for TLC.  The offline search index,    *)
(* the offline articles, the preference for them, the live list, the       *)
(* search field and the player share no state, so their interleavings show *)
(* nothing that each alone does not: a behaviour is of one of them,        *)
(* `part`, and leaves the others where they began.  OfflineSearch,         *)
(* OfflineArticles and ServiceWorker meet in the requests that             *)
(* ServiceWorker sends and the other two receive at any time.              *)
(***************************************************************************)
EXTENDS Naturals, Sequences, FiniteSets

CONSTANTS
  File, Shared, MaxVersion, MaxConfigs, MaxRestarts,
  Slots, MaxCount, MaxBuild, MaxRequests, MaxKills,
  MaxChanges, MaxWorkers,
  Page, List, MaxMoves, MaxEntries,
  Query, Partial, MaxPlace, MaxIndex, MaxEvents,
  Recording, Video, Quiet, MaxVisits, MaxGestures, MaxFaults

VARIABLES
  part,
  \* OfflineSearch
  target, searchWanted, searchQueued, pc, superseded, base, todo, loading,
  failure, active, phase, reader, seen, readerStale, manifest, index,
  configs, restarts, lost,
  \* OfflineArticles
  published, catalog, asked, report, queuedCount, stage, count, stale, taken,
  step, complete, failed, keep, kept, before, pages, revisions, list,
  requests, kills,
  \* ServiceWorker
  preference, controlled, inbox, activation, read, configuration, task,
  settingsQueue, persisted, raced, changes, workers, workerKills,
  \* Navigation and LiveFeed
  releases, live, history, position, shown, content, left, token, pending,
  waits, cache, stayed, latest, check, again, wanted, swap, top, activated,
  \* SearchBox
  text, place, attached, composing, rows, busy, problem, snapshot, timer, calls,
  queries, vocabulary, fetching, orphans, usable, outdated, online, saved,
  deployed, lapse, events,
  \* Player
  article, mounted, own, slot, playing, resume, visits, gestures, faults

Search == INSTANCE OfflineSearch WITH wanted <- searchWanted,
                                      queued <- searchQueued
Articles == INSTANCE OfflineArticles WITH live <- published, pending <- asked,
                                          queued <- queuedCount, wanted <- keep
Worker == INSTANCE ServiceWorker WITH kills <- workerKills
Feed == INSTANCE LiveFeed
Box == INSTANCE SearchBox
Media == INSTANCE Player

ASSUME ReaderAssumption ==
  /\ Search!SearchAssumption /\ Articles!ArticlesAssumption
  /\ Worker!WorkerAssumption /\ Feed!FeedAssumption
  /\ Box!BoxAssumption /\ Media!PlayerAssumption

searchVars ==
  <<target, searchWanted, searchQueued, pc, superseded, base, todo, loading,
    failure, active, phase, reader, seen, readerStale, manifest, index,
    configs, restarts, lost>>
articleVars ==
  <<published, catalog, asked, report, queuedCount, stage, count, stale, taken,
    step, complete, failed, keep, kept, before, pages, revisions, list,
    requests, kills>>
swVars ==
  <<preference, controlled, inbox, activation, read, configuration, task,
    settingsQueue, persisted, raced, changes, workers, workerKills>>
liveVars ==
  <<releases, live, history, position, shown, content, left, token, pending,
    waits, cache, stayed, latest, check, again, wanted, swap, top, activated>>
boxVars ==
  <<text, place, attached, composing, rows, busy, problem, snapshot, timer,
    calls, queries, vocabulary, fetching, orphans, usable, outdated, online,
    saved, deployed, lapse, events>>
mediaVars ==
  <<article, mounted, own, slot, playing, resume, visits, gestures, faults>>
mcVars ==
  <<part, searchVars, articleVars, swVars, liveVars, boxVars, mediaVars>>

MCInit ==
  /\ part \in {"search", "articles", "worker", "feed", "box", "player"}
  /\ Search!Init /\ Articles!Init /\ Worker!Init /\ Feed!Init
  /\ Box!Init /\ Media!Init
  /\ part # "box" => online /\ saved = 0
  /\ part # "player" => article = {}
  /\ part # "worker" => preference = 0
  /\ part # "feed" =>
       releases = {} /\ history = <<CHOOSE p \in List : TRUE>>
  /\ Len(history) = Cardinality(releases) + 1    \* bound: less to explore

MCNext ==
  \/ /\ part = "search" /\ Search!Next
     /\ UNCHANGED <<part, articleVars, swVars, liveVars, boxVars, mediaVars>>
  \/ /\ part = "articles" /\ Articles!Next
     /\ UNCHANGED <<part, searchVars, swVars, liveVars, boxVars, mediaVars>>
  \/ /\ part = "worker" /\ Worker!Next
     /\ UNCHANGED <<part, searchVars, articleVars, liveVars, boxVars, mediaVars>>
  \/ /\ part = "feed" /\ Feed!Next
     /\ UNCHANGED <<part, searchVars, articleVars, swVars, boxVars, mediaVars>>
  \/ /\ part = "box" /\ Box!Next
     /\ UNCHANGED <<part, searchVars, articleVars, swVars, liveVars, mediaVars>>
  \/ /\ part = "player" /\ Media!Next
     /\ UNCHANGED <<part, searchVars, articleVars, swVars, liveVars, boxVars>>

\* The fairness of each part, of its own steps only.
Still == UNCHANGED <<releases, live>>
MCFairness ==
  /\ WF_articleVars(part = "articles" /\ Articles!Run)
  /\ WF_swVars(part = "worker" /\ Worker!Worker)
  /\ WF_liveVars(part = "feed" /\ Feed!Check(FALSE) /\ Still)
  /\ SF_liveVars(part = "feed" /\ Feed!Polled /\ Still)
  /\ SF_liveVars(part = "feed" /\ Feed!Swapped /\ Still)
  /\ WF_liveVars(part = "feed" /\ Feed!PagesAnswer /\ Still)
  /\ SF_liveVars(part = "feed" /\ Feed!ScrollTop /\ Still)

MCSpec == MCInit /\ [][MCNext]_mcVars /\ MCFairness

-----------------------------------------------------------------------------

\* Every part keeps the types and the limits it declares: two downloads of
\* index files at a time, one swap of a list in flight.
TypesOK ==
  /\ Search!TypeOK /\ Articles!TypeOK /\ Worker!TypeOK /\ Feed!TypeOK
  /\ Box!TypeOK /\ Media!TypeOK

\* OfflineSearch: the index that answers queries, or is called ready, is wholly
\* stored, and once disabling has settled nothing of an index is left
\* (src/web/src/sw/search.ts).
ActiveComplete == Search!ActiveComplete /\ Search!DisabledClean

\* OfflineArticles: a recorded revision never vouches for an older body, and
\* what the last run reported as saved is stored (src/web/src/sw/offline.ts).
OfflineTruthful == Articles!RevisionCovered /\ Articles!ReportTruthful

\* OfflineSearch, OfflineArticles: a complete index stays until its replacement
\* is committed; a run that ends never loses complete downloads within the
\* count, and leaves nothing that is neither selected nor listed.
OfflineStays ==
  Search!IndexStays /\ Articles!RunKeepsComplete /\ Articles!NothingOrphaned

\* OfflineArticles, ServiceWorker: a requested count is eventually dealt with,
\* and the page's last word and the worker's memory come to rest.
Settles == Articles!Settles /\ Worker!ComesToRest

\* ServiceWorker: once everything is at rest the worker's count and the stored
\* one are the reader's, unless its last message met an activating worker
\* (src/web/src/offline/client.svelte.ts, src/web/src/sw/worker.ts).
PreferenceReachedAfterActivation == Worker!PreferenceReachedAfterActivation

\* LiveFeed: no order of answers takes a list on screen back to older rows
\* (src/web/src/updates/feed.ts).
NeverGoesBack == Feed!NeverGoesBack

\* LiveFeed: a list on screen ends up at the deployed build
\* (src/web/src/updates/poll.ts, feed.ts).
CatchesUp == Feed!CatchesUp

\* Navigation: with no page on its way, the one on screen is the one the
\* address bar names and is running, unless a Back was cancelled
\* (src/web/src/navigation/index.ts).
ShownIsCurrentUnlessStayed == Feed!ShownIsCurrentUnlessStayed

\* SearchBox: rows answer the text and page in the field, and every query gets
\* rows of the index in use, or a reason, unless the catalogue its run waited
\* for was asked for again (src/web/src/search/controller.ts).
SearchAnswered == Box!RowsAnswerText /\ Box!QueryAnsweredUnlessOvertaken

\* Player: one recording sounds at a time, the one the bar shows, and a player
\* shows what its element does (src/web/src/media/now-playing.ts, audio.ts).
PlayerTruthful == Media!OneRecording /\ Media!PhaseTruthful

\* Player: what has started plays on as pages come and go, and the place it
\* reached is there for its next visit.
PlaybackKept == Media!StartedKeepsPlaying /\ Media!PlaceKept
=============================================================================
