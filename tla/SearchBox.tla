------------------------------ MODULE SearchBox ------------------------------
(***************************************************************************)
(* The search field of a list (src/web/src/search/controller.ts,           *)
(* state/search.svelte.ts) over its session (search/engine.ts): a query    *)
(* runs after a pause in typing, once the catalogue is there, while the    *)
(* reader types on, turns the page, leaves and comes back, and new builds, *)
(* the network and the offline index take the catalogue away.              *)
(*                                                                         *)
(* A generation is only ever compared with the latest one, so whatever     *)
(* waits carries whether it still is: `fresh` for the query's, `latest`    *)
(* for the catalogue's.  Suggestions, the address, the scope of a list and *)
(* the results themselves are left out, and so is the time before the      *)
(* module is loaded, when only the state of the field changes.             *)
(***************************************************************************)
EXTENDS Naturals, FiniteSets

CONSTANTS
  Query,        \* texts that are a query of their own
  Partial,      \* those whose last token is a facet still being chosen
  MaxPlace,     \* bound: pages of results
  MaxIndex,     \* bound: builds deployed
  MaxEvents     \* bound: what the reader and the network do

BoxAssumption ==
  /\ Partial \subseteq Query
  /\ {MaxPlace, MaxIndex} \subseteq Nat \ {0} /\ MaxEvents \in Nat

VARIABLES
  text, place,              \* search.text, search.page
  attached, composing,
  rows, busy, problem,      \* search.results, busy, error
  snapshot,                 \* sessionStorage, which survives a reload
  timer,                    \* the debounce
  calls, queries,           \* loadCatalogue and index.run on their way
  vocabulary,               \* the controller's catalogue is known
  fetching, orphans,        \* the session's pending fetch; outdated ones
  usable, outdated,         \* its index, and whether to revalidate it
  online, saved,            \* the network; the committed offline index
  deployed,                 \* the build the server has
  lapse,                    \* history: what befell the latest run
  events                    \* bound

fieldVars == <<text, place, attached, composing>>
shownVars == <<rows, busy, problem>>
workVars == <<timer, calls, queries, lapse>>
sessionVars == <<fetching, orphans, usable, outdated>>
worldVars == <<online, saved, deployed>>
boxVars == <<fieldVars, shownVars, snapshot, workVars, vocabulary, sessionVars,
             worldVars, events>>

Blank == "blank"
None == 0
Index == 1..MaxIndex
Text == Query \cup {Blank}
Place == 1..MaxPlace
Row == [text : Query, place : Place, index : Index]
NoRows == [text |-> Blank, place |-> 1, index |-> None]
Active == text # Blank

\* A document without a list, as the browser has just loaded it.
Empty ==
  /\ text' = Blank /\ place' = 1 /\ attached' = FALSE /\ composing' = FALSE
  /\ rows' = NoRows /\ busy' = FALSE /\ problem' = FALSE
  /\ timer' = FALSE /\ calls' = {} /\ queries' = {} /\ lapse' = "none"
  /\ vocabulary' = FALSE
  /\ fetching' = None /\ orphans' = 0 /\ usable' = None /\ outdated' = FALSE

Init ==
  /\ text = Blank /\ place = 1 /\ attached = FALSE /\ composing = FALSE
  /\ rows = NoRows /\ busy = FALSE /\ problem = FALSE
  /\ timer = FALSE /\ calls = {} /\ queries = {} /\ lapse = "none"
  /\ vocabulary = FALSE
  /\ fetching = None /\ orphans = 0 /\ usable = None /\ outdated = FALSE
  /\ snapshot = NoRows
  /\ online \in BOOLEAN /\ saved \in {None, 1} /\ deployed = 1
  /\ events = 0

-----------------------------------------------------------------------------

Outdate(work) == {[w EXCEPT !.fresh = FALSE] : w \in work}
Overtake(waiting) == {[c EXCEPT !.latest = FALSE] : c \in waiting}
Call(who) == [for |-> who, fresh |-> TRUE, latest |-> TRUE]

\* Session.load resolves with the index it has.
Served == fetching = None /\ usable # None /\ ~outdated

\* loadCatalogue, where `before` are waiting for the session already.
LoadCatalogue(who, before) ==
  /\ calls' = Overtake(before) \cup (IF Served THEN {} ELSE {Call(who)})
  /\ fetching' = IF Served \/ fetching # None THEN fetching ELSE deployed
  /\ vocabulary' = (vocabulary \/ Served)
  /\ UNCHANGED <<orphans, usable, outdated>>

\* Session.stale, and the load that follows it: those who waited for the fetch
\* before it hear of it no more.
LoadAnew(who) ==
  /\ calls' = {Call(who)}
  /\ fetching' = deployed
  /\ orphans' = IF fetching = None THEN orphans ELSE orphans + 1
  /\ outdated' = TRUE
  /\ UNCHANGED vocabulary

\* The second half of a run, with a catalogue: a facet still being chosen is
\* not searched for.
Search(t, n, index, before) ==
  /\ busy' = (t \notin Partial)
  /\ queries' = IF t \in Partial THEN before
                ELSE before \cup {[text |-> t, place |-> n, index |-> index,
                                    fresh |-> TRUE]}

\* run: an older one never replaces a newer one.
Run(n) ==
  /\ timer' = FALSE /\ problem' = FALSE /\ lapse' = "none"
  /\ rows' = NoRows
  /\ LoadCatalogue("run", Outdate(calls))
  /\ IF Served THEN Search(text, n, usable, Outdate(queries))
     ELSE busy' = TRUE /\ queries' = Outdate(queries)

RunAnew(kept) ==
  /\ timer' = FALSE /\ problem' = FALSE /\ lapse' = "none"
  /\ rows' = kept /\ busy' = TRUE
  /\ queries' = Outdate(queries)
  /\ LoadAnew("run")

\* reset: no query, the feed is back.
Reset ==
  /\ place' = 1 /\ rows' = NoRows /\ busy' = FALSE /\ problem' = FALSE
  /\ timer' = FALSE /\ lapse' = "none"
  /\ calls' = Outdate(calls) /\ queries' = Outdate(queries)
  /\ UNCHANGED <<vocabulary, sessionVars>>

Event == events < MaxEvents /\ events' = events + 1

-----------------------------------------------------------------------------
(* The reader.                                                             *)

\* driver.changed: rows are hidden at once, the catalogue is warmed while the
\* timer runs; during a composition nothing is.
Changed(t, composes) ==
  /\ attached
  /\ text' = t /\ composing' = composes
  /\ IF t = Blank /\ ~composes THEN Reset /\ UNCHANGED attached
     ELSE /\ place' = 1 /\ rows' = NoRows /\ problem' = FALSE
          /\ queries' = Outdate(queries) /\ lapse' = "none"
          /\ timer' = ~composes
          /\ IF composes
             THEN calls' = Outdate(calls) /\ UNCHANGED <<vocabulary, sessionVars>>
             ELSE LoadCatalogue("vocabulary", Outdate(calls))
          /\ UNCHANGED <<attached, busy>>
  /\ UNCHANGED <<snapshot, worldVars>>

\* Typing, choosing a suggestion, beginning or ending a composition.
Type(t) == /\ Event
           /\ \/ t # text /\ Changed(t, composing)
              \/ t = text /\ ~composing /\ Changed(t, TRUE)
              \/ composing /\ Changed(t, FALSE)

Fire ==
  /\ timer /\ Active
  /\ Run(place)
  /\ UNCHANGED <<fieldVars, snapshot, worldVars, events>>

\* Enter, and the pager of the results.
Submit ==
  /\ Event /\ attached /\ ~composing /\ Active
  /\ Run(place)
  /\ UNCHANGED <<fieldVars, snapshot, worldVars>>

Turn(n) ==
  /\ Event /\ attached /\ ~composing /\ Active /\ rows # NoRows
  /\ n \in {place - 1, place + 1}
  /\ place' = n /\ Run(n)
  /\ UNCHANGED <<text, attached, composing, snapshot, worldVars>>

\* driver.focus: the vocabulary, if it is not there yet.  It does not wait for
\* a run that waits for the same catalogue.
Focus ==
  /\ attached /\ ~vocabulary
  /\ LoadCatalogue("vocabulary", calls)
  /\ lapse' = IF \E c \in calls : c.for = "run" /\ c.fresh THEN "overtaken" ELSE lapse
  /\ UNCHANGED <<fieldVars, shownVars, snapshot, timer, queries, worldVars, events>>

\* What this query and page last showed, still held or remembered.
Restored(t, n) ==
  IF rows.text = t /\ rows.place = n THEN rows
  ELSE IF snapshot.text = t /\ snapshot.place = n THEN snapshot
  ELSE NoRows

\* A list arrives with the query of its address.
Arrive(t, n) ==
  /\ Event /\ ~attached
  /\ text' = t /\ place' = n /\ attached' = TRUE
  /\ IF t # Blank
     THEN RunAnew(Restored(t, n)) /\ UNCHANGED usable
     ELSE /\ rows' = NoRows /\ busy' = FALSE /\ problem' = FALSE
          /\ timer' = FALSE /\ lapse' = "none"
          /\ queries' = Outdate(queries) /\ calls' = {}
          /\ orphans' = (IF fetching = None THEN orphans ELSE orphans + 1)
          /\ fetching' = None /\ outdated' = TRUE
          /\ UNCHANGED <<vocabulary, usable>>
  /\ UNCHANGED <<composing, snapshot, worldVars>>

\* "A composition can finish outside the field": nothing is run for it.
Blur ==
  /\ attached /\ composing
  /\ composing' = FALSE /\ lapse' = "abandoned"
  /\ UNCHANGED <<text, place, attached, shownVars, snapshot, timer, calls, queries,
                 vocabulary, sessionVars, worldVars, events>>

\* Leaving a list takes the focus, and a composition, from its field.
Leave ==
  /\ Event /\ attached
  /\ attached' = FALSE /\ composing' = FALSE
  /\ busy' = FALSE /\ timer' = FALSE /\ lapse' = "none"
  /\ queries' = Outdate(queries) /\ calls' = Overtake(Outdate(calls))
  /\ UNCHANGED <<text, place, rows, problem, snapshot, vocabulary, sessionVars,
                 worldVars>>

\* The document is loaded anew, or another one was and the reader came back.
Reload ==
  /\ Event /\ Empty
  /\ UNCHANGED <<snapshot, worldVars>>

-----------------------------------------------------------------------------
(* What the session waits for.                                             *)

IfAsked == attached /\ Active /\ ~composing

\* driver.refresh: the content, the network or the offline index changed.
Refresh ==
  IF IfAsked THEN RunAnew(rows)
  ELSE /\ IF attached THEN LoadAnew("vocabulary")
          ELSE /\ orphans' = (IF fetching = None THEN orphans ELSE orphans + 1)
               /\ fetching' = None /\ outdated' = TRUE /\ calls' = {}
               /\ UNCHANGED vocabulary
       /\ UNCHANGED <<shownVars, timer, queries, lapse>>

\* A build is deployed; a poll hears of it by and by.
Deploy ==
  /\ deployed < MaxIndex
  /\ deployed' = deployed + 1
  /\ UNCHANGED <<fieldVars, shownVars, snapshot, workVars, vocabulary,
                 sessionVars, online, saved, events>>

Announced ==
  /\ Event /\ online
  /\ Refresh
  /\ UNCHANGED <<fieldVars, snapshot, usable, worldVars>>

\* The worker reports another committed index, or none.
IndexSaved(index) ==
  /\ Event /\ index # saved
  /\ saved' = index
  /\ Refresh
  /\ UNCHANGED <<fieldVars, snapshot, usable, online, deployed>>

\* "network transitions reselect the current index".
Network ==
  /\ Event
  /\ online' = ~online
  /\ usable' = None
  /\ Refresh
  /\ UNCHANGED <<fieldVars, snapshot, saved, deployed>>

\* "token !== catalogueGeneration", and the generation of the query.
Resumes(c) == c.for = "run" /\ c.latest /\ c.fresh

\* Every call that waits hears of the index; the latest one goes on.
Landed(index) ==
  /\ calls' = {}
  /\ vocabulary' = (vocabulary \/ (attached /\ \E c \in calls : c.latest))
  /\ IF attached /\ \E c \in calls : Resumes(c)
     THEN Search(text, place, index, queries)
     ELSE UNCHANGED <<busy, queries>>
  /\ UNCHANGED <<rows, problem>>

\* Online the catalogue of some build, offline that of the saved index.
FetchAnswers(index) ==
  /\ fetching # None
  /\ index \in IF online THEN fetching..deployed ELSE {saved} \ {None}
  /\ fetching' = None /\ usable' = index /\ outdated' = FALSE
  /\ Landed(index)
  /\ UNCHANGED <<fieldVars, snapshot, timer, lapse, orphans, worldVars, events>>

\* A revalidation that fails keeps the usable index; a first load has none.
FetchFails ==
  /\ fetching # None
  /\ fetching' = None
  /\ lapse' = IF lapse = "none" /\ usable # None THEN "kept" ELSE lapse
  /\ IF usable # None THEN Landed(usable)
     ELSE /\ calls' = {}
          /\ IF \E c \in calls : c.for = "run" /\ c.fresh
             THEN rows' = NoRows /\ busy' = FALSE /\ problem' = TRUE
             ELSE UNCHANGED shownVars
          /\ UNCHANGED <<vocabulary, queries>>
  /\ UNCHANGED <<fieldVars, snapshot, timer, orphans, usable, outdated,
                 worldVars, events>>

\* An outdated fetch that succeeds asks again, whether anybody waits or not.
OrphanEnds ==
  /\ orphans > 0
  /\ orphans' = orphans - 1
  /\ fetching' \in {fetching, IF fetching = None /\ (outdated \/ usable = None)
                              THEN deployed ELSE fetching}
  /\ UNCHANGED <<fieldVars, shownVars, snapshot, workVars, vocabulary, usable,
                 outdated, worldVars, events>>

\* Mutant: an outdated query is shown all the same.
Lasting(q) == q \in queries
Fresh(q) == q.fresh

RowsOf(q) == [text |-> q.text, place |-> q.place, index |-> q.index]

QueryAnswers(q) ==
  /\ queries' = queries \ {q}
  /\ IF Fresh(q)
     THEN rows' = RowsOf(q) /\ snapshot' = RowsOf(q) /\ busy' = FALSE
     ELSE UNCHANGED <<rows, snapshot, busy>>
  /\ UNCHANGED <<fieldVars, problem, timer, calls, lapse, vocabulary,
                 sessionVars, worldVars, events>>

QueryFails(q) ==
  /\ queries' = queries \ {q}
  /\ IF q.fresh THEN rows' = NoRows /\ busy' = FALSE /\ problem' = TRUE
                ELSE UNCHANGED shownVars
  /\ UNCHANGED <<fieldVars, snapshot, timer, calls, lapse, vocabulary,
                 sessionVars, worldVars, events>>

Next ==
  \/ \E t \in Text : Type(t) \/ \E n \in Place : Arrive(t, n)
  \/ Fire \/ Submit \/ Focus \/ Blur \/ Leave \/ Reload
  \/ \E n \in Place : Turn(n)
  \/ Deploy \/ Announced \/ Network
  \/ \E i \in Index \cup {None} : IndexSaved(i) \/ FetchAnswers(i)
  \/ FetchFails \/ OrphanEnds
  \/ \E q \in queries : QueryAnswers(q) \/ QueryFails(q)

Spec == Init /\ [][Next]_boxVars

-----------------------------------------------------------------------------

TypeOK ==
  /\ text \in Text /\ place \in Place
  /\ {attached, composing, busy, problem, timer, vocabulary, outdated, online}
       \subseteq BOOLEAN
  /\ lapse \in {"none", "overtaken", "kept", "abandoned"}
  /\ {rows, snapshot} \subseteq Row \cup {NoRows}
  /\ calls \subseteq [for : {"run", "vocabulary"}, fresh : BOOLEAN,
                      latest : BOOLEAN]
  /\ Cardinality({c \in calls : c.latest}) <= 1
  /\ queries \subseteq [text : Query, place : Place, index : Index,
                        fresh : BOOLEAN]
  /\ {fetching, usable, saved} \subseteq Index \cup {None}
  /\ deployed \in Index /\ orphans \in Nat /\ events \in 0..MaxEvents

\* The rows on screen answer the text in the field and the page asked for,
\* whichever older query, page or visit answers late ("an older run never
\* replaces a newer one", controller.ts:222).
RowsAnswerText ==
  attached /\ rows # NoRows => rows.text = text /\ rows.place = place

\* Nothing more is on its way for this query.
Settled ==
  /\ ~timer /\ \A c \in calls : ~c.fresh \/ c.for # "run"
  /\ \A q \in queries : ~q.fresh

\* "The live query still runs" (docs/client.md:255): once nothing is on its way
\* the reader has rows from the index in use, a reason why not, or a facet to
\* choose; never a field that says "Searching" for ever.  A composition that was
\* abandoned outside the field has asked for nothing.
QueryAnswered ==
  attached /\ Active /\ ~composing /\ lapse # "abandoned" /\ Settled =>
    /\ ~busy
    /\ \/ problem
       \/ rows # NoRows /\ (rows.index = usable \/ lapse = "kept")
       \/ rows = NoRows /\ text \in Partial

\* So it is, unless the field was focused while a run waited for a catalogue
\* the document had never had.
QueryAnsweredUnlessOvertaken == lapse # "overtaken" => QueryAnswered
=============================================================================
