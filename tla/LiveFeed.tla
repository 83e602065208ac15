------------------------------ MODULE LiveFeed ------------------------------
(***************************************************************************)
(* New items without a reload (src/web/src/updates/poll.ts, feed.ts,       *)
(* app/reader.ts): the poll of updates.json, the list on screen that       *)
(* fetches itself again when the deployed build moves on, and the          *)
(* navigation both of them interrupt and are interrupted by.               *)
(*                                                                         *)
(* A response is of some build deployed between its request and its        *)
(* answer.  Badges only follow the entries of these builds and are left    *)
(* out; the poller is never stopped (nothing calls Poller.stop).           *)
(***************************************************************************)
EXTENDS Navigation

CONSTANT List           \* the pages that are lists

FeedAssumption == NavigationAssumption /\ List \subseteq Page

VARIABLES
  latest,               \* versions.latest
  check, again,         \* the poll in flight, since which build; `queued`
  wanted, swap,         \* FeedUpdater: the build wanted, the fetch in flight
  top, activated        \* the reader is at the top; came back untouched

pollVars == <<check, again>>
feedVars == <<wanted, swap, top, activated>>
liveVars == <<releases, live, navVars, latest, pollVars, feedVars>>

SwapRun == [page : Page, target : Build, asked : Build, alive : BOOLEAN]

Init ==
  /\ NavInit
  /\ latest = None /\ check = 1 /\ again = FALSE
  /\ wanted = None /\ swap = {} /\ top = TRUE /\ activated = FALSE

-----------------------------------------------------------------------------

\* Mutant: a fetch in flight does not keep another from starting.
Overlapping(flight) == Cardinality(flight) < 2
Free(flight) == flight = {}

\* attempt(), from the state after the step: with something wanted, nothing in
\* flight and the gate open, the page on screen is fetched again.
Attempt(flight, want) ==
  swap' = IF want # None /\ Free(flight) /\ (top' \/ activated')
          THEN flight \cup {[page |-> shown', target |-> want, asked |-> live,
                              alive |-> ~left']}
          ELSE flight

\* notice(): a list built from another build is due for its rows.
Notice(build, flight) ==
  IF shown' \notin List THEN UNCHANGED wanted /\ swap' = flight
  ELSE IF content' = build
       THEN wanted' = (IF wanted = build THEN None ELSE wanted) /\ swap' = flight
       ELSE wanted' = build /\ Attempt(flight, build)

\* Leaving a page ends what it set up.
Aborted == {[s EXCEPT !.alive = FALSE] : s \in swap}

PollerKept == UNCHANGED <<latest, pollVars>>
FeedKept == UNCHANGED <<latest, pollVars, feedVars>>

\* The page on screen was left; another arrived and is checked against the
\* live version; or the browser loaded one, and everything starts over.
PageLeft ==
  PollerKept /\ swap' = Aborted /\ UNCHANGED <<wanted, top, activated>>
PageArrives ==
  /\ PollerKept /\ top' \in BOOLEAN /\ UNCHANGED activated
  /\ IF latest = None THEN swap' = Aborted /\ UNCHANGED wanted
                      ELSE Notice(latest, Aborted)
Restart ==
  /\ latest' = None /\ check' = live /\ again' = FALSE
  /\ wanted' = None /\ swap' = {} /\ top' \in BOOLEAN /\ activated' = FALSE

FollowLink(p) ==
  /\ Follow(p)
  /\ IF InMemory(p) THEN PageArrives
     ELSE IF OtherRelease(p) THEN Restart ELSE FeedKept

GoBack(to) ==
  /\ Traverse(to)
  /\ LET p == history[to] IN
     IF SamePage(p) THEN FeedKept
     ELSE IF InMemory(p) THEN PageArrives
     ELSE IF OtherRelease(p) THEN Restart ELSE PageLeft

PageAnswers(w, build) ==
  /\ Arrive(w, build)
  /\ IF ~Latest(w) THEN FeedKept
     ELSE IF CanSwap(build) THEN PageArrives ELSE Restart

PageFails(w) ==
  /\ FetchFails(w)
  /\ IF Latest(w) THEN Restart ELSE FeedKept

-----------------------------------------------------------------------------
(* The poll.                                                               *)

\* check(): one request at a time; one more when a rebuild insists.
Check(insist) ==
  /\ IF check = None THEN check' = live /\ again' = FALSE
                     ELSE again' = (again \/ insist) /\ UNCHANGED check
  /\ UNCHANGED <<navVars, latest, feedVars>>

CheckEnds == /\ check' = (IF again THEN live ELSE None)
             /\ again' = FALSE

\* Mutant: only a build not heard of before is news.
FirstTime(build) == build # latest
News(build) == build # latest \/ (shown \in List /\ content # build)

PollAnswers(build) ==
  /\ check # None /\ build \in check..live
  /\ CheckEnds
  /\ UNCHANGED <<history, position, shown, content, left, token, pending,
                 stayed, top, activated>>
  /\ latest' = build
  /\ IF build # latest THEN Cleared ELSE UNCHANGED <<cache, waits>>
  /\ IF News(build) THEN Notice(build, swap) ELSE UNCHANGED <<wanted, swap>>

PollFails ==
  /\ check # None
  /\ CheckEnds
  /\ UNCHANGED <<navVars, latest, feedVars>>

-----------------------------------------------------------------------------
(* The list on screen.                                                     *)

ScrollTop ==
  /\ ~top
  /\ top' = TRUE /\ activated' = FALSE
  /\ UNCHANGED <<navVars, latest, pollVars, wanted>>
  /\ Attempt(swap, wanted)

ScrollAway ==
  /\ top
  /\ top' = FALSE /\ activated' = FALSE
  /\ UNCHANGED <<navVars, latest, pollVars, wanted, swap>>

\* The tab is shown again.
ComeBack ==
  /\ ~activated
  /\ activated' = TRUE /\ check' = (IF check = None THEN live ELSE check)
  /\ UNCHANGED <<navVars, latest, again, wanted, top>>
  /\ Attempt(swap, wanted)

\* "The reader may have moved on to another page while this was in flight."
StillThere(s) == s.alive /\ shown = s.page

SwapAnswers(s, build) ==
  /\ build \in s.asked..live
  /\ UNCHANGED <<history, position, shown, left, token, pending, waits, cache,
                 stayed, latest, pollVars, top>>
  /\ \/ /\ ~StillThere(s)
        /\ swap' = {} /\ UNCHANGED <<content, wanted, activated>>
     \/ /\ StillThere(s) /\ ~CanSwap(build)
        /\ wanted' = None /\ swap' = {} /\ UNCHANGED <<content, activated>>
     \/ /\ StillThere(s) /\ CanSwap(build) /\ shown \notin List
        /\ swap' = {} /\ UNCHANGED <<content, wanted, activated>>
     \/ /\ StillThere(s) /\ CanSwap(build) /\ shown \in List
        /\ content' = build /\ activated' = FALSE
        /\ wanted' = IF wanted \in {s.target, build} THEN None ELSE wanted
        /\ Attempt({}, wanted')

\* The version stays wanted, so the next check asks for it again.
SwapFails(s) ==
  /\ swap' = {}
  /\ UNCHANGED <<navVars, latest, pollVars, wanted, top, activated>>

Polled == \E b \in Build : PollAnswers(b)
Swapped == \E s \in swap, b \in Build : SwapAnswers(s, b)
PagesAnswer == \E w \in waits, b \in Build : PageAnswers(w, b)

Reader ==
  \/ Stay /\ FeedKept
  \/ \E p \in Page : FollowLink(p) \/ (Prefetch(p) /\ FeedKept)
  \/ \E to \in {position - 1, position + 1} : GoBack(to)
  \/ ScrollTop \/ ScrollAway \/ ComeBack
  \/ \E insist \in BOOLEAN : Check(insist)

Network ==
  \/ Polled \/ Swapped \/ PagesAnswer \/ PollFails
  \/ \E w \in waits : PageFails(w)
  \/ \E s \in swap : SwapFails(s)

Next ==
  \/ (Reader \/ Network) /\ UNCHANGED <<releases, live>>
  \/ Deployed /\ UNCHANGED <<navVars, latest, pollVars, feedVars>>

Spec == Init /\ [][Next]_liveVars

\* The interval timer checks; every request ends, and those repeated for ever
\* are answered; a reader comes back to the top of a list for as long as a
\* swap of its rows waits for it.
FairSpec ==
  /\ Spec
  /\ WF_liveVars(Check(FALSE) /\ UNCHANGED <<releases, live>>)
  /\ SF_liveVars(Polled /\ UNCHANGED <<releases, live>>)
  /\ SF_liveVars(Swapped /\ UNCHANGED <<releases, live>>)
  /\ WF_liveVars(PagesAnswer /\ UNCHANGED <<releases, live>>)
  /\ SF_liveVars(ScrollTop /\ UNCHANGED <<releases, live>>)

-----------------------------------------------------------------------------

TypeOK ==
  /\ NavTypeOK
  /\ {latest, check, wanted} \subseteq Build \cup {None}
  /\ swap \subseteq SwapRun /\ Cardinality(swap) <= 1
  /\ {again, top, activated} \subseteq BOOLEAN

\* The page that lands was fetched ahead beside an older request for it.
LandsBeside == \E w \in waits \ waits' : Latest(w) /\ w.beside

\* A list on screen never goes back to an older build's rows, however the
\* answers of polls, swaps, prefetches and navigations are ordered, unless two
\* requests for it were on their way at once and the later is served the older.
NeverGoesBack ==
  [][shown' = shown /\ token' = token /\ ~LandsBeside => content' >= content]_liveVars

\* "Keeps the list on screen at the content version the poller last saw": once
\* nothing is deployed and nothing navigated any more, a list on screen is
\* the deployed build's, or the app's release has to be loaded first.
CaughtUp ==
  \/ shown \notin List \/ pending \/ ~OnScreen
  \/ content = live \/ App(content) # App(live)
CatchesUp == <>[]CaughtUp
=============================================================================
