----------------------------- MODULE Navigation -----------------------------
(***************************************************************************)
(* Following links in place (src/web/src/navigation/index.ts, cache.ts,    *)
(* scope.ts): a page is fetched, or is in memory already, and replaces the *)
(* one on screen, while the reader clicks on, goes Back and Forward, or    *)
(* chooses to stay.  A page the swap cannot show is loaded by the browser, *)
(* which starts the module afresh.                                         *)
(*                                                                         *)
(* A page is its address and the build its rows came from; scrolling,      *)
(* tabs, fragments and the parse queue are left out, and so are the expiry *)
(* and the bound of the page cache, which only cost another fetch.         *)
(***************************************************************************)
EXTENDS Naturals, Sequences, FiniteSets

CONSTANTS
  Page,         \* routable addresses
  MaxBuild,     \* bound: builds deployed
  MaxMoves,     \* bound: navigations begun
  MaxEntries    \* bound: history entries at the start

NavigationAssumption ==
  {MaxBuild, MaxEntries} \subseteq Nat \ {0} /\ MaxMoves \in Nat /\ Page # {}

VARIABLES
  releases,                \* the builds that change the app; never changes
  live,                    \* the deployed build
  history, position,       \* the joint history; the address bar's entry
  shown, content,          \* `current`, and the build of the page on screen
  left,                    \* pageScope.aborted
  token, pending,          \* the latest navigation; whether one is on its way
  waits,                   \* `go` calls and prefetches awaiting their page
  cache,                   \* PageCache
  stayed                   \* a pending Back or Forward was cancelled

navVars == <<history, position, shown, content, left, token, pending, waits,
             cache, stayed>>

Build == 1..MaxBuild
None == 0
App(build) == Cardinality({r \in releases : r <= build})
Address == history[position]
Ahead == 0                 \* the token of a prefetch, which shows nothing
Wait == [token : Nat, page : Page, traverse : BOOLEAN,
         asked : Build, kept : BOOLEAN, beside : BOOLEAN]

\* A document the browser has just loaded, at some entry of the history.
Loaded(page, build) ==
  /\ shown' = page /\ content' = build
  /\ left' = FALSE /\ token' = token /\ pending' = FALSE /\ waits' = {}
  /\ cache' = [p \in Page |-> None]
  /\ stayed' = FALSE

\* A page opened, or loaded again with entries behind and ahead of it.
NavInit ==
  /\ releases \in SUBSET (2..MaxBuild) /\ live = 1
  /\ history \in UNION {[1..n -> Page] : n \in 1..MaxEntries}
  /\ \A i \in 1..Len(history) - 1 : history[i] # history[i + 1]
  /\ position \in DOMAIN history /\ shown = Address /\ content = 1
  /\ left = FALSE /\ token = 0 /\ pending = FALSE /\ waits = {}
  /\ cache = [p \in Page |-> None]
  /\ stayed = FALSE

-----------------------------------------------------------------------------

CanSwap(build) == App(build) = App(content)
InMemory(page) == cache[page] # None /\ CanSwap(cache[page])
OtherRelease(page) == cache[page] # None /\ ~CanSwap(cache[page])

\* Whatever cannot be swapped is still a link: the browser follows it, to
\* the first entry of a new document, or loads the entry it is at.
Assign(page) == Loaded(page, live) /\ history' = <<page>> /\ position' = 1

AddEntry(page) ==
  /\ history' = Append(SubSeq(history, 1, position), page)
  /\ position' = position + 1

\* `show`: the page's own setup runs anew.
Show(page, build) ==
  /\ shown' = page /\ content' = build
  /\ pending' = FALSE /\ left' = FALSE /\ stayed' = FALSE

\* PageCache.load: a page still on its way is not asked for again.
OnItsWay(page) == {w \in waits : w.page = page /\ w.kept}

\* A prefetch that a `go` joins is that one's fetch from then on.
Awaited(page) == {w \in waits : w.page = page => w.token # Ahead}

\* `go`, up to the answer it waits for.
Await(page, traverse) ==
  /\ token' = token + 1 /\ pending' = TRUE
  /\ LET since == IF OnItsWay(page) = {} THEN live
                  ELSE (CHOOSE w \in OnItsWay(page) : TRUE).asked IN
     waits' = Awaited(page) \cup {[token |-> token + 1, page |-> page,
       traverse |-> traverse, asked |-> since, kept |-> TRUE,
       beside |-> \E w \in OnItsWay(page) : w.beside]}
  /\ UNCHANGED <<shown, content, cache, stayed>>

\* Clicking the link of the page on screen: its top, and whatever is on its
\* way is cancelled.
Stay ==
  /\ token < MaxMoves
  /\ token' = token + 1 /\ pending' = FALSE
  /\ stayed' = (stayed \/ left)
  /\ UNCHANGED <<history, position, shown, content, left, waits, cache>>

\* Clicking another: a page in memory is on screen before the click returns.
Follow(page) ==
  /\ token < MaxMoves /\ page # shown
  /\ \/ /\ cache[page] = None
        /\ Await(page, FALSE)
        /\ UNCHANGED <<history, position, left>>
     \/ /\ InMemory(page)
        /\ token' = token + 1
        /\ Show(page, cache[page]) /\ AddEntry(page)
        /\ UNCHANGED <<waits, cache>>
     \/ OtherRelease(page) /\ Assign(page)

\* Mutant: a page on its way does not make Back more than a change of place.
SamePlace(entry) == entry = shown
SamePage(entry) == entry = shown /\ ~pending

\* popstate: the address bar has moved already, and the page on screen is left.
Traverse(to) ==
  /\ token < MaxMoves
  /\ to \in DOMAIN history /\ position' = to
  /\ \/ /\ SamePage(history[to])
        /\ UNCHANGED <<shown, content, left, token, pending, waits, cache, stayed>>
     \/ /\ ~SamePage(history[to]) /\ cache[history[to]] = None
        /\ Await(history[to], TRUE)
        /\ left' = TRUE
     \/ /\ ~SamePage(history[to]) /\ InMemory(history[to])
        /\ token' = token + 1
        /\ Show(history[to], cache[history[to]])
        /\ UNCHANGED <<waits, cache>>
     \/ /\ ~SamePage(history[to]) /\ OtherRelease(history[to])
        /\ Loaded(history[to], live)
  /\ UNCHANGED history

\* Mutant: whatever lands is shown.
Fresh(w) == w.token # Ahead
\* "An older response never wins."
Latest(w) == w.token = token /\ w.token # Ahead

FallBack(w) ==
  IF w.traverse THEN Loaded(Address, live) /\ UNCHANGED <<history, position>>
                ELSE Assign(w.page)

Remember(w, build) ==
  cache' = IF w.kept THEN [cache EXCEPT ![w.page] = build] ELSE cache

\* One answer settles everybody who waits for the same page.
Answered(w) == w.kept /\ cache[w.page] # None

Arrive(w, build) ==
  /\ build \in IF Answered(w) THEN {cache[w.page]} ELSE w.asked..live
  /\ \/ /\ Latest(w) /\ CanSwap(build)
        /\ Show(w.page, build)
        /\ IF w.traverse THEN UNCHANGED <<history, position>> ELSE AddEntry(w.page)
        /\ waits' = waits \ {w} /\ Remember(w, build)
        /\ UNCHANGED token
     \/ Latest(w) /\ ~CanSwap(build) /\ FallBack(w)
     \/ /\ ~Latest(w)
        /\ waits' = waits \ {w} /\ Remember(w, build)
        /\ UNCHANGED <<history, position, shown, content, left, token, pending,
                       stayed>>

FetchFails(w) ==
  /\ ~Answered(w)
  /\ \/ Latest(w) /\ FallBack(w)
     \/ /\ ~Latest(w)
        /\ waits' = waits \ {w}
        /\ UNCHANGED <<history, position, shown, content, left, token, pending,
                       cache, stayed>>

\* A page fetched ahead of the tap, which a tap may find on its way; `beside`:
\* an earlier request for it, forgotten since, has not been answered.
Prefetch(page) ==
  /\ token < MaxMoves     \* bound: after the last navigation none can join it
  /\ page # shown /\ cache[page] = None /\ OnItsWay(page) = {}
  /\ waits' = waits \cup {[token |-> Ahead, page |-> page, traverse |-> FALSE,
                           asked |-> live, kept |-> TRUE,
                           beside |-> \E w \in waits : w.page = page]}
  /\ UNCHANGED <<history, position, shown, content, left, token, pending, cache,
                 stayed>>

\* navigation.clear(): what is still being fetched is not remembered either.
Cleared ==
  /\ cache' = [p \in Page |-> None]
  /\ waits' = {[w EXCEPT !.kept = FALSE] : w \in {v \in waits : v.token # Ahead}}

Deployed == live < MaxBuild /\ live' = live + 1 /\ UNCHANGED releases

NavNext ==
  \/ /\ \/ Stay
        \/ \E p \in Page : Follow(p) \/ Prefetch(p)
        \/ \E to \in {position - 1, position + 1} : Traverse(to)
        \/ \E w \in waits : FetchFails(w) \/ \E b \in Build : Arrive(w, b)
     /\ UNCHANGED <<releases, live>>
  \/ Deployed /\ UNCHANGED navVars

NavSpec == NavInit /\ [][NavNext]_<<releases, live, navVars>>

-----------------------------------------------------------------------------

NavTypeOK ==
  /\ releases \subseteq Build /\ live \in Build
  /\ history \in Seq(Page) /\ position \in DOMAIN history
  /\ shown \in Page /\ content \in Build
  /\ {left, pending, stayed} \subseteq BOOLEAN
  /\ token \in 0..MaxMoves /\ waits \subseteq Wait
  /\ cache \in [Page -> Build \cup {None}]

OnScreen == shown = Address /\ ~left

\* "Until it lands, the one on screen is no longer current" (index.ts:51):
\* when no page is on its way, the one on screen is the one the address bar
\* names, and what it set up for itself is still running.
ShownIsCurrent == ~pending => OnScreen

\* That holds as long as the reader does not cancel a Back or Forward that is
\* on its way, whatever else overlaps.
ShownIsCurrentUnlessStayed == ~stayed => ShownIsCurrent
=============================================================================
