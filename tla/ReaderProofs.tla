---------------------------- MODULE ReaderProofs ----------------------------
(***************************************************************************)
(* The reader's side of the program, for every value of the constants.  A  *)
(* behaviour of the whole is, seen from each part, one of that part        *)
(* (ReaderBegins, ReaderMoves), so what is proved of a part holds of the   *)
(* specification that TLC checks.                                          *)
(***************************************************************************)
EXTENDS MCReader, FiniteSetTheorems, WellFoundedInduction, TLAPS

-----------------------------------------------------------------------------
(* Composition                                                             *)

LEMMA ReaderBegins ==
  MCInit => /\ Search!Init /\ Articles!Init /\ Worker!Init /\ Feed!Init
            /\ Box!Init /\ Media!Init
BY Zenon DEF MCInit

LEMMA ReaderMoves ==
  ASSUME [MCNext]_mcVars
  PROVE  /\ [Search!Next]_searchVars /\ [Articles!Next]_articleVars
         /\ [Worker!Next]_swVars /\ [Feed!Next]_liveVars
         /\ [Box!Next]_boxVars /\ [Media!Next]_mediaVars
<1>1. CASE UNCHANGED mcVars
  BY Zenon, <1>1 DEF mcVars
<1>2. CASE MCNext
  BY Zenon, <1>2 DEF MCNext
<1> QED BY <1>1, <1>2

-----------------------------------------------------------------------------
(* ServiceWorker.  The last message on its way is the reader's last word,  *)
(* and so is what the worker was last told, unless it was told while it    *)
(* activated.                                                              *)

Final(queue) == queue[Len(queue)]

WorkerInv ==
  /\ Worker!TypeOK
  /\ inbox # <<>> => controlled /\ Final(inbox) = preference
  /\ ~controlled => activation \in {"none", "claiming"}
  /\ activation = "claiming" /\ controlled => inbox # <<>> \/ raced
  /\ activation \in {"reading", "applying"} => inbox # <<>> \/ raced
  /\ activation = "applying" => read # Worker!Null
  /\ activation = "done" =>
       inbox # <<>> \/ raced \/ configuration \in {Worker!Null, preference}
  /\ settingsQueue # <<>> => Final(settingsQueue) = configuration
  /\ settingsQueue = <<>> /\ configuration # Worker!Null => persisted = configuration

LEMMA Queues ==
  ASSUME NEW Q
  PROVE  /\ <<>> \in Seq(Q)
         /\ \A q \in Q : <<q>> \in Seq(Q) /\ <<q>> # <<>> /\ Final(<<q>>) = q
         /\ \A s \in Seq(Q), q \in Q :
              /\ Append(s, q) \in Seq(Q) /\ Append(s, q) # <<>>
              /\ Final(Append(s, q)) = q
         /\ \A s \in Seq(Q) : s # <<>> =>
              /\ Head(s) \in Q /\ Tail(s) \in Seq(Q)
              /\ Tail(s) = <<>> => Final(s) = Head(s)
              /\ Tail(s) # <<>> => Final(Tail(s)) = Final(s)
<1>1. <<>> \in Seq(Q)
  OBVIOUS
<1>2. \A q \in Q : <<q>> \in Seq(Q) /\ <<q>> # <<>> /\ Final(<<q>>) = q
  BY DEF Final
<1>3. ASSUME NEW s \in Seq(Q), NEW q \in Q
      PROVE  /\ Append(s, q) \in Seq(Q) /\ Append(s, q) # <<>>
             /\ Final(Append(s, q)) = q
  <2>1. Append(s, q) \in Seq(Q) /\ Len(Append(s, q)) = Len(s) + 1
        /\ Append(s, q)[Len(s) + 1] = q
    OBVIOUS
  <2> QED BY <2>1 DEF Final
<1>4. ASSUME NEW s \in Seq(Q), s # <<>>
      PROVE  /\ Head(s) \in Q /\ Tail(s) \in Seq(Q)
             /\ Tail(s) = <<>> => Final(s) = Head(s)
             /\ Tail(s) # <<>> => Final(Tail(s)) = Final(s)
  <2>1. /\ Head(s) = s[1] /\ Head(s) \in Q /\ Tail(s) \in Seq(Q)
        /\ Len(s) \in Nat /\ Len(Tail(s)) = Len(s) - 1
        /\ \A i \in 1..Len(s) - 1 : Tail(s)[i] = s[i + 1]
    BY <1>4
  <2>2. Tail(s) = <<>> => Len(s) = 1
    BY <2>1
  <2>3. Tail(s) # <<>> => Len(s) - 1 \in 1..Len(s) - 1 /\ (Len(s) - 1) + 1 = Len(s)
    BY <2>1
  <2> QED BY <2>1, <2>2, <2>3 DEF Final
<1> QED BY <1>1, <1>2, <1>3, <1>4

LEMMA WorkerBegins == ASSUME Worker!WorkerAssumption, Worker!Init PROVE WorkerInv
<1>1. 0 \in Worker!Count /\ 0 \in 0..MaxChanges /\ 0 \in 0..MaxWorkers
      /\ 0 \in 0..MaxKills
  BY DEF Worker!WorkerAssumption, Worker!Count
<1>2. <<>> \in Seq(Worker!Count)
  BY Queues
<1> QED BY <1>1, <1>2 DEF Worker!Init, WorkerInv, Worker!TypeOK

\* What `configureOffline` makes of a count.
LEMMA Configured ==
  ASSUME Worker!WorkerAssumption, WorkerInv, NEW n \in Worker!Count,
         Worker!ConfigureOffline(n)
  PROVE  /\ configuration' = n /\ n # Worker!Null /\ task' \in BOOLEAN
         /\ settingsQueue' \in Seq(Worker!Count)
         /\ settingsQueue' # <<>> => Final(settingsQueue') = n
         /\ settingsQueue' = <<>> => persisted = n
<1>1. n # Worker!Null
  BY DEF Worker!WorkerAssumption, Worker!Count, Worker!Null
<1>2. settingsQueue \in Seq(Worker!Count) /\ task \in BOOLEAN
  BY DEF WorkerInv, Worker!TypeOK
<1>3. CASE configuration = n /\ task
  BY <1>1, <1>2, <1>3 DEF WorkerInv, Worker!ConfigureOffline
<1>4. CASE ~(configuration = n /\ task)
  <2>1. configuration' = n /\ task' = TRUE
        /\ settingsQueue' = Append(settingsQueue, n)
    BY <1>4 DEF Worker!ConfigureOffline, Worker!Enqueued
  <2>2. /\ Append(settingsQueue, n) \in Seq(Worker!Count)
        /\ Append(settingsQueue, n) # <<>> /\ Final(Append(settingsQueue, n)) = n
    BY <1>2, Queues
  <2> QED BY <1>1, <2>1, <2>2
<1> QED BY <1>3, <1>4

LEMMA WorkerKeeps ==
  ASSUME Worker!WorkerAssumption, WorkerInv, [Worker!Next]_swVars
  PROVE  WorkerInv'
<1> USE DEF Worker!pageVars, Worker!workerVars, Worker!boundVars
<1>0. /\ inbox \in Seq(Worker!Count) /\ settingsQueue \in Seq(Worker!Count)
      /\ preference \in Worker!Count
      /\ read \in Worker!Count \cup {Worker!Null}
  BY DEF WorkerInv, Worker!TypeOK
<1>1. CASE UNCHANGED swVars
  BY <1>1 DEF swVars, WorkerInv, Worker!TypeOK
<1>2. ASSUME NEW n \in Worker!Count, Worker!Prefer(n) PROVE WorkerInv'
  <2>1. changes' \in 0..MaxChanges
    BY <1>2 DEF Worker!Prefer, WorkerInv, Worker!TypeOK, Worker!WorkerAssumption
  <2>2. inbox' \in Seq(Worker!Count) /\ (inbox' # <<>> => Final(inbox') = n)
        /\ (controlled => inbox' # <<>>)
    BY <1>0, <1>2, Queues DEF Worker!Prefer, WorkerInv
  <2>3. Worker!TypeOK'
    BY <1>2, <2>1, <2>2 DEF Worker!Prefer, WorkerInv, Worker!TypeOK
  <2> QED BY <1>2, <2>2, <2>3 DEF Worker!Prefer, WorkerInv
<1>3. CASE Worker!BeginActivation
  <2>1. workers' \in 0..MaxWorkers
    BY <1>3 DEF Worker!BeginActivation, WorkerInv, Worker!TypeOK,
                Worker!WorkerAssumption
  <2>2. /\ inbox' \in Seq(Worker!Count) /\ <<>> \in Seq(Worker!Count)
        /\ controlled => inbox' # <<>> /\ Final(inbox') = preference
        /\ ~controlled => inbox' = <<>>
    BY <1>0, <1>3, Queues DEF Worker!BeginActivation, Worker!Announced
  <2>3. Worker!TypeOK'
    BY <1>3, <2>1, <2>2
    DEF Worker!BeginActivation, Worker!Fresh, WorkerInv, Worker!TypeOK
  <2> QED BY <1>3, <2>2, <2>3
          DEF Worker!BeginActivation, Worker!Fresh, WorkerInv
<1>4. CASE Worker!Claim
  <2>1. /\ inbox' \in Seq(Worker!Count)
        /\ inbox' # <<>> => Final(inbox') = preference
        /\ inbox' # <<>> \/ raced
    BY <1>0, <1>4, Queues DEF Worker!Claim, Worker!Announced, WorkerInv
  <2>2. Worker!TypeOK'
    BY <1>4, <2>1 DEF Worker!Claim, WorkerInv, Worker!TypeOK
  <2> QED BY <1>4, <2>1, <2>2 DEF Worker!Claim, WorkerInv
<1>5. CASE Worker!ReadCount
  <2>1. read' \in Worker!Count
    BY <1>5 DEF Worker!ReadCount, WorkerInv, Worker!TypeOK, Worker!Default,
                Worker!Count, Worker!WorkerAssumption
  <2>2. read' # Worker!Null
    BY <2>1 DEF Worker!Null, Worker!Count, Worker!WorkerAssumption
  <2>3. Worker!TypeOK'
    BY <1>5, <2>1 DEF Worker!ReadCount, WorkerInv, Worker!TypeOK
  <2> QED BY <1>5, <2>2, <2>3 DEF Worker!ReadCount, WorkerInv
<1>6. CASE Worker!ApplyCount
  <2>1. read \in Worker!Count /\ Worker!ConfigureOffline(read)
    BY <1>0, <1>6 DEF Worker!ApplyCount, WorkerInv
  <2>2. /\ configuration' = read /\ task' \in BOOLEAN
        /\ settingsQueue' \in Seq(Worker!Count)
        /\ settingsQueue' # <<>> => Final(settingsQueue') = configuration'
        /\ settingsQueue' = <<>> => persisted = configuration'
    BY <2>1, Configured
  <2>3. Worker!TypeOK'
    BY <1>6, <2>1, <2>2 DEF Worker!ApplyCount, WorkerInv, Worker!TypeOK
  <2> QED BY <1>6, <2>2, <2>3 DEF Worker!ApplyCount, WorkerInv
<1>7. CASE Worker!HandleMessage
  <2>1. /\ Head(inbox) \in Worker!Count /\ Tail(inbox) \in Seq(Worker!Count)
        /\ Tail(inbox) = <<>> => Head(inbox) = preference
        /\ Tail(inbox) # <<>> => Final(Tail(inbox)) = preference
    BY <1>0, <1>7, Queues DEF Worker!HandleMessage, WorkerInv
  <2>2. /\ configuration' = Head(inbox) /\ task' \in BOOLEAN
        /\ settingsQueue' \in Seq(Worker!Count)
        /\ settingsQueue' # <<>> => Final(settingsQueue') = configuration'
        /\ settingsQueue' = <<>> => persisted = configuration'
    BY <1>7, <2>1, Configured DEF Worker!HandleMessage
  <2>3. Worker!TypeOK'
    BY <1>7, <2>1, <2>2 DEF Worker!HandleMessage, WorkerInv, Worker!TypeOK
  <2> QED BY <1>7, <2>1, <2>2, <2>3 DEF Worker!HandleMessage, WorkerInv
<1>8. CASE Worker!StoreCount
  <2>1. /\ Head(settingsQueue) \in Worker!Count
        /\ Tail(settingsQueue) \in Seq(Worker!Count)
        /\ Tail(settingsQueue) = <<>> => Head(settingsQueue) = configuration
        /\ Tail(settingsQueue) # <<>> => Final(Tail(settingsQueue)) = configuration
    BY <1>0, <1>8, Queues DEF Worker!StoreCount, WorkerInv
  <2>2. Worker!TypeOK'
    BY <1>8, <2>1 DEF Worker!StoreCount, WorkerInv, Worker!TypeOK
  <2> QED BY <1>8, <2>1, <2>2 DEF Worker!StoreCount, WorkerInv
<1>9. CASE Worker!TaskDone
  BY <1>9 DEF Worker!TaskDone, WorkerInv, Worker!TypeOK
<1>10. CASE Worker!Kill
  <2>1. workerKills' \in 0..MaxKills /\ <<>> \in Seq(Worker!Count)
    BY <1>10, Queues DEF Worker!Kill, WorkerInv, Worker!TypeOK,
                         Worker!WorkerAssumption
  <2>2. Worker!TypeOK'
    BY <1>10, <2>1 DEF Worker!Kill, Worker!Fresh, WorkerInv, Worker!TypeOK
  <2> QED BY <1>10, <2>2 DEF Worker!Kill, Worker!Fresh, WorkerInv
<1>11. CASE Worker!Reload
  <2>1. inbox' \in Seq(Worker!Count) /\ inbox' # <<>> /\ Final(inbox') = preference
    BY <1>0, <1>11, Queues DEF Worker!Reload
  <2>2. Worker!TypeOK'
    BY <1>11, <2>1 DEF Worker!Reload, WorkerInv, Worker!TypeOK
  <2> QED BY <1>11, <2>1, <2>2 DEF Worker!Reload, WorkerInv
<1> QED
  BY <1>1, <1>2, <1>3, <1>4, <1>5, <1>6, <1>7, <1>8, <1>9, <1>10, <1>11
  DEF Worker!Next, Worker!Worker

LEMMA WorkerHolds == MCSpec => []WorkerInv
<1>1. Worker!WorkerAssumption
  BY ReaderAssumption
<1>2. MCInit => WorkerInv
  BY <1>1, ReaderBegins, WorkerBegins
<1>3. WorkerInv /\ [MCNext]_mcVars => WorkerInv'
  BY <1>1, ReaderMoves, WorkerKeeps
<1> QED BY <1>2, <1>3, PTL DEF MCSpec

\* Whatever the order of changes, messages, new workers and kills, a worker at
\* rest has the reader's last count in memory and in storage, unless it handled
\* its last message while it activated, for any bounds
\* (src/web/src/offline/client.svelte.ts, src/web/src/sw/worker.ts).
THEOREM PreferencesReach == MCSpec => []PreferenceReachedAfterActivation
<1>1. WorkerInv => PreferenceReachedAfterActivation
  BY DEF WorkerInv, PreferenceReachedAfterActivation,
         Worker!PreferenceReachedAfterActivation, Worker!PreferenceReached,
         Worker!AtRest
<1> QED BY <1>1, WorkerHolds, PTL

-----------------------------------------------------------------------------
(* LiveFeed: navigation.  A page that is on its way and may still be shown *)
(* in the place of the one on screen was asked for on leaving that one, so *)
(* nothing has replaced its rows since, and its answer is no older.        *)

Entry == history[position]

NavTypes ==
  /\ live \in Feed!Build /\ history \in Seq(Page) /\ position \in DOMAIN history
  /\ shown \in Page /\ content \in Feed!Build /\ content <= live
  /\ left \in BOOLEAN /\ pending \in BOOLEAN /\ stayed \in BOOLEAN
  /\ token \in 0..MaxMoves /\ waits \subseteq Feed!Wait
  /\ cache \in [Page -> Feed!Build \cup {Feed!None}]
  /\ \A p \in Page : cache[p] <= live

Call(w) == w.token # Feed!Ahead

\* The latest navigation has at most one page on its way, at the address; none
\* that is not to be kept was asked for after one that is.
Requests ==
  /\ \A w \in waits : /\ w.token <= token /\ w.asked <= live
                      /\ Feed!Latest(w) => pending
                      /\ Feed!Latest(w) /\ w.traverse => w.page = Entry
  /\ \A v, w \in waits : Call(v) /\ Call(w) =>
                           /\ v.token = w.token => v = w
                           /\ v.kept /\ ~w.kept => w.token < v.token

\* A prefetch is to be kept.  One whose page nothing else was asked for is of
\* a page that is neither on screen nor in memory.  Requests for one page that
\* are to be kept share one fetch.
Prefetches ==
  /\ \A w \in waits : ~Call(w) => w.kept
  /\ \A w \in waits : ~Call(w) /\ ~w.beside =>
       /\ w.page # shown /\ cache[w.page] = Feed!None
       /\ \A v \in waits : v.page = w.page => v = w
  /\ \A v, w \in waits : v.kept /\ w.kept /\ v.page = w.page => v.beside = w.beside

\* A request for the page on screen.
Again(w) ==
  /\ w.kept /\ cache[shown] = Feed!None => left /\ content <= w.asked
  /\ w.token = token =>
       /\ left /\ content <= w.asked
       /\ w.kept /\ cache[shown] # Feed!None => content <= cache[shown]
Newer == \A w \in waits : w.page = shown /\ Call(w) /\ ~w.beside => Again(w)

Placed == ~stayed => (pending \/ ~left) /\ (left \/ shown = Entry)

NavInv == NavTypes /\ Requests /\ Prefetches /\ Newer /\ Placed

Onward ==
  shown' = shown /\ token' = token /\ ~Feed!LandsBeside => content' >= content

LEMMA Builds ==
  ASSUME Feed!FeedAssumption
  PROVE  /\ Feed!Build \subseteq Nat /\ 1 \in Feed!Build /\ Feed!None = 0
         /\ Feed!None \notin Feed!Build
         /\ MaxMoves \in Nat /\ MaxBuild \in Nat
         /\ \A b : b \in Feed!Build <=> b \in Nat /\ 1 <= b /\ b <= MaxBuild
BY DEF Feed!FeedAssumption, Feed!NavigationAssumption, Feed!Build, Feed!None

LEMMA WaitIs ==
  \A w \in Feed!Wait : /\ w.token \in Nat /\ w.page \in Page
                       /\ w.traverse \in BOOLEAN /\ w.kept \in BOOLEAN
                       /\ w.asked \in Feed!Build /\ w.beside \in BOOLEAN
BY DEF Feed!Wait

LEMMA NavBegins == ASSUME Feed!FeedAssumption, Feed!NavInit PROVE NavInv
<1>1. 1 \in Feed!Build /\ 0 \in 0..MaxMoves /\ Feed!None = 0 /\ 1 <= 1 /\ 0 <= 1
  BY Builds
<1>2. history \in Seq(Page)
  <2>1. PICK n \in 1..MaxEntries : history \in [1..n -> Page]
    BY DEF Feed!NavInit
  <2> QED BY <2>1
<1>3. Entry \in Page
  BY <1>2 DEF Entry, Feed!NavInit
<1>4. NavTypes
  BY <1>1, <1>2, <1>3 DEF NavTypes, Feed!NavInit, Feed!Address, Entry
<1> QED BY <1>4 DEF NavInv, Requests, Prefetches, Newer, Placed, Feed!NavInit,
                    Feed!Address, Entry

\* The browser loads a page: it is on screen, at the address, and nothing else
\* is on its way.
LEMMA LoadedKeeps ==
  ASSUME Feed!FeedAssumption, NavInv, NEW page \in Page, Feed!Loaded(page, live),
         UNCHANGED live, history' \in Seq(Page), position' \in DOMAIN history',
         Entry' = page
  PROVE  NavInv' /\ content' = live
<1>1. NavTypes'
  <2>1. live \in Nat /\ Feed!None <= live
    BY Builds DEF NavInv, NavTypes
  <2>2. cache' = [p \in Page |-> Feed!None]
    BY DEF Feed!Loaded
  <2>3. /\ cache' \in [Page -> Feed!Build \cup {Feed!None}]
        /\ \A p \in Page : cache'[p] <= live
    BY <2>1, <2>2
  <2>4. content' = live /\ shown' = page /\ token' = token /\ waits' = {}
        /\ {left', pending', stayed'} \subseteq BOOLEAN
    BY DEF Feed!Loaded
  <2> QED BY <2>1, <2>3, <2>4 DEF NavInv, NavTypes
<1> QED BY <1>1 DEF NavInv, Requests, Prefetches, Newer, Placed, Feed!Loaded

\* A page that is in memory replaces the one on screen at once.
LEMMA ShownKeeps ==
  ASSUME Feed!FeedAssumption, NavInv, NEW page \in Page,
         cache[page] # Feed!None, Feed!Show(page, cache[page]),
         token < MaxMoves, token' = token + 1,
         UNCHANGED <<live, waits, cache>>,
         history' \in Seq(Page), position' \in DOMAIN history', Entry' = page
  PROVE  NavInv'
<1>1. NavTypes'
  <2>1. token' \in 0..MaxMoves
    BY Builds DEF NavInv, NavTypes
  <2>2. cache[page] \in Feed!Build /\ cache[page] <= live
    BY DEF NavInv, NavTypes
  <2> QED BY <2>1, <2>2 DEF NavInv, NavTypes, Feed!Show
<1>2. \A w \in waits : w.token <= token' /\ w.token # token'
  BY WaitIs, Builds DEF NavInv, NavTypes, Requests
<1>3. Requests'
  BY <1>2 DEF NavInv, Requests, Feed!Latest
<1>4. Newer'
  BY <1>2 DEF Newer, Again, Feed!Show
<1>5. Placed'
  BY DEF Placed, Feed!Show
<1>6. Prefetches'
  BY DEF NavInv, Prefetches, Feed!Show
<1> QED BY <1>1, <1>3, <1>4, <1>5, <1>6 DEF NavInv

\* `go` waits for a page.
LEMMA AwaitKeeps ==
  ASSUME Feed!FeedAssumption, NavInv, NEW page \in Page, NEW traverse \in BOOLEAN,
         Feed!Await(page, traverse), UNCHANGED <<live, history>>,
         cache[page] = Feed!None, token < MaxMoves,
         IF traverse THEN left' = TRUE /\ position' \in DOMAIN history /\ Entry' = page
                     ELSE page # shown /\ UNCHANGED <<left, position>>
  PROVE  NavInv'
<1> DEFINE since == IF Feed!OnItsWay(page) = {} THEN live
                    ELSE (CHOOSE w \in Feed!OnItsWay(page) : TRUE).asked
           besides == \E w \in Feed!OnItsWay(page) : w.beside
           others == {w \in waits : w.page = page => w.token # Feed!Ahead}
<1>0. PICK new : new = [token |-> token + 1, page |-> page,
                       traverse |-> traverse, asked |-> since, kept |-> TRUE,
                       beside |-> besides]
  OBVIOUS
<1>1. /\ token' = token + 1 /\ pending' = TRUE /\ waits' = others \cup {new}
      /\ UNCHANGED <<shown, content, cache, stayed>>
  BY Zenon, <1>0 DEF Feed!Await, Feed!Awaited
<1>2. /\ since \in Feed!Build /\ since <= live /\ besides \in BOOLEAN
      /\ page = shown /\ ~besides => content <= since
  <2>1. CASE Feed!OnItsWay(page) = {}
    BY <2>1, Builds DEF NavInv, NavTypes
  <2>2. CASE Feed!OnItsWay(page) # {}
    <3>1. PICK w \in waits : w.page = page /\ w.kept /\ since = w.asked
                             /\ w \in Feed!OnItsWay(page)
      BY <2>2 DEF Feed!OnItsWay
    <3>2. w.asked \in Feed!Build /\ w.asked <= live
      BY <3>1, WaitIs DEF NavInv, NavTypes, Requests
    <3>3. page = shown /\ ~besides => content <= w.asked
      <4> SUFFICES ASSUME page = shown, ~besides PROVE content <= w.asked
        OBVIOUS
      <4>1. ~w.beside
        BY <3>1
      <4>2. Call(w)
        BY <3>1, <4>1 DEF NavInv, Prefetches
      <4> QED BY <3>1, <4>1, <4>2 DEF NavInv, Newer, Again
    <3> QED BY <3>1, <3>2, <3>3
  <2> QED BY <2>1, <2>2
<1>22. /\ \A w \in others : w.page = page => Call(w)
       /\ \A w \in others : w.page = page /\ w.kept => w.beside = besides
       /\ others \subseteq waits
  <2>1. ASSUME NEW w \in others, w.page = page, w.kept PROVE w.beside = besides
    <3>1. w \in Feed!OnItsWay(page) /\ w.beside \in BOOLEAN
      BY <2>1, WaitIs DEF Feed!OnItsWay, NavInv, NavTypes
    <3>2. \A v \in Feed!OnItsWay(page) : v.beside = w.beside
      BY <2>1 DEF Feed!OnItsWay, NavInv, Prefetches
    <3> QED BY <3>1, <3>2
  <2> QED BY <2>1 DEF Call
<1> HIDE DEF since, besides, others
<1>3. /\ new \in Feed!Wait /\ new.token = token + 1 /\ new.page = page
      /\ new.traverse = traverse /\ new.asked = since /\ new.kept = TRUE
      /\ new.beside = besides
  BY <1>0, <1>2, Builds DEF NavInv, NavTypes, Feed!Wait
<1>4. /\ token \in Nat /\ token' \in 0..MaxMoves /\ Feed!Ahead = 0
      /\ \A w \in others : w.token \in Nat /\ w.token < token'
  BY <1>1, <1>22, WaitIs, Builds DEF NavInv, NavTypes, Requests, Feed!Ahead
<1>5. NavTypes'
  BY <1>1, <1>3, <1>4, <1>22 DEF NavInv, NavTypes
<1>6. Requests'
  <2>1. \A w \in waits' : /\ w.token <= token' /\ w.asked <= live
                          /\ w.token = token' => w = new
    BY <1>1, <1>2, <1>3, <1>4, <1>22 DEF NavInv, Requests
  <2>2. new.token = token' /\ new.token \in Nat /\ (new.traverse => new.page = Entry')
    BY <1>1, <1>3, <1>4
  <2>3. ASSUME NEW v \in waits', NEW w \in waits', Call(v), Call(w)
        PROVE  /\ v.token = w.token => v = w
               /\ v.kept /\ ~w.kept => w.token < v.token
    BY <1>1, <1>3, <1>4, <1>22, <2>2, <2>3 DEF NavInv, Requests
  <2>4. \A w \in waits' : /\ w.token <= token' /\ w.asked <= live
                          /\ w.token = token' => pending'
                          /\ w.token = token' /\ w.traverse => w.page = Entry'
    BY <1>1, <2>1, <2>2
  <2> QED BY <2>3, <2>4 DEF Requests, Call, Feed!Latest
<1>7. Newer'
  <2>1. ASSUME NEW w \in others, w.page = shown, Call(w), ~w.beside PROVE Again(w)'
    BY <1>1, <1>4, <1>22, <2>1 DEF NavInv, Newer, Again
  <2>2. new.page = shown /\ ~new.beside => Again(new)'
    BY <1>1, <1>2, <1>3, <1>4 DEF Again
  <2> QED BY <1>1, <2>1, <2>2 DEF Newer, Call
<1>8. Placed'
  BY <1>1 DEF NavInv, Placed, Entry
<1>9. Prefetches'
  <2>1. \A w \in waits' : ~Call(w) => w \in waits /\ w.page # page
    BY <1>1, <1>3, <1>4, <1>22 DEF Call
  <2>2. \A w \in waits' : ~Call(w) => w.kept
    BY <2>1 DEF NavInv, Prefetches
  <2>3. ASSUME NEW w \in waits', ~Call(w), ~w.beside
        PROVE  /\ w.page # shown /\ cache[w.page] = Feed!None
               /\ \A v \in waits' : v.page = w.page => v = w
    BY <1>1, <1>3, <1>22, <2>1, <2>3 DEF NavInv, Prefetches
  <2>4. ASSUME NEW v \in waits', NEW w \in waits', v.kept, w.kept, v.page = w.page
        PROVE  v.beside = w.beside
    <3>1. CASE v \in others /\ w \in others
      BY <1>22, <2>4, <3>1 DEF NavInv, Prefetches
    <3>2. CASE v = new /\ w \in others
      BY <1>3, <1>22, <2>4, <3>2
    <3>3. CASE v \in others /\ w = new
      BY <1>3, <1>22, <2>4, <3>3
    <3>4. CASE v = new /\ w = new
      BY <3>4
    <3> QED BY <1>1, <3>1, <3>2, <3>3, <3>4
  <2> QED BY <1>1, <2>2, <2>3, <2>4 DEF Prefetches, Call
<1> QED BY <1>5, <1>6, <1>7, <1>8, <1>9 DEF NavInv

LEMMA EntryAdded ==
  ASSUME NavTypes, NEW page \in Page, Feed!AddEntry(page)
  PROVE  history' \in Seq(Page) /\ position' \in DOMAIN history' /\ Entry' = page
<1>1. history \in Seq(Page) /\ position \in 1..Len(history) /\ Len(history) \in Nat
  BY DEF NavTypes
<1> DEFINE upTo == SubSeq(history, 1, position)
<1>2. upTo \in Seq(Page) /\ Len(upTo) = position
  BY <1>1
<1> HIDE DEF upTo
<1>3. history' = Append(upTo, page) /\ position' = position + 1
  BY DEF Feed!AddEntry, upTo
<1> QED BY <1>1, <1>2, <1>3 DEF Entry

LEMMA Assigned ==
  ASSUME Feed!FeedAssumption, NavInv, NEW page \in Page, Feed!Assign(page),
         UNCHANGED live
  PROVE  NavInv' /\ content' = live /\ shown' = page
<1>1. history' \in Seq(Page) /\ position' \in DOMAIN history' /\ Entry' = page
  BY DEF Feed!Assign, Entry
<1>2. Feed!Loaded(page, live)
  BY DEF Feed!Assign
<1> QED BY <1>1, <1>2, LoadedKeeps DEF Feed!Loaded

\* An answer, or none, that nobody waits for any more.
LEMMA DroppedKeeps ==
  ASSUME Feed!FeedAssumption, NavInv, NEW w \in waits, waits' = waits \ {w},
         UNCHANGED <<live, history, position, shown, content, left, token,
                     pending, stayed>>,
         NEW build, build \in IF Feed!Answered(w) THEN {cache[w.page]}
                              ELSE w.asked..live,
         cache' = cache \/ Feed!Remember(w, build)
  PROVE  NavInv'
<1>1. w.page \in Page /\ w.asked \in Feed!Build /\ w.kept \in BOOLEAN
  BY WaitIs DEF NavInv, NavTypes
<1>2. CASE cache' = cache
  <2>1. NavTypes' /\ Requests' /\ Placed'
    BY <1>2 DEF NavInv, NavTypes, Requests, Placed, Entry, Feed!Latest
  <2>2. Newer' /\ Prefetches'
    BY <1>2 DEF NavInv, Newer, Again, Prefetches
  <2> QED BY <2>1, <2>2 DEF NavInv
<1>3. CASE w.kept /\ cache' = [cache EXCEPT ![w.page] = build]
  <2>1. build \in Feed!Build /\ build <= live
    <3>1. CASE Feed!Answered(w)
      BY <1>1, <3>1 DEF NavInv, NavTypes, Feed!Answered
    <3>2. CASE ~Feed!Answered(w)
      BY <1>1, <3>2, Builds DEF NavInv, NavTypes
    <3> QED BY <3>1, <3>2
  <2>2. /\ cache' \in [Page -> Feed!Build \cup {Feed!None}]
        /\ \A p \in Page : cache'[p] = IF p = w.page THEN build ELSE cache[p]
    BY <1>3, <2>1 DEF NavInv, NavTypes
  <2>3. NavTypes'
    BY <2>1, <2>2 DEF NavInv, NavTypes
  <2>4. Requests' /\ Placed'
    BY DEF NavInv, Requests, Placed, Entry, Feed!Latest
  <2>5. ASSUME NEW v \in waits, v.page = shown, Call(v), ~v.beside PROVE Again(v)'
    <3>1. Again(v)
      BY <2>5 DEF NavInv, Newer
    <3>2. shown \in Page
      BY DEF NavInv, NavTypes
    <3>3. CASE w.page # shown \/ Feed!Answered(w)
      <4>1. cache'[shown] = cache[shown]
        BY <2>2, <3>2, <3>3 DEF Feed!Answered
      <4> QED BY <3>1, <4>1 DEF Again
    <3>4. CASE w.page = shown /\ ~Feed!Answered(w) /\ w.beside
      <4>1. ~v.kept
        BY <1>3, <2>5, <3>4 DEF NavInv, Prefetches
      <4> QED BY <3>1, <4>1 DEF Again
    <3>5. CASE w.page = shown /\ ~Feed!Answered(w) /\ ~w.beside
      <4>0. Call(w)
        BY <3>5 DEF NavInv, Prefetches
      <4>1. cache[shown] = Feed!None /\ content <= w.asked
        BY <1>3, <3>5, <4>0 DEF NavInv, Newer, Again, Feed!Answered
      <4>2. cache'[shown] = build /\ build \in Feed!Build /\ content <= build
        BY <1>1, <2>1, <2>2, <3>2, <3>5, <4>1, Builds DEF NavInv, NavTypes
      <4> QED BY <3>1, <4>2, Builds DEF Again
    <3> QED BY <3>3, <3>4, <3>5
  <2>6. Newer'
    BY <2>5 DEF Newer
  <2>7. Prefetches'
    <3>1. \A v \in waits' : ~Call(v) /\ ~v.beside => v.page # w.page
      BY DEF NavInv, Prefetches
    <3> QED BY <2>2, <3>1, WaitIs DEF NavInv, NavTypes, Prefetches
  <2> QED BY <2>3, <2>4, <2>6, <2>7 DEF NavInv
<1> QED BY <1>1, <1>2, <1>3 DEF Feed!Remember

\* The answer to the latest navigation replaces the page on screen.
LEMMA LandedKeeps ==
  ASSUME Feed!FeedAssumption, NavInv, NEW w \in waits, Feed!Latest(w),
         NEW build, build \in IF Feed!Answered(w) THEN {cache[w.page]}
                              ELSE w.asked..live,
         Feed!Show(w.page, build), waits' = waits \ {w}, Feed!Remember(w, build),
         UNCHANGED <<live, token>>,
         IF w.traverse THEN UNCHANGED <<history, position>>
                       ELSE Feed!AddEntry(w.page)
  PROVE  NavInv' /\ Onward
<1>1. /\ w.page \in Page /\ w.asked \in Feed!Build /\ w.kept \in BOOLEAN
      /\ w.traverse \in BOOLEAN
  BY WaitIs DEF NavInv, NavTypes
<1>2. build \in Feed!Build /\ build <= live
  <2>1. CASE Feed!Answered(w)
    BY <1>1, <2>1 DEF NavInv, NavTypes, Feed!Answered
  <2>2. CASE ~Feed!Answered(w)
    BY <1>1, <2>2, Builds DEF NavInv, NavTypes
  <2> QED BY <2>1, <2>2
<1>3. history' \in Seq(Page) /\ position' \in DOMAIN history' /\ Entry' = w.page
  <2>1. CASE w.traverse
    BY <2>1 DEF NavInv, NavTypes, Requests, Entry, Feed!Latest
  <2>2. CASE ~w.traverse
    BY <1>1, <2>2, EntryAdded DEF NavInv
  <2> QED BY <2>1, <2>2
<1>4. /\ shown' = w.page /\ content' = build
      /\ pending' = FALSE /\ left' = FALSE /\ stayed' = FALSE
  BY DEF Feed!Show
<1>5. /\ cache' \in [Page -> Feed!Build \cup {Feed!None}]
      /\ \A p \in Page : cache'[p] =
           IF w.kept /\ p = w.page THEN build ELSE cache[p]
  BY <1>1, <1>2 DEF NavInv, NavTypes, Feed!Remember
<1>6. NavTypes'
  BY <1>1, <1>2, <1>3, <1>4, <1>5 DEF NavInv, NavTypes
<1>7. \A v \in waits' : ~Feed!Latest(v) /\ v.token <= token
  BY DEF NavInv, Requests, Feed!Latest, Call
<1>8. Requests'
  BY <1>7 DEF NavInv, Requests, Feed!Latest
<1>9. Newer'
  <2>1. ASSUME NEW v \in waits', v.kept, Call(v) PROVE w.kept
    <3>1. v \in waits /\ v.token \in Nat /\ w.token \in Nat /\ w.token = token
      BY WaitIs DEF NavInv, NavTypes, Feed!Latest
    <3> QED BY <1>1, <2>1, <3>1, <1>7 DEF NavInv, Requests, Call, Feed!Latest
  <2>2. w.kept => cache'[w.page] # Feed!None
    BY <1>1, <1>2, <1>5, Builds
  <2> QED BY <1>4, <1>7, <2>1, <2>2 DEF Newer, Again, Call, Feed!Latest
<1>10. Placed'
  BY <1>3, <1>4 DEF Placed
<1>11. Onward
  <2> SUFFICES ASSUME w.page = shown, ~w.beside PROVE build >= content
    BY <1>4 DEF Onward, Feed!LandsBeside
  <2>1. /\ content <= w.asked
        /\ w.kept /\ cache[shown] # Feed!None => content <= cache[shown]
    BY DEF NavInv, Newer, Again, Feed!Latest, Call
  <2>2. content \in Nat /\ w.asked \in Nat /\ build \in Nat
    BY <1>1, <1>2, Builds DEF NavInv, NavTypes
  <2>3. CASE Feed!Answered(w)
    BY <2>1, <2>2, <2>3 DEF Feed!Answered
  <2>4. CASE ~Feed!Answered(w)
    BY <2>1, <2>2, <2>4
  <2> QED BY <2>3, <2>4
<1>12. Prefetches'
  <2>1. \A v \in waits' : ~Call(v) /\ ~v.beside => v.page # w.page
    BY DEF NavInv, Prefetches
  <2>2. \A v \in waits' : v.page # w.page => cache'[v.page] = cache[v.page]
    BY <1>5, WaitIs DEF NavInv, NavTypes
  <2>3. \A v \in waits' : ~Call(v) /\ ~v.beside =>
          v.page # shown' /\ cache'[v.page] = Feed!None
    BY <1>4, <2>1, <2>2 DEF NavInv, Prefetches
  <2> QED BY <2>3 DEF NavInv, Prefetches
<1> QED BY <1>6, <1>8, <1>9, <1>10, <1>11, <1>12 DEF NavInv

LEMMA StayKeeps ==
  ASSUME Feed!FeedAssumption, NavInv, Feed!Stay, UNCHANGED live
  PROVE  NavInv'
<1>1. \A w \in waits : w.token <= token' /\ w.token # token'
  BY WaitIs, Builds DEF NavInv, NavTypes, Requests, Feed!Stay
<1>2. NavTypes'
  <2>1. token' \in 0..MaxMoves /\ pending' = FALSE
    BY Builds DEF NavInv, NavTypes, Feed!Stay
  <2>2. stayed' \in BOOLEAN
    BY DEF Feed!Stay
  <2> QED BY <2>1, <2>2 DEF NavInv, NavTypes, Feed!Stay
<1>3. Requests'
  BY <1>1 DEF NavInv, Requests, Feed!Stay, Feed!Latest
<1>4. Newer'
  BY <1>1 DEF NavInv, Newer, Again, Feed!Stay
<1>5. Placed'
  BY DEF NavInv, NavTypes, Placed, Entry, Feed!Stay
<1>6. Prefetches'
  BY DEF NavInv, Prefetches, Feed!Stay
<1> QED BY <1>2, <1>3, <1>4, <1>5, <1>6 DEF NavInv

LEMMA PrefetchKeeps ==
  ASSUME Feed!FeedAssumption, NavInv, NEW page \in Page, Feed!Prefetch(page),
         UNCHANGED live
  PROVE  NavInv'
<1>0. PICK new : new = [token |-> Feed!Ahead, page |-> page, traverse |-> FALSE,
                       asked |-> live, kept |-> TRUE,
                       beside |-> \E w \in waits : w.page = page]
  OBVIOUS
<1>1. /\ page # shown /\ cache[page] = Feed!None /\ waits' = waits \cup {new}
      /\ \A w \in waits : ~(w.page = page /\ w.kept)
      /\ UNCHANGED <<history, position, shown, content, left, token, pending,
                     cache, stayed>>
  BY Zenon, <1>0 DEF Feed!Prefetch, Feed!OnItsWay
<1>2. /\ new \in Feed!Wait /\ new.token = 0 /\ Feed!Ahead = 0 /\ new.page = page
      /\ new.asked = live /\ new.kept = TRUE
      /\ new.beside = (\E w \in waits : w.page = page)
  BY <1>0 DEF NavInv, NavTypes, Feed!Wait, Feed!Ahead
<1>3. ~Call(new) /\ ~Feed!Latest(new) /\ new.token <= token /\ new.asked <= live
  BY <1>2, Builds DEF NavInv, NavTypes, Call, Feed!Latest
<1>4. NavTypes'
  BY <1>1, <1>2 DEF NavInv, NavTypes
<1>5. Requests'
  BY <1>1, <1>3 DEF NavInv, Requests, Call, Feed!Latest, Entry
<1>6. Newer'
  BY <1>1, <1>3 DEF NavInv, Newer, Again, Call
<1>7. Prefetches'
  <2>1. \A w \in waits' : ~Call(w) => w.kept
    BY <1>1, <1>2 DEF NavInv, Prefetches, Call
  <2>2. ASSUME NEW w \in waits', ~Call(w), ~w.beside
        PROVE  /\ w.page # shown /\ cache[w.page] = Feed!None
               /\ \A v \in waits' : v.page = w.page => v = w
    <3>1. CASE w = new
      <4>1. \A v \in waits : v.page # page
        BY <1>2, <2>2, <3>1
      <4> QED BY <1>1, <1>2, <3>1, <4>1
    <3>2. CASE w \in waits
      <4>1. w.page # page
        BY <1>1, <2>2, <3>2 DEF NavInv, Prefetches
      <4> QED BY <1>1, <1>2, <2>2, <3>2, <4>1 DEF NavInv, Prefetches
    <3> QED BY <1>1, <3>1, <3>2
  <2>3. ASSUME NEW v \in waits', NEW w \in waits', v.kept, w.kept, v.page = w.page
        PROVE  v.beside = w.beside
    BY <1>1, <1>2, <2>3 DEF NavInv, Prefetches
  <2> QED BY <1>1, <2>1, <2>2, <2>3 DEF Prefetches, Call
<1>8. Placed'
  BY <1>1 DEF NavInv, Placed, Entry
<1> QED BY <1>4, <1>5, <1>6, <1>7, <1>8 DEF NavInv

LEMMA FollowKeeps ==
  ASSUME Feed!FeedAssumption, NavInv, NEW page \in Page, Feed!Follow(page),
         UNCHANGED live
  PROVE  NavInv' /\ Onward
<1>1. token < MaxMoves /\ page # shown /\ token \in Nat
  BY Builds DEF NavInv, NavTypes, Feed!Follow
<1>2. CASE /\ cache[page] = Feed!None
           /\ Feed!Await(page, FALSE)
           /\ UNCHANGED <<history, position, left>>
  <2>1. NavInv'
    BY <1>1, <1>2, AwaitKeeps
  <2>2. token' = token + 1
    BY <1>2 DEF Feed!Await
  <2> QED BY <1>1, <2>1, <2>2 DEF Onward
<1>3. CASE /\ Feed!InMemory(page) /\ token' = token + 1
           /\ Feed!Show(page, cache[page]) /\ Feed!AddEntry(page)
           /\ UNCHANGED <<waits, cache>>
  <2>1. cache[page] # Feed!None
    BY <1>3 DEF Feed!InMemory
  <2>2. history' \in Seq(Page) /\ position' \in DOMAIN history' /\ Entry' = page
    BY <1>3, EntryAdded DEF NavInv
  <2>3. NavInv'
    BY <1>1, <1>3, <2>1, <2>2, ShownKeeps
  <2> QED BY <1>1, <1>3, <2>3 DEF Onward
<1>4. CASE Feed!OtherRelease(page) /\ Feed!Assign(page)
  <2>1. NavInv' /\ shown' = page
    BY <1>4, Assigned
  <2> QED BY <1>1, <2>1 DEF Onward
<1> QED BY <1>2, <1>3, <1>4 DEF Feed!Follow

LEMMA Current ==
  ASSUME Feed!FeedAssumption, NavInv
  PROVE  live >= content /\ content >= content
BY Builds DEF NavInv, NavTypes

LEMMA TraverseKeeps ==
  ASSUME Feed!FeedAssumption, NavInv, NEW to, Feed!Traverse(to), UNCHANGED live
  PROVE  NavInv' /\ Onward
<1> DEFINE page == history[to]
<1>1. /\ token < MaxMoves /\ token \in Nat /\ to \in DOMAIN history
      /\ position' = to /\ history' = history /\ page \in Page /\ Entry' = page
      /\ history' \in Seq(Page) /\ position' \in DOMAIN history'
  BY Builds DEF NavInv, NavTypes, Feed!Traverse, Entry
<1>2. CASE /\ Feed!SamePage(page)
           /\ UNCHANGED <<shown, content, left, token, pending, waits, cache,
                          stayed>>
  <2>1. shown = page /\ ~pending
    BY <1>2 DEF Feed!SamePage
  <2>2. NavTypes'
    BY <1>1, <1>2 DEF NavInv, NavTypes
  <2>3. Requests' /\ Newer' /\ Placed'
    BY <1>1, <1>2, <2>1 DEF NavInv, Requests, Newer, Again, Placed, Feed!Latest
  <2>4. Prefetches'
    BY <1>2 DEF NavInv, Prefetches
  <2> QED BY <1>2, <2>2, <2>3, <2>4, Current DEF NavInv, Onward
<1>3. CASE cache[page] = Feed!None /\ Feed!Await(page, TRUE) /\ left' = TRUE
  <2>1. NavInv'
    BY <1>1, <1>3, AwaitKeeps
  <2>2. token' = token + 1
    BY <1>3 DEF Feed!Await
  <2> QED BY <1>1, <2>1, <2>2 DEF Onward
<1>4. CASE /\ Feed!InMemory(page) /\ token' = token + 1
           /\ Feed!Show(page, cache[page]) /\ UNCHANGED <<waits, cache>>
  <2>1. cache[page] # Feed!None
    BY <1>4 DEF Feed!InMemory
  <2>2. NavInv'
    BY <1>1, <1>4, <2>1, ShownKeeps
  <2> QED BY <1>1, <1>4, <2>2 DEF Onward
<1>5. CASE Feed!Loaded(page, live)
  <2>1. NavInv' /\ content' = live
    BY <1>1, <1>5, LoadedKeeps
  <2> QED BY <2>1, Current DEF Onward
<1> QED BY <1>2, <1>3, <1>4, <1>5 DEF Feed!Traverse

LEMMA FallsBack ==
  ASSUME Feed!FeedAssumption, NavInv, NEW w \in waits, Feed!FallBack(w),
         UNCHANGED live
  PROVE  NavInv' /\ Onward
<1>1. w.page \in Page /\ w.traverse \in BOOLEAN
  BY WaitIs DEF NavInv, NavTypes
<1>2. NavInv' /\ content' = live
  <2>1. CASE w.traverse
    <3>1. /\ Feed!Loaded(Entry, live) /\ UNCHANGED <<history, position>>
          /\ Entry \in Page
      BY <2>1 DEF NavInv, NavTypes, Feed!FallBack, Feed!Address, Entry
    <3>2. Entry' = Entry /\ history' \in Seq(Page) /\ position' \in DOMAIN history'
      BY <3>1 DEF NavInv, NavTypes, Entry
    <3>3. PICK page \in Page : page = Entry
      BY <3>1
    <3>4. Feed!Loaded(page, live) /\ Entry' = page
      BY <3>1, <3>2, <3>3
    <3> QED BY <3>2, <3>4, LoadedKeeps
  <2>2. CASE ~w.traverse
    <3>1. Feed!Assign(w.page)
      BY <2>2 DEF Feed!FallBack
    <3> QED BY <1>1, <3>1, Assigned
  <2> QED BY <2>1, <2>2
<1> QED BY <1>2, Current DEF Onward

LEMMA ArriveKeeps ==
  ASSUME Feed!FeedAssumption, NavInv, NEW w \in waits, NEW build,
         Feed!Arrive(w, build), UNCHANGED live
  PROVE  NavInv' /\ Onward
<1>1. build \in IF Feed!Answered(w) THEN {cache[w.page]} ELSE w.asked..live
  BY Zenon DEF Feed!Arrive
<1>2. CASE Feed!Latest(w) /\ Feed!CanSwap(build) /\ waits' = waits \ {w}
  <2>1. /\ Feed!Show(w.page, build) /\ Feed!Remember(w, build) /\ token' = token
        /\ IF w.traverse THEN UNCHANGED <<history, position>>
                         ELSE Feed!AddEntry(w.page)
    BY Zenon, <1>2 DEF Feed!Arrive
  <2> QED BY <1>1, <1>2, <2>1, LandedKeeps
<1>3. CASE Feed!FallBack(w)
  BY <1>3, FallsBack
<1>4. CASE /\ waits' = waits \ {w} /\ Feed!Remember(w, build)
           /\ UNCHANGED <<history, position, shown, content, left, token,
                          pending, stayed>>
  <2>1. NavInv'
    BY <1>1, <1>4, DroppedKeeps
  <2> QED BY <1>4, <2>1, Current DEF Onward
<1> QED BY Zenon, <1>2, <1>3, <1>4 DEF Feed!Arrive

LEMMA FetchFailsKeeps ==
  ASSUME Feed!FeedAssumption, NavInv, NEW w \in waits, Feed!FetchFails(w),
         UNCHANGED live
  PROVE  NavInv' /\ Onward
<1>1. CASE Feed!FallBack(w)
  BY <1>1, FallsBack
<1>2. CASE /\ waits' = waits \ {w}
           /\ UNCHANGED <<history, position, shown, content, left, token,
                          pending, cache, stayed>>
  <2>1. PICK build : build \in IF Feed!Answered(w) THEN {cache[w.page]}
                                                   ELSE w.asked..live
    <3>1. w.asked \in w.asked..live
      BY WaitIs, Builds DEF NavInv, NavTypes, Requests
    <3> QED BY <3>1
  <2>2. NavInv'
    BY <1>2, <2>1, DroppedKeeps
  <2> QED BY <1>2, <2>2, Current DEF Onward
<1> QED BY Zenon, <1>1, <1>2 DEF Feed!FetchFails

\* A build that was not heard of before: nothing in memory is of use.
LEMMA ClearedKeeps ==
  ASSUME Feed!FeedAssumption, NavInv, Feed!Cleared,
         UNCHANGED <<live, history, position, shown, content, left, token,
                     pending, stayed>>
  PROVE  NavInv'
<1>1. /\ cache' = [p \in Page |-> Feed!None]
      /\ waits' = {[w EXCEPT !.kept = FALSE] :
                     w \in {v \in waits : v.token # Feed!Ahead}}
  BY DEF Feed!Cleared
<1>2. \A v \in waits' : \E w \in waits :
        /\ v \in Feed!Wait /\ v.token = w.token /\ v.page = w.page
        /\ v.traverse = w.traverse /\ v.asked = w.asked /\ v.kept = FALSE
        /\ v.beside = w.beside /\ Call(w) /\ Call(v)
        /\ v = [w EXCEPT !.kept = FALSE]
  BY <1>1 DEF NavInv, NavTypes, Feed!Wait, Call
<1>3. NavTypes'
  <2>1. live \in Nat /\ Feed!None <= live
    BY Builds DEF NavInv, NavTypes
  <2>2. /\ cache' \in [Page -> Feed!Build \cup {Feed!None}]
        /\ \A p \in Page : cache'[p] <= live
    BY <1>1, <2>1
  <2> QED BY <1>2, <2>2 DEF NavInv, NavTypes
<1>4. Requests'
  <2>1. \A w \in waits' : /\ w.token <= token /\ w.asked <= live
                          /\ w.token = token => pending
                          /\ w.token = token /\ w.traverse => w.page = Entry
    BY <1>2 DEF NavInv, Requests, Call, Feed!Latest
  <2>2. ASSUME NEW v \in waits', NEW w \in waits', v.token = w.token PROVE v = w
    <3>1. PICK v0 \in waits : /\ v.token = v0.token /\ Call(v0)
                             /\ v = [v0 EXCEPT !.kept = FALSE]
      BY <1>2
    <3>2. PICK w0 \in waits : /\ w.token = w0.token /\ Call(w0)
                             /\ w = [w0 EXCEPT !.kept = FALSE]
      BY <1>2
    <3>3. v0 = w0
      BY <2>2, <3>1, <3>2 DEF NavInv, Requests
    <3> QED BY <3>1, <3>2, <3>3
  <2>3. Entry' = Entry
    BY DEF Entry
  <2> QED BY <1>2, <2>1, <2>2, <2>3 DEF Requests, Call, Feed!Latest
<1>5. Newer'
  <2>1. ASSUME NEW v \in waits', v.page = shown, ~v.beside PROVE Again(v)'
    <3>1. PICK w \in waits : /\ w.page = shown /\ Call(w) /\ ~w.beside
                            /\ v.token = w.token /\ v.asked = w.asked
                            /\ v.kept = FALSE
      BY <1>2, <2>1
    <3> QED BY <3>1 DEF NavInv, Newer, Again
  <2> QED BY <2>1 DEF Newer
<1>6. Prefetches'
  BY <1>2 DEF Prefetches
<1> QED BY <1>3, <1>4, <1>5, <1>6 DEF NavInv, Placed, Entry

-----------------------------------------------------------------------------
(* LiveFeed: the list on screen.  A fetch of its rows that is not aborted  *)
(* began while they were on screen, from the build deployed then.          *)

SwapInv ==
  /\ swap \subseteq Feed!SwapRun
  /\ \A s \in swap :
       /\ s.asked <= live
       /\ s.alive => ~left /\ s.page = shown /\ content <= s.asked
  /\ \A r, s \in swap : r = s
PollTypes ==
  /\ latest \in Feed!Build \cup {Feed!None} /\ check \in Feed!Build \cup {Feed!None}
  /\ wanted \in Feed!Build \cup {Feed!None}
  /\ again \in BOOLEAN /\ top \in BOOLEAN /\ activated \in BOOLEAN
FeedInv == NavInv /\ SwapInv /\ PollTypes

LEMMA SwapIs ==
  \A s \in Feed!SwapRun : /\ s.page \in Page /\ s.target \in Feed!Build
                          /\ s.asked \in Feed!Build /\ s.alive \in BOOLEAN
BY DEF Feed!SwapRun

\* What is in flight when the page is left is aborted.
LEMMA AbortedIs ==
  ASSUME SwapInv
  PROVE  /\ Feed!Aborted \subseteq Feed!SwapRun
         /\ \A s \in Feed!Aborted : s.asked <= live /\ ~s.alive
         /\ \A r, s \in Feed!Aborted : r = s
<1>1. \A s \in Feed!Aborted : \E r \in swap :
        /\ s = [r EXCEPT !.alive = FALSE] /\ s \in Feed!SwapRun
        /\ s.asked = r.asked /\ ~s.alive
  BY DEF SwapInv, Feed!Aborted, Feed!SwapRun
<1> QED BY <1>1 DEF SwapInv

\* `attempt` leaves one fetch in flight, and what it begins is up to date.
LEMMA Attempted ==
  ASSUME Feed!FeedAssumption, NavInv', NEW flight, NEW want,
         want \in Feed!Build \cup {Feed!None}, UNCHANGED live,
         flight \subseteq Feed!SwapRun,
         \A s \in flight :
           /\ s.asked <= live
           /\ s.alive => ~left' /\ s.page = shown' /\ content' <= s.asked,
         \A r, s \in flight : r = s,
         swap' = flight \/ Feed!Attempt(flight, want)
  PROVE  SwapInv'
<1>1. CASE swap' = flight
  BY <1>1 DEF SwapInv
<1>2. CASE /\ want # Feed!None /\ flight = {}
           /\ swap' = flight \cup {[page |-> shown', target |-> want,
                                     asked |-> live, alive |-> ~left']}
  <2>1. /\ shown' \in Page /\ live' \in Feed!Build /\ content' <= live'
        /\ left' \in BOOLEAN /\ live' <= live'
    BY Builds DEF NavInv, NavTypes
  <2>2. PICK new : new = [page |-> shown', target |-> want, asked |-> live,
                          alive |-> ~left']
    OBVIOUS
  <2>3. /\ new \in Feed!SwapRun /\ new.asked = live /\ new.page = shown'
        /\ new.alive = ~left'
    BY <1>2, <2>1, <2>2 DEF Feed!SwapRun
  <2> QED BY <1>2, <2>1, <2>2, <2>3 DEF SwapInv
<1> QED BY <1>1, <1>2 DEF Feed!Attempt, Feed!Free

LEMMA Noticed ==
  ASSUME Feed!FeedAssumption, NavInv', PollTypes, NEW flight, NEW build,
         build \in Feed!Build, UNCHANGED live,
         flight \subseteq Feed!SwapRun,
         \A s \in flight :
           /\ s.asked <= live
           /\ s.alive => ~left' /\ s.page = shown' /\ content' <= s.asked,
         \A r, s \in flight : r = s,
         Feed!Notice(build, flight)
  PROVE  SwapInv' /\ wanted' \in Feed!Build \cup {Feed!None}
<1>1. swap' = flight \/ Feed!Attempt(flight, build)
  BY Zenon DEF Feed!Notice
<1>2. wanted' = wanted \/ wanted' = Feed!None \/ wanted' = build
  BY Zenon DEF Feed!Notice
<1> QED BY <1>1, <1>2, Attempted DEF PollTypes

LEMMA PageArrived ==
  ASSUME Feed!FeedAssumption, FeedInv, NavInv', UNCHANGED live, Feed!PageArrives
  PROVE  SwapInv' /\ PollTypes'
<1>1. /\ Feed!Aborted \subseteq Feed!SwapRun
      /\ \A s \in Feed!Aborted :
           /\ s.asked <= live
           /\ s.alive => ~left' /\ s.page = shown' /\ content' <= s.asked
      /\ \A r, s \in Feed!Aborted : r = s
  BY AbortedIs DEF FeedInv
<1>2. /\ UNCHANGED <<latest, check, again, activated>> /\ top' \in BOOLEAN
  BY Zenon DEF Feed!PageArrives, Feed!PollerKept, Feed!pollVars
<1>3. SwapInv' /\ wanted' \in Feed!Build \cup {Feed!None}
  <2>1. CASE latest = Feed!None
    <3>1. swap' = Feed!Aborted /\ wanted' = wanted
      BY Zenon, <2>1 DEF Feed!PageArrives
    <3> QED BY <1>1, <3>1 DEF SwapInv, FeedInv, PollTypes
  <2>2. CASE latest # Feed!None
    <3>1. Feed!Notice(latest, Feed!Aborted) /\ latest \in Feed!Build
      BY <2>2 DEF Feed!PageArrives, FeedInv, PollTypes
    <3> HIDE DEF Feed!Aborted
    <3> QED BY <1>1, <3>1, Noticed DEF FeedInv
  <2> QED BY <2>1, <2>2
<1> QED BY <1>2, <1>3 DEF FeedInv, PollTypes

LEMMA Restarted ==
  ASSUME FeedInv, Feed!Restart
  PROVE  SwapInv' /\ PollTypes'
BY DEF FeedInv, NavInv, NavTypes, SwapInv, PollTypes, Feed!Restart

\* Whatever else happens while the same page stays on screen.
LEMMA FeedStays ==
  ASSUME FeedInv, Feed!FeedKept, UNCHANGED <<live, shown, content, left>>
  PROVE  SwapInv' /\ PollTypes'
<1>1. UNCHANGED <<swap, latest, check, again, wanted, top, activated>>
  BY DEF Feed!FeedKept, Feed!pollVars, Feed!feedVars
<1> QED BY <1>1 DEF FeedInv, SwapInv, PollTypes

LEMMA FollowLinkKeeps ==
  ASSUME Feed!FeedAssumption, FeedInv, NEW page \in Page, Feed!FollowLink(page),
         UNCHANGED live
  PROVE  FeedInv' /\ Onward
<1>1. NavInv' /\ Onward
  BY FollowKeeps DEF FeedInv, Feed!FollowLink
<1>2. CASE Feed!InMemory(page)
  BY <1>1, <1>2, PageArrived DEF FeedInv, Feed!FollowLink
<1>3. CASE ~Feed!InMemory(page) /\ Feed!OtherRelease(page)
  BY <1>1, <1>3, Restarted DEF FeedInv, Feed!FollowLink
<1>4. CASE ~Feed!InMemory(page) /\ ~Feed!OtherRelease(page)
  <2>1. Feed!FeedKept /\ UNCHANGED <<shown, content, left>>
    BY <1>4 DEF Feed!FollowLink, Feed!Follow, Feed!Await
  <2> QED BY <1>1, <2>1, FeedStays DEF FeedInv
<1> QED BY <1>2, <1>3, <1>4

LEMMA GoBackKeeps ==
  ASSUME Feed!FeedAssumption, FeedInv, NEW to, Feed!GoBack(to), UNCHANGED live
  PROVE  FeedInv' /\ Onward
<1> DEFINE page == history[to]
<1>1. NavInv' /\ Onward
  BY TraverseKeeps DEF FeedInv, Feed!GoBack
<1>2. CASE Feed!SamePage(page)
  <2>1. Feed!FeedKept /\ UNCHANGED <<shown, content, left>>
    BY <1>2 DEF Feed!GoBack, Feed!Traverse
  <2> QED BY <1>1, <2>1, FeedStays DEF FeedInv
<1>3. CASE ~Feed!SamePage(page) /\ Feed!InMemory(page)
  BY <1>1, <1>3, PageArrived DEF FeedInv, Feed!GoBack
<1>4. CASE ~Feed!SamePage(page) /\ ~Feed!InMemory(page) /\ Feed!OtherRelease(page)
  BY <1>1, <1>4, Restarted DEF FeedInv, Feed!GoBack
<1>5. CASE ~Feed!SamePage(page) /\ ~Feed!InMemory(page) /\ ~Feed!OtherRelease(page)
  <2>1. Feed!PageLeft
    BY <1>5 DEF Feed!GoBack
  <2>2. /\ swap' = Feed!Aborted
        /\ UNCHANGED <<latest, check, again, wanted, top, activated>>
    BY <2>1 DEF Feed!PageLeft, Feed!PollerKept, Feed!pollVars
  <2> QED BY <1>1, <2>2, AbortedIs DEF FeedInv, SwapInv, PollTypes
<1> QED BY <1>2, <1>3, <1>4, <1>5

LEMMA PageAnswersKeeps ==
  ASSUME Feed!FeedAssumption, FeedInv, NEW w \in waits, NEW build,
         Feed!PageAnswers(w, build), UNCHANGED live
  PROVE  FeedInv' /\ Onward
<1>1. NavInv' /\ Onward
  BY ArriveKeeps DEF FeedInv, Feed!PageAnswers
<1>2. CASE ~Feed!Latest(w)
  <2>1. Feed!FeedKept /\ UNCHANGED <<shown, content, left>>
    BY <1>2 DEF Feed!PageAnswers, Feed!Arrive
  <2> QED BY <1>1, <2>1, FeedStays DEF FeedInv
<1>3. CASE Feed!Latest(w) /\ Feed!CanSwap(build)
  BY <1>1, <1>3, PageArrived DEF FeedInv, Feed!PageAnswers
<1>4. CASE Feed!Latest(w) /\ ~Feed!CanSwap(build)
  BY <1>1, <1>4, Restarted DEF FeedInv, Feed!PageAnswers
<1> QED BY <1>2, <1>3, <1>4

LEMMA PageFailsKeeps ==
  ASSUME Feed!FeedAssumption, FeedInv, NEW w \in waits, Feed!PageFails(w),
         UNCHANGED live
  PROVE  FeedInv' /\ Onward
<1>1. NavInv' /\ Onward
  BY FetchFailsKeeps DEF FeedInv, Feed!PageFails
<1>2. CASE Feed!Latest(w)
  BY <1>1, <1>2, Restarted DEF FeedInv, Feed!PageFails
<1>3. CASE ~Feed!Latest(w)
  <2>1. Feed!FeedKept /\ UNCHANGED <<shown, content, left>>
    BY <1>3 DEF Feed!PageFails, Feed!FetchFails
  <2> QED BY <1>1, <2>1, FeedStays DEF FeedInv
<1> QED BY <1>2, <1>3

\* The page on screen and what is on its way are the same.
LEMMA NavStays ==
  ASSUME Feed!FeedAssumption, NavInv, UNCHANGED live, UNCHANGED Feed!navVars
  PROVE  NavInv' /\ Onward /\ UNCHANGED <<shown, content, left>>
<1>1. UNCHANGED <<history, position, shown, content, left, token, pending, waits,
                  cache, stayed>>
  BY DEF Feed!navVars
<1> QED BY <1>1, Current
        DEF NavInv, NavTypes, Requests, Prefetches, Newer, Again, Placed, Entry,
            Onward, Feed!Latest

LEMMA ScreenKeeps ==
  ASSUME Feed!FeedAssumption, FeedInv, UNCHANGED live,
         Feed!ScrollTop \/ Feed!ScrollAway \/ Feed!ComeBack
  PROVE  FeedInv' /\ Onward
<1>1. NavInv' /\ Onward /\ UNCHANGED <<shown, content, left>>
  BY NavStays DEF FeedInv, Feed!ScrollTop, Feed!ScrollAway, Feed!ComeBack
<1>2. swap' = swap \/ Feed!Attempt(swap, wanted)
  BY DEF Feed!ScrollTop, Feed!ScrollAway, Feed!ComeBack
<1>3. SwapInv'
  BY <1>1, <1>2, Attempted DEF FeedInv, SwapInv, PollTypes
<1>4. PollTypes'
  BY DEF FeedInv, NavInv, NavTypes, PollTypes, Feed!ScrollTop, Feed!ScrollAway,
         Feed!ComeBack, Feed!pollVars
<1> QED BY <1>1, <1>3, <1>4 DEF FeedInv

LEMMA CheckKeeps ==
  ASSUME Feed!FeedAssumption, FeedInv, UNCHANGED live,
         Feed!PollFails \/ \E insist \in BOOLEAN : Feed!Check(insist)
  PROVE  FeedInv' /\ Onward
<1>1. NavInv' /\ Onward /\ UNCHANGED <<shown, content, left>>
  BY NavStays DEF FeedInv, Feed!PollFails, Feed!Check
<1>2. UNCHANGED <<swap, latest, wanted, top, activated>>
  BY DEF Feed!PollFails, Feed!Check, Feed!feedVars
<1>3. check' \in {check, live, Feed!None} /\ again' \in BOOLEAN
  <2>1. CASE Feed!PollFails
    BY <2>1 DEF Feed!PollFails, Feed!CheckEnds
  <2>2. ASSUME NEW insist \in BOOLEAN, Feed!Check(insist)
        PROVE  check' \in {check, live, Feed!None} /\ again' \in BOOLEAN
    <3>1. check' \in {check, live}
      BY <2>2 DEF Feed!Check
    <3>2. again' = FALSE \/ again' = (again \/ insist)
      BY Zenon, <2>2 DEF Feed!Check
    <3>3. (again \/ insist) \in BOOLEAN
      BY Zenon
    <3> QED BY <3>1, <3>2, <3>3
  <2> QED BY <2>1, <2>2
<1> QED BY <1>1, <1>2, <1>3
        DEF FeedInv, NavInv, NavTypes, SwapInv, PollTypes

LEMMA PollAnswersKeeps ==
  ASSUME Feed!FeedAssumption, FeedInv, UNCHANGED live, NEW build \in Feed!Build,
         Feed!PollAnswers(build)
  PROVE  FeedInv' /\ Onward
<1>1. /\ UNCHANGED <<history, position, shown, content, left, token, pending,
                     stayed, top, activated>>
      /\ latest' = build /\ check' \in {live, Feed!None} /\ again' = FALSE
  BY DEF Feed!PollAnswers, Feed!CheckEnds
<1>2. Feed!Cleared \/ UNCHANGED <<cache, waits>>
  BY DEF Feed!PollAnswers
<1>3. NavInv'
  <2>1. CASE Feed!Cleared
    BY <1>1, <2>1, ClearedKeeps DEF FeedInv
  <2>2. CASE UNCHANGED <<cache, waits>>
    <3>1. NavTypes' /\ Requests' /\ Placed'
      BY <1>1, <2>2 DEF FeedInv, NavInv, NavTypes, Requests, Placed, Entry,
                        Feed!Latest
    <3>2. Newer' /\ Prefetches'
      BY <1>1, <2>2 DEF FeedInv, NavInv, Newer, Again, Prefetches
    <3> QED BY <3>1, <3>2 DEF NavInv
  <2> QED BY <1>2, <2>1, <2>2
<1>4. SwapInv' /\ wanted' \in Feed!Build \cup {Feed!None}
  <2>1. CASE Feed!News(build)
    <3>1. Feed!Notice(build, swap)
      BY <2>1 DEF Feed!PollAnswers
    <3> QED BY <1>1, <1>3, <3>1, Noticed DEF FeedInv, SwapInv
  <2>2. CASE ~Feed!News(build)
    BY <1>1, <2>2 DEF Feed!PollAnswers, FeedInv, SwapInv, PollTypes
  <2> QED BY <2>1, <2>2
<1>5. PollTypes'
  BY <1>1, <1>4 DEF FeedInv, NavInv, NavTypes, PollTypes
<1>6. Onward
  BY <1>1, Current DEF FeedInv, Onward
<1> QED BY <1>3, <1>4, <1>5, <1>6 DEF FeedInv

LEMMA SwapEnds ==
  ASSUME Feed!FeedAssumption, FeedInv, UNCHANGED live, swap' = {},
         UNCHANGED <<history, position, shown, content, left, token, pending,
                     waits, cache, stayed, latest, check, again, top>>,
         wanted' \in {wanted, Feed!None}, activated' = activated
  PROVE  FeedInv' /\ Onward
<1>1. NavInv' /\ Onward
  BY NavStays DEF FeedInv, Feed!navVars
<1> QED BY <1>1 DEF FeedInv, SwapInv, PollTypes

LEMMA SwapAnswersKeeps ==
  ASSUME Feed!FeedAssumption, FeedInv, UNCHANGED live, NEW s \in swap,
         NEW build \in Feed!Build, Feed!SwapAnswers(s, build)
  PROVE  FeedInv' /\ Onward
<1>1. /\ UNCHANGED <<history, position, shown, left, token, pending, waits,
                     cache, stayed, latest, check, again, top>>
      /\ build \in s.asked..live
  BY DEF Feed!SwapAnswers, Feed!pollVars
<1>2. CASE /\ UNCHANGED <<content, activated>> /\ swap' = {}
           /\ wanted' \in {wanted, Feed!None}
  BY <1>1, <1>2, SwapEnds
<1>3. CASE /\ Feed!StillThere(s) /\ content' = build /\ activated' = FALSE
           /\ wanted' = (IF wanted \in {s.target, build} THEN Feed!None ELSE wanted)
           /\ Feed!Attempt({}, wanted')
  <2>1. /\ s.asked \in Feed!Build /\ s.alive \in BOOLEAN /\ s.asked \in Nat
    BY SwapIs, Builds DEF FeedInv, SwapInv
  <2>2. ~left /\ content <= s.asked
    BY <1>3 DEF FeedInv, SwapInv, Feed!StillThere
  <2>3. build >= content /\ build <= live
    BY <1>1, <2>1, <2>2, Builds DEF FeedInv, NavInv, NavTypes
  <2>4. NavTypes'
    BY <1>1, <1>3, <2>3 DEF FeedInv, NavInv, NavTypes
  <2>5. Requests' /\ Placed'
    BY <1>1 DEF FeedInv, NavInv, Requests, Placed, Entry, Feed!Latest
  <2>6. Newer'
    BY <1>1, <2>2 DEF FeedInv, NavInv, Newer, Again
  <2>7. NavInv'
    <3>1. Prefetches'
      BY <1>1 DEF FeedInv, NavInv, Prefetches
    <3> QED BY <2>4, <2>5, <2>6, <3>1 DEF NavInv
  <2>8. wanted' \in Feed!Build \cup {Feed!None}
    BY <1>3 DEF FeedInv, PollTypes
  <2>9. SwapInv'
    <3>1. PICK want : want = wanted'
      OBVIOUS
    <3>2. Feed!Attempt({}, want)
      BY Zenon, <1>3, <3>1 DEF Feed!Attempt, Feed!Free
    <3> QED BY <2>7, <2>8, <3>1, <3>2, Attempted
  <2>10. PollTypes'
    BY <1>1, <1>3, <2>8 DEF FeedInv, PollTypes
  <2> QED BY <1>3, <2>3, <2>7, <2>9, <2>10 DEF FeedInv, Onward
<1> QED BY Zenon, <1>2, <1>3 DEF Feed!SwapAnswers

LEMMA DeployedKeeps ==
  ASSUME Feed!FeedAssumption, FeedInv, Feed!Deployed, UNCHANGED Feed!navVars,
         UNCHANGED <<latest, check, again, wanted, swap, top, activated>>
  PROVE  FeedInv' /\ Onward
<1>1. UNCHANGED <<history, position, shown, content, left, token, pending, waits,
                  cache, stayed>>
  BY DEF Feed!navVars
<1>2. /\ live \in Nat /\ content \in Nat /\ live' \in Feed!Build /\ live' = live + 1
      /\ \A b \in Feed!Build \cup {Feed!None} : b \in Nat /\ (b <= live => b <= live')
  <2>1. live \in Feed!Build /\ content \in Feed!Build \cup {Feed!None}
    BY DEF FeedInv, NavInv, NavTypes
  <2>2. live < MaxBuild /\ live' = live + 1
    BY DEF Feed!Deployed
  <2> QED BY <2>1, <2>2, Builds
<1>3. NavTypes'
  BY <1>1, <1>2 DEF FeedInv, NavInv, NavTypes
<1>4. Requests'
  BY <1>1, <1>2, WaitIs DEF FeedInv, NavInv, NavTypes, Requests, Entry, Feed!Latest
<1>5. Newer' /\ Placed' /\ Prefetches'
  BY <1>1 DEF FeedInv, NavInv, Newer, Again, Placed, Prefetches, Entry
<1>6. SwapInv' /\ PollTypes'
  BY <1>1, <1>2, SwapIs DEF FeedInv, SwapInv, PollTypes
<1> QED BY <1>1, <1>2, <1>3, <1>4, <1>5, <1>6 DEF FeedInv, NavInv, Onward

LEMMA FeedKeeps ==
  ASSUME Feed!FeedAssumption, FeedInv, [Feed!Next]_liveVars
  PROVE  FeedInv' /\ Onward
<1>1. CASE UNCHANGED liveVars
  <2>1. UNCHANGED Feed!navVars /\ UNCHANGED live
        /\ UNCHANGED <<latest, check, again, wanted, swap, top, activated>>
    BY <1>1 DEF liveVars, Feed!navVars
  <2> QED BY <2>1, NavStays DEF FeedInv, SwapInv, PollTypes
<1>2. CASE Feed!Deployed /\ UNCHANGED <<Feed!navVars, latest, Feed!pollVars,
                                        Feed!feedVars>>
  BY <1>2, DeployedKeeps DEF Feed!pollVars, Feed!feedVars
<1>3. CASE Feed!Reader /\ UNCHANGED <<releases, live>>
  <2>1. CASE Feed!Stay /\ Feed!FeedKept
    <3>1. NavInv' /\ UNCHANGED <<shown, content, left>>
      BY <1>3, <2>1, StayKeeps DEF FeedInv, Feed!Stay
    <3> QED BY <1>3, <2>1, <3>1, FeedStays, Current DEF FeedInv, Onward
  <2>2. ASSUME NEW p \in Page, Feed!Prefetch(p), Feed!FeedKept
        PROVE  FeedInv' /\ Onward
    <3>1. NavInv' /\ UNCHANGED <<shown, content, left>>
      BY <1>3, <2>2, PrefetchKeeps DEF FeedInv, Feed!Prefetch
    <3> QED BY <1>3, <2>2, <3>1, FeedStays, Current DEF FeedInv, Onward
  <2> QED BY <1>3, <2>1, <2>2, FollowLinkKeeps, GoBackKeeps, ScreenKeeps,
             CheckKeeps DEF Feed!Reader
<1>4. CASE Feed!Network /\ UNCHANGED <<releases, live>>
  <2>1. ASSUME NEW s \in swap, Feed!SwapFails(s) PROVE FeedInv' /\ Onward
    BY <1>4, <2>1, SwapEnds DEF Feed!SwapFails, Feed!navVars, Feed!pollVars
  <2> QED BY <1>4, <2>1, PageAnswersKeeps, PageFailsKeeps, CheckKeeps,
             PollAnswersKeeps, SwapAnswersKeeps
          DEF Feed!Network, Feed!Polled, Feed!Swapped, Feed!PagesAnswer
<1> QED BY <1>1, <1>2, <1>3, <1>4 DEF Feed!Next

LEMMA FeedHolds == MCSpec => []FeedInv
<1>1. Feed!FeedAssumption
  BY ReaderAssumption
<1>2. MCInit => FeedInv
  <2> SUFFICES ASSUME MCInit PROVE FeedInv
    OBVIOUS
  <2>1. Feed!Init /\ Feed!NavInit
    BY ReaderBegins DEF Feed!Init
  <2>2. 1 \in Feed!Build
    BY <1>1, Builds
  <2> QED BY <1>1, <2>1, <2>2, NavBegins
          DEF FeedInv, SwapInv, PollTypes, Feed!Init
<1>3. FeedInv /\ [MCNext]_mcVars => FeedInv'
  BY <1>1, ReaderMoves, FeedKeeps
<1> QED BY <1>2, <1>3, PTL DEF MCSpec

\* No order of answers takes the rows on screen back to an older build, be they
\* of navigations, polls or swaps, unless the page that lands was fetched ahead
\* beside an earlier request for it, for any pages, builds and numbers of moves
\* (src/web/src/updates/feed.ts, src/web/src/navigation/index.ts).
THEOREM RowsNeverGoBack == MCSpec => NeverGoesBack
<1>1. Feed!FeedAssumption
  BY ReaderAssumption
<1>2. FeedInv /\ [MCNext]_mcVars =>
        [shown' = shown /\ token' = token /\ ~Feed!LandsBeside
           => content' >= content]_(Feed!liveVars)
  BY <1>1, ReaderMoves, FeedKeeps DEF Onward
<1> QED BY <1>2, FeedHolds, PTL DEF MCSpec, NeverGoesBack, Feed!NeverGoesBack

\* With no page on its way, the one on screen is at the address and running,
\* unless a Back was cancelled, however clicks, Back and Forward and the answers
\* overlap (src/web/src/navigation/index.ts).
THEOREM PageIsCurrent == MCSpec => []ShownIsCurrentUnlessStayed
<1>1. FeedInv => ShownIsCurrentUnlessStayed
  BY DEF FeedInv, NavInv, Placed, Entry, ShownIsCurrentUnlessStayed,
         Feed!ShownIsCurrentUnlessStayed, Feed!ShownIsCurrent, Feed!OnScreen,
         Feed!Address
<1> QED BY <1>1, FeedHolds, PTL

-----------------------------------------------------------------------------
(* OfflineSearch.  A task that was superseded has another queued after it; *)
(* while nothing is lost the stored manifest names a complete index, a     *)
(* download is of another one, and what memory or a status reader relies   *)
(* on is one of the two that pruning spares, or empty.                     *)

SearchTypes ==
  /\ target \in Search!Version
  /\ searchWanted \in {"unset", "on", "off"} /\ searchQueued \in {"none", "on", "off"}
  /\ pc \in Search!Steps /\ superseded \in BOOLEAN
  /\ base \in Search!Version \cup {Search!None}
  /\ todo \subseteq File /\ loading \subseteq File
  /\ failure \in {"none", "network", "quota"}
  /\ active \in Search!Version \cup {Search!None} /\ phase \in Search!Phases
  /\ reader \in {"idle", "checking"} /\ readerStale \in BOOLEAN
  /\ seen \in Search!Version \cup {Search!None}
  /\ manifest \in Search!Version \cup {Search!None}
  /\ index \in [Search!Version -> SUBSET Search!Entry]
  /\ configs \in 0..MaxConfigs /\ restarts \in 0..MaxRestarts
  /\ lost \in BOOLEAN

SearchTurns ==
  /\ superseded <=> pc # "idle" /\ searchQueued # "none"
  /\ searchQueued # "none" => searchQueued = searchWanted
  /\ pc # "idle" /\ ~superseded =>
       searchWanted = IF Search!Disabling THEN "off" ELSE "on"
  /\ searchWanted = "off" /\ reader = "checking" => readerStale
  /\ pc = "forgetting" => \A v \in Search!Version : index[v] = {}
  /\ pc = "checking" => base = manifest
  /\ phase = "ready" => manifest = target
  /\ searchWanted = "off" /\ pc = "idle" /\ searchQueued = "none" =>
       /\ manifest = Search!None /\ active = Search!None /\ phase = "disabled"
       /\ \A v \in Search!Version : index[v] = {}

Spared(v) ==
  manifest = target \/ v \in {Search!None, manifest, target} \/ index[v] = {}
Trimmed(v) == v \in {Search!None, base, target} \/ index[v] = {}

SearchWhole ==
  /\ manifest # Search!None /\ pc # "forgetting" => Search!Complete(manifest)
  /\ Search!Downloading => manifest # target /\ base = manifest
  /\ pc = "trimming" => manifest = target /\ Trimmed(active) /\ Trimmed(seen)
  /\ pc = "committing" => Search!Complete(target)
  /\ Spared(active) /\ Spared(seen)
  /\ Search!Downloading /\ pc # "blocked" /\ active = target =>
       Search!Complete(target)
  /\ pc = "blocked" =>
       /\ active = target => phase = "blocked"
       /\ reader = "checking" /\ ~readerStale /\ seen = target => phase = "blocked"
  /\ active # Search!None /\ ~Search!Dropped /\ pc # "forgetting" =>
       Search!Complete(active)

SearchInv == SearchTypes /\ SearchTurns /\ (~lost => SearchWhole)

LEMMA SearchBegins == ASSUME Search!SearchAssumption, Search!Init PROVE SearchInv
<1>1. 1 \in Search!Version /\ 0 \in 0..MaxConfigs /\ 0 \in 0..MaxRestarts
  BY DEF Search!SearchAssumption, Search!Version
<1>2. SearchTypes
  BY <1>1 DEF SearchTypes, Search!Init, Search!NoTask, Search!Steps, Search!Phases
<1>3. SearchTurns
  BY DEF SearchTurns, Search!Init, Search!NoTask
<1>4. SearchWhole
  BY DEF SearchWhole, Spared, Search!Init, Search!NoTask, Search!Downloading
<1> QED BY <1>2, <1>3, <1>4 DEF SearchInv

LEMMA SearchTypesKeep ==
  ASSUME Search!SearchAssumption, SearchTypes, [Search!Next]_searchVars
  PROVE  SearchTypes'
<1> USE DEF SearchTypes, Search!readerVars, Search!storedVars, Search!boundVars,
            Search!memoryVars, Search!taskVars, Search!Go, Search!End, Search!GiveUp
<1> DEFINE Stored == index' \in [Search!Version -> SUBSET Search!Entry]
<1>0. \A v \in Search!Version, f \in File :
        /\ [index EXCEPT ![v] = @ \cup {f}] \in [Search!Version -> SUBSET Search!Entry]
        /\ [index EXCEPT ![v] = @ \ {f}] \in [Search!Version -> SUBSET Search!Entry]
  BY DEF Search!Entry
<1>00. \A v \in Search!Version :
         /\ [index EXCEPT ![v] = @ \cup {Search!Listing}]
              \in [Search!Version -> SUBSET Search!Entry]
         /\ [index EXCEPT ![v] = {}] \in [Search!Version -> SUBSET Search!Entry]
  BY DEF Search!Entry
<1>01. \A spare : Search!Prune(spare) => Stored
  BY DEF Search!Prune
<1> DEFINE Kept == /\ pc' \in Search!Steps /\ superseded' \in BOOLEAN
                    /\ base' \in Search!Version \cup {Search!None}
                    /\ todo' \subseteq File /\ loading' \subseteq File
                    /\ failure' \in {"none", "network", "quota"}
                    /\ active' \in Search!Version \cup {Search!None}
                    /\ phase' \in Search!Phases
<1>02. \A reason : Search!GiveUp(reason) => Kept
  <2>1. ASSUME NEW reason, Search!GiveUp(reason) PROVE Kept
    <3>1. CASE superseded
      BY <2>1, <3>1 DEF Search!Steps
    <3>2. CASE ~superseded /\ reason = "quota"
      BY <2>1, <3>2 DEF Search!Steps, Search!Phases
    <3>3. CASE ~superseded /\ reason # "quota"
      BY <2>1, <3>3 DEF Search!Steps, Search!Phases
    <3> QED BY <3>1, <3>2, <3>3
  <2> QED BY <2>1
<1> HIDE DEF Stored, Search!GiveUp
<1>1. CASE UNCHANGED searchVars
  BY <1>1 DEF searchVars
<1>2. ASSUME NEW want \in {"on", "off"}, Search!Configure(want) PROVE SearchTypes'
  <2>1. configs + 1 \in 0..MaxConfigs
    BY <1>2 DEF Search!Configure, Search!SearchAssumption
  <2> QED BY <1>2, <2>1 DEF Search!Configure, Search!Phases
<1>3. CASE Search!StartTask
  BY <1>3 DEF Search!StartTask, Search!Steps
<1>4. CASE Search!ReadManifest
  BY <1>4 DEF Search!ReadManifest, Search!Steps
<1>5. CASE Search!CheckManifest
  <2>1. /\ pc' \in Search!Steps /\ superseded' \in BOOLEAN
        /\ base' \in Search!Version \cup {Search!None}
        /\ active' \in Search!Version \cup {Search!None} /\ phase' \in Search!Phases
        /\ todo' \subseteq File /\ loading' \subseteq File
        /\ failure' \in {"none", "network", "quota"}
    <3>1. CASE superseded
      BY <1>5, <3>1 DEF Search!CheckManifest, Search!Steps
    <3>2. CASE ~superseded
      <4>1. active' \in Search!Version \cup {Search!None}
        BY <1>5, <3>2 DEF Search!CheckManifest
      <4>2. CASE active' = target
        BY <1>5, <3>2, <4>1, <4>2 DEF Search!CheckManifest, Search!Steps, Search!Phases
      <4>3. CASE active' # target
        BY <1>5, <3>2, <4>1, <4>3 DEF Search!CheckManifest, Search!Steps, Search!Phases
      <4> QED BY <4>2, <4>3
    <3> QED BY <3>1, <3>2
  <2> QED BY <1>5, <2>1 DEF Search!CheckManifest
<1>6. CASE Search!PruneBefore
  <2>1. Stored
    BY <1>6, <1>01 DEF Search!PruneBefore
  <2> QED BY <1>6, <2>1 DEF Search!PruneBefore, Stored, Search!Steps
<1>7. CASE Search!FetchListing
  <2>1. Stored
    <3>1. [index EXCEPT ![target] = @ \cup {Search!Listing}]
            \in [Search!Version -> SUBSET Search!Entry]
      BY <1>00
    <3> QED BY <1>7, <3>1 DEF Search!FetchListing, Stored
  <2>2. Kept
    BY <1>7, <1>02 DEF Search!FetchListing, Search!Steps
  <2> QED BY <1>7, <2>1, <2>2 DEF Search!FetchListing, Stored
<1>8. ASSUME NEW f \in File, Search!TakeFile(f) PROVE SearchTypes'
  BY <1>8 DEF Search!TakeFile
<1>9. ASSUME NEW f \in File, Search!SaveFile(f) PROVE SearchTypes'
  <2>1. Stored
    BY <1>9, <1>0 DEF Search!SaveFile, Stored
  <2> QED BY <1>9, <2>1 DEF Search!SaveFile, Stored
<1>10. CASE Search!FilesDone
  <2>1. Kept
    BY <1>10, <1>02 DEF Search!FilesDone, Search!Steps, Search!Phases
  <2> QED BY <1>10, <2>1 DEF Search!FilesDone
<1>11. CASE Search!VerifyIndex
  <2>1. Kept
    BY <1>11, <1>02 DEF Search!VerifyIndex, Search!Steps, Search!Phases
  <2> QED BY <1>11, <2>1 DEF Search!VerifyIndex
<1>12. CASE Search!CommitIndex
  <2>1. Kept
    BY <1>12, <1>02 DEF Search!CommitIndex, Search!Steps, Search!Phases
  <2> QED BY <1>12, <2>1 DEF Search!CommitIndex
<1>13. CASE Search!TrimIndex
  <2>1. Stored
    BY <1>13, <1>01 DEF Search!TrimIndex
  <2> QED BY <1>13, <2>1 DEF Search!TrimIndex, Stored, Search!Steps
<1>14. CASE Search!DropBlocked
  <2>1. Stored
    BY <1>14, <1>00 DEF Search!DropBlocked, Stored
  <2> QED BY <1>14, <2>1 DEF Search!DropBlocked, Stored, Search!Steps
<1>15. CASE Search!ClearIndexes
  <2>1. Stored
    BY <1>15, <1>01 DEF Search!ClearIndexes
  <2> QED BY <1>15, <2>1 DEF Search!ClearIndexes, Stored, Search!Steps
<1>16. CASE Search!ForgetManifest
  BY <1>16 DEF Search!ForgetManifest, Search!Steps, Search!Phases
<1>17. CASE Search!ReadStatus
  BY <1>17 DEF Search!ReadStatus
<1>18. CASE Search!RestoreStatus
  <2>1. active' \in {seen, Search!None, active} /\ phase' \in {"error", phase}
    <3>1. CASE Search!Current
      BY <1>18, <3>1 DEF Search!RestoreStatus, Search!Restored
    <3>2. CASE ~Search!Current
      BY <1>18, <3>2 DEF Search!RestoreStatus
    <3> QED BY <3>1, <3>2
  <2>2. /\ active' \in Search!Version \cup {Search!None} /\ phase' \in Search!Phases
    BY <2>1 DEF Search!Phases
  <2>3. reader' = "idle" /\ seen' = Search!None /\ readerStale' = FALSE
        /\ UNCHANGED <<target, searchWanted, searchQueued, pc, superseded, base, todo,
                       loading, failure, manifest, index, configs, restarts, lost>>
    BY <1>18 DEF Search!RestoreStatus
  <2> QED BY <2>2, <2>3
<1>19. CASE Search!Restart
  <2>1. restarts + 1 \in 0..MaxRestarts
    BY <1>19 DEF Search!Restart, Search!SearchAssumption
  <2>2. lost' \in BOOLEAN
    BY <1>19 DEF Search!Restart
  <2> QED BY <1>19, <2>1, <2>2 DEF Search!Restart, Search!Steps, Search!Phases
<1>20. ASSUME NEW v \in Search!Version, NEW f \in File, Search!Evict(v, f)
       PROVE SearchTypes'
  <2>1. Stored
    BY <1>20, <1>0 DEF Search!Evict, Stored
  <2>2. restarts + 1 \in 0..MaxRestarts
    BY <1>20 DEF Search!Evict, Search!SearchAssumption
  <2>3. lost' \in BOOLEAN
    BY <1>20 DEF Search!Evict
  <2> QED BY <1>20, <2>1, <2>2, <2>3 DEF Search!Evict, Stored
<1> QED
  BY Zenon, <1>1, <1>2, <1>3, <1>4, <1>5, <1>6, <1>7, <1>8, <1>9, <1>10, <1>11, <1>12,
     <1>13, <1>14, <1>15, <1>16, <1>17, <1>18, <1>19, <1>20
  DEF Search!Next, Search!Task

\* How a run that gives up leaves the task and memory.
LEMMA GaveUp ==
  ASSUME NEW reason, Search!GiveUp(reason)
  PROVE  /\ active' = active
         /\ \/ superseded /\ pc' = "idle" /\ superseded' = FALSE /\ phase' = phase
            \/ /\ ~superseded /\ superseded' = superseded /\ reason = "quota"
               /\ pc' = "blocked" /\ phase' = "blocked" /\ base' = base
            \/ /\ ~superseded /\ superseded' = FALSE /\ reason # "quota"
               /\ pc' = "idle" /\ phase' = "error"
BY DEF Search!GiveUp, Search!End, Search!memoryVars

LEMMA SearchNumbers ==
  ASSUME Search!SearchAssumption
  PROVE  Search!None \notin Search!Version
BY DEF Search!SearchAssumption, Search!Version, Search!None

LEMMA SearchTurnsKeep ==
  ASSUME Search!SearchAssumption, SearchTypes, SearchTurns, [Search!Next]_searchVars
  PROVE  SearchTurns'
<1> USE DEF Search!readerVars, Search!storedVars, Search!boundVars,
            Search!memoryVars, Search!taskVars, Search!Go, Search!End,
            Search!Disabling
<1> DEFINE Bare == \A v \in Search!Version : index[v] = {}
<1>1. CASE UNCHANGED searchVars
  BY <1>1 DEF searchVars, SearchTurns
<1>2. ASSUME NEW want \in {"on", "off"}, Search!Configure(want) PROVE SearchTurns'
  <2>1. UNCHANGED <<target, manifest, index, pc, base, reader>>
        /\ searchWanted' = want /\ searchQueued' = want
        /\ superseded' = (pc # "idle") /\ readerStale' = (reader # "idle")
        /\ phase' \in {phase, "disabled"}
    BY <1>2 DEF Search!Configure
  <2> QED BY <2>1 DEF SearchTypes, SearchTurns
<1>3. CASE Search!StartTask
  <2>1. /\ pc = "idle" /\ searchQueued = searchWanted
        /\ pc' = IF searchQueued = "on" THEN "restoring" ELSE "clearing"
        /\ searchQueued' = "none" /\ searchQueued # "none" /\ superseded' = superseded
        /\ UNCHANGED <<searchWanted, manifest, target, phase, reader, readerStale>>
    BY <1>3 DEF Search!StartTask, SearchTurns
  <2> QED BY <2>1 DEF SearchTypes, SearchTurns
<1>4. CASE Search!ReadManifest
  BY <1>4 DEF Search!ReadManifest, SearchTurns
<1>5. CASE Search!CheckManifest
  <2>1. CASE superseded
    BY <1>5, <2>1 DEF Search!CheckManifest, SearchTurns
  <2>2. CASE ~superseded
    <3>1. /\ pc = "checking" /\ base = manifest /\ superseded' = FALSE
          /\ UNCHANGED <<target, searchWanted, searchQueued, reader, readerStale,
                         manifest, index>>
          /\ active' = target => active' \in {base, Search!None} /\ pc' = "idle"
          /\ active' # target => phase' # "ready" /\ pc' = "pruning"
      BY <1>5, <2>2 DEF Search!CheckManifest, SearchTypes, SearchTurns
    <3>2. searchWanted = "on" /\ target # Search!None
      BY <1>5, <2>2, <3>1, SearchNumbers DEF SearchTypes, SearchTurns
    <3> QED BY <2>2, <3>1, <3>2 DEF SearchTurns
  <2> QED BY <2>1, <2>2
<1>6. CASE Search!PruneBefore
  BY <1>6 DEF Search!PruneBefore, SearchTurns
<1>7. CASE Search!FetchListing
  <2>1. CASE UNCHANGED Search!memoryVars /\ pc' = "files" /\ UNCHANGED superseded
    BY <1>7, <2>1 DEF Search!FetchListing, SearchTurns
  <2> QED BY <1>7, <2>1, GaveUp DEF Search!FetchListing, SearchTurns
<1>8. ASSUME NEW f \in File, Search!TakeFile(f) PROVE SearchTurns'
  BY <1>8 DEF Search!TakeFile, SearchTurns
<1>9. ASSUME NEW f \in File, Search!SaveFile(f) PROVE SearchTurns'
  BY <1>9 DEF Search!SaveFile, SearchTurns
<1>10. CASE Search!FilesDone
  BY <1>10, GaveUp DEF Search!FilesDone, SearchTurns
<1>11. CASE Search!VerifyIndex
  BY <1>11, GaveUp DEF Search!VerifyIndex, SearchTurns
<1>12. CASE Search!CommitIndex
  BY <1>12, GaveUp DEF Search!CommitIndex, SearchTurns
<1>13. CASE Search!TrimIndex
  BY <1>13 DEF Search!TrimIndex, SearchTurns
<1>14. CASE Search!DropBlocked
  BY <1>14 DEF Search!DropBlocked, SearchTurns
<1>15. CASE Search!ClearIndexes
  BY <1>15 DEF Search!ClearIndexes, Search!Prune, SearchTurns
<1>16. CASE Search!ForgetManifest
  BY <1>16 DEF Search!ForgetManifest, SearchTurns
<1>17. CASE Search!ReadStatus
  BY <1>17 DEF Search!ReadStatus, SearchTurns
<1>18. CASE Search!RestoreStatus
  BY <1>18 DEF Search!RestoreStatus, Search!Restored, Search!Current, SearchTurns
<1>19. CASE Search!Restart
  BY <1>19 DEF Search!Restart, SearchTurns
<1>20. ASSUME NEW v \in Search!Version, NEW f \in File, Search!Evict(v, f)
       PROVE SearchTurns'
  BY <1>20 DEF Search!Evict, SearchTypes, SearchTurns
<1> QED
  BY Zenon, <1>1, <1>2, <1>3, <1>4, <1>5, <1>6, <1>7, <1>8, <1>9, <1>10, <1>11, <1>12,
     <1>13, <1>14, <1>15, <1>16, <1>17, <1>18, <1>19, <1>20
  DEF Search!Next, Search!Task

LEMMA SearchWholeKeeps ==
  ASSUME Search!SearchAssumption, SearchTypes, SearchTurns, SearchWhole,
         Search!Next, ~lost', SearchTypes', SearchTurns'
  PROVE  SearchWhole'
<1> USE DEF Search!readerVars, Search!storedVars, Search!boundVars,
            Search!memoryVars, Search!taskVars, Search!Go, Search!End,
            Search!Disabling, Search!Downloading, Search!Complete, Search!Dropped,
            Spared, Trimmed
<1>0. /\ Search!None \notin Search!Version /\ target \in Search!Version
      /\ target # Search!None /\ index \in [Search!Version -> SUBSET Search!Entry]
      /\ {active, manifest, seen, base} \subseteq Search!Version \cup {Search!None}
  BY SearchNumbers DEF SearchTypes
<1>2. ASSUME NEW want \in {"on", "off"}, Search!Configure(want) PROVE SearchWhole'
  BY <1>0, <1>2 DEF Search!Configure, SearchWhole
<1>3. CASE Search!StartTask
  BY <1>3 DEF Search!StartTask, SearchWhole
<1>4. CASE Search!ReadManifest
  BY <1>4 DEF Search!ReadManifest, SearchWhole
<1>5. CASE Search!CheckManifest
  BY <1>0, <1>5 DEF Search!CheckManifest, SearchWhole, SearchTurns
<1>6. CASE Search!PruneBefore
  BY <1>0, <1>6 DEF Search!PruneBefore, Search!Prune, Search!KeepBoth, SearchWhole
<1>7. CASE Search!FetchListing
  <2>1. CASE \E reason : Search!GiveUp(reason) /\ UNCHANGED index
    BY <1>0, <1>7, <2>1, GaveUp DEF Search!FetchListing, SearchWhole
  <2>2. CASE pc' = "files" /\ UNCHANGED <<superseded, base, loading, failure>>
             /\ UNCHANGED <<active, phase>>
             /\ index' = [index EXCEPT ![target] = @ \cup {Search!Listing}]
    BY <1>0, <1>7, <2>2 DEF Search!FetchListing, SearchWhole
  <2> QED BY <1>7, <2>1, <2>2 DEF Search!FetchListing
<1>8. ASSUME NEW f \in File, Search!TakeFile(f) PROVE SearchWhole'
  BY <1>8 DEF Search!TakeFile, SearchWhole
<1>9. ASSUME NEW f \in File, Search!SaveFile(f) PROVE SearchWhole'
  BY <1>0, <1>9 DEF Search!SaveFile, SearchWhole
<1>10. CASE Search!FilesDone
  BY <1>0, <1>10, GaveUp DEF Search!FilesDone, SearchWhole
<1>11. CASE Search!VerifyIndex
  BY <1>0, <1>11, GaveUp DEF Search!VerifyIndex, Search!Verified, SearchWhole
<1>12. CASE Search!CommitIndex
  BY <1>0, <1>12, GaveUp DEF Search!CommitIndex, SearchWhole
<1>13. CASE Search!TrimIndex
  BY <1>0, <1>13 DEF Search!TrimIndex, Search!Prune, Search!KeepBoth, SearchWhole
<1>14. CASE Search!DropBlocked
  BY <1>0, <1>14 DEF Search!DropBlocked, SearchWhole
<1>15. CASE Search!ClearIndexes
  BY <1>0, <1>15 DEF Search!ClearIndexes, Search!Prune, SearchWhole
<1>16. CASE Search!ForgetManifest
  BY <1>0, <1>16 DEF Search!ForgetManifest, SearchWhole, SearchTurns
<1>17. CASE Search!ReadStatus
  BY <1>0, <1>17 DEF Search!ReadStatus, SearchWhole
<1>18. CASE Search!RestoreStatus
  BY <1>0, <1>18 DEF Search!RestoreStatus, Search!Restored, Search!Current, SearchWhole
<1>19. CASE Search!Restart
  BY <1>0, <1>19 DEF Search!Restart, SearchWhole
<1>20. ASSUME NEW v \in Search!Version, NEW f \in File, Search!Evict(v, f)
       PROVE SearchWhole'
  BY <1>0, <1>20 DEF Search!Evict, Search!Relied, SearchWhole
<1> QED
  BY Zenon, <1>2, <1>3, <1>4, <1>5, <1>6, <1>7, <1>8, <1>9, <1>10, <1>11, <1>12,
     <1>13, <1>14, <1>15, <1>16, <1>17, <1>18, <1>19, <1>20
  DEF Search!Next, Search!Task

LEMMA SearchKeeps ==
  ASSUME Search!SearchAssumption, SearchInv, [Search!Next]_searchVars
  PROVE  SearchInv'
<1>1. SearchTypes' /\ SearchTurns'
  BY SearchTypesKeep, SearchTurnsKeep DEF SearchInv
<1>2. CASE UNCHANGED searchVars
  <2>1. lost' = lost /\ (SearchWhole => SearchWhole')
    BY <1>2 DEF searchVars, SearchWhole, Spared, Trimmed, Search!Complete,
                Search!Downloading, Search!Dropped
  <2> QED BY <1>1, <2>1 DEF SearchInv
<1>3. CASE Search!Next
  <2>1. ~lost' => ~lost
    <3> USE DEF Search!boundVars
    <3>1. CASE Search!Task
      BY <3>1 DEF Search!Task, Search!StartTask, Search!ReadManifest,
         Search!CheckManifest, Search!PruneBefore, Search!FetchListing,
         Search!FilesDone, Search!VerifyIndex, Search!CommitIndex, Search!TrimIndex,
         Search!DropBlocked, Search!ClearIndexes, Search!ForgetManifest,
         Search!TakeFile, Search!SaveFile
    <3>2. CASE Search!ReadStatus \/ Search!RestoreStatus \/ Search!Restart
      BY <3>2 DEF Search!ReadStatus, Search!RestoreStatus, Search!Restart
    <3>3. ASSUME NEW want \in {"on", "off"}, Search!Configure(want) PROVE lost' = lost
      BY <3>3 DEF Search!Configure
    <3>4. ASSUME NEW v \in Search!Version, NEW f \in File, Search!Evict(v, f)
          PROVE lost => lost'
      BY <3>4 DEF Search!Evict
    <3> QED BY <1>3, <3>1, <3>2, <3>3, <3>4 DEF Search!Next
  <2> QED BY <1>1, <1>3, <2>1, SearchWholeKeeps DEF SearchInv
<1> QED BY <1>2, <1>3

LEMMA SearchHolds == MCSpec => []SearchInv
<1>1. Search!SearchAssumption
  BY ReaderAssumption
<1>2. MCInit => SearchInv
  BY <1>1, ReaderBegins, SearchBegins
<1>3. SearchInv /\ [MCNext]_mcVars => SearchInv'
  BY <1>1, ReaderMoves, SearchKeeps
<1> QED BY <1>2, <1>3, PTL DEF MCSpec

\* The index that answers offline queries, and the one the status calls ready,
\* is wholly stored, and once disabling has settled nothing of any index is left,
\* for any files, versions, configurations, restarts and evictions
\* (src/web/src/sw/search.ts).
THEOREM IndexIsComplete == MCSpec => []ActiveComplete
<1>1. SearchInv => ActiveComplete
  <2>1. ASSUME SearchInv PROVE Search!ActiveComplete
    <3>1. ASSUME SearchWhole, SearchTypes, SearchTurns, ~Search!Disabling
          PROVE  /\ active # Search!None /\ ~Search!Dropped => Search!Complete(active)
                 /\ phase = "ready" => Search!Complete(target)
      <4>1. Search!None \notin Search!Version
        BY ReaderAssumption, SearchNumbers
      <4> QED BY <3>1, <4>1 DEF SearchWhole, SearchTypes, SearchTurns, Search!Disabling
    <3> QED BY <2>1, <3>1 DEF SearchInv, Search!ActiveComplete
  <2>2. ASSUME SearchInv PROVE Search!DisabledClean
    BY <2>2 DEF SearchInv, SearchTypes, SearchTurns, Search!DisabledClean, Search!Busy
  <2> QED BY <2>1, <2>2 DEF ActiveComplete
<1> QED BY <1>1, SearchHolds, PTL

\* A complete committed index stays until its replacement is committed.
LEMMA IndexesStay == MCSpec => Search!IndexStays
<1> DEFINE Stays == Search!Usable /\ ~lost' /\ ~Search!Disabling
                      => Search!Complete(manifest)'
<1>1. ASSUME SearchInv, SearchInv', [Search!Next]_searchVars PROVE Stays
  <2>1. CASE UNCHANGED searchVars
    BY <2>1 DEF searchVars, Search!Usable, Search!Complete
  <2>2. CASE Search!Next
    <3> SUFFICES ASSUME Search!Usable, ~lost', ~Search!Disabling
                 PROVE  Search!Complete(manifest)'
      OBVIOUS
    <3>1. manifest # Search!None /\ target # Search!None
      BY ReaderAssumption, SearchNumbers, <1>1
      DEF Search!Usable, Search!Complete, SearchInv, SearchTypes
    <3>2. manifest' # Search!None /\ pc' # "forgetting"
      <4> USE DEF Search!storedVars, Search!Disabling, Search!Go, Search!End
      <4>1. CASE Search!Task
        <5>1. ASSUME NEW reason, Search!GiveUp(reason) PROVE pc' # "forgetting"
          BY <5>1, GaveUp
        <5>2. CASE Search!FetchListing \/ Search!FilesDone \/ Search!VerifyIndex
                   \/ Search!CommitIndex
          BY <3>1, <5>1, <5>2
          DEF Search!FetchListing, Search!FilesDone, Search!VerifyIndex,
              Search!CommitIndex
        <5>3. CASE \E f \in File : Search!TakeFile(f) \/ Search!SaveFile(f)
          BY <3>1, <5>3 DEF Search!TakeFile, Search!SaveFile
        <5>4. CASE Search!StartTask \/ Search!ReadManifest \/ Search!CheckManifest
                   \/ Search!PruneBefore \/ Search!TrimIndex \/ Search!DropBlocked
                   \/ Search!ClearIndexes \/ Search!ForgetManifest
          BY <3>1, <5>4
          DEF Search!StartTask, Search!ReadManifest, Search!CheckManifest,
              Search!PruneBefore, Search!TrimIndex, Search!DropBlocked,
              Search!ClearIndexes, Search!ForgetManifest
        <5> QED BY <4>1, <5>2, <5>3, <5>4 DEF Search!Task
      <4>2. CASE ~Search!Task
        BY <2>2, <3>1, <4>2
        DEF Search!Next, Search!ReadStatus, Search!RestoreStatus, Search!Restart,
            Search!Configure, Search!Evict, Search!taskVars
      <4> QED BY <4>1, <4>2
    <3> QED BY <1>1, <3>2 DEF SearchInv, SearchWhole
  <2> QED BY <1>1, <2>1, <2>2
<1>2. SearchInv /\ SearchInv' /\ [MCNext]_mcVars => [Stays]_(Search!searchVars)
  BY <1>1, ReaderMoves
<1> QED BY <1>2, SearchHolds, PTL DEF MCSpec, Search!IndexStays

-----------------------------------------------------------------------------
(* OfflineArticles.  What a slot is done with is stored at the revision of *)
(* the catalogue in memory; pruning spares what was selected and what is   *)
(* listed; what was complete when a run began is still, or was taken anew. *)

ArticleRank ==
  /\ catalog <= published
  /\ \A r \in Articles!Resource : pages[r] <= published /\ revisions[r] <= published
  /\ pages[Articles!Image] \in {0, 1} /\ revisions[Articles!Image] \in {0, 1}
  /\ \A e \in list :
       /\ e.article <= e.build /\ e.build <= published
       /\ catalog # Articles!None => e.build <= catalog
  /\ \A e, f \in list : e.article = f.article => e = f

ArticleProgress ==
  /\ complete \subseteq taken /\ failed \subseteq taken
  /\ taken \subseteq Articles!Selected
  /\ stage \in {"idle", "catalog"} => taken = {}
  /\ step[Articles!Image] # "none" => taken # {}
  /\ \A a \in Articles!Article :
       step[a] # "none" => a \in taken /\ step[Articles!Image] = "done"
  /\ \A a \in complete : step[a] = "done"
  /\ \A a \in failed : step[Articles!Image] = "failed" \/ step[a] = "failed"
  /\ \A r \in Articles!Resource :
       /\ step[r] \in {"body", "revision"} => stage = "saving"
       /\ step[r] = "revision" =>
            /\ pages[r] # Articles!None
            /\ pages[r] >= Articles!Revision(catalog, r)
       /\ step[r] = "done" =>
            Articles!StoredAt(r, Articles!Revision(catalog, r))

ArticleSelection ==
  /\ stage \in {"saving", "listing"} =>
       /\ keep = Articles!Resources(Articles!Selected)
       /\ count = 0 \/ catalog # Articles!None
  /\ stage = "listing" =>
       /\ taken = complete \cup failed
       /\ taken = Articles!Selected \/ stale
  /\ stage \in {"listed", "pruning"} =>
       /\ keep = Articles!Resources(Articles!Selected) \cup Articles!FilesOf(kept)
       /\ \A e \in kept : Articles!Stored(e)
       /\ Cardinality(kept) >= before \/ Cardinality(kept) >= count

ArticleReport ==
  /\ stale <=> queuedCount # Articles!Unset /\ stage # "idle"
  /\ stage = "idle" /\ queuedCount = Articles!Unset =>
       \A e \in report : Articles!Stored(e)

Lasting == {e \in list : Articles!Stored(e) \/ step[e.article] = "done"}

ArticleCount ==
  stage \in {"catalog", "saving", "listing"} => before <= Cardinality(Lasting)

ArticleInv ==
  /\ Articles!TypeOK /\ ArticleRank /\ ArticleProgress /\ ArticleSelection
  /\ ArticleReport /\ ArticleCount /\ Articles!RevisionCovered

LEMMA ArticleNumbers ==
  ASSUME Articles!ArticlesAssumption
  PROVE  /\ Articles!Image = 0 /\ Articles!None = 0
         /\ Articles!Build = Articles!Article
         /\ Articles!Resource = Articles!Article \cup {0} /\ 0 \notin Articles!Article
         /\ 1 \in Articles!Build
         /\ \A n : n \in Articles!Build <=> n \in Nat /\ 1 <= n /\ n <= MaxBuild
         /\ {MaxBuild, MaxCount, MaxRequests, MaxKills} \subseteq Nat
         /\ Articles!Unset \notin Nat
BY DEF Articles!ArticlesAssumption, Articles!Image, Articles!None, Articles!Build,
       Articles!Article, Articles!Resource, Articles!Unset

LEMMA ArticleCardinality ==
  \A S : Articles!Cardinality(S) = Cardinality(S)
BY Zenon DEF Articles!Cardinality, Cardinality

LEMMA NewestOf == \A S, n : Articles!Newest(S, n) \subseteq S
BY DEF Articles!Newest

LEMMA ArticlesBegin ==
  ASSUME Articles!ArticlesAssumption, Articles!Init PROVE ArticleInv
<1> USE ArticleNumbers DEF Articles!Init, Articles!NoRun
<1>1. Articles!TypeOK
  <2>1. /\ step \in [Articles!Resource -> Articles!Progress]
        /\ pages \in [Articles!Resource -> Articles!Build \cup {Articles!None}]
        /\ revisions \in [Articles!Resource -> Articles!Build \cup {Articles!None}]
    BY DEF Articles!Progress
  <2>2. /\ published \in Articles!Build /\ 0 \in 0..MaxBuild /\ 0 \in 0..MaxCount
        /\ 0 \in 0..MaxRequests /\ 0 \in 0..MaxKills
    OBVIOUS
  <2> QED BY <2>1, <2>2 DEF Articles!TypeOK, Articles!Stages
<1>2. ArticleRank
  BY DEF ArticleRank
<1>3. ArticleProgress
  BY DEF ArticleProgress
<1>4. ArticleSelection /\ ArticleReport /\ ArticleCount
  BY DEF ArticleSelection, ArticleReport, ArticleCount
<1>5. Articles!RevisionCovered
  BY DEF Articles!RevisionCovered
<1> QED BY <1>1, <1>2, <1>3, <1>4, <1>5 DEF ArticleInv

\* How a run ends.
LEMMA RunEnded ==
  ASSUME Articles!EndRun
  PROVE  /\ stage' = "idle" /\ count' = 0 /\ stale' = FALSE /\ before' = 0
         /\ taken' = {} /\ complete' = {} /\ failed' = {} /\ keep' = {} /\ kept' = {}
         /\ step' = [r \in Articles!Resource |-> "none"]
BY DEF Articles!EndRun

LEMMA RunFinished ==
  ASSUME NEW entries, Articles!Finish(entries)
  PROVE  /\ Articles!EndRun
         /\ \/ stale /\ UNCHANGED <<asked, report>>
            \/ ~stale /\ asked' = Articles!Unset /\ report' = entries
BY DEF Articles!Finish, Articles!Superseded

\* What a whole TypeOK asks of the variables of a run.
RunTypes ==
  /\ stage \in Articles!Stages /\ count \in 0..MaxCount /\ stale \in BOOLEAN
  /\ taken \subseteq Articles!Article /\ complete \subseteq Articles!Article
  /\ failed \subseteq Articles!Article
  /\ step \in [Articles!Resource -> Articles!Progress]
  /\ keep \subseteq Articles!Resource /\ kept \subseteq Articles!Listed
  /\ before \in 0..MaxBuild
StoreTypes ==
  /\ list \subseteq Articles!Listed
  /\ pages \in [Articles!Resource -> Articles!Build \cup {Articles!None}]
  /\ revisions \in [Articles!Resource -> Articles!Build \cup {Articles!None}]
MemoryTypes ==
  /\ published \in Articles!Build
  /\ catalog \in Articles!Build \cup {Articles!None}
  /\ asked \in 0..MaxCount \cup {Articles!Unset}
  /\ queuedCount \in 0..MaxCount \cup {Articles!Unset}
  /\ report \subseteq Articles!Listed
  /\ requests \in 0..MaxRequests /\ kills \in 0..MaxKills

LEMMA ArticleTypesSplit ==
  Articles!TypeOK <=> RunTypes /\ StoreTypes /\ MemoryTypes
<1>1. Articles!TypeOK => RunTypes
  BY DEF Articles!TypeOK, RunTypes
<1>2. Articles!TypeOK => StoreTypes
  BY DEF Articles!TypeOK, StoreTypes
<1>3. Articles!TypeOK => MemoryTypes
  BY DEF Articles!TypeOK, MemoryTypes
<1>4. RunTypes /\ StoreTypes /\ MemoryTypes => Articles!TypeOK
  BY DEF Articles!TypeOK, RunTypes, StoreTypes, MemoryTypes
<1> QED BY <1>1, <1>2, <1>3, <1>4

LEMMA EndedTypes ==
  ASSUME Articles!ArticlesAssumption, Articles!EndRun PROVE RunTypes'
BY RunEnded, ArticleNumbers DEF RunTypes, Articles!Stages, Articles!Progress

\* Nothing but a run's own steps changes what is kept, and the caches are its.
LEMMA ResourcesOf ==
  ASSUME Articles!ArticlesAssumption, NEW S \in SUBSET Articles!Article
  PROVE  /\ Articles!Resources(S) \subseteq Articles!Resource
         /\ Articles!Resources(S) = IF S = {} THEN {} ELSE S \cup {0}
BY ArticleNumbers DEF Articles!Resources

LEMMA SelectedIs ==
  ASSUME Articles!ArticlesAssumption, Articles!TypeOK
  PROVE  /\ Articles!Selected \subseteq Articles!Article
         /\ Articles!Selected \subseteq 1..catalog
         /\ count = 0 \/ catalog = 0 => Articles!Selected = {}
         /\ count # 0 /\ catalog # 0 =>
              Articles!Selected = Articles!Newest(1..catalog, count)
<1>1. catalog \in 0..MaxBuild
  BY ArticleNumbers DEF Articles!TypeOK
<1> QED BY <1>1, NewestOf, ArticleNumbers DEF Articles!Selected

LEMMA SavedIs ==
  ASSUME Articles!TypeOK
  PROVE  /\ Articles!Saved \subseteq list /\ list \subseteq Articles!Listed
         /\ \A e \in list : e.article \in Articles!Article /\ e.build \in Articles!Build
         /\ Articles!Older \subseteq Articles!Saved
         /\ \A b \in Articles!Build, S \in SUBSET Articles!Article :
              Articles!At(b, S) \subseteq Articles!Listed
BY DEF Articles!TypeOK, Articles!Saved, Articles!Older, Articles!Listed, Articles!At

-----------------------------------------------------------------------------
(* Of so many articles, the newest.                                        *)

LEMMA LeastArticle ==
  ASSUME NEW T \in SUBSET Nat, T # {}
  PROVE  \E m \in T : \A k \in T : m <= k
<1>1. IsWellFoundedOn(OpToRel(<, Nat), Nat)
  BY NatLessThanWellFounded
<1>2. PICK m \in T : \A k \in T : ~(<<k, m>> \in OpToRel(<, Nat))
  BY <1>1, WFMin
<1>3. \A k \in T : ~(k < m)
  BY <1>2 DEF OpToRel
<1> QED BY <1>3

LEMMA GreatestArticle ==
  ASSUME NEW limit \in Nat, NEW T \in SUBSET 0..limit, T # {}
  PROVE  \E m \in T : \A k \in T : k <= m
<1> DEFINE U == {limit - k : k \in T}
<1>1. U \in SUBSET Nat /\ U # {}
  <2>1. \A k \in T : k \in Nat /\ k <= limit /\ limit - k \in Nat
    OBVIOUS
  <2>2. U # {}
    OBVIOUS
  <2> QED BY <2>1, <2>2
<1>2. PICK u \in U : \A v \in U : u <= v
  BY <1>1, LeastArticle
<1>3. PICK m \in T : u = limit - m
  OBVIOUS
<1>4. \A k \in T : limit - m <= limit - k
  BY <1>2, <1>3
<1> QED BY <1>4

LEMMA NewestCount ==
  ASSUME NEW limit \in Nat, NEW S \in SUBSET 0..limit, NEW n \in Nat
  PROVE  /\ IsFiniteSet(S) /\ IsFiniteSet(Articles!Newest(S, n))
         /\ Cardinality(Articles!Newest(S, n)) \in Nat
         /\ Cardinality(Articles!Newest(S, n)) <= n
         /\ Articles!Newest(S, n) = S \/ Cardinality(Articles!Newest(S, n)) >= n
<1> DEFINE N == Articles!Newest(S, n)
           Above(a) == {b \in S : b > a}
<1>1. \A a : a \in N <=> a \in S /\ Cardinality(Above(a)) < n
  BY ArticleCardinality DEF Articles!Newest
<1>2. N \subseteq S
  BY <1>1
<1>3. IsFiniteSet(S)
  <2>1. IsFiniteSet(0..limit)
    BY FS_Interval
  <2> QED BY <2>1, FS_Subset
<1>4. \A T \in SUBSET S : IsFiniteSet(T) /\ Cardinality(T) \in Nat
  BY <1>3, FS_Subset, FS_CardinalityType
<1> HIDE DEF N
<1>5. IsFiniteSet(N) /\ Cardinality(N) \in Nat
  BY <1>2, <1>4
<1>6. Cardinality(N) <= n
  <2>1. CASE N = {}
    BY <2>1, FS_EmptySet
  <2>2. CASE N # {}
    <3>1. N \in SUBSET Nat
      BY <1>2
    <3>2. PICK m \in N : \A k \in N : m <= k
      BY <2>2, <3>1, LeastArticle
    <3>3. N \ {m} \subseteq Above(m)
      BY <1>2, <3>1, <3>2
    <3>4. IsFiniteSet(Above(m)) /\ Cardinality(Above(m)) \in Nat
          /\ Cardinality(Above(m)) < n
      BY <1>1, <1>4
    <3>5. Cardinality(N \ {m}) <= Cardinality(Above(m))
      BY <3>3, <3>4, FS_Subset
    <3>6. Cardinality(N \ {m}) = Cardinality(N) - 1
      BY <1>5, FS_RemoveElement
    <3> QED BY <1>5, <3>4, <3>5, <3>6
  <2> QED BY <2>1, <2>2
<1>7. N = S \/ Cardinality(N) >= n
  <2> SUFFICES ASSUME S \ N # {} PROVE Cardinality(N) >= n
    BY <1>2
  <2>1. PICK m \in S \ N : \A k \in S \ N : k <= m
    BY GreatestArticle
  <2>2. Above(m) \subseteq N
    <3>1. ASSUME NEW b \in S, b > m PROVE b \in N
      <4>1. ~(b <= m)
        BY <2>1, <3>1
      <4> QED BY <2>1, <4>1
    <3> QED BY <3>1
  <2>3. Cardinality(Above(m)) <= Cardinality(N)
    BY <1>5, <2>2, FS_Subset
  <2>4. ~(Cardinality(Above(m)) < n) /\ Cardinality(Above(m)) \in Nat
    BY <1>1, <1>4, <2>1
  <2> QED BY <1>5, <2>3, <2>4
<1> QED BY <1>3, <1>5, <1>6, <1>7 DEF N

\* Entries of different articles are as many as their articles.
LEMMA EntriesCount ==
  ASSUME Articles!ArticlesAssumption, NEW E \in SUBSET Articles!Listed,
         \A e, f \in E : e.article = f.article => e = f
  PROVE  /\ IsFiniteSet(E) /\ Cardinality(E) \in Nat
         /\ Cardinality(E) = Cardinality({e.article : e \in E})
         /\ Cardinality(E) <= MaxBuild
         /\ \A n \in Nat : (\A e \in E : e.article <= n) => Cardinality(E) <= n
<1> DEFINE T == {e.article : e \in E}
           byArticle == [e \in E |-> e.article]
<1>1. T \subseteq Articles!Article
  BY DEF Articles!Listed
<1>2. IsFiniteSet(Articles!Article)
  BY ArticleNumbers, FS_Interval DEF Articles!Article
<1>3. IsFiniteSet(T)
  BY <1>1, <1>2, FS_Subset
<1>4. byArticle \in Injection(E, T) /\ byArticle \in Surjection(E, T)
  BY DEF Injection, Surjection, IsInjective
<1>5. IsFiniteSet(E) /\ Cardinality(E) = Cardinality(T)
  BY <1>3, <1>4, FS_Injection
<1>6. ASSUME NEW n \in Nat, \A e \in E : e.article <= n PROVE Cardinality(E) <= n
  <2>1. T \in SUBSET (1..n)
    BY <1>1, <1>6, ArticleNumbers DEF Articles!Article
  <2>2. IsFiniteSet(1..n) /\ Cardinality(1..n) = n
    BY FS_Interval
  <2> HIDE DEF T
  <2>3. Cardinality(T) <= Cardinality(1..n)
    BY Zenon, <2>1, <2>2, FS_Subset
  <2>4. Cardinality(T) <= n
    BY <2>2, <2>3
  <2> QED BY <1>5, <2>4
<1>7. Cardinality(E) <= MaxBuild
  <2>1. \A e \in E : e.article <= MaxBuild
    BY ArticleNumbers DEF Articles!Listed
  <2> QED BY <1>6, <2>1, ArticleNumbers
<1>8. Cardinality(E) \in Nat
  BY <1>5, FS_CardinalityType
<1> QED BY <1>5, <1>6, <1>7, <1>8

LEMMA AtIs ==
  ASSUME NEW build, NEW S
  PROVE  /\ {e.article : e \in Articles!At(build, S)} = S
         /\ \A e \in Articles!At(build, S) : e.article \in S /\ e.build = build
         /\ \A e, f \in Articles!At(build, S) : e.article = f.article => e = f
<1> DEFINE entry(a) == [article |-> a, build |-> build]
           E == {entry(a) : a \in S}
<1>1. \A a : entry(a).article = a /\ entry(a).build = build
  OBVIOUS
<1>2. Articles!At(build, S) = E
  BY Zenon DEF Articles!At
<1> HIDE DEF entry
<1>3. {e.article : e \in E} = S
  BY <1>1
<1>4. \A e \in E : e.article \in S /\ e.build = build
  BY <1>1
<1>5. \A e, f \in E : e.article = f.article => e = f
  BY <1>1
<1> QED BY <1>2, <1>3, <1>4, <1>5

LEMMA ArticleTypesKeep ==
  ASSUME Articles!ArticlesAssumption, Articles!TypeOK, ArticleRank,
         ArticleProgress, ArticleReport,
         [Articles!Next]_articleVars
  PROVE  Articles!TypeOK'
<1> USE DEF Articles!cacheVars, Articles!stateVars, Articles!boundVars, Articles!runVars
<1>0. RunTypes /\ StoreTypes /\ MemoryTypes
  BY ArticleTypesSplit
<1>00. ASSUME RunTypes', StoreTypes', MemoryTypes' PROVE Articles!TypeOK'
  BY <1>00 DEF RunTypes, StoreTypes, MemoryTypes, Articles!TypeOK
<1>1. CASE UNCHANGED articleVars
  BY <1>0, <1>00, <1>1 DEF articleVars, RunTypes, StoreTypes, MemoryTypes
<1>2. ASSUME NEW n \in 0..MaxCount, Articles!Request(n) PROVE Articles!TypeOK'
  <2>1. requests + 1 \in 0..MaxRequests
    BY <1>0, <1>2, ArticleNumbers DEF Articles!Request, MemoryTypes
  <2> QED BY <1>0, <1>00, <1>2, <2>1
          DEF Articles!Request, RunTypes, StoreTypes, MemoryTypes
<1>3. CASE Articles!StartRun
  <2>1. Cardinality(Articles!Saved) \in 0..MaxBuild
    <3>1. /\ Articles!Saved \subseteq Articles!Listed
          /\ \A e, f \in Articles!Saved : e.article = f.article => e = f
      BY SavedIs DEF ArticleRank
    <3>2. Cardinality(Articles!Saved) \in Nat /\ Cardinality(Articles!Saved) <= MaxBuild
      BY <3>1, EntriesCount
    <3>3. MaxBuild \in Nat
      BY ArticleNumbers
    <3> QED BY <3>2, <3>3
  <2>2. /\ queuedCount \in 0..MaxCount /\ before' = Cardinality(Articles!Saved)
        /\ stage' = "catalog" /\ count' = queuedCount /\ queuedCount' = Articles!Unset
        /\ UNCHANGED <<published, Articles!stateVars, stale, taken, step, complete,
                       failed, keep, kept, Articles!cacheVars, Articles!boundVars>>
    BY <1>0, <1>3, ArticleCardinality DEF Articles!StartRun, MemoryTypes
  <2> QED BY <1>0, <1>00, <2>1, <2>2
          DEF RunTypes, StoreTypes, MemoryTypes, Articles!Stages
<1>4. CASE Articles!LoadCatalog
  <2>1. CASE Articles!Finish({})
    <3>1. catalog' = catalog
      BY <1>4, <2>1, RunFinished, RunEnded DEF Articles!LoadCatalog
    <3> QED BY <1>0, <1>00, <1>4, <2>1, <3>1, RunFinished, EndedTypes
            DEF Articles!LoadCatalog, StoreTypes, MemoryTypes
  <2>2. CASE ~Articles!Finish({})
    <3>1. /\ catalog' = IF count = 0 \/ catalog # Articles!None THEN catalog
                        ELSE published
          /\ stage' = "saving"
          /\ keep' = IF count = 0 THEN {}
                     ELSE Articles!Resources(Articles!Newest(1..catalog', count))
          /\ UNCHANGED <<asked, report, count, stale, taken, step, complete, failed,
                         kept, before, published, queuedCount, list, pages,
                         revisions, requests, kills>>
      BY <1>4, <2>2 DEF Articles!LoadCatalog
    <3>2. catalog' \in Articles!Build \cup {Articles!None}
      BY <1>0, <3>1 DEF MemoryTypes
    <3>3. Articles!Newest(1..catalog', count) \subseteq Articles!Article
      BY <3>2, NewestOf, ArticleNumbers DEF Articles!Article
    <3>4. keep' \subseteq Articles!Resource
      BY <3>1, <3>3, ResourcesOf
    <3> QED BY <1>0, <1>00, <3>1, <3>2, <3>4
            DEF RunTypes, StoreTypes, MemoryTypes, Articles!Stages
  <2> QED BY <2>1, <2>2
<1>5. ASSUME NEW a \in Articles!Article, Articles!TakeArticle(a)
      PROVE Articles!TypeOK'
  BY <1>0, <1>00, <1>5
  DEF Articles!TakeArticle, RunTypes, StoreTypes, MemoryTypes
<1>6. ASSUME NEW r \in Articles!Resource, NEW to \in Articles!Progress,
             Articles!Advance(r, to)
      PROVE RunTypes' /\ MemoryTypes'
  BY <1>0, <1>6 DEF Articles!Advance, RunTypes, MemoryTypes
<1>7. {"none", "body", "revision", "done", "failed"} \subseteq Articles!Progress
  BY DEF Articles!Progress
<1>8. ASSUME NEW r \in Articles!Resource, Articles!CheckResource(r)
      PROVE Articles!TypeOK'
  <2>1. Articles!Advance(r, "done") \/ Articles!Advance(r, "body")
    BY <1>8 DEF Articles!CheckResource
  <2> QED BY <1>0, <1>00, <1>6, <1>7, <1>8, <2>1
          DEF Articles!CheckResource, StoreTypes
<1>9. ASSUME NEW r \in Articles!Resource, Articles!SaveBody(r)
      PROVE Articles!TypeOK'
  <2>1. Articles!Advance(r, "revision") \/ Articles!Advance(r, "failed")
    BY <1>9 DEF Articles!SaveBody, Articles!StoreBody
  <2>2. published \in Articles!Build /\ 1 \in Articles!Build
    BY <1>0, ArticleNumbers DEF MemoryTypes
  <2>3. StoreTypes'
    BY <1>0, <1>9, <2>2 DEF Articles!SaveBody, Articles!StoreBody, StoreTypes
  <2> QED BY <1>00, <1>6, <1>7, <2>1, <2>3
<1>10. ASSUME NEW r \in Articles!Resource, Articles!RecordRevision(r)
       PROVE Articles!TypeOK'
  <2>1. Articles!Advance(r, "done") \/ Articles!Advance(r, "failed")
    BY <1>10 DEF Articles!RecordRevision
  <2>2. Articles!Revision(catalog, r) \in Articles!Build \cup {Articles!None}
    BY <1>0, ArticleNumbers DEF MemoryTypes, Articles!Revision
  <2>3. StoreTypes'
    BY <1>0, <1>10, <2>2 DEF Articles!RecordRevision, StoreTypes
  <2> QED BY <1>00, <1>6, <1>7, <2>1, <2>3
<1>11. ASSUME NEW a \in Articles!Article, Articles!FinishArticle(a)
       PROVE Articles!TypeOK'
  <2>1. complete' \subseteq Articles!Article /\ failed' \subseteq Articles!Article
    BY <1>0, <1>11 DEF Articles!FinishArticle, RunTypes
  <2>2. catalog \in Articles!Build
    <3>1. a \in Articles!Selected
      BY <1>11 DEF Articles!FinishArticle, ArticleProgress
    <3> QED BY <1>0, <3>1, SelectedIs, ArticleNumbers DEF MemoryTypes
  <2>3. report' \subseteq Articles!Listed
    <3>1. Articles!At(catalog, complete') \subseteq Articles!Listed
      BY <2>1, <2>2, SavedIs
    <3> QED BY <1>0, <1>11, <3>1 DEF Articles!FinishArticle, MemoryTypes
  <2> QED BY <1>0, <1>00, <1>11, <2>1, <2>3
          DEF Articles!FinishArticle, RunTypes, StoreTypes, MemoryTypes
<1>12. ASSUME NEW entries \in SUBSET Articles!Listed, Articles!Finish(entries),
              UNCHANGED <<published, catalog, queuedCount, requests, kills>>
       PROVE  RunTypes' /\ MemoryTypes'
  BY <1>0, <1>12, RunFinished, EndedTypes DEF MemoryTypes
<1>13. CASE Articles!SlotsDone
  <2>1. CASE Articles!Finish({})
    BY <1>0, <1>00, <1>12, <1>13, <2>1 DEF Articles!SlotsDone, StoreTypes
  <2>2. CASE ~Articles!Finish({})
    BY <1>0, <1>00, <1>13, <2>2
    DEF Articles!SlotsDone, Articles!Move, Articles!Stages, RunTypes, StoreTypes,
        MemoryTypes
  <2> QED BY <2>1, <2>2
<1>14. CASE Articles!StoreList
  <2>1. CASE Articles!Superseded
    BY <1>0, <1>00, <1>12, <1>14, <2>1 DEF Articles!StoreList, StoreTypes
  <2>2. CASE ~Articles!Superseded
    <3> DEFINE new == Articles!At(catalog, complete) \cup Articles!Older
    <3>1. new \subseteq Articles!Listed
      <4>1. Articles!Older \subseteq Articles!Listed
        BY SavedIs
      <4>2. complete = {} => Articles!At(catalog, complete) = {}
        BY DEF Articles!At
      <4>3. complete # {} => catalog \in Articles!Build
        BY <1>0, SelectedIs, ArticleNumbers DEF ArticleProgress, MemoryTypes
      <4>4. Articles!At(catalog, complete) \subseteq Articles!Listed
        BY <1>0, <4>2, <4>3, SavedIs DEF RunTypes
      <4> QED BY <4>1, <4>4
    <3>2. Articles!FilesOf(Articles!Older) \subseteq Articles!Resource
      <4>1. {e.article : e \in Articles!Older} \subseteq Articles!Article
        BY SavedIs
      <4> QED BY <4>1, ResourcesOf DEF Articles!FilesOf
    <3>3. /\ list' \in {new, list} /\ kept' = new
          /\ keep' = keep \cup Articles!FilesOf(Articles!Older)
          /\ stage' = "listed"
          /\ UNCHANGED <<asked, report, count, stale, taken, step, complete,
                         failed, before, published, catalog, queuedCount, pages,
                         revisions, requests, kills>>
      BY <1>14, <2>2 DEF Articles!StoreList
    <3> HIDE DEF new
    <3> QED BY <1>0, <1>00, <3>1, <3>2, <3>3
            DEF RunTypes, StoreTypes, MemoryTypes, Articles!Stages
  <2> QED BY <2>1, <2>2
<1>15. CASE Articles!BeginPrune
  <2>1. CASE Articles!Finish({})
    BY <1>0, <1>00, <1>12, <1>15, <2>1 DEF Articles!BeginPrune, StoreTypes
  <2>2. CASE ~Articles!Finish({})
    BY <1>0, <1>00, <1>15, <2>2
    DEF Articles!BeginPrune, Articles!Move, Articles!Stages, RunTypes, StoreTypes,
        MemoryTypes
  <2> QED BY <2>1, <2>2
<1>16. ASSUME NEW r \in Articles!Resource, Articles!PruneEntry(r)
       PROVE Articles!TypeOK'
  <2>1. StoreTypes'
    BY <1>0, <1>16 DEF Articles!PruneEntry, StoreTypes
  <2> QED BY <1>0, <1>00, <1>16, <2>1 DEF Articles!PruneEntry, RunTypes, MemoryTypes
<1>17. CASE Articles!PruneDone
  BY <1>0, <1>00, <1>12, <1>17 DEF Articles!PruneDone, StoreTypes, RunTypes
<1>18. CASE Articles!Deploy
  <2>1. published + 1 \in Articles!Build
    BY <1>0, <1>18, ArticleNumbers DEF Articles!Deploy, MemoryTypes
  <2> QED BY <1>0, <1>00, <1>18, <2>1
          DEF Articles!Deploy, RunTypes, StoreTypes, MemoryTypes
<1>19. CASE Articles!Kill
  <2>1. kills + 1 \in 0..MaxKills
    BY <1>0, <1>19, ArticleNumbers DEF Articles!Kill, MemoryTypes
  <2>2. RunTypes'
    BY <1>19, EndedTypes DEF Articles!Kill
  <2> QED BY <1>0, <1>00, <1>19, <2>1, <2>2 DEF Articles!Kill, StoreTypes, MemoryTypes
<1> QED
  BY Zenon, <1>1, <1>2, <1>3, <1>4, <1>5, <1>8, <1>9, <1>10, <1>11, <1>13, <1>14,
     <1>15, <1>16, <1>17, <1>18, <1>19
  DEF Articles!Next, Articles!Run

\* The other steps leave the builds and what is stored alone.
LEMMA StoreStays ==
  ASSUME Articles!ArticlesAssumption, [Articles!Next]_articleVars
  PROVE  \/ UNCHANGED <<published, catalog, list, pages, revisions>>
         \/ Articles!LoadCatalog \/ Articles!StoreList \/ Articles!Deploy
         \/ Articles!Kill
         \/ \E r \in Articles!Resource :
              Articles!SaveBody(r) \/ Articles!RecordRevision(r)
              \/ Articles!PruneEntry(r)
<1> USE DEF Articles!cacheVars, Articles!stateVars, Articles!runVars
<1>1. CASE UNCHANGED articleVars
  BY <1>1 DEF articleVars
<1>2. CASE Articles!StartRun \/ Articles!SlotsDone \/ Articles!BeginPrune
           \/ Articles!PruneDone \/ \E n \in 0..MaxCount : Articles!Request(n)
  BY <1>2 DEF Articles!StartRun, Articles!SlotsDone, Articles!BeginPrune,
              Articles!PruneDone, Articles!Request
<1>3. CASE \E a \in Articles!Article : Articles!TakeArticle(a)
                                       \/ Articles!FinishArticle(a)
  BY <1>3 DEF Articles!TakeArticle, Articles!FinishArticle
<1>4. CASE \E r \in Articles!Resource : Articles!CheckResource(r)
  BY <1>4 DEF Articles!CheckResource, Articles!Advance
<1> QED BY <1>1, <1>2, <1>3, <1>4 DEF Articles!Next, Articles!Run

LEMMA ArticleRankKeeps ==
  ASSUME Articles!ArticlesAssumption, ArticleInv, [Articles!Next]_articleVars,
         Articles!TypeOK'
  PROVE  ArticleRank' /\ Articles!RevisionCovered'
<1> USE DEF Articles!cacheVars, Articles!stateVars, Articles!runVars,
            Articles!boundVars
<1>0. /\ ArticleRank /\ ArticleProgress /\ Articles!RevisionCovered
      /\ published \in Nat /\ published # 0 /\ catalog \in Nat
      /\ list \subseteq Articles!Listed
      /\ pages \in [Articles!Resource -> Articles!Build \cup {0}]
      /\ revisions \in [Articles!Resource -> Articles!Build \cup {0}]
      /\ \A r \in Articles!Resource : pages[r] \in Nat /\ revisions[r] \in Nat
      /\ \A e \in Articles!Listed : e.article \in Nat /\ e.build \in Nat
  <2>1. Articles!TypeOK /\ ArticleRank /\ ArticleProgress /\ Articles!RevisionCovered
    BY DEF ArticleInv
  <2>2. StoreTypes /\ MemoryTypes
    BY <2>1, ArticleTypesSplit
  <2>3. \A e \in Articles!Listed : e.article \in Nat /\ e.build \in Nat
    BY ArticleNumbers DEF Articles!Listed
  <2> QED BY <2>1, <2>2, <2>3, ArticleNumbers DEF StoreTypes, MemoryTypes
<1>1. CASE UNCHANGED <<published, catalog, list, pages, revisions>>
  BY <1>0, <1>1 DEF ArticleRank, Articles!RevisionCovered
<1>2. CASE Articles!LoadCatalog
  <2>1. catalog' \in {catalog, published}
        /\ UNCHANGED <<published, list, pages, revisions>>
    BY <1>2 DEF Articles!LoadCatalog
  <2> QED BY <1>0, <2>1 DEF ArticleRank, Articles!RevisionCovered
<1>3. CASE Articles!StoreList
  <2>1. UNCHANGED <<published, catalog, pages, revisions>>
    BY <1>3 DEF Articles!StoreList
  <2>2. CASE list' = list
    BY <1>0, <2>1, <2>2 DEF ArticleRank, Articles!RevisionCovered
  <2>3. CASE list' = Articles!At(catalog, complete) \cup Articles!Older
    <3>1. \A e \in Articles!Older : e \in list /\ e.article \notin complete
      BY DEF Articles!Older, Articles!Saved
    <3>2. /\ \A e \in Articles!At(catalog, complete) :
               e.article \in complete /\ e.build = catalog
          /\ \A e, f \in Articles!At(catalog, complete) :
               e.article = f.article => e = f
      BY AtIs
    <3>3. \A a \in complete : a \in 1..catalog
      BY <1>0, SelectedIs DEF ArticleProgress, ArticleInv
    <3>4. \A e \in list' :
            /\ e.article <= e.build /\ e.build <= published
            /\ catalog # Articles!None => e.build <= catalog
      BY <1>0, <2>3, <3>1, <3>2, <3>3 DEF ArticleRank
    <3>5. \A e, f \in list' : e.article = f.article => e = f
      BY <1>0, <2>3, <3>1, <3>2 DEF ArticleRank
    <3> QED BY <1>0, <2>1, <3>4, <3>5 DEF ArticleRank, Articles!RevisionCovered
  <2> QED BY <1>3, <2>2, <2>3 DEF Articles!StoreList
<1>4. CASE Articles!Deploy
  <2>1. published' = published + 1 /\ UNCHANGED <<catalog, list, pages, revisions>>
    BY <1>4 DEF Articles!Deploy
  <2> QED BY <1>0, <2>1 DEF ArticleRank, Articles!RevisionCovered
<1>5. CASE Articles!Kill
  <2>1. catalog' = 0 /\ UNCHANGED <<published, list, pages, revisions>>
    BY <1>5, ArticleNumbers DEF Articles!Kill
  <2> QED BY <1>0, <2>1, ArticleNumbers DEF ArticleRank, Articles!RevisionCovered
<1>6. ASSUME NEW r \in Articles!Resource, Articles!SaveBody(r)
      PROVE  ArticleRank' /\ Articles!RevisionCovered'
  <2>1. /\ UNCHANGED <<published, catalog, list, revisions>>
        /\ \/ pages' = pages
           \/ pages' = [pages EXCEPT ![r] = IF r = 0 THEN 1 ELSE published]
    BY <1>6, ArticleNumbers DEF Articles!SaveBody, Articles!StoreBody, Articles!Advance
  <2>2. CASE pages' = pages
    BY <1>0, <2>1, <2>2 DEF ArticleRank, Articles!RevisionCovered
  <2>3. CASE pages' = [pages EXCEPT ![r] = IF r = 0 THEN 1 ELSE published]
    <3>1. \A q \in Articles!Resource :
            pages'[q] = IF q = r THEN IF r = 0 THEN 1 ELSE published ELSE pages[q]
      BY <1>0, <2>3
    <3>2. /\ revisions[0] \in {0, 1}
          /\ \A q \in Articles!Resource : revisions[q] <= published
      BY <1>0, ArticleNumbers DEF ArticleRank
    <3>3. \A q \in Articles!Resource : pages'[q] <= published
      BY <1>0, <3>1 DEF ArticleRank
    <3>4. pages'[0] \in {0, 1}
      BY <1>0, <3>1, ArticleNumbers DEF ArticleRank
    <3>5. ArticleRank'
      BY <1>0, <2>1, <3>3, <3>4, ArticleNumbers DEF ArticleRank
    <3>6. Articles!RevisionCovered'
      BY <1>0, <2>1, <3>1, <3>2 DEF Articles!RevisionCovered
    <3> QED BY <3>5, <3>6
  <2> QED BY <2>1, <2>2, <2>3
<1>7. ASSUME NEW r \in Articles!Resource, Articles!RecordRevision(r)
      PROVE  ArticleRank' /\ Articles!RevisionCovered'
  <2>1. /\ UNCHANGED <<published, catalog, list, pages>>
        /\ \/ revisions' = revisions
           \/ revisions' = [revisions EXCEPT ![r] = Articles!Revision(catalog, r)]
    BY <1>7, ArticleNumbers DEF Articles!RecordRevision, Articles!Advance
  <2>2. CASE revisions' = revisions
    BY <1>0, <2>1, <2>2 DEF ArticleRank, Articles!RevisionCovered
  <2>3. CASE revisions' = [revisions EXCEPT ![r] = Articles!Revision(catalog, r)]
    <3>1. \A q \in Articles!Resource :
            revisions'[q] = IF q = r THEN IF r = 0 THEN 1 ELSE catalog ELSE revisions[q]
      BY <1>0, <2>3, ArticleNumbers DEF Articles!Revision
    <3>2. pages[r] >= IF r = 0 THEN 1 ELSE catalog
      BY <1>0, <1>7, ArticleNumbers
      DEF Articles!RecordRevision, ArticleProgress, Articles!Revision
    <3>3. \A q \in Articles!Resource : revisions'[q] <= published
      BY <1>0, <3>1 DEF ArticleRank
    <3>4. revisions'[0] \in {0, 1}
      BY <1>0, <3>1, ArticleNumbers DEF ArticleRank
    <3>5. ArticleRank'
      BY <1>0, <2>1, <3>3, <3>4, ArticleNumbers DEF ArticleRank
    <3>6. Articles!RevisionCovered'
      BY <1>0, <2>1, <3>1, <3>2 DEF Articles!RevisionCovered
    <3> QED BY <3>5, <3>6
  <2> QED BY <2>1, <2>2, <2>3
<1>8. ASSUME NEW r \in Articles!Resource, Articles!PruneEntry(r)
      PROVE  ArticleRank' /\ Articles!RevisionCovered'
  <2>1. /\ UNCHANGED <<published, catalog, list>>
        /\ \A q \in Articles!Resource : pages'[q] \in {pages[q], 0}
                                        /\ revisions'[q] \in {revisions[q], 0}
    BY <1>0, <1>8, ArticleNumbers DEF Articles!PruneEntry
  <2> QED BY <1>0, <2>1, ArticleNumbers DEF ArticleRank, Articles!RevisionCovered
<1> QED BY StoreStays, <1>1, <1>2, <1>3, <1>4, <1>5, <1>6, <1>7, <1>8

LEMMA ProgressKeeps ==
  ASSUME Articles!ArticlesAssumption, ArticleInv, [Articles!Next]_articleVars,
         Articles!TypeOK'
  PROVE  ArticleProgress'
<1> USE DEF Articles!cacheVars, Articles!stateVars, Articles!runVars,
            Articles!boundVars
<1>0. /\ ArticleProgress
      /\ Articles!Image = 0 /\ Articles!None = 0
      /\ Articles!Resource = Articles!Article \cup {0} /\ 0 \notin Articles!Article
      /\ step \in [Articles!Resource -> Articles!Progress]
      /\ pages \in [Articles!Resource -> Articles!Build \cup {0}]
      /\ revisions \in [Articles!Resource -> Articles!Build \cup {0}]
      /\ taken \subseteq Articles!Article
      /\ published \in Nat /\ published # 0 /\ catalog \in Nat /\ catalog <= published
      /\ pages[0] \in {0, 1}
  BY ArticleNumbers, ArticleTypesSplit
  DEF ArticleInv, RunTypes, StoreTypes, MemoryTypes, ArticleRank
<1>1. ASSUME Articles!EndRun PROVE ArticleProgress'
  BY <1>0, <1>1, RunEnded DEF ArticleProgress
<1>2. ASSUME UNCHANGED <<catalog, stage, count, taken, step, complete, failed, pages,
                         revisions>>
      PROVE  ArticleProgress'
  BY <1>0, <1>2 DEF ArticleProgress, Articles!Selected, Articles!StoredAt
<1>3. CASE UNCHANGED articleVars \/ Articles!Deploy
           \/ \E n \in 0..MaxCount : Articles!Request(n)
  BY <1>2, <1>3 DEF articleVars, Articles!Deploy, Articles!Request
<1>4. CASE Articles!Kill \/ Articles!PruneDone
  BY <1>1, <1>4, RunFinished DEF Articles!Kill, Articles!PruneDone
<1>5. ASSUME stage \in {"idle", "catalog"}, UNCHANGED <<taken, step, complete, failed>>
      PROVE  ArticleProgress'
  <2>1. taken = {} /\ complete = {} /\ failed = {}
        /\ \A r \in Articles!Resource : step[r] = "none"
    BY <1>0, <1>5 DEF ArticleProgress
  <2> QED BY <1>0, <1>5, <2>1 DEF ArticleProgress
<1>6. CASE Articles!StartRun
  BY <1>5, <1>6 DEF Articles!StartRun
<1>7. CASE Articles!LoadCatalog
  BY <1>1, <1>5, <1>7, RunFinished DEF Articles!LoadCatalog
<1>8. ASSUME NEW a \in Articles!Article, Articles!TakeArticle(a) PROVE ArticleProgress'
  <2>1. /\ a \in Articles!Selected /\ Articles!Selected' = Articles!Selected
        /\ taken' = taken \cup {a} /\ stage = "saving"
        /\ UNCHANGED <<catalog, stage, step, complete, failed, pages, revisions>>
    BY <1>8, NewestOf DEF Articles!TakeArticle, Articles!Selected
  <2> QED BY <1>0, <2>1 DEF ArticleProgress, Articles!StoredAt
<1>9. ASSUME NEW r \in Articles!Resource, NEW to,
             Articles!Advance(r, to), UNCHANGED <<pages, revisions>>
      PROVE  /\ UNCHANGED <<taken, complete, failed, stage, catalog>>
             /\ Articles!Selected' = Articles!Selected
             /\ \A q \in Articles!Resource : step'[q] = IF q = r THEN to ELSE step[q]
  BY <1>0, <1>9 DEF Articles!Advance, Articles!Selected
<1>10. ASSUME NEW r \in Articles!Resource, Articles!CheckResource(r)
       PROVE  ArticleProgress'
  <2>1. /\ UNCHANGED <<taken, complete, failed, stage, catalog, pages, revisions>>
        /\ Articles!Selected' = Articles!Selected
        /\ \A q \in Articles!Resource :
             q # r => step'[q] = step[q]
        /\ step'[r] \in {"done", "body"}
        /\ step'[r] = "done" => Articles!StoredAt(r, Articles!Revision(catalog, r))
        /\ step[r] = "none" /\ stage = "saving"
        /\ (r = 0 /\ taken # {}) \/ (r \in taken /\ step[0] = "done")
    BY <1>0, <1>10
    DEF Articles!CheckResource, Articles!Advance, Articles!Selected
  <2>2. CASE r = 0
    <3>1. complete = {} /\ failed = {} /\ \A a \in Articles!Article : step[a] = "none"
      BY <1>0, <2>1, <2>2 DEF ArticleProgress
    <3> QED BY <1>0, <2>1, <2>2, <3>1 DEF ArticleProgress, Articles!StoredAt
  <2>3. CASE r \in taken /\ step[0] = "done"
    <3>1. r # 0 /\ r \notin complete /\ r \notin failed
      BY <1>0, <2>1, <2>3 DEF ArticleProgress
    <3> QED BY <1>0, <2>1, <2>3, <3>1 DEF ArticleProgress, Articles!StoredAt
  <2> QED BY <2>1, <2>2, <2>3
<1>11. ASSUME NEW r \in Articles!Resource, step[r] \in {"body", "revision"}
       PROVE  /\ stage = "saving" /\ r \notin complete /\ r \notin failed
              /\ r = 0 => /\ taken # {} /\ complete = {} /\ failed = {}
                          /\ \A a \in Articles!Article : step[a] = "none"
              /\ r # 0 => r \in taken /\ step[0] = "done"
  BY <1>0, <1>11 DEF ArticleProgress
<1>12. ASSUME NEW r \in Articles!Resource, step[r] \in {"body", "revision"},
              UNCHANGED <<taken, complete, failed, stage, catalog, count>>,
              \A q \in Articles!Resource :
                q # r => step'[q] = step[q] /\ pages'[q] = pages[q]
                         /\ revisions'[q] = revisions[q],
              step'[r] # "none",
              step'[r] \in {"body", "revision"} => step'[r] = "revision",
              step'[r] = "revision" =>
                pages'[r] # 0 /\ pages'[r] >= Articles!Revision(catalog, r),
              step'[r] = "done" =>
                pages'[r] # 0 /\ revisions'[r] = Articles!Revision(catalog, r)
       PROVE  ArticleProgress'
  <2>1. Articles!Selected' = Articles!Selected
    BY <1>12 DEF Articles!Selected
  <2>2. \A q \in Articles!Resource : Articles!Revision(catalog', q)
                                     = Articles!Revision(catalog, q)
    BY <1>12
  <2>3. /\ stage = "saving" /\ r \notin complete /\ r \notin failed
        /\ r = 0 => /\ taken # {} /\ complete = {} /\ failed = {}
                    /\ \A a \in Articles!Article : step[a] = "none"
        /\ r # 0 => r \in taken /\ step[0] = "done"
    BY <1>11, <1>12
  <2>4. CASE r = 0
    BY <1>0, <1>12, <2>1, <2>2, <2>3, <2>4 DEF ArticleProgress, Articles!StoredAt
  <2>5. CASE r # 0
    BY <1>0, <1>12, <2>1, <2>2, <2>3, <2>5 DEF ArticleProgress, Articles!StoredAt
  <2> QED BY <2>4, <2>5
<1>13. ASSUME NEW r \in Articles!Resource, Articles!SaveBody(r) PROVE ArticleProgress'
  <2>1. /\ step[r] = "body" /\ UNCHANGED <<taken, complete, failed, stage, catalog,
                                            count, revisions>>
        /\ \A q \in Articles!Resource : q # r => step'[q] = step[q]
        /\ \/ /\ step'[r] = "revision"
              /\ pages' = [pages EXCEPT ![r] = IF r = 0 THEN 1 ELSE published]
           \/ step'[r] = "failed" /\ pages' = pages
    BY <1>0, <1>13 DEF Articles!SaveBody, Articles!StoreBody, Articles!Advance
  <2>2. \A q \in Articles!Resource : q # r => pages'[q] = pages[q]
    BY <1>0, <2>1
  <2>3. step'[r] = "revision" =>
          pages'[r] # 0 /\ pages'[r] >= Articles!Revision(catalog, r)
    BY <1>0, <2>1 DEF Articles!Revision
  <2> QED BY <1>12, <2>1, <2>2, <2>3
<1>14. ASSUME NEW r \in Articles!Resource, Articles!RecordRevision(r)
       PROVE  ArticleProgress'
  <2>1. /\ step[r] = "revision" /\ UNCHANGED <<taken, complete, failed, stage, catalog,
                                                count, pages>>
        /\ \A q \in Articles!Resource : q # r => step'[q] = step[q]
        /\ \/ /\ step'[r] = "done"
              /\ revisions' = [revisions EXCEPT ![r] = Articles!Revision(catalog, r)]
           \/ step'[r] = "failed" /\ revisions' = revisions
    BY <1>0, <1>14 DEF Articles!RecordRevision, Articles!Advance
  <2>2. \A q \in Articles!Resource : q # r => revisions'[q] = revisions[q]
    BY <1>0, <2>1
  <2>3. pages[r] # 0
    BY <1>0, <2>1 DEF ArticleProgress
  <2>4. step'[r] = "done" => revisions'[r] = Articles!Revision(catalog, r)
    BY <1>0, <2>1
  <2> QED BY <1>12, <2>1, <2>2, <2>3, <2>4
<1>15. ASSUME NEW a \in Articles!Article, Articles!FinishArticle(a)
       PROVE  ArticleProgress'
  <2>1. /\ UNCHANGED <<taken, step, stage, catalog, count, pages, revisions>>
        /\ a \in taken
        /\ \/ /\ step[0] = "done" /\ step[a] = "done"
              /\ complete' = complete \cup {a} /\ failed' = failed
           \/ /\ "failed" \in {step[0], step[a]}
              /\ failed' = failed \cup {a} /\ complete' = complete
    BY <1>0, <1>15 DEF Articles!FinishArticle
  <2>2. Articles!Selected' = Articles!Selected
    BY <2>1 DEF Articles!Selected
  <2> QED BY <1>0, <2>1, <2>2 DEF ArticleProgress, Articles!StoredAt
<1>16. ASSUME UNCHANGED <<catalog, count, taken, step, complete, failed, pages,
                          revisions>>,
              stage' \in {"listing", "listed", "pruning"},
              \A r \in Articles!Resource : step[r] \notin {"body", "revision"}
       PROVE  ArticleProgress'
  BY <1>0, <1>16 DEF ArticleProgress, Articles!Selected, Articles!StoredAt
<1>17. CASE Articles!SlotsDone
  <2>1. CASE ~Articles!Finish({})
    <3>1. /\ UNCHANGED <<catalog, count, taken, step, complete, failed, pages,
                         revisions>>
          /\ stage' = "listing" /\ taken = complete \cup failed
      BY <1>17, <2>1 DEF Articles!SlotsDone, Articles!Move
    <3>2. ASSUME NEW r \in Articles!Resource PROVE step[r] \notin {"body", "revision"}
      BY <1>0, <1>11, <3>1 DEF ArticleProgress
    <3> QED BY <1>16, <3>1, <3>2
  <2> QED BY <1>1, <2>1, RunFinished
<1>18. CASE Articles!StoreList \/ Articles!BeginPrune
  <2>1. CASE ~Articles!Finish({})
    <3>1. /\ UNCHANGED <<catalog, count, taken, step, complete, failed, pages,
                         revisions>>
          /\ stage' \in {"listed", "pruning"} /\ stage # "saving"
      BY <1>18, <2>1 DEF Articles!StoreList, Articles!BeginPrune, Articles!Move
    <3>2. \A r \in Articles!Resource : step[r] \notin {"body", "revision"}
      BY <1>0, <3>1 DEF ArticleProgress
    <3> QED BY <1>16, <3>1, <3>2
  <2> QED BY <1>1, <2>1, RunFinished
<1>19. ASSUME NEW r \in Articles!Resource, Articles!PruneEntry(r)
       PROVE  ArticleProgress'
  <2>1. /\ UNCHANGED <<catalog, stage, count, taken, step, complete, failed>>
        /\ stage = "pruning" /\ r \notin keep
        /\ \A q \in Articles!Resource :
             q # r => pages'[q] = pages[q] /\ revisions'[q] = revisions[q]
    BY <1>0, <1>19 DEF Articles!PruneEntry, Articles!Unwanted
  <2>2. Articles!Selected' = Articles!Selected
    BY <2>1 DEF Articles!Selected
  <2>3. Articles!Resources(Articles!Selected) \subseteq keep
    BY <2>1 DEF ArticleInv, ArticleSelection
  <2>4. taken # {} => 0 \in keep /\ taken \subseteq keep
    BY <1>0, <2>3, SelectedIs, ResourcesOf DEF ArticleProgress, ArticleInv
  <2>5. step[r] # "done"
    BY <1>0, <2>1, <2>4 DEF ArticleProgress
  <2>6. \A q \in Articles!Resource : step[q] \notin {"body", "revision"}
    BY <1>0, <2>1 DEF ArticleProgress
  <2> QED BY <1>0, <2>1, <2>2, <2>5, <2>6 DEF ArticleProgress, Articles!StoredAt
<1> QED
  BY Zenon, <1>3, <1>4, <1>6, <1>7, <1>8, <1>10, <1>13, <1>14, <1>15, <1>17, <1>18,
     <1>19
  DEF Articles!Next, Articles!Run

LEMMA ReportKeeps ==
  ASSUME Articles!ArticlesAssumption, ArticleInv, [Articles!Next]_articleVars
  PROVE  ArticleReport'
<1> USE DEF Articles!cacheVars, Articles!stateVars, Articles!runVars,
            Articles!boundVars
<1>0. ArticleReport /\ ArticleSelection /\ Articles!Unset \notin 0..MaxCount
  BY ArticleNumbers DEF ArticleInv
<1>1. ASSUME UNCHANGED <<stage, stale, queuedCount, report, pages, revisions>>
      PROVE  ArticleReport'
  BY <1>0, <1>1 DEF ArticleReport, Articles!Stored, Articles!StoredAt
<1>2. ASSUME UNCHANGED <<stale, queuedCount>>, stage # "idle", stage' # "idle"
      PROVE  ArticleReport'
  BY <1>0, <1>2 DEF ArticleReport
<1>3. ASSUME NEW entries, Articles!Finish(entries),
             UNCHANGED <<queuedCount, pages, revisions>>,
             stage # "idle", \A e \in entries : Articles!Stored(e)
      PROVE  ArticleReport'
  <2>1. stage' = "idle" /\ stale' = FALSE
    BY <1>3, RunFinished, RunEnded
  <2>2. CASE queuedCount # Articles!Unset
    BY <1>3, <2>1, <2>2 DEF ArticleReport
  <2>3. CASE queuedCount = Articles!Unset
    <3>1. ~stale
      BY <1>0, <2>3 DEF ArticleReport
    <3>2. report' = entries
      BY <1>3, <3>1, RunFinished
    <3> QED BY <1>3, <2>1, <2>3, <3>2
            DEF ArticleReport, Articles!Stored, Articles!StoredAt
  <2> QED BY <2>2, <2>3
<1>4. CASE UNCHANGED articleVars \/ Articles!Deploy
  BY <1>1, <1>4 DEF articleVars, Articles!Deploy
<1>5. ASSUME NEW n \in 0..MaxCount, Articles!Request(n) PROVE ArticleReport'
  BY <1>0, <1>5 DEF ArticleReport, Articles!Request
<1>6. CASE Articles!StartRun
  BY <1>0, <1>6 DEF ArticleReport, Articles!StartRun
<1>7. CASE Articles!LoadCatalog
  BY <1>2, <1>3, <1>7 DEF Articles!LoadCatalog
<1>8. ASSUME NEW a \in Articles!Article,
             Articles!TakeArticle(a) \/ Articles!FinishArticle(a)
      PROVE  ArticleReport'
  BY <1>2, <1>8 DEF Articles!TakeArticle, Articles!FinishArticle
<1>9. ASSUME NEW r \in Articles!Resource,
             Articles!CheckResource(r) \/ Articles!SaveBody(r)
             \/ Articles!RecordRevision(r)
      PROVE  ArticleReport'
  <2>1. stage = "saving"
    BY <1>9 DEF Articles!CheckResource, Articles!SaveBody, Articles!StoreBody,
                Articles!RecordRevision, ArticleInv, ArticleProgress
  <2>2. UNCHANGED <<stage, stale, queuedCount>>
    BY <1>9 DEF Articles!CheckResource, Articles!SaveBody, Articles!StoreBody,
                Articles!RecordRevision, Articles!Advance
  <2> QED BY <1>2, <2>1, <2>2
<1>10. CASE Articles!SlotsDone
  BY <1>2, <1>3, <1>10 DEF Articles!SlotsDone, Articles!Move
<1>11. CASE Articles!StoreList
  BY <1>2, <1>3, <1>11 DEF Articles!StoreList
<1>12. CASE Articles!BeginPrune
  BY <1>2, <1>3, <1>12 DEF Articles!BeginPrune, Articles!Move
<1>13. ASSUME NEW r \in Articles!Resource, Articles!PruneEntry(r) PROVE ArticleReport'
  BY <1>2, <1>13 DEF Articles!PruneEntry
<1>14. CASE Articles!PruneDone
  BY <1>0, <1>3, <1>14 DEF Articles!PruneDone, ArticleSelection
<1>15. CASE Articles!Kill
  BY <1>15, RunEnded DEF ArticleReport, Articles!Kill
<1> QED
  BY Zenon, <1>4, <1>5, <1>6, <1>7, <1>8, <1>9, <1>10, <1>11, <1>12, <1>13, <1>14, <1>15
  DEF Articles!Next, Articles!Run

\* What was complete when the run began is listed and stored still, or done.
LEMMA LastingGrows ==
  ASSUME Articles!ArticlesAssumption, Articles!TypeOK, ArticleRank,
         NEW S, S \subseteq list, NEW T, T \subseteq list, S \subseteq T
  PROVE  /\ IsFiniteSet(S) /\ Cardinality(S) \in Nat /\ Cardinality(T) \in Nat
         /\ Cardinality(S) <= Cardinality(T)
<1>1. /\ list \subseteq Articles!Listed
      /\ \A e, f \in list : e.article = f.article => e = f
  BY SavedIs DEF ArticleRank
<1>2. IsFiniteSet(list)
  BY <1>1, EntriesCount
<1>3. IsFiniteSet(S) /\ IsFiniteSet(T)
  BY <1>2, FS_Subset
<1>4. Cardinality(S) <= Cardinality(T)
  BY <1>3, FS_Subset
<1> QED BY <1>3, <1>4, FS_CardinalityType

LEMMA CountKeeps ==
  ASSUME Articles!ArticlesAssumption, ArticleInv, [Articles!Next]_articleVars,
         Articles!TypeOK'
  PROVE  ArticleCount'
<1> USE DEF Articles!cacheVars, Articles!stateVars, Articles!runVars,
            Articles!boundVars
<1>0. /\ ArticleCount /\ ArticleProgress /\ Articles!TypeOK /\ ArticleRank
      /\ Articles!Image = 0 /\ Articles!None = 0
      /\ \A e \in list : e.article \in Articles!Resource /\ e.article # 0
      /\ step \in [Articles!Resource -> Articles!Progress] /\ 0 \in Articles!Resource
      /\ before \in Nat
  BY ArticleNumbers, ArticleTypesSplit, SavedIs DEF ArticleInv, RunTypes
<1>1. ASSUME stage' \notin {"catalog", "saving", "listing"} PROVE ArticleCount'
  BY <1>1 DEF ArticleCount
<1>2. ASSUME stage' \in {"catalog", "saving", "listing"}
               => stage \in {"catalog", "saving", "listing"},
             before' = before, list' = list,
             \A e \in list : Articles!Stored(e) => Articles!Stored(e)',
             \A e \in list : step[e.article] = "done" => step'[e.article] = "done"
      PROVE  ArticleCount'
  <2>1. Lasting \subseteq list /\ Lasting' \subseteq list /\ Lasting \subseteq Lasting'
    BY <1>2 DEF Lasting
  <2>2. /\ Cardinality(Lasting) \in Nat /\ Cardinality(Lasting') \in Nat
        /\ Cardinality(Lasting) <= Cardinality(Lasting')
    BY <1>0, <2>1, LastingGrows
  <2> QED BY <1>0, <1>2, <2>2 DEF ArticleCount
<1>3. ASSUME stage' \in {"catalog", "saving", "listing"}
               => stage \in {"catalog", "saving", "listing"},
             UNCHANGED <<before, list, pages, revisions, step>>
      PROVE  ArticleCount'
  BY <1>2, <1>3 DEF Articles!Stored, Articles!StoredAt
<1>4. CASE UNCHANGED articleVars \/ Articles!Deploy
           \/ \E n \in 0..MaxCount : Articles!Request(n)
  BY <1>3, <1>4 DEF articleVars, Articles!Deploy, Articles!Request
<1>5. CASE Articles!StartRun
  <2>1. /\ before' = Cardinality(Articles!Saved)
        /\ UNCHANGED <<list, pages, revisions>>
    BY <1>5, ArticleCardinality DEF Articles!StartRun
  <2>2. Articles!Saved \subseteq Lasting' /\ Articles!Saved \subseteq list
        /\ Lasting' \subseteq list
    BY <2>1 DEF Articles!Saved, Lasting, Articles!Stored, Articles!StoredAt
  <2>3. Cardinality(Articles!Saved) <= Cardinality(Lasting')
    BY <1>0, <2>2, LastingGrows
  <2> QED BY <2>1, <2>3 DEF ArticleCount
<1>6. ASSUME NEW entries, Articles!Finish(entries) PROVE ArticleCount'
  BY <1>1, <1>6, RunFinished, RunEnded
<1>7. CASE Articles!LoadCatalog
  BY <1>3, <1>6, <1>7 DEF Articles!LoadCatalog
<1>8. ASSUME NEW a \in Articles!Article,
             Articles!TakeArticle(a) \/ Articles!FinishArticle(a)
      PROVE  ArticleCount'
  BY <1>3, <1>8 DEF Articles!TakeArticle, Articles!FinishArticle
<1>9. ASSUME NEW r \in Articles!Resource, NEW to, Articles!Advance(r, to)
      PROVE  /\ stage' = stage /\ before' = before
             /\ \A q \in Articles!Resource : step'[q] = IF q = r THEN to ELSE step[q]
  BY <1>0, <1>9 DEF Articles!Advance
<1>10. ASSUME NEW r \in Articles!Resource, Articles!CheckResource(r)
       PROVE  ArticleCount'
  <2>1. /\ UNCHANGED <<stage, before, list, pages, revisions>> /\ step[r] = "none"
        /\ \A q \in Articles!Resource : q # r => step'[q] = step[q]
    BY <1>9, <1>10 DEF Articles!CheckResource
  <2> QED BY <1>0, <1>2, <2>1 DEF Articles!Stored, Articles!StoredAt
<1>11. ASSUME NEW r \in Articles!Resource, Articles!SaveBody(r) PROVE ArticleCount'
  <2>1. /\ UNCHANGED <<stage, before, list, revisions>> /\ step[r] = "body"
        /\ \A q \in Articles!Resource : q # r => step'[q] = step[q]
        /\ \/ pages' = pages
           \/ pages' = [pages EXCEPT ![r] = IF r = 0 THEN 1 ELSE published]
    BY <1>0, <1>9, <1>11 DEF Articles!SaveBody, Articles!StoreBody
  <2>2. published # 0 /\ pages \in [Articles!Resource -> Articles!Build \cup {0}]
    BY <1>0, ArticleTypesSplit, ArticleNumbers DEF StoreTypes, MemoryTypes
  <2>3. \A q \in Articles!Resource : pages[q] # 0 => pages'[q] # 0
    BY <2>1, <2>2
  <2>4. \A e \in list : Articles!Stored(e) => Articles!Stored(e)'
    BY <1>0, <2>1, <2>3 DEF Articles!Stored, Articles!StoredAt, Articles!Revision
  <2> QED BY <1>0, <1>2, <2>1, <2>4
<1>12. ASSUME NEW r \in Articles!Resource, Articles!RecordRevision(r)
       PROVE  ArticleCount'
  <2>1. /\ UNCHANGED <<stage, before, list, pages>> /\ step[r] = "revision"
        /\ \A q \in Articles!Resource : q # r => step'[q] = step[q]
        /\ \/ revisions' = revisions
           \/ /\ revisions' = [revisions EXCEPT ![r] = Articles!Revision(catalog, r)]
              /\ step'[r] = "done"
    BY <1>0, <1>9, <1>12 DEF Articles!RecordRevision
  <2>2. revisions \in [Articles!Resource -> Articles!Build \cup {0}]
    BY <1>0, ArticleTypesSplit DEF StoreTypes
  <2>3. \A q \in Articles!Resource :
          \/ revisions'[q] = revisions[q]
          \/ q = r /\ step'[r] = "done" /\ (q = 0 => revisions'[q] = 1)
    <3>1. Articles!Revision(catalog, 0) = 1
      BY <1>0 DEF Articles!Revision
    <3>2. CASE revisions' = revisions
      BY <3>2
    <3>3. CASE revisions' = [revisions EXCEPT ![r] = Articles!Revision(catalog, r)]
               /\ step'[r] = "done"
      <4>1. \A q \in Articles!Resource : q # r => revisions'[q] = revisions[q]
        BY <2>2, <3>3
      <4>2. revisions'[r] = Articles!Revision(catalog, r)
        BY <2>2, <3>3
      <4> QED BY <3>1, <3>3, <4>1, <4>2
    <3> QED BY <2>1, <3>2, <3>3
  <2>4. \A e \in list : (Articles!Stored(e) \/ step[e.article] = "done")
                        => Articles!Stored(e)' \/ step'[e.article] = "done"
    BY <1>0, <2>1, <2>3 DEF Articles!Stored, Articles!StoredAt, Articles!Revision
  <2>5. Lasting \subseteq list /\ Lasting' \subseteq list /\ Lasting \subseteq Lasting'
    BY <2>1, <2>4 DEF Lasting
  <2>6. /\ Cardinality(Lasting) \in Nat /\ Cardinality(Lasting') \in Nat
        /\ Cardinality(Lasting) <= Cardinality(Lasting')
    BY <1>0, <2>5, LastingGrows
  <2> QED BY <1>0, <2>1, <2>6 DEF ArticleCount
<1>13. CASE Articles!SlotsDone
  BY <1>3, <1>6, <1>13 DEF Articles!SlotsDone, Articles!Move
<1>14. CASE Articles!StoreList
  BY <1>1, <1>6, <1>14 DEF Articles!StoreList
<1>15. CASE Articles!BeginPrune
  BY <1>1, <1>6, <1>15 DEF Articles!BeginPrune, Articles!Move
<1>16. ASSUME NEW r \in Articles!Resource, Articles!PruneEntry(r) PROVE ArticleCount'
  BY <1>1, <1>16 DEF Articles!PruneEntry
<1>17. CASE Articles!PruneDone
  BY <1>6, <1>17 DEF Articles!PruneDone
<1>18. CASE Articles!Kill
  BY <1>1, <1>18, RunEnded DEF Articles!Kill
<1> QED
  BY Zenon, <1>4, <1>5, <1>7, <1>8, <1>10, <1>11, <1>12, <1>13, <1>14, <1>15, <1>16,
     <1>17, <1>18
  DEF Articles!Next, Articles!Run

\* What `StoreList` lists is stored, each article once, and as much as there
\* was or as was asked for.
LEMMA ListedAnew ==
  ASSUME Articles!ArticlesAssumption, ArticleInv, stage = "listing", ~stale,
         NEW new, new = Articles!At(catalog, complete) \cup Articles!Older
  PROVE  /\ \A e \in new : Articles!Stored(e)
         /\ Articles!FilesOf(new) \subseteq Articles!Resources(Articles!Selected)
                                    \cup Articles!FilesOf(Articles!Older)
         /\ Articles!FilesOf(Articles!Older) \subseteq Articles!FilesOf(new)
         /\ Cardinality(new) >= before \/ Cardinality(new) >= count
<1>0. /\ ArticleProgress /\ ArticleRank /\ ArticleCount /\ Articles!TypeOK
      /\ Articles!Image = 0 /\ Articles!None = 0 /\ MaxBuild \in Nat
      /\ complete \subseteq Articles!Article /\ failed \subseteq Articles!Article
      /\ catalog \in 0..MaxBuild /\ count \in Nat /\ before \in Nat
      /\ taken = complete \cup failed /\ taken = Articles!Selected
      /\ count = 0 \/ catalog # 0
      /\ Articles!Article = 1..MaxBuild /\ Articles!Resource = (1..MaxBuild) \cup {0}
      /\ Articles!Build = 1..MaxBuild
  BY ArticleNumbers, ArticleTypesSplit
  DEF ArticleInv, ArticleSelection, RunTypes, MemoryTypes, Articles!Article,
      Articles!Build
<1>01. /\ catalog \in 0..MaxBuild /\ Articles!Build = 1..MaxBuild
       /\ catalog \in Nat /\ count \in Nat /\ before \in Nat /\ MaxBuild \in Nat
  BY <1>0
<1>1. /\ Articles!Saved \subseteq list /\ list \subseteq Articles!Listed
      /\ Articles!Older \subseteq Articles!Saved
      /\ \A e \in Articles!Older : e.article \notin complete
      /\ failed = {} => Articles!Older = {}
  BY <1>0, SavedIs DEF Articles!Older
<1>2. /\ {e.article : e \in Articles!At(catalog, complete)} = complete
      /\ \A e \in Articles!At(catalog, complete) :
           e.article \in complete /\ e.build = catalog
      /\ \A e, f \in Articles!At(catalog, complete) : e.article = f.article => e = f
  BY AtIs
<1>3. \A a \in complete : a \in 1..catalog /\ catalog # 0
  BY <1>0, SelectedIs
<1>4. new \subseteq Articles!Listed
  <2>1. \A e \in Articles!At(catalog, complete) : e \in Articles!Listed
    <3>1. CASE complete = {}
      BY <1>2, <3>1
    <3>2. CASE complete # {}
      <4>1. catalog \in Articles!Build
        BY <1>01, <1>3, <3>2
      <4>2. Articles!At(catalog, complete) \subseteq Articles!Listed
        BY <1>0, <4>1, SavedIs
      <4> QED BY <4>2
    <3> QED BY <3>1, <3>2
  <2> QED BY <1>1, <2>1
<1>5. \A e, f \in new : e.article = f.article => e = f
  BY <1>0, <1>1, <1>2 DEF ArticleRank
<1>6. \A e \in new : Articles!Stored(e)
  <2>1. ASSUME NEW e \in Articles!At(catalog, complete) PROVE Articles!Stored(e)
    <3>1. e.article \in complete /\ e.build = catalog /\ e.article \in Articles!Resource
      BY <1>0, <1>2
    <3>2. step[e.article] = "done" /\ step[0] = "done" /\ 0 \in Articles!Resource
      BY <1>0, <3>1 DEF ArticleProgress
    <3>3. Articles!StoredAt(0, Articles!Revision(catalog, 0))
          /\ Articles!StoredAt(e.article, Articles!Revision(catalog, e.article))
      BY <1>0, <3>1, <3>2 DEF ArticleProgress
    <3> QED BY <1>0, <3>1, <3>3 DEF Articles!Stored
  <2> QED BY <1>1, <2>1 DEF Articles!Saved
<1>7. /\ Articles!FilesOf(new) \subseteq Articles!Resources(Articles!Selected)
                                 \cup Articles!FilesOf(Articles!Older)
      /\ Articles!FilesOf(Articles!Older) \subseteq Articles!FilesOf(new)
  <2>1. {e.article : e \in new}
          = complete \cup {e.article : e \in Articles!Older}
    BY <1>2
  <2> QED BY <1>0, <2>1 DEF Articles!FilesOf, Articles!Resources
<1>8. /\ IsFiniteSet(new) /\ Cardinality(new) \in Nat
      /\ Cardinality(new) = Cardinality({e.article : e \in new})
  BY <1>4, <1>5, EntriesCount
<1>9. /\ IsFiniteSet(complete) /\ Cardinality(complete) \in Nat
      /\ before <= Cardinality(Lasting) /\ Cardinality(Lasting) \in Nat
      /\ Lasting \subseteq list
  <2>1. IsFiniteSet(1..MaxBuild)
    BY <1>0, FS_Interval
  <2>2. Lasting \subseteq list
    BY DEF Lasting
  <2> QED BY <1>0, <2>1, <2>2, FS_Subset, FS_CardinalityType, LastingGrows
          DEF ArticleCount
<1> SUFFICES Cardinality(new) >= before \/ Cardinality(new) >= count
  BY <1>6, <1>7
<1>10. CASE count = 0
  BY <1>01, <1>8, <1>10
<1>11. CASE count # 0 /\ failed = {}
  <2>1. complete = Articles!Newest(1..catalog, count)
    BY <1>0, <1>11, SelectedIs
  <2>2. complete = 1..catalog \/ Cardinality(complete) >= count
    <3>1. 1..catalog \in SUBSET (0..catalog)
      BY <1>01
    <3> QED BY <1>01, <2>1, <3>1, NewestCount
  <2>3. Cardinality(new) = Cardinality(complete)
    <3>1. {e.article : e \in new} = complete
      BY <1>1, <1>2, <1>11
    <3> QED BY <1>8, <3>1
  <2>4. CASE complete = 1..catalog
    <3>1. Cardinality(complete) = catalog
      BY <1>0, <2>4, FS_Interval
    <3>2. \A e \in list : e.article <= catalog
      <4>1. \A e \in list : /\ e.article <= e.build /\ e.build <= catalog
                            /\ e.article \in Nat /\ e.build \in Nat
        BY <1>0, <1>1, <1>11, SavedIs DEF ArticleRank
      <4> QED BY <1>0, <4>1
    <3>3. /\ Lasting \subseteq Articles!Listed
          /\ \A e, f \in Lasting : e.article = f.article => e = f
      BY <1>0, <1>1, <1>9 DEF ArticleRank
    <3>4. Cardinality(Lasting) <= catalog
      <4>1. \A e \in Lasting : e.article <= catalog
        BY <1>9, <3>2
      <4> QED BY <1>01, <3>3, <4>1, EntriesCount
    <3> QED BY <1>01, <1>9, <2>3, <3>1, <3>4
  <2> QED BY <1>01, <1>8, <2>2, <2>3, <2>4
<1>12. CASE count # 0 /\ failed # {}
  <2> DEFINE spent == {e \in Articles!Saved : e.article \notin complete}
             U == {e.article : e \in spent}
             room == count - Cardinality(complete)
             fits == Articles!Newest(U, room)
  <2>1. Articles!Older = {e \in spent : e.article \in fits}
    BY <1>12, ArticleCardinality DEF Articles!Older
  <2>2. Cardinality(complete) <= count
    <3>1. complete \subseteq Articles!Newest(1..catalog, count)
      BY <1>0, <1>12, SelectedIs
    <3>2. IsFiniteSet(Articles!Newest(1..catalog, count))
          /\ Cardinality(Articles!Newest(1..catalog, count)) <= count
          /\ Cardinality(Articles!Newest(1..catalog, count)) \in Nat
      <4>1. 1..catalog \in SUBSET (0..catalog)
        BY <1>01
      <4> QED BY <1>01, <4>1, NewestCount
    <3>3. Cardinality(complete) <= Cardinality(Articles!Newest(1..catalog, count))
      BY <3>1, <3>2, FS_Subset
    <3> QED BY <1>0, <1>9, <3>2, <3>3
  <2>3. room \in Nat
    BY <1>0, <1>9, <2>2
  <2>4. U \subseteq 0..MaxBuild
    BY <1>0, <1>1, SavedIs
  <2> HIDE DEF room
  <2>5. /\ IsFiniteSet(U) /\ IsFiniteSet(fits) /\ Cardinality(fits) \in Nat
        /\ fits = U \/ Cardinality(fits) >= room
    BY <1>0, <2>3, <2>4, NewestCount
  <2>6. fits \subseteq U
    BY NewestOf
  <2> HIDE DEF fits
  <2>7. {e.article : e \in Articles!Older} = fits
    BY <2>1, <2>6
  <2>8. {e.article : e \in new} = complete \cup fits
    BY <1>2, <2>7
  <2>9. complete \cap fits = {}
    BY <2>6
  <2>10. Cardinality(complete \cup fits) = Cardinality(complete) + Cardinality(fits)
    <3>1. Cardinality(complete \cap fits) = 0
      BY <2>9, FS_EmptySet
    <3>2. Cardinality(complete \cup fits)
            = Cardinality(complete) + Cardinality(fits) - Cardinality(complete \cap fits)
      BY <1>9, <2>5, FS_Union
    <3> QED BY <1>9, <2>5, <3>1, <3>2
  <2>11. CASE Cardinality(fits) >= room
    <3>1. Cardinality(new) = Cardinality(complete) + Cardinality(fits)
      BY <1>8, <2>8, <2>10
    <3> QED BY <1>01, <1>9, <2>5, <2>11, <3>1 DEF room
  <2>12. CASE fits = U
    <3>1. \A e \in Lasting : e.article \in complete \cup fits
      <4>1. ASSUME NEW e \in Lasting, Articles!Stored(e)
            PROVE  e.article \in complete \cup U
        BY <4>1 DEF Lasting, Articles!Saved
      <4>2. ASSUME NEW e \in Lasting, step[e.article] = "done"
            PROVE  e.article \in complete
        <5>1. e.article \in Articles!Article
          BY <1>0, <1>9, SavedIs
        <5> QED BY <1>0, <4>2, <5>1 DEF ArticleProgress
      <4> QED BY <2>12, <4>1, <4>2 DEF Lasting
    <3>2. /\ Lasting \subseteq Articles!Listed
          /\ \A e, f \in Lasting : e.article = f.article => e = f
      BY <1>0, <1>1, <1>9 DEF ArticleRank
    <3> DEFINE L == {e.article : e \in Lasting}
    <3>3. Cardinality(Lasting) = Cardinality(L)
      BY <3>2, EntriesCount
    <3>4. L \subseteq complete \cup fits
      BY <3>1
    <3> HIDE DEF L
    <3>5. IsFiniteSet(complete \cup fits)
      BY <1>9, <2>5, FS_Union
    <3>6. Cardinality(L) <= Cardinality(complete \cup fits)
      BY <3>4, <3>5, FS_Subset
    <3>7. Cardinality(new) = Cardinality(complete \cup fits)
      BY <1>8, <2>8
    <3> QED BY <1>01, <1>8, <1>9, <3>3, <3>6, <3>7
  <2> QED BY <2>5, <2>11, <2>12
<1> QED BY <1>01, <1>10, <1>11, <1>12

LEMMA SelectionKeeps ==
  ASSUME Articles!ArticlesAssumption, ArticleInv, [Articles!Next]_articleVars,
         Articles!TypeOK'
  PROVE  ArticleSelection'
<1> USE DEF Articles!cacheVars, Articles!stateVars, Articles!runVars,
            Articles!boundVars
<1>0. /\ ArticleSelection /\ ArticleProgress /\ Articles!TypeOK
      /\ Articles!Image = 0 /\ Articles!None = 0
      /\ stale \in BOOLEAN /\ published # 0
      /\ kept \subseteq Articles!Listed
      /\ \A e \in Articles!Listed : e.article \in Articles!Resource
      /\ 0 \in Articles!Resource
      /\ pages \in [Articles!Resource -> Articles!Build \cup {0}]
      /\ revisions \in [Articles!Resource -> Articles!Build \cup {0}]
  BY ArticleNumbers, ArticleTypesSplit
  DEF ArticleInv, RunTypes, StoreTypes, MemoryTypes, Articles!Listed
<1>1. ASSUME stage' \in {"idle", "catalog"} PROVE ArticleSelection'
  BY <1>1 DEF ArticleSelection
<1>2. ASSUME NEW entries, Articles!Finish(entries) PROVE ArticleSelection'
  BY <1>1, <1>2, RunFinished, RunEnded
<1>3. ASSUME UNCHANGED <<catalog, count>>
      PROVE  Articles!Selected' = Articles!Selected
  BY <1>3 DEF Articles!Selected
<1>4. ASSUME UNCHANGED <<catalog, count, keep, kept, before, taken, complete, failed,
                         stage, pages, revisions>>,
             stage # "idle" /\ stale => stale'
      PROVE  ArticleSelection'
  <2>1. CASE stage = "idle"
    BY <1>1, <1>4, <2>1
  <2>2. CASE stage # "idle"
    BY <1>0, <1>3, <1>4, <2>2
    DEF ArticleSelection, Articles!Stored, Articles!StoredAt
  <2> QED BY <2>1, <2>2
<1>5. CASE UNCHANGED articleVars \/ Articles!Deploy
  BY <1>4, <1>5 DEF articleVars, Articles!Deploy
<1>6. ASSUME NEW n \in 0..MaxCount, Articles!Request(n) PROVE ArticleSelection'
  BY <1>4, <1>6 DEF Articles!Request
<1>7. CASE Articles!StartRun
  BY <1>1, <1>7 DEF Articles!StartRun
<1>8. CASE Articles!LoadCatalog
  <2>1. CASE ~Articles!Finish({})
    <3>1. /\ catalog' = IF count = 0 \/ catalog # 0 THEN catalog ELSE published
          /\ stage' = "saving" /\ count' = count
          /\ keep' = IF count = 0 THEN {}
                     ELSE Articles!Resources(Articles!Newest(1..catalog', count))
      BY <1>0, <1>8, <2>1 DEF Articles!LoadCatalog
    <3>2. count = 0 \/ catalog' # 0
      BY <1>0, <3>1
    <3>3. Articles!Selected' = IF count = 0 THEN {}
                               ELSE Articles!Newest(1..catalog', count)
      BY <1>0, <3>1, <3>2 DEF Articles!Selected
    <3>4. keep' = Articles!Resources(Articles!Selected')
      BY <3>1, <3>3 DEF Articles!Resources
    <3> QED BY <1>0, <3>1, <3>2, <3>4 DEF ArticleSelection
  <2> QED BY <1>2, <2>1
<1>9. ASSUME stage = "saving", stage' = "saving", UNCHANGED <<catalog, count, keep>>
      PROVE  ArticleSelection'
  BY <1>0, <1>3, <1>9 DEF ArticleSelection
<1>10. ASSUME NEW a \in Articles!Article,
              Articles!TakeArticle(a) \/ Articles!FinishArticle(a)
       PROVE  ArticleSelection'
  BY <1>9, <1>10 DEF Articles!TakeArticle, Articles!FinishArticle
<1>11. ASSUME NEW r \in Articles!Resource,
              Articles!CheckResource(r) \/ Articles!SaveBody(r)
              \/ Articles!RecordRevision(r)
       PROVE  ArticleSelection'
  <2>1. stage = "saving"
    BY <1>0, <1>11 DEF Articles!CheckResource, Articles!SaveBody, Articles!StoreBody,
                       Articles!RecordRevision, ArticleProgress
  <2>2. UNCHANGED <<stage, catalog, count, keep>>
    BY <1>11 DEF Articles!CheckResource, Articles!SaveBody, Articles!StoreBody,
                 Articles!RecordRevision, Articles!Advance
  <2> QED BY <1>9, <2>1, <2>2
<1>12. CASE Articles!SlotsDone
  <2>1. CASE ~Articles!Finish({})
    <3>1. /\ UNCHANGED <<catalog, count, keep, taken, complete, failed, stale>>
          /\ stage = "saving" /\ stage' = "listing"
          /\ taken = complete \cup failed
          /\ taken = Articles!Selected \/ stale
      BY <1>12, <2>1 DEF Articles!SlotsDone, Articles!Move, Articles!Superseded
    <3> QED BY <1>0, <1>3, <3>1 DEF ArticleSelection
  <2> QED BY <1>2, <2>1
<1>13. CASE Articles!StoreList
  <2>1. CASE ~Articles!Finish({})
    <3> DEFINE new == Articles!At(catalog, complete) \cup Articles!Older
    <3>1. /\ ~stale /\ stage = "listing" /\ stage' = "listed" /\ kept' = new
          /\ keep' = keep \cup Articles!FilesOf(Articles!Older)
          /\ UNCHANGED <<catalog, count, before, pages, revisions>>
      BY <1>13, <2>1 DEF Articles!StoreList, Articles!Superseded
    <3>2. PICK listed : listed = new
      OBVIOUS
    <3>3. /\ \A e \in listed : Articles!Stored(e)
          /\ Articles!FilesOf(listed) \subseteq Articles!Resources(Articles!Selected)
                                             \cup Articles!FilesOf(Articles!Older)
          /\ Articles!FilesOf(Articles!Older) \subseteq Articles!FilesOf(listed)
          /\ Cardinality(listed) >= before \/ Cardinality(listed) >= count
      BY <3>1, <3>2, ListedAnew
    <3>4. kept' = listed
      BY <3>1, <3>2
    <3>5. keep = Articles!Resources(Articles!Selected)
      BY <1>0, <3>1 DEF ArticleSelection
    <3>6. keep' = Articles!Resources(Articles!Selected) \cup Articles!FilesOf(listed)
      BY <3>1, <3>3, <3>5
    <3> HIDE DEF new
    <3>7. \A e \in listed : Articles!Stored(e)'
      BY <3>1, <3>3 DEF Articles!Stored, Articles!StoredAt
    <3> QED BY <1>3, <3>1, <3>3, <3>4, <3>6, <3>7 DEF ArticleSelection
  <2> QED BY <1>2, <2>1
<1>14. CASE Articles!BeginPrune
  <2>1. CASE ~Articles!Finish({})
    <3>1. /\ UNCHANGED <<catalog, count, keep, kept, before, pages, revisions>>
          /\ stage = "listed" /\ stage' = "pruning"
      BY <1>14, <2>1 DEF Articles!BeginPrune, Articles!Move
    <3> QED BY <1>0, <1>3, <3>1 DEF ArticleSelection, Articles!Stored, Articles!StoredAt
  <2> QED BY <1>2, <2>1
<1>15. ASSUME NEW r \in Articles!Resource, Articles!PruneEntry(r)
       PROVE  ArticleSelection'
  <2>1. /\ UNCHANGED <<catalog, stage, count, keep, kept, before>>
        /\ stage = "pruning" /\ r \notin keep
        /\ \A q \in Articles!Resource :
             q # r => pages'[q] = pages[q] /\ revisions'[q] = revisions[q]
    BY <1>0, <1>15 DEF Articles!PruneEntry, Articles!Unwanted
  <2>2. ASSUME NEW e \in kept PROVE e.article \in keep /\ 0 \in keep
    BY <1>0, <2>1, <2>2
    DEF ArticleSelection, Articles!FilesOf, Articles!Resources
  <2>3. \A e \in kept : Articles!Stored(e)'
    BY <1>0, <2>1, <2>2
    DEF ArticleSelection, Articles!Stored, Articles!StoredAt, Articles!Revision
  <2> QED BY <1>0, <1>3, <2>1, <2>3 DEF ArticleSelection
<1>16. CASE Articles!PruneDone
  BY <1>2, <1>16 DEF Articles!PruneDone
<1>17. CASE Articles!Kill
  BY <1>1, <1>17, RunEnded DEF Articles!Kill
<1> QED
  BY Zenon, <1>5, <1>6, <1>7, <1>8, <1>10, <1>11, <1>12, <1>13, <1>14, <1>15, <1>16,
     <1>17
  DEF Articles!Next, Articles!Run

LEMMA ArticlesKeep ==
  ASSUME Articles!ArticlesAssumption, ArticleInv, [Articles!Next]_articleVars
  PROVE  ArticleInv'
<1>1. Articles!TypeOK'
  BY ArticleTypesKeep DEF ArticleInv
<1>2. ArticleRank' /\ Articles!RevisionCovered'
  BY <1>1, ArticleRankKeeps
<1>3. ArticleProgress' /\ ArticleReport' /\ ArticleCount' /\ ArticleSelection'
  BY <1>1, ProgressKeeps, ReportKeeps, CountKeeps, SelectionKeeps
<1> QED BY <1>1, <1>2, <1>3 DEF ArticleInv

LEMMA ArticlesHold == MCSpec => []ArticleInv
<1>1. Articles!ArticlesAssumption
  BY ReaderAssumption
<1>2. MCInit => ArticleInv
  BY <1>1, ReaderBegins, ArticlesBegin
<1>3. ArticleInv /\ [MCNext]_mcVars => ArticleInv'
  BY <1>1, ReaderMoves, ArticlesKeep
<1> QED BY <1>2, <1>3, PTL DEF MCSpec

\* A recorded revision never vouches for an older body, and what the last run
\* reported as saved is stored, for any counts, builds, slots and kills
\* (src/web/src/sw/offline.ts).
THEOREM OfflineIsTruthful == MCSpec => []OfflineTruthful
<1>1. ArticleInv => OfflineTruthful
  BY DEF ArticleInv, ArticleReport, OfflineTruthful, Articles!ReportTruthful
<1> QED BY <1>1, ArticlesHold, PTL

LEMMA MinIs ==
  ASSUME NEW a \in Nat, NEW b \in Nat, NEW c, c \in Nat, c >= a \/ c >= b
  PROVE  c >= Articles!Min({a, b})
<1>1. CASE a <= b
  <2>1. \E x \in {a, b} : \A y \in {a, b} : x <= y
    BY <1>1
  <2> QED BY <2>1 DEF Articles!Min
<1>2. CASE b <= a
  <2>1. \E x \in {a, b} : \A y \in {a, b} : x <= y
    BY <1>2
  <2> QED BY <2>1 DEF Articles!Min
<1> QED BY <1>1, <1>2

\* Only the end of a run goes from pruning to rest, but for a kill.
LEMMA PruningEnds ==
  ASSUME Articles!ArticlesAssumption, [Articles!Next]_articleVars,
         stage = "pruning", stage' = "idle", kills' = kills, kills \in Nat
  PROVE  Articles!PruneDone
<1> USE DEF Articles!runVars
<1>1. ~UNCHANGED articleVars
  BY DEF articleVars
<1>2. ~Articles!Kill /\ ~Articles!Deploy
  BY DEF Articles!Kill, Articles!Deploy
<1>3. ~\E n \in 0..MaxCount : Articles!Request(n)
  BY DEF Articles!Request
<1>4. ~\E a \in Articles!Article : Articles!TakeArticle(a) \/ Articles!FinishArticle(a)
  BY DEF Articles!TakeArticle, Articles!FinishArticle
<1>5. ~\E r \in Articles!Resource :
         \/ Articles!CheckResource(r) \/ Articles!SaveBody(r)
         \/ Articles!RecordRevision(r) \/ Articles!PruneEntry(r)
  BY DEF Articles!CheckResource, Articles!SaveBody, Articles!StoreBody,
         Articles!RecordRevision, Articles!PruneEntry, Articles!Advance
<1>6. /\ ~Articles!StartRun /\ ~Articles!LoadCatalog /\ ~Articles!SlotsDone
      /\ ~Articles!StoreList /\ ~Articles!BeginPrune
  BY DEF Articles!StartRun, Articles!LoadCatalog, Articles!SlotsDone,
         Articles!StoreList, Articles!BeginPrune
<1> QED BY <1>1, <1>2, <1>3, <1>4, <1>5, <1>6 DEF Articles!Next, Articles!Run

\* A complete committed index stays until its replacement is committed; a run
\* that ends leaves as many listed articles complete as it found, or as many as
\* it was asked for, and nothing that is neither selected nor listed, for any
\* files, versions, counts, builds and kills (src/web/src/sw/search.ts,
\* src/web/src/sw/offline.ts).
THEOREM OfflineStaysStored == MCSpec => OfflineStays
<1> DEFINE Keeps == stage = "pruning" /\ stage' = "idle" /\ kills' = kills /\ ~stale
                      => \/ list # kept
                         \/ Articles!Cardinality(Articles!Saved)'
                              >= Articles!Min({before, count})
           Leaves == stage = "pruning" /\ stage' = "idle" /\ kills' = kills
                       => \A r \in Articles!Resource :
                            pages[r] # Articles!None \/ revisions[r] # Articles!None
                              => r \in Articles!FilesOf(kept)
                                       \cup Articles!Resources(Articles!Selected)
<1>1. ASSUME ArticleInv, [Articles!Next]_articleVars, stage = "pruning",
             stage' = "idle", kills' = kills
      PROVE  Articles!PruneDone
  BY <1>1, ReaderAssumption, PruningEnds, ArticleTypesSplit
  DEF ArticleInv, MemoryTypes
<1>2. ASSUME ArticleInv, [Articles!Next]_articleVars PROVE Keeps
  <2> SUFFICES ASSUME stage = "pruning", stage' = "idle", kills' = kills, list = kept
               PROVE  Articles!Cardinality(Articles!Saved)'
                        >= Articles!Min({before, count})
    OBVIOUS
  <2>1. Articles!PruneDone
    BY <1>1, <1>2
  <2>2. /\ \A e \in kept : Articles!Stored(e)
        /\ Cardinality(kept) >= before \/ Cardinality(kept) >= count
    BY <1>2 DEF ArticleInv, ArticleSelection
  <2>3. Articles!Saved' = kept
    BY <2>1, <2>2 DEF Articles!PruneDone, Articles!Saved, Articles!cacheVars,
                      Articles!Stored, Articles!StoredAt
  <2>4. /\ list \subseteq Articles!Listed
        /\ \A e, f \in list : e.article = f.article => e = f
        /\ before \in Nat /\ count \in Nat
    BY <1>2, SavedIs, ArticleTypesSplit DEF ArticleInv, ArticleRank, RunTypes
  <2>5. Cardinality(kept) \in Nat
    BY <2>4, EntriesCount, ReaderAssumption
  <2>6. Cardinality(kept) >= Articles!Min({before, count})
    BY <2>2, <2>4, <2>5, MinIs
  <2> QED BY <2>3, <2>6, ArticleCardinality
<1>3. ASSUME ArticleInv, [Articles!Next]_articleVars PROVE Leaves
  <2> SUFFICES ASSUME stage = "pruning", stage' = "idle", kills' = kills,
                      NEW r \in Articles!Resource,
                      pages[r] # Articles!None \/ revisions[r] # Articles!None
               PROVE  r \in Articles!FilesOf(kept)
                            \cup Articles!Resources(Articles!Selected)
    OBVIOUS
  <2>1. Articles!PruneDone
    BY <1>1, <1>3
  <2>2. r \in keep
    BY <2>1 DEF Articles!PruneDone, Articles!Unwanted
  <2> QED BY <1>3, <2>2 DEF ArticleInv, ArticleSelection
<1>4. ArticleInv /\ [MCNext]_mcVars => [Keeps]_(Articles!articleVars)
  BY <1>2, ReaderMoves
<1>5. ArticleInv /\ [MCNext]_mcVars => [Leaves]_(Articles!articleVars)
  BY <1>3, ReaderMoves
<1>6. MCSpec => Articles!RunKeepsComplete
  BY <1>4, ArticlesHold, PTL DEF MCSpec, Articles!RunKeepsComplete
<1>7. MCSpec => Articles!NothingOrphaned
  BY <1>5, ArticlesHold, PTL DEF MCSpec, Articles!NothingOrphaned
<1> QED BY <1>6, <1>7, IndexesStay, PTL DEF OfflineStays

-----------------------------------------------------------------------------
(* SearchBox.  What may still put rows on screen was asked for by the text *)
(* and page in the field, and of the index in use; and who waits for the   *)
(* catalogue goes on with the latest run, unless that was overtaken.       *)

BoxCall == [for : {"run", "vocabulary"}, fresh : BOOLEAN, latest : BOOLEAN]
BoxQuery == [text : Query, place : Box!Place, index : Box!Index, fresh : BOOLEAN]

BoxTypes ==
  /\ text \in Box!Text /\ place \in Box!Place
  /\ attached \in BOOLEAN /\ composing \in BOOLEAN /\ busy \in BOOLEAN
  /\ problem \in BOOLEAN /\ timer \in BOOLEAN /\ vocabulary \in BOOLEAN
  /\ outdated \in BOOLEAN /\ online \in BOOLEAN
  /\ lapse \in {"none", "overtaken", "kept", "abandoned"}
  /\ rows \in Box!Row \cup {Box!NoRows} /\ snapshot \in Box!Row \cup {Box!NoRows}
  /\ calls \subseteq BoxCall /\ queries \subseteq BoxQuery
  /\ fetching \in Box!Index \cup {Box!None} /\ usable \in Box!Index \cup {Box!None}
  /\ saved \in Box!Index \cup {Box!None}
  /\ deployed \in Box!Index /\ orphans \in Nat /\ events \in 0..MaxEvents

\* A run whose query is still the reader's.
Runs(c) == c.for = "run" /\ c.fresh
\* The session has the catalogue it would be asked for.
InUse == usable # Box!None /\ fetching = Box!None /\ ~outdated /\ vocabulary

\* The field holds a query, and nothing is being typed.
Asking == attached /\ Box!Active /\ ~composing /\ ~timer

\* Of the calls, one is the latest; a run that waits has no query yet.
BoxCalls ==
  /\ \A c, d \in calls : c.latest /\ d.latest => c = d
  /\ \A c \in calls :
       Runs(c) => /\ Asking
                  /\ c.latest <=> lapse # "overtaken"
                  /\ lapse # "abandoned"
                  /\ \A q \in queries : ~q.fresh

\* The query that is shown when it answers.
BoxQueries ==
  \A q \in queries :
    /\ q.text \notin Partial
    /\ q.fresh => /\ Asking /\ q.text = text /\ q.place = place
                  /\ lapse \notin {"overtaken", "abandoned"}
                  /\ lapse = "none" => InUse /\ q.index = usable

BoxRows ==
  /\ timer => attached /\ ~composing
  /\ composing => attached
  /\ rows # Box!NoRows => rows.text \notin Partial
  /\ snapshot # Box!NoRows => snapshot.text \notin Partial
  /\ Box!RowsAnswerText

BoxAnswered ==
  attached /\ Box!Active /\ ~composing /\ Box!Settled
    /\ lapse \notin {"overtaken", "abandoned"} =>
    /\ ~busy
    /\ \/ problem
       \/ rows # Box!NoRows /\ (lapse = "kept" \/ (InUse /\ rows.index = usable))
       \/ rows = Box!NoRows /\ text \in Partial

BoxInv == BoxTypes /\ BoxCalls /\ BoxQueries /\ BoxRows /\ BoxAnswered

-----------------------------------------------------------------------------

LEMMA BoxNumbers ==
  ASSUME Box!BoxAssumption
  PROVE  /\ Partial \subseteq Query /\ 1 \in Box!Index /\ Box!None \notin Box!Index
         /\ 1 \in Box!Place /\ MaxEvents \in Nat
         /\ \A i, j : i \in Box!Index /\ j \in i..MaxIndex => j \in Box!Index
         /\ MaxIndex \in Nat /\ Box!Index \subseteq Nat
BY DEF Box!BoxAssumption, Box!Index, Box!None, Box!Place

LEMMA RowsAre ==
  ASSUME NEW r \in Box!Row \cup {Box!NoRows}
  PROVE  r # Box!NoRows =>
           /\ r \in Box!Row /\ r.text \in Query /\ r.place \in Box!Place
           /\ r.index \in Box!Index
BY DEF Box!Row

LEMMA OutdatedCalls ==
  ASSUME NEW S \in SUBSET BoxCall
  PROVE  /\ Box!Outdate(S) \in SUBSET BoxCall
         /\ \A c \in Box!Outdate(S) : ~c.fresh
         /\ (\A c, d \in S : c.latest /\ d.latest => c = d) =>
              \A c, d \in Box!Outdate(S) : c.latest /\ d.latest => c = d
<1>1. \A c \in S : /\ [c EXCEPT !.fresh = FALSE] \in BoxCall
                   /\ ~[c EXCEPT !.fresh = FALSE].fresh
                   /\ [c EXCEPT !.fresh = FALSE].latest = c.latest
  BY DEF BoxCall
<1>2. \A c \in Box!Outdate(S) : \E d \in S : c = [d EXCEPT !.fresh = FALSE]
  BY DEF Box!Outdate
<1>3. ASSUME \A c, d \in S : c.latest /\ d.latest => c = d,
             NEW c \in Box!Outdate(S), NEW d \in Box!Outdate(S), c.latest, d.latest
      PROVE  c = d
  <2>1. PICK a \in S : c = [a EXCEPT !.fresh = FALSE]
    BY <1>2
  <2>2. PICK b \in S : d = [b EXCEPT !.fresh = FALSE]
    BY <1>2
  <2>3. a = b
    BY <1>1, <1>3, <2>1, <2>2
  <2> QED BY <2>1, <2>2, <2>3
<1>4. Box!Outdate(S) \in SUBSET BoxCall /\ \A c \in Box!Outdate(S) : ~c.fresh
  BY <1>1, <1>2
<1> QED BY Zenon, <1>3, <1>4

LEMMA OvertakenCalls ==
  ASSUME NEW S \in SUBSET BoxCall
  PROVE  /\ Box!Overtake(S) \in SUBSET BoxCall
         /\ \A c \in Box!Overtake(S) :
              ~c.latest /\ \E d \in S : d.for = c.for /\ d.fresh = c.fresh
<1>1. \A c \in S : /\ [c EXCEPT !.latest = FALSE] \in BoxCall
                   /\ ~[c EXCEPT !.latest = FALSE].latest
                   /\ [c EXCEPT !.latest = FALSE].for = c.for
                   /\ [c EXCEPT !.latest = FALSE].fresh = c.fresh
  BY DEF BoxCall
<1>2. ASSUME NEW c \in Box!Overtake(S)
      PROVE  c \in BoxCall /\ ~c.latest /\ \E d \in S : d.for = c.for /\ d.fresh = c.fresh
  <2>1. PICK d \in S : c = [d EXCEPT !.latest = FALSE]
    BY DEF Box!Overtake
  <2> QED BY <1>1, <2>1
<1> QED BY <1>2

LEMMA OutdatedQueries ==
  ASSUME NEW S \in SUBSET BoxQuery, \A q \in S : q.text \notin Partial
  PROVE  /\ Box!Outdate(S) \in SUBSET BoxQuery
         /\ \A q \in Box!Outdate(S) : ~q.fresh /\ q.text \notin Partial
<1>1. \A q \in S : /\ [q EXCEPT !.fresh = FALSE] \in BoxQuery
                   /\ ~[q EXCEPT !.fresh = FALSE].fresh
                   /\ [q EXCEPT !.fresh = FALSE].text = q.text
  BY DEF BoxQuery
<1>2. \A c \in Box!Outdate(S) : \E d \in S : c = [d EXCEPT !.fresh = FALSE]
  BY DEF Box!Outdate
<1> QED BY <1>1, <1>2

LEMMA CallIs ==
  ASSUME NEW who \in {"run", "vocabulary"}
  PROVE  /\ Box!Call(who) \in BoxCall /\ Box!Call(who).for = who
         /\ Box!Call(who).fresh /\ Box!Call(who).latest
BY DEF BoxCall, Box!Call

\* Loading leaves one latest call, none if the session has what is asked for.
LEMMA CatalogueLoads ==
  ASSUME Box!BoxAssumption, BoxTypes, NEW who \in {"run", "vocabulary"},
         NEW S \in SUBSET BoxCall, Box!LoadCatalogue(who, S)
  PROVE  /\ calls' \subseteq BoxCall
         /\ \A c, d \in calls' : c.latest /\ d.latest => c = d
         /\ \A c \in calls' : Runs(c) =>
              \/ who = "run" /\ c.latest /\ ~Box!Served
              \/ ~c.latest /\ \E d \in S : Runs(d)
         /\ fetching' \in Box!Index \cup {Box!None} /\ vocabulary' \in BOOLEAN
         /\ UNCHANGED <<orphans, usable, outdated>>
         /\ vocabulary => vocabulary' = vocabulary
         /\ Box!Served => InUse' /\ fetching' = fetching
<1>1. /\ Box!Overtake(S) \subseteq BoxCall
      /\ \A c \in Box!Overtake(S) :
           ~c.latest /\ \E d \in S : d.for = c.for /\ d.fresh = c.fresh
  BY OvertakenCalls
<1>2. UNCHANGED <<orphans, usable, outdated>>
  BY DEF Box!LoadCatalogue
<1>3. CASE Box!Served
  <2>1. calls' = Box!Overtake(S) /\ fetching' = fetching /\ vocabulary' = TRUE
    BY <1>3 DEF Box!LoadCatalogue, BoxTypes
  <2> QED BY <1>1, <1>2, <1>3, <2>1 DEF Box!Served, InUse, BoxTypes, Runs
<1>4. CASE ~Box!Served
  <2>1. /\ calls' = Box!Overtake(S) \cup {Box!Call(who)}
        /\ fetching' = IF fetching # Box!None THEN fetching ELSE deployed
        /\ vocabulary' = vocabulary
    BY <1>4 DEF Box!LoadCatalogue, BoxTypes
  <2> HIDE DEF Box!Served
  <2> QED BY <1>1, <1>2, <1>4, <2>1, CallIs DEF BoxTypes, Runs
<1> QED BY <1>3, <1>4

LEMMA LoadsAnew ==
  ASSUME BoxTypes, NEW who \in {"run", "vocabulary"}, Box!LoadAnew(who)
  PROVE  /\ calls' \subseteq BoxCall
         /\ \A c, d \in calls' : c.latest /\ d.latest => c = d
         /\ \A c \in calls' : c.for = who /\ c.fresh /\ c.latest
         /\ calls' # {}
         /\ fetching' \in Box!Index \cup {Box!None} /\ orphans' \in Nat
         /\ outdated' = TRUE /\ vocabulary' = vocabulary
<1>1. calls' = {Box!Call(who)}
  BY DEF Box!LoadAnew
<1>2. orphans' \in Nat
  BY DEF Box!LoadAnew, BoxTypes
<1> QED BY <1>1, <1>2, CallIs DEF Box!LoadAnew, BoxTypes

LEMMA BoxBegins == ASSUME Box!BoxAssumption, Box!Init PROVE BoxInv
<1>1. BoxTypes
  <2>1. 0 \in 0..MaxEvents /\ 1 \in Box!Index /\ 1 \in Box!Place
    BY BoxNumbers
  <2>2. calls \subseteq BoxCall /\ queries \subseteq BoxQuery /\ online \in BOOLEAN
    BY DEF Box!Init
  <2> QED BY <2>1, <2>2 DEF Box!Init, BoxTypes, Box!Text
<1>2. BoxCalls /\ BoxQueries /\ BoxRows /\ BoxAnswered
  BY DEF Box!Init, BoxCalls, BoxQueries, BoxRows, BoxAnswered, Box!Active,
         Box!RowsAnswerText
<1> QED BY <1>1, <1>2 DEF BoxInv

\* What a search with the index the session has leaves.
LEMMA Searches ==
  ASSUME BoxTypes, NEW n \in Box!Place, NEW i \in Box!Index, text \in Query,
         NEW S \in SUBSET BoxQuery, \A q \in S : q.text \notin Partial,
         Box!Search(text, n, i, S)
  PROVE  /\ busy' \in BOOLEAN /\ queries' \subseteq BoxQuery
         /\ \A q \in queries' :
              /\ q.text \notin Partial
              /\ q \in S \/ (q.fresh /\ q.text = text /\ q.place = n /\ q.index = i)
         /\ \/ text \in Partial /\ ~busy'
            \/ \E q \in queries' : q.fresh
<1>1. CASE text \in Partial
  BY <1>1 DEF Box!Search
<1>2. CASE text \notin Partial
  <2> DEFINE asks == [text |-> text, place |-> n, index |-> i, fresh |-> TRUE]
  <2>1. queries' = S \cup {asks} /\ busy' = TRUE
    BY <1>2 DEF Box!Search
  <2>2. /\ asks \in BoxQuery /\ asks.fresh /\ asks.text = text
        /\ asks.place = n /\ asks.index = i
    BY DEF BoxQuery
  <2> HIDE DEF asks
  <2> QED BY <1>2, <2>1, <2>2
<1> QED BY <1>1, <1>2

\* A run: Enter, the pause in typing, another page of results.
LEMMA RunKeeps ==
  ASSUME Box!BoxAssumption, BoxInv, attached, Box!Active, ~composing,
         NEW n \in Box!Place, place' = n, Box!Run(n), events' \in 0..MaxEvents,
         UNCHANGED <<text, attached, composing, snapshot, Box!worldVars>>
  PROVE  BoxInv'
<1> USE DEF Box!worldVars
<1>1. BoxTypes /\ text \in Query
  BY DEF BoxInv, BoxTypes, Box!Text, Box!Active
<1>2. /\ Box!Outdate(calls) \in SUBSET BoxCall
      /\ \A c \in Box!Outdate(calls) : ~c.fresh
  BY OutdatedCalls DEF BoxInv, BoxTypes
<1>3. /\ Box!Outdate(queries) \in SUBSET BoxQuery
      /\ \A q \in Box!Outdate(queries) : ~q.fresh /\ q.text \notin Partial
  BY OutdatedQueries DEF BoxInv, BoxTypes, BoxQueries
<1>4. /\ timer' = FALSE /\ problem' = FALSE /\ lapse' = "none"
      /\ rows' = Box!NoRows
      /\ Box!LoadCatalogue("run", Box!Outdate(calls))
  BY DEF Box!Run
<1>5. /\ calls' \subseteq BoxCall
      /\ \A c, d \in calls' : c.latest /\ d.latest => c = d
      /\ \A c \in calls' : Runs(c) => c.latest /\ ~Box!Served
      /\ fetching' \in Box!Index \cup {Box!None} /\ vocabulary' \in BOOLEAN
      /\ UNCHANGED <<orphans, usable, outdated>>
      /\ Box!Served => InUse'
  BY <1>1, <1>2, <1>4, CatalogueLoads DEF Runs
<1>6. CASE Box!Served
  <2>1. usable \in Box!Index /\ Box!Search(text, n, usable, Box!Outdate(queries))
    BY <1>1, <1>6 DEF Box!Run, Box!Served, BoxTypes
  <2>2. /\ busy' \in BOOLEAN /\ queries' \subseteq BoxQuery
        /\ \A q \in queries' :
             /\ q.text \notin Partial
             /\ ~q.fresh \/ (q.text = text /\ q.place = n /\ q.index = usable)
        /\ \/ text \in Partial /\ ~busy'
           \/ \E q \in queries' : q.fresh
    BY <1>1, <1>3, <2>1, Searches
  <2>3. BoxTypes'
    BY <1>1, <1>4, <1>5, <2>2 DEF BoxTypes
  <2>4. BoxCalls'
    BY <1>5, <1>6 DEF BoxCalls
  <2>5. BoxQueries'
    BY <1>4, <1>5, <1>6, <2>2 DEF BoxQueries, Box!Active, Asking
  <2>6. BoxRows'
    BY <1>4 DEF BoxRows, BoxInv, Box!RowsAnswerText
  <2>7. BoxAnswered'
    BY <1>4, <2>2 DEF BoxAnswered, Box!Settled
  <2> QED BY <2>3, <2>4, <2>5, <2>6, <2>7 DEF BoxInv
<1>7. CASE ~Box!Served
  <2>1. busy' = TRUE /\ queries' = Box!Outdate(queries)
    BY <1>7 DEF Box!Run
  <2>2. \E c \in calls' : Runs(c)
    <3>1. calls' = Box!Overtake(Box!Outdate(calls)) \cup {Box!Call("run")}
      BY <1>4, <1>7 DEF Box!LoadCatalogue
    <3> QED BY <3>1, CallIs DEF Runs
  <2>3. BoxTypes'
    BY <1>1, <1>3, <1>4, <1>5, <2>1 DEF BoxTypes
  <2>4. BoxCalls'
    BY <1>3, <1>4, <1>5, <2>1 DEF BoxCalls, Box!Active, Asking
  <2>5. BoxQueries'
    BY <1>3, <2>1 DEF BoxQueries
  <2>6. BoxRows'
    BY <1>4 DEF BoxRows, BoxInv, Box!RowsAnswerText
  <2>7. BoxAnswered'
    BY <2>2 DEF BoxAnswered, Box!Settled, Runs
  <2> QED BY <2>3, <2>4, <2>5, <2>6, <2>7 DEF BoxInv
<1> QED BY <1>6, <1>7

\* A run that asks for the catalogue anew, and shows meanwhile what it has.
LEMMA RunAnewKeeps ==
  ASSUME Box!BoxAssumption, BoxInv, NEW t \in Query, t # Box!Blank,
         NEW n \in Box!Place, NEW has \in Box!Row \cup {Box!NoRows},
         text' = t, place' = n, attached', ~composing, UNCHANGED <<composing, snapshot>>,
         has # Box!NoRows => has.text = t /\ has.place = n /\ has.text \notin Partial,
         Box!RunAnew(has), usable' \in Box!Index \cup {Box!None},
         attached' \in BOOLEAN, online' \in BOOLEAN, deployed' \in Box!Index,
         saved' \in Box!Index \cup {Box!None}, events' \in 0..MaxEvents
  PROVE  BoxInv'
<1>1. /\ timer' = FALSE /\ problem' = FALSE /\ lapse' = "none" /\ rows' = has
      /\ busy' = TRUE /\ queries' = Box!Outdate(queries) /\ Box!LoadAnew("run")
  BY DEF Box!RunAnew
<1>2. /\ Box!Outdate(queries) \in SUBSET BoxQuery
      /\ \A q \in Box!Outdate(queries) : ~q.fresh /\ q.text \notin Partial
  BY OutdatedQueries DEF BoxInv, BoxTypes, BoxQueries
<1>3. /\ calls' \subseteq BoxCall
      /\ \A c, d \in calls' : c.latest /\ d.latest => c = d
      /\ \A c \in calls' : c.for = "run" /\ c.fresh /\ c.latest
      /\ calls' # {}
      /\ fetching' \in Box!Index \cup {Box!None} /\ orphans' \in Nat
      /\ outdated' = TRUE /\ vocabulary' = vocabulary
  BY <1>1, LoadsAnew DEF BoxInv
<1>4. BoxTypes'
  BY <1>1, <1>2, <1>3 DEF BoxInv, BoxTypes, Box!Text
<1>5. BoxCalls'
  BY <1>1, <1>2, <1>3 DEF BoxCalls, Box!Active, Asking
<1>6. BoxQueries'
  BY <1>1, <1>2 DEF BoxQueries
<1>7. BoxRows'
  BY <1>1 DEF BoxRows, BoxInv, Box!RowsAnswerText
<1>8. BoxAnswered'
  BY <1>3 DEF BoxAnswered, Box!Settled
<1> QED BY <1>4, <1>5, <1>6, <1>7, <1>8 DEF BoxInv

\* Nothing of a query is left on its way.
LEMMA Quiesces ==
  ASSUME BoxTypes', BoxInv, \A c \in calls' : ~Runs(c),
         \A c, d \in calls' : c.latest /\ d.latest => c = d,
         \A q \in queries' : ~q.fresh /\ q.text \notin Partial,
         timer' => attached' /\ ~composing', composing' => attached',
         UNCHANGED snapshot,
         rows' # Box!NoRows => rows' = rows /\ ~attached',
         attached' /\ text' # Box!Blank /\ ~composing' => timer'
  PROVE  BoxInv'
<1>1. BoxCalls'
  BY DEF BoxCalls
<1>2. BoxQueries'
  BY DEF BoxQueries
<1>3. BoxRows'
  BY DEF BoxRows, BoxInv, Box!RowsAnswerText
<1>4. BoxAnswered'
  BY DEF BoxAnswered, Box!Active, Box!Settled
<1> QED BY <1>1, <1>2, <1>3, <1>4 DEF BoxInv

LEMMA OldWork ==
  ASSUME BoxInv
  PROVE  /\ Box!Outdate(calls) \subseteq BoxCall
         /\ \A c \in Box!Outdate(calls) : ~c.fresh
         /\ \A c, d \in Box!Outdate(calls) : c.latest /\ d.latest => c = d
         /\ Box!Outdate(queries) \subseteq BoxQuery
         /\ \A q \in Box!Outdate(queries) : ~q.fresh /\ q.text \notin Partial
<1>1. calls \in SUBSET BoxCall /\ \A c, d \in calls : c.latest /\ d.latest => c = d
  BY DEF BoxInv, BoxTypes, BoxCalls
<1>2. queries \in SUBSET BoxQuery /\ \A q \in queries : q.text \notin Partial
  BY DEF BoxInv, BoxTypes, BoxQueries
<1>3. /\ Box!Outdate(calls) \subseteq BoxCall
      /\ \A c \in Box!Outdate(calls) : ~c.fresh
      /\ \A c, d \in Box!Outdate(calls) : c.latest /\ d.latest => c = d
  BY Zenon, <1>1, OutdatedCalls
<1> QED BY <1>2, <1>3, OutdatedQueries

LEMMA TypingKeeps ==
  ASSUME Box!BoxAssumption, BoxInv, NEW t \in Box!Text, NEW composes \in BOOLEAN,
         Box!Changed(t, composes), events' \in 0..MaxEvents
  PROVE  BoxInv'
<1> USE DEF Box!worldVars, Box!sessionVars
<1>1. attached /\ text' = t /\ composing' = composes
      /\ UNCHANGED <<snapshot, online, saved, deployed>>
  BY DEF Box!Changed
<1>2. CASE t = Box!Blank /\ ~composes
  <2>1. UNCHANGED attached /\ Box!Reset
    BY <1>2 DEF Box!Changed
  <2>2. BoxTypes'
    BY <1>1, <2>1, OldWork, BoxNumbers DEF Box!Reset, BoxInv, BoxTypes
  <2> QED BY <1>1, <1>2, <2>1, <2>2, OldWork, Quiesces DEF Box!Reset, Runs
<1>3. CASE ~(t = Box!Blank /\ ~composes)
  <2>1. /\ place' = 1 /\ rows' = Box!NoRows /\ problem' = FALSE
        /\ queries' = Box!Outdate(queries) /\ lapse' = "none"
        /\ timer' = ~composes /\ UNCHANGED <<attached, busy>>
    BY <1>3 DEF Box!Changed
  <2>2. /\ calls' \subseteq BoxCall /\ \A c \in calls' : ~Runs(c)
        /\ \A c, d \in calls' : c.latest /\ d.latest => c = d
        /\ fetching' \in Box!Index \cup {Box!None} /\ vocabulary' \in BOOLEAN
        /\ UNCHANGED <<orphans, usable, outdated>>
    <3>1. CASE composes
      <4>1. calls' = Box!Outdate(calls)
            /\ UNCHANGED <<vocabulary, fetching, orphans, usable, outdated>>
        BY <1>3, <3>1 DEF Box!Changed
      <4>2. fetching \in Box!Index \cup {Box!None} /\ vocabulary \in BOOLEAN
        BY DEF BoxInv, BoxTypes
      <4> QED BY <4>1, <4>2, OldWork DEF Runs
    <3>2. CASE ~composes
      <4>1. Box!LoadCatalogue("vocabulary", Box!Outdate(calls))
        BY <1>3, <3>2 DEF Box!Changed
      <4> QED BY <4>1, OldWork, CatalogueLoads DEF BoxInv, Runs
    <3> QED BY <3>1, <3>2
  <2>3. BoxTypes'
    <3>1. timer' \in BOOLEAN
      BY <2>1
    <3> QED BY <1>1, <2>1, <2>2, <3>1, OldWork, BoxNumbers DEF BoxInv, BoxTypes
  <2> QED BY <1>1, <2>1, <2>2, <2>3, OldWork, Quiesces
<1> QED BY <1>2, <1>3

LEMMA FocusKeeps ==
  ASSUME Box!BoxAssumption, BoxInv, Box!Focus PROVE BoxInv'
<1> USE DEF Box!fieldVars, Box!shownVars, Box!worldVars
<1>1. /\ attached /\ ~vocabulary /\ Box!LoadCatalogue("vocabulary", calls)
      /\ lapse' = IF \E c \in calls : c.for = "run" /\ c.fresh THEN "overtaken"
                  ELSE lapse
      /\ UNCHANGED <<text, place, attached, composing, rows, busy, problem,
                     snapshot, timer, queries, online, saved, deployed, events>>
  BY DEF Box!Focus
<1>2. calls \in SUBSET BoxCall /\ BoxTypes
  BY DEF BoxInv, BoxTypes
<1>3. /\ calls' \subseteq BoxCall
      /\ \A c, d \in calls' : c.latest /\ d.latest => c = d
      /\ \A c \in calls' : Runs(c) => ~c.latest /\ \E d \in calls : Runs(d)
      /\ fetching' \in Box!Index \cup {Box!None} /\ vocabulary' \in BOOLEAN
      /\ UNCHANGED <<orphans, usable, outdated>>
  BY <1>1, <1>2, CatalogueLoads
<1>4. ASSUME NEW c \in calls, Runs(c) PROVE \E d \in calls' : Runs(d)
  <2>1. [c EXCEPT !.latest = FALSE] \in Box!Overtake(calls)
    BY DEF Box!Overtake
  <2>2. Box!Overtake(calls) \subseteq calls'
    BY <1>1 DEF Box!LoadCatalogue
  <2>3. Runs([c EXCEPT !.latest = FALSE])
    BY <1>2, <1>4 DEF Runs, BoxCall
  <2> QED BY <2>1, <2>2, <2>3
<1>5. BoxTypes'
  BY <1>1, <1>3 DEF BoxInv, BoxTypes
<1>6. CASE \E c \in calls : Runs(c)
  <2>1. lapse' = "overtaken" /\ Box!Active /\ ~timer /\ \A q \in queries : ~q.fresh
    BY <1>1, <1>6 DEF BoxInv, BoxCalls, Runs, Asking
  <2>2. BoxCalls'
    BY <1>1, <1>3, <1>6, <2>1 DEF BoxInv, BoxCalls, Box!Active, Asking
  <2>3. BoxQueries'
    BY <1>1, <2>1 DEF BoxInv, BoxQueries
  <2>4. BoxRows' /\ BoxAnswered'
    BY <1>1, <2>1 DEF BoxInv, BoxRows, BoxAnswered, Box!RowsAnswerText
  <2> QED BY <1>5, <2>2, <2>3, <2>4 DEF BoxInv
<1>7. CASE \A c \in calls : ~Runs(c)
  <2>1. lapse' = lapse /\ \A c \in calls' : ~Runs(c)
    BY <1>1, <1>3, <1>7 DEF Runs
  <2>2. BoxCalls'
    BY <1>3, <2>1 DEF BoxCalls
  <2>3. BoxQueries'
    BY <1>1, <2>1 DEF BoxInv, BoxQueries, InUse, Asking, Box!Active
  <2>4. BoxRows'
    BY <1>1 DEF BoxInv, BoxRows, Box!RowsAnswerText
  <2>5. BoxAnswered'
    BY <1>1, <1>7, <2>1
    DEF BoxInv, BoxAnswered, Box!Active, Box!Settled, InUse, Runs
  <2> QED BY <1>5, <2>2, <2>3, <2>4, <2>5 DEF BoxInv
<1> QED BY <1>6, <1>7

LEMMA BlurKeeps ==
  ASSUME BoxInv, Box!Blur PROVE BoxInv'
<1>1. /\ composing /\ attached /\ composing' = FALSE /\ lapse' = "abandoned"
      /\ UNCHANGED <<text, place, attached, rows, busy, problem, snapshot, timer,
                     calls, queries, vocabulary, fetching, orphans, usable,
                     outdated, online, saved, deployed, events>>
  BY DEF Box!Blur, Box!shownVars, Box!sessionVars, Box!worldVars
<1>2. BoxTypes'
  BY <1>1 DEF BoxInv, BoxTypes
<1>3. BoxCalls' /\ BoxQueries'
  BY <1>1 DEF BoxInv, BoxCalls, BoxQueries, Asking
<1>4. BoxRows' /\ BoxAnswered'
  BY <1>1 DEF BoxInv, BoxRows, BoxAnswered, Box!RowsAnswerText
<1> QED BY <1>2, <1>3, <1>4 DEF BoxInv

LEMMA FieldArrivesKeeps ==
  ASSUME Box!BoxAssumption, BoxInv, NEW t \in Box!Text, NEW n \in Box!Place,
         Box!Arrive(t, n)
  PROVE  BoxInv'
<1> USE DEF Box!worldVars
<1>1. /\ text' = t /\ place' = n /\ attached' = TRUE
      /\ UNCHANGED <<composing, snapshot, online, saved, deployed>>
      /\ events' \in 0..MaxEvents
  BY BoxNumbers DEF Box!Arrive, Box!Event, BoxInv, BoxTypes
<1>2. CASE t # Box!Blank
  <2>1. Box!RunAnew(Box!Restored(t, n)) /\ UNCHANGED usable
    BY <1>2 DEF Box!Arrive
  <2>2. /\ Box!Restored(t, n) \in Box!Row \cup {Box!NoRows}
        /\ Box!Restored(t, n) # Box!NoRows =>
             /\ Box!Restored(t, n).text = t /\ Box!Restored(t, n).place = n
             /\ Box!Restored(t, n).text \notin Partial
    BY DEF Box!Restored, BoxInv, BoxTypes, BoxRows
  <2>3. t \in Query /\ ~composing
    BY <1>2 DEF Box!Text, Box!Arrive, BoxInv, BoxRows
  <2>4. /\ usable' \in Box!Index \cup {Box!None} /\ online' \in BOOLEAN
        /\ deployed' \in Box!Index /\ saved' \in Box!Index \cup {Box!None}
        /\ attached' \in BOOLEAN
    BY <1>1, <2>1 DEF BoxInv, BoxTypes
  <2>5. PICK has \in Box!Row \cup {Box!NoRows} : has = Box!Restored(t, n)
    BY <2>2
  <2> QED BY <1>1, <1>2, <2>1, <2>2, <2>3, <2>4, <2>5, RunAnewKeeps
<1>3. CASE t = Box!Blank
  <2>1. /\ rows' = Box!NoRows /\ busy' = FALSE /\ problem' = FALSE
        /\ timer' = FALSE /\ lapse' = "none"
        /\ queries' = Box!Outdate(queries) /\ calls' = {}
        /\ orphans' = (IF fetching = Box!None THEN orphans ELSE orphans + 1)
        /\ fetching' = Box!None /\ outdated' = TRUE /\ UNCHANGED <<vocabulary, usable>>
    BY <1>3 DEF Box!Arrive
  <2>2. BoxTypes'
    <3>1. orphans' \in Nat /\ calls' \subseteq BoxCall /\ queries' \subseteq BoxQuery
      BY <2>1, OldWork DEF BoxInv, BoxTypes
    <3> QED BY <1>1, <2>1, <3>1 DEF BoxInv, BoxTypes
  <2> QED BY <1>1, <1>3, <2>1, <2>2, OldWork, Quiesces
<1> QED BY <1>2, <1>3

LEMMA LeaveKeeps ==
  ASSUME Box!BoxAssumption, BoxInv, Box!Leave PROVE BoxInv'
<1> USE DEF Box!worldVars, Box!sessionVars
<1>1. /\ attached' = FALSE /\ composing' = FALSE
      /\ busy' = FALSE /\ timer' = FALSE /\ lapse' = "none"
      /\ queries' = Box!Outdate(queries)
      /\ calls' = Box!Overtake(Box!Outdate(calls))
      /\ UNCHANGED <<text, place, rows, problem, snapshot, vocabulary, fetching,
                     orphans, usable, outdated, online, saved, deployed>>
      /\ events' \in 0..MaxEvents
  BY BoxNumbers DEF Box!Leave, Box!Event, BoxInv, BoxTypes
<1>2. Box!Outdate(calls) \in SUBSET BoxCall
  BY OldWork
<1>3. /\ calls' \subseteq BoxCall
      /\ \A c \in calls' : ~c.latest /\ \E d \in Box!Outdate(calls) :
                                           d.for = c.for /\ d.fresh = c.fresh
  BY <1>1, <1>2, OvertakenCalls
<1>4. \A c \in calls' : ~c.latest /\ ~Runs(c)
  BY <1>3, OldWork DEF Runs
<1>5. BoxTypes'
  <2>1. queries' \subseteq BoxQuery /\ calls' \subseteq BoxCall
    BY <1>1, <1>3, OldWork
  <2> QED BY <1>1, <2>1 DEF BoxInv, BoxTypes
<1> QED BY <1>1, <1>4, <1>5, OldWork, Quiesces

LEMMA ReloadKeeps ==
  ASSUME Box!BoxAssumption, BoxInv, Box!Reload PROVE BoxInv'
<1> USE DEF Box!worldVars
<1>1. events' \in 0..MaxEvents /\ Box!Empty
      /\ UNCHANGED <<snapshot, online, saved, deployed>>
  BY BoxNumbers DEF Box!Reload, Box!Event, BoxInv, BoxTypes
<1>2. BoxTypes'
  <2>1. calls' \subseteq BoxCall /\ queries' \subseteq BoxQuery
    BY <1>1 DEF Box!Empty
  <2> QED BY <1>1, <2>1, BoxNumbers DEF Box!Empty, BoxInv, BoxTypes, Box!Text
<1> QED BY <1>1, <1>2, Quiesces DEF Box!Empty

\* New builds, another saved index, and the network take the catalogue away.
LEMMA RefreshKeeps ==
  ASSUME Box!BoxAssumption, BoxInv, Box!Refresh,
         UNCHANGED <<text, place, attached, composing, snapshot>>,
         usable' \in Box!Index \cup {Box!None}, online' \in BOOLEAN,
         deployed' \in Box!Index, saved' \in Box!Index \cup {Box!None},
         events' \in 0..MaxEvents
  PROVE  BoxInv'
<1> USE DEF Box!shownVars
<1>1. BoxTypes
  BY DEF BoxInv
<1>2. CASE Box!IfAsked
  <2>1. attached /\ ~composing /\ text \in Query /\ text # Box!Blank /\ Box!RunAnew(rows)
    BY <1>1, <1>2 DEF Box!Refresh, Box!IfAsked, Box!Active, Box!Text, BoxTypes
  <2>2. /\ rows \in Box!Row \cup {Box!NoRows}
        /\ rows # Box!NoRows =>
             rows.text = text /\ rows.place = place /\ rows.text \notin Partial
    BY <2>1 DEF BoxInv, BoxTypes, BoxRows, Box!RowsAnswerText
  <2>3. place \in Box!Place /\ attached \in BOOLEAN
    BY <1>1 DEF BoxTypes
  <2>4. PICK t \in Query, n \in Box!Place, has \in Box!Row \cup {Box!NoRows} :
          t = text /\ n = place /\ has = rows
    BY <2>1, <2>2, <2>3
  <2> QED BY <2>1, <2>2, <2>3, <2>4, RunAnewKeeps
<1>3. CASE ~Box!IfAsked
  <2>1. UNCHANGED <<rows, busy, problem, timer, queries, lapse>>
    BY <1>3 DEF Box!Refresh
  <2>2. /\ calls' \subseteq BoxCall /\ \A c \in calls' : ~Runs(c)
        /\ \A c, d \in calls' : c.latest /\ d.latest => c = d
        /\ fetching' \in Box!Index \cup {Box!None} /\ vocabulary' \in BOOLEAN
        /\ orphans' \in Nat /\ outdated' \in BOOLEAN
    <3>1. CASE attached
      <4>1. Box!LoadAnew("vocabulary")
        BY <1>3, <3>1 DEF Box!Refresh
      <4> QED BY <1>1, <4>1, LoadsAnew DEF Runs, BoxTypes
    <3>2. CASE ~attached
      <4>1. /\ orphans' = (IF fetching = Box!None THEN orphans ELSE orphans + 1)
            /\ fetching' = Box!None /\ outdated' = TRUE /\ calls' = {}
            /\ UNCHANGED vocabulary
        BY <1>3, <3>2 DEF Box!Refresh
      <4> QED BY <1>1, <4>1 DEF BoxTypes
    <3> QED BY <3>1, <3>2
  <2>3. BoxTypes'
    BY <1>1, <2>1, <2>2 DEF BoxTypes
  <2>4. \A q \in queries : ~q.fresh
    BY <1>3 DEF BoxInv, BoxQueries, Box!IfAsked, Asking
  <2>5. BoxCalls' /\ BoxQueries' /\ BoxRows'
    BY <2>1, <2>2, <2>4 DEF BoxInv, BoxCalls, BoxQueries, BoxRows, Box!RowsAnswerText
  <2>6. BoxAnswered'
    BY <1>3 DEF BoxAnswered, Box!IfAsked, Box!Active
  <2> QED BY <2>3, <2>5, <2>6 DEF BoxInv
<1> QED BY <1>2, <1>3

\* Every call hears of an index; the latest run goes on with it.
LEMMA CallLandsKeeps ==
  ASSUME Box!BoxAssumption, BoxInv, NEW i \in Box!Index, Box!Landed(i),
         fetching # Box!None, usable' = i, fetching' = Box!None, outdated' \in BOOLEAN,
         \/ lapse' = lapse /\ ~outdated'
         \/ lapse' = IF lapse = "none" THEN "kept" ELSE lapse,
         UNCHANGED <<text, place, attached, composing, snapshot, timer, orphans,
                     online, saved, deployed, events>>
  PROVE  BoxInv'
<1>1. /\ calls' = {} /\ UNCHANGED <<rows, problem>>
      /\ vocabulary' = (vocabulary \/ (attached /\ \E c \in calls : c.latest))
  BY DEF Box!Landed
<1>2. vocabulary' \in BOOLEAN
  BY Zenon, <1>1
<1>3. /\ lapse' \in {"none", "overtaken", "kept", "abandoned"}
      /\ lapse' = "none" => ~outdated'
  BY DEF BoxInv, BoxTypes
<1>4. BoxCalls' /\ BoxRows'
  BY <1>1 DEF BoxInv, BoxCalls, BoxRows, Box!RowsAnswerText
<1>5. CASE attached /\ \E c \in calls : Box!Resumes(c)
  <2>1. PICK c \in calls : Runs(c) /\ c.latest
    BY <1>5 DEF Box!Resumes, Runs
  <2>2. /\ Asking /\ lapse \notin {"overtaken", "abandoned"}
        /\ \A q \in queries : ~q.fresh
    BY <2>1 DEF BoxInv, BoxCalls
  <2>3. text \in Query /\ place \in Box!Place /\ Box!Search(text, place, i, queries)
    BY <1>5, <2>2 DEF Box!Landed, BoxInv, BoxTypes, Box!Text, Asking, Box!Active
  <2>4. /\ busy' \in BOOLEAN /\ queries' \subseteq BoxQuery
        /\ \A q \in queries' :
             /\ q.text \notin Partial
             /\ ~q.fresh \/ (q.text = text /\ q.place = place /\ q.index = i)
        /\ \/ text \in Partial /\ ~busy'
           \/ \E q \in queries' : q.fresh
    <3>1. queries \in SUBSET BoxQuery /\ \A q \in queries : q.text \notin Partial
      BY DEF BoxInv, BoxTypes, BoxQueries
    <3>2. \A q \in queries' :
             /\ q.text \notin Partial
             /\ q \in queries
                \/ (q.fresh /\ q.text = text /\ q.place = place /\ q.index = i)
      BY <2>3, <3>1, Searches DEF BoxInv
    <3>3. /\ busy' \in BOOLEAN /\ queries' \subseteq BoxQuery
          /\ \/ text \in Partial /\ ~busy'
             \/ \E q \in queries' : q.fresh
      BY <2>3, <3>1, Searches DEF BoxInv
    <3> QED BY <2>2, <3>2, <3>3
  <2>5. vocabulary' = TRUE
    BY <1>1, <1>5, <2>1
  <2>6. BoxTypes'
    BY <1>1, <1>3, <2>4, <2>5 DEF BoxInv, BoxTypes
  <2>7. lapse' \notin {"overtaken", "abandoned"} /\ (lapse' = "none" => InUse')
    BY <1>3, <2>2, <2>5, BoxNumbers DEF InUse
  <2>8. BoxQueries'
    BY <2>2, <2>4, <2>7 DEF BoxQueries, Asking, Box!Active
  <2>9. BoxAnswered'
    <3>1. text \in Partial => rows = Box!NoRows
      BY <2>2 DEF BoxInv, BoxRows, Box!RowsAnswerText, Asking
    <3> QED BY <1>1, <2>4, <3>1 DEF BoxAnswered, Box!Settled
  <2> QED BY <1>4, <2>6, <2>8, <2>9 DEF BoxInv
<1>6. CASE ~(attached /\ \E c \in calls : Box!Resumes(c))
  <2>1. UNCHANGED <<busy, queries>>
    BY <1>6 DEF Box!Landed
  <2>2. \A c \in calls : Runs(c) => lapse = "overtaken"
    BY <1>6 DEF BoxInv, BoxCalls, Asking, Box!Resumes, Runs
  <2>3. BoxTypes'
    BY <1>1, <1>2, <1>3, <2>1 DEF BoxInv, BoxTypes
  <2>4. BoxQueries'
    <3>1. ASSUME NEW q \in queries, q.fresh
          PROVE  lapse' = "kept"
      <4>1. lapse \notin {"overtaken", "abandoned", "none"}
        BY <3>1 DEF BoxInv, BoxQueries, InUse
      <4> QED BY <4>1 DEF BoxInv, BoxTypes
    <3> QED BY <2>1, <3>1 DEF BoxInv, BoxQueries, Asking, Box!Active
  <2>5. BoxAnswered'
    <3> SUFFICES ASSUME (attached /\ Box!Active /\ ~composing /\ Box!Settled
                          /\ lapse \notin {"overtaken", "abandoned"})'
                 PROVE  /\ ~busy
                        /\ \/ problem
                           \/ rows # Box!NoRows /\ lapse' = "kept"
                           \/ rows = Box!NoRows /\ text \in Partial
      BY <1>1, <2>1 DEF BoxAnswered
    <3>1. lapse \notin {"overtaken", "abandoned"}
      OBVIOUS
    <3>2. \A c \in calls : ~Runs(c)
      BY <2>2, <3>1
    <3>3. Box!Settled
      BY <2>1, <3>2 DEF Box!Settled, Runs
    <3>4. /\ ~busy
          /\ \/ problem
             \/ rows # Box!NoRows /\ lapse = "kept"
             \/ rows = Box!NoRows /\ text \in Partial
      BY <3>1, <3>3 DEF BoxInv, BoxAnswered, Box!Active, InUse
    <3> QED BY <3>4
  <2> QED BY <1>4, <2>3, <2>4, <2>5 DEF BoxInv
<1> QED BY <1>5, <1>6

LEMMA FetchAnswersKeep ==
  ASSUME Box!BoxAssumption, BoxInv, NEW i \in Box!Index \cup {Box!None},
         Box!FetchAnswers(i)
  PROVE  BoxInv'
<1> USE DEF Box!fieldVars, Box!worldVars
<1>1. i \in Box!Index
  <2>1. fetching # Box!None /\ i \in IF online THEN fetching..deployed
                                     ELSE {saved} \ {Box!None}
    BY DEF Box!FetchAnswers
  <2>2. /\ fetching \in Box!Index /\ deployed \in Box!Index
        /\ fetching..deployed \subseteq Box!Index
    BY <2>1, BoxNumbers DEF BoxInv, BoxTypes, Box!Index, Box!None
  <2> QED BY <2>1, <2>2
<1> QED BY <1>1, CallLandsKeeps DEF Box!FetchAnswers

LEMMA FetchFailsKeep ==
  ASSUME Box!BoxAssumption, BoxInv, Box!FetchFails PROVE BoxInv'
<1> USE DEF Box!fieldVars, Box!worldVars, Box!shownVars
<1>1. /\ fetching # Box!None /\ fetching' = Box!None
      /\ lapse' = IF lapse = "none" /\ usable # Box!None THEN "kept" ELSE lapse
      /\ UNCHANGED <<text, place, attached, composing, snapshot, timer, orphans,
                     usable, outdated, online, saved, deployed, events>>
  BY DEF Box!FetchFails
<1>2. CASE usable # Box!None
  <2>1. Box!Landed(usable)
    BY <1>2 DEF Box!FetchFails
  <2>2. usable \in Box!Index /\ outdated \in BOOLEAN
    BY <1>2 DEF BoxInv, BoxTypes
  <2>3. PICK i \in Box!Index : i = usable
    BY <2>2
  <2> QED BY <1>1, <1>2, <2>1, <2>2, <2>3, CallLandsKeeps
<1>3. CASE usable = Box!None
  <2>1. calls' = {} /\ UNCHANGED <<vocabulary, queries>> /\ lapse' = lapse
    BY <1>1, <1>3 DEF Box!FetchFails
  <2>2. \A q \in queries : q.fresh => lapse = "kept"
    BY <1>3 DEF BoxInv, BoxQueries, BoxTypes, InUse
  <2>3. CASE \E c \in calls : Runs(c)
    <3>1. rows' = Box!NoRows /\ busy' = FALSE /\ problem' = TRUE
      BY <1>3, <2>3 DEF Box!FetchFails, Runs
    <3>2. BoxTypes'
      <4>1. /\ lapse \in {"none", "overtaken", "kept", "abandoned"}
            /\ calls' \subseteq BoxCall
            /\ rows' \in Box!Row \cup {Box!NoRows}
        BY <2>1, <3>1 DEF BoxInv, BoxTypes
      <4>2. lapse' \in {"none", "overtaken", "kept", "abandoned"}
        BY <2>1, <4>1
      <4> QED BY <1>1, <2>1, <3>1, <4>1, <4>2 DEF BoxInv, BoxTypes
    <3>3. BoxCalls' /\ BoxQueries' /\ BoxRows' /\ BoxAnswered'
      BY <1>1, <2>1, <2>2, <3>1
      DEF BoxInv, BoxCalls, BoxQueries, BoxRows, BoxAnswered, Box!RowsAnswerText,
          Asking, Box!Active
    <3> QED BY <3>2, <3>3 DEF BoxInv
  <2>4. CASE \A c \in calls : ~Runs(c)
    <3>1. UNCHANGED <<rows, busy, problem>>
      BY <1>3, <2>4 DEF Box!FetchFails, Runs
    <3>2. BoxTypes'
      BY <1>1, <2>1, <3>1 DEF BoxInv, BoxTypes
    <3>3. BoxCalls' /\ BoxQueries' /\ BoxRows'
      BY <1>1, <2>1, <2>2, <3>1
      DEF BoxInv, BoxCalls, BoxQueries, BoxRows, Box!RowsAnswerText, Asking, Box!Active
    <3>4. BoxAnswered'
      BY <1>1, <1>3, <2>1, <2>4, <3>1
      DEF BoxInv, BoxAnswered, Box!Settled, Box!Active, InUse, Runs
    <3> QED BY <3>2, <3>3, <3>4 DEF BoxInv
  <2> QED BY <2>3, <2>4
<1> QED BY <1>2, <1>3

LEMMA OrphanEndsKeep ==
  ASSUME Box!BoxAssumption, BoxInv, Box!OrphanEnds PROVE BoxInv'
<1> USE DEF Box!fieldVars, Box!worldVars, Box!shownVars, Box!workVars
<1>1. /\ orphans \in Nat /\ orphans > 0 /\ orphans' = orphans - 1
      /\ fetching' \in Box!Index \cup {Box!None}
      /\ InUse => fetching' = Box!None
      /\ UNCHANGED <<text, place, attached, composing, rows, busy, problem, snapshot,
                     timer, calls, queries, lapse, vocabulary, usable, outdated,
                     online, saved, deployed, events>>
  BY DEF Box!OrphanEnds, BoxInv, BoxTypes, InUse
<1>2. orphans' \in Nat
  BY <1>1
<1>3. BoxTypes'
  BY <1>1, <1>2 DEF BoxInv, BoxTypes
<1>4. InUse => InUse'
  BY <1>1 DEF InUse
<1>5. BoxCalls' /\ BoxRows'
  BY <1>1 DEF BoxInv, BoxCalls, BoxRows, Asking, Box!Active, Box!RowsAnswerText
<1>6. BoxQueries'
  BY <1>1, <1>4 DEF BoxInv, BoxQueries, Asking, Box!Active
<1>7. BoxAnswered'
  BY <1>1, <1>4 DEF BoxInv, BoxAnswered, Box!Settled, Box!Active
<1> QED BY <1>3, <1>5, <1>6, <1>7 DEF BoxInv

LEMMA QueryEndsKeep ==
  ASSUME Box!BoxAssumption, BoxInv, NEW q \in queries,
         Box!QueryAnswers(q) \/ Box!QueryFails(q)
  PROVE  BoxInv'
<1> USE DEF Box!fieldVars, Box!worldVars, Box!shownVars, Box!sessionVars
<1>1. /\ queries' = queries \ {q}
      /\ UNCHANGED <<text, place, attached, composing, timer, calls, lapse,
                     vocabulary, fetching, orphans, usable, outdated,
                     online, saved, deployed, events>>
  BY DEF Box!QueryAnswers, Box!QueryFails
<1>2. BoxCalls' /\ BoxQueries'
  BY <1>1 DEF BoxInv, BoxCalls, BoxQueries, Asking, Box!Active, InUse
<1>3. CASE ~q.fresh
  <2>1. UNCHANGED <<rows, snapshot, busy, problem>>
    BY <1>3 DEF Box!QueryAnswers, Box!QueryFails, Box!Fresh
  <2>2. BoxTypes' /\ BoxRows'
    <3>1. BoxTypes'
      BY <1>1, <2>1 DEF BoxInv, BoxTypes
    <3>2. BoxRows'
      BY <1>1, <2>1 DEF BoxInv, BoxRows, Box!RowsAnswerText
    <3> QED BY <3>1, <3>2
  <2>3. BoxAnswered'
    BY <1>1, <1>3, <2>1
    DEF BoxInv, BoxAnswered, Box!Settled, Box!Active, InUse
  <2> QED BY <1>2, <2>2, <2>3 DEF BoxInv
<1>4. CASE q.fresh
  <2>1. /\ q.text \notin Partial /\ q.text = text /\ q.place = place
        /\ lapse \notin {"overtaken", "abandoned"}
        /\ lapse = "none" => InUse /\ q.index = usable
    BY <1>4 DEF BoxInv, BoxQueries
  <2>2. CASE Box!QueryAnswers(q)
    <3>1. rows' = Box!RowsOf(q) /\ snapshot' = Box!RowsOf(q) /\ busy' = FALSE
          /\ problem' = problem
      BY <1>4, <2>2 DEF Box!QueryAnswers, Box!Fresh
    <3>2. /\ Box!RowsOf(q) \in Box!Row /\ Box!RowsOf(q).text = text
          /\ Box!RowsOf(q).place = place /\ Box!RowsOf(q).index = q.index
      BY <2>1 DEF BoxInv, BoxTypes, BoxQuery, Box!RowsOf, Box!Row
    <3>3. Box!RowsOf(q) # Box!NoRows
      <4>1. Box!NoRows.index \notin Box!Index /\ Box!RowsOf(q).index \in Box!Index
        BY BoxNumbers DEF Box!NoRows, BoxInv, BoxTypes, BoxQuery, Box!RowsOf
      <4> QED BY <4>1
    <3>4. BoxTypes' /\ BoxRows'
      <4>1. BoxTypes'
        <5>1. /\ rows' \in Box!Row \cup {Box!NoRows} /\ busy' \in BOOLEAN
              /\ snapshot' \in Box!Row \cup {Box!NoRows}
          BY <3>1, <3>2
        <5>2. problem' \in BOOLEAN /\ queries' \subseteq BoxQuery
          BY <1>1, <3>1 DEF BoxInv, BoxTypes
        <5> QED BY <1>1, <5>1, <5>2 DEF BoxInv, BoxTypes
      <4>2. BoxRows'
        BY <1>1, <2>1, <3>1, <3>2 DEF BoxInv, BoxRows, Box!RowsAnswerText
      <4> QED BY <4>1, <4>2
    <3>5. BoxAnswered'
      <4>1. lapse = "kept" \/ (InUse' /\ rows'.index = usable')
        BY <1>1, <2>1, <3>1, <3>2 DEF BoxInv, BoxTypes, InUse
      <4> QED BY <1>1, <3>1, <3>3, <4>1 DEF BoxAnswered
    <3> QED BY <1>2, <3>4, <3>5 DEF BoxInv
  <2>3. CASE Box!QueryFails(q)
    <3>1. rows' = Box!NoRows /\ busy' = FALSE /\ problem' = TRUE
          /\ snapshot' = snapshot
      BY <1>4, <2>3 DEF Box!QueryFails
    <3>2. BoxTypes'
      <4>1. /\ rows' \in Box!Row \cup {Box!NoRows} /\ busy' \in BOOLEAN
            /\ problem' \in BOOLEAN
        BY <3>1
      <4>2. queries' \subseteq BoxQuery /\ snapshot' \in Box!Row \cup {Box!NoRows}
        BY <1>1, <3>1 DEF BoxInv, BoxTypes
      <4> QED BY <1>1, <4>1, <4>2 DEF BoxInv, BoxTypes
    <3>3. BoxRows' /\ BoxAnswered'
      BY <1>1, <3>1 DEF BoxInv, BoxRows, BoxAnswered, Box!RowsAnswerText
    <3> QED BY <1>2, <3>2, <3>3 DEF BoxInv
  <2> QED BY <2>2, <2>3
<1> QED BY <1>3, <1>4

LEMMA BoxKeeps ==
  ASSUME Box!BoxAssumption, BoxInv, [Box!Next]_boxVars PROVE BoxInv'
<1>1. CASE UNCHANGED boxVars
  BY <1>1
  DEF boxVars, BoxInv, BoxTypes, BoxCalls, BoxQueries, BoxRows, BoxAnswered, Asking,
      Box!Active, Box!Settled, Box!RowsAnswerText, InUse
<1>2. ASSUME Box!Event PROVE events' \in 0..MaxEvents
  BY <1>2, BoxNumbers DEF Box!Event, BoxInv, BoxTypes
<1>3. ASSUME NEW t \in Box!Text, Box!Type(t) PROVE BoxInv'
  <2>1. \E composes \in BOOLEAN : Box!Changed(t, composes)
    BY Zenon, <1>3 DEF Box!Type, BoxInv, BoxTypes
  <2> QED BY <1>2, <1>3, <2>1, TypingKeeps DEF Box!Type
<1>4. ASSUME Box!Fire PROVE BoxInv'
  <2>1. /\ attached /\ Box!Active /\ ~composing /\ place \in Box!Place
        /\ Box!Run(place) /\ events' \in 0..MaxEvents
        /\ UNCHANGED <<text, place, attached, composing, snapshot, Box!worldVars>>
    BY <1>4 DEF Box!Fire, Box!fieldVars, BoxInv, BoxTypes, BoxRows
  <2>2. PICK n \in Box!Place : n = place
    BY <2>1
  <2> QED BY <2>1, <2>2, RunKeeps
<1>5. ASSUME Box!Submit PROVE BoxInv'
  <2>1. /\ attached /\ Box!Active /\ ~composing /\ place \in Box!Place
        /\ Box!Run(place)
        /\ UNCHANGED <<text, place, attached, composing, snapshot, Box!worldVars>>
    BY <1>5 DEF Box!Submit, Box!fieldVars, BoxInv, BoxTypes
  <2>2. events' \in 0..MaxEvents
    BY <1>2, <1>5 DEF Box!Submit
  <2>3. PICK n \in Box!Place : n = place
    BY <2>1
  <2> QED BY <2>1, <2>2, <2>3, RunKeeps
<1>6. ASSUME NEW n \in Box!Place, Box!Turn(n) PROVE BoxInv'
  <2>1. events' \in 0..MaxEvents
    BY <1>2, <1>6 DEF Box!Turn
  <2> QED BY <1>6, <2>1, RunKeeps DEF Box!Turn
<1>7. ASSUME Box!Deploy PROVE BoxInv'
  <2>1. /\ deployed' \in Box!Index
        /\ UNCHANGED <<text, place, attached, composing, rows, busy, problem, snapshot,
                       timer, calls, queries, lapse, vocabulary, fetching, orphans,
                       usable, outdated, online, saved, events>>
    <3>1. deployed' = deployed + 1 /\ deployed < MaxIndex /\ deployed \in Box!Index
      BY <1>7 DEF Box!Deploy, BoxInv, BoxTypes
    <3>2. deployed' \in Box!Index
      BY <3>1, BoxNumbers DEF Box!Index
    <3> QED BY <1>7, <3>2
        DEF Box!Deploy, Box!fieldVars, Box!shownVars, Box!workVars, Box!sessionVars
  <2>2. BoxTypes'
    BY <2>1 DEF BoxInv, BoxTypes
  <2> QED BY <2>1, <2>2
      DEF BoxInv, BoxCalls, BoxQueries, BoxRows, BoxAnswered, Asking, Box!Active,
          Box!Settled, Box!RowsAnswerText, InUse
<1>8. ASSUME NEW i \in Box!Index \cup {Box!None},
             Box!Announced \/ Box!Network \/ Box!IndexSaved(i)
      PROVE  BoxInv'
  <2>1. /\ Box!Event /\ Box!Refresh
        /\ UNCHANGED <<text, place, attached, composing, snapshot>>
    BY <1>8 DEF Box!Announced, Box!Network, Box!IndexSaved, Box!fieldVars
  <2>2. /\ usable' \in Box!Index \cup {Box!None} /\ online' \in BOOLEAN
        /\ deployed' \in Box!Index /\ saved' \in Box!Index \cup {Box!None}
    BY <1>8 DEF Box!Announced, Box!Network, Box!IndexSaved, Box!worldVars, BoxInv,
                BoxTypes
  <2> QED BY <1>2, <2>1, <2>2, RefreshKeeps
<1> QED
  BY Zenon, <1>1, <1>3, <1>4, <1>5, <1>6, <1>7, <1>8, FocusKeeps,
     FieldArrivesKeeps, LeaveKeeps, ReloadKeeps, FetchAnswersKeep, FetchFailsKeep,
     OrphanEndsKeep, QueryEndsKeep,
     BlurKeeps DEF Box!Next

LEMMA BoxHolds == MCSpec => []BoxInv
<1>1. Box!BoxAssumption
  BY ReaderAssumption
<1>2. MCInit => BoxInv
  BY <1>1, ReaderBegins, BoxBegins
<1>3. BoxInv /\ [MCNext]_mcVars => BoxInv'
  BY <1>1, ReaderMoves, BoxKeeps
<1> QED BY <1>2, <1>3, PTL DEF MCSpec

\* Rows answer the text and the page in the field, and a query that has nothing
\* more on its way has rows of the index in use, a reason why not, or a facet to
\* choose, for any texts, pages, builds and order of answers
\* (src/web/src/search/controller.ts).
THEOREM QueriesAreAnswered == MCSpec => []SearchAnswered
<1>1. BoxInv => SearchAnswered
  <2>1. ASSUME BoxInv PROVE Box!RowsAnswerText
    BY <2>1 DEF BoxInv, BoxRows
  <2>2. ASSUME BoxInv PROVE Box!QueryAnsweredUnlessOvertaken
    BY <2>2 DEF BoxInv, BoxAnswered, Box!QueryAnsweredUnlessOvertaken,
                Box!QueryAnswered
  <2> QED BY <2>1, <2>2 DEF SearchAnswered
<1> QED BY <1>1, BoxHolds, PTL

-----------------------------------------------------------------------------
(* Player.  What a slot last heard, or is about to hear last, is what its  *)
(* element does; so whatever sounds without having been heard yet has its  *)
(* promotion on the way.                                                   *)

\* A slot whose events end with what its element does.
Sound(s) ==
  /\ s \in Media!Slot
  /\ ~s.timed => s.events \in Seq(Media!Event \ {"ended"})
  /\ s.begun \/ s.place # Media!Start \/ s.phase = "ended" => s.timed
  /\ s.disposed => s.paused /\ ~s.begun
  /\ ~s.disposed =>
       (Media!Sounding(s) <=>
          IF s.events = <<>> THEN s.phase \in {"loading", "playing"}
          ELSE Final(s.events) \in {"play", "playing"})

\* The recording in play took its place up, and has one to remember.
InPlay ==
  playing # Quiet =>
    /\ slot[playing].timed => slot[playing].resumed
    /\ slot[playing].phase = "idle" =>
         /\ slot[playing].disposed
         /\ slot[playing].place = Media!Underway => resume[playing] = Media!Underway

PlayerInv ==
  /\ article \subseteq Recording /\ mounted \in BOOLEAN /\ own \subseteq article
  /\ playing \in Recording \cup {Quiet} /\ gestures \in Nat
  /\ resume \in [Recording -> Media!Start..Media!End]
  /\ slot \in [Recording -> Media!Slot] /\ \A r \in Recording : Sound(slot[r])
  /\ Media!OneRecording /\ InPlay
  /\ \A r \in Recording : slot[r].disposed => r = playing \/ slot[r].place = Media!Start

-----------------------------------------------------------------------------

LEMMA SlotIs ==
  ASSUME NEW s \in Media!Slot
  PROVE  /\ s.phase \in Media!Phase /\ s.paused \in BOOLEAN /\ s.begun \in BOOLEAN
         /\ s.failed \in BOOLEAN /\ s.place \in 0..2 /\ s.promised \in BOOLEAN
         /\ s.events \in Seq(Media!Event) /\ s.home \in BOOLEAN /\ s.timed \in BOOLEAN
         /\ s.resumed \in BOOLEAN /\ s.disposed \in BOOLEAN
BY DEF Media!Slot, Media!Start, Media!End

LEMMA NoEvents ==
  <<>> \in Seq(Media!Event) /\ <<>> \in Seq(Media!Event \ {"ended"})
BY Queues

LEMMA FreshSounds ==
  ASSUME NEW started \in BOOLEAN, NEW timed \in BOOLEAN, started => timed
  PROVE  Sound(Media!Fresh(started, timed))
<1> DEFINE f == Media!Fresh(started, timed)
<1>1. /\ f.phase = (IF started THEN "playing" ELSE "idle") /\ f.paused = ~started
      /\ f.begun = started /\ f.place = Media!Start /\ f.events = <<>>
      /\ f.timed = timed /\ f.disposed = FALSE /\ f.failed = FALSE
  BY DEF Media!Fresh
<1>2. f \in Media!Slot
  <2>1. (IF started THEN "playing" ELSE "idle") \in Media!Phase
    BY DEF Media!Phase
  <2>2. Media!Start \in Media!Start..Media!End
    BY DEF Media!Start, Media!End
  <2>3. (~started) \in BOOLEAN
    OBVIOUS
  <2> QED BY <2>1, <2>2, <2>3, NoEvents DEF Media!Fresh, Media!Slot
<1> HIDE DEF f
<1>3. Sound(f)
  BY <1>1, <1>2, NoEvents DEF Sound, Media!Sounding
<1> QED BY <1>3 DEF f

LEMMA ReleasedSounds ==
  ASSUME NEW s, Sound(s)
  PROVE  /\ Sound(Media!Released(s)) /\ Media!Released(s).paused
         /\ Media!Released(s).disposed /\ Media!Released(s).place = Media!Start
<1> DEFINE f == Media!Released(s)
<1>1. s \in Media!Slot /\ (s.phase = "ended" => s.timed)
  BY DEF Sound
<1>2. Media!Start \in Media!Start..Media!End
  BY DEF Media!Start, Media!End
<1>3. /\ f \in Media!Slot /\ f.phase = s.phase /\ f.paused = TRUE /\ f.begun = FALSE
      /\ f.place = Media!Start /\ f.events = <<>> /\ f.timed = s.timed
      /\ f.disposed = TRUE /\ f.failed = FALSE
  BY <1>1, <1>2, NoEvents DEF Media!Released, Media!Slot
<1> HIDE DEF f
<1>4. Sound(f)
  BY <1>1, <1>3, NoEvents DEF Sound, Media!Sounding
<1> QED BY <1>3, <1>4 DEF f

LEMMA NoneSounds == Sound(Media!None) /\ Media!None.paused
<1>1. Sound(Media!Fresh(FALSE, FALSE))
  BY FreshSounds
<1>2. Sound(Media!Released(Media!Fresh(FALSE, FALSE)))
      /\ Media!Released(Media!Fresh(FALSE, FALSE)).paused
      /\ Media!Released(Media!Fresh(FALSE, FALSE)).disposed
  BY <1>1, ReleasedSounds
<1>3. PICK s : s = Media!Released(Media!Fresh(FALSE, FALSE))
  OBVIOUS
<1>4. Sound(s) /\ s.paused /\ s.disposed
  BY <1>2, <1>3
<1>5. Media!None = [s EXCEPT !.home = FALSE]
  BY <1>3 DEF Media!None
<1> QED BY <1>4, <1>5 DEF Sound, Media!Slot, Media!Sounding

LEMMA ResumedSounds ==
  ASSUME NEW r \in Recording, NEW s, Sound(s)
  PROVE  /\ Sound(Media!Resumed(r, s))
         /\ Media!Resumed(r, s).timed => Media!Resumed(r, s).resumed
         /\ s.resumed => Media!Resumed(r, s).resumed
         /\ Media!Resumed(r, s).phase = s.phase /\ Media!Resumed(r, s).paused = s.paused
         /\ Media!Resumed(r, s).failed = s.failed /\ Media!Resumed(r, s).timed = s.timed
         /\ Media!Resumed(r, s).events = s.events
         /\ Media!Resumed(r, s).disposed = s.disposed
         /\ \/ Media!Resumed(r, s).place = s.place
            \/ /\ resume[r] = Media!Underway
               /\ Media!Resumed(r, s).place = Media!Underway
         /\ s.timed /\ ~s.resumed /\ s.place = Media!Start
            /\ resume[r] = Media!Underway => Media!Resumed(r, s).place = Media!Underway
<1>1. s \in Media!Slot
  BY DEF Sound
<1>2. CASE s.resumed \/ ~s.timed
  <2>1. Media!Resumed(r, s) = s
    BY <1>2 DEF Media!Resumed
  <2> QED BY <1>2, <2>1
<1>3. CASE ~s.resumed /\ s.timed
  <2>1. PICK p : p = IF s.place = Media!Start /\ resume[r] = Media!Underway
                     THEN Media!Underway ELSE s.place
    OBVIOUS
  <2>2. Media!Resumed(r, s) = [s EXCEPT !.resumed = TRUE, !.place = p]
    BY <1>3, <2>1 DEF Media!Resumed
  <2>3. p \in Media!Start..Media!End
    BY <1>1, <2>1, SlotIs DEF Media!Start, Media!End, Media!Underway
  <2>4. Sound([s EXCEPT !.resumed = TRUE, !.place = p])
    BY <1>1, <1>3, <2>3 DEF Sound, Media!Slot, Media!Sounding
  <2> QED BY <1>1, <1>3, <2>1, <2>2, <2>4 DEF Media!Slot
<1> QED BY <1>2, <1>3, <1>1, SlotIs

LEMMA Told ==
  ASSUME NEW Q, NEW q \in Seq(Q), NEW e \in Q
  PROVE  Append(q, e) \in Seq(Q) /\ Append(q, e) # <<>> /\ Final(Append(q, e)) = e
BY Queues

LEMMA Joined ==
  ASSUME NEW Q, NEW q \in Seq(Q), NEW a \in Q, NEW b \in Q
  PROVE  /\ q \o <<a>> \in Seq(Q) /\ q \o <<a>> # <<>> /\ Final(q \o <<a>>) = a
         /\ q \o <<a, b>> \in Seq(Q) /\ q \o <<a, b>> # <<>>
         /\ Final(q \o <<a, b>>) = b
<1>1. Len(q) \in Nat
  OBVIOUS
<1>2. q \o <<a>> \in Seq(Q) /\ Len(q \o <<a>>) = Len(q) + 1
      /\ (q \o <<a>>)[Len(q) + 1] = a
  OBVIOUS
<1>3. q \o <<a, b>> \in Seq(Q) /\ Len(q \o <<a, b>>) = Len(q) + 2
      /\ (q \o <<a, b>>)[Len(q) + 2] = b
  OBVIOUS
<1> QED BY <1>1, <1>2, <1>3 DEF Final

LEMMA EventsAre ==
  /\ {"play", "playing", "pause", "error", "rejected"} \subseteq Media!Event \ {"ended"}
  /\ "ended" \in Media!Event
BY DEF Media!Event

\* One more event of a slot.
LEMMA Tells ==
  ASSUME NEW s \in Media!Slot, ~s.timed => s.events \in Seq(Media!Event \ {"ended"}),
         NEW e \in {"play", "playing", "pause", "error", "rejected"}
  PROVE  /\ Append(s.events, e) \in Seq(Media!Event)
         /\ ~s.timed => Append(s.events, e) \in Seq(Media!Event \ {"ended"})
         /\ Append(s.events, e) # <<>> /\ Final(Append(s.events, e)) = e
<1>1. s.events \in Seq(Media!Event) /\ e \in Media!Event /\ e \in Media!Event \ {"ended"}
  BY SlotIs, EventsAre
<1> QED BY <1>1, Told

LEMMA BeganSounds ==
  ASSUME NEW s \in Media!Slot, ~s.timed => s.events \in Seq(Media!Event \ {"ended"}),
         s.place # Media!Start \/ s.phase = "ended" => s.timed,
         ~s.disposed, ~s.failed
  PROVE  /\ Sound(Media!Began(s)) /\ ~Media!Began(s).disposed
         /\ Media!Began(s).events # <<>> /\ Media!Began(s).timed = s.timed
         /\ Media!Began(s).resumed = s.resumed /\ Media!Began(s).phase = s.phase
         /\ Final(Media!Began(s).events) = "play"
         /\ Media!Sounding(Media!Began(s))
         /\ Media!Began(s).place = s.place \/ Media!Began(s).place = Media!Start
<1>1. PICK q : q = Append(s.events, "play")
  OBVIOUS
<1>2. /\ q \in Seq(Media!Event) /\ q # <<>> /\ Final(q) = "play"
      /\ ~s.timed => q \in Seq(Media!Event \ {"ended"})
  BY <1>1, Tells
<1>3. PICK p : p = IF s.place = Media!End THEN Media!Start ELSE s.place
  OBVIOUS
<1>4. p \in Media!Start..Media!End /\ (p # Media!Start => s.timed)
      /\ (p = s.place \/ p = Media!Start)
  BY <1>3, SlotIs DEF Media!Start, Media!End
<1>5. Media!Began(s)
        = [s EXCEPT !.paused = FALSE, !.begun = FALSE, !.place = p, !.events = q]
  BY <1>1, <1>3 DEF Media!Began
<1>6. PICK t : t = Media!Began(s)
  OBVIOUS
<1>7. /\ t \in Media!Slot /\ t.paused = FALSE /\ t.begun = FALSE /\ t.place = p
      /\ t.events = q /\ t.phase = s.phase /\ t.timed = s.timed /\ t.failed = s.failed
      /\ t.resumed = s.resumed /\ t.disposed = s.disposed
  BY <1>2, <1>4, <1>5, <1>6 DEF Media!Slot
<1>8. Sound(t) /\ Media!Sounding(t)
  BY <1>2, <1>4, <1>7 DEF Sound, Media!Sounding
<1> QED BY <1>2, <1>4, <1>6, <1>7, <1>8

LEMMA StoppedSounds ==
  ASSUME NEW s, Sound(s), ~s.disposed
  PROVE  /\ Sound(Media!Stopped(s)) /\ ~Media!Stopped(s).disposed
         /\ Media!Stopped(s).paused
         /\ Media!Stopped(s).timed = s.timed /\ Media!Stopped(s).resumed = s.resumed
         /\ Media!Stopped(s).phase = s.phase /\ Media!Stopped(s).place = s.place
<1>1. s \in Media!Slot /\ s.events \in Seq(Media!Event)
  BY SlotIs DEF Sound
<1>2. PICK q : q = IF s.paused THEN s.events ELSE Append(s.events, "pause")
  OBVIOUS
<1>3. /\ q \in Seq(Media!Event) /\ (~s.timed => q \in Seq(Media!Event \ {"ended"}))
      /\ s.paused => q = s.events
      /\ ~s.paused => q # <<>> /\ Final(q) = "pause"
  BY <1>1, <1>2, Tells DEF Sound
<1>4. PICK t : t = Media!Stopped(s)
  OBVIOUS
<1>5. t = [s EXCEPT !.paused = TRUE, !.begun = FALSE, !.events = q]
  BY <1>2, <1>4 DEF Media!Stopped
<1>6. /\ t \in Media!Slot /\ t.paused = TRUE /\ t.begun = FALSE /\ t.place = s.place
      /\ t.events = q /\ t.phase = s.phase /\ t.timed = s.timed /\ t.failed = s.failed
      /\ t.resumed = s.resumed /\ t.disposed = s.disposed
  BY <1>1, <1>3, <1>5 DEF Media!Slot
<1>7. Sound(t)
  BY <1>1, <1>3, <1>6 DEF Sound, Media!Sounding
<1> QED BY <1>4, <1>6, <1>7

\* What the button of a player makes of it.
LEMMA ToggledSounds ==
  ASSUME NEW s, Sound(s), ~s.disposed, Len(s.events) < 2
  PROVE  /\ Sound(Media!Toggled(s)) /\ ~Media!Toggled(s).disposed
         /\ Media!Toggled(s).timed = s.timed /\ Media!Toggled(s).resumed = s.resumed
         /\ \/ /\ Media!Toggled(s).phase = "paused"
               /\ Media!Toggled(s).place = s.place
            \/ Media!Toggled(s).phase = "loading"
         /\ s.paused /\ s.phase # "loading" => Media!Toggled(s).phase = "loading"
<1>1. s \in Media!Slot /\ s.events \in Seq(Media!Event)
  BY SlotIs DEF Sound
<1>2. PICK q : q = IF s.events = <<"rejected">> THEN <<>> ELSE s.events
  OBVIOUS
<1>3. PICK a : a = Media!Attempted(s)
  OBVIOUS
<1>4. a = [s EXCEPT !.events = q]
  BY <1>2, <1>3 DEF Media!Attempted
<1>5. q \in Seq(Media!Event) /\ (~s.timed => q \in Seq(Media!Event \ {"ended"}))
  BY <1>1, <1>2, NoEvents DEF Sound
<1>6. /\ a \in Media!Slot /\ a.paused = s.paused /\ a.begun = s.begun
      /\ a.place = s.place /\ a.events = q /\ a.phase = s.phase /\ a.timed = s.timed
      /\ a.failed = s.failed /\ a.resumed = s.resumed /\ ~a.disposed
  BY <1>1, <1>4, <1>5 DEF Media!Slot
<1>7. s.events = <<"rejected">> => ~Media!Sounding(s)
  <2>1. Final(<<"rejected">>) = "rejected"
    BY DEF Final
  <2> QED BY <2>1 DEF Sound
<1>8. CASE ~s.paused \/ s.phase = "loading"
  <2>1. Media!Toggled(s)
          = [Media!Stopped(a) EXCEPT !.phase = "paused", !.promised = FALSE]
    BY <1>3, <1>6, <1>8 DEF Media!Toggled
  <2>2. PICK p : p = IF a.paused THEN a.events ELSE Append(a.events, "pause")
    OBVIOUS
  <2>3. /\ p \in Seq(Media!Event) /\ (~s.timed => p \in Seq(Media!Event \ {"ended"}))
        /\ a.paused => p = q
        /\ ~a.paused => p # <<>> /\ Final(p) = "pause"
    BY <1>5, <1>6, <2>2, Tells
  <2>4. PICK t : t = Media!Toggled(s)
    OBVIOUS
  <2>5. t = [a EXCEPT !.paused = TRUE, !.begun = FALSE, !.events = p,
                      !.phase = "paused", !.promised = FALSE]
    BY <1>6, <2>1, <2>2, <2>4 DEF Media!Stopped, Media!Slot
  <2>6. /\ t \in Media!Slot /\ t.paused = TRUE /\ t.begun = FALSE /\ t.place = s.place
        /\ t.events = p /\ t.phase = "paused" /\ t.timed = s.timed
        /\ t.resumed = s.resumed /\ ~t.disposed
    BY <1>6, <2>3, <2>5 DEF Media!Slot, Media!Phase
  <2>7. p # <<>> => Final(p) \notin {"play", "playing"}
    BY <1>2, <1>6, <1>7, <2>3 DEF Sound, Media!Sounding
  <2>8. Sound(t)
    BY <2>3, <2>6, <2>7 DEF Sound, Media!Sounding
  <2> QED BY <1>8, <2>4, <2>6, <2>8
<1>9. CASE s.paused /\ s.phase # "loading"
  <2>1. PICK b : b = Media!Reloaded(a)
    OBVIOUS
  <2>2. /\ b \in Media!Slot /\ ~b.failed /\ b.events = q /\ b.timed = s.timed
        /\ b.resumed = s.resumed /\ ~b.disposed
        /\ b.place # Media!Start => s.timed
    <3>1. Media!Start \in Media!Start..Media!End
      BY DEF Media!Start, Media!End
    <3>2. CASE a.failed
      <4>1. b = [a EXCEPT !.failed = FALSE, !.place = Media!Start]
        BY <2>1, <3>2 DEF Media!Reloaded
      <4> QED BY <1>6, <3>1, <4>1 DEF Media!Slot
    <3>3. CASE ~a.failed
      <4>1. b = a
        BY <2>1, <3>3 DEF Media!Reloaded
      <4> QED BY <1>6, <3>3, <4>1 DEF Sound
    <3> QED BY <3>2, <3>3
  <2>3. b.phase = s.phase
    BY <1>6, <2>1 DEF Media!Reloaded, Media!Slot
  <2>4. s.phase = "ended" => s.timed
    BY DEF Sound
  <2>5. PICK d : d = Media!Began(b)
    OBVIOUS
  <2>6. /\ Sound(d) /\ ~d.disposed /\ d.events # <<>> /\ d.timed = s.timed
        /\ d.resumed = s.resumed /\ Final(d.events) = "play" /\ Media!Sounding(d)
    BY <1>5, <2>2, <2>3, <2>4, <2>5, BeganSounds
  <2>7. PICK t : t = Media!Toggled(s)
    OBVIOUS
  <2>8. t = [d EXCEPT !.phase = "loading", !.promised = TRUE]
    BY <1>3, <1>6, <1>9, <2>1, <2>5, <2>7 DEF Media!Toggled
  <2>9. /\ d \in Media!Slot /\ t \in Media!Slot /\ t.phase = "loading"
        /\ t.paused = d.paused /\ t.begun = d.begun /\ t.failed = d.failed
        /\ t.place = d.place /\ t.events = d.events /\ t.timed = d.timed
        /\ t.resumed = d.resumed /\ t.disposed = d.disposed
    BY <2>6, <2>8 DEF Media!Slot, Media!Phase, Sound
  <2>10. Sound(t)
    BY <2>6, <2>9 DEF Sound, Media!Sounding
  <2> QED BY <2>6, <2>7, <2>9, <2>10
<1> QED BY <1>8, <1>9

\* A place is lost only as the code means it to be (the step of Media!PlaceKept).
PlaceStep ==
  /\ \A r \in Recording :
       resume[r] = Media!Underway /\ resume'[r] = Media!Start =>
         /\ slot[r].place = Media!Start
         /\ \/ slot[r].resumed
            \/ /\ ~slot[r].timed
               /\ slot'[r].phase = "paused" \/ playing' # r
  /\ (/\ playing # Quiet /\ playing' # playing
      /\ slot[playing].place = Media!Underway
      /\ playing' = Quiet => slot'[playing].disposed)
     => resume'[playing] = Media!Underway

PageTypes ==
  /\ article \subseteq Recording /\ mounted \in BOOLEAN /\ own \subseteq article
  /\ gestures \in Nat

LEMMA Places ==
  /\ Media!Start # Media!Underway /\ Media!Start..Media!End = 0..2
  /\ {Media!Start, Media!Underway, Media!End} = 0..2
BY DEF Media!Start, Media!Underway, Media!End

LEMMA PlayingIs ==
  ASSUME PlayerInv, playing # Quiet
  PROVE  /\ playing \in Recording /\ Sound(slot[playing])
         /\ slot[playing].timed => slot[playing].resumed
         /\ slot[playing].phase = "idle" =>
              /\ slot[playing].disposed
              /\ slot[playing].place = Media!Underway => resume[playing] = Media!Underway
BY DEF PlayerInv, InPlay

\* Another recording, or none, is in play.
LEMMA RetiredKeeps ==
  ASSUME Media!PlayerAssumption, PlayerInv, PageTypes', playing' # playing,
         playing' \in Recording \cup {Quiet},
         slot' \in [Recording -> Media!Slot], \A q \in Recording : Sound(slot'[q]),
         \A q \in Recording : slot'[q].disposed =>
                                q = playing' \/ slot'[q].place = Media!Start,
         \A q \in Recording : \/ q = playing' \/ slot'[q].paused
                              \/ q # playing /\ slot'[q] = slot[q],
         playing' # Quiet /\ slot'[playing'].timed => slot'[playing'].resumed,
         playing' # Quiet /\ slot'[playing'].phase = "idle" =>
             /\ slot'[playing'].disposed
             /\ slot'[playing'].place = Media!Underway =>
                  resume'[playing'] = Media!Underway,
         resume' \in [Recording -> 0..2],
         \A q \in Recording : q # playing' => resume'[q] = Media!PlaceAtRetirement[q],
         playing' # Quiet => \/ resume'[playing'] = resume[playing']
                             \/ resume'[playing'] # Media!Start
  PROVE  PlayerInv' /\ PlaceStep
<1>1. Media!OneRecording'
  <2> SUFFICES ASSUME NEW q \in Recording, Media!Sounding(slot'[q]),
                      slot'[q].events = <<>>, q # playing'
               PROVE  FALSE
    BY DEF Media!OneRecording
  <2>1. ~slot'[q].paused
    BY DEF Media!Sounding
  <2>2. q # playing /\ slot'[q] = slot[q]
    BY <2>1
  <2> QED BY <2>2 DEF PlayerInv, Media!OneRecording
<1>2. PlayerInv'
  BY <1>1, Places DEF PlayerInv, PageTypes, InPlay
<1>3. \A q \in Recording :
        Media!PlaceAtRetirement[q]
          = IF q = playing /\ slot[q].phase # "idle" THEN slot[q].place ELSE resume[q]
  BY DEF Media!PlaceAtRetirement, Media!Remembered
<1>4. ASSUME NEW q \in Recording, resume[q] = Media!Underway, resume'[q] = Media!Start
      PROVE  /\ slot[q].place = Media!Start
             /\ slot[q].resumed \/ (~slot[q].timed /\ playing' # q)
  <2>1. q # playing'
    BY <1>4, Places DEF Media!PlayerAssumption
  <2>2. q = playing /\ slot[q].place = Media!Start
    BY <1>3, <1>4, <2>1, Places
  <2>3. playing # Quiet
    BY <2>2 DEF Media!PlayerAssumption
  <2> QED BY <2>1, <2>2, <2>3, PlayingIs
<1>5. ASSUME playing # Quiet, slot[playing].place = Media!Underway
      PROVE  resume'[playing] = Media!Underway
  <2>1. /\ playing \in Recording
        /\ slot[playing].phase = "idle" => resume[playing] = Media!Underway
    BY <1>5, PlayingIs
  <2>2. resume'[playing] = Media!PlaceAtRetirement[playing]
    BY <2>1
  <2> QED BY <1>3, <1>5, <2>1, <2>2
<1> QED BY <1>2, <1>4, <1>5 DEF PlaceStep

LEMMA RetiredBut ==
  ASSUME PlayerInv, NEW r, NEW s, r # playing, r \in Recording => Sound(s)
  PROVE  /\ Media!RetiredBut(r, s) \in [Recording -> Media!Slot]
         /\ \A q \in Recording :
              /\ Sound(Media!RetiredBut(r, s)[q])
              /\ Media!RetiredBut(r, s)[q].disposed =>
                   q = r \/ Media!RetiredBut(r, s)[q].place = Media!Start
              /\ \/ q = r \/ Media!RetiredBut(r, s)[q].paused
                 \/ q # playing /\ Media!RetiredBut(r, s)[q] = slot[q]
         /\ r \in Recording => Media!RetiredBut(r, s)[r] = s
         /\ playing # Quiet => Media!RetiredBut(r, s)[playing].disposed
<1>1. \A q \in Recording : Sound(slot[q])
  BY DEF PlayerInv
<1>2. \A q \in Recording :
        /\ Sound(Media!Released(slot[q])) /\ Media!Released(slot[q]).paused
        /\ Media!Released(slot[q]).disposed
        /\ Media!Released(slot[q]).place = Media!Start
  BY <1>1, ReleasedSounds
<1>3. \A q \in Recording :
        Media!RetiredBut(r, s)[q] = IF q = r THEN s
                                    ELSE IF q = playing THEN Media!Released(slot[q])
                                    ELSE slot[q]
  BY DEF Media!RetiredBut
<1>4. \A q \in Recording : Sound(Media!RetiredBut(r, s)[q])
  BY <1>1, <1>2, <1>3
<1>5. Media!RetiredBut(r, s) \in [Recording -> Media!Slot]
  <2>1. \A q \in Recording : Media!RetiredBut(r, s)[q] \in Media!Slot
    BY <1>4 DEF Sound
  <2> QED BY <2>1 DEF Media!RetiredBut
<1>6. playing # Quiet => Media!RetiredBut(r, s)[playing].disposed
  <2>1. playing # Quiet => playing \in Recording
    BY DEF PlayerInv
  <2> QED BY <1>2, <1>3, <2>1
<1>7. \A q \in Recording : slot[q].disposed => q = playing \/ slot[q].place = Media!Start
  BY DEF PlayerInv
<1> QED BY <1>2, <1>3, <1>4, <1>5, <1>6, <1>7

LEMMA Remembering ==
  ASSUME PlayerInv
  PROVE  Media!PlaceAtRetirement \in [Recording -> 0..2]
<1>1. \A q \in Recording : slot[q].place \in 0..2 /\ resume[q] \in 0..2
  BY SlotIs, Places DEF PlayerInv
<1> QED BY <1>1 DEF Media!PlaceAtRetirement, Media!Remembered

\* What is in play stays.
LEMMA SlotKeeps ==
  ASSUME Media!PlayerAssumption, PlayerInv, PageTypes', playing' = playing,
         NEW r \in Recording, NEW s, Sound(s), slot' = [slot EXCEPT ![r] = s],
         Media!Sounding(s) /\ s.events = <<>> => playing = r,
         s.disposed => playing = r \/ s.place = Media!Start,
         playing = r /\ s.timed => s.resumed,
         playing = r /\ s.phase = "idle" =>
           s.disposed /\ (s.place = Media!Underway => resume'[r] = Media!Underway),
         resume' \in [Recording -> 0..2],
         \A q \in Recording : q # r => resume'[q] = resume[q],
         resume[r] = Media!Underway /\ resume'[r] = Media!Start =>
           /\ slot[r].place = Media!Start
           /\ \/ slot[r].resumed
              \/ ~slot[r].timed /\ s.phase = "paused"
  PROVE  PlayerInv' /\ PlaceStep
<1>1. /\ s \in Media!Slot /\ slot \in [Recording -> Media!Slot]
      /\ \A q \in Recording : Sound(slot[q]) /\ playing \in Recording \cup {Quiet}
  BY DEF PlayerInv, Sound
<1>2. \A q \in Recording : slot'[q] = IF q = r THEN s ELSE slot[q]
  BY <1>1
<1>3. slot' \in [Recording -> Media!Slot] /\ \A q \in Recording : Sound(slot'[q])
  BY <1>1, <1>2
<1>4. Media!OneRecording'
  BY <1>2 DEF PlayerInv, Media!OneRecording
<1>5. InPlay'
  <2> SUFFICES ASSUME playing # Quiet PROVE InPlay'
    BY DEF InPlay
  <2>1. CASE playing = r
    BY <1>2, <2>1 DEF InPlay
  <2>2. CASE playing # r
    <3>1. playing \in Recording /\ slot'[playing] = slot[playing]
          /\ resume'[playing] = resume[playing]
      BY <1>1, <1>2, <2>2
    <3> QED BY <3>1 DEF PlayerInv, InPlay
  <2> QED BY <2>1, <2>2
<1>6. PlayerInv'
  BY <1>1, <1>2, <1>3, <1>4, <1>5, Places DEF PlayerInv, PageTypes
<1>7. PlaceStep
  BY <1>2, Places DEF PlaceStep
<1> QED BY <1>6, <1>7

LEMMA PromoteKeeps ==
  ASSUME Media!PlayerAssumption, PlayerInv, PageTypes', NEW r \in Recording,
         playing # r, NEW s, Sound(s), Media!Promote(r, s),
         s.phase = "idle" =>
           s.disposed /\ (s.place = Media!Underway => resume[r] = Media!Underway)
  PROVE  PlayerInv' /\ PlaceStep
<1>1. PICK t : t = Media!Resumed(r, s)
  OBVIOUS
<1>2. /\ Sound(t) /\ (t.timed => t.resumed) /\ t.phase = s.phase
      /\ t.disposed = s.disposed
      /\ \/ t.place = s.place
         \/ resume[r] = Media!Underway /\ t.place = Media!Underway
  BY <1>1, ResumedSounds
<1>3. /\ slot' = Media!RetiredBut(r, t) /\ playing' = r
      /\ resume' = Media!PlaceAtRetirement
  BY <1>1 DEF Media!Promote
<1>4. r # Quiet
  BY DEF Media!PlayerAssumption
<1>5. /\ slot' \in [Recording -> Media!Slot]
      /\ \A q \in Recording :
           /\ Sound(slot'[q])
           /\ slot'[q].disposed => q = r \/ slot'[q].place = Media!Start
           /\ \/ q = r \/ slot'[q].paused
              \/ q # playing /\ slot'[q] = slot[q]
      /\ slot'[r] = t
  BY <1>2, <1>3, RetiredBut
<1>6. resume'[r] = resume[r] /\ resume' \in [Recording -> 0..2]
  BY <1>3, Remembering DEF Media!PlaceAtRetirement
<1>7. /\ slot'[r].timed => slot'[r].resumed
      /\ slot'[r].phase = "idle" =>
           /\ slot'[r].disposed
           /\ slot'[r].place = Media!Underway => resume'[r] = Media!Underway
  BY <1>2, <1>5, <1>6, Places
<1> QED BY <1>3, <1>4, <1>5, <1>6, <1>7, RetiredKeeps

\* `accept`, of a player that is not disposed.
LEMMA AcceptKeeps ==
  ASSUME Media!PlayerAssumption, PlayerInv, PageTypes', NEW r \in Recording,
         Media!Usable(r), NEW s, Sound(s), ~s.disposed, Media!Accept(r, s),
         slot[r].timed => s.timed, s.resumed = slot[r].resumed,
         s.phase = "idle" => slot[r].phase = "idle",
         s.phase \in {"paused", "ended"} /\ s.place = Media!Start =>
           slot[r].place = Media!Start
  PROVE  PlayerInv' /\ PlaceStep
<1>1. r # Quiet /\ (playing = r => slot[r].phase # "idle" /\ s.phase # "idle")
  BY PlayingIs DEF Media!PlayerAssumption, Media!Usable
<1>2. CASE playing # r /\ s.phase \in {"playing", "loading"}
  <2>1. Media!Promote(r, s)
    BY <1>2 DEF Media!Accept
  <2> QED BY <1>2, <2>1, PromoteKeeps
<1>3. CASE playing # r /\ s.phase \notin {"playing", "loading"}
  <2>1. slot' = [slot EXCEPT ![r] = s] /\ UNCHANGED <<resume, playing>>
    BY <1>3 DEF Media!Accept
  <2>2. ~(Media!Sounding(s) /\ s.events = <<>>)
    BY <1>3 DEF Sound
  <2>3. resume' \in [Recording -> 0..2]
    BY <2>1, Places DEF PlayerInv
  <2> QED BY <1>3, <2>1, <2>2, <2>3, SlotKeeps, Places
<1>4. CASE playing = r /\ s.phase = "error" /\ r \notin Video /\ s.home
  <2>1. slot' = [slot EXCEPT ![r] = s] /\ playing' = Quiet /\ resume' = resume
    BY <1>4 DEF Media!Accept, Media!Restore
  <2>2. ~(Media!Sounding(s) /\ s.events = <<>>)
    BY <1>4 DEF Sound
  <2>3. /\ s \in Media!Slot /\ slot \in [Recording -> Media!Slot]
        /\ \A q \in Recording : Sound(slot[q])
    BY DEF PlayerInv, Sound
  <2>4. \A q \in Recording : slot'[q] = IF q = r THEN s ELSE slot[q]
    BY <2>1, <2>3
  <2>5. slot' \in [Recording -> Media!Slot] /\ \A q \in Recording : Sound(slot'[q])
    BY <2>1, <2>3, <2>4
  <2>6. Media!OneRecording'
    BY <1>4, <2>2, <2>4 DEF PlayerInv, Media!OneRecording
  <2>7. \A q \in Recording : slot'[q].disposed => slot'[q].place = Media!Start
    BY <1>4, <2>4 DEF PlayerInv
  <2>9. PlayerInv'
    BY <2>1, <2>5, <2>6, <2>7 DEF PlayerInv, PageTypes, InPlay
  <2>8. PlaceStep
    BY <1>4, <2>1, <2>4, Places DEF PlaceStep
  <2> QED BY <2>8, <2>9
<1>5. CASE playing = r /\ ~(s.phase = "error" /\ r \notin Video /\ s.home)
  <2>1. PICK t : t = Media!Resumed(r, s)
    OBVIOUS
  <2>2. /\ Sound(t) /\ (t.timed => t.resumed) /\ t.phase = s.phase
        /\ t.timed = s.timed
        /\ \/ t.place = s.place
           \/ resume[r] = Media!Underway /\ t.place = Media!Underway
        /\ s.timed /\ ~s.resumed /\ s.place = Media!Start
           /\ resume[r] = Media!Underway => t.place = Media!Underway
    BY <2>1, ResumedSounds
  <2>3. PICK reached : reached = Media!Remembered(r, t, s.phase \in {"paused", "ended"})
    OBVIOUS
  <2>4. /\ slot' = [slot EXCEPT ![r] = t] /\ playing' = playing
        /\ resume' = [resume EXCEPT ![r] = reached]
    BY <1>5, <2>1, <2>3 DEF Media!Accept
  <2>5. /\ reached \in {resume[r], t.place}
        /\ reached = Media!Start =>
             resume[r] = Media!Start
             \/ (s.phase \in {"paused", "ended"} /\ t.place = Media!Start)
    BY <2>3 DEF Media!Remembered
  <2>6. resume \in [Recording -> 0..2] /\ resume[r] \in 0..2 /\ t.place \in 0..2
    BY <2>2, SlotIs, Places DEF PlayerInv, Sound
  <2>7. /\ resume' \in [Recording -> 0..2] /\ resume'[r] = reached
        /\ \A q \in Recording : q # r => resume'[q] = resume[q]
    BY <2>4, <2>5, <2>6
  <2>8. ASSUME resume[r] = Media!Underway, reached = Media!Start
        PROVE  /\ slot[r].place = Media!Start
               /\ \/ slot[r].resumed
                  \/ ~slot[r].timed /\ t.phase = "paused"
    <3>1. s.phase \in {"paused", "ended"} /\ t.place = Media!Start
      BY <2>5, <2>8, Places
    <3>2. s.place = Media!Start /\ slot[r].place = Media!Start
      BY <2>2, <3>1, Places
    <3>3. s.phase = "ended" => s.timed
      BY DEF Sound
    <3>4. s.resumed \/ ~s.timed
      BY <2>2, <2>8, <3>1, <3>2, Places
    <3> QED BY <2>2, <3>1, <3>2, <3>3, <3>4
  <2> QED BY <1>1, <1>5, <2>2, <2>4, <2>7, <2>8, SlotKeeps
<1> QED BY <1>2, <1>3, <1>4, <1>5

-----------------------------------------------------------------------------

LEMMA PressKeeps ==
  ASSUME Media!PlayerAssumption, PlayerInv, NEW r \in Recording, Media!Press(r)
  PROVE  PlayerInv' /\ PlaceStep
<1>1. UNCHANGED <<article, mounted, own>> /\ PageTypes' /\ Len(slot[r].events) < 2
  BY DEF Media!Press, Media!pageVars, Media!Gesture, Media!Room, PlayerInv, PageTypes
<1>2. PICK s : s = Media!Resumed(r, slot[r])
  OBVIOUS
<1>3. Sound(slot[r]) /\ r # Quiet
  BY DEF PlayerInv, Media!PlayerAssumption
<1>4. /\ Sound(s) /\ (s.timed => s.resumed) /\ s.phase = slot[r].phase
      /\ s.events = slot[r].events /\ s.disposed = slot[r].disposed
      /\ \/ s.place = slot[r].place
         \/ resume[r] = Media!Underway /\ s.place = Media!Underway
  BY <1>2, <1>3, ResumedSounds
<1>5. CASE /\ r \in own /\ playing # r /\ s.paused /\ s.phase # "loading" /\ s.disposed
  <2>1. Media!Promote(r, s)
    BY <1>2, <1>5 DEF Media!Press
  <2>2. s.place = Media!Underway => resume[r] = Media!Underway
    BY <1>4, <1>5, Places DEF PlayerInv
  <2> QED BY <1>1, <1>4, <1>5, <2>1, <2>2, PromoteKeeps
<1>6. CASE /\ r \in own /\ playing # r /\ s.paused /\ s.phase # "loading" /\ ~s.disposed
  <2>1. PICK t : t = Media!Toggled(s)
    OBVIOUS
  <2>2. /\ Sound(t) /\ ~t.disposed /\ t.timed = s.timed /\ t.resumed = s.resumed
        /\ t.phase = "loading"
    BY <1>1, <1>4, <1>6, <2>1, ToggledSounds
  <2>3. /\ slot' = Media!RetiredBut(r, t) /\ playing' = r
        /\ resume' = [Media!PlaceAtRetirement EXCEPT ![r] = Media!Remembered(r, t, FALSE)]
    BY <1>2, <1>6, <2>1 DEF Media!Press
  <2>4. /\ slot' \in [Recording -> Media!Slot]
        /\ \A q \in Recording :
             /\ Sound(slot'[q])
             /\ slot'[q].disposed => q = r \/ slot'[q].place = Media!Start
             /\ \/ q = r \/ slot'[q].paused
                \/ q # playing /\ slot'[q] = slot[q]
        /\ slot'[r] = t
    BY <1>6, <2>2, <2>3, RetiredBut
  <2>5. PICK reached : reached = Media!Remembered(r, t, FALSE)
    OBVIOUS
  <2>6. /\ reached = resume[r] \/ (reached = t.place /\ reached # Media!Start)
        /\ resume[r] \in 0..2 /\ t.place \in 0..2
    BY <2>2, <2>5, SlotIs, Places DEF Media!Remembered, PlayerInv, Sound
  <2>7. /\ resume' \in [Recording -> 0..2] /\ resume'[r] = reached
        /\ \A q \in Recording : q # r => resume'[q] = Media!PlaceAtRetirement[q]
    BY <2>3, <2>5, <2>6, Remembering
  <2> QED BY <1>1, <1>3, <1>4, <1>6, <2>2, <2>3, <2>4, <2>6, <2>7, RetiredKeeps
<1>7. CASE ~(r \in own /\ playing # r /\ s.paused /\ s.phase # "loading")
  <2>1. CASE slot[r].disposed
    <3>1. UNCHANGED <<slot, playing, resume>>
      BY <1>2, <1>7, <2>1 DEF Media!Press
    <3> QED BY <1>1, <3>1, Places
        DEF PlayerInv, PageTypes, PlaceStep, Media!OneRecording, InPlay
  <2>2. CASE ~slot[r].disposed
    <3>1. Media!Accept(r, Media!Toggled(slot[r]))
      BY <1>2, <1>7, <2>2 DEF Media!Press
    <3> QED BY <1>1, <1>3, <2>2, <3>1, ToggledSounds, AcceptKeeps DEF Media!Usable
  <2> QED BY <2>1, <2>2
<1> QED BY <1>5, <1>6, <1>7

LEMMA PressBarKeeps ==
  ASSUME Media!PlayerAssumption, PlayerInv, Media!PressBar
  PROVE  PlayerInv' /\ PlaceStep
<1>1. PICK r \in Recording : r = playing
  BY DEF Media!PressBar, PlayerInv
<1>2. /\ Media!Usable(r) /\ ~slot[r].disposed /\ Len(slot[r].events) < 2
      /\ Media!Accept(r, Media!Toggled(slot[r])) /\ PageTypes' /\ Sound(slot[r])
  BY <1>1 DEF Media!PressBar, Media!pageVars, Media!Gesture, Media!Room, Media!Usable,
              PlayerInv, PageTypes
<1> QED BY <1>2, ToggledSounds, AcceptKeeps

LEMMA DismissKeeps ==
  ASSUME Media!PlayerAssumption, PlayerInv, Media!Dismiss
  PROVE  PlayerInv' /\ PlaceStep
<1>1. /\ slot' = Media!RetiredBut(Quiet, Media!None)
      /\ resume' = Media!PlaceAtRetirement /\ playing' = Quiet /\ playing # Quiet
      /\ PageTypes' /\ Quiet \notin Recording
  BY DEF Media!Dismiss, Media!pageVars, Media!Gesture, PlayerInv, PageTypes,
         Media!PlayerAssumption
<1>2. /\ slot' \in [Recording -> Media!Slot]
      /\ \A q \in Recording :
           /\ Sound(slot'[q])
           /\ slot'[q].disposed => q = Quiet \/ slot'[q].place = Media!Start
           /\ \/ q = Quiet \/ slot'[q].paused
              \/ q # playing /\ slot'[q] = slot[q]
  BY <1>1, RetiredBut
<1> QED BY <1>1, <1>2, Remembering, RetiredKeeps

\* Something happens to an element that its slot is yet to hear of.
LEMMA ElementKeeps ==
  ASSUME Media!PlayerAssumption, PlayerInv, PageTypes', NEW r \in Recording,
         Media!Usable(r), NEW s, Sound(s), ~s.disposed, s.events # <<>>,
         slot' = [slot EXCEPT ![r] = s], UNCHANGED <<playing, resume>>,
         s.timed = slot[r].timed, s.resumed = slot[r].resumed, s.phase = slot[r].phase
  PROVE  PlayerInv' /\ PlaceStep
<1>1. r # Quiet /\ resume' \in [Recording -> 0..2]
  BY Places DEF PlayerInv, Media!PlayerAssumption
<1>2. playing = r => slot[r].phase # "idle" /\ (slot[r].timed => slot[r].resumed)
  BY <1>1, PlayingIs DEF Media!Usable
<1> QED BY <1>1, <1>2, Places, SlotKeeps

LEMMA UsableIs ==
  ASSUME PlayerInv, NEW r \in Recording, Media!Usable(r)
  PROVE  /\ Sound(slot[r]) /\ slot[r] \in Media!Slot /\ ~slot[r].disposed
         /\ slot \in [Recording -> Media!Slot]
         /\ slot[r].events \in Seq(Media!Event)
BY SlotIs DEF PlayerInv, Sound, Media!Usable

LEMMA NativeKeeps ==
  ASSUME Media!PlayerAssumption, PlayerInv, NEW r \in Recording,
         Media!PressNative(r) \/ Media!PauseNative(r) \/ Media!Plays(r)
  PROVE  PlayerInv' /\ PlaceStep
<1>1. Media!Usable(r) /\ PageTypes' /\ UNCHANGED <<playing, resume>>
  BY DEF Media!PressNative, Media!PauseNative, Media!Plays, Media!pageVars,
         Media!Gesture, PlayerInv, PageTypes
<1>2. PICK s \in Media!Slot : s = slot[r] /\ Sound(s) /\ ~s.disposed
  BY <1>1, UsableIs
<1>3. slot \in [Recording -> Media!Slot]
  BY DEF PlayerInv
<1>4. CASE Media!PressNative(r)
  <2>1. PICK t : t = Media!Began(s)
    OBVIOUS
  <2>2. ~s.failed /\ slot' = [slot EXCEPT ![r] = t]
    BY <1>2, <1>3, <1>4, <2>1 DEF Media!PressNative
  <2>3. /\ Sound(t) /\ ~t.disposed /\ t.events # <<>> /\ t.timed = s.timed
        /\ t.resumed = s.resumed /\ t.phase = s.phase
    BY <1>2, <2>1, <2>2, BeganSounds DEF Sound
  <2> QED BY <1>1, <1>2, <2>2, <2>3, ElementKeeps
<1>5. CASE Media!PauseNative(r)
  <2>1. ~s.paused
    BY <1>2, <1>5 DEF Media!PauseNative, Media!Sounding
  <2>2. PICK q : q = Append(s.events, "pause")
    OBVIOUS
  <2>3. /\ q \in Seq(Media!Event) /\ (~s.timed => q \in Seq(Media!Event \ {"ended"}))
        /\ q # <<>> /\ Final(q) = "pause"
    BY <1>2, <2>2, Tells DEF Sound
  <2>4. PICK p : p = IF s.promised THEN Append(q, "rejected") ELSE q
    OBVIOUS
  <2>5. /\ p \in Seq(Media!Event) /\ (~s.timed => p \in Seq(Media!Event \ {"ended"}))
        /\ p # <<>> /\ Final(p) \in {"pause", "rejected"}
    BY <2>3, <2>4, EventsAre, Told
  <2>6. PICK t : t = Media!Interrupted(s)
    OBVIOUS
  <2>7. slot' = [slot EXCEPT ![r] = t]
    BY <1>2, <1>5, <2>6 DEF Media!PauseNative
  <2>10. t = [s EXCEPT !.paused = TRUE, !.begun = FALSE, !.promised = FALSE, !.events = p]
    <3>1. Media!Stopped(s) = [s EXCEPT !.paused = TRUE, !.begun = FALSE, !.events = q]
      BY <2>1, <2>2 DEF Media!Stopped
    <3> QED BY <1>2, <2>4, <2>6, <3>1 DEF Media!Interrupted, Media!Slot
  <2>8. /\ t \in Media!Slot /\ t.paused /\ ~t.begun /\ t.events = p /\ ~t.disposed
        /\ t.timed = s.timed /\ t.resumed = s.resumed /\ t.phase = s.phase
        /\ t.place = s.place
    BY <1>2, <2>5, <2>10 DEF Media!Slot
  <2>9. Sound(t)
    BY <1>2, <2>5, <2>8 DEF Sound, Media!Sounding
  <2> QED BY <1>1, <1>2, <2>5, <2>7, <2>8, <2>9, ElementKeeps
<1>6. CASE Media!Plays(r)
  <2>1. s.timed /\ Media!Sounding(s)
    BY <1>2, <1>6 DEF Media!Plays
  <2>2. PICK q : q = Append(s.events, "playing")
    OBVIOUS
  <2>3. q \in Seq(Media!Event) /\ q # <<>> /\ Final(q) = "playing"
    BY <1>2, <2>2, Tells DEF Sound
  <2>4. PICK t : t = Media!Audible(s)
    OBVIOUS
  <2>5. slot' = [slot EXCEPT ![r] = t]
    BY <1>2, <1>6, <2>4 DEF Media!Plays
  <2>6. /\ t \in Media!Slot /\ t.paused = s.paused /\ t.failed = s.failed
        /\ t.events = q /\ ~t.disposed /\ t.timed = s.timed /\ t.resumed = s.resumed
        /\ t.phase = s.phase
    BY <1>2, <2>2, <2>3, <2>4 DEF Media!Audible, Media!Slot
  <2>7. Sound(t)
    BY <2>1, <2>3, <2>6 DEF Sound, Media!Sounding
  <2> QED BY <1>1, <1>2, <2>3, <2>5, <2>6, <2>7, ElementKeeps
<1> QED BY <1>4, <1>5, <1>6

LEMMA ElementEndsKeep ==
  ASSUME Media!PlayerAssumption, PlayerInv, NEW r \in Recording,
         Media!Ends(r) \/ Media!Breaks(r)
  PROVE  PlayerInv' /\ PlaceStep
<1>1. Media!Usable(r) /\ PageTypes' /\ UNCHANGED <<playing, resume>>
  BY DEF Media!Ends, Media!Breaks, Media!pageVars, PlayerInv, PageTypes
<1>2. PICK s \in Media!Slot : s = slot[r] /\ Sound(s) /\ ~s.disposed
  BY <1>1, UsableIs
<1>3. slot \in [Recording -> Media!Slot] /\ s.events \in Seq(Media!Event)
  BY <1>2, SlotIs DEF PlayerInv
<1>4. CASE Media!Ends(r)
  <2>1. PICK q : q = <<"pause", "ended">>
    OBVIOUS
  <2>2. q \in Seq(Media!Event) /\ q # <<>> /\ Final(q) = "ended" /\ s.timed
    BY <1>2, <1>4, <2>1 DEF Media!Ends, Media!Event, Final, Sound
  <2>3. PICK t : t = [s EXCEPT !.place = Media!End, !.paused = TRUE, !.begun = FALSE,
                               !.events = q]
    OBVIOUS
  <2>4. slot' = [slot EXCEPT ![r] = t]
    BY <1>2, <1>3, <1>4, <2>1, <2>3 DEF Media!Ends
  <2>5. Media!End \in Media!Start..Media!End
    BY DEF Media!Start, Media!End
  <2>6. /\ t \in Media!Slot /\ t.paused = TRUE /\ t.begun = FALSE
        /\ t.events = q /\ ~t.disposed /\ t.timed = s.timed /\ t.resumed = s.resumed
        /\ t.phase = s.phase
    BY <1>2, <2>2, <2>3, <2>5 DEF Media!Slot
  <2>7. Sound(t)
    BY <2>2, <2>6 DEF Sound, Media!Sounding
  <2> QED BY <1>1, <1>2, <2>2, <2>4, <2>6, <2>7, ElementKeeps
<1>5. CASE Media!Breaks(r)
  <2>1. PICK q : q = s.events \o IF s.promised THEN <<"error", "rejected">>
                                 ELSE <<"error">>
    OBVIOUS
  <2>2. /\ q \in Seq(Media!Event) /\ (~s.timed => q \in Seq(Media!Event \ {"ended"}))
        /\ q # <<>> /\ Final(q) \in {"error", "rejected"}
    <3>1. ASSUME NEW Q, {"error", "rejected"} \subseteq Q, s.events \in Seq(Q)
          PROVE  q \in Seq(Q) /\ q # <<>> /\ Final(q) \in {"error", "rejected"}
      BY <2>1, <3>1, Joined
    <3>2. /\ {"error", "rejected"} \subseteq Media!Event
          /\ {"error", "rejected"} \subseteq Media!Event \ {"ended"}
      BY EventsAre
    <3>3. ~s.timed => s.events \in Seq(Media!Event \ {"ended"})
      BY <1>2 DEF Sound
    <3> QED BY <1>3, <3>1, <3>2, <3>3
  <2>3. PICK t : t = Media!Broken(s)
    OBVIOUS
  <2>4. slot' = [slot EXCEPT ![r] = t]
    BY <1>2, <1>5, <2>3 DEF Media!Breaks
  <2>5. /\ t \in Media!Slot /\ t.failed = TRUE /\ t.begun = FALSE
        /\ t.events = q /\ ~t.disposed /\ t.timed = s.timed /\ t.resumed = s.resumed
        /\ t.phase = s.phase /\ t.place = s.place
    BY <1>2, <2>1, <2>2, <2>3 DEF Media!Broken, Media!Slot
  <2>6. Sound(t)
    BY <1>2, <2>2, <2>5 DEF Sound, Media!Sounding
  <2> QED BY <1>1, <1>2, <2>2, <2>4, <2>5, <2>6, ElementKeeps
<1> QED BY <1>4, <1>5

\* What a slot is told, or sees of its element, goes through `accept`.
LEMMA TellingKeeps ==
  ASSUME Media!PlayerAssumption, PlayerInv, NEW r \in Recording,
         Media!Loads(r) \/ Media!Advances(r) \/ Media!Hear(r)
  PROVE  PlayerInv' /\ PlaceStep
<1>1. Media!Usable(r) /\ PageTypes'
  BY DEF Media!Loads, Media!Advances, Media!Hear, Media!pageVars, PlayerInv, PageTypes
<1>2. PICK s \in Media!Slot : s = slot[r] /\ Sound(s) /\ ~s.disposed
  BY <1>1, UsableIs
<1>3. s.events \in Seq(Media!Event)
  BY <1>2, SlotIs
<1>4. CASE Media!Loads(r)
  <2>1. PICK t : t = [s EXCEPT !.timed = TRUE]
    OBVIOUS
  <2>2. Media!Accept(r, t)
    BY <1>2, <1>4, <2>1 DEF Media!Loads
  <2>3. /\ t \in Media!Slot /\ t.timed /\ t.paused = s.paused /\ t.failed = s.failed
        /\ t.begun = s.begun /\ t.events = s.events /\ ~t.disposed
        /\ t.resumed = s.resumed /\ t.phase = s.phase /\ t.place = s.place
    BY <1>2, <2>1 DEF Media!Slot
  <2>4. Sound(t)
    BY <1>2, <2>3 DEF Sound, Media!Sounding
  <2> QED BY <1>1, <1>2, <2>2, <2>3, <2>4, AcceptKeeps
<1>5. CASE Media!Advances(r)
  <2>1. PICK t : t = [s EXCEPT !.place = Media!Underway]
    OBVIOUS
  <2>2. Media!Accept(r, t) /\ s.begun
    BY <1>2, <1>5, <2>1 DEF Media!Advances
  <2>3. /\ t \in Media!Slot /\ t.timed = s.timed /\ t.paused = s.paused
        /\ t.failed = s.failed /\ t.begun = s.begun /\ t.events = s.events
        /\ ~t.disposed /\ t.resumed = s.resumed /\ t.phase = s.phase
        /\ t.place = Media!Underway
    <3>1. Media!Underway \in Media!Start..Media!End
      BY DEF Media!Start, Media!Underway, Media!End
    <3> QED BY <1>2, <2>1, <3>1 DEF Media!Slot
  <2>4. Sound(t)
    BY <1>2, <2>2, <2>3 DEF Sound, Media!Sounding
  <2> QED BY <1>1, <1>2, <2>2, <2>3, <2>4, Places, AcceptKeeps
<1>6. CASE Media!Hear(r)
  <2>1. PICK e, q : e = Head(s.events) /\ q = Tail(s.events)
    OBVIOUS
  <2>2. s.events # <<>>
    BY <1>2, <1>6 DEF Media!Hear
  <2>3. /\ e \in Media!Event /\ q \in Seq(Media!Event)
        /\ ~s.timed => e \in Media!Event \ {"ended"} /\ q \in Seq(Media!Event \ {"ended"})
        /\ q = <<>> => Final(s.events) = e
        /\ q # <<>> => Final(q) = Final(s.events)
    BY <1>2, <1>3, <2>1, <2>2, Queues DEF Sound
  <2>4. PICK p : p = Media!Heard(e, [s EXCEPT !.events = q])
    OBVIOUS
  <2>5. /\ p \in Media!Phase /\ p # "idle"
        /\ p \in {"loading", "playing"} <=> e \in {"play", "playing"}
        /\ p = "ended" => s.timed
    <3>1. [s EXCEPT !.events = q].place = s.place
      BY <1>2 DEF Media!Slot
    <3>2. CASE e = "pause"
      <4>1. p = IF s.place = Media!End THEN "ended" ELSE "paused"
        BY <2>4, <3>1, <3>2 DEF Media!Heard
      <4>2. s.place = Media!End => s.timed
        BY <1>2 DEF Sound, Media!Start, Media!End
      <4> QED BY <3>2, <4>1, <4>2 DEF Media!Phase
    <3>3. CASE e # "pause"
      <4>1. p = Media!PhaseAfter[e]
        BY <2>4, <3>3 DEF Media!Heard
      <4>2. e \in {"play", "playing", "ended", "error", "rejected"}
        BY <2>3, <3>3 DEF Media!Event
      <4>3. /\ Media!PhaseAfter["play"] = "loading"
            /\ Media!PhaseAfter["playing"] = "playing"
            /\ Media!PhaseAfter["ended"] = "ended"
            /\ Media!PhaseAfter["error"] = "error"
            /\ Media!PhaseAfter["rejected"] = "error"
        BY DEF Media!PhaseAfter
      <4> QED BY <2>3, <4>1, <4>2, <4>3 DEF Media!Phase
    <3> QED BY <3>2, <3>3
  <2>6. PICK t : t = [[s EXCEPT !.events = q] EXCEPT !.phase = p]
    OBVIOUS
  <2>7. Media!Accept(r, t)
    BY <1>2, <1>6, <2>1, <2>4, <2>6 DEF Media!Hear
  <2>8. /\ t \in Media!Slot /\ t.timed = s.timed /\ t.paused = s.paused
        /\ t.failed = s.failed /\ t.begun = s.begun /\ t.events = q
        /\ ~t.disposed /\ t.resumed = s.resumed /\ t.phase = p
        /\ t.place = s.place
    BY <1>2, <2>3, <2>5, <2>6 DEF Media!Slot
  <2>9. Sound(t)
    BY <1>2, <2>2, <2>3, <2>5, <2>8 DEF Sound, Media!Sounding
  <2> QED BY <1>1, <1>2, <2>5, <2>7, <2>8, <2>9, AcceptKeeps
<1> QED BY <1>4, <1>5, <1>6

\* Pages come and go around what is in play.
LEMMA HomeSounds ==
  ASSUME NEW s, Sound(s), NEW b \in BOOLEAN
  PROVE  /\ Sound([s EXCEPT !.home = b])
         /\ [s EXCEPT !.home = b].timed = s.timed
         /\ [s EXCEPT !.home = b].resumed = s.resumed
         /\ [s EXCEPT !.home = b].phase = s.phase
         /\ [s EXCEPT !.home = b].disposed = s.disposed
         /\ [s EXCEPT !.home = b].place = s.place
         /\ [s EXCEPT !.home = b].home = b
<1>1. PICK t : t = [s EXCEPT !.home = b]
  OBVIOUS
<1>2. s \in Media!Slot
  BY DEF Sound
<1>3. /\ t \in Media!Slot /\ t.timed = s.timed /\ t.paused = s.paused
      /\ t.failed = s.failed /\ t.begun = s.begun /\ t.events = s.events
      /\ t.disposed = s.disposed /\ t.resumed = s.resumed /\ t.phase = s.phase
      /\ t.place = s.place /\ t.home = b
  BY <1>1, <1>2 DEF Media!Slot
<1>4. Sound(t)
  BY <1>3 DEF Sound, Media!Sounding
<1> QED BY <1>1, <1>3, <1>4

\* A page that leaves, and one whose cards are enhanced: what is in play only
\* loses or finds its card, and what is not is silent or as it was.
LEMMA PageStays ==
  ASSUME Media!PlayerAssumption, PlayerInv, Media!Leave \/ Media!Mount
  PROVE  /\ PageTypes' /\ playing' = playing /\ resume' = resume
         /\ slot' \in [Recording -> Media!Slot]
         /\ \A q \in Recording :
              \/ /\ q # playing /\ Sound(slot'[q]) /\ slot'[q].paused
                 /\ slot'[q].place = Media!Start
              \/ \E b \in BOOLEAN : slot'[q] = [slot[q] EXCEPT !.home = b]
<1>1. \A q \in Recording : Sound(slot[q]) /\ slot[q] \in Media!Slot
  BY DEF PlayerInv, Sound
<1>2. \A q \in Recording, b \in BOOLEAN : [slot[q] EXCEPT !.home = b] \in Media!Slot
  <2> SUFFICES ASSUME NEW q \in Recording, NEW b \in BOOLEAN
               PROVE  [slot[q] EXCEPT !.home = b] \in Media!Slot
    OBVIOUS
  <2>1. Sound([slot[q] EXCEPT !.home = b])
    BY <1>1, HomeSounds
  <2> QED BY <2>1 DEF Sound
<1>3. CASE Media!Leave
  <2>1. PICK none : none = Media!None
    OBVIOUS
  <2>2. Sound(none) /\ none.paused /\ none \in Media!Slot /\ none.place = Media!Start
    <3>1. Sound(none) /\ none.paused
      BY <2>1, NoneSounds
    <3>2. none.place = Media!Start
      BY <2>1 DEF Media!None, Media!Released, Media!Fresh
    <3> QED BY <3>1, <3>2 DEF Sound
  <2>3. /\ slot' = [q \in Recording |-> IF q # playing THEN none
                                        ELSE [slot[q] EXCEPT !.home = FALSE]]
        /\ playing' = playing /\ resume' = resume /\ PageTypes'
    BY <1>3, <2>1 DEF Media!Leave, Media!EndsWithPage, PlayerInv, PageTypes
  <2> QED BY <1>2, <2>2, <2>3
<1>4. CASE Media!Mount
  <2>1. PICK archived \in SUBSET Media!Makes :
          slot' = [q \in Recording |->
            IF q \in Media!Makes THEN Media!Fresh(FALSE, q \in archived)
            ELSE IF q \in article THEN [slot[q] EXCEPT !.home = TRUE] ELSE slot[q]]
    BY <1>4 DEF Media!Mount
  <2>2. playing' = playing /\ resume' = resume /\ PageTypes'
    BY <1>4 DEF Media!Mount, Media!Makes, PlayerInv, PageTypes
  <2>3. \A q \in Recording :
          LET f == Media!Fresh(FALSE, q \in archived)
          IN  Sound(f) /\ f.paused /\ f.place = Media!Start /\ f \in Media!Slot
    <3> SUFFICES ASSUME NEW q \in Recording
                 PROVE  LET f == Media!Fresh(FALSE, q \in archived)
                        IN  /\ Sound(f) /\ f.paused /\ f.place = Media!Start
                            /\ f \in Media!Slot
      OBVIOUS
    <3> DEFINE known == q \in archived
    <3>1. PICK b \in BOOLEAN : b = known
      <4>1. known \in BOOLEAN
        OBVIOUS
      <4> HIDE DEF known
      <4> QED BY Zenon, <4>1
    <3>2. Sound(Media!Fresh(FALSE, b))
      BY FreshSounds
    <3>3. Media!Fresh(FALSE, b).paused /\ Media!Fresh(FALSE, b).place = Media!Start
      BY DEF Media!Fresh
    <3> QED BY <3>1, <3>2, <3>3 DEF Sound
  <2>4. \A q \in Recording : \E b \in BOOLEAN : slot[q] = [slot[q] EXCEPT !.home = b]
    <3> SUFFICES ASSUME NEW q \in Recording
                 PROVE  \E b \in BOOLEAN : slot[q] = [slot[q] EXCEPT !.home = b]
      OBVIOUS
    <3>1. slot[q].home \in BOOLEAN
      BY <1>1, SlotIs
    <3>2. slot[q] = [slot[q] EXCEPT !.home = slot[q].home]
      BY <1>1 DEF Media!Slot
    <3> QED BY <3>1, <3>2
  <2>5. \A q \in Media!Makes : q # playing
    BY DEF Media!Makes
  <2> HIDE DEF Media!Makes
  <2>6. slot' \in [Recording -> Media!Slot]
    BY <1>1, <1>2, <2>1, <2>3
  <2> QED BY <2>1, <2>2, <2>3, <2>4, <2>5, <2>6
<1> QED BY <1>3, <1>4

LEMMA PageKeeps ==
  ASSUME Media!PlayerAssumption, PlayerInv, Media!Leave \/ Media!Mount
  PROVE  PlayerInv' /\ PlaceStep
<1>1. /\ PageTypes' /\ playing' = playing /\ resume' = resume
      /\ slot' \in [Recording -> Media!Slot]
      /\ \A q \in Recording :
           \/ /\ q # playing /\ Sound(slot'[q]) /\ slot'[q].paused
              /\ slot'[q].place = Media!Start
           \/ \E b \in BOOLEAN : slot'[q] = [slot[q] EXCEPT !.home = b]
  BY PageStays
<1>2. \A q \in Recording, b \in BOOLEAN :
        LET t == [slot[q] EXCEPT !.home = b]
        IN  /\ Sound(t) /\ t.timed = slot[q].timed /\ t.resumed = slot[q].resumed
            /\ t.phase = slot[q].phase /\ t.disposed = slot[q].disposed
            /\ t.place = slot[q].place /\ t.events = slot[q].events
            /\ Media!Sounding(t) <=> Media!Sounding(slot[q])
  <2> SUFFICES ASSUME NEW q \in Recording, NEW b \in BOOLEAN, NEW t,
                      t = [slot[q] EXCEPT !.home = b]
               PROVE  /\ Sound(t) /\ t.timed = slot[q].timed
                      /\ t.resumed = slot[q].resumed
                      /\ t.phase = slot[q].phase /\ t.disposed = slot[q].disposed
                      /\ t.place = slot[q].place /\ t.events = slot[q].events
                      /\ Media!Sounding(t) <=> Media!Sounding(slot[q])
    OBVIOUS
  <2>1. Sound(slot[q]) /\ slot[q] \in Media!Slot
    BY DEF PlayerInv, Sound
  <2>2. /\ Sound(t) /\ t.timed = slot[q].timed /\ t.resumed = slot[q].resumed
        /\ t.phase = slot[q].phase /\ t.disposed = slot[q].disposed
        /\ t.place = slot[q].place
    BY <2>1, HomeSounds
  <2>3. t.events = slot[q].events /\ t.paused = slot[q].paused
        /\ t.failed = slot[q].failed
    BY <2>1 DEF Media!Slot
  <2> QED BY <2>2, <2>3 DEF Media!Sounding
<1>3. ASSUME NEW q \in Recording
      PROVE  /\ Sound(slot'[q])
             /\ slot'[q].disposed => q = playing \/ slot'[q].place = Media!Start
             /\ Media!Sounding(slot'[q]) /\ slot'[q].events = <<>> => playing = q
             /\ q = playing => /\ slot'[q].timed = slot[q].timed
                               /\ slot'[q].resumed = slot[q].resumed
                               /\ slot'[q].phase = slot[q].phase
                               /\ slot'[q].disposed = slot[q].disposed
                               /\ slot'[q].place = slot[q].place
  <2>1. CASE /\ q # playing /\ Sound(slot'[q]) /\ slot'[q].paused
             /\ slot'[q].place = Media!Start
    BY <2>1 DEF Media!Sounding
  <2>2. CASE \E b \in BOOLEAN : slot'[q] = [slot[q] EXCEPT !.home = b]
    <3>1. /\ Sound(slot'[q]) /\ slot'[q].timed = slot[q].timed
          /\ slot'[q].resumed = slot[q].resumed
          /\ slot'[q].phase = slot[q].phase /\ slot'[q].disposed = slot[q].disposed
          /\ slot'[q].place = slot[q].place /\ slot'[q].events = slot[q].events
          /\ Media!Sounding(slot'[q]) <=> Media!Sounding(slot[q])
      BY <1>2, <2>2
    <3>2. slot[q].disposed => q = playing \/ slot[q].place = Media!Start
      BY DEF PlayerInv
    <3>3. Media!Sounding(slot[q]) /\ slot[q].events = <<>> => playing = q
      BY DEF PlayerInv, Media!OneRecording
    <3> QED BY <3>1, <3>2, <3>3
  <2> QED BY <1>1, <2>1, <2>2
<1>4. Media!OneRecording'
  BY <1>1, <1>3 DEF Media!OneRecording
<1>5. InPlay'
  <2>1. playing # Quiet =>
          /\ playing \in Recording
          /\ slot[playing].timed => slot[playing].resumed
          /\ slot[playing].phase = "idle" =>
               /\ slot[playing].disposed
               /\ slot[playing].place = Media!Underway => resume[playing] = Media!Underway
    BY PlayingIs
  <2> QED BY <1>1, <1>3, <2>1 DEF InPlay
<1>6. PlayerInv'
  BY <1>1, <1>3, <1>4, <1>5, Places DEF PlayerInv, PageTypes
<1>7. PlaceStep
  BY <1>1, Places DEF PlaceStep
<1> QED BY <1>6, <1>7

\* A recording that native controls started meanwhile is promoted.
LEMMA MountStartedKeeps ==
  ASSUME Media!PlayerAssumption, PlayerInv, NEW r \in Recording, Media!MountStarted(r)
  PROVE  PlayerInv' /\ PlaceStep
<1>1. /\ PageTypes' /\ r # playing /\ playing' = r /\ r # Quiet
      /\ resume' = Media!PlaceAtRetirement
  BY DEF Media!MountStarted, Media!Gesture, Media!Makes, Media!PlayerAssumption,
         PlayerInv, PageTypes
<1>2. PICK none : none = Media!Fresh(FALSE, TRUE)
  OBVIOUS
<1>3. Sound(none) /\ none.paused /\ none.place = Media!Start /\ ~none.disposed
  <2>1. Sound(Media!Fresh(FALSE, TRUE))
    BY FreshSounds
  <2> QED BY <1>2, <2>1 DEF Media!Fresh
<1>4. PICK s : s = Media!Fresh(TRUE, TRUE)
  OBVIOUS
<1>5. Sound(s) /\ s.phase = "playing" /\ ~s.disposed /\ s.timed
  <2>1. Sound(Media!Fresh(TRUE, TRUE))
    BY FreshSounds
  <2> QED BY <1>4, <2>1 DEF Media!Fresh
<1>6. PICK t : t = Media!Resumed(r, s)
  OBVIOUS
<1>7. Sound(t) /\ t.phase = "playing" /\ ~t.disposed /\ (t.timed => t.resumed)
  BY <1>5, <1>6, ResumedSounds
<1>8. slot' = [q \in Recording |->
                 IF q = r THEN t ELSE IF q \in own' THEN none
                 ELSE IF q = playing THEN Media!Released(slot[q]) ELSE slot[q]]
  BY <1>2, <1>4, <1>6 DEF Media!MountStarted
<1>9. \A q \in Recording :
        /\ Sound(slot[q])
        /\ slot[q].disposed => q = playing \/ slot[q].place = Media!Start
  BY DEF PlayerInv
<1>10. \A q \in Recording :
         /\ Sound(Media!Released(slot[q])) /\ Media!Released(slot[q]).paused
         /\ Media!Released(slot[q]).place = Media!Start
  BY <1>9, ReleasedSounds
<1>11. \A q \in Recording :
         /\ Sound(slot'[q])
         /\ slot'[q].disposed => q = r \/ slot'[q].place = Media!Start
         /\ q = r \/ slot'[q].paused \/ (q # playing /\ slot'[q] = slot[q])
  <2> SUFFICES ASSUME NEW q \in Recording
               PROVE  /\ Sound(slot'[q])
                      /\ slot'[q].disposed => q = r \/ slot'[q].place = Media!Start
                      /\ \/ q = r \/ slot'[q].paused
                         \/ q # playing /\ slot'[q] = slot[q]
    OBVIOUS
  <2>1. CASE q = r
    BY <1>7, <1>8, <2>1
  <2>2. CASE q # r /\ q \in own'
    BY <1>3, <1>8, <2>2
  <2>3. CASE q # r /\ q \notin own'
    BY <1>8, <1>9, <1>10, <2>3
  <2> QED BY <2>1, <2>2, <2>3
<1>12. slot' \in [Recording -> Media!Slot]
  <2>1. \A q \in Recording : slot'[q] \in Media!Slot
    BY <1>11 DEF Sound
  <2> QED BY <1>8, <2>1
<1>13. resume' \in [Recording -> 0..2]
  BY <1>1, Remembering
<1>14. resume'[r] = resume[r]
  BY <1>1 DEF Media!PlaceAtRetirement
<1> QED BY <1>1, <1>7, <1>8, <1>11, <1>12, <1>13, <1>14, RetiredKeeps

LEMMA PlayerBegins ==
  ASSUME Media!PlayerAssumption, Media!Init
  PROVE  PlayerInv
<1>1. PICK none : none = Media!None
  OBVIOUS
<1>2. Sound(none) /\ none.paused /\ none \in Media!Slot /\ none.place = Media!Start
  <2>1. Sound(none) /\ none.paused
    BY <1>1, NoneSounds
  <2>2. none.place = Media!Start
    BY <1>1 DEF Media!None, Media!Released, Media!Fresh
  <2> QED BY <2>1, <2>2 DEF Sound
<1>3. /\ article \subseteq Recording /\ mounted = FALSE /\ own = {}
      /\ slot = [r \in Recording |-> none] /\ playing = Quiet /\ gestures = 0
      /\ resume = [r \in Recording |-> Media!Start]
  BY <1>1 DEF Media!Init
<1>4. Media!Start \in Media!Start..Media!End
  BY DEF Media!Start, Media!End
<1> QED
  BY <1>2, <1>3, <1>4
  DEF PlayerInv, InPlay, Media!OneRecording, Media!Sounding

LEMMA PlayerKeeps ==
  ASSUME Media!PlayerAssumption, PlayerInv, [Media!Next]_mediaVars
  PROVE  PlayerInv' /\ PlaceStep
<1>1. CASE UNCHANGED mediaVars
  <2>1. PlayerInv'
    BY <1>1 DEF mediaVars, PlayerInv, InPlay, Media!OneRecording
  <2>2. PlaceStep
    BY <1>1, Places DEF mediaVars, PlaceStep
  <2> QED BY <2>1, <2>2
<1> QED
  BY Zenon, <1>1, PressBarKeeps, DismissKeeps, PageKeeps, PressKeeps, NativeKeeps,
     TellingKeeps, ElementEndsKeep, MountStartedKeeps
  DEF Media!Next

\* What is in play is left as it is by a page that leaves, and by one that is
\* enhanced of its own (the step of Media!StartedKeepsPlaying).
LEMMA StartedStays ==
  ASSUME Media!PlayerAssumption, PlayerInv, [Media!Next]_mediaVars,
         visits' # visits \/ (mounted' # mounted /\ gestures' = gestures)
  PROVE  /\ playing' = playing
         /\ playing # Quiet =>
              slot'[playing] = [slot[playing] EXCEPT !.home = slot'[playing].home]
<1>1. gestures + 1 # gestures
  BY DEF PlayerInv
<1>2. ASSUME Media!Next PROVE Media!Leave \/ Media!Mount
  <2>1. ASSUME UNCHANGED Media!pageVars PROVE FALSE
    BY <2>1 DEF Media!pageVars
  <2>2. ASSUME NEW r \in Recording, Media!MountStarted(r) PROVE FALSE
    BY <1>1, <2>2 DEF Media!MountStarted, Media!Gesture
  <2>3. ASSUME Media!PressBar \/ Media!Dismiss PROVE UNCHANGED Media!pageVars
    BY <2>3 DEF Media!PressBar, Media!Dismiss
  <2>4. ASSUME NEW r \in Recording,
               \/ Media!Press(r) \/ Media!PressNative(r) \/ Media!PauseNative(r)
               \/ Media!Loads(r) \/ Media!Plays(r) \/ Media!Advances(r)
               \/ Media!Ends(r) \/ Media!Breaks(r) \/ Media!Hear(r)
        PROVE  UNCHANGED Media!pageVars
    BY <2>4 DEF Media!Press, Media!PressNative, Media!PauseNative, Media!Loads,
                Media!Plays, Media!Advances, Media!Ends, Media!Breaks, Media!Hear
  <2> QED BY Zenon, <1>2, <2>1, <2>2, <2>3, <2>4 DEF Media!Next
<1>3. ~UNCHANGED mediaVars
  BY DEF mediaVars
<1>4. /\ playing' = playing
      /\ \A q \in Recording :
           q = playing => \E b \in BOOLEAN : slot'[q] = [slot[q] EXCEPT !.home = b]
  BY <1>2, <1>3, PageStays
<1>5. ASSUME playing # Quiet
      PROVE  slot'[playing] = [slot[playing] EXCEPT !.home = slot'[playing].home]
  <2>1. playing \in Recording
    BY <1>5 DEF PlayerInv
  <2>2. PICK b \in BOOLEAN : slot'[playing] = [slot[playing] EXCEPT !.home = b]
    BY <1>4, <2>1
  <2>3. slot[playing] \in Media!Slot
    BY <2>1 DEF PlayerInv
  <2>4. slot'[playing].home = b
    BY <2>2, <2>3 DEF Media!Slot
  <2> QED BY <2>2, <2>4
<1> QED BY <1>4, <1>5

LEMMA PlayerHolds == MCSpec => []PlayerInv
<1>1. Media!PlayerAssumption
  BY ReaderAssumption
<1>2. MCInit => PlayerInv
  BY <1>1, ReaderBegins, PlayerBegins
<1>3. PlayerInv /\ [MCNext]_mcVars => PlayerInv'
  BY <1>1, ReaderMoves, PlayerKeeps
<1> QED BY <1>2, <1>3, PTL DEF MCSpec

\* One recording sounds at a time, the one the bar shows, and a player whose
\* events have arrived shows what its element does, for any recordings, visits,
\* gestures and faults (src/web/src/media/now-playing.ts, audio.ts, visual.ts).
THEOREM OnePlayerSounds == MCSpec => []PlayerTruthful
<1>1. ASSUME PlayerInv PROVE Media!OneRecording /\ Media!PhaseTruthful
  <2>1. Media!PhaseTruthful
    BY <1>1 DEF PlayerInv, Sound, Media!PhaseTruthful, Media!Usable
  <2> QED BY <1>1, <2>1 DEF PlayerInv
<1> QED BY <1>1, PlayerHolds, PTL DEF PlayerTruthful

\* What is in play plays on as pages come and go, and a place reached is lost
\* only by a replay from the start, or when playing is given up before the
\* length is known (src/web/src/media/now-playing.ts `retire`, `remember`).
THEOREM PlaybackStays == MCSpec => PlaybackKept
<1> DEFINE Stays == visits' # visits \/ (mounted' # mounted /\ gestures' = gestures) =>
             /\ playing' = playing
             /\ playing # Quiet =>
                  slot'[playing] = [slot[playing] EXCEPT !.home = slot'[playing].home]
           Kept ==
             /\ \A r \in Recording :
                  resume[r] = Media!Underway /\ resume'[r] = Media!Start =>
                    /\ slot[r].place = Media!Start
                    /\ \/ slot[r].resumed
                       \/ /\ ~slot[r].timed
                          /\ slot'[r].phase = "paused" \/ playing' # r
             /\ playing # Quiet =>
                  LET stopped == playing' # playing
                                 /\ (playing' = Quiet => slot'[playing].disposed)
                  IN  stopped /\ slot[playing].place = Media!Underway =>
                        resume'[playing] = Media!Underway
<1>1. Media!PlayerAssumption
  BY ReaderAssumption
<1>2. ASSUME PlayerInv, [MCNext]_mcVars PROVE Stays
  BY <1>1, <1>2, ReaderMoves, StartedStays
<1>3. ASSUME PlayerInv, [MCNext]_mcVars PROVE Kept
  <2>1. PlaceStep
    BY <1>1, <1>3, ReaderMoves, PlayerKeeps
  <2> QED BY <2>1 DEF PlaceStep
<1>4. PlayerInv /\ [MCNext]_mcVars => [Stays]_(Media!playerVars)
                                      /\ [Kept]_(Media!playerVars)
  BY <1>2, <1>3
<1> QED BY <1>4, PlayerHolds, PTL
    DEF MCSpec, PlaybackKept, Media!StartedKeepsPlaying, Media!PlaceKept

-----------------------------------------------------------------------------
(* The types and the limits of every part.                                 *)

LEMMA SearchCardinality == \A S : Search!Cardinality(S) = Cardinality(S)
BY Zenon DEF Search!Cardinality, Cardinality

LEMMA FeedCardinality == \A S : Feed!Cardinality(S) = Cardinality(S)
BY Zenon DEF Feed!Cardinality, Cardinality

LEMMA BoxCardinality == \A S : Box!Cardinality(S) = Cardinality(S)
BY Zenon DEF Box!Cardinality, Cardinality

LEMMA AtMostOne ==
  ASSUME NEW S, \A x, y \in S : x = y
  PROVE  Cardinality(S) <= 1
<1>1. CASE S = {}
  BY <1>1, FS_EmptySet
<1>2. CASE S # {}
  <2>1. PICK x \in S : S = {x}
    BY <1>2
  <2>2. Cardinality({x}) = 1
    BY FS_Singleton
  <2> QED BY <2>1, <2>2
<1> QED BY <1>1, <1>2

\* Two files at a time.
SearchLoads == IsFiniteSet(loading) /\ Cardinality(loading) <= Search!AtATime

\* Files are only taken up one by one.
LEMMA LoadingMoves ==
  ASSUME [Search!Next]_searchVars
  PROVE  loading' \subseteq loading \/ \E f \in File : Search!TakeFile(f)
<1> USE DEF Search!Go, Search!taskVars
<1>1. CASE UNCHANGED searchVars
  BY <1>1 DEF searchVars
<1>2. ASSUME Search!End PROVE loading' \subseteq loading
  BY <1>2 DEF Search!End
<1>3. ASSUME NEW reason, Search!GiveUp(reason) PROVE loading' \subseteq loading
  BY <1>2, <1>3 DEF Search!GiveUp
<1>4. ASSUME NEW f \in File, Search!SaveFile(f) PROVE loading' \subseteq loading
  BY <1>4 DEF Search!SaveFile
<1>5. CASE Search!StartTask \/ Search!ReadManifest \/ Search!CheckManifest
           \/ Search!PruneBefore
  BY <1>2, <1>5
  DEF Search!StartTask, Search!ReadManifest, Search!CheckManifest, Search!PruneBefore
<1>6. CASE Search!FetchListing \/ Search!FilesDone \/ Search!VerifyIndex
           \/ Search!CommitIndex
  BY <1>2, <1>3, <1>6
  DEF Search!FetchListing, Search!FilesDone, Search!VerifyIndex, Search!CommitIndex
<1>7. CASE Search!TrimIndex \/ Search!DropBlocked \/ Search!ClearIndexes
           \/ Search!ForgetManifest
  BY <1>2, <1>7
  DEF Search!TrimIndex, Search!DropBlocked, Search!ClearIndexes, Search!ForgetManifest
<1>8. CASE Search!ReadStatus \/ Search!RestoreStatus
  BY <1>8 DEF Search!ReadStatus, Search!RestoreStatus
<1>9. ASSUME Search!Restart PROVE loading' \subseteq loading
  BY <1>2, <1>9 DEF Search!Restart
<1>10. ASSUME NEW want \in {"on", "off"}, Search!Configure(want)
       PROVE  loading' \subseteq loading
  BY <1>10 DEF Search!Configure
<1>11. ASSUME NEW v \in Search!Version, NEW f \in File, Search!Evict(v, f)
       PROVE  loading' \subseteq loading
  BY <1>11 DEF Search!Evict
<1> QED
  BY Zenon, <1>1, <1>4, <1>5, <1>6, <1>7, <1>8, <1>9, <1>10, <1>11
  DEF Search!Next, Search!Task

LEMMA SearchLoadsHold == MCSpec => []SearchLoads
<1>1. MCInit => SearchLoads
  <2> SUFFICES ASSUME MCInit PROVE SearchLoads
    OBVIOUS
  <2>1. loading = {}
    BY ReaderBegins DEF Search!Init, Search!NoTask
  <2> QED BY <2>1, FS_EmptySet DEF SearchLoads, Search!AtATime
<1>2. SearchLoads /\ [MCNext]_mcVars => SearchLoads'
  <2> SUFFICES ASSUME SearchLoads, [MCNext]_mcVars PROVE SearchLoads'
    OBVIOUS
  <2>1. loading' \subseteq loading \/ \E f \in File : Search!TakeFile(f)
    BY ReaderMoves, LoadingMoves
  <2>2. IsFiniteSet(loading) /\ Cardinality(loading) \in Nat
        /\ Cardinality(loading) <= 2
    BY FS_CardinalityType DEF SearchLoads, Search!AtATime
  <2>3. CASE loading' \subseteq loading
    <3>1. IsFiniteSet(loading') /\ Cardinality(loading') <= Cardinality(loading)
      BY <2>2, <2>3, FS_Subset
    <3>2. Cardinality(loading') \in Nat
      BY <3>1, FS_CardinalityType
    <3> QED BY <2>2, <3>1, <3>2 DEF SearchLoads, Search!AtATime
  <2>4. ASSUME NEW f \in File, Search!TakeFile(f) PROVE SearchLoads'
    <3>1. loading' = loading \cup {f} /\ Cardinality(loading) < 2
      BY <2>4, SearchCardinality DEF Search!TakeFile, Search!AtATime
    <3>2. /\ IsFiniteSet(loading \cup {f})
          /\ Cardinality(loading \cup {f}) = Cardinality(loading)
             \/ Cardinality(loading \cup {f}) = Cardinality(loading) + 1
      BY <2>2, FS_AddElement
    <3> QED BY <2>2, <3>1, <3>2 DEF SearchLoads, Search!AtATime
  <2> QED BY <2>1, <2>3, <2>4
<1> QED BY <1>1, <1>2, PTL DEF MCSpec

\* The releases are given.
LEMMA ReleasesHold == MCSpec => [](releases \subseteq Feed!Build)
<1>1. Feed!FeedAssumption
  BY ReaderAssumption
<1>2. MCInit => releases \subseteq Feed!Build
  BY <1>1, ReaderBegins, Builds DEF Feed!Init, Feed!NavInit
<1>3. (releases \subseteq Feed!Build) /\ [MCNext]_mcVars
        => (releases \subseteq Feed!Build)'
  <2> SUFFICES ASSUME releases \subseteq Feed!Build, [Feed!Next]_liveVars
               PROVE  releases' \subseteq Feed!Build'
    BY ReaderMoves
  <2>1. releases' = releases
    BY Zenon DEF Feed!Next, Feed!Deployed, liveVars
  <2>2. Feed!Build' = Feed!Build
    BY DEF Feed!Build
  <2> QED BY <2>1, <2>2
<1> QED BY <1>2, <1>3, PTL DEF MCSpec

\* Every part keeps the types and the limits it declares, for any values of the
\* constants: two downloads of index files at a time, one swap of a list in
\* flight, one latest call of the search session.
THEOREM TypesHold == MCSpec => []TypesOK
<1>1. ASSUME SearchInv, SearchLoads PROVE Search!TypeOK
  BY <1>1, SearchCardinality
  DEF SearchInv, SearchTypes, SearchLoads, Search!TypeOK
<1>2. ASSUME FeedInv, releases \subseteq Feed!Build PROVE Feed!TypeOK
  <2>1. Cardinality(swap) <= 1 /\ swap \subseteq Feed!SwapRun
    BY <1>2, AtMostOne DEF FeedInv, SwapInv
  <2>2. Feed!NavTypeOK
    BY <1>2 DEF FeedInv, NavInv, NavTypes, Feed!NavTypeOK
  <2> QED BY <1>2, <2>1, <2>2, FeedCardinality DEF FeedInv, PollTypes, Feed!TypeOK
<1>3. ASSUME BoxInv PROVE Box!TypeOK
  <2>1. Cardinality({c \in calls : c.latest}) <= 1
    BY <1>3, AtMostOne DEF BoxInv, BoxCalls
  <2>2. {attached, composing, busy, problem, timer, vocabulary, outdated, online}
          \subseteq BOOLEAN
    BY <1>3 DEF BoxInv, BoxTypes
  <2> QED BY <1>3, <2>1, <2>2, BoxCardinality
      DEF BoxInv, BoxTypes, BoxCall, BoxQuery, Box!TypeOK
<1>4. ASSUME PlayerInv PROVE Media!TypeOK
  BY <1>4 DEF PlayerInv, Media!TypeOK
<1>5. /\ WorkerInv => Worker!TypeOK
      /\ ArticleInv => Articles!TypeOK
  BY DEF WorkerInv, ArticleInv
<1>6. SearchInv /\ SearchLoads /\ ArticleInv /\ WorkerInv /\ FeedInv
      /\ releases \subseteq Feed!Build /\ BoxInv /\ PlayerInv => TypesOK
  BY <1>1, <1>2, <1>3, <1>4, <1>5 DEF TypesOK
<1> QED BY <1>6, SearchHolds, SearchLoadsHold, ArticlesHold, WorkerHolds, FeedHolds,
           ReleasesHold, BoxHolds, PlayerHolds, PTL
=============================================================================
