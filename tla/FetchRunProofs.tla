--------------------------- MODULE FetchRunProofs ---------------------------
(***************************************************************************)
(* For every set of sources, articles, policies and feeds, and whatever    *)
(* fails, panics or crashes: the stage is type-correct and archives an     *)
(* article under one source only.                                          *)
(***************************************************************************)
EXTENDS FetchRun, TLAPS

USE DEF Unreserved, Writing, Closing, Ended, Permitted, Phases, Snapshot

LEMMA EmptyTyped == Empty \in Snapshot /\ Empty.items = {}
BY DEF Empty

LEMMA TypeInit == Init => TypeOK
<1> SUFFICES ASSUME Init PROVE TypeOK
  OBVIOUS
<1>1. Empty \in Snapshot /\ Empty.evicted \in [Article -> Policy \cup {None}]
  BY DEF Empty
<1>2. config \in [Source -> Policy \cup {None}]
  BY DEF Init
<1>3. before \in [Source -> Snapshot] /\ evicted \in
        [Source -> [Article -> Policy \cup {None}]]
  BY <1>1 DEF Init
<1> QED BY <1>2, <1>3 DEF Init, TypeOK

LEMMA StageTyped == ASSUME TypeOK, BeginRun \/ Stage PROVE TypeOK'
<1> USE ConstantsAssumption, EmptyTyped
    DEF vars, diskVars, bookVars, userVars, linkVars, stageVars, taskVars, txVars
<1>1. CASE BeginRun
  BY <1>1 DEF BeginRun, TypeOK
<1>2. CASE PlanRetention
  <2>1. PICK selected \in [Source -> SUBSET Retirable] :
          drop' = [u \in Source |-> IF u \in Subscribed
                                   THEN items[u] \cap selected[u]
                                   ELSE items[u]]
    BY <1>2 DEF PlanRetention
  <2>2. drop' \in [Source -> SUBSET Article]
    BY <2>1 DEF TypeOK
  <2> QED BY <1>2, <2>2 DEF PlanRetention, TypeOK
<1>13. ASSUME NEW s \in Source, RecordEvictions(s)
       PROVE  TypeOK'
  <2>1. config[s] \in Policy
    BY <1>13 DEF RecordEvictions, Subscribed, TypeOK
  <2>2. [a \in Article |-> IF a \in drop[s] THEN config[s] ELSE evicted[s][a]]
          \in [Article -> Policy \cup {None}]
    BY <2>1 DEF TypeOK
  <2>3. evicted' \in [Source -> [Article -> Policy \cup {None}]]
    BY <1>13, <2>2 DEF RecordEvictions, TypeOK
  <2> QED BY <1>13, <2>3 DEF RecordEvictions, TypeOK
<1>14. CASE EvictionsRecorded
  BY <1>14 DEF EvictionsRecorded, TypeOK
<1>3. ASSUME NEW s \in Source, NEW a \in Article, RemoveItem(s, a)
      PROVE  TypeOK'
  BY <1>3 DEF RemoveItem, TypeOK
<1>4. ASSUME NEW s \in Source, RemoveUnconfigured(s)
      PROVE  TypeOK'
  BY <1>4 DEF RemoveUnconfigured, TypeOK, Empty
<1>5. CASE ItemsRemoved
  BY <1>5 DEF ItemsRemoved, TypeOK
<1>6. CASE Retained
  BY <1>6 DEF Retained, TypeOK
<1>7. CASE IndexArchive
  BY <1>7 DEF IndexArchive, TypeOK, Archived
<1>8. CASE JoinPanicked
  BY <1>8 DEF JoinPanicked, TypeOK
<1>9. CASE FinishAbort
  BY <1>9 DEF FinishAbort, ForgetTasks, TypeOK
<1>10. CASE Report
  BY <1>10 DEF Report, ForgetTasks, TypeOK, Subscribed
<1> QED
  BY <1>1, <1>2, <1>3, <1>4, <1>5, <1>6, <1>7, <1>8, <1>9, <1>10, <1>13, <1>14
     DEF Stage

LEMMA TaskTyped ==
  ASSUME TypeOK, NEW s \in Source, Fetching(s) \/ Reserving(s) \/ Storing(s)
  PROVE  TypeOK'
<1> USE ConstantsAssumption
    DEF vars, diskVars, bookVars, userVars, linkVars, stageVars, taskVars,
        txVars, Go, At
<1>1. CASE Acquire(s)
  <2>1. before' \in [Source -> Snapshot]
    BY <1>1 DEF Acquire, TypeOK
  <2> QED BY <1>1, <2>1 DEF Acquire, TypeOK
<1>2. CASE FetchUnchanged(s)
  BY <1>2 DEF FetchUnchanged, TypeOK
<1>3. CASE FetchChanged(s)
  BY <1>3 DEF FetchChanged, Candidates, TypeOK
<1>4. CASE RegisterWaiter(s)
  BY <1>4 DEF RegisterWaiter, TypeOK
<1>5. CASE ReserveLinks(s)
  BY <1>5 DEF ReserveLinks, Wanted, TypeOK
<1>6. CASE AwaitRelease(s)
  BY <1>6 DEF AwaitRelease, TypeOK
<1>7. CASE Wake(s)
  BY <1>7 DEF Wake, TypeOK
<1>8. ASSUME NEW a \in Article, TrackItem(s, a)
      PROVE  TypeOK'
  BY <1>8 DEF TrackItem, TypeOK
<1>9. CASE PersistItem(s)
  <2>1. CASE /\ stored' = [stored EXCEPT ![s] = @ \cup {writing[s]}]
            /\ todo' = [todo EXCEPT ![s] = @ \ {writing[s]}]
    BY <1>9, <2>1 DEF PersistItem, InFlight, TypeOK
  <2>2. CASE UNCHANGED <<stored, todo>>
    BY <1>9, <2>2 DEF PersistItem, InFlight, TypeOK
  <2> QED BY <1>9, <2>1, <2>2 DEF PersistItem
<1>10. CASE AppendSeen(s)
  <2>1. CASE /\ Track(s, "seen")
            /\ seen' = [seen EXCEPT ![s] = @ \cup stored[s]]
    BY <1>10, <2>1 DEF AppendSeen, Track, TypeOK
  <2>2. CASE UNCHANGED <<seen, logged>>
    BY <1>10, <2>2 DEF AppendSeen, Track, TypeOK
  <2> QED BY <1>10, <2>1, <2>2 DEF AppendSeen
<1>11. CASE ClearEvictions(s)
  <2>1. CASE /\ Track(s, "evictions")
            /\ evicted' = [evicted EXCEPT ![s] =
                 [a \in Article |-> IF a \in stored[s] THEN None ELSE @[a]]]
    BY <1>11, <2>1 DEF ClearEvictions, Track, TypeOK
  <2>2. CASE UNCHANGED <<evicted, logged>>
    BY <1>11, <2>2 DEF ClearEvictions, Track, TypeOK
  <2> QED BY <1>11, <2>1, <2>2 DEF ClearEvictions
<1>12. CASE WriteState(s)
  <2>1. CASE Track(s, "state") /\ validated' = [validated EXCEPT ![s] = TRUE]
    BY <1>12, <2>1 DEF WriteState, Track, TypeOK
  <2>2. CASE UNCHANGED <<validated, logged>>
    BY <1>12, <2>2 DEF WriteState, TypeOK
  <2> QED BY <1>12, <2>1, <2>2 DEF WriteState
<1>13. CASE CommitReceipt(s)
  BY <1>13 DEF CommitReceipt, TypeOK
<1>14. CASE CommitLinks(s)
  BY <1>14 DEF CommitLinks, TypeOK
<1>15. CASE Release(s)
  BY <1>15 DEF Release, Outcome, TypeOK
<1> QED
  BY <1>1, <1>2, <1>3, <1>4, <1>5, <1>6, <1>7, <1>8, <1>9, <1>10, <1>11,
     <1>12, <1>13, <1>14, <1>15 DEF Fetching, Reserving, Storing

LEMMA UnwindTyped ==
  ASSUME TypeOK, NEW s \in Source, NEW next \in {"off", "failed", "unwinding",
         "panicked", "panicking"}, Unwind(s, next),
         phase' \in Phases, waiters' \subseteq Source,
         writing' \in [Source -> Article \cup {None}]
  PROVE  TypeOK'
<1> USE DEF bookVars, userVars, stageVars
<1>1. before[s] \in Snapshot
  BY DEF TypeOK
<1>2. /\ items' \in [Source -> SUBSET Article]
      /\ seen' \in [Source -> SUBSET Article]
      /\ evicted' \in [Source -> [Article -> Policy \cup {None}]]
      /\ validated' \in [Source -> BOOLEAN]
  BY <1>1 DEF Unwind, RollBack, TypeOK
<1> QED BY <1>2 DEF Unwind, RollBack, Go, TypeOK

LEMMA TroubleTyped ==
  ASSUME TypeOK, NEW s \in Source, Fail(s) \/ Panic(s) \/ Abort(s)
  PROVE  TypeOK'
<1>1. CASE Fail(s)
  <2>1. writing' \in [Source -> Article \cup {None}] /\ waiters' \subseteq Source
    BY <1>1 DEF Fail, TypeOK
  <2>2. phase' \in Phases
    BY <1>1 DEF Fail, TypeOK
  <2> QED BY <1>1, <2>1, <2>2, UnwindTyped DEF Fail
<1>2. CASE Panic(s)
  <2>1. writing' \in [Source -> Article \cup {None}] /\ waiters' \subseteq Source
    BY <1>2 DEF Panic, TypeOK
  <2>2. phase' \in Phases
    BY <1>2 DEF Panic, TypeOK
  <2> QED BY <1>2, <2>1, <2>2, UnwindTyped DEF Panic
<1>3. CASE Abort(s)
  <2>1. writing' \in [Source -> Article \cup {None}] /\ waiters' \subseteq Source
    BY <1>3 DEF Abort, TypeOK
  <2>2. phase' \in Phases
    BY <1>3 DEF Abort, TypeOK
  <2> QED BY <1>3, <2>1, <2>2, UnwindTyped DEF Abort
<1> QED BY <1>1, <1>2, <1>3

LEMMA TypeStep == TypeOK /\ [Next]_vars => TypeOK'
<1> SUFFICES ASSUME TypeOK, [Next]_vars PROVE TypeOK'
  OBVIOUS
<1> USE DEF vars, diskVars, bookVars, userVars, linkVars, stageVars, taskVars,
            txVars
<1>1. CASE BeginRun \/ Stage
  BY <1>1, StageTyped
<1>2. ASSUME NEW s \in Source, Task(s)
      PROVE  TypeOK'
  BY <1>2, TaskTyped, TroubleTyped DEF Task
<1>3. ASSUME NEW s \in Source, Fail(s) \/ Panic(s)
      PROVE  TypeOK'
  BY <1>3, TroubleTyped
<1>4. CASE Crash
  BY <1>4, ConstantsAssumption, EmptyTyped DEF Crash, ForgetTasks, TypeOK
<1>5. ASSUME NEW s \in Source, NEW a \in Article, DeleteItem(s, a)
      PROVE  TypeOK'
  BY <1>5 DEF DeleteItem, TypeOK
<1>6. ASSUME NEW s \in Source, NEW p \in Policy \cup {None}, Configure(s, p)
      PROVE  TypeOK'
  BY <1>6 DEF Configure, TypeOK
<1>7. CASE UNCHANGED vars
  BY <1>7 DEF TypeOK
<1> QED
  BY <1>1, <1>2, <1>3, <1>4, <1>5, <1>6, <1>7 DEF Next, Trouble, Edit

\* TypeOK holds in every state, for every value of the constants.
THEOREM TypeCorrect == Spec => []TypeOK
<1>1. Init => TypeOK
  BY TypeInit
<1>2. TypeOK /\ [Next]_vars => TypeOK'
  BY TypeStep
<1> QED BY <1>1, <1>2, PTL DEF Spec
-----------------------------------------------------------------------------
(* StoredOnce: Ownership is inductive. *)

LEMMA OwnershipInit == Init => Ownership
BY ConstantsAssumption, EmptyTyped
   DEF Init, Ownership, Exclusive, Reservations, Backed, Snapshots, Quiet,
       Footprint

\* Only a task of a running stage holds, writes or remembers anything.
LEMMA Running ==
  ASSUME TypeOK, Ownership, NEW s \in Source,
         pc[s] # "off" \/ writing[s] # None
  PROVE  phase \in {"fetching", "aborting"}
BY DEF TypeOK, Ownership, Quiet

\* A step that moves one task and touches nothing the ownership is about.
LEMMA MoveOwned ==
  ASSUME TypeOK, Ownership, NEW s \in Source, NEW next, Go(s, next),
         pc[s] # "off",
         UNCHANGED <<items, phase, committed, reserved, held, written, writing,
                     before>>,
         \A t \in Source \ {s} : todo'[t] = todo[t],
         next \in Ended \cup Unreserved => held[s] = {},
         next \in Writing \cup {"committing"} =>
           held[s] \cap committed = {},
         next \notin {"storing", "releasing", "unwinding", "panicking"}
  PROVE  Ownership'
<1> USE DEF Ownership, Footprint, Go
<1>1. Exclusive'
  BY DEF Exclusive
<1>2. Reservations'
  BY DEF Reservations, TypeOK
<1>3. Backed'
  BY DEF Backed, TypeOK
<1>4. Snapshots'
  BY DEF Snapshots
<1>5. Quiet'
  BY Running DEF Quiet
<1> QED BY <1>1, <1>2, <1>3, <1>4, <1>5

LEMMA FetchingOwned ==
  ASSUME TypeOK, Ownership, NEW s \in Source, Fetching(s) \/ Reserving(s)
  PROVE  Ownership'
<1> USE DEF linkVars, stageVars, txVars, diskVars
<1>0. pc[s] \in Ended \cup Unreserved => held[s] = {}
  BY DEF Ownership, Reservations
<1>1. CASE Acquire(s)
  <2> USE <1>1 DEF Acquire, At, Go, Ownership, Footprint
  <2>1. Exclusive'
    BY DEF Exclusive
  <2>2. Reservations'
    BY DEF Reservations, TypeOK
  <2>3. Backed'
    BY <1>0 DEF Backed, TypeOK
  <2>4. Snapshots'
    BY DEF Snapshots, TypeOK
  <2>5. Quiet'
    BY DEF Quiet
  <2> QED BY <2>1, <2>2, <2>3, <2>4, <2>5
<1>2. CASE FetchUnchanged(s)
  BY <1>0, <1>2, MoveOwned DEF FetchUnchanged, At
<1>3. CASE FetchChanged(s)
  <2>1. \A t \in Source \ {s} : todo'[t] = todo[t]
    BY <1>3 DEF FetchChanged, TypeOK
  <2> QED BY <1>0, <1>3, <2>1, MoveOwned DEF FetchChanged, At
<1>4. CASE RegisterWaiter(s)
  BY <1>0, <1>4, MoveOwned DEF RegisterWaiter
<1>5. CASE ReserveLinks(s)
  <2> DEFINE granted == Wanted(s) \ committed
  <2> USE <1>0, <1>5 DEF ReserveLinks, Go, Ownership, Footprint
  <2>0. /\ held' = [held EXCEPT ![s] = granted]
        /\ reserved' = reserved \cup granted
        /\ granted \cap reserved = {}
        /\ granted \cap committed = {}
        /\ held[s] = {}
    BY DEF Blocked
  <2>1. Exclusive'
    BY <2>0 DEF Exclusive, Reservations, TypeOK
  <2>2. Reservations'
    BY <2>0 DEF Reservations, Wanted, TypeOK
  <2>3. Backed'
    BY <2>0 DEF Backed, TypeOK
  <2>4. Snapshots'
    BY DEF Snapshots
  <2>5. Quiet'
    BY Running DEF Quiet
  <2> QED BY <2>1, <2>2, <2>3, <2>4, <2>5
<1>6. CASE AwaitRelease(s)
  BY <1>0, <1>6, MoveOwned DEF AwaitRelease
<1>7. CASE Wake(s)
  BY <1>0, <1>7, MoveOwned DEF Wake, At
<1> QED
  BY <1>1, <1>2, <1>3, <1>4, <1>5, <1>6, <1>7 DEF Fetching, Reserving

LEMMA WritingOwned ==
  ASSUME TypeOK, Ownership, NEW s \in Source,
         \/ AppendSeen(s) \/ ClearEvictions(s) \/ WriteState(s)
         \/ CommitReceipt(s)
  PROVE  Ownership'
<1> USE DEF linkVars, stageVars, txVars
<1>0. pc[s] \in Writing \cup {"committing"} => held[s] \cap committed = {}
  BY DEF Ownership, Reservations
<1>1. CASE AppendSeen(s)
  BY <1>0, <1>1, MoveOwned DEF AppendSeen, At
<1>2. CASE ClearEvictions(s)
  BY <1>0, <1>2, MoveOwned DEF ClearEvictions
<1>3. CASE WriteState(s)
  BY <1>0, <1>3, MoveOwned DEF WriteState, At
<1>4. CASE CommitReceipt(s)
  BY <1>0, <1>4, MoveOwned DEF CommitReceipt
<1> QED BY <1>1, <1>2, <1>3, <1>4

LEMMA ItemOwned ==
  ASSUME TypeOK, Ownership, NEW s \in Source, NEW a \in Article,
         TrackItem(s, a)
  PROVE  Ownership'
<1> USE ConstantsAssumption
    DEF TrackItem, At, Ownership, Footprint, linkVars, stageVars, diskVars
<1>1. a \in Linked => a \in held[s] /\ a \notin committed
  BY DEF Reservations
<1>2. \A t \in Source \ {s} : a \in Linked => a \notin Footprint(t)
  BY <1>1 DEF Backed, Exclusive
<1>3. /\ written'[s] = written[s] \cup {a}
      /\ writing'[s] = a
      /\ \A t \in Source \ {s} :
           written'[t] = written[t] /\ writing'[t] = writing[t]
  BY DEF TypeOK
<1>4. Exclusive'
  BY <1>2, <1>3 DEF Exclusive, TypeOK
<1>5. Reservations'
  BY DEF Reservations, TypeOK
<1>6. Backed'
  BY <1>1, <1>3 DEF Backed, TypeOK
<1>7. Snapshots'
  BY <1>3 DEF Snapshots, TypeOK
<1>8. Quiet'
  BY DEF Quiet
<1> QED BY <1>4, <1>5, <1>6, <1>7, <1>8

\* A landing write moves an article inside the footprint of its source.
LEMMA LandingOwned ==
  ASSUME TypeOK, Ownership, NEW s \in Source, PersistItem(s)
  PROVE  Ownership'
<1> USE ConstantsAssumption
    DEF PersistItem, InFlight, Ownership, linkVars, stageVars
<1>1. /\ items'[s] = items[s] \cup {writing[s]}
      /\ writing'[s] = None
      /\ todo'[s] \subseteq todo[s]
      /\ \A t \in Source \ {s} : /\ items'[t] = items[t]
                                 /\ writing'[t] = writing[t]
                                 /\ todo'[t] = todo[t]
  <2>1. CASE pc[s] = "storing"
    BY <2>1 DEF TypeOK
  <2>2. CASE pc[s] # "storing"
    BY <2>2 DEF TypeOK
  <2> QED BY <2>1, <2>2
<1>2. \A t \in Source : Footprint(t)' = Footprint(t)
  BY <1>1 DEF Footprint
<1>3. /\ UNCHANGED <<held, reserved, committed, pc, phase, written, before>>
  OBVIOUS
<1>4. Exclusive'
  BY <1>2, <1>3 DEF Exclusive
<1>5. Reservations'
  BY <1>1, <1>3 DEF Reservations
<1>6. Backed'
  BY <1>2, <1>3 DEF Backed
<1>7. Snapshots'
  BY <1>1, <1>3 DEF Snapshots
<1>8. Quiet'
  BY <1>3, Running DEF Quiet
<1> QED BY <1>4, <1>5, <1>6, <1>7, <1>8

LEMMA CommitOwned ==
  ASSUME TypeOK, Ownership, NEW s \in Source, CommitLinks(s)
  PROVE  Ownership'
<1> USE DEF CommitLinks, Go, Ownership, Footprint, stageVars, txVars, diskVars
<1>1. /\ pc'[s] = "releasing"
      /\ \A t \in Source \ {s} : pc'[t] = pc[t]
  BY DEF TypeOK
<1>2. Exclusive'
  BY DEF Exclusive
<1>3. Reservations'
  BY <1>1 DEF Reservations, Exclusive
<1>4. Backed'
  BY <1>1 DEF Backed
<1>5. Snapshots'
  BY DEF Snapshots
<1>6. Quiet'
  BY Running DEF Quiet
<1> QED BY <1>2, <1>3, <1>4, <1>5, <1>6

LEMMA ReleaseOwned ==
  ASSUME TypeOK, Ownership, NEW s \in Source, Release(s)
  PROVE  Ownership'
<1> USE DEF Release, Go, Ownership, Footprint, stageVars, txVars, diskVars
<1>1. /\ pc'[s] \in {"done", "failed", "panicked"}
      /\ held'[s] = {}
      /\ \A t \in Source \ {s} : pc'[t] = pc[t] /\ held'[t] = held[t]
  BY DEF TypeOK, Outcome
<1>2. Exclusive'
  BY <1>1 DEF Exclusive
<1>3. Reservations'
  BY <1>1 DEF Reservations, Exclusive
<1>4. Backed'
  BY <1>1 DEF Backed, Reservations
<1>5. Snapshots'
  BY DEF Snapshots
<1>6. Quiet'
  BY Running DEF Quiet
<1> QED BY <1>2, <1>3, <1>4, <1>5, <1>6

\* Rolling back takes from the items of a source what its transaction added.
LEMMA RolledBack ==
  ASSUME TypeOK, Ownership, NEW s \in Source, RollBack(s)
  PROVE  /\ items'[s] \subseteq items[s]
         /\ before[s].items \subseteq items'[s]
         /\ items'[s] \subseteq (items[s] \ written[s]) \cup before[s].items
         /\ \A t \in Source \ {s} : items'[t] = items[t]
BY DEF RollBack, Ownership, Snapshots, TypeOK

\* The task leaves: unless it is cancelled, no write of it is in flight.
LEMMA UnwindOwned ==
  ASSUME TypeOK, Ownership, NEW s \in Source,
         NEW next \in {"off", "failed", "unwinding", "panicked", "panicking"},
         Unwind(s, next), UNCHANGED phase, pc[s] # "off",
         next \notin {"unwinding", "panicking"} =>
           pc[s] \in Unreserved,
         phase = "fetching" => writing'[s] = None,
         writing'[s] \in {None, writing[s]},
         \A t \in Source \ {s} : writing'[t] = writing[t]
  PROVE  Ownership'
<1> USE DEF Unwind, Ownership
<1>0. RollBack(s)
  OBVIOUS
<1>1. /\ pc'[s] = next /\ todo'[s] = {}
      /\ \A t \in Source \ {s} : pc'[t] = pc[t] /\ todo'[t] = todo[t]
  BY DEF Go, TypeOK
<1>2. \A t \in Source : Footprint(t)' \subseteq Footprint(t)
  BY <1>0, RolledBack, ConstantsAssumption DEF Footprint
<1>3. UNCHANGED <<held, reserved, committed, written, before>>
  OBVIOUS
<1>4. Exclusive'
  BY <1>2, <1>3 DEF Exclusive
<1>5. Reservations'
  BY <1>1, <1>3 DEF Reservations
<1>6. Backed'
  <2>1. phase = "fetching" => Footprint(s)' \subseteq committed
    BY <1>0, RolledBack, ConstantsAssumption DEF Backed, Footprint
  <2> QED BY <1>1, <1>2, <1>3, <2>1 DEF Backed
<1>7. Snapshots'
  BY <1>0, <1>3, RolledBack DEF Snapshots
<1>8. Quiet'
  BY Running DEF Quiet
<1> QED BY <1>4, <1>5, <1>6, <1>7, <1>8

LEMMA TroubleOwned ==
  ASSUME TypeOK, Ownership, NEW s \in Source, Fail(s) \/ Panic(s) \/ Abort(s)
  PROVE  Ownership'
<1>1. CASE Fail(s)
  BY <1>1, UnwindOwned DEF Fail, TypeOK
<1>2. CASE Panic(s)
  BY <1>2, UnwindOwned DEF Panic, TypeOK
<1>3. CASE Abort(s)
  BY <1>3, UnwindOwned DEF Abort, TypeOK
<1> QED BY <1>1, <1>2, <1>3

\* Outside the tasks, items only disappear; the run starts with nothing held.
LEMMA QuietOwned ==
  ASSUME TypeOK, Ownership, \A s \in Source : items'[s] \subseteq items[s],
         phase \notin {"fetching", "aborting"}, phase' # "fetching",
         UNCHANGED <<pc, held, written, writing, before, reserved, committed,
                     todo>>
  PROVE  Ownership'
<1> USE EmptyTyped DEF Ownership, Footprint, Quiet
<1>1. Exclusive'
  BY DEF Exclusive
<1>2. Reservations'
  BY DEF Reservations
<1>3. Backed'
  BY DEF Backed
<1>4. Snapshots'
  BY DEF Snapshots
<1>5. Quiet'
  OBVIOUS
<1> QED BY <1>1, <1>2, <1>3, <1>4, <1>5

\* Ending a run, whichever way, forgets every task and keeps the disk.
LEMMA ForgetOwned ==
  ASSUME TypeOK, Ownership, ForgetTasks, UNCHANGED items,
         phase' # "fetching"
  PROVE  Ownership'
<1> USE EmptyTyped, ConstantsAssumption DEF ForgetTasks, Ownership, Footprint
<1>1. Exclusive'
  BY DEF Exclusive
<1>2. Reservations'
  BY DEF Reservations
<1>3. Backed'
  BY DEF Backed
<1>4. Snapshots'
  BY DEF Snapshots
<1>5. Quiet'
  BY DEF Quiet
<1> QED BY <1>1, <1>2, <1>3, <1>4, <1>5

LEMMA StageOwned ==
  ASSUME TypeOK, Ownership, BeginRun \/ Stage PROVE Ownership'
<1> USE DEF diskVars, bookVars, linkVars, taskVars, txVars
<1>1. CASE BeginRun
  BY <1>1, QuietOwned DEF BeginRun
<1>2. CASE PlanRetention \/ EvictionsRecorded
  BY <1>2, QuietOwned DEF PlanRetention, EvictionsRecorded
<1>13. ASSUME NEW s \in Source, RecordEvictions(s)
       PROVE  Ownership'
  BY <1>13, QuietOwned DEF RecordEvictions, stageVars
<1>3. ASSUME NEW s \in Source, NEW a \in Article, RemoveItem(s, a)
      PROVE  Ownership'
  <2>1. \A t \in Source : items'[t] \subseteq items[t]
    BY <1>3 DEF RemoveItem, TypeOK
  <2> QED BY <1>3, <2>1, QuietOwned DEF RemoveItem
<1>4. ASSUME NEW s \in Source, RemoveUnconfigured(s)
      PROVE  Ownership'
  BY <1>4, QuietOwned DEF RemoveUnconfigured, stageVars
<1>5. CASE ItemsRemoved
  BY <1>5, QuietOwned DEF ItemsRemoved
<1>6. CASE Retained
  BY <1>6, QuietOwned DEF Retained
<1>7. CASE IndexArchive
  <2> USE <1>7, ConstantsAssumption, EmptyTyped
      DEF IndexArchive, Ownership, Footprint
  <2>1. /\ \A s \in Source : /\ pc'[s] \in {"queued", "off"}
                            /\ held[s] = {} /\ writing[s] = None
                            /\ before[s] = Empty
        /\ UNCHANGED <<items, held, writing, written, before>>
    BY DEF Quiet
  <2>2. Exclusive'
    BY <2>1 DEF Exclusive
  <2>3. Reservations'
    BY <2>1 DEF Reservations
  <2>4. Backed'
    BY <2>1 DEF Backed, Archived
  <2>5. Snapshots'
    BY <2>1 DEF Snapshots
  <2>6. Quiet'
    BY DEF Quiet
  <2> QED BY <2>2, <2>3, <2>4, <2>5, <2>6
<1>8. CASE JoinPanicked
  BY <1>8 DEF JoinPanicked, Ownership, Exclusive, Reservations, Backed,
              Snapshots, Quiet, Footprint
<1>9. CASE FinishAbort
  BY <1>9, ForgetOwned DEF FinishAbort
<1>10. CASE Report
  BY <1>10, ForgetOwned DEF Report
<1> QED
  BY <1>1, <1>2, <1>3, <1>4, <1>5, <1>6, <1>7, <1>8, <1>9, <1>10, <1>13
     DEF Stage

LEMMA OwnershipStep == TypeOK /\ Ownership /\ [Next]_vars => Ownership'
<1> SUFFICES ASSUME TypeOK, Ownership, [Next]_vars PROVE Ownership'
  OBVIOUS
<1> USE DEF vars, diskVars, bookVars, linkVars, stageVars, taskVars, txVars
<1>1. CASE BeginRun \/ Stage
  BY <1>1, StageOwned
<1>2. ASSUME NEW s \in Source, Task(s)
      PROVE  Ownership'
  <2>1. CASE Storing(s)
    BY <2>1, ItemOwned, LandingOwned, WritingOwned, CommitOwned, ReleaseOwned
       DEF Storing
  <2> QED BY <1>2, <2>1, FetchingOwned, TroubleOwned DEF Task
<1>3. ASSUME NEW s \in Source, Fail(s) \/ Panic(s)
      PROVE  Ownership'
  BY <1>3, TroubleOwned
<1>4. CASE Crash
  BY <1>4, ForgetOwned DEF Crash
<1>5. ASSUME NEW s \in Source, NEW a \in Article, DeleteItem(s, a)
      PROVE  Ownership'
  <2>1. \A t \in Source : items'[t] \subseteq items[t]
    BY <1>5 DEF DeleteItem, TypeOK
  <2> QED BY <1>5, <2>1, QuietOwned DEF DeleteItem
<1>6. ASSUME NEW s \in Source, NEW p \in Policy \cup {None}, Configure(s, p)
      PROVE  Ownership'
  BY <1>6, QuietOwned DEF Configure
<1>7. CASE UNCHANGED vars
  BY <1>7 DEF Ownership, Exclusive, Reservations, Backed, Snapshots, Quiet,
              Footprint
<1> QED
  BY <1>1, <1>2, <1>3, <1>4, <1>5, <1>6, <1>7 DEF Next, Trouble, Edit

\* The reservations keep every link with one source, from the moment it is
\* wanted to the moment it is archived.
THEOREM OwnershipHolds == Spec => []Ownership
<1>1. Init => Ownership
  BY OwnershipInit
<1>2. TypeOK /\ Ownership /\ [Next]_vars => Ownership'
  BY OwnershipStep
<1> QED BY <1>1, <1>2, TypeCorrect, PTL DEF Spec

\* No interleaving, failure, panic or crash archives an article twice.
THEOREM ArchivedOnce == Spec => []StoredOnce
<1>1. Ownership => StoredOnce
  BY DEF Ownership, Exclusive, Footprint, StoredOnce
<1> QED BY <1>1, OwnershipHolds, PTL
=============================================================================
