-------------------------- MODULE FetchArchiveProofs --------------------------
(***************************************************************************)
(* What the archive and the bookkeeping say of each other between runs: a  *)
(* key has an item, a deletion or a policy to account for it (Explained,   *)
(* Keyed), validators speak for entries that are archived or suppressed    *)
(* (Recorded, Covers), and the run refines the ledger of single captures.  *)
(*                                                                         *)
(* The hypotheses on Events name what breaks each: a crash while an        *)
(* unsubscribed source is forgotten leaves keys that nothing explains (the *)
(* run FetchResubscribeCrash shows it) or validators without the keys, and *)
(* a crash or a panic between an item and its key leaves the item without  *)
(* it.                                                                     *)
(***************************************************************************)
EXTENDS FetchTransactionProofs

USE DEF Unreserved, Writing, Closing, Ended, Snapshot

-----------------------------------------------------------------------------
(* What the step of a task does to the disk. *)

SameDisk(s) ==
  /\ items'[s] = items[s] /\ seen'[s] = seen[s] /\ evicted'[s] = evicted[s]
  /\ validated'[s] = validated[s]
  /\ before'[s] = before[s]

Began(s) == pc[s] \notin {"off", "queued"}

\* The kinds of steps, by what they change.
Snap(s) ==
  /\ pc[s] = "queued" /\ pc'[s] = "fetching"
  /\ UNCHANGED <<items, seen, evicted, validated>>
  /\ before'[s] = [items |-> items[s], seen |-> seen[s],
                   evicted |-> evicted[s], validated |-> validated[s]]
Move(s) ==
  /\ SameDisk(s)
  /\ Open(s)' => Open(s) \/ pc[s] = "checking"
  /\ Open(s) => Open(s)'
  /\ Began(s)' => Began(s)
Land(s) ==
  /\ Began(s) /\ pc'[s] = pc[s] /\ PersistItem(s)
  /\ writing[s] \in Article
  /\ items'[s] = items[s] \cup {writing[s]}
  /\ seen'[s] = seen[s] /\ evicted'[s] = evicted[s]
  /\ validated'[s] = validated[s] /\ before'[s] = before[s]
Book(s) ==
  /\ pc[s] = "storing" /\ pc'[s] = "evictions"
  /\ seen'[s] = seen[s] \cup stored[s] /\ stored[s] \subseteq items[s]
  /\ items'[s] = items[s] /\ evicted'[s] = evicted[s]
  /\ validated'[s] = validated[s] /\ before'[s] = before[s]
Clear(s) ==
  /\ pc[s] = "evictions" /\ pc'[s] = "state"
  /\ stored[s] \subseteq items[s]
  /\ \A a \in Article :
       evicted'[s][a] = IF a \in stored[s] THEN None ELSE evicted[s][a]
  /\ items'[s] = items[s] /\ seen'[s] = seen[s]
  /\ validated'[s] = validated[s] /\ before'[s] = before[s]
Validate(s) ==
  /\ pc[s] = "state" /\ pc'[s] = "receipt"
  /\ items'[s] = items[s] /\ seen'[s] = seen[s] /\ evicted'[s] = evicted[s]
  /\ before'[s] = before[s]
Commit(s) ==
  /\ pc[s] = "committing" /\ pc'[s] = "releasing" /\ SameDisk(s)
  /\ items[s] = before[s].items \cup stored[s]
  /\ seen[s] = before[s].seen \cup stored[s]
  /\ \A a \in Article :
       evicted[s][a] = IF a \in stored[s] THEN None ELSE before[s].evicted[a]
  /\ ever' = ever \cup stored[s]
Undo(s) ==
  /\ Began(s) /\ pc'[s] \in Undoing /\ before'[s] = before[s]
  /\ items'[s] = before[s].items /\ seen'[s] = before[s].seen
  /\ evicted'[s] = before[s].evicted /\ validated'[s] = before[s].validated

LEMMA TaskEffect ==
  ASSUME TypeOK, Ownership, Transaction, NEW s \in Source,
         Task(s) \/ Fail(s) \/ Panic(s)
  PROVE  \/ Snap(s) \/ Move(s) \/ Land(s) \/ Book(s) \/ Clear(s)
         \/ Validate(s) \/ Commit(s) \/ Undo(s)
<1> USE DEF diskVars, bookVars, stageVars, txVars, Go, At, SameDisk, Open, Began
<1>0. Accurate(s)
  BY DEF Transaction
<1>1. CASE Acquire(s)
  BY <1>1 DEF Acquire, Snap, TypeOK
<1>2. CASE \/ FetchUnchanged(s) \/ FetchChanged(s) \/ RegisterWaiter(s)
           \/ ReserveLinks(s) \/ AwaitRelease(s) \/ Wake(s)
  BY <1>2 DEF FetchUnchanged, FetchChanged, RegisterWaiter, ReserveLinks,
              AwaitRelease, Wake, Move, TypeOK
<1>3. ASSUME NEW a \in Article, TrackItem(s, a) PROVE Move(s)
  BY <1>3 DEF TrackItem, Move
<1>4. CASE PersistItem(s)
  <2>1. writing[s] \in Article /\ Began(s)
    BY <1>0, <1>4 DEF PersistItem, InFlight, Accurate, Chosen, Picked
  <2>2. /\ items'[s] = items[s] \cup {writing[s]}
        /\ UNCHANGED <<pc, seen, evicted, validated, before>>
    BY <1>4 DEF PersistItem, TypeOK
  <2> QED BY <1>4, <2>1, <2>2 DEF Land
<1>5. CASE AppendSeen(s)
  <2>0. pc[s] = "storing" /\ pc'[s] = "evictions"
        /\ UNCHANGED <<items, evicted, validated, before>>
    BY <1>5 DEF AppendSeen, TypeOK
  <2>1. seen[s] = before[s].seen /\ stored[s] \subseteq items[s]
    BY <1>0, <2>0 DEF Accurate, Stores, Snapped
  <2>2. seen'[s] = seen[s] \cup stored[s]
    <3>1. CASE stored[s] \ before[s].seen # {}
      BY <1>5, <3>1 DEF AppendSeen, TypeOK
    <3>2. CASE ~(stored[s] \ before[s].seen # {})
      BY <1>5, <2>1, <3>2 DEF AppendSeen
    <3> QED BY <3>1, <3>2
  <2> QED BY <2>0, <2>1, <2>2 DEF Book
<1>6. CASE ClearEvictions(s)
  <2>0. /\ pc[s] = "evictions" /\ pc'[s] = "state"
        /\ UNCHANGED <<items, seen, validated, before>>
    BY <1>6 DEF ClearEvictions, TypeOK
  <2>1. stored[s] \subseteq items[s]
    BY <1>0, <2>0 DEF Accurate, Stores, Kept
  <2>2. \A a \in Article :
          evicted'[s][a] = IF a \in stored[s] THEN None ELSE evicted[s][a]
    <3>1. CASE \E a \in stored[s] : evicted[s][a] # None
      BY <1>6, <3>1 DEF ClearEvictions, TypeOK
    <3>2. CASE ~\E a \in stored[s] : evicted[s][a] # None
      BY <1>6, <3>2 DEF ClearEvictions
    <3> QED BY <3>1, <3>2
  <2> QED BY <2>0, <2>1, <2>2 DEF Clear
<1>7. CASE WriteState(s)
  BY <1>7 DEF WriteState, Validate, TypeOK
<1>8. CASE CommitReceipt(s) \/ Release(s)
  BY <1>8 DEF CommitReceipt, Release, Outcome, Move, TypeOK
<1>9. CASE CommitLinks(s)
  <2>0. /\ pc[s] = "committing" /\ pc'[s] = "releasing"
        /\ UNCHANGED <<items, seen, evicted, validated, before>>
        /\ ever' = ever \cup stored[s]
    BY <1>9 DEF CommitLinks, TypeOK
  <2>1. /\ seen[s] = before[s].seen \cup stored[s]
        /\ \A a \in Article : evicted[s][a] =
             IF a \in stored[s] THEN None ELSE before[s].evicted[a]
    BY <1>0, <2>0 DEF Accurate, Books, Kept
  <2>2. writing[s] = None /\ None \notin Article /\ written[s] \subseteq Article
    BY <1>0, <2>0, ConstantsAssumption DEF Accurate, Chosen, TypeOK
  <2>3. items[s] = before[s].items \cup stored[s]
    BY <1>0, <2>0, <2>2
       DEF Accurate, Snapped, Stores, Kept, Ownership, Snapshots
  <2> QED BY <2>0, <2>1, <2>3 DEF Commit
<1>10. CASE Fail(s) \/ Panic(s) \/ Abort(s)
  <2>1. PICK next \in {"off", "failed", "unwinding", "panicked", "panicking"} :
          Unwind(s, next) /\ (next = "off" <=> pc[s] = "queued")
    BY <1>10 DEF Fail, Panic, Abort
  <2>2. pc'[s] = next /\ before' = before /\ RollBack(s)
    BY <2>1 DEF Unwind, TypeOK
  <2>3. CASE pc[s] = "queued"
    <3>1. written[s] = {} /\ logged[s] = {}
      BY <1>0, <2>3 DEF Accurate, Clean
    <3>2. SameDisk(s)
      BY <2>2, <3>1 DEF RollBack, TypeOK
    <3> QED BY <2>1, <2>2, <2>3, <3>2 DEF Move
  <2>4. CASE pc[s] # "queued"
    <3>1. Began(s)
      BY <1>10, <2>4 DEF Fail, Panic, Abort
    <3>2. /\ items'[s] = before[s].items /\ seen'[s] = before[s].seen
          /\ evicted'[s] = before[s].evicted
          /\ validated'[s] = before[s].validated
      BY <1>0, <2>2, <3>1, RolledBackClean
    <3> QED BY <2>1, <2>2, <2>4, <3>1, <3>2 DEF Undo, Undoing
  <2> QED BY <2>3, <2>4
<1> QED
  BY <1>1, <1>2, <1>3, <1>4, <1>5, <1>6, <1>7, <1>8, <1>9, <1>10
     DEF Task, Fetching, Reserving, Storing

\* Outside the tasks a step forgets them all or leaves them where they are,
\* and only forgetting an unsubscribed source touches keys and validators.
LEMMA StageEffect ==
  ASSUME TypeOK, [Next]_vars, ~\E s \in Source : Task(s) \/ Fail(s) \/ Panic(s)
  PROVE  /\ \/ UNCHANGED <<pc, before>>
            \/ IndexArchive /\ UNCHANGED before
            \/ ForgetTasks /\ (AllEnded \/ Crash)
         /\ ever \subseteq ever'
         /\ UNCHANGED <<seen, validated>>
            \/ \E s \in Source : RemoveUnconfigured(s)
<1> USE DEF vars, diskVars, bookVars, userVars, linkVars, stageVars, taskVars,
            txVars
<1>1. CASE FinishAbort \/ Report \/ Crash
  BY <1>1 DEF FinishAbort, Report, Crash
<1>2. CASE IndexArchive
  BY <1>2 DEF IndexArchive
<1>3. CASE \/ BeginRun \/ PlanRetention \/ EvictionsRecorded \/ ItemsRemoved
          \/ Retained \/ JoinPanicked \/ UNCHANGED vars
          \/ \E u \in Source : RecordEvictions(u)
  BY <1>3 DEF BeginRun, PlanRetention, RecordEvictions, EvictionsRecorded,
     ItemsRemoved, Retained, JoinPanicked
<1>4. ASSUME NEW s \in Source, NEW a \in Article,
             RemoveItem(s, a) \/ DeleteItem(s, a)
      PROVE  UNCHANGED <<before, ever, pc, seen, validated>>
  BY <1>4 DEF RemoveItem, DeleteItem
<1>5. ASSUME NEW s \in Source, NEW p \in Policy \cup {None}, Configure(s, p)
      PROVE  UNCHANGED <<before, ever, pc, seen, validated>>
  BY <1>5 DEF Configure
<1>6. ASSUME NEW s \in Source, RemoveUnconfigured(s)
      PROVE  UNCHANGED <<before, ever, pc>>
  BY <1>6 DEF RemoveUnconfigured
<1> QED
  BY <1>1, <1>2, <1>3, <1>4, <1>5, <1>6 DEF Next, Stage, Trouble, Edit

\* Nothing runs while the tasks are being spawned.
LEMMA QuietPc ==
  ASSUME Ownership, phase \notin {"fetching", "aborting"}, NEW s \in Source
  PROVE  pc[s] = "off" /\ ~Began(s) /\ ~Open(s)
BY DEF Ownership, Quiet, Began, Open

-----------------------------------------------------------------------------
(* Validators cover the feed. *)

\* Without crashes, keys outside a transaction are of articles found archived.
Recorded == "crash" \notin Events => \A s \in Source :
  /\ ~Open(s) => seen[s] \subseteq ever
  /\ Began(s) => before[s].seen \subseteq ever
AllSubscribed == "configure" \notin Events => \A s \in Source : config[s] # None
Covers == \A s \in Source :
  /\ validated[s] => Feed[s] \subseteq seen[s] \cup ever
  /\ Began(s) /\ before[s].validated => Feed[s] \subseteq before[s].seen \cup ever

LEMMA AllSubscribedStep == TypeOK /\ AllSubscribed /\ [Next]_vars => AllSubscribed'
<1> SUFFICES ASSUME TypeOK, AllSubscribed, [Next]_vars PROVE AllSubscribed'
  OBVIOUS
<1> USE DEF vars, userVars
<1>0. UNCHANGED config => AllSubscribed'
  BY DEF AllSubscribed
<1>1. ASSUME NEW s \in Source, Task(s) \/ Fail(s) \/ Panic(s)
      PROVE  AllSubscribed'
  BY <1>0, <1>1, FetchingFrame, StoringFrame, TroubleFrame DEF Task, Onward
<1>2. ASSUME NEW s \in Source, NEW p \in Policy \cup {None}, Configure(s, p)
      PROVE  AllSubscribed'
  BY <1>2 DEF Configure, AllSubscribed
<1>3. CASE \/ BeginRun \/ PlanRetention \/ EvictionsRecorded \/ ItemsRemoved
          \/ Retained \/ IndexArchive \/ JoinPanicked \/ FinishAbort \/ Report
          \/ Crash \/ UNCHANGED vars
          \/ \E u \in Source : RecordEvictions(u)
  BY <1>0, <1>3 DEF BeginRun, PlanRetention, RecordEvictions,
     EvictionsRecorded, ItemsRemoved, Retained, IndexArchive, JoinPanicked,
     FinishAbort, Report, Crash
<1>4. ASSUME NEW s \in Source, NEW a \in Article,
             RemoveItem(s, a) \/ DeleteItem(s, a)
      PROVE  AllSubscribed'
  BY <1>0, <1>4 DEF RemoveItem, DeleteItem
<1>5. ASSUME NEW s \in Source, RemoveUnconfigured(s)
      PROVE  AllSubscribed'
  BY <1>0, <1>5 DEF RemoveUnconfigured
<1> QED
  BY <1>1, <1>2, <1>3, <1>4, <1>5 DEF Next, Stage, Trouble, Edit

LEMMA RecordedStep ==
  TypeOK /\ Ownership /\ Transaction /\ Recorded /\ [Next]_vars => Recorded'
<1> SUFFICES ASSUME TypeOK, Ownership, Transaction, Recorded, [Next]_vars,
                    "crash" \notin Events, NEW s \in Source
             PROVE  /\ ~Open(s)' => seen'[s] \subseteq ever'
                    /\ Began(s)' => before'[s].seen \subseteq ever'
  BY DEF Recorded
<1> USE DEF Began, Open
<1>0. /\ ~Open(s) => seen[s] \subseteq ever
      /\ Began(s) => before[s].seen \subseteq ever
  BY DEF Recorded
<1>1. ASSUME Task(s) \/ Fail(s) \/ Panic(s)
      PROVE  /\ ~Open(s)' => seen'[s] \subseteq ever'
             /\ Began(s)' => before'[s].seen \subseteq ever'
  <2>0. ever \subseteq ever'
    BY <1>1, FetchingFrame, StoringFrame, TroubleFrame DEF Task, Onward
  <2>1. CASE Commit(s)
    BY <1>0, <2>0, <2>1 DEF Commit, SameDisk
  <2>2. CASE Snap(s) \/ Move(s) \/ Land(s) \/ Book(s) \/ Clear(s) \/ Validate(s)
    BY <1>0, <2>0, <2>2 DEF Snap, Move, Land, Book, Clear, Validate, SameDisk
  <2>3. CASE Undo(s)
    BY <1>0, <2>0, <2>3 DEF Undo
  <2> QED BY <1>1, <2>1, <2>2, <2>3, TaskEffect
<1>2. ASSUME NEW t \in Source \ {s}, Task(t) \/ Fail(t) \/ Panic(t)
      PROVE  /\ ~Open(s)' => seen'[s] \subseteq ever'
             /\ Began(s)' => before'[s].seen \subseteq ever'
  <2>1. Onward /\ Same(s)
    BY <1>2, FetchingFrame, StoringFrame, TroubleFrame DEF Task
  <2> QED BY <1>0, <2>1 DEF Onward, Same
<1>3. CASE ~\E t \in Source : Task(t) \/ Fail(t) \/ Panic(t)
  <2>1. seen'[s] \subseteq seen[s]
    BY <1>3, StageEffect DEF RemoveUnconfigured, TypeOK
  <2>2. ever \subseteq ever' /\ ~Crash
    BY <1>3, StageEffect DEF Crash
  <2>3. CASE UNCHANGED <<pc, before>>
    BY <1>0, <2>1, <2>2, <2>3
  <2>4. CASE ForgetTasks /\ AllEnded
    BY <1>0, <2>1, <2>2, <2>4 DEF ForgetTasks, AllEnded
  <2>5. CASE IndexArchive /\ UNCHANGED before
    BY <1>0, <2>1, <2>2, <2>5, QuietPc DEF IndexArchive
  <2> QED BY <1>3, <2>2, <2>3, <2>4, <2>5, StageEffect
<1> QED BY <1>1, <1>2, <1>3

LEMMA CoversStep ==
  ASSUME "crash" \notin Events \/ "configure" \notin Events
  PROVE  TypeOK /\ Ownership /\ Transaction /\ Recorded /\ AllSubscribed
           /\ Covers /\ [Next]_vars => Covers'
<1> SUFFICES ASSUME TypeOK, Ownership, Transaction, Recorded, AllSubscribed,
                    Covers, [Next]_vars, NEW s \in Source
             PROVE  /\ validated'[s] => Feed[s] \subseteq seen'[s] \cup ever'
                    /\ Began(s)' /\ before'[s].validated =>
                         Feed[s] \subseteq before'[s].seen \cup ever'
  BY DEF Covers
<1> DEFINE Goal ==
      /\ validated'[s] => Feed[s] \subseteq seen'[s] \cup ever'
      /\ Began(s)' /\ before'[s].validated =>
           Feed[s] \subseteq before'[s].seen \cup ever'
<1>0. /\ validated[s] => Feed[s] \subseteq seen[s] \cup ever
      /\ Began(s) /\ before[s].validated =>
           Feed[s] \subseteq before[s].seen \cup ever
  BY DEF Covers
<1>1. ASSUME Task(s) \/ Fail(s) \/ Panic(s) PROVE Goal
  <2>0. ever \subseteq ever'
    BY <1>1, FetchingFrame, StoringFrame, TroubleFrame DEF Task, Onward
  <2>1. CASE Validate(s)
    <3>1. Feed[s] \subseteq stored[s] \cup committed \cup Suppressed(s)
      BY <2>1 DEF Validate, Transaction, Accurate, Accounted, Books, Kept
    <3>2. Suppressed(s) \cup stored[s] \subseteq seen[s]
      BY <2>1 DEF Validate, Transaction, Accurate, Books, Kept, Suppressed
    <3>3. committed \subseteq ever
      BY <2>1, QuietPc DEF Validate, Transaction, Commits
    <3> QED BY <1>0, <2>0, <2>1, <3>1, <3>2, <3>3 DEF Validate, Began
  <2>2. CASE Snap(s) \/ Move(s) \/ Land(s) \/ Book(s) \/ Clear(s) \/ Commit(s)
    BY <1>0, <2>0, <2>2
       DEF Snap, Move, Land, Book, Clear, Commit, SameDisk, Began
  <2>3. CASE Undo(s)
    BY <1>0, <2>0, <2>3 DEF Undo
  <2> QED BY <1>1, <2>1, <2>2, <2>3, TaskEffect
<1>2. ASSUME NEW t \in Source \ {s}, Task(t) \/ Fail(t) \/ Panic(t)
      PROVE  Goal
  <2>1. Onward /\ Same(s)
    BY <1>2, FetchingFrame, StoringFrame, TroubleFrame DEF Task
  <2> QED BY <1>0, <2>1 DEF Onward, Same, Began
<1>3. CASE ~\E t \in Source : Task(t) \/ Fail(t) \/ Panic(t)
  <2>0. ever \subseteq ever'
    BY <1>3, StageEffect
  <2>1. Began(s)' => Began(s) /\ before'[s] = before[s]
    BY <1>3, StageEffect DEF ForgetTasks, IndexArchive, Began
  <2>2. CASE UNCHANGED <<seen, validated>>
    BY <1>0, <2>0, <2>1, <2>2
  <2>3. ASSUME NEW t \in Source, RemoveUnconfigured(t) PROVE Goal
    <3>1. "crash" \notin Events /\ phase = "forgetting" /\ config[t] = None
      BY <2>3 DEF RemoveUnconfigured, Subscribed, AllSubscribed
    <3>2. seen[s] \subseteq ever
      BY <3>1, QuietPc DEF Recorded
    <3>3. validated'[s] => validated[s]
      BY <2>3 DEF RemoveUnconfigured, TypeOK
    <3> QED BY <1>0, <2>0, <2>1, <3>2, <3>3
  <2> QED BY <1>3, <2>2, <2>3, StageEffect
<1> QED BY <1>1, <1>2, <1>3

LEMMA AllSubscribedHolds == Spec => []AllSubscribed
<1>1. Init => AllSubscribed
  BY ConstantsAssumption DEF Init, AllSubscribed
<1> QED BY <1>1, AllSubscribedStep, TypeCorrect, PTL DEF Spec

\* Validators never say "unchanged" of an entry that neither the keys nor the
\* archive has: as long as runs do not crash or the subscriptions stay, a run
\* killed between forgetting the keys and the validators of an unsubscribed
\* source being the exception (evictions.rs, fetch_one_inner).
THEOREM ValidatorsCover ==
  ASSUME "crash" \notin Events \/ "configure" \notin Events
  PROVE  Spec => []ValidatorsCoverFeed
<1>1. Init => Recorded /\ Covers
  BY DEF Init, Recorded, Covers, Began, Open
<1>2. Covers => ValidatorsCoverFeed
  BY DEF Covers, ValidatorsCoverFeed
<1> QED
  BY <1>1, <1>2, RecordedStep, CoversStep, AllSubscribedHolds, TypeCorrect,
     OwnershipHolds, TransactionHolds, PTL DEF Spec

-----------------------------------------------------------------------------
(* Every key that suppresses an article has a reason. *)

Reasoned(s) == \A a \in seen[s] :
  a \in items[s] \cup deleted[s] \/ evicted[s][a] # None
ReasonedBefore(s) == \A a \in before[s].seen :
  a \in before[s].items \cup deleted[s] \/ before[s].evicted[a] # None
\* Only while it is being forgotten may a source have keys without a reason;
\* what retention removes from the others it has recorded.
Explained == \A s \in Source :
  /\ s \in Subscribed \/ phase \notin {"removing", "forgetting"} => Reasoned(s)
  /\ Began(s) => ReasonedBefore(s)
  /\ phase = "removing" /\ s \in Subscribed =>
       \A a \in drop[s] : evicted[s][a] # None

LEMMA TaskExplained ==
  ASSUME TypeOK, Ownership, Transaction, Explained, NEW s \in Source,
         Task(s) \/ Fail(s) \/ Panic(s)
  PROVE  Explained'
<1>0. Onward /\ \A t \in Source \ {s} : Same(t)
  BY FetchingFrame, StoringFrame, TroubleFrame DEF Task
<1>1. phase \in {"fetching", "aborting"}
  <2>1. Began(s) \/ pc[s] = "queued" \/ writing[s] # None
    BY DEF Began, Task, Fetching, Reserving, Storing, Acquire, FetchUnchanged,
       FetchChanged, RegisterWaiter, ReserveLinks, AwaitRelease, Wake,
       TrackItem, PersistItem, InFlight, AppendSeen, ClearEvictions,
       WriteState, CommitReceipt, CommitLinks, Release, Fail, Panic, Abort, At
  <2> QED BY <2>1, Running DEF Began
<1>2. Reasoned(s) /\ (Began(s) => ReasonedBefore(s))
  BY <1>1 DEF Explained
<1>3. Reasoned(s)' /\ (Began(s)' => ReasonedBefore(s)')
  <2> USE <1>0, <1>2 DEF Reasoned, ReasonedBefore, Onward
  <2>1. CASE Snap(s) \/ Move(s) \/ Land(s) \/ Validate(s) \/ Commit(s)
    BY <2>1 DEF Snap, Move, Land, Validate, Commit, SameDisk, Began
  <2>2. CASE Book(s)
    BY <2>2 DEF Book, Began
  <2>3. CASE Clear(s)
    <3>1. seen[s] \subseteq Article
      BY DEF TypeOK
    <3> QED BY <2>3, <3>1 DEF Clear, Began
  <2>4. CASE Undo(s)
    BY <2>4 DEF Undo, Began
  <2> QED BY <2>1, <2>2, <2>3, <2>4, TaskEffect
<1>4. ASSUME NEW t \in Source \ {s}
      PROVE  Reasoned(t)' /\ (Began(t)' => ReasonedBefore(t)')
  <2>1. Reasoned(t) /\ (Began(t) => ReasonedBefore(t))
    BY <1>1 DEF Explained
  <2> QED BY <1>0, <2>1 DEF Reasoned, ReasonedBefore, Began, Onward, Same
<1> QED BY <1>0, <1>1, <1>3, <1>4 DEF Explained, Onward

\* No task runs, and neither keys nor reasons change.
LEMMA QuietExplained ==
  ASSUME TypeOK, Ownership, phase' # "removing",
         \A s \in Source : Reasoned(s),
         \A s \in Source : Began(s) => ReasonedBefore(s),
         UNCHANGED <<items, seen, evicted, deleted>>,
         UNCHANGED <<pc, before>> \/ \A s \in Source : ~Began(s)'
  PROVE  Explained'
BY DEF Explained, Reasoned, ReasonedBefore, Began

LEMMA ExplainedStep ==
  ASSUME "crash" \notin Events \/ "configure" \notin Events
  PROVE  TypeOK /\ Ownership /\ Transaction /\ AllSubscribed /\ Explained
           /\ [Next]_vars => Explained'
<1> SUFFICES ASSUME TypeOK, Ownership, Transaction, AllSubscribed, Explained,
                    [Next]_vars
             PROVE  Explained'
  OBVIOUS
<1> USE DEF vars, diskVars, bookVars, userVars, linkVars, stageVars, taskVars,
            txVars
<1>1. ASSUME NEW s \in Source, Task(s) \/ Fail(s) \/ Panic(s)
      PROVE  Explained'
  BY <1>1, TaskExplained
<1>2. CASE BeginRun \/ JoinPanicked \/ IndexArchive
  <2>1. /\ \A s \in Source : Reasoned(s) /\ (Began(s) => ReasonedBefore(s))
        /\ UNCHANGED <<items, seen, evicted, deleted, before>>
        /\ phase' # "removing"
    BY <1>2 DEF BeginRun, JoinPanicked, IndexArchive, Explained
  <2>2. UNCHANGED pc \/ \A s \in Source : ~Began(s)'
    BY <1>2 DEF BeginRun, JoinPanicked, IndexArchive, Began
  <2> QED BY <2>1, <2>2, QuietExplained
<1>3. ASSUME NEW s \in Source, RecordEvictions(s)
      PROVE  Explained'
  <2> USE <1>3 DEF RecordEvictions
  <2>1. /\ phase = "recording" /\ s \in Subscribed
        /\ UNCHANGED <<items, seen, config, deleted, phase>>
        /\ \A t \in Source : ~Began(t)'
    BY QuietPc DEF Began
  <2>2. \A t \in Source : \A a \in Article :
          evicted'[t][a] = IF t = s /\ a \in drop[s]
                           THEN config[s] ELSE evicted[t][a]
    BY DEF TypeOK
  <2>3. \A t \in Source : Reasoned(t)'
    BY <2>1, <2>2 DEF Explained, Reasoned, Subscribed, TypeOK
  <2> QED BY <2>1, <2>3 DEF Explained
<1>12. CASE PlanRetention
  BY <1>12, QuietExplained DEF PlanRetention, Explained
<1>13. CASE EvictionsRecorded
  <2> USE <1>13 DEF EvictionsRecorded
  <2>1. /\ phase = "recording"
        /\ UNCHANGED <<items, seen, evicted, config, deleted, drop>>
        /\ \A t \in Source : ~Began(t)'
    BY QuietPc DEF Began
  <2>2. \A t \in Subscribed : \A a \in drop[t] : evicted[t][a] # None
    BY DEF Saved, Subscribed
  <2>3. \A t \in Source : Reasoned(t)'
    BY <2>1 DEF Explained, Reasoned
  <2> QED BY <2>1, <2>2, <2>3 DEF Explained, Subscribed
<1>4. ASSUME NEW s \in Source, NEW a \in Article, RemoveItem(s, a)
      PROVE  Explained'
  <2> USE <1>4 DEF RemoveItem
  <2>1. /\ phase = "removing" /\ UNCHANGED <<seen, evicted, config, deleted, phase>>
        /\ \A t \in Source : ~Began(t)'
        /\ a \in drop[s]
    BY QuietPc DEF Began
  <2>2. \A t \in Source : drop'[t] \subseteq drop[t]
    BY DEF TypeOK
  <2>3. \A t \in Source :
          items[t] \subseteq items'[t] \cup (IF t = s THEN {a} ELSE {})
    BY DEF TypeOK
  <2>4. \A t \in Subscribed : Reasoned(t)'
    BY <2>1, <2>3 DEF Explained, Reasoned, Subscribed
  <2> QED BY <2>1, <2>2, <2>4 DEF Explained, Subscribed
<1>5. CASE ItemsRemoved
  BY <1>5, QuietPc DEF ItemsRemoved, Explained, Reasoned, Subscribed, Began
<1>6. ASSUME NEW s \in Source, RemoveUnconfigured(s)
      PROVE  Explained'
  <2> USE <1>6 DEF RemoveUnconfigured
  <2>1. /\ phase = "forgetting" /\ UNCHANGED <<items, config, phase>>
        /\ s \notin Subscribed /\ \A t \in Source : ~Began(t)'
    BY QuietPc DEF Began
  <2>2. \A t \in Source \ {s} :
          seen'[t] = seen[t] /\ evicted'[t] = evicted[t] /\ deleted'[t] = deleted[t]
    BY DEF TypeOK
  <2>3. \A t \in Subscribed : Reasoned(t)'
    BY <2>1, <2>2 DEF Explained, Reasoned, Subscribed
  <2> QED BY <2>1, <2>3 DEF Explained, Subscribed
<1>7. CASE Retained
  <2>1. \A s \in Source : Reasoned(s)
    BY <1>7 DEF Retained, Explained, Reasoned, Forgotten
  <2>2. \A s \in Source : Began(s) => ReasonedBefore(s)
    BY DEF Explained
  <2> QED BY <1>7, <2>1, <2>2, QuietExplained DEF Retained
<1>8. CASE FinishAbort \/ Report \/ Crash
  <2>1. \A s \in Source : Reasoned(s)
    <3>1. CASE Crash
      BY <3>1 DEF Crash, AllSubscribed, Explained, Subscribed
    <3>2. CASE FinishAbort \/ Report
      BY <3>2 DEF FinishAbort, Report, Explained
    <3> QED BY <1>8, <3>1, <3>2
  <2>2. /\ UNCHANGED <<items, seen, evicted, deleted>> /\ phase' # "removing"
        /\ \A s \in Source : ~Began(s)'
    BY <1>8 DEF FinishAbort, Report, Crash, ForgetTasks, Began
  <2>3. \A s \in Source : Began(s) => ReasonedBefore(s)
    BY DEF Explained
  <2> QED BY <2>1, <2>2, <2>3, QuietExplained
<1>9. ASSUME NEW s \in Source, NEW a \in Article, DeleteItem(s, a)
      PROVE  Explained'
  <2> USE <1>9 DEF DeleteItem
  <2>1. /\ phase = "idle" /\ UNCHANGED <<seen, evicted, config, phase>>
        /\ \A t \in Source : ~Began(t)'
    BY QuietPc DEF Began
  <2>2. \A t \in Source :
          items[t] \cup deleted[t] \subseteq items'[t] \cup deleted'[t]
    BY DEF TypeOK
  <2>3. \A t \in Source : Reasoned(t)'
    BY <2>1, <2>2 DEF Explained, Reasoned
  <2> QED BY <2>1, <2>3 DEF Explained
<1>10. ASSUME NEW s \in Source, NEW p \in Policy \cup {None}, Configure(s, p)
       PROVE  Explained'
  <2>1. /\ \A t \in Source : Reasoned(t) /\ (Began(t) => ReasonedBefore(t))
        /\ UNCHANGED <<items, seen, evicted, deleted, before, pc, phase>>
        /\ phase = "idle"
    BY <1>10 DEF Configure, Explained
  <2> QED BY <2>1, QuietExplained
<1>11. CASE UNCHANGED vars
  BY <1>11 DEF Explained, Reasoned, ReasonedBefore, Began, Subscribed
<1> QED
  BY <1>1, <1>2, <1>3, <1>4, <1>5, <1>6, <1>7, <1>8, <1>9, <1>10, <1>11,
     <1>12, <1>13
     DEF Next, Stage, Trouble, Edit

\* A key hides an article only for a reason that can be looked up: no failure,
\* cancellation, readmission or unsubscription leaves one behind.  The
\* exception is a crash while an unsubscribed source is being forgotten.
THEOREM KeysExplained ==
  ASSUME "crash" \notin Events \/ "configure" \notin Events
  PROVE  Spec => []SuppressionExplained
<1>1. Init => Explained
  BY DEF Init, Explained, Reasoned, Began
<1>2. Explained => SuppressionExplained
  BY DEF Explained, Reasoned, SuppressionExplained, Subscribed
<1> QED
  BY <1>1, <1>2, ExplainedStep, AllSubscribedHolds, TypeCorrect,
     OwnershipHolds, TransactionHolds, PTL DEF Spec

-----------------------------------------------------------------------------
(* Runs that neither panic nor crash: items have keys, deletions stay. *)

Orderly == {"panic", "crash"} \cap Events = {}

\* Retention is about to remove the item, and may have recorded why.
Planned(s, a) == phase \in {"recording", "removing"} /\ a \in drop[s]
\* Outside a transaction every item has its key, and no eviction record but
\* the one retention has just written for it.
HasKeys(s) == \A a \in items[s] :
  a \in seen[s] /\ (evicted[s][a] = None \/ Planned(s, a))
HadKeys(s) == \A a \in before[s].items :
  a \in before[s].seen /\ before[s].evicted[a] = None
\* What was deleted by hand is suppressed for good.
Barred(s) == \A a \in deleted[s] :
  a \in seen[s] /\ a \notin items[s] /\ evicted[s][a] = None
WasBarred(s) == \A a \in deleted[s] :
  a \in before[s].seen /\ a \notin before[s].items /\ before[s].evicted[a] = None
Emptied(s) ==
  /\ phase \in {"recording", "removing"} => items[s] \subseteq drop[s]
  /\ phase = "forgetting" => items[s] = {}
KeyedSource(s) ==
  /\ ~Open(s) => HasKeys(s)
  /\ Barred(s)
  /\ Began(s) => HadKeys(s) /\ WasBarred(s)
  /\ phase = "recording" => drop[s] \subseteq items[s]
  /\ s \notin Subscribed => Emptied(s)
Keyed == \A s \in Source : KeyedSource(s)

LEMMA TaskKeyed ==
  ASSUME TypeOK, Ownership, Transaction, Joined, Keyed, NEW s \in Source,
         Task(s) \/ Fail(s) \/ Panic(s), phase = "fetching"
  PROVE  Keyed'
<1>0. Onward /\ \A t \in Source \ {s} : Same(t)
  BY FetchingFrame, StoringFrame, TroubleFrame DEF Task
<1> USE DEF Onward
<1>1. KeyedSource(s)
  BY DEF Keyed
<1>2. phase' = "fetching" /\ (s \notin Subscribed)' = (s \notin Subscribed)
  BY <1>0 DEF Subscribed
<1>3. HasKeys(s)' = \A a \in items'[s] : a \in seen'[s] /\ evicted'[s][a] = None
  BY <1>2 DEF HasKeys, Planned
<1>4. (~Open(s) => HasKeys(s)) /\ Barred(s) /\ (Began(s) => HadKeys(s) /\ WasBarred(s))
  BY <1>1 DEF KeyedSource
<1>5. /\ ~Open(s)' => HasKeys(s)'
      /\ Barred(s)' /\ (Began(s)' => HadKeys(s)' /\ WasBarred(s)')
  <2> USE <1>0, <1>4 DEF Barred, HadKeys, WasBarred
  <2>1. CASE Snap(s)
    <3>1. ~Open(s) /\ ~Began(s)
      BY <2>1 DEF Snap, Open, Began
    <3> QED BY <1>3, <2>1, <3>1 DEF Snap, HasKeys, Planned
  <2>2. CASE Move(s) \/ Validate(s)
    <3>1. Open(s)' => Began(s)
      BY <2>2 DEF Move, Validate, Open, Began
    <3>2. ~Open(s)' => ~Open(s)
      BY <2>2 DEF Move, Validate, Open
    <3> QED BY <1>3, <2>2, <3>1, <3>2
            DEF Move, Validate, SameDisk, HasKeys, Planned, Began
  <2>3. CASE Land(s)
    <3>1. pc[s] = "storing" /\ writing[s] \in Picked(s)
      BY <2>3 DEF Land, PersistItem, InFlight, Transaction, Accurate, Chosen,
                  Undone, Undoing
    <3>2. writing[s] \notin deleted[s]
      BY <2>3, <3>1 DEF Land, Picked, Suppressed
    <3> QED BY <2>3, <3>1, <3>2 DEF Land, Open, Began
  <2>4. CASE Book(s)
    BY <2>4 DEF Book, Open, Began
  <2>5. CASE Clear(s)
    <3>1. deleted[s] \subseteq Article
      BY DEF TypeOK
    <3> QED BY <2>5, <3>1 DEF Clear, Open, Began
  <2>6. CASE Commit(s)
    <3>1. Began(s) /\ items[s] \subseteq Article
      BY <2>6 DEF Commit, Began, TypeOK
    <3> QED BY <1>3, <2>6, <3>1 DEF Commit, SameDisk
  <2>7. CASE Undo(s)
    BY <1>3, <2>7 DEF Undo, Began
  <2> QED BY <2>1, <2>2, <2>3, <2>4, <2>5, <2>6, <2>7, TaskEffect
<1>6. KeyedSource(s)'
  BY <1>2, <1>5 DEF KeyedSource, Emptied
<1>7. ASSUME NEW t \in Source \ {s} PROVE KeyedSource(t)'
  <2>1. KeyedSource(t)
    BY DEF Keyed
  <2> QED BY <1>0, <1>2, <2>1
          DEF KeyedSource, HasKeys, Planned, HadKeys, Barred, WasBarred,
              Emptied, Open, Began, Same, Subscribed
<1> QED BY <1>6, <1>7 DEF Keyed

\* The stages before and after the tasks.
LEMMA StageKeyed ==
  ASSUME TypeOK, Ownership, Keyed, BeginRun \/ Stage, ~JoinPanicked,
         phase # "aborting"
  PROVE  Keyed'
<1> USE DEF diskVars, bookVars, userVars, linkVars, stageVars, taskVars, txVars
<1>0. \A t \in Source : KeyedSource(t)
  BY DEF Keyed
<1>1. CASE BeginRun \/ ItemsRemoved \/ Retained
  <2>1. /\ \A t \in Source : ~Began(t) /\ ~Open(t) /\ ~Began(t)' /\ ~Open(t)'
        /\ UNCHANGED <<items, seen, evicted, deleted, config, drop>>
        /\ phase' \notin {"recording", "removing"} /\ phase # "recording"
    BY <1>1, QuietPc DEF BeginRun, ItemsRemoved, Retained, Open, Began
  <2>2. \A t \in Source : HasKeys(t)' /\ Barred(t)'
    <3>1. CASE phase = "removing"
      BY <1>0, <1>1, <2>1, <3>1
         DEF BeginRun, ItemsRemoved, Retained, KeyedSource, HasKeys, Planned, Barred
    <3>2. CASE phase # "removing"
      BY <1>0, <2>1, <3>2 DEF KeyedSource, HasKeys, Planned, Barred
    <3> QED BY <3>1, <3>2
  <2>3. \A t \in Source : t \notin Subscribed => Emptied(t)'
    BY <1>0, <1>1, <2>1
       DEF BeginRun, ItemsRemoved, Retained, KeyedSource, Emptied
  <2> QED BY <2>1, <2>2, <2>3 DEF Keyed, KeyedSource, Subscribed
<1>2. CASE PlanRetention
  <2> USE <1>2 DEF PlanRetention
  <2>1. /\ \A t \in Source : ~Began(t) /\ ~Open(t) /\ ~Began(t)' /\ ~Open(t)'
        /\ UNCHANGED <<items, seen, evicted, deleted, config>>
        /\ phase = "planning" /\ phase' = "recording"
    BY QuietPc DEF Open, Began
  <2>2. /\ \A t \in Source : drop'[t] \subseteq items[t]
        /\ \A t \in Source : t \notin Subscribed => drop'[t] = items[t]
    OBVIOUS
  <2>3. \A t \in Source : HasKeys(t)' /\ Barred(t)'
    BY <1>0, <2>1 DEF KeyedSource, HasKeys, Planned, Barred
  <2> QED BY <2>1, <2>2, <2>3 DEF Keyed, KeyedSource, Emptied, Subscribed
<1>7. ASSUME NEW s \in Source, RecordEvictions(s)
      PROVE  Keyed'
  <2> USE <1>7 DEF RecordEvictions
  <2>1. /\ \A t \in Source : ~Began(t) /\ ~Open(t) /\ ~Began(t)' /\ ~Open(t)'
        /\ UNCHANGED <<items, seen, deleted, config, drop, phase>>
        /\ phase = "recording"
    BY QuietPc DEF Open, Began, stageVars
  <2>2. \A t \in Source : \A a \in Article : a \notin drop[t] =>
          evicted'[t][a] = evicted[t][a]
    BY DEF TypeOK
  <2>3. \A t \in Source :
          /\ items[t] \subseteq Article /\ deleted[t] \subseteq Article
          /\ drop[t] \subseteq items[t]
    BY <1>0, <2>1 DEF TypeOK, KeyedSource
  <2>4. \A t \in Source : HasKeys(t)' /\ Barred(t)'
    BY <1>0, <2>1, <2>2, <2>3 DEF KeyedSource, HasKeys, Planned, Barred
  <2> QED BY <1>0, <2>1, <2>3, <2>4 DEF Keyed, KeyedSource, Emptied, Subscribed
<1>8. CASE EvictionsRecorded
  <2>1. /\ \A t \in Source : ~Began(t) /\ ~Open(t) /\ ~Began(t)' /\ ~Open(t)'
        /\ UNCHANGED <<items, seen, evicted, deleted, config, drop>>
        /\ phase = "recording" /\ phase' = "removing"
    BY <1>8, QuietPc DEF EvictionsRecorded, Open, Began
  <2> QED BY <1>0, <2>1
          DEF Keyed, KeyedSource, HasKeys, Planned, Barred, Emptied, Subscribed
<1>3. ASSUME NEW s \in Source, NEW a \in Article, RemoveItem(s, a)
      PROVE  Keyed'
  <2> USE <1>3 DEF RemoveItem
  <2>1. /\ \A t \in Source : ~Began(t) /\ ~Open(t) /\ ~Began(t)' /\ ~Open(t)'
        /\ UNCHANGED <<seen, evicted, deleted, config, phase>>
        /\ phase = "removing"
    BY QuietPc DEF Open, Began
  <2>2. \A t \in Source :
          /\ items'[t] = IF t = s THEN items[t] \ {a} ELSE items[t]
          /\ drop'[t] = IF t = s THEN drop[t] \ {a} ELSE drop[t]
    BY DEF TypeOK
  <2>3. \A t \in Source : HasKeys(t)' /\ Barred(t)'
    <3>1. \A t \in Source : HasKeys(t)'
      BY <1>0, <2>1, <2>2 DEF KeyedSource, HasKeys, Planned
    <3>2. \A t \in Source : Barred(t)'
      BY <1>0, <2>1, <2>2 DEF KeyedSource, Barred
    <3> QED BY <3>1, <3>2
  <2>4. \A t \in Source : t \notin Subscribed => Emptied(t)'
    BY <1>0, <2>1, <2>2 DEF KeyedSource, Emptied
  <2> QED BY <2>1, <2>3, <2>4 DEF Keyed, KeyedSource, Subscribed
<1>4. ASSUME NEW s \in Source, RemoveUnconfigured(s)
      PROVE  Keyed'
  <2> USE <1>4 DEF RemoveUnconfigured
  <2>1. /\ \A t \in Source : ~Began(t) /\ ~Open(t) /\ ~Began(t)' /\ ~Open(t)'
        /\ UNCHANGED <<items, config, phase, drop>>
        /\ phase = "forgetting" /\ items[s] = {}
    BY <1>0, QuietPc DEF Open, Began, KeyedSource, Emptied
  <2>2. \A t \in Source \ {s} :
          seen'[t] = seen[t] /\ evicted'[t] = evicted[t] /\ deleted'[t] = deleted[t]
    BY DEF TypeOK
  <2>3. Barred(s)'
    <3>1. CASE seen[s] # {}
      BY <2>1, <3>1 DEF Barred, TypeOK
    <3>2. CASE seen[s] = {}
      <4>1. deleted[s] = {} /\ UNCHANGED deleted
        BY <1>0, <3>2 DEF KeyedSource, Barred
      <4> QED BY <4>1 DEF Barred
    <3> QED BY <3>1, <3>2
  <2>4. \A t \in Source : HasKeys(t)' /\ Barred(t)'
    BY <1>0, <2>1, <2>2, <2>3 DEF KeyedSource, HasKeys, Planned, Barred
  <2>5. \A t \in Source : t \notin Subscribed => Emptied(t)'
    BY <1>0, <2>1 DEF KeyedSource, Emptied
  <2> QED BY <2>1, <2>4, <2>5 DEF Keyed, KeyedSource, Subscribed
<1>5. CASE IndexArchive
  <2>1. /\ \A t \in Source : ~Began(t) /\ ~Open(t) /\ ~Began(t)' /\ ~Open(t)'
        /\ UNCHANGED <<items, seen, evicted, deleted, config>>
        /\ phase = "indexing" /\ phase' = "fetching"
    BY <1>5, QuietPc DEF IndexArchive, Open, Began
  <2> QED BY <1>0, <2>1
          DEF Keyed, KeyedSource, HasKeys, Planned, Barred, Emptied, Subscribed
<1>6. CASE Report
  <2>1. /\ \A t \in Source : ~Open(t) /\ ~Began(t)' /\ ~Open(t)'
        /\ UNCHANGED <<items, seen, evicted, deleted, config>>
        /\ phase = "fetching" /\ phase' = "planning"
    BY <1>6 DEF Report, ForgetTasks, AllEnded, Open, Began
  <2> QED BY <1>0, <2>1
          DEF Keyed, KeyedSource, HasKeys, Planned, Barred, Emptied, Subscribed
<1> QED
  BY <1>1, <1>2, <1>3, <1>4, <1>5, <1>6, <1>7, <1>8 DEF Stage, FinishAbort

LEMMA KeyedStep ==
  ASSUME Orderly
  PROVE  TypeOK /\ Ownership /\ Transaction /\ Joined /\ Keyed /\ [Next]_vars
           => Keyed'
<1> SUFFICES ASSUME TypeOK, Ownership, Transaction, Joined, Keyed, [Next]_vars
             PROVE  Keyed'
  OBVIOUS
<1> USE DEF vars, diskVars, bookVars, userVars, linkVars, stageVars, taskVars,
            txVars
<1>0. \A t \in Source : KeyedSource(t)
  BY DEF Keyed
<1>1. ASSUME NEW s \in Source, Task(s) \/ Fail(s) \/ Panic(s)
      PROVE  Keyed'
  <2>1. Began(s) \/ pc[s] = "queued" \/ writing[s] # None
    BY <1>1 DEF Began, Task, Fetching, Reserving, Storing, Acquire,
       FetchUnchanged, FetchChanged, RegisterWaiter, ReserveLinks,
       AwaitRelease, Wake, TrackItem, PersistItem, InFlight, AppendSeen,
       ClearEvictions, WriteState, CommitReceipt, CommitLinks, Release, Fail,
       Panic, Abort, At
  <2>2. phase = "fetching"
    BY <2>1, Running DEF Began, Joined
  <2> QED BY <1>1, <2>2, TaskKeyed
<1>2. CASE BeginRun \/ Stage
  <2>1. ~JoinPanicked /\ phase # "aborting"
    BY DEF JoinPanicked, Joined
  <2> QED BY <1>2, <2>1, StageKeyed
<1>3. ASSUME NEW s \in Source, NEW a \in Article, DeleteItem(s, a)
      PROVE  Keyed'
  <2> USE <1>3 DEF DeleteItem
  <2>1. /\ \A t \in Source : ~Began(t) /\ ~Open(t) /\ ~Began(t)' /\ ~Open(t)'
        /\ UNCHANGED <<seen, evicted, config, phase>> /\ phase = "idle"
    BY QuietPc DEF Open, Began
  <2>2. /\ \A t \in Source \ {s} : items'[t] = items[t] /\ deleted'[t] = deleted[t]
        /\ items'[s] = items[s] \ {a} /\ deleted'[s] = deleted[s] \cup {a}
    BY DEF TypeOK
  <2>3. \A t \in Source : HasKeys(t)' /\ Barred(t)'
    BY <1>0, <2>1, <2>2 DEF KeyedSource, HasKeys, Planned, Barred
  <2> QED BY <2>1, <2>3 DEF Keyed, KeyedSource, Emptied
<1>4. ASSUME NEW s \in Source, NEW p \in Policy \cup {None}, Configure(s, p)
      PROVE  Keyed'
  <2>1. /\ \A t \in Source : ~Began(t) /\ ~Open(t) /\ ~Began(t)' /\ ~Open(t)'
        /\ UNCHANGED <<items, seen, evicted, deleted, phase>> /\ phase = "idle"
    BY <1>4, QuietPc DEF Configure, Open, Began
  <2> QED BY <1>0, <2>1 DEF Keyed, KeyedSource, HasKeys, Planned, Barred, Emptied
<1>5. CASE UNCHANGED vars
  BY <1>0, <1>5 DEF Keyed, KeyedSource, HasKeys, Planned, HadKeys, Barred, WasBarred,
     Emptied, Open, Began, Subscribed
<1>6. ~Crash
  BY DEF Orderly, Crash
<1> QED
  BY <1>1, <1>2, <1>3, <1>4, <1>5, <1>6 DEF Next, Trouble, Edit

LEMMA KeyedHolds ==
  ASSUME Orderly PROVE Spec => []Keyed
<1>1. Init => Keyed
  BY DEF Init, Keyed, KeyedSource, HasKeys, Planned, Barred, Began, Emptied
<1>2. TypeOK /\ Ownership /\ Transaction /\ Joined /\ Keyed /\ [Next]_vars
        => Keyed'
  BY KeyedStep
<1>3. Spec => []Joined
  BY JoinedHolds DEF Orderly
<1> QED
  BY <1>1, <1>2, <1>3, TypeCorrect, OwnershipHolds, TransactionHolds, PTL
     DEF Spec

\* "Deleted stays deleted" (docs/git-model.md), source by source: a capture
\* never brings back to a source what was deleted from it by hand, as long as
\* no run panics or crashes between an item and its key.
THEOREM DeletionsStay ==
  ASSUME Orderly PROVE Spec => DeletedStaysDeleted
<1>1. TypeOK /\ Ownership /\ Transaction /\ Keyed /\ [Next]_vars =>
        [\A s \in Source : Added(s) \cap deleted[s] = {}]_vars
  <2> SUFFICES ASSUME TypeOK, Ownership, Transaction, Keyed, [Next]_vars,
                      NEW s \in Source, NEW a \in Added(s), a \in deleted[s]
               PROVE  FALSE
    OBVIOUS
  <2>1. PersistItem(s) /\ a = writing[s]
    BY OnlyPersisted
  <2>2. writing[s] \in Picked(s) /\ Began(s)
    BY <2>1 DEF PersistItem, InFlight, Transaction, Accurate, Chosen, Began
  <2>3. WasBarred(s)
    BY <2>2 DEF Keyed, KeyedSource
  <2> QED BY <2>1, <2>2, <2>3 DEF Picked, Suppressed, WasBarred
<1>2. Spec => []Keyed
  BY KeyedHolds
<1> QED
  BY <1>1, <1>2, TypeCorrect, OwnershipHolds, TransactionHolds, PTL
     DEF Spec, DeletedStaysDeleted

-----------------------------------------------------------------------------
(* The stage implements the ledger. *)

Archive == [s \in Source |-> IF Open(s) THEN before[s].items ELSE items[s]]
Keys == [s \in Source |-> IF Open(s) THEN before[s].seen ELSE seen[s]]

\* A step that shows neither in the archive nor in the keys.
LEMMA Stutters ==
  ASSUME \A t \in Source : Archive'[t] = Archive[t] /\ Keys'[t] = Keys[t]
  PROVE  UNCHANGED <<Archive, Keys>>
BY DEF Archive, Keys

\* The step of a task shows when its links commit, and only then.
LEMMA TaskImplements ==
  ASSUME TypeOK, Ownership, Transaction, Keyed, NEW s \in Source,
         Task(s) \/ Fail(s) \/ Panic(s), phase = "fetching"
  PROVE  Ledger!Next \/ UNCHANGED <<Archive, Keys>>
<1>0. \A t \in Source \ {s} : Same(t)
  BY FetchingFrame, StoringFrame, TroubleFrame DEF Task
<1>1. \A t \in Source \ {s} : Archive'[t] = Archive[t] /\ Keys'[t] = Keys[t]
  BY <1>0 DEF Archive, Keys, Open, Same
<1>2. CASE Commit(s)
  <2>0. PICK batch \in SUBSET Article : batch = stored[s] \ before[s].items
    BY DEF TypeOK
  <2>1. Open(s) /\ ~Open(s)' /\ Began(s)
    BY <1>2 DEF Commit, Open, Began
  <2>2. /\ Archive[s] = before[s].items /\ Keys[s] = before[s].seen
        /\ Archive'[s] = before[s].items \cup batch
        /\ Keys'[s] = before[s].seen \cup stored[s]
    BY <1>2, <2>0, <2>1 DEF Commit, SameDisk, Archive, Keys
  <2>3. HadKeys(s)
    BY <2>1 DEF Keyed, KeyedSource
  <2>4. Keys'[s] = before[s].seen \cup batch
    BY <2>0, <2>2, <2>3 DEF HadKeys
  <2>5. \A t \in Source : batch \cap Archive[t] \cap Linked = {}
    <3>1. batch \subseteq items[s]
      BY <1>2, <2>0 DEF Commit
    <3>2. \A t \in Source : Archive[t] \subseteq items[t]
      BY DEF Archive, Ownership, Snapshots
    <3>3. \A t \in Source \ {s} : items[s] \cap items[t] \cap Linked = {}
      BY DEF Ownership, Exclusive, Footprint
    <3> QED BY <2>0, <2>2, <3>1, <3>2, <3>3
  <2>6. batch \cap Archive[s] = {}
    BY <2>0, <2>2
  <2>7. /\ Archive' = [Archive EXCEPT ![s] = @ \cup batch]
        /\ Keys' = [Keys EXCEPT ![s] = @ \cup batch]
    BY <1>1, <2>2, <2>4 DEF Archive, Keys
  <2>8. Ledger!Capture(s, batch)
    BY <2>5, <2>6, <2>7 DEF Ledger!Capture, Archive, Keys
  <2> QED BY <2>8 DEF Ledger!Next
<1>3. CASE ~Commit(s)
  <2> USE DEF Archive, Keys, Began
  <2>1. CASE Snap(s)
    <3>1. ~Open(s) /\ ~Open(s)'
      BY <2>1 DEF Snap, Open
    <3>2. Archive'[s] = Archive[s] /\ Keys'[s] = Keys[s]
      BY <2>1, <3>1 DEF Snap
    <3> QED BY <1>1, <3>2, Stutters
  <2>2. CASE Move(s) \/ Validate(s)
    <3>1. Open(s)' /\ ~Open(s) =>
            items[s] = before[s].items /\ seen[s] = before[s].seen
      BY <2>2, Unwritten DEF Move, Validate, Open, Transaction
    <3>2. Open(s) => Open(s)'
      BY <2>2 DEF Move, Validate, Open
    <3>3. Archive'[s] = Archive[s] /\ Keys'[s] = Keys[s]
      BY <2>2, <3>1, <3>2 DEF Move, Validate, SameDisk
    <3> QED BY <1>1, <3>3, Stutters
  <2>3. CASE Land(s)
    <3>1. pc[s] = "storing"
      BY <2>3 DEF Land, PersistItem, InFlight, Transaction, Accurate, Chosen,
                  Undone, Undoing
    <3>2. Open(s) /\ Open(s)' /\ before'[s] = before[s]
      BY <2>3, <3>1 DEF Land, Open
    <3>3. Archive'[s] = Archive[s] /\ Keys'[s] = Keys[s]
      BY <3>2
    <3> QED BY <1>1, <3>3, Stutters
  <2>4. CASE Book(s) \/ Clear(s)
    <3>1. Open(s) /\ Open(s)' /\ before'[s] = before[s]
      BY <2>4 DEF Book, Clear, Open
    <3>2. Archive'[s] = Archive[s] /\ Keys'[s] = Keys[s]
      BY <3>1
    <3> QED BY <1>1, <3>2, Stutters
  <2>5. CASE Undo(s)
    <3>1. /\ ~Open(s)' /\ items'[s] = before[s].items
          /\ seen'[s] = before[s].seen
      BY <2>5 DEF Undo, Undoing, Open
    <3>2. ~Open(s) =>
            items[s] = before[s].items /\ seen[s] = before[s].seen
      <4>1. CASE pc[s] = "fetching"
        BY <4>1, Unwritten DEF Transaction
      <4>2. CASE pc[s] \in Writing
        BY <4>2 DEF Open
      <4>3. CASE pc[s] \notin Writing \cup {"fetching"}
        <5>1. ~Fail(s) /\ ~Panic(s) /\ ~Abort(s)
          BY <4>3 DEF Fail, Panic, Abort
        <5>2. Fetching(s) \/ Reserving(s) \/ Storing(s)
          BY <5>1 DEF Task
        <5>3. seen'[s] = seen[s] /\ items'[s] = items[s]
          BY <4>3, <5>2
             DEF Fetching, Reserving, Storing, Acquire, FetchUnchanged,
                 FetchChanged, RegisterWaiter, ReserveLinks, AwaitRelease,
                 Wake, TrackItem, PersistItem, InFlight, AppendSeen,
                 ClearEvictions, WriteState, CommitReceipt, CommitLinks,
                 Release, diskVars, bookVars, At, Transaction, Accurate, Undone,
                 Undoing, Chosen
        <5> QED BY <3>1, <5>3
      <4> QED BY <4>1, <4>2, <4>3
    <3>3. Archive'[s] = Archive[s] /\ Keys'[s] = Keys[s]
      BY <3>1, <3>2
    <3> QED BY <1>1, <3>3, Stutters
  <2> QED BY <1>3, <2>1, <2>2, <2>3, <2>4, <2>5, TaskEffect
<1> QED BY <1>2, <1>3

\* Outside the tasks items go one by one, and keys with a whole source.
LEMMA ImplementsStep ==
  ASSUME Orderly, TypeOK, Ownership, Transaction, Joined, Keyed, [Next]_vars
  PROVE  Ledger!Next \/ UNCHANGED <<Archive, Keys>>
<1> USE DEF vars, diskVars, bookVars, userVars, linkVars, stageVars, taskVars,
            txVars
<1>1. ASSUME NEW s \in Source, Task(s) \/ Fail(s) \/ Panic(s)
      PROVE  Ledger!Next \/ UNCHANGED <<Archive, Keys>>
  <2>1. Began(s) \/ pc[s] = "queued" \/ writing[s] # None
    BY <1>1 DEF Began, Task, Fetching, Reserving, Storing, Acquire,
       FetchUnchanged, FetchChanged, RegisterWaiter, ReserveLinks,
       AwaitRelease, Wake, TrackItem, PersistItem, InFlight, AppendSeen,
       ClearEvictions, WriteState, CommitReceipt, CommitLinks, Release, Fail,
       Panic, Abort, At
  <2>2. phase = "fetching"
    BY <2>1, Running DEF Began, Joined
  <2> QED BY <1>1, <2>2, TaskImplements
<1>2. ASSUME NEW s \in Source, NEW a \in Article,
             RemoveItem(s, a) \/ DeleteItem(s, a)
      PROVE  Ledger!Next \/ UNCHANGED <<Archive, Keys>>
  <2>1. /\ items' = [items EXCEPT ![s] = @ \ {a}]
        /\ UNCHANGED <<seen, before, pc>>
        /\ \A t \in Source : ~Open(t) /\ ~Open(t)'
    BY <1>2, QuietPc DEF RemoveItem, DeleteItem, Open
  <2>2. Archive = [t \in Source |-> items[t]] /\ Keys = [t \in Source |-> seen[t]]
    BY <2>1 DEF Archive, Keys
  <2>3. /\ Archive' = [t \in Source |-> items'[t]]
        /\ Keys' = [t \in Source |-> seen'[t]]
    BY <2>1 DEF Archive, Keys
  <2>4. CASE a \in items[s]
    <3>1. /\ a \in Archive[s] /\ Archive' = [Archive EXCEPT ![s] = @ \ {a}]
          /\ Keys' = Keys
      BY <2>1, <2>2, <2>3, <2>4 DEF TypeOK
    <3>2. Ledger!Remove(s, a)
      BY <3>1 DEF Ledger!Remove, Archive, Keys
    <3> QED BY <3>2 DEF Ledger!Next
  <2>5. CASE a \notin items[s]
    BY <2>1, <2>2, <2>3, <2>5 DEF TypeOK
  <2> QED BY <2>4, <2>5
<1>3. ASSUME NEW s \in Source, RemoveUnconfigured(s)
      PROVE  Ledger!Next \/ UNCHANGED <<Archive, Keys>>
  <2>1. /\ UNCHANGED <<items, before, pc>>
        /\ \/ seen' = [seen EXCEPT ![s] = {}]
           \/ seen' = seen
        /\ \A t \in Source : ~Open(t) /\ ~Open(t)'
        /\ items[s] = {}
    BY <1>3, QuietPc
       DEF RemoveUnconfigured, Open, Keyed, KeyedSource, Emptied
  <2>2. Archive = [t \in Source |-> items[t]] /\ Keys = [t \in Source |-> seen[t]]
    BY <2>1 DEF Archive, Keys
  <2>3. /\ Archive' = [t \in Source |-> items'[t]]
        /\ Keys' = [t \in Source |-> seen'[t]]
    BY <2>1 DEF Archive, Keys
  <2>4. CASE seen' = [seen EXCEPT ![s] = {}]
    <3>1. /\ Archive[s] = {} /\ Archive' = Archive
          /\ Keys' = [Keys EXCEPT ![s] = {}]
      BY <2>1, <2>2, <2>3, <2>4 DEF TypeOK
    <3>2. Ledger!Forget(s)
      BY <3>1 DEF Ledger!Forget, Archive, Keys
    <3> QED BY <3>2 DEF Ledger!Next
  <2>5. CASE seen' = seen
    BY <2>1, <2>2, <2>3, <2>5
  <2> QED BY <2>1, <2>4, <2>5
<1>4. CASE FinishAbort \/ Report \/ IndexArchive
  <2>1. /\ UNCHANGED <<items, seen>>
        /\ \A t \in Source : ~Open(t) /\ ~Open(t)'
    BY <1>4, QuietPc
       DEF FinishAbort, Report, IndexArchive, ForgetTasks, AllEnded, Open
  <2> QED BY <2>1 DEF Archive, Keys
<1>5. CASE \/ BeginRun \/ PlanRetention \/ EvictionsRecorded \/ ItemsRemoved
          \/ Retained \/ JoinPanicked \/ UNCHANGED vars
          \/ \E u \in Source : RecordEvictions(u)
  <2>1. UNCHANGED <<items, seen, before, pc>>
    BY <1>5 DEF BeginRun, PlanRetention, RecordEvictions, EvictionsRecorded,
       ItemsRemoved, Retained, JoinPanicked
  <2> QED BY <2>1 DEF Archive, Keys, Open
<1>6. ASSUME NEW s \in Source, NEW p \in Policy \cup {None}, Configure(s, p)
      PROVE  UNCHANGED <<Archive, Keys>>
  <2>1. UNCHANGED <<items, seen, before, pc>>
    BY <1>6 DEF Configure
  <2> QED BY <2>1 DEF Archive, Keys, Open
<1>7. ~Crash
  BY DEF Orderly, Crash
<1> QED
  BY <1>1, <1>2, <1>3, <1>4, <1>5, <1>6, <1>7 DEF Next, Stage, Trouble, Edit

\* Seen from outside, the new items of a source and their keys appear in one
\* step, nobody archives a link twice, and keys go only with a whole source:
\* the fetch stage implements the ledger unless a run panics or crashes.
THEOREM FetchImplementsLedger ==
  ASSUME Orderly PROVE Spec => ImplementsLedger
<1>1. Init => Ledger!Init
  BY DEF Init, Open, Ledger!Init
<1>2. TypeOK /\ Ownership /\ Transaction /\ Joined /\ Keyed /\ [Next]_vars =>
        [Ledger!Next]_(Ledger!vars)
  BY ImplementsStep DEF Archive, Keys, Ledger!vars
<1>3. (Spec => []Joined) /\ (Spec => []Keyed)
  BY JoinedHolds, KeyedHolds DEF Orderly
<1> QED
  BY <1>1, <1>2, <1>3, TypeCorrect, OwnershipHolds, TransactionHolds, PTL
     DEF Spec, ImplementsLedger, Ledger!Spec
=============================================================================
