----------------------- MODULE FetchTransactionProofs -----------------------
(***************************************************************************)
(* The transaction of one source, whatever fails, panics or crashes: the   *)
(* entries a task has taken on, the files it wrote, the lists it replaced  *)
(* and the snapshot it can return to agree with its place in the           *)
(* transaction (Transaction). Hence a commit loses no entry of the feed, a *)
(* rollback undoes exactly what was done, and nothing evicted is captured  *)
(* again under the policy that evicted it.                                 *)
(*                                                                         *)
(* A write outlives its task only after a panic (Joined), so the theorem   *)
(* about failures at any time asks that there are none.                    *)
(***************************************************************************)
EXTENDS FetchRunProofs

USE DEF Unreserved, Writing, Closing, Ended, Snapshot

-----------------------------------------------------------------------------
(* The transaction of one source, from the snapshot to its end. *)

Waiting == {"reserving", "checking", "asleep"}
Kept == {"evictions", "state", "receipt", "committing", "releasing"}
Undoing == {"unwinding", "panicking", "failed", "panicked"}

\* Nothing is written before the links are reserved.
Clean(s) == pc[s] \in {"off"} \cup Unreserved =>
  written[s] = {} /\ stored[s] = {} /\ logged[s] = {} /\ writing[s] = None

\* Rollback has a snapshot of whatever the task may have changed.
Snapped(s) == pc[s] \notin {"off", "queued"} =>
  /\ items[s] \subseteq before[s].items \cup written[s]
  /\ "seen" \notin logged[s] => seen[s] = before[s].seen
  /\ "evictions" \notin logged[s] => evicted[s] = before[s].evicted
  /\ "state" \notin logged[s] => validated[s] = before[s].validated

\* What a source may capture, and what its own bookkeeping suppresses.
Suppressed(s) == {a \in before[s].seen :
  a \in before[s].items \/ before[s].evicted[a] \in {None, config[s]}}
Picked(s) == Article \ Suppressed(s)

Chosen(s) ==
  /\ pc[s] \in Waiting \cup {"storing"} => todo[s] \subseteq Picked(s)
  /\ writing[s] # None =>
       writing[s] \in Picked(s) /\ pc[s] \in {"storing", "unwinding", "failed"}

\* Every entry of the feed is to be stored, stored, a duplicate or suppressed.
Accounted(s) == pc[s] \in Waiting \cup {"storing"} \cup Kept =>
  Feed[s] \subseteq todo[s] \cup stored[s] \cup committed \cup Suppressed(s)

\* The files and the bookkeeping follow the items the source has stored.
Stores(s) ==
  /\ pc[s] \in {"storing"} \cup Kept =>
       /\ stored[s] \subseteq items[s] \cap written[s]
       /\ written[s] \subseteq stored[s] \cup {writing[s]}
       /\ held[s] \subseteq Linked \cap (todo[s] \cup stored[s])
  /\ pc[s] \in Writing \cup {"committing"} => written[s] \cap Linked \subseteq held[s]
  /\ pc[s] = "storing" =>
       logged[s] = {} /\ (writing[s] # None => writing[s] \in todo[s])
Books(s) ==
  /\ pc[s] \in Kept => todo[s] = {} /\ seen[s] = before[s].seen \cup stored[s]
  /\ pc[s] = "evictions" => evicted[s] = before[s].evicted
  /\ pc[s] \in Kept \ {"evictions"} => \A a \in Article :
       evicted[s][a] = IF a \in stored[s] THEN None ELSE before[s].evicted[a]

\* Once it is rolled back the source is as it was, but for a detached write.
Undone(s) == pc[s] \in Undoing =>
  /\ seen[s] = before[s].seen
  /\ evicted[s] = before[s].evicted
  /\ validated[s] = before[s].validated
  /\ phase = "fetching" => writing[s] = None /\ items[s] = before[s].items

Accurate(s) ==
  Clean(s) /\ Snapped(s) /\ Chosen(s) /\ Accounted(s) /\ Stores(s) /\ Books(s)
  /\ Undone(s)

\* A link is only called archived while some source has it.
Commits == phase \in {"fetching", "aborting"} =>
  committed \subseteq ever \cap Archived \cap Linked

Transaction == Commits /\ \A s \in Source : Accurate(s)

-----------------------------------------------------------------------------

\* The task and the files of t, and what they are read against.
Same(t) ==
  /\ items'[t] = items[t] /\ seen'[t] = seen[t] /\ evicted'[t] = evicted[t]
  /\ validated'[t] = validated[t] /\ pc'[t] = pc[t] /\ todo'[t] = todo[t]
  /\ held'[t] = held[t] /\ written'[t] = written[t] /\ stored'[t] = stored[t]
  /\ logged'[t] = logged[t] /\ writing'[t] = writing[t]
  /\ before'[t] = before[t]

Onward ==
  /\ UNCHANGED <<config, deleted, phase>>
  /\ committed \subseteq committed' /\ ever \subseteq ever'

LEMMA FetchingFrame ==
  ASSUME TypeOK, NEW s \in Source, Fetching(s) \/ Reserving(s)
  PROVE  Onward /\ \A t \in Source \ {s} : Same(t)
<1> USE DEF diskVars, bookVars, userVars, linkVars, stageVars, txVars, Go, At,
            Onward, Same, TypeOK
<1>1. CASE Acquire(s)
  BY <1>1 DEF Acquire
<1>2. CASE FetchUnchanged(s)
  BY <1>2 DEF FetchUnchanged
<1>3. CASE FetchChanged(s)
  BY <1>3 DEF FetchChanged
<1>4. CASE RegisterWaiter(s)
  BY <1>4 DEF RegisterWaiter
<1>5. CASE ReserveLinks(s)
  BY <1>5 DEF ReserveLinks
<1>6. CASE AwaitRelease(s)
  BY <1>6 DEF AwaitRelease
<1>7. CASE Wake(s)
  BY <1>7 DEF Wake
<1> QED
  BY <1>1, <1>2, <1>3, <1>4, <1>5, <1>6, <1>7 DEF Fetching, Reserving

LEMMA StoringFrame ==
  ASSUME TypeOK, NEW s \in Source, Storing(s)
  PROVE  Onward /\ \A t \in Source \ {s} : Same(t)
<1> USE DEF diskVars, bookVars, userVars, linkVars, stageVars, txVars, Go, At,
            Onward, Same, TypeOK
<1>1. ASSUME NEW a \in Article, TrackItem(s, a)
      PROVE  Onward /\ \A t \in Source \ {s} : Same(t)
  BY <1>1 DEF TrackItem
<1>2. CASE PersistItem(s)
  BY <1>2 DEF PersistItem
<1>3. CASE AppendSeen(s)
  BY <1>3 DEF AppendSeen, Track
<1>4. CASE ClearEvictions(s)
  BY <1>4 DEF ClearEvictions, Track
<1>5. CASE WriteState(s)
  BY <1>5 DEF WriteState, Track
<1>6. CASE CommitReceipt(s)
  BY <1>6 DEF CommitReceipt
<1>7. CASE CommitLinks(s)
  BY <1>7 DEF CommitLinks
<1>8. CASE Release(s)
  BY <1>8 DEF Release
<1> QED
  BY <1>1, <1>2, <1>3, <1>4, <1>5, <1>6, <1>7, <1>8 DEF Storing

LEMMA TroubleFrame ==
  ASSUME TypeOK, NEW s \in Source, Fail(s) \/ Panic(s) \/ Abort(s)
  PROVE  Onward /\ \A t \in Source \ {s} : Same(t)
<1> USE DEF diskVars, bookVars, userVars, linkVars, stageVars, txVars, Go, At,
            Onward, Same, TypeOK, Unwind, RollBack
<1>1. CASE Fail(s)
  BY <1>1 DEF Fail
<1>2. CASE Panic(s)
  BY <1>2 DEF Panic
<1>3. CASE Abort(s)
  BY <1>3 DEF Abort
<1> QED BY <1>1, <1>2, <1>3

\* Its own transaction concerns no other source.
LEMMA OthersAccurate ==
  ASSUME NEW t \in Source, Accurate(t), Same(t), Onward
  PROVE  Accurate(t)'
<1> USE DEF Same, Onward
<1>1. Clean(t)' /\ Snapped(t)'
  BY DEF Accurate, Clean, Snapped
<1>2. Suppressed(t)' = Suppressed(t)
  BY DEF Suppressed
<1>3. Chosen(t)' /\ Accounted(t)'
  BY <1>2 DEF Accurate, Chosen, Accounted, Picked
<1>4. Stores(t)'
  BY DEF Accurate, Stores
<1>5. Books(t)'
  BY DEF Accurate, Books
<1>6. Undone(t)'
  BY DEF Accurate, Undone
<1> QED BY <1>1, <1>3, <1>4, <1>5, <1>6 DEF Accurate

-----------------------------------------------------------------------------
(* The steps of the source itself. *)

LEMMA AcquireAccurate ==
  ASSUME TypeOK, Ownership, NEW s \in Source, Accurate(s), Acquire(s)
  PROVE  Accurate(s)'
<1> USE DEF Acquire, Go, At, diskVars, bookVars, userVars, linkVars, stageVars
<1>1. /\ pc[s] = "queued" /\ pc'[s] = "fetching"
      /\ before'[s] = [items |-> items[s], seen |-> seen[s],
                       evicted |-> evicted[s], validated |-> validated[s]]
      /\ UNCHANGED <<items, seen, evicted, validated, written, stored, logged,
                     writing>>
  BY DEF TypeOK
<1>2. Clean(s)' /\ Snapped(s)'
  BY <1>1 DEF Accurate, Clean, Snapped
<1>3. Chosen(s)' /\ Accounted(s)'
  BY <1>1 DEF Accurate, Clean, Chosen, Accounted, Waiting, Kept
<1>4. Stores(s)' /\ Books(s)' /\ Undone(s)'
  BY <1>1 DEF Stores, Books, Undone, Kept, Undoing
<1> QED BY <1>2, <1>3, <1>4 DEF Accurate

\* Until its links are reserved the disk is as the snapshot has it.
LEMMA Unwritten ==
  ASSUME TypeOK, Ownership, NEW s \in Source, Accurate(s),
         pc[s] \in Unreserved \ {"queued"}
  PROVE  /\ items[s] = before[s].items /\ seen[s] = before[s].seen
         /\ evicted[s] = before[s].evicted /\ validated[s] = before[s].validated
BY DEF Accurate, Clean, Snapped, Ownership, Snapshots

\* The variables a step that only moves a task leaves alone.
LEMMA MovedAccurate ==
  ASSUME TypeOK, Ownership, NEW s \in Source, Accurate(s),
         pc[s] \in Unreserved \ {"queued"},
         pc'[s] \in Waiting \cup {"done"},
         pc'[s] \in Waiting => pc[s] \in Waiting,
         UNCHANGED <<items, seen, evicted, validated, config, committed,
                     phase, todo, held, txVars>>
  PROVE  Accurate(s)'
<1> USE DEF Waiting, txVars
<1>1. Clean(s)' /\ Snapped(s)'
  BY DEF Accurate, Clean, Snapped
<1>2. Suppressed(s)' = Suppressed(s)
  BY DEF Suppressed
<1>3. Chosen(s)' /\ Accounted(s)'
  BY <1>2 DEF Accurate, Clean, Chosen, Accounted, Kept, Picked
<1>4. Stores(s)' /\ Books(s)' /\ Undone(s)'
  BY DEF Stores, Books, Undone, Kept, Undoing
<1> QED BY <1>1, <1>3, <1>4 DEF Accurate

LEMMA FetchingAccurate ==
  ASSUME TypeOK, Ownership, NEW s \in Source, Accurate(s),
         Fetching(s) \/ Reserving(s)
  PROVE  Accurate(s)'
<1> USE DEF diskVars, bookVars, userVars, linkVars, stageVars, txVars, Go, At,
            Waiting
<1>1. CASE Acquire(s)
  BY <1>1, AcquireAccurate
<1>2. CASE FetchUnchanged(s)
  <2>1. pc[s] = "fetching" /\ pc'[s] = "done"
    BY <1>2 DEF FetchUnchanged, TypeOK
  <2> QED BY <1>2, <2>1, MovedAccurate DEF FetchUnchanged
<1>3. CASE FetchChanged(s)
  <2> USE <1>3 DEF FetchChanged, txVars
  <2>1. /\ pc[s] = "fetching" /\ pc'[s] = "reserving"
        /\ todo'[s] = Candidates(s)
    BY DEF TypeOK
  <2>2. Clean(s)' /\ Snapped(s)'
    BY <2>1 DEF Accurate, Clean, Snapped
  <2>3. Suppressed(s)' = Suppressed(s)
    BY DEF Suppressed
  <2>4. Candidates(s) \subseteq Picked(s)
    BY <2>1, Unwritten, ConstantsAssumption
       DEF Candidates, Readmitted, Eligible, Picked, Suppressed
  <2>5. Feed[s] \subseteq Candidates(s) \cup committed \cup Suppressed(s)
    BY <2>1, Unwritten, ConstantsAssumption
       DEF Candidates, Readmitted, Eligible, Suppressed
  <2>6. Chosen(s)' /\ Accounted(s)'
    BY <2>1, <2>3, <2>4, <2>5
       DEF Accurate, Clean, Chosen, Accounted, Kept, Picked
  <2>7. Stores(s)' /\ Books(s)' /\ Undone(s)'
    BY <2>1 DEF Stores, Books, Undone, Kept, Undoing
  <2> QED BY <2>2, <2>6, <2>7 DEF Accurate
<1>4. CASE RegisterWaiter(s)
  <2>1. pc[s] = "reserving" /\ pc'[s] = "checking"
    BY <1>4 DEF RegisterWaiter, TypeOK
  <2> QED BY <1>4, <2>1, MovedAccurate DEF RegisterWaiter
<1>5. CASE ReserveLinks(s)
  <2> USE <1>5 DEF ReserveLinks, txVars
  <2>1. /\ pc[s] = "checking" /\ pc'[s] = "storing"
        /\ todo'[s] = todo[s] \ committed
        /\ held'[s] = Wanted(s) \ committed
    BY DEF TypeOK
  <2>2. written[s] = {} /\ stored[s] = {} /\ logged[s] = {} /\ writing[s] = None
    BY <2>1 DEF Accurate, Clean
  <2>3. Clean(s)' /\ Snapped(s)'
    BY <2>1 DEF Accurate, Clean, Snapped
  <2>4. Suppressed(s)' = Suppressed(s)
    BY DEF Suppressed
  <2>5. Chosen(s)' /\ Accounted(s)'
    BY <2>1, <2>2, <2>4 DEF Accurate, Chosen, Accounted, Picked
  <2>6. Stores(s)'
    BY <2>1, <2>2 DEF Stores, Kept, Wanted
  <2>7. Books(s)' /\ Undone(s)'
    BY <2>1 DEF Books, Undone, Kept, Undoing
  <2> QED BY <2>3, <2>5, <2>6, <2>7 DEF Accurate
<1>6. CASE AwaitRelease(s)
  <2>1. pc[s] = "checking" /\ pc'[s] = "asleep"
    BY <1>6 DEF AwaitRelease, TypeOK
  <2> QED BY <1>6, <2>1, MovedAccurate DEF AwaitRelease
<1>7. CASE Wake(s)
  <2>1. pc[s] = "asleep" /\ pc'[s] = "reserving"
    BY <1>7 DEF Wake, TypeOK
  <2> QED BY <1>7, <2>1, MovedAccurate DEF Wake
<1> QED
  BY <1>1, <1>2, <1>3, <1>4, <1>5, <1>6, <1>7 DEF Fetching, Reserving

\* What a source may capture does not change while its snapshot stands.
LEMMA SuppressedSame ==
  ASSUME NEW s \in Source, UNCHANGED <<before, config>>
  PROVE  Suppressed(s)' = Suppressed(s)
BY DEF Suppressed

LEMMA ItemAccurate ==
  ASSUME TypeOK, Ownership, NEW s \in Source, Accurate(s),
         \/ \E a \in Article : TrackItem(s, a)
         \/ PersistItem(s)
  PROVE  Accurate(s)'
<1> USE DEF diskVars, bookVars, userVars, linkVars, stageVars, Go, At
<1>0. None \notin Article /\ Linked \subseteq Article /\ written[s] \subseteq Article
  BY ConstantsAssumption DEF TypeOK
<1>1. ASSUME NEW a \in Article, TrackItem(s, a)
      PROVE  Accurate(s)'
  <2> USE <1>1 DEF TrackItem
  <2>1. /\ pc[s] = "storing" /\ a \in todo[s]
        /\ written'[s] = written[s] \cup {a} /\ writing'[s] = a
        /\ writing[s] = None
        /\ UNCHANGED <<items, seen, evicted, validated, config, committed,
                       phase, pc, todo, held, stored, logged, before>>
    BY DEF TypeOK
  <2>2. Clean(s)' /\ Snapped(s)'
    BY <2>1 DEF Accurate, Clean, Snapped
  <2>3. Chosen(s)' /\ Accounted(s)'
    BY <2>1, SuppressedSame DEF Accurate, Chosen, Accounted, Picked
  <2>4. a \in Linked => a \in held[s]
    BY <2>1 DEF Ownership, Reservations
  <2>5. Stores(s)'
    BY <2>1, <2>4, <1>0 DEF Accurate, Stores, Kept
  <2>6. Books(s)' /\ Undone(s)'
    BY <2>1 DEF Accurate, Books, Undone, Kept, Undoing
  <2> QED BY <2>2, <2>3, <2>5, <2>6 DEF Accurate
<1>2. CASE PersistItem(s)
  <2> USE <1>2 DEF PersistItem, InFlight
  <2>1. /\ writing[s] # None
        /\ items'[s] = items[s] \cup {writing[s]} /\ writing'[s] = None
        /\ UNCHANGED <<seen, evicted, validated, config, committed, phase,
                       pc, held, written, logged, before>>
    BY DEF TypeOK
  <2>2. /\ pc[s] = "storing" => /\ stored'[s] = stored[s] \cup {writing[s]}
                                /\ todo'[s] = todo[s] \ {writing[s]}
        /\ pc[s] # "storing" => UNCHANGED <<stored, todo>>
    BY DEF TypeOK
  <2>3. /\ writing[s] \in written[s] /\ writing[s] \in Article
        /\ pc[s] \in {"storing", "unwinding", "failed"}
    BY <2>1 DEF Accurate, Chosen, Ownership, Snapshots, Picked
  <2>4. Clean(s)' /\ Snapped(s)'
    BY <2>1, <2>3 DEF Accurate, Clean, Snapped
  <2>5. Chosen(s)' /\ Accounted(s)'
    BY <2>1, <2>2, <2>3, SuppressedSame
       DEF Accurate, Chosen, Accounted, Picked, Waiting, Kept
  <2>6. Stores(s)'
    BY <2>1, <2>2, <2>3, <1>0 DEF Accurate, Stores, Kept
  <2>7. Books(s)'
    BY <2>1, <2>3 DEF Accurate, Books, Kept
  <2>8. Undone(s)'
    BY <2>1, <2>3 DEF Accurate, Undone, Undoing
  <2> QED BY <2>4, <2>5, <2>6, <2>7, <2>8 DEF Accurate
<1> QED BY <1>1, <1>2

LEMMA BooksAccurate ==
  ASSUME TypeOK, Ownership, NEW s \in Source, Accurate(s),
         AppendSeen(s) \/ ClearEvictions(s) \/ WriteState(s)
  PROVE  Accurate(s)'
<1> USE DEF diskVars, bookVars, userVars, linkVars, stageVars, txVars, Go, At,
            Kept
<1>0. None \notin Article /\ written[s] \subseteq Article /\ stored[s] \subseteq Article
  BY ConstantsAssumption DEF TypeOK
<1>1. CASE AppendSeen(s)
  <2> USE <1>1 DEF AppendSeen, Track
  <2>1. /\ pc[s] = "storing" /\ pc'[s] = "evictions"
        /\ todo[s] = {} /\ writing[s] = None
        /\ UNCHANGED <<items, evicted, validated, config, committed, phase,
                       todo, held, written, stored, writing, before>>
    BY DEF TypeOK
  <2>2. logged[s] = {} /\ seen[s] = before[s].seen /\ evicted[s] = before[s].evicted
    BY <2>1 DEF Accurate, Stores, Snapped
  <2>3. /\ \/ "seen" \in logged'[s]
           \/ seen'[s] = before[s].seen
        /\ logged'[s] \subseteq {"seen"}
        /\ seen'[s] = before[s].seen \cup stored[s]
    <3>1. CASE stored[s] \ before[s].seen # {}
      BY <2>2, <3>1 DEF TypeOK
    <3>2. CASE ~(stored[s] \ before[s].seen # {})
      BY <2>2, <3>2
    <3> QED BY <3>1, <3>2
  <2>4. Clean(s)'
    BY <2>1 DEF Clean
  <2>5. Snapped(s)'
    BY <2>1, <2>2, <2>3 DEF Accurate, Snapped
  <2>6. Chosen(s)' /\ Accounted(s)'
    BY <2>1, SuppressedSame DEF Accurate, Chosen, Accounted, Picked, Waiting
  <2>7. Stores(s)'
    BY <2>1 DEF Accurate, Stores
  <2>8. Books(s)' /\ Undone(s)'
    BY <2>1, <2>2, <2>3 DEF Books, Undone, Undoing
  <2> QED BY <2>4, <2>5, <2>6, <2>7, <2>8 DEF Accurate
<1>2. CASE ClearEvictions(s)
  <2> USE <1>2 DEF ClearEvictions, Track
  <2>1. /\ pc[s] = "evictions" /\ pc'[s] = "state"
        /\ UNCHANGED <<items, seen, validated, config, committed, phase,
                       todo, held, written, stored, writing, before>>
    BY DEF TypeOK
  <2>3. /\ \/ "evictions" \in logged'[s]
           \/ evicted'[s] = before[s].evicted
        /\ logged[s] \subseteq logged'[s]
        /\ "state" \in logged'[s] => "state" \in logged[s]
        /\ \A a \in Article :
             evicted'[s][a] = IF a \in stored[s] THEN None ELSE before[s].evicted[a]
    <3>0. evicted[s] = before[s].evicted
      BY <2>1 DEF Accurate, Books
    <3>1. CASE \E a \in stored[s] : evicted[s][a] # None
      BY <3>0, <3>1 DEF TypeOK
    <3>2. CASE ~\E a \in stored[s] : evicted[s][a] # None
      BY <3>0, <3>2
    <3> QED BY <3>1, <3>2
  <2>4. Clean(s)'
    BY <2>1 DEF Clean
  <2>5. Snapped(s)'
    BY <2>1, <2>3 DEF Accurate, Snapped
  <2>6. Chosen(s)' /\ Accounted(s)'
    BY <2>1, SuppressedSame DEF Accurate, Chosen, Accounted, Picked, Waiting
  <2>7. Stores(s)'
    BY <2>1 DEF Accurate, Stores
  <2>8. Books(s)' /\ Undone(s)'
    BY <2>1, <2>3 DEF Accurate, Books, Undone, Undoing
  <2> QED BY <2>4, <2>5, <2>6, <2>7, <2>8 DEF Accurate
<1>3. CASE WriteState(s)
  <2> USE <1>3 DEF WriteState, Track
  <2>1. /\ pc[s] = "state" /\ pc'[s] = "receipt"
        /\ UNCHANGED <<items, seen, evicted, config, committed, phase,
                       todo, held, written, stored, writing, before>>
    BY DEF TypeOK
  <2>3. /\ \/ "state" \in logged'[s]
           \/ UNCHANGED validated /\ logged'[s] = logged[s]
        /\ logged'[s] \ {"state"} = logged[s] \ {"state"}
    BY DEF TypeOK
  <2>4. Clean(s)'
    BY <2>1 DEF Clean
  <2>5. Snapped(s)'
    BY <2>1, <2>3 DEF Accurate, Snapped
  <2>6. Chosen(s)' /\ Accounted(s)'
    BY <2>1, SuppressedSame DEF Accurate, Chosen, Accounted, Picked, Waiting
  <2>7. Stores(s)'
    BY <2>1 DEF Accurate, Stores
  <2>8. Books(s)' /\ Undone(s)'
    BY <2>1 DEF Accurate, Books, Undone, Undoing
  <2> QED BY <2>4, <2>5, <2>6, <2>7, <2>8 DEF Accurate
<1> QED BY <1>1, <1>2, <1>3

LEMMA ClosingAccurate ==
  ASSUME TypeOK, Ownership, NEW s \in Source, Accurate(s),
         CommitReceipt(s) \/ CommitLinks(s) \/ Release(s)
  PROVE  Accurate(s)'
<1> USE DEF diskVars, bookVars, userVars, linkVars, stageVars, txVars, Go,
            Kept, Undoing
<1>1. /\ UNCHANGED <<items, seen, evicted, validated, config, phase, todo,
                     written, stored, logged, writing, before>>
      /\ committed \subseteq committed'
      /\ held'[s] \in {held[s], {}}
  BY DEF CommitReceipt, CommitLinks, Release, TypeOK
<1>2. \/ pc[s] = "receipt" /\ pc'[s] = "committing"
      \/ pc[s] = "committing" /\ pc'[s] = "releasing"
      \/ pc[s] = "releasing" /\ pc'[s] = "done"
      \/ pc[s] = "unwinding" /\ pc'[s] = "failed"
      \/ pc[s] = "panicking" /\ pc'[s] = "panicked"
  BY DEF CommitReceipt, CommitLinks, Release, Outcome, TypeOK
<1>3. pc[s] \in {"receipt", "committing"} => held'[s] = held[s]
  BY DEF CommitReceipt, CommitLinks, Release
<1>4. Clean(s)'
  BY <1>2 DEF Clean
<1>5. Snapped(s)'
  BY <1>1, <1>2 DEF Accurate, Snapped
<1>6. Chosen(s)' /\ Accounted(s)'
  BY <1>1, <1>2, SuppressedSame
     DEF Accurate, Chosen, Accounted, Picked, Waiting
<1>7. Stores(s)'
  BY <1>1, <1>2, <1>3 DEF Accurate, Stores
<1>8. Books(s)' /\ Undone(s)'
  BY <1>1, <1>2 DEF Accurate, Books, Undone
<1> QED BY <1>4, <1>5, <1>6, <1>7, <1>8 DEF Accurate

\* Rolling back brings back exactly what the snapshot has.
LEMMA RolledBackClean ==
  ASSUME TypeOK, Ownership, NEW s \in Source, Accurate(s), RollBack(s),
         pc[s] \notin {"off", "queued"}
  PROVE  /\ items'[s] = before[s].items /\ seen'[s] = before[s].seen
         /\ evicted'[s] = before[s].evicted
         /\ validated'[s] = before[s].validated
<1>1. before[s].items \subseteq items[s]
  BY DEF Ownership, Snapshots
<1>2. items'[s] = before[s].items
  BY <1>1 DEF Accurate, Snapped, RollBack, TypeOK
<1> QED BY <1>2 DEF Accurate, Snapped, RollBack, TypeOK

LEMMA UnwindAccurate ==
  ASSUME TypeOK, Ownership, NEW s \in Source, Accurate(s),
         NEW next \in {"failed", "unwinding", "panicked", "panicking"},
         Unwind(s, next), UNCHANGED phase, pc[s] \notin {"off", "queued"},
         writing'[s] \in {None, writing[s]},
         phase = "fetching" => writing'[s] = None,
         writing'[s] # None => pc[s] = "storing" /\ next = "unwinding"
  PROVE  Accurate(s)'
<1> USE DEF Unwind, userVars, Kept, Undoing, Waiting
<1>1. /\ pc'[s] = next /\ todo'[s] = {}
      /\ UNCHANGED <<config, committed, held, written, stored, logged, before>>
  BY DEF Go, TypeOK
<1>2. /\ items'[s] = before[s].items /\ seen'[s] = before[s].seen
      /\ evicted'[s] = before[s].evicted /\ validated'[s] = before[s].validated
  BY RolledBackClean
<1>3. Clean(s)'
  BY <1>1 DEF Clean
<1>4. Snapped(s)'
  BY <1>1, <1>2 DEF Snapped
<1>5. Chosen(s)' /\ Accounted(s)'
  BY <1>1, SuppressedSame DEF Accurate, Chosen, Accounted, Picked
<1>6. Stores(s)' /\ Books(s)'
  BY <1>1 DEF Stores, Books
<1>7. Undone(s)'
  BY <1>1, <1>2 DEF Undone
<1> QED BY <1>3, <1>4, <1>5, <1>6, <1>7 DEF Accurate

LEMMA TroubleAccurate ==
  ASSUME TypeOK, Ownership, NEW s \in Source, Accurate(s),
         Fail(s) \/ Panic(s) \/ Abort(s)
  PROVE  Accurate(s)'
<1>1. CASE Fail(s)
  <2>1. PICK next \in {"failed", "unwinding"} : Unwind(s, next)
    BY <1>1 DEF Fail
  <2> QED BY <1>1, <2>1, UnwindAccurate DEF Fail, TypeOK
<1>2. CASE Panic(s)
  <2>1. PICK next \in {"panicked", "panicking"} : Unwind(s, next)
    BY <1>2 DEF Panic
  <2> QED BY <1>2, <2>1, UnwindAccurate DEF Panic, TypeOK
<1>3. CASE Abort(s)
  <2>0. UNCHANGED <<phase, writing>> /\ phase = "aborting"
    BY <1>3 DEF Abort
  <2>1. CASE pc[s] = "queued"
    <3>1. Unwind(s, "off")
      BY <1>3, <2>1 DEF Abort
    <3>2. /\ pc'[s] = "off"
          /\ UNCHANGED <<written, stored, logged, writing, before>>
      BY <3>1, <2>0 DEF Unwind, Go, TypeOK
    <3>3. Clean(s)' /\ Chosen(s)'
      BY <2>1, <3>2 DEF Accurate, Clean, Chosen, Waiting
    <3> QED
      BY <3>2, <3>3 DEF Accurate, Snapped, Accounted, Stores, Books, Undone,
                        Waiting, Kept, Undoing
  <2>2. CASE pc[s] \in {"fetching", "asleep"}
    <3>1. Unwind(s, "failed") /\ writing[s] = None
      BY <1>3, <2>2 DEF Abort, Accurate, Clean
    <3> QED BY <2>0, <2>2, <3>1, UnwindAccurate
  <2>3. CASE pc[s] \in {"storing", "state"}
    <3>1. Unwind(s, "unwinding")
      BY <1>3, <2>3 DEF Abort
    <3>2. writing[s] # None => pc[s] = "storing"
      BY <2>3 DEF Accurate, Chosen
    <3> QED BY <2>0, <2>3, <3>1, <3>2, UnwindAccurate
  <2> QED BY <1>3, <2>1, <2>2, <2>3 DEF Abort
<1> QED BY <1>1, <1>2, <1>3

-----------------------------------------------------------------------------
(* Between and around the tasks. *)

\* With no task running there is no transaction to be accurate about.
LEMMA OffAccurate ==
  ASSUME NEW s \in Source, pc'[s] \in {"off", "queued"}, written'[s] = {},
         stored'[s] = {}, logged'[s] = {}, writing'[s] = None
  PROVE  Accurate(s)'
BY DEF Accurate, Clean, Snapped, Chosen, Accounted, Stores, Books, Undone,
       Waiting, Kept, Undoing

LEMMA ForgetAccurate ==
  ASSUME ForgetTasks, phase' \notin {"fetching", "aborting"}
  PROVE  Transaction'
<1>1. ASSUME NEW s \in Source PROVE Accurate(s)'
  BY OffAccurate DEF ForgetTasks
<1>2. Commits'
  BY DEF Commits
<1> QED BY <1>1, <1>2 DEF Transaction

LEMMA QuietAccurate ==
  ASSUME TypeOK, Ownership, Transaction, phase \notin {"fetching", "aborting"},
         phase' \notin {"fetching", "aborting"}, UNCHANGED taskVars
  PROVE  Transaction'
<1>1. ASSUME NEW s \in Source PROVE Accurate(s)'
  <2>1. /\ pc[s] = "off" /\ written[s] = {} /\ stored[s] = {}
        /\ logged[s] = {} /\ writing[s] = None
    BY DEF Transaction, Accurate, Clean, Ownership, Quiet
  <2> QED BY <2>1, OffAccurate DEF taskVars, txVars
<1>2. Commits'
  BY DEF Commits
<1> QED BY <1>1, <1>2 DEF Transaction

LEMMA IndexAccurate ==
  ASSUME TypeOK, Ownership, Transaction, IndexArchive PROVE Transaction'
<1> USE DEF IndexArchive
<1>1. ASSUME NEW s \in Source PROVE Accurate(s)'
  <2>1. /\ pc[s] = "off" /\ written[s] = {} /\ stored[s] = {}
        /\ logged[s] = {} /\ writing[s] = None
    BY DEF Transaction, Accurate, Clean, Ownership, Quiet
  <2>2. pc'[s] \in {"off", "queued"}
    OBVIOUS
  <2> QED BY <2>1, <2>2, OffAccurate DEF txVars
<1>2. Commits'
  BY DEF Commits, Archived, diskVars
<1> QED BY <1>1, <1>2 DEF Transaction

\* A link stays archived while tasks run: what a rollback removes is reserved,
\* and a source that commits has stored what it held.
LEMMA TaskCommits ==
  ASSUME TypeOK, Ownership, Transaction, NEW s \in Source,
         Task(s) \/ Fail(s) \/ Panic(s)
  PROVE  Commits'
<1>0. Onward /\ \A t \in Source \ {s} : Same(t)
  BY FetchingFrame, StoringFrame, TroubleFrame DEF Task
<1>1. SUFFICES ASSUME phase \in {"fetching", "aborting"}
               PROVE  committed' \subseteq ever' \cap Archived' \cap Linked
  BY <1>0 DEF Commits, Onward
<1>2. committed \subseteq ever \cap Archived \cap Linked
  BY <1>1 DEF Transaction, Commits
<1>3. Accurate(s)
  BY DEF Transaction
<1>4. CASE CommitLinks(s)
  <2> USE <1>4 DEF CommitLinks, diskVars
  <2>1. held[s] \subseteq stored[s] \cap Linked /\ stored[s] \subseteq items[s]
    BY <1>3 DEF Accurate, Stores, Books, Kept
  <2> QED BY <1>2, <2>1 DEF Archived
<1>5. CASE Fail(s) \/ Panic(s) \/ Abort(s)
  <2> USE <1>5 DEF Fail, Panic, Abort, Unwind, userVars
  <2>0. RollBack(s) /\ UNCHANGED <<committed, ever>>
    OBVIOUS
  <2>1. written[s] \cap committed \subseteq before[s].items \cap written[s]
    <3>1. CASE pc[s] \in Unreserved
      BY <1>3, <3>1 DEF Accurate, Clean
    <3>2. CASE pc[s] \in Writing
      BY <1>2, <1>3, <3>2 DEF Accurate, Stores, Ownership, Reservations
    <3> QED BY <3>1, <3>2
  <2>2. committed \cap items[s] \subseteq items'[s]
    BY <2>0, <2>1 DEF RollBack, TypeOK
  <2> QED BY <1>0, <1>2, <2>0, <2>2 DEF Archived, Same
<1>6. CASE Fetching(s) \/ Reserving(s) \/ Storing(s)
  <2>1. CASE ~CommitLinks(s)
    <3>1. committed' = committed
      BY <1>6, <2>1
         DEF Fetching, Reserving, Storing, Acquire, FetchUnchanged,
             FetchChanged, RegisterWaiter, ReserveLinks, AwaitRelease, Wake,
             TrackItem, PersistItem, AppendSeen, ClearEvictions, WriteState,
             CommitReceipt, Release, linkVars
    <3>2. items[s] \subseteq items'[s]
      BY <1>6, <2>1
         DEF Fetching, Reserving, Storing, Acquire, FetchUnchanged,
             FetchChanged, RegisterWaiter, ReserveLinks, AwaitRelease, Wake,
             TrackItem, PersistItem, AppendSeen, ClearEvictions, WriteState,
             CommitReceipt, Release, diskVars, TypeOK
    <3> QED BY <1>0, <1>2, <3>1, <3>2 DEF Archived, Same, Onward
  <2> QED BY <1>4, <2>1
<1> QED BY <1>4, <1>5, <1>6 DEF Task

LEMMA TransactionStep ==
  TypeOK /\ Ownership /\ Transaction /\ [Next]_vars => Transaction'
<1> SUFFICES ASSUME TypeOK, Ownership, Transaction, [Next]_vars
             PROVE  Transaction'
  OBVIOUS
<1>1. ASSUME NEW s \in Source, Task(s) \/ Fail(s) \/ Panic(s)
      PROVE  Transaction'
  <2>1. Accurate(s)'
    BY <1>1, FetchingAccurate, ItemAccurate, BooksAccurate, ClosingAccurate,
       TroubleAccurate DEF Transaction, Task, Storing
  <2>2. Onward /\ \A t \in Source \ {s} : Same(t)
    BY <1>1, FetchingFrame, StoringFrame, TroubleFrame DEF Task
  <2>3. \A t \in Source \ {s} : Accurate(t)'
    BY <2>2, OthersAccurate DEF Transaction
  <2> QED BY <1>1, <2>1, <2>3, TaskCommits DEF Transaction
<1>2. CASE \/ BeginRun \/ PlanRetention \/ EvictionsRecorded \/ ItemsRemoved
          \/ Retained \/ \E s \in Source : RecordEvictions(s)
  BY <1>2, QuietAccurate DEF BeginRun, PlanRetention, RecordEvictions,
     EvictionsRecorded, ItemsRemoved, Retained, stageVars
<1>3. ASSUME NEW s \in Source, NEW a \in Article,
             RemoveItem(s, a) \/ DeleteItem(s, a)
      PROVE  Transaction'
  BY <1>3, QuietAccurate DEF RemoveItem, DeleteItem, stageVars
<1>4. ASSUME NEW s \in Source,
             RemoveUnconfigured(s) \/ \E p \in Policy \cup {None} : Configure(s, p)
      PROVE  Transaction'
  BY <1>4, QuietAccurate DEF RemoveUnconfigured, Configure, stageVars
<1>5. CASE IndexArchive
  BY <1>5, IndexAccurate
<1>6. CASE FinishAbort \/ Report \/ Crash
  BY <1>6, ForgetAccurate DEF FinishAbort, Report, Crash
<1>7. CASE JoinPanicked
  <2> USE <1>7 DEF JoinPanicked, diskVars, bookVars, userVars, linkVars,
                   taskVars, txVars
  <2>1. ASSUME NEW s \in Source PROVE Accurate(s)'
    BY DEF Transaction, Accurate, Clean, Snapped, Suppressed, Picked, Chosen,
           Accounted, Stores, Books, Undone
  <2>2. Commits'
    BY DEF Transaction, Commits, Archived
  <2> QED BY <2>1, <2>2 DEF Transaction
<1>8. CASE UNCHANGED vars
  BY <1>8 DEF vars, diskVars, bookVars, userVars, linkVars, stageVars,
      taskVars, txVars, Transaction, Commits, Archived, Accurate, Clean,
      Snapped, Suppressed, Picked, Chosen, Accounted, Stores, Books, Undone
<1> QED
  BY <1>1, <1>2, <1>3, <1>4, <1>5, <1>6, <1>7, <1>8
     DEF Next, Stage, Trouble, Edit

\* The log, the snapshot and the bookkeeping of every source agree with its
\* place in the transaction, and committed links are archived.
THEOREM TransactionHolds == Spec => []Transaction
<1>1. Init => Transaction
  <2> SUFFICES ASSUME Init PROVE Transaction
    OBVIOUS
  <2>1. ASSUME NEW s \in Source PROVE Accurate(s)
    BY DEF Init, Accurate, Clean, Snapped, Chosen, Accounted, Stores, Books,
           Undone, Waiting, Kept, Undoing
  <2> QED BY <2>1 DEF Init, Transaction, Commits
<1>2. TypeOK /\ Ownership /\ Transaction /\ [Next]_vars => Transaction'
  BY TransactionStep
<1> QED BY <1>1, <1>2, TypeCorrect, OwnershipHolds, PTL DEF Spec

-----------------------------------------------------------------------------

\* Whatever fails, panics or crashes: when a source commits, every entry of its
\* feed is archived or was suppressed by its own keys for good
\* (fetch_one_inner, fetch/links.rs).
THEOREM NothingIsLost == Spec => []NothingLost
<1>1. Ownership /\ Transaction => NothingLost
  <2> SUFFICES ASSUME Ownership, Transaction, NEW s \in Source,
                      pc[s] = "releasing", phase = "fetching",
                      NEW a \in Feed[s] \ Archived
               PROVE  /\ a \in before[s].seen
                      /\ before[s].evicted[a] \in {None, config[s]}
    BY DEF NothingLost
  <2>1. /\ Feed[s] \subseteq stored[s] \cup committed \cup Suppressed(s)
        /\ stored[s] \subseteq items[s]
    BY DEF Transaction, Accurate, Accounted, Books, Stores, Kept
  <2>2. committed \subseteq Archived /\ items[s] \subseteq Archived
    BY DEF Transaction, Commits, Archived
  <2>3. before[s].items \subseteq items[s]
    BY DEF Ownership, Snapshots
  <2> QED BY <2>1, <2>2, <2>3 DEF Suppressed
<1> QED BY <1>1, TransactionHolds, OwnershipHolds, PTL

\* While the tasks run, and whatever happens to them, a source that failed or
\* panicked has left its items, keys, evictions and validators exactly as it
\* found them (fetch/transaction.rs).
THEOREM FailureUndone == Spec => [](phase = "fetching" => FailedLeavesNoTrace)
<1>1. Transaction /\ TypeOK => (phase = "fetching" => FailedLeavesNoTrace)
  <2> SUFFICES ASSUME Transaction, TypeOK, phase = "fetching", NEW s \in Source,
                      pc[s] \in {"failed", "panicked"}
               PROVE  Current(s) = before[s]
    BY DEF FailedLeavesNoTrace
  <2>1. /\ items[s] = before[s].items /\ seen[s] = before[s].seen
        /\ evicted[s] = before[s].evicted
        /\ validated[s] = before[s].validated
    BY DEF Transaction, Accurate, Undone, Undoing
  <2>2. before[s] \in Snapshot
    BY DEF TypeOK
  <2> QED BY <2>1, <2>2 DEF Current
<1> QED BY <1>1, TransactionHolds, TypeCorrect, PTL

\* Only a panic makes `run` return while tasks are running.
Joined == phase # "aborting" /\ \A s \in Source : pc[s] \notin {"panicking", "panicked"}

LEMMA JoinedStep ==
  ASSUME "panic" \notin Events
  PROVE  TypeOK /\ Joined /\ [Next]_vars => Joined'
<1> SUFFICES ASSUME TypeOK, Joined, [Next]_vars PROVE Joined'
  OBVIOUS
<1> USE DEF Joined, vars, stageVars, taskVars
<1>1. ASSUME NEW s \in Source, Task(s) \/ Fail(s) \/ Panic(s)
      PROVE  Joined'
  <2>1. UNCHANGED phase /\ \A t \in Source \ {s} : pc'[t] = pc[t]
    BY <1>1, FetchingFrame, StoringFrame, TroubleFrame DEF Task, Onward, Same
  <2>2. CASE Fetching(s) \/ Reserving(s)
    <3>1. pc'[s] \notin {"panicking", "panicked"}
      BY <2>2 DEF Fetching, Reserving, Acquire, FetchUnchanged, FetchChanged,
         RegisterWaiter, ReserveLinks, AwaitRelease, Wake, Go, TypeOK
    <3> QED BY <2>1, <3>1
  <2>3. CASE Storing(s)
    <3>1. pc'[s] \notin {"panicking", "panicked"}
      BY <2>3 DEF Storing, TrackItem, PersistItem, AppendSeen, ClearEvictions,
         WriteState, CommitReceipt, CommitLinks, Release, Outcome, Go, TypeOK
    <3> QED BY <2>1, <3>1
  <2>4. CASE Fail(s)
    <3>1. pc'[s] \notin {"panicking", "panicked"}
      BY <2>4 DEF Fail, Unwind, Go, TypeOK
    <3> QED BY <2>1, <3>1
  <2> QED BY <1>1, <2>2, <2>3, <2>4 DEF Task, Panic, Abort
<1>2. CASE \/ BeginRun \/ PlanRetention \/ EvictionsRecorded \/ ItemsRemoved
          \/ Retained \/ IndexArchive \/ \E s \in Source : RecordEvictions(s)
  BY <1>2 DEF BeginRun, PlanRetention, RecordEvictions, EvictionsRecorded,
     ItemsRemoved, Retained, IndexArchive
<1>3. ASSUME NEW s \in Source, NEW a \in Article,
             RemoveItem(s, a) \/ DeleteItem(s, a)
      PROVE  Joined'
  BY <1>3 DEF RemoveItem, DeleteItem
<1>4. ASSUME NEW s \in Source,
             RemoveUnconfigured(s) \/ \E p \in Policy \cup {None} : Configure(s, p)
      PROVE  Joined'
  BY <1>4 DEF RemoveUnconfigured, Configure
<1>5. CASE FinishAbort \/ Report \/ Crash
  BY <1>5 DEF FinishAbort, Report, Crash, ForgetTasks
<1>6. CASE JoinPanicked \/ UNCHANGED vars
  BY <1>6 DEF JoinPanicked
<1> QED
  BY <1>1, <1>2, <1>3, <1>4, <1>5, <1>6 DEF Next, Stage, Trouble, Edit

LEMMA JoinedHolds ==
  ASSUME "panic" \notin Events PROVE Spec => []Joined
<1>1. Init => Joined
  BY DEF Init, Joined
<1>2. TypeOK /\ Joined /\ [Next]_vars => Joined'
  BY JoinedStep
<1> QED BY <1>1, <1>2, TypeCorrect, PTL DEF Spec

\* Without a panic no write outlives its task, and a failed source leaves no
\* trace at any time, crashes included.
THEOREM FailureLeavesNoTrace ==
  ASSUME "panic" \notin Events PROVE Spec => []FailedLeavesNoTrace
<1>1. /\ Ownership /\ Joined /\ (phase = "fetching" => FailedLeavesNoTrace)
      => FailedLeavesNoTrace
  BY DEF Ownership, Quiet, Joined, FailedLeavesNoTrace
<1> QED BY <1>1, OwnershipHolds, JoinedHolds, FailureUndone, PTL

-----------------------------------------------------------------------------

\* An item only ever appears by the write that was handed over for it.
LEMMA OnlyPersisted ==
  ASSUME TypeOK, Ownership, [Next]_vars, NEW s \in Source, NEW a \in Added(s)
  PROVE  PersistItem(s) /\ a = writing[s]
<1> USE DEF Added, vars, diskVars
<1>1. ASSUME NEW t \in Source, Task(t) \/ Fail(t) \/ Panic(t)
      PROVE  PersistItem(s) /\ a = writing[s]
  <2>1. t = s
    BY <1>1, FetchingFrame, StoringFrame, TroubleFrame DEF Task, Same
  <2>2. CASE Fail(t) \/ Panic(t) \/ Abort(t)
    <3>1. RollBack(t)
      BY <2>2 DEF Fail, Panic, Abort, Unwind
    <3> QED BY <2>1, <3>1, RolledBack
  <2>3. CASE PersistItem(t)
    BY <2>1, <2>3 DEF PersistItem, TypeOK
  <2>4. CASE ~PersistItem(t) /\ (Fetching(t) \/ Reserving(t) \/ Storing(t))
    BY <2>4 DEF Fetching, Reserving, Storing, Acquire, FetchUnchanged,
       FetchChanged, RegisterWaiter, ReserveLinks, AwaitRelease, Wake,
       TrackItem, AppendSeen, ClearEvictions, WriteState, CommitReceipt,
       CommitLinks, Release
  <2> QED BY <1>1, <2>2, <2>3, <2>4 DEF Task
<1>2. ASSUME NEW t \in Source, NEW b \in Article,
             RemoveItem(t, b) \/ DeleteItem(t, b)
      PROVE  FALSE
  <2>1. items' = [items EXCEPT ![t] = @ \ {b}]
    BY <1>2 DEF RemoveItem, DeleteItem
  <2>2. items'[s] \subseteq items[s]
    BY <2>1 DEF TypeOK
  <2> QED BY <2>2
<1>3. CASE items' = items
  BY <1>3
<1>4. CASE \/ BeginRun \/ PlanRetention \/ EvictionsRecorded \/ ItemsRemoved
          \/ Retained \/ IndexArchive \/ FinishAbort \/ Report \/ Crash
          \/ JoinPanicked \/ UNCHANGED vars
          \/ \E t \in Source : RecordEvictions(t)
  <2>1. items' = items
    BY <1>4 DEF BeginRun, PlanRetention, RecordEvictions, EvictionsRecorded,
       ItemsRemoved, Retained,
       IndexArchive, FinishAbort, Report, Crash, JoinPanicked
  <2> QED BY <2>1
<1>5. ASSUME NEW t \in Source,
             RemoveUnconfigured(t) \/ \E p \in Policy \cup {None} : Configure(t, p)
      PROVE  items' = items
  BY <1>5 DEF RemoveUnconfigured, Configure
<1> QED
  BY <1>1, <1>2, <1>3, <1>4, <1>5 DEF Next, Stage, Trouble, Edit

\* A write in flight is of an article the source may capture: its keys and
\* evictions are still those of the snapshot.
LEMMA InFlightPicked ==
  ASSUME TypeOK, Transaction, NEW s \in Source, PersistItem(s),
         writing[s] \notin items[s], before[s].items \subseteq items[s]
  PROVE  writing[s] \in seen[s] => evicted[s][writing[s]] \notin {None, config[s]}
<1>1. writing[s] \in Picked(s) /\ pc[s] \in {"storing", "unwinding", "failed"}
  BY DEF PersistItem, InFlight, Transaction, Accurate, Chosen
<1>2. seen[s] = before[s].seen /\ evicted[s] = before[s].evicted
  <2>1. CASE pc[s] = "storing"
    BY <2>1 DEF Transaction, Accurate, Stores, Snapped
  <2>2. CASE pc[s] \in Undoing
    BY <2>2 DEF Transaction, Accurate, Undone
  <2> QED BY <1>1, <2>1, <2>2 DEF Undoing
<1> QED BY <1>1, <1>2 DEF Picked, Suppressed

\* No item is captured again under the policy that evicted it, even by a write
\* that outlived its cancelled task (evictions.rs, fetch_one_inner).
THEOREM NotChurned == Spec => NoChurn
<1>1. TypeOK /\ Ownership /\ Transaction /\ [Next]_vars =>
        [\A s \in Source : \A a \in Added(s) \cap seen[s] :
           evicted[s][a] # config[s]]_vars
  <2> SUFFICES ASSUME TypeOK, Ownership, Transaction, [Next]_vars,
                      NEW s \in Source, NEW a \in Added(s), a \in seen[s]
               PROVE  evicted[s][a] # config[s]
    OBVIOUS
  <2>1. PersistItem(s) /\ a = writing[s] /\ a \notin items[s]
    BY OnlyPersisted DEF Added
  <2>2. before[s].items \subseteq items[s]
    BY DEF Ownership, Snapshots
  <2> QED BY <2>1, <2>2, InFlightPicked
<1> QED
  BY <1>1, TypeCorrect, OwnershipHolds, TransactionHolds, PTL DEF Spec, NoChurn
=============================================================================
