---------------------------- MODULE ServiceWorker ----------------------------
(***************************************************************************)
(* How many articles to keep: the reader's preference                      *)
(* (src/web/src/offline/client.svelte.ts), the messages that carry it to   *)
(* the worker, the worker's activation and configuration                   *)
(* (src/web/src/sw/worker.ts, offline.ts), and the persisted count a later *)
(* activation starts from.  What a configuration downloads is the subject  *)
(* of OfflineArticles and OfflineSearch: here it only ends at some time.   *)
(*                                                                         *)
(* One page.  When a new worker activates, the one before it is terminated *)
(* with the messages it was sent, and the page it controlled changes hands *)
(* at once; an uncontrolled page waits to be claimed.                      *)
(***************************************************************************)
EXTENDS Naturals, Sequences

CONSTANTS
  MaxCount,      \* bound: the largest count
  MaxChanges,    \* bound: changes of the preference
  MaxWorkers,    \* bound: workers activated
  MaxKills       \* bound: workers killed while the page stays

WorkerAssumption ==
  {MaxCount, MaxChanges, MaxWorkers, MaxKills} \subseteq Nat

VARIABLES
  preference, controlled,     \* the page: offline-items, its controller
  inbox,                      \* AGGR_OFFLINE_CONFIG on their way
  activation, read,           \* the activate handler and the count it read
  configuration, task,        \* state.configurationCount, configurationTask
  settingsQueue, persisted,   \* counts to store, and the one stored
  raced,                      \* a message was handled during activation
  changes, workers, kills     \* bounds

pageVars == <<preference, controlled>>
workerVars == <<activation, read, configuration, task, settingsQueue>>
boundVars == <<changes, workers, kills>>
swVars == <<pageVars, inbox, workerVars, persisted, raced, boundVars>>

Count == 0..MaxCount
Null == MaxCount + 1            \* no count: nothing stored, nothing asked for
Default == 0                    \* config.offline_count

Init ==
  /\ preference \in Count /\ controlled = FALSE
  /\ inbox = <<>>
  /\ activation = "none" /\ read = Null
  /\ configuration = Null /\ task = FALSE
  /\ settingsQueue = <<>> /\ persisted = Null
  /\ raced = FALSE
  /\ changes = 0 /\ workers = 0 /\ kills = 0

-----------------------------------------------------------------------------
(* The page.                                                               *)

Prefer(n) ==
  /\ changes < MaxChanges /\ n # preference
  /\ changes' = changes + 1
  /\ preference' = n
  /\ inbox' = IF controlled THEN Append(inbox, n) ELSE inbox
  /\ UNCHANGED <<controlled, workerVars, persisted, raced, workers, kills>>

\* controllerchange: the new worker is told whatever the old one knew.
Announced(queue) == Append(queue, preference)

-----------------------------------------------------------------------------
(* The worker.                                                             *)

\* configureOffline: memory at once, storage in the order of the requests.
\* Mutant: the count is stored only when it is positive.
StoredWhenPositive(n) == IF n > 0 THEN Append(settingsQueue, n) ELSE settingsQueue
Enqueued(n) == Append(settingsQueue, n)

ConfigureOffline(n) ==
  IF configuration = n /\ task
  THEN UNCHANGED <<configuration, task, settingsQueue>>
  ELSE /\ configuration' = n /\ task' = TRUE
       /\ settingsQueue' = Enqueued(n)

Fresh ==
  /\ configuration' = Null /\ task' = FALSE /\ settingsQueue' = <<>>
  /\ read' = Null

\* A build's worker, installed beside the last one, takes over.
BeginActivation ==
  /\ workers < MaxWorkers
  /\ workers' = workers + 1
  /\ activation' = "claiming"
  /\ Fresh
  /\ inbox' = IF controlled THEN Announced(<<>>) ELSE <<>>
  /\ UNCHANGED <<pageVars, persisted, raced, changes, kills>>

\* Stale caches are deleted and every open page is claimed.
Claim ==
  /\ activation = "claiming"
  /\ activation' = "reading"
  /\ controlled' = TRUE
  /\ inbox' = IF controlled THEN inbox ELSE Announced(inbox)
  /\ UNCHANGED <<preference, read, configuration, task, settingsQueue,
                 persisted, raced, boundVars>>

ReadCount ==
  /\ activation = "reading"
  /\ activation' = "applying"
  /\ read' = IF persisted = Null THEN Default ELSE persisted
  /\ UNCHANGED <<pageVars, inbox, configuration, task, settingsQueue,
                 persisted, raced, boundVars>>

ApplyCount ==
  /\ activation = "applying"
  /\ activation' = "done" /\ read' = Null
  /\ ConfigureOffline(read)
  /\ UNCHANGED <<pageVars, inbox, persisted, raced, boundVars>>

\* A message is not held back until the worker is activated.
HandleMessage ==
  /\ activation # "none" /\ inbox # <<>>
  /\ inbox' = Tail(inbox)
  /\ ConfigureOffline(Head(inbox))
  /\ raced' = (activation # "done")
  /\ UNCHANGED <<pageVars, activation, read, persisted, boundVars>>

StoreCount ==
  /\ settingsQueue # <<>>
  /\ persisted' = Head(settingsQueue)
  /\ settingsQueue' = Tail(settingsQueue)
  /\ UNCHANGED <<pageVars, inbox, activation, read, configuration, task,
                 raced, boundVars>>

\* Articles, search and the stored count have all settled.
TaskDone ==
  /\ task /\ settingsQueue = <<>>
  /\ task' = FALSE
  /\ UNCHANGED <<pageVars, inbox, activation, read, configuration,
                 settingsQueue, persisted, raced, boundVars>>

\* The browser kills the worker and starts it again when it is needed.  The
\* page does not notice, and opens anew later on.
Kill ==
  /\ kills < MaxKills
  /\ activation = "done"
  /\ kills' = kills + 1
  /\ Fresh
  /\ UNCHANGED <<pageVars, inbox, activation, persisted, raced, changes, workers>>

\* A page that loads tells the worker that controls it.
Reload ==
  /\ controlled /\ kills > 0 /\ configuration = Null /\ inbox = <<>>
  /\ inbox' = <<preference>>
  /\ UNCHANGED <<pageVars, workerVars, persisted, raced, boundVars>>

Worker == \/ Claim \/ ReadCount \/ ApplyCount \/ HandleMessage
          \/ StoreCount \/ TaskDone \/ Reload

Next == \/ Worker \/ BeginActivation \/ Kill
        \/ \E n \in Count : Prefer(n)

Spec == Init /\ [][Next]_swVars
FairSpec == Spec /\ WF_swVars(Worker)

-----------------------------------------------------------------------------

TypeOK ==
  /\ preference \in Count /\ controlled \in BOOLEAN
  /\ inbox \in Seq(Count) /\ settingsQueue \in Seq(Count)
  /\ activation \in {"none", "claiming", "reading", "applying", "done"}
  /\ {read, configuration, persisted} \subseteq Count \cup {Null}
  /\ {task, raced} \subseteq BOOLEAN
  /\ changes \in 0..MaxChanges /\ workers \in 0..MaxWorkers
  /\ kills \in 0..MaxKills

AtRest ==
  /\ activation = "done" /\ configuration # Null
  /\ inbox = <<>> /\ settingsQueue = <<>> /\ ~task

\* "The preference is the configuration: every change reaches the worker"
\* (client.svelte.ts:83), and a later activation starts from it.
PreferenceReached ==
  AtRest => configuration = preference /\ persisted = preference

\* So it is whenever the worker handled its last message after it had
\* activated, through changes, kills and workers that replace each other.
PreferenceReachedAfterActivation == ~raced => PreferenceReached

\* The page's last word and the worker's memory always come to rest.
ComesToRest == activation # "none" ~> AtRest
=============================================================================
