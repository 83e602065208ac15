----------------------------- MODULE DevServer -----------------------------
(***************************************************************************)
(* `aggr dev` (src/src/commands/server.rs): one background task that loads *)
(* the configuration, syncs, fingerprints, renders and puts the result     *)
(* before the reader, again for every change its file watcher reports,     *)
(* while the files keep being saved.                                       *)
(*                                                                         *)
(* A version stands for the configuration files as saved at some time: the *)
(* one named on the command line and, from Importing on, one that it names *)
(* in a directory of its own, which the watcher learns of from a load.  A  *)
(* snapshot is the version whose settings it was rendered from, and the    *)
(* saves its key hashed.  A change of the theme, which a rendering reads   *)
(* from the disk each time, is left out.                                   *)
(***************************************************************************)
EXTENDS Naturals

CONSTANTS
  Broken,          \* the versions that do not load
  Importing,       \* the first version with a file in another directory
  Elsewhere,       \* the versions saved in that file
  MaxVersion,      \* bound: versions saved
  MaxFaults,       \* bound: failed steps
  MaxRestarts      \* bound: servers started again

DevAssumption ==
  /\ {MaxVersion, MaxFaults, MaxRestarts} \subseteq Nat /\ MaxVersion > 0
  /\ Broken \subseteq 2..MaxVersion
  /\ Importing \in Nat /\ Elsewhere \subseteq (Importing + 1)..MaxVersion

VARIABLES
  saved,                   \* the files
  release,                 \* --release: the snapshot is a directory
  served, disk, staged,    \* MemorySite, the cached build, the staging one
  step, project,           \* the background task, what it loaded
  round, syncs, visible,   \* the refresh; with its sources; what came of it
  watching,                \* the watcher covers the other directory
  events, missed,          \* saves it has reported; or could not, since a load
  failed,                  \* the last round ended in an error
  faults, restarts         \* bounds

snapshotVars == <<served, disk, staged>>
taskVars == <<step, project, round, syncs, visible, failed>>
watchVars == <<watching, events, missed>>
devVars ==
  <<saved, release, snapshotVars, taskVars, watchVars, faults, restarts>>

Version == 1..MaxVersion
Nothing == [of |-> 0, key |-> {}]
Snapshot == [of : Version, key : SUBSET (0..MaxVersion)] \cup {Nothing}

HasImport(version) == version >= Importing

\* The saves that the loaded files of one version hold when another is on the
\* disk; 0 says that the second file is among them.
Hashed(loaded, current) ==
  {v \in 1..current : v \in Elsewhere => HasImport(loaded)}
  \cup {v \in {0} : HasImport(loaded)}

\* Loaded without its sources' remote documents, before the watch is set.
Boot(version, cached) ==
  /\ step' = "boot" /\ project' = version
  /\ round' = "cached" /\ syncs' = FALSE /\ visible' = FALSE
  /\ failed' = FALSE
  /\ watching' = FALSE /\ events' = FALSE /\ missed' = FALSE
  /\ served' = (IF release THEN cached ELSE Nothing)
  /\ staged' = Nothing

Init ==
  /\ saved = 1 /\ release \in BOOLEAN
  /\ served = Nothing /\ disk = Nothing /\ staged = Nothing
  /\ step = "boot" /\ project = 1
  /\ round = "cached" /\ syncs = FALSE /\ visible = FALSE
  /\ watching = FALSE /\ events = FALSE /\ missed = FALSE
  /\ failed = FALSE
  /\ faults = 0 /\ restarts = 0

Go(next) == step' = next /\ UNCHANGED <<project, round, syncs, visible, failed>>

\* A round is over.  The one on cached data is followed by a load, the first
\* with its sources by the start of the watcher, the others by a wait for it.
EndRound(error) ==
  /\ \/ round = "cached" /\ step' = "load"
     \/ round = "first" /\ step' = "start"
     \/ round = "later" /\ step' = "idle"
  /\ round' = IF round = "cached" THEN "first" ELSE "later"
  /\ failed' = error
  /\ visible' = FALSE /\ UNCHANGED <<project, syncs>>

-----------------------------------------------------------------------------

\* Mutant: the watch is set when the first build is there.
WatchedLate == step \in {"idle", "settling"}
\* "Register filesystem watches before the first network sync/build".
Watched == step # "boot"

\* The second file's saves are reported only once its directory is watched.
Save ==
  /\ saved < MaxVersion
  /\ saved' = saved + 1
  /\ LET unseen == saved' \in Elsewhere /\ ~watching
     IN  /\ events' = (events \/ (Watched /\ ~unseen))
         /\ missed' = (missed \/ unseen)
  /\ UNCHANGED <<release, snapshotVars, taskVars, watching, faults, restarts>>

PrepareWatch ==
  /\ step = "boot"
  /\ Go("key") /\ watching' = HasImport(project)
  /\ UNCHANGED <<saved, release, snapshotVars, events, missed, faults, restarts>>

\* Project::load.  The first one leaves the watcher alone until its refresh is
\* over.
Load ==
  /\ step = "load"
  /\ IF saved \in Broken
     THEN EndRound(TRUE)
     ELSE /\ step' = IF round = "first" THEN "sync" ELSE "watch"
          /\ project' = saved /\ syncs' = TRUE
          /\ UNCHANGED <<round, visible, failed>>
  /\ missed' = FALSE
  /\ UNCHANGED <<saved, release, snapshotVars, watching, events, faults, restarts>>

\* create_watcher, on the directories of the files that were loaded.
CreateWatcher ==
  /\ step \in {"watch", "start"}
  /\ Go(IF step = "watch" THEN "sync" ELSE "idle")
  /\ watching' = HasImport(project)
  /\ UNCHANGED <<saved, release, snapshotVars, events, missed, faults, restarts>>

Sync ==
  /\ step = "sync"
  /\ step' = "key" /\ visible' \in BOOLEAN
  /\ UNCHANGED <<project, round, syncs, failed>>
  /\ UNCHANGED <<saved, release, snapshotVars, watchVars, faults, restarts>>

\* The build whose key decides whether another is due.
Standing == IF release THEN disk ELSE served

\* Refreshed discussion links may call for another rendering of the same
\* project, whether or not the round has rendered it already.
EndRefresh ==
  \/ EndRound(FALSE)
  \/ /\ syncs
     /\ step' = "key" /\ visible' = TRUE /\ syncs' = FALSE
     /\ UNCHANGED <<project, round, failed>>

\* render_refresh: the key hashes the files as they are by now.
Fingerprint ==
  /\ step = "key"
  /\ LET key == Hashed(project, saved)
     IN  IF visible \/ Standing = Nothing \/ Standing.key # key
         THEN staged' = [of |-> project, key |-> key] /\ Go("swap")
         ELSE EndRefresh /\ UNCHANGED staged
  /\ UNCHANGED <<saved, release, served, disk, watchVars, faults, restarts>>

\* Rendered, and promoted on the disk for a release.
Swap ==
  /\ step = "swap"
  /\ served' = staged /\ staged' = Nothing
  /\ disk' = IF release THEN staged ELSE disk
  /\ EndRefresh
  /\ UNCHANGED <<saved, release, watchVars, faults, restarts>>

\* A step that fails is reported, and the server waits for the next change.
\* The one after the promotion's renames leaves the new build on the disk.
Fails ==
  /\ faults < MaxFaults
  /\ step \in {"watch", "sync", "key", "swap"}
  /\ faults' = faults + 1
  /\ disk' \in IF step = "swap" /\ release THEN {disk, staged} ELSE {disk}
  /\ staged' = Nothing
  /\ EndRound(TRUE)
  /\ UNCHANGED <<saved, release, served, watchVars, restarts>>

\* The watcher's loop: a change, 150 ms for those that come with it, a round.
Notice ==
  /\ step = "idle" /\ events
  /\ Go("settling") /\ events' = FALSE
  /\ UNCHANGED <<saved, release, snapshotVars, watching, missed, faults, restarts>>

Settle ==
  /\ step = "settling"
  /\ Go("load") /\ events' = FALSE
  /\ UNCHANGED <<saved, release, snapshotVars, watching, missed, faults, restarts>>

\* Stopped and started again.  A promotion cut short leaves no build at all.
Restart ==
  /\ restarts < MaxRestarts /\ saved \notin Broken
  /\ restarts' = restarts + 1
  /\ disk' \in IF step = "swap" /\ release THEN {disk, staged, Nothing} ELSE {disk}
  /\ Boot(saved, disk')
  /\ UNCHANGED <<saved, release, faults>>

Next ==
  \/ Save \/ PrepareWatch \/ Load \/ CreateWatcher \/ Sync \/ Fingerprint \/ Swap \/ Fails
  \/ Notice \/ Settle \/ Restart

Spec == Init /\ [][Next]_devVars

-----------------------------------------------------------------------------

TypeOK ==
  /\ {saved, project} \subseteq Version
  /\ {served, disk, staged} \subseteq Snapshot
  /\ step \in {"boot", "load", "watch", "sync", "key", "swap", "start", "idle",
               "settling"}
  /\ round \in {"cached", "first", "later"}
  /\ {release, syncs, visible, watching, events, missed, failed} \subseteq BOOLEAN
  /\ faults \in 0..MaxFaults /\ restarts \in 0..MaxRestarts

\* Nothing to do, and nothing failed that the terminal said to look at.
Quiet == step = "idle" /\ ~events /\ ~failed

\* The watch is there so that a save during startup does not "leave the served
\* snapshot stale until the next manual edit" (server.rs:343).
ServedIsSaved == Quiet => served.of = saved

\* So it does, unless a save came between loading the files and hashing them,
\* a promoted build was never put before the reader, or a file that a load had
\* just found in another directory was saved before the watcher covered it.
Overtaken == served.key # Hashed(served.of, served.of)
Unswapped == release /\ disk # served
ServedIsSavedUnlessOvertaken ==
  ~Overtaken /\ ~Unswapped /\ ~missed => ServedIsSaved
=============================================================================
