---------------------------- MODULE OfflineSearch ----------------------------
(***************************************************************************)
(* The offline search index of the service worker                          *)
(* (src/web/src/sw/search.ts): one download task at a time, which a newer  *)
(* configuration supersedes, a committed manifest, one cache of files per  *)
(* version, and the status readers that restore the active index beside    *)
(* the task.  A step is the effect of one awaited storage or network call  *)
(* and the synchronous code up to the next await.                          *)
(*                                                                         *)
(* A generation number is only ever compared with the latest: `superseded` *)
(* and `readerStale` say that a newer one exists.  A file's body is        *)
(* verified against its digest before it is stored, so an entry of a       *)
(* version's cache stands for the right bytes.                             *)
(***************************************************************************)
EXTENDS Naturals, FiniteSets

CONSTANTS
  File,         \* the files of an index
  Shared,       \* those with the same digest in every version
  MaxVersion,   \* bound: builds deployed
  MaxConfigs,   \* bound: configurations asked for
  MaxRestarts   \* bound: worker kills and browser evictions

SearchAssumption ==
  /\ IsFiniteSet(File) /\ Shared \subseteq File
  /\ {MaxVersion, MaxConfigs, MaxRestarts} \subseteq Nat /\ MaxVersion > 0

VARIABLES
  target,                  \* the version this worker's build names
  wanted, queued,          \* latest configuration; the task waiting to run
  pc, superseded,          \* the running task
  base, todo, loading, failure,   \* its predecessor, files and outcome
  active, phase,           \* state.activeSearch, state.searchStatus
  reader, seen, readerStale,      \* a status reader in restoreSearch
  manifest, index,         \* stored: the committed version, the caches
  configs, restarts, lost      \* bounds; whether an index lost its files

taskVars == <<pc, superseded, base, todo, loading, failure>>
memoryVars == <<active, phase>>
readerVars == <<reader, seen, readerStale>>
storedVars == <<manifest, index>>
boundVars == <<configs, restarts, lost>>
searchVars == <<target, wanted, queued, taskVars, memoryVars, readerVars,
                storedVars, boundVars>>

Version == 1..MaxVersion
None == 0
Listing == "search-manifest.json"
Entry == File \cup {Listing}
Phases == {"disabled", "downloading", "updating", "ready", "blocked", "error"}
Steps == {"idle", "restoring", "checking", "pruning", "listing", "files",
          "verifying", "committing", "trimming", "blocked",
          "clearing", "forgetting"}
AtATime == 2

Complete(v) == v # None /\ File \subseteq index[v]
Busy == pc # "idle" \/ queued # "none"

NoTask ==
  /\ pc = "idle" /\ superseded = FALSE /\ base = None
  /\ todo = {} /\ loading = {} /\ failure = "none"

Init ==
  /\ target = 1 /\ wanted = "unset" /\ queued = "none"
  /\ NoTask
  /\ active = None /\ phase = "disabled"
  /\ reader = "idle" /\ seen = None /\ readerStale = FALSE
  /\ manifest = None /\ index = [v \in Version |-> {}]
  /\ configs = 0 /\ restarts = 0 /\ lost = FALSE

-----------------------------------------------------------------------------

Go(step) == pc' = step /\ UNCHANGED <<superseded, base, todo, loading, failure>>

End ==
  /\ pc' = "idle" /\ superseded' = FALSE /\ base' = None
  /\ todo' = {} /\ loading' = {} /\ failure' = "none"

\* Deletes every index cache but those of `keep`.
Prune(keep) == index' = [v \in Version |-> IF v \in keep THEN index[v] ELSE {}]

\* configureOfflineSearch: the same request is shared, another one supersedes.
Configure(want) ==
  /\ configs < MaxConfigs
  /\ ~(wanted = want /\ Busy)
  /\ configs' = configs + 1
  /\ wanted' = want
  /\ queued' = want
  /\ superseded' = (pc # "idle")
  /\ readerStale' = (reader # "idle")
  /\ IF want = "off" THEN active' = None /\ phase' = "disabled"
                     ELSE UNCHANGED memoryVars
  /\ UNCHANGED <<target, pc, base, todo, loading, failure, reader, seen,
                 storedVars, restarts, lost>>

\* Only the latest of the chained tasks does anything.
StartTask ==
  /\ pc = "idle" /\ queued # "none"
  /\ pc' = IF queued = "on" THEN "restoring" ELSE "clearing"
  /\ queued' = "none"
  /\ UNCHANGED <<target, wanted, superseded, base, todo, loading, failure,
                 memoryVars, readerVars, storedVars, boundVars>>

\* What restoreSearch leaves in memory once the manifest it read was checked.
Restored(m) ==
  /\ active' = IF Complete(m) THEN m ELSE None
  /\ phase' = IF m # None /\ ~Complete(m) THEN "error" ELSE phase

\* The task's restoreSearch: base is what it read until it is checked.
ReadManifest ==
  /\ pc = "restoring"
  /\ pc' = "checking" /\ base' = manifest
  /\ UNCHANGED <<target, wanted, queued, superseded, todo, loading, failure,
                 memoryVars, readerVars, storedVars, boundVars>>

CheckManifest ==
  /\ pc = "checking"
  /\ \/ superseded /\ End /\ UNCHANGED memoryVars
     \/ /\ ~superseded
        /\ active' = IF Complete(base) THEN base ELSE None
        /\ IF active' = target
           THEN phase' = "ready" /\ End
           ELSE /\ phase' = IF active' = None THEN "downloading" ELSE "updating"
                /\ pc' = "pruning" /\ base' = active'
                /\ UNCHANGED <<superseded, todo, loading, failure>>
  /\ UNCHANGED <<target, wanted, queued, readerVars, storedVars, boundVars>>

\* Mutant: the predecessor is dropped before the replacement is there.
KeepTarget == {target} \cap Version
\* "retain only the usable index and its replacement".
KeepBoth == {target, base}

PruneBefore ==
  /\ pc = "pruning"
  /\ Prune(KeepBoth)
  /\ Go("listing")
  /\ UNCHANGED <<target, wanted, queued, memoryVars, readerVars, manifest,
                 boundVars>>

\* The catch and finally of a run: a superseded one leaves without a word,
\* a full disk costs the replacement.
GiveUp(reason) ==
  IF superseded THEN End /\ UNCHANGED memoryVars
  ELSE IF reason = "quota"
       THEN /\ phase' = "blocked" /\ UNCHANGED active
            /\ pc' = "blocked" /\ loading' = {} /\ failure' = reason
            /\ UNCHANGED <<superseded, base, todo>>
       ELSE phase' = "error" /\ UNCHANGED active /\ End

\* The listing, kept from an earlier attempt or fetched, and stored.
FetchListing ==
  /\ pc = "listing"
  /\ \/ /\ superseded => Listing \in index[target]
        /\ index' = [index EXCEPT ![target] = @ \cup {Listing}]
        /\ todo' = File /\ pc' = "files"
        /\ UNCHANGED <<superseded, base, loading, failure, memoryVars>>
     \/ /\ \/ Listing \notin index[target] /\ GiveUp("network")
           \/ GiveUp("quota")
        /\ UNCHANGED index
  /\ UNCHANGED <<target, wanted, queued, readerVars, manifest, boundVars>>

\* One of the two slots takes the next file.
TakeFile(f) ==
  /\ pc = "files" /\ ~superseded /\ failure = "none"
  /\ f \in todo /\ Cardinality(loading) < AtATime
  /\ todo' = todo \ {f} /\ loading' = loading \cup {f}
  /\ UNCHANGED <<target, wanted, queued, pc, superseded, base, failure,
                 memoryVars, readerVars, storedVars, boundVars>>

\* Already here, or copied from the predecessor: neither needs the network.
AtHand(f) ==
  \/ f \in index[target]
  \/ f \in Shared /\ base # None /\ f \in index[base]

\* A file that arrives after the run was superseded is not stored.
SaveFile(f) ==
  /\ pc = "files" /\ f \in loading
  /\ loading' = loading \ {f}
  /\ \/ /\ ~superseded
        /\ index' = [index EXCEPT ![target] = @ \cup {f}]
        /\ UNCHANGED failure
     \/ superseded /\ UNCHANGED <<index, failure>>
     \/ /\ ~AtHand(f)
        /\ failure' = "network" /\ UNCHANGED index
     \/ /\ ~superseded /\ f \notin index[target]
        /\ failure' = "quota" /\ UNCHANGED index
  /\ UNCHANGED <<target, wanted, queued, pc, superseded, base, todo,
                 memoryVars, readerVars, manifest, boundVars>>

FilesDone ==
  /\ pc = "files" /\ loading = {}
  /\ todo = {} \/ superseded \/ failure # "none"
  /\ IF superseded \/ failure # "none" THEN GiveUp(failure)
     ELSE Go("verifying") /\ UNCHANGED memoryVars
  /\ UNCHANGED <<target, wanted, queued, readerVars, storedVars, boundVars>>

\* Mutant: the downloads succeeded, so the index is there.
Assumed(v) == v \in Version
Verified(v) == Complete(v)

\* No supersession is looked at between this check and the end of the run.
VerifyIndex ==
  /\ pc = "verifying"
  /\ IF Verified(target) THEN Go("committing") /\ UNCHANGED memoryVars
     ELSE GiveUp("evicted")
  /\ UNCHANGED <<target, wanted, queued, readerVars, storedVars, boundVars>>

CommitIndex ==
  /\ pc = "committing"
  /\ \/ /\ manifest' = target
        /\ active' = target /\ phase' = "ready"
        /\ Go("trimming")
     \/ GiveUp("quota") /\ UNCHANGED manifest
  /\ UNCHANGED <<target, wanted, queued, readerVars, index, boundVars>>

\* "Keep one complete predecessor for tabs whose Pagefind instance uses it."
TrimIndex ==
  /\ pc = "trimming"
  /\ Prune(KeepBoth)
  /\ End
  /\ UNCHANGED <<target, wanted, queued, memoryVars, readerVars, manifest,
                 boundVars>>

DropBlocked ==
  /\ pc = "blocked"
  /\ index' = [index EXCEPT ![target] = {}]
  /\ End
  /\ UNCHANGED <<target, wanted, queued, memoryVars, readerVars, manifest,
                 boundVars>>

\* The task of a disabled index: every cache, then the manifest.
ClearIndexes ==
  /\ pc = "clearing"
  /\ Prune({})
  /\ Go("forgetting")
  /\ UNCHANGED <<target, wanted, queued, memoryVars, readerVars, manifest,
                 boundVars>>

ForgetManifest ==
  /\ pc = "forgetting"
  /\ manifest' = None /\ active' = None /\ phase' = "disabled"
  /\ End
  /\ UNCHANGED <<target, wanted, queued, readerVars, index, boundVars>>

Task == \/ StartTask \/ ReadManifest \/ CheckManifest \/ PruneBefore
        \/ FetchListing \/ FilesDone \/ VerifyIndex \/ CommitIndex
        \/ TrimIndex \/ DropBlocked \/ ClearIndexes \/ ForgetManifest
        \/ \E f \in File : TakeFile(f) \/ SaveFile(f)

-----------------------------------------------------------------------------
(* A page asks for the status: restoreSearch beside the task.              *)

ReadStatus ==
  /\ reader = "idle" /\ wanted # "off"
  /\ reader' = "checking" /\ seen' = manifest
  /\ UNCHANGED <<target, wanted, queued, taskVars, memoryVars, readerStale,
                 storedVars, boundVars>>

\* Mutant: the configuration is not looked at again after the awaits.
Trusted == readerStale \in BOOLEAN
Current == ~readerStale

RestoreStatus ==
  /\ reader = "checking"
  /\ IF Current THEN Restored(seen) ELSE UNCHANGED memoryVars
  /\ reader' = "idle" /\ seen' = None /\ readerStale' = FALSE
  /\ UNCHANGED <<target, wanted, queued, taskVars, storedVars, boundVars>>

\* The browser kills the worker; the next one is this build's or a newer
\* one's.  Nothing resumes before the next configuration, so a kill between
\* the two deletions of disabling leaves a manifest without its index.
Restart ==
  /\ restarts < MaxRestarts
  /\ restarts' = restarts + 1
  /\ target' \in {target, target + 1} \cap Version
  /\ wanted' = "unset" /\ queued' = "none"
  /\ End
  /\ active' = None /\ phase' = "disabled"
  /\ reader' = "idle" /\ seen' = None /\ readerStale' = FALSE
  /\ lost' = (lost \/ pc = "forgetting")
  /\ UNCHANGED <<storedVars, configs>>

\* Somebody has looked at the files of this version and relies on them.
Relied(v) == v \in {active, manifest} \/ (v = target /\ pc = "committing")

\* The browser reclaims a stored file.
Evict(v, f) ==
  /\ restarts < MaxRestarts
  /\ f \in index[v]
  /\ restarts' = restarts + 1 /\ lost' = (lost \/ Relied(v))
  /\ index' = [index EXCEPT ![v] = @ \ {f}]
  /\ UNCHANGED <<target, wanted, queued, taskVars, memoryVars, readerVars,
                 manifest, configs>>

Next ==
  \/ Task \/ ReadStatus \/ RestoreStatus \/ Restart
  \/ \E want \in {"on", "off"} : Configure(want)
  \/ \E v \in Version, f \in File : Evict(v, f)

Spec == Init /\ [][Next]_searchVars

-----------------------------------------------------------------------------

TypeOK ==
  /\ target \in Version
  /\ wanted \in {"unset", "on", "off"} /\ queued \in {"none", "on", "off"}
  /\ pc \in Steps /\ superseded \in BOOLEAN
  /\ base \in Version \cup {None}
  /\ todo \subseteq File /\ loading \subseteq File
  /\ Cardinality(loading) <= AtATime
  /\ failure \in {"none", "network", "quota"}
  /\ active \in Version \cup {None} /\ phase \in Phases
  /\ reader \in {"idle", "checking"} /\ readerStale \in BOOLEAN
  /\ seen \in Version \cup {None}
  /\ manifest \in Version \cup {None} /\ index \in [Version -> SUBSET Entry]
  /\ configs \in 0..MaxConfigs /\ restarts \in 0..MaxRestarts
  /\ lost \in BOOLEAN

Disabling == pc \in {"clearing", "forgetting"}

\* A status reader may call the replacement active before its commit fails for
\* want of space, which deletes it; the status then says so.
Dropped == phase = "blocked" /\ active = target

\* The index that answers offline queries, and the one the status calls ready,
\* is wholly stored, whatever tasks, status readers and configurations overlap
\* ("made active only once every file is present"), unless files were lost
\* after somebody had seen them.
ActiveComplete ==
  ~lost /\ ~Disabling =>
    /\ active # None /\ ~Dropped => Complete(active)
    /\ phase = "ready" => Complete(target)

\* A committed index, and not one being downloaded again.
Downloading ==
  pc \in {"pruning", "listing", "files", "verifying", "committing", "blocked"}
Usable == Complete(manifest) /\ ~(Downloading /\ manifest = target)

\* "A previous complete index stays until the replacement has been committed":
\* through failures, full disks, kills and new builds, unless search is
\* being disabled.
IndexStays ==
  [][Usable /\ ~lost' /\ ~Disabling => Complete(manifest)']_searchVars

\* Once disabling has settled nothing of any index is left, in storage or in
\* memory, and the status says so, although downloads and status readers were
\* running when it was asked for.
DisabledClean ==
  wanted = "off" /\ ~Busy =>
    /\ manifest = None /\ active = None /\ phase = "disabled"
    /\ \A v \in Version : index[v] = {}
=============================================================================
