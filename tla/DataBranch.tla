----------------------------- MODULE DataBranch -----------------------------
(***************************************************************************)
(* `aggr sync` on several machines that share one data branch              *)
(* (src/src/git.rs, src/src/commands/sync.rs): each brings its worktree up *)
(* to date, fetches its sources, commits, pushes without ever forcing,     *)
(* rebases when it lost the race, and moves refs/aggr/last-good when no    *)
(* source failed.  A run may die between any two steps, and in a rebase.   *)
(*                                                                         *)
(* A commit is the run whose files it adds and what it writes to           *)
(* status.toml; its hash stands for the whole history before it, so a      *)
(* branch is a sequence and ancestry is the prefix relation.  What the     *)
(* fetch stage writes is FetchRun's subject.  Shallow clones only add      *)
(* fetches of history and are left out, and so are the discussion and      *)
(* offline captures, --dry-run and --backfill-media.                       *)
(***************************************************************************)
EXTENDS Naturals, FiniteSets, SequencesExt

CONSTANTS
  Machine,       \* checkouts, each with its own clone and lock
  PushAttempts,  \* PUSH_ATTEMPTS
  MaxRuns        \* bound: sync runs in a behaviour

ASSUME ConstantsAssumption ==
  PushAttempts \in Nat \ {0} /\ MaxRuns \in Nat

VARIABLES
  origin, originGood,   \* the remote's data branch and last-good pointer
  local, good,          \* of each clone: its data branch and last-good
  tracking,             \* of each clone: origin's branch when last fetched
  worktree, head,       \* of each worktree: what HEAD is, and names
  dirty, status,        \*   uncommitted runs, status.toml
  pc, run, errors,      \* of each running sync: step, number, sources failed
  attempt, target,      \*   pushes tried, where last-good should point
  runs                  \* runs begun

remoteVars == <<origin, originGood>>
cloneVars == <<local, good, tracking>>
treeVars == <<worktree, head, dirty, status>>
syncVars == <<run, errors, attempt, target>>
vars == <<remoteVars, cloneVars, treeVars, syncVars, pc, runs>>

Steps == {"idle", "fetching", "committing", "pushing", "refetching",
          "rebasing", "pointing", "publishing", "comparing", "storing"}
Worktrees == {"none", "branch", "detached"}
Health == {"ok", "failing"}
Commit == [adds : SUBSET (1..MaxRuns), status : Health \cup {"same"}]

\* status.toml in the tree of a branch: what its latest commit to touch it
\* wrote; absent, it names no failing source.
Healthy(branch) ==
  LET touching == {i \in DOMAIN branch : branch[i].status # "same"} IN
  touching = {} \/ branch[Max(touching)].status = "ok"
StatusOf(branch) == IF Healthy(branch) THEN "ok" ELSE "failing"
Added(branch) == UNION {branch[i].adds : i \in DOMAIN branch}

Init ==
  /\ origin = <<>> /\ originGood = <<>>
  /\ local = [m \in Machine |-> <<>>]
  /\ good = [m \in Machine |-> <<>>]
  /\ tracking = [m \in Machine |-> <<>>]
  /\ worktree = [m \in Machine |-> "none"]
  /\ head = [m \in Machine |-> <<>>]
  /\ dirty = [m \in Machine |-> {}]
  /\ status = [m \in Machine |-> "ok"]
  /\ pc = [m \in Machine |-> "idle"]
  /\ run = [m \in Machine |-> 0]
  /\ errors = [m \in Machine |-> FALSE]
  /\ attempt = [m \in Machine |-> 0]
  /\ target = [m \in Machine |-> <<>>]
  /\ runs = 0

-----------------------------------------------------------------------------

Go(m, step) == pc' = [pc EXCEPT ![m] = step]

\* The next step, or the end of the run, which keeps nothing in memory.
Proceed(m, step) == Go(m, step) /\ UNCHANGED syncVars
Leave(m) ==
  /\ Go(m, "idle")
  /\ run' = [run EXCEPT ![m] = 0]
  /\ errors' = [errors EXCEPT ![m] = FALSE]
  /\ attempt' = [attempt EXCEPT ![m] = 0]
  /\ target' = [target EXCEPT ![m] = <<>>]

\* What git does to HEAD it does to the branch that HEAD stands for.
Move(m, tip) ==
  /\ head' = [head EXCEPT ![m] = tip]
  /\ local' = [local EXCEPT ![m] = IF worktree[m] = "detached" THEN @ ELSE tip]

Unpublished(m, onto) ==
  LET base == LongestCommonPrefix({head[m], onto}) IN
  SubSeq(head[m], Len(base) + 1, Len(head[m]))

\* Mutants: the clone is reset to the remote; history is replayed from its root;
\* the remote's commits are replayed on the clone's.
ResetTo(m, onto) == IF m \in Machine THEN onto ELSE <<>>
ReplayAll(m, onto) == onto \o head[m]
OursFirst(m, onto) ==
  head[m] \o SubSeq(onto, Len(LongestCommonPrefix({head[m], onto})) + 1, Len(onto))
\* `git rebase -X theirs`: the clone's own commits on top of the remote's.
Rebased(m, onto) == onto \o Unpublished(m, onto)

\* status.toml follows the new tree unless the worktree has changed it.
Rebase(m, onto) ==
  /\ Move(m, Rebased(m, onto))
  /\ status' = [status EXCEPT ![m] =
       IF @ = StatusOf(head[m]) THEN StatusOf(Rebased(m, onto)) ELSE @]

\* A deletion on one side of an edit on the other stops a rebase, which is
\* aborted; with nothing to replay, or nothing to replay it on, it succeeds.
MayConflict(m, onto) ==
  Unpublished(m, onto) # <<>> /\ ~IsPrefix(onto, head[m])

\* Killed on the way, it leaves HEAD on what it has replayed so far, and the
\* branch as it was.  What it stashed comes back when it is aborted.
LeaveMidway(m, onto) ==
  /\ worktree[m] = "branch" /\ head[m] # <<>> /\ ~IsPrefix(onto, head[m])
  /\ worktree' = [worktree EXCEPT ![m] = "detached"]
  /\ \E n \in 0..Len(Unpublished(m, onto)) :
       head' = [head EXCEPT ![m] = onto \o SubSeq(Unpublished(m, onto), 1, n)]

\* Mutant: any checkout will do.
IsCheckout(m) == worktree[m] # "none"
OnBranch(m) == worktree[m] = "branch"

\* A worktree is added; or it is on its branch, which is replayed, but git
\* replays nothing on a branch without a commit.
Enter(m, tip) ==
  /\ \/ worktree[m] = "none"
     \/ OnBranch(m) /\ (head[m] = <<>> => tip = <<>>)
  /\ worktree' = [worktree EXCEPT ![m] = IF @ = "none" THEN "branch" ELSE @]
  /\ Rebase(m, tip)
Refused(m, tip) ==
  /\ worktree[m] # "none"
  /\ ~OnBranch(m) \/ (head[m] = <<>> /\ tip # <<>>) \/ MayConflict(m, tip)

\* `ensure_worktree`: an unreachable remote leaves the last known one in place.
\* Uncommitted files of an earlier run are stashed and applied again.
EnsureWorktree(m) ==
  /\ pc[m] = "idle"
  /\ runs < MaxRuns
  /\ \E tip \in {origin, tracking[m]} :
       /\ tracking' = [tracking EXCEPT ![m] = tip]
       /\ \/ /\ Enter(m, tip)
             /\ Go(m, "fetching")
             /\ runs' = runs + 1
             /\ run' = [run EXCEPT ![m] = runs + 1]
          \/ /\ Refused(m, tip)
             /\ UNCHANGED <<local, worktree, head, status, pc, runs, run>>
          \/ /\ LeaveMidway(m, tip)
             /\ UNCHANGED <<local, status, pc, runs, run>>
  /\ UNCHANGED <<remoteVars, good, dirty, errors, attempt, target>>

\* "Resolve manually": the operator has git abort the rebase that was left, and
\* apply what it stashed.  Nothing in the program does.
ResolveManually(m) ==
  /\ pc[m] = "idle" /\ worktree[m] = "detached"
  /\ worktree' = [worktree EXCEPT ![m] = "branch"]
  /\ head' = [head EXCEPT ![m] = local[m]]
  /\ UNCHANGED <<remoteVars, cloneVars, dirty, status, syncVars, pc, runs>>

\* The fetch stage adds something or not, and some source fails or none does.
RunSources(m) ==
  /\ pc[m] = "fetching"
  /\ \E new \in {{}, {run[m]}}, failed \in BOOLEAN :
       /\ dirty' = [dirty EXCEPT ![m] = @ \cup new]
       /\ errors' = [errors EXCEPT ![m] = failed]
       /\ status' = [status EXCEPT ![m] = IF failed THEN "failing" ELSE "ok"]
  /\ Go(m, "committing")
  /\ UNCHANGED <<remoteVars, cloneVars, worktree, head, run, attempt, target, runs>>

\* --fetch-only leaves the worktree for a later run to commit.
FetchOnly(m) ==
  /\ pc[m] = "committing"
  /\ Leave(m)
  /\ UNCHANGED <<remoteVars, cloneVars, treeVars, runs>>

Staged(m) == dirty[m] # {} \/ status[m] # StatusOf(head[m])

\* Everything in the worktree, leftovers included; nothing makes no commit.
CommitWorktree(m) ==
  /\ pc[m] = "committing"
  /\ IF Staged(m)
     THEN Move(m, Append(head[m],
            [adds |-> dirty[m],
             status |-> IF status[m] = StatusOf(head[m]) THEN "same" ELSE status[m]]))
     ELSE UNCHANGED <<local, head>>
  /\ dirty' = [dirty EXCEPT ![m] = {}]
  /\ attempt' = [attempt EXCEPT ![m] = 1]
  /\ Go(m, "pushing")
  /\ UNCHANGED <<remoteVars, good, tracking, worktree, status, run, errors, target, runs>>

\* The branch is pushed, whatever HEAD is; one without a commit cannot be.
Pushable(m) == pc[m] = "pushing" /\ local[m] # <<>>
Accepted(m) == IsPrefix(origin, local[m])

\* Success, or "Everything up-to-date".  A source error spares the pointer.
Push(m) ==
  /\ Pushable(m)
  /\ Accepted(m)
  /\ origin' = local[m]
  /\ tracking' = [tracking EXCEPT ![m] = local[m]]
  /\ IF errors[m] THEN Leave(m) ELSE Proceed(m, "pointing")
  /\ UNCHANGED <<originGood, local, good, treeVars, runs>>

\* The remote took it but the answer was lost: an error like any other.
PushUnconfirmed(m) ==
  /\ Pushable(m)
  /\ Accepted(m)
  /\ origin' = local[m]
  /\ Leave(m)
  /\ UNCHANGED <<originGood, cloneVars, treeVars, runs>>

\* Mutant: one attempt too many.
PastLastAttempt(m) == attempt[m] > PushAttempts
LastAttempt(m) == attempt[m] = PushAttempts

PushRejected(m) ==
  /\ Pushable(m)
  /\ ~Accepted(m)
  /\ IF LastAttempt(m) THEN Leave(m) ELSE Proceed(m, "refetching")
  /\ UNCHANGED <<remoteVars, cloneVars, treeVars, runs>>

Refetch(m) ==
  /\ pc[m] = "refetching"
  /\ tracking' = [tracking EXCEPT ![m] = origin]
  /\ Go(m, "rebasing")
  /\ UNCHANGED <<remoteVars, local, good, treeVars, syncVars, runs>>

\* The remote may have moved on since the fetch: the next push tells.
RebaseOnRemote(m) ==
  /\ pc[m] = "rebasing"
  /\ Rebase(m, tracking[m])
  /\ attempt' = [attempt EXCEPT ![m] = @ + 1]
  /\ Go(m, "pushing")
  /\ UNCHANGED <<remoteVars, good, tracking, worktree, dirty, run, errors, target, runs>>

StopMidRebase(m) ==
  /\ pc[m] = "rebasing"
  /\ LeaveMidway(m, tracking[m])
  /\ Leave(m)
  /\ UNCHANGED <<remoteVars, cloneVars, dirty, status, runs>>

\* Mutant: a push that fails is a warning, and the run carries on.
WarnAndPoint(m) ==
  /\ pc[m] \in {"pushing", "refetching"}
  /\ Go(m, "pointing")
  /\ UNCHANGED <<remoteVars, cloneVars, treeVars, syncVars, runs>>

\* git fails for a reason of its own, or the rebase stops on a conflict.
SyncFails(m) ==
  /\ \/ pc[m] \in {"pushing", "refetching"}
     \/ pc[m] = "rebasing" /\ MayConflict(m, tracking[m])
  /\ Leave(m)
  /\ UNCHANGED <<remoteVars, cloneVars, treeVars, runs>>

-----------------------------------------------------------------------------
(* update_ref: refs/aggr/last-good only ever moves forward.                *)

\* The clone's own pointer must be an ancestor; else the run warns and ends.
PointLastGood(m) ==
  /\ pc[m] = "pointing"
  /\ IF IsPrefix(good[m], head[m])
     THEN /\ attempt' = [attempt EXCEPT ![m] = 1]
          /\ target' = [target EXCEPT ![m] = head[m]]
          /\ Go(m, "publishing")
          /\ UNCHANGED <<run, errors>>
     ELSE Leave(m)
  /\ UNCHANGED <<remoteVars, cloneVars, treeVars, runs>>

\* Mutant: the pointer is forced.
PointableAnyway(m) == m \in Machine
Pointable(m) == IsPrefix(originGood, head[m])

PublishPointer(m) ==
  /\ pc[m] = "publishing"
  /\ IF Pointable(m)
     THEN originGood' = head[m] /\ Proceed(m, "storing")
     ELSE /\ IF LastAttempt(m)
             THEN Leave(m) ELSE Proceed(m, "comparing")
          /\ UNCHANGED originGood
  /\ UNCHANGED <<origin, cloneVars, treeVars, runs>>

\* Rejected: fetch the remote's pointer; retry if it is behind after all, take
\* it if it is ahead, and leave unrelated history alone.
ComparePointer(m) ==
  /\ pc[m] = "comparing"
  /\ \/ /\ IsPrefix(originGood, head[m])
        /\ attempt' = [attempt EXCEPT ![m] = @ + 1]
        /\ Go(m, "publishing")
        /\ UNCHANGED <<run, errors, target>>
     \/ /\ IsPrefix(head[m], originGood)
        /\ ~IsPrefix(originGood, head[m])
        /\ target' = [target EXCEPT ![m] = originGood]
        /\ Go(m, "storing")
        /\ UNCHANGED <<run, errors, attempt>>
     \/ /\ ~IsPrefix(originGood, head[m])
        /\ ~IsPrefix(head[m], originGood)
        /\ Leave(m)
  /\ UNCHANGED <<remoteVars, cloneVars, treeVars, runs>>

StorePointer(m) ==
  /\ pc[m] = "storing"
  /\ good' = [good EXCEPT ![m] = target[m]]
  /\ Leave(m)
  /\ UNCHANGED <<remoteVars, local, tracking, treeVars, runs>>

\* The process dies; or git fails where that only loses the pointer.
Stop(m) ==
  /\ pc[m] # "idle"
  /\ Leave(m)
  /\ UNCHANGED <<remoteVars, cloneVars, treeVars, runs>>

-----------------------------------------------------------------------------

Pushing(m) == \/ Push(m) \/ PushUnconfirmed(m) \/ PushRejected(m)
              \/ Refetch(m) \/ RebaseOnRemote(m) \/ StopMidRebase(m) \/ SyncFails(m)

Pointing(m) == \/ PointLastGood(m) \/ PublishPointer(m) \/ ComparePointer(m)
               \/ StorePointer(m)

Next == \E m \in Machine :
  \/ EnsureWorktree(m) \/ RunSources(m) \/ FetchOnly(m) \/ CommitWorktree(m)
  \/ Pushing(m) \/ Pointing(m) \/ Stop(m) \/ ResolveManually(m)

Spec == Init /\ [][Next]_vars

-----------------------------------------------------------------------------

TypeOK ==
  /\ origin \in Seq(Commit) /\ originGood \in Seq(Commit)
  /\ local \in [Machine -> Seq(Commit)] /\ good \in [Machine -> Seq(Commit)]
  /\ tracking \in [Machine -> Seq(Commit)] /\ target \in [Machine -> Seq(Commit)]
  /\ worktree \in [Machine -> Worktrees]
  /\ head \in [Machine -> Seq(Commit)]
  /\ dirty \in [Machine -> SUBSET (1..MaxRuns)]
  /\ status \in [Machine -> Health]
  /\ pc \in [Machine -> Steps]
  /\ run \in [Machine -> 0..MaxRuns]
  /\ errors \in [Machine -> BOOLEAN]
  /\ attempt \in [Machine -> 0..PushAttempts]
  /\ runs \in 0..MaxRuns

Branches == {origin} \cup {local[m] : m \in Machine}
Kept(c) == \/ \E branch \in Branches : c \in Added(branch)
           \/ \E m \in Machine : c \in dirty[m]

\* What a run wrote is published, or waits on the branch or in the worktree of the
\* clone that wrote it: no crash, lost answer or rebase, finished or not, drops it ...
NothingDropped == [][\A c \in 1..MaxRuns : Kept(c) => Kept(c)']_vars

\* ... or replays it twice.
CommittedOnce ==
  /\ \A branch \in Branches : \A i, j \in DOMAIN branch :
       i # j => branch[i].adds \cap branch[j].adds = {}
  /\ \A m \in Machine : dirty[m] \cap Added(local[m]) = {}

\* Two branches that hold the same run hold the same history before it.
HistoryShared(s, t) ==
  \A i \in DOMAIN s, j \in DOMAIN t :
    s[i].adds \cap t[j].adds # {} => i = j /\ \A k \in 1..i : s[k] = t[k]

\* "Push, never force" (docs/git-model.md:143): a rebase rewrites only what its
\* clone alone has, so a run is the same commit in every branch and pointer that
\* holds it, on the remote and on every machine, whoever won the races.
Refs == Branches \cup {originGood}
        \cup UNION {{good[m], tracking[m]} : m \in Machine}
OneHistory == \A s, t \in Refs : HistoryShared(s, t)

\* last-good always names a commit of the published branch, on the remote and
\* in every clone, so recovery can follow it.
PointerPublished ==
  /\ IsPrefix(originGood, origin)
  /\ \A m \in Machine : IsPrefix(good[m], origin)

\* "Advance an auxiliary ref without ever moving it backwards" (git.rs:517).
PointerAdvances ==
  [][/\ IsPrefix(originGood, originGood')
     /\ \A m \in Machine : IsPrefix(good[m], good'[m])]_<<originGood, good>>

\* "To render the last fully healthy snapshot" (docs/git-model.md:211): the
\* tree last-good names has no failing source in its status.toml.
LastGoodHealthy == Healthy(originGood)
=============================================================================
