----------------------------- MODULE Workspace -----------------------------
(***************************************************************************)
(* The commands that share a repository's disposable state                 *)
(* (src/src/commands/lock.rs, clean.rs, dev.rs, mod.rs): two advisory      *)
(* locks taken without waiting, the record that names each holder, the     *)
(* removal of caches, and the runs that work in them.                      *)
(*                                                                         *)
(* A command is the list of its remaining steps, each one file operation   *)
(* of a process that may be killed between any two.  The operating system  *)
(* releases the locks of a process that ended.                             *)
(***************************************************************************)
EXTENDS Naturals, Sequences, FiniteSets

CONSTANTS
  Process,
  Nobody,
  Started,       \* bound: the commands started together
  MaxCrashes     \* bound: processes killed, records that cannot be written

VARIABLES
  kind, todo,            \* the command each process runs, its steps left
  plan,                  \* Plan.targets
  holder, exists,        \* per lock: who has it, whether its file is there
  recorder,              \* Guard.record: who has a record to clear where
  body, sidecar,         \* the identities written in and beside the file
  trees,                 \* the directories that exist
  named, witnessed,      \* what a newcomer was told; who held it meanwhile
  crashed                \* processes that left a record behind

lockVars == <<holder, exists, recorder, body, sidecar>>
toldVars == <<named, witnessed>>
workspaceVars ==
  <<kind, todo, plan, lockVars, trees, toldVars, crashed>>

Lock == {"aggr.lock", "dev.lock"}
Tree == {"cache", "dev"}       \* .aggr/cache and the output; data, fetch, site
Command ==
  {"none", "sync", "build --clean", "clean", "clean --dry-run", "dev",
   "dev --clean"}

WorkspaceAssumption ==
  /\ Nobody \notin Process /\ MaxCrashes \in Nat
  /\ Started \subseteq [Process -> Command]

Try(lock, mode) == <<[do |-> "try", on |-> lock, mode |-> mode]>>
Steps(lock, names) == [i \in DOMAIN names |-> [do |-> names[i], on |-> lock]]
Record(lock) == Steps(lock, <<"empty", "write", "note">>)

\* Mutant: the lock is let go first, and its record cleared afterwards.
ReleaseFirst(lock) == Steps(lock, <<"unlock", "forget", "blank">>)
\* Guard's drop, then that of the file.
Drop(lock) == Steps(lock, <<"forget", "blank", "unlock">>)

Removal(mode) ==
  IF mode = "inspect" THEN <<>> ELSE <<[do |-> "remove", on |-> "cache"]>>

\* Mutant: a plan is carried out under the dev server's lock alone.
DevLockedClean(devMode) ==
  <<[do |-> "plan", on |-> "cache"]>> \o Try("dev.lock", devMode)
    \o Removal(devMode) \o Drop("dev.lock")
LockedClean(devMode) ==
  Try("aggr.lock", IF devMode = "inspect" THEN "inspect" ELSE "acquire")
    \o DevLockedClean(devMode) \o Drop("aggr.lock")

Work(tree) == Steps(tree, <<"create", "work">>)
Sync == Try("aggr.lock", "acquire") \o Work("cache") \o Drop("aggr.lock")

Program(command) ==
  CASE command = "none" -> <<>>
    [] command = "sync" -> Sync
    [] command = "build --clean" -> LockedClean("as planned") \o Sync
    [] command = "clean" -> LockedClean("as planned")
    [] command = "clean --dry-run" -> LockedClean("inspect")
    [] command = "dev" ->
         Try("dev.lock", "acquire") \o Work("dev") \o Drop("dev.lock")
    [] command = "dev --clean" ->
         <<[do |-> "plan", on |-> "cache"]>> \o Try("dev.lock", "acquire")
           \o Removal("acquire") \o Work("dev") \o Drop("dev.lock")

Init ==
  /\ kind \in Started
  /\ todo = [p \in Process |-> Program(kind[p])]
  /\ plan = [p \in Process |-> {}]
  /\ holder = [l \in Lock |-> Nobody] /\ exists = {} /\ recorder = {}
  /\ body = [l \in Lock |-> Nobody] /\ sidecar = [l \in Lock |-> Nobody]
  /\ trees \in SUBSET Tree
  /\ named = [p \in Process |-> Nobody]
  /\ witnessed = [p \in Process |-> {}]
  /\ crashed = {}

-----------------------------------------------------------------------------

Doing(p, step) == todo[p] # <<>> /\ Head(todo[p]).do = step
On(p) == Head(todo[p]).on
Advance(p) == todo' = [todo EXCEPT ![p] = Tail(@)]

DropHeld(p, lock) == IF holder[lock] = p THEN Drop(lock) ELSE <<>>

\* A command that fails drops the guards it has, the last one first.
Fail(p, first) ==
  todo' = [todo EXCEPT
    ![p] = first \o DropHeld(p, "dev.lock") \o DropHeld(p, "aggr.lock")]

\* "clean" takes the dev server's lock only to remove something of it.
Writes(p) ==
  \/ Head(todo[p]).mode = "acquire"
  \/ Head(todo[p]).mode = "as planned" /\ "dev" \in plan[p]

\* Everyone who holds a lock while a newcomer asks who does.
Asking(q, l) == (Doing(q, "ask") \/ Doing(q, "ask the file")) /\ On(q) = l
Witness(l, p) ==
  witnessed' = [q \in Process |->
                 witnessed[q] \cup (IF Asking(q, l) THEN {p} ELSE {})]

TryLock(p) ==
  /\ Doing(p, "try")
  /\ LET l == On(p) IN
     \/ /\ ~Writes(p) /\ l \notin exists
        /\ Advance(p)
        /\ UNCHANGED <<lockVars, witnessed>>
     \/ /\ Writes(p) \/ l \in exists
        /\ holder[l] = Nobody
        /\ holder' = [holder EXCEPT ![l] = p]
        /\ exists' = exists \cup {l}
        /\ recorder' = IF Writes(p) THEN recorder \cup {<<p, l>>} ELSE recorder
        /\ todo' = [todo EXCEPT ![p] =
                     (IF Writes(p) THEN Record(l) ELSE <<>>) \o Tail(@)]
        /\ Witness(l, p)
        /\ UNCHANGED <<body, sidecar>>
     \/ /\ holder[l] # Nobody
        /\ Fail(p, Steps(l, <<"ask", "ask the file">>))
        /\ witnessed' = [witnessed EXCEPT ![p] = {holder[l]}]
        /\ UNCHANGED lockVars
  /\ UNCHANGED <<kind, plan, trees, named, crashed>>

\* The newcomer reads the record beside the lock, then the file's own body.
Ask(p) ==
  \/ /\ Doing(p, "ask")
     /\ named' = [named EXCEPT ![p] = sidecar[On(p)]]
     /\ todo' = [todo EXCEPT ![p] =
                  IF sidecar[On(p)] = Nobody THEN Tail(@) ELSE Tail(Tail(@))]
     /\ UNCHANGED <<kind, plan, lockVars, trees, witnessed, crashed>>
  \/ /\ Doing(p, "ask the file")
     /\ named' = [named EXCEPT ![p] = body[On(p)]]
     /\ Advance(p)
     /\ UNCHANGED <<kind, plan, lockVars, trees, witnessed, crashed>>

\* The holder's record: the file is emptied and written, then the sidecar.
WriteRecord(p) ==
  /\ \/ /\ Doing(p, "empty")
        /\ body' = [body EXCEPT ![On(p)] = Nobody] /\ UNCHANGED sidecar
     \/ /\ Doing(p, "write")
        /\ body' = [body EXCEPT ![On(p)] = p] /\ UNCHANGED sidecar
     \/ /\ Doing(p, "note")
        /\ sidecar' = [sidecar EXCEPT ![On(p)] = p] /\ UNCHANGED body
  /\ Advance(p)
  /\ UNCHANGED <<kind, plan, holder, exists, recorder, trees, toldVars, crashed>>

\* A record that cannot be written fails the command before there is a guard
\* to clear it.
RecordFails(p) ==
  /\ Cardinality(crashed) < MaxCrashes
  /\ Doing(p, "empty") \/ Doing(p, "write") \/ Doing(p, "note")
  /\ crashed' = crashed \cup {p}
  /\ LET l == On(p) IN
     /\ recorder' = recorder \ {<<p, l>>}
     /\ todo' = [todo EXCEPT ![p] = Steps(l, <<"unlock">>)
          \o IF l = "dev.lock" THEN DropHeld(p, "aggr.lock") ELSE <<>>]
     /\ UNCHANGED <<kind, plan, holder, exists, body, sidecar, trees, toldVars>>

ClearRecord(p) ==
  /\ \/ /\ Doing(p, "forget")
        /\ sidecar' = IF <<p, On(p)>> \in recorder
                      THEN [sidecar EXCEPT ![On(p)] = Nobody] ELSE sidecar
        /\ UNCHANGED body
     \/ /\ Doing(p, "blank")
        /\ body' = IF <<p, On(p)>> \in recorder
                   THEN [body EXCEPT ![On(p)] = Nobody] ELSE body
        /\ UNCHANGED sidecar
  /\ Advance(p)
  /\ recorder' = IF Doing(p, "blank") THEN recorder \ {<<p, On(p)>>}
                 ELSE recorder
  /\ UNCHANGED <<kind, plan, holder, exists, trees, toldVars, crashed>>

Unlock(p) ==
  /\ Doing(p, "unlock")
  /\ holder' = IF holder[On(p)] = p THEN [holder EXCEPT ![On(p)] = Nobody]
               ELSE holder
  /\ Advance(p)
  /\ UNCHANGED <<kind, plan, exists, recorder, body, sidecar, trees, toldVars,
                 crashed>>

\* Plan::new, and the removal of what it found.
MakePlan(p) ==
  /\ Doing(p, "plan")
  /\ plan' = [plan EXCEPT ![p] = trees]
  /\ Advance(p)
  /\ UNCHANGED <<kind, lockVars, trees, toldVars, crashed>>

\* A planned directory that is gone by now fails the command.
RemovePlanned(p) ==
  /\ Doing(p, "remove")
  /\ \/ plan[p] \ trees = {} /\ Advance(p)
     \/ plan[p] \ trees # {} /\ Fail(p, <<>>)
  /\ trees' = trees \ plan[p]
  /\ UNCHANGED <<kind, plan, lockVars, toldVars, crashed>>

\* A run makes its directory and works in it for a while.
Run(p) ==
  /\ \/ Doing(p, "create") /\ trees' = trees \cup {On(p)}
     \/ Doing(p, "work") /\ UNCHANGED trees
  /\ Advance(p)
  /\ UNCHANGED <<kind, plan, lockVars, toldVars, crashed>>

Kill(p) ==
  /\ Cardinality(crashed) < MaxCrashes
  /\ todo[p] # <<>>
  /\ todo' = [todo EXCEPT ![p] = <<>>]
  /\ holder' = [l \in Lock |-> IF holder[l] = p THEN Nobody ELSE holder[l]]
  /\ crashed' = crashed \cup {p}
  /\ UNCHANGED <<kind, plan, exists, recorder, body, sidecar, trees, toldVars>>

Next ==
  \E p \in Process :
    \/ TryLock(p) \/ Ask(p) \/ WriteRecord(p) \/ RecordFails(p)
    \/ ClearRecord(p) \/ Unlock(p)
    \/ MakePlan(p) \/ RemovePlanned(p) \/ Run(p) \/ Kill(p)

Spec == Init /\ [][Next]_workspaceVars

-----------------------------------------------------------------------------

TypeOK ==
  /\ kind \in [Process -> Command] /\ plan \in [Process -> SUBSET Tree]
  /\ \A p \in Process : \A i \in DOMAIN todo[p] :
       todo[p][i].on \in Lock \cup Tree
  /\ {holder, body, sidecar} \subseteq [Lock -> Process \cup {Nobody}]
  /\ exists \subseteq Lock /\ recorder \subseteq Process \X Lock
  /\ trees \subseteq Tree /\ crashed \subseteq Process
  /\ named \in [Process -> Process \cup {Nobody}]
  /\ witnessed \in [Process -> SUBSET Process]

\* A conflict names nobody, or a command that held the lock while the newcomer
\* was turned away ("the lock is never free while a stale record stands",
\* lock.rs:23), or else one that ended without clearing its record.
NamedHeld ==
  \A p \in Process :
    named[p] # Nobody => named[p] \in witnessed[p] \cup crashed

\* "Removing the repository cache while a sync or build is writing it would
\* leave that run with a half-deleted tree" (clean.rs:15): only `dev --clean`,
\* which holds the other lock, does that.
TreeKept ==
  \A p \in Process :
    Doing(p, "work") /\ On(p) \notin trees =>
      On(p) = "cache" /\ \E q \in Process : kind[q] = "dev --clean"
=============================================================================
