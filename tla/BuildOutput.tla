---------------------------- MODULE BuildOutput ----------------------------
(***************************************************************************)
(* `aggr build` from a rendered site to the output directory               *)
(* (src/src/commands/build.rs, cache.rs, site/output_dir.rs): the one      *)
(* retained rendering, its restoration file by file, and the promotion     *)
(* used where nothing is retained.  Builds run one after the other under   *)
(* the repository's lock; each may fail or be killed at any step, and the  *)
(* next starts from what is on the disk.                                   *)
(*                                                                         *)
(* A key is the fingerprint of everything a rendering depends on.  A tree  *)
(* is the rendering it came from and the parts of it that are there.       *)
(***************************************************************************)
EXTENDS Naturals, FiniteSets

CONSTANTS
  Key,           \* fingerprints
  MaxBuilds,     \* bound: builds started
  MaxFaults      \* bound: steps that fail, builds that are killed

OutputAssumption == Key # {} /\ {MaxBuilds, MaxFaults} \subseteq Nat

VARIABLES
  out,                          \* the output directory
  current, previous, manifest,  \* the retained rendering, one set aside
  aside,                        \* the output promotion has set aside
  step, key, retain,            \* the running build
  fresh,                        \* it has rendered and stored its site
  had,                          \* the output was whole when it started
  outcome,                      \* of the last build
  torn,                         \* a restoration left the output unfinished
  builds, faults                \* bounds

cacheVars == <<current, previous, manifest>>
buildVars == <<step, key, retain, fresh, had>>
outputVars ==
  <<out, cacheVars, aside, buildVars, outcome, torn, builds, faults>>

None == "none"
\* .aggr-site, .aggr-build-key, and everything else
Part == {"marker", "key", "pages"}
Trees == [of : Key \cup {None}, parts : SUBSET Part]
Absent == [of |-> None, parts |-> {}]
Site(k) == [of |-> k, parts |-> Part]
Exists(tree) == tree.parts # {}

Whole == \E k \in Key : out = Site(k)
Running == step # "idle"

Init ==
  /\ out = Absent /\ current = Absent /\ previous = Absent
  /\ manifest = None /\ aside = Absent
  /\ step = "idle" /\ key = None /\ retain = FALSE /\ fresh = FALSE /\ had = FALSE
  /\ outcome = "none" /\ torn = FALSE
  /\ builds = 0 /\ faults = 0

Go(next) == step' = next /\ UNCHANGED <<key, retain, fresh, had, outcome>>
End(result) == /\ step' = "idle" /\ outcome' = result /\ fresh' = FALSE
               /\ UNCHANGED <<key, retain, had>>

Start(k, kept) ==
  /\ ~Running /\ builds < MaxBuilds
  /\ builds' = builds + 1
  /\ key' = k /\ retain' = kept /\ fresh' = FALSE /\ had' = Whole
  /\ step' = IF kept THEN "restore" ELSE "render"
  /\ outcome' = "none"
  /\ UNCHANGED <<out, cacheVars, aside, torn, faults>>

-----------------------------------------------------------------------------
(* restore_render                                                          *)

\* Mutant: the manifest alone says what is retained.
ByManifest(k) == manifest = k /\ "marker" \in current.parts
Retained(k) ==
  manifest = k /\ current.of = k /\ {"marker", "key"} \subseteq current.parts

\* "If `out` already carries this key the operation is an O(1) no-op".
Carries(tree, k) == tree.of = k /\ {"marker", "key"} \subseteq tree.parts

Replaceable(tree) == Exists(tree) => "marker" \in tree.parts

Restore ==
  /\ step = "restore"
  /\ \/ Retained(key) /\ Carries(out, key) /\ End("done")
     \/ Retained(key) /\ ~Carries(out, key) /\ Replaceable(out) /\ Go("clearing")
     \/ Retained(key) /\ ~Carries(out, key) /\ ~Replaceable(out) /\ End("refused")
     \/ ~Retained(key) /\ ~fresh /\ Go("render")
     \/ ~Retained(key) /\ fresh /\ End("failed")
  /\ UNCHANGED <<out, cacheVars, aside, torn, builds, faults>>

\* prepare_out_dir and copy_tree, in whatever order the directories list.
Clear ==
  /\ step = "clearing"
  /\ IF Exists(out)
     THEN /\ \E part \in out.parts : out' = [out EXCEPT !.parts = @ \ {part}]
          /\ UNCHANGED <<buildVars, outcome>>
     ELSE Go("copying") /\ out' = [of |-> current.of, parts |-> {}]
  /\ UNCHANGED <<cacheVars, aside, torn, builds, faults>>

Copy ==
  /\ step = "copying"
  /\ LET missing == current.parts \ out.parts IN
     IF missing # {}
     THEN /\ \E part \in missing : out' = [out EXCEPT !.parts = @ \cup {part}]
          /\ UNCHANGED <<buildVars, outcome, torn>>
     ELSE /\ out' = [of |-> out.of, parts |-> out.parts \cup {"key"}]
          /\ torn' = FALSE
          /\ End("done")
  /\ UNCHANGED <<cacheVars, aside, builds, faults>>

-----------------------------------------------------------------------------
(* site::build, and store_render or promote                                *)

Render ==
  /\ step = "render"
  /\ Go(IF retain THEN "tidying" ELSE "promoting")
  /\ UNCHANGED <<out, cacheVars, aside, torn, builds, faults>>

\* What an interrupted run left is removed, the retained site moved aside.
SetAside ==
  /\ \/ /\ step = "tidying"
        /\ previous' = Absent /\ Go("parking") /\ UNCHANGED current
     \/ /\ step = "parking"
        /\ previous' = current /\ current' = Absent /\ Go("storing")
  /\ UNCHANGED <<out, manifest, aside, torn, builds, faults>>

Store ==
  /\ \/ /\ step = "storing"
        /\ current' = Site(key) /\ Go("trimming") /\ UNCHANGED <<previous, manifest>>
     \/ /\ step = "trimming"
        /\ previous' = Absent /\ Go("signing") /\ UNCHANGED <<current, manifest>>
     \/ /\ step = "signing"
        /\ manifest' = key /\ UNCHANGED <<current, previous>>
        /\ step' = "restore" /\ fresh' = TRUE
        /\ UNCHANGED <<key, retain, had, outcome>>
  /\ UNCHANGED <<out, aside, torn, builds, faults>>

Promote ==
  /\ \/ /\ step = "promoting"
        /\ IF Replaceable(out)
           THEN aside' = out /\ out' = Absent /\ Go("publishing")
           ELSE End("refused") /\ UNCHANGED <<out, aside>>
        /\ UNCHANGED torn
     \/ /\ step = "publishing"
        /\ out' = Site(key) /\ aside' = Absent /\ torn' = FALSE
        /\ End("done")
  /\ UNCHANGED <<cacheVars, builds, faults>>

-----------------------------------------------------------------------------

\* Mutant: whatever was moved aside stays there.
LeftAside == UNCHANGED <<out, current, previous, aside>>
\* The one thing an error undoes: what was moved aside goes back.  (A rename
\* that fails while the one before it is undone is left out.)
PutBack ==
  /\ IF step = "storing" /\ Exists(previous)
     THEN current' = previous /\ previous' = Absent
     ELSE UNCHANGED <<current, previous>>
  /\ IF step = "publishing" THEN out' = aside /\ aside' = Absent
     ELSE UNCHANGED <<out, aside>>

Unfinished == step \in {"clearing", "copying"}

\* Any step may fail, on a full disk or a directory in use.
StepFails ==
  /\ Running /\ step # "restore" /\ faults < MaxFaults
  /\ faults' = faults + 1
  /\ PutBack
  /\ torn' = (torn \/ Unfinished)
  /\ End("failed")
  /\ UNCHANGED <<manifest, builds>>

\* Killed: the temporary directories, and what was moved into one, are lost.
Kill ==
  /\ Running /\ faults < MaxFaults
  /\ faults' = faults + 1
  /\ aside' = Absent
  /\ torn' = (torn \/ Unfinished)
  /\ End("killed")
  /\ UNCHANGED <<out, cacheVars, builds>>

Next ==
  \/ \E k \in Key, kept \in BOOLEAN : Start(k, kept)
  \/ Restore \/ Clear \/ Copy \/ Render \/ SetAside \/ Store \/ Promote
  \/ StepFails \/ Kill

Spec == Init /\ [][Next]_outputVars

-----------------------------------------------------------------------------

TypeOK ==
  /\ {out, current, previous, aside} \subseteq Trees
  /\ manifest \in Key \cup {None} /\ key \in Key \cup {None}
  /\ step \in {"idle", "restore", "clearing", "copying", "render", "tidying",
               "parking", "storing", "trimming", "signing", "promoting",
               "publishing"}
  /\ {retain, fresh, had, torn} \subseteq BOOLEAN
  /\ outcome \in {"none", "done", "failed", "refused", "killed"}
  /\ builds \in 0..MaxBuilds /\ faults \in 0..MaxFaults

\* "Restore a matching site into `out`" (cache.rs:399): a build that reports
\* success leaves the whole site it was asked for.
RestoredWhole == outcome = "done" => out = Site(key)

\* That holds whatever failed or was killed on the way to it, except for a
\* restoration interrupted in the output directory itself: a rendering that
\* is retained is never mistaken for another, nor for one that is complete.
RestoredWholeUnlessTorn == ~torn => RestoredWhole

\* "Retain the previous tree until replacement succeeds" (output_dir.rs:20): a
\* build that fails on its way does not cost the site published before, unless
\* it was interrupted inside the output directory.
OutputStays ==
  outcome \in {"failed", "refused"} /\ had /\ ~torn => Whole
=============================================================================
