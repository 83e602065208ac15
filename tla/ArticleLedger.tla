--------------------------- MODULE ArticleLedger ---------------------------
(***************************************************************************)
(* What the fetch stage promises about the archive: a source's new items   *)
(* and their dedupe keys appear in one step, an article with a link is     *)
(* archived under one source only, and keys are forgotten only with the    *)
(* whole source.                                                           *)
(***************************************************************************)
CONSTANTS Source, Article, Linked

VARIABLES
  archive,   \* archive[s]: the items of s
  keys       \* keys[s]: the articles s will not capture as new again

vars == <<archive, keys>>

Init ==
  /\ archive = [s \in Source |-> {}]
  /\ keys = [s \in Source |-> {}]

\* A source stores a batch nobody else has, and remembers all of it.
Capture(s, batch) ==
  /\ batch \cap archive[s] = {}
  /\ \A t \in Source : batch \cap archive[t] \cap Linked = {}
  /\ archive' = [archive EXCEPT ![s] = @ \cup batch]
  /\ keys' = [keys EXCEPT ![s] = @ \cup batch]

\* Retention or a hand edit removes an item; its keys stay.
Remove(s, a) ==
  /\ a \in archive[s]
  /\ archive' = [archive EXCEPT ![s] = @ \ {a}]
  /\ UNCHANGED keys

\* An unsubscribed source is forgotten once nothing of it is left.
Forget(s) ==
  /\ archive[s] = {}
  /\ keys' = [keys EXCEPT ![s] = {}]
  /\ UNCHANGED archive

Next == \E s \in Source :
  \/ \E batch \in SUBSET Article : Capture(s, batch)
  \/ \E a \in Article : Remove(s, a)
  \/ Forget(s)

Spec == Init /\ [][Next]_vars
=============================================================================
