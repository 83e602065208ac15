----------------------------- MODULE ParallelMap -----------------------------
(***************************************************************************)
(* Ordered work on scoped worker threads (src/src/site/parallel.rs): the   *)
(* workers claim inputs through one atomic cursor, a failure stops the     *)
(* handing out of work, and the caller collects the slots in input order.  *)
(*                                                                         *)
(* Inputs are numbered from 1 where the code counts from 0.  A panic of    *)
(* the transform is caught and is a failure like any other.  Below eight   *)
(* inputs the code takes the sequential path, which is what this one is    *)
(* compared with.                                                          *)
(***************************************************************************)
EXTENDS Integers

CONSTANTS
  Inputs,       \* inputs.len()
  Worker        \* the scoped threads

ParallelAssumption == Inputs \in Nat /\ Worker # {}

VARIABLES
  failing,      \* the inputs whose transform fails
  cursor,       \* inputs handed out so far, or past all of them
  step, held,   \* what each worker is doing, and its input
  slots         \* the results

parallelVars == <<failing, cursor, step, held, slots>>

Input == 1..Inputs
None == 0

Init ==
  /\ failing \in SUBSET Input
  /\ cursor = 0
  /\ step = [w \in Worker |-> "claiming"]
  /\ held = [w \in Worker |-> None]
  /\ slots = [i \in Input |-> "empty"]

\* Mutant: the last input is handed out first.
FromTheEnd(claims) == Inputs - claims
InOrder(claims) == claims + 1

\* cursor.fetch_add(1): the next input, or none is left.
Claim(w) ==
  /\ step[w] = "claiming"
  /\ cursor' = cursor + 1
  /\ IF cursor < Inputs
     THEN /\ held' = [held EXCEPT ![w] = InOrder(cursor)]
          /\ step' = [step EXCEPT ![w] = "working"]
     ELSE step' = [step EXCEPT ![w] = "exited"] /\ UNCHANGED held
  /\ UNCHANGED <<failing, slots>>

\* A failure moves the cursor past the last input: inputs in flight finish.
Transform(w) ==
  /\ step[w] = "working"
  /\ step' = [step EXCEPT ![w] = "storing"]
  /\ cursor' = IF held[w] \in failing /\ cursor < Inputs THEN Inputs ELSE cursor
  /\ UNCHANGED <<failing, held, slots>>

Store(w) ==
  /\ step[w] = "storing"
  /\ slots' = [slots EXCEPT ![held[w]] =
                 IF held[w] \in failing THEN "failed" ELSE "done"]
  /\ held' = [held EXCEPT ![w] = None]
  /\ step' = [step EXCEPT ![w] = "claiming"]
  /\ UNCHANGED <<failing, cursor>>

Next == \E w \in Worker : Claim(w) \/ Transform(w) \/ Store(w)

Spec == Init /\ [][Next]_parallelVars

-----------------------------------------------------------------------------

TypeOK ==
  /\ failing \subseteq Input /\ cursor \in Nat
  /\ step \in [Worker -> {"claiming", "working", "storing", "exited"}]
  /\ held \in [Worker -> Input \cup {None}]
  /\ slots \in [Input -> {"empty", "done", "failed"}]

Joined == \A w \in Worker : step[w] = "exited"

\* `collect` reports the first slot that holds no result.
Reports(i) ==
  /\ slots[i] # "done"
  /\ \A j \in Input : j < i => slots[j] = "done"

\* "Slots keep input order, so the lowest failing input reports first
\* whichever thread hit it, and every input before it was claimed and
\* finished" (parallel.rs:103): what the caller gets is what one thread that
\* stops at its first failure would give, and never a skipped input.
SameAsSequential ==
  Joined => \A i \in Input :
    Reports(i) <=> /\ i \in failing
                   /\ \A j \in Input : j < i => j \notin failing

\* No input is handed to two workers, nor to one after it was finished.
HandedOutOnce ==
  \A v, w \in Worker :
    /\ held[w] # None => slots[held[w]] = "empty"
    /\ held[w] # None /\ held[v] = held[w] => v = w

\* The inductive invariant: an input is handed out before it is worked on, and
\* one that no worker has and none will take comes after a failure.
InputOrder ==
  /\ \A w \in Worker :
       /\ held[w] = None <=> step[w] \in {"claiming", "exited"}
       /\ held[w] <= cursor
       /\ step[w] = "exited" => cursor >= Inputs
  /\ \A i \in Input :
       /\ slots[i] # "empty" => i <= cursor
       /\ slots[i] = "failed" => i \in failing
       /\ slots[i] = "done" => i \notin failing
       /\ i <= cursor /\ slots[i] = "empty" /\ (\A w \in Worker : held[w] # i) =>
            \E j \in failing : j < i
=============================================================================
