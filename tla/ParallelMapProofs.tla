-------------------------- MODULE ParallelMapProofs --------------------------
(***************************************************************************)
(* For every number of inputs and of workers, and whichever transforms     *)
(* fail: the parallel map returns what one thread that stops at its first  *)
(* failure would return, and works on no input twice.                      *)
(***************************************************************************)
EXTENDS ParallelMap, TLAPS

Inv == TypeOK /\ InputOrder /\ HandedOutOnce

LEMMA InvInit == ASSUME Inputs \in Nat, Init PROVE Inv
BY DEF Init, Inv, TypeOK, InputOrder, HandedOutOnce, Input, None

LEMMA ClaimKeeps ==
  ASSUME Inputs \in Nat, Inv, NEW w \in Worker, Claim(w)
  PROVE  Inv'
<1> USE DEF Input, None
<1>1. TypeOK'
  BY DEF Inv, TypeOK, Claim, InOrder
<1>2. CASE cursor < Inputs
  <2>1. /\ cursor' = cursor + 1 /\ cursor + 1 \in Input
        /\ held' = [held EXCEPT ![w] = cursor + 1]
        /\ step' = [step EXCEPT ![w] = "working"]
        /\ slots' = slots /\ failing' = failing
    BY <1>2 DEF Inv, TypeOK, Claim, InOrder
  <2>2. slots[cursor + 1] = "empty" /\ \A v \in Worker : held[v] # cursor + 1
    BY <2>1 DEF Inv, TypeOK, InputOrder
  <2>3. InputOrder'
    <3>1. /\ held'[w] = cursor + 1 /\ step'[w] = "working"
          /\ \A v \in Worker : v # w => held'[v] = held[v] /\ step'[v] = step[v]
      BY <2>1 DEF Inv, TypeOK
    <3>2. ASSUME NEW v \in Worker
          PROVE  /\ held'[v] = 0 <=> step'[v] \in {"claiming", "exited"}
                 /\ held'[v] <= cursor + 1
                 /\ step'[v] = "exited" => cursor + 1 >= Inputs
      <4>1. CASE v = w
        BY <2>1, <3>1, <4>1 DEF Inv, TypeOK
      <4>2. CASE v # w
        <5>1. held'[v] = held[v] /\ step'[v] = step[v] /\ held[v] \in Nat
          BY <3>1, <4>2 DEF Inv, TypeOK
        <5> QED BY <1>2, <5>1 DEF Inv, TypeOK, InputOrder
      <4> QED BY <4>1, <4>2
    <3>3. ASSUME NEW i \in Input, i <= cursor + 1, slots[i] = "empty",
                 \A v \in Worker : held'[v] # i
          PROVE  \E j \in failing : j < i
      <4>1. i # cursor + 1
        BY <3>1, <3>3
      <4>2. i <= cursor
        BY <3>3, <4>1 DEF Inv, TypeOK
      <4>3. held[w] = 0
        BY DEF Claim, Inv, InputOrder
      <4>4. \A v \in Worker : held[v] # i
        BY <3>1, <3>3, <4>3
      <4> QED BY <3>3, <4>2, <4>4 DEF Inv, InputOrder
    <3>4. ASSUME NEW i \in Input
          PROVE  /\ slots[i] # "empty" => i <= cursor + 1
                 /\ slots[i] = "failed" => i \in failing
                 /\ slots[i] = "done" => i \notin failing
      BY DEF Inv, TypeOK, InputOrder
    <3> QED BY <2>1, <3>2, <3>3, <3>4 DEF InputOrder
  <2>4. HandedOutOnce'
    BY <2>1, <2>2 DEF Inv, TypeOK, HandedOutOnce
  <2> QED BY <1>1, <2>3, <2>4 DEF Inv
<1>3. CASE ~(cursor < Inputs)
  <2>1. /\ cursor' = cursor + 1 /\ held' = held /\ slots' = slots
        /\ failing' = failing /\ step' = [step EXCEPT ![w] = "exited"]
        /\ step[w] = "claiming"
    BY <1>3 DEF Claim
  <2>2. InputOrder'
    BY <1>3, <2>1 DEF Inv, TypeOK, InputOrder
  <2>3. HandedOutOnce'
    BY <2>1 DEF Inv, HandedOutOnce
  <2> QED BY <1>1, <2>2, <2>3 DEF Inv
<1> QED BY <1>2, <1>3

LEMMA TransformKeeps ==
  ASSUME Inputs \in Nat, Inv, NEW w \in Worker, Transform(w)
  PROVE  Inv'
<1> USE DEF Input, None
<1>1. TypeOK'
  BY DEF Inv, TypeOK, Transform
<1>2. /\ held' = held /\ slots' = slots /\ failing' = failing
      /\ step' = [step EXCEPT ![w] = "storing"] /\ step[w] = "working"
  BY DEF Transform
<1>3. cursor <= cursor' /\ cursor' \in Nat
  BY DEF Inv, TypeOK, Transform
<1>4. \A i \in Input : cursor < i /\ i <= cursor' => \E j \in failing : j < i
  <2> SUFFICES ASSUME NEW i \in Input, cursor < i, i <= cursor'
               PROVE  \E j \in failing : j < i
    OBVIOUS
  <2>1. held[w] \in failing
    BY DEF Transform, Inv, TypeOK
  <2>2. held[w] <= cursor /\ held[w] \in Nat
    BY DEF Inv, TypeOK, InputOrder
  <2>3. held[w] < i
    BY <2>2 DEF Inv, TypeOK
  <2> QED BY <2>1, <2>3
<1>5. InputOrder'
  BY <1>2, <1>3, <1>4 DEF Inv, TypeOK, InputOrder
<1>6. HandedOutOnce'
  BY <1>2 DEF Inv, HandedOutOnce
<1> QED BY <1>1, <1>5, <1>6 DEF Inv

LEMMA StoreKeeps ==
  ASSUME Inputs \in Nat, Inv, NEW w \in Worker, Store(w)
  PROVE  Inv'
<1> USE DEF Input, None
<1>1. held[w] \in Input /\ held[w] <= cursor /\ step[w] = "storing"
  BY DEF Inv, TypeOK, InputOrder, Store
<1>2. /\ cursor' = cursor /\ failing' = failing
      /\ held' = [held EXCEPT ![w] = 0]
      /\ step' = [step EXCEPT ![w] = "claiming"]
      /\ slots' = [slots EXCEPT ![held[w]] =
                     IF held[w] \in failing THEN "failed" ELSE "done"]
  BY DEF Store
<1>3. TypeOK'
  BY <1>1, <1>2 DEF Inv, TypeOK
<1>4. InputOrder'
  BY <1>1, <1>2, <1>3 DEF Inv, TypeOK, InputOrder
<1>5. HandedOutOnce'
  BY <1>1, <1>2 DEF Inv, TypeOK, HandedOutOnce
<1> QED BY <1>3, <1>4, <1>5 DEF Inv

LEMMA InvStep == ASSUME Inputs \in Nat, Inv, [Next]_parallelVars PROVE Inv'
<1>1. CASE UNCHANGED parallelVars
  BY <1>1 DEF Inv, TypeOK, InputOrder, HandedOutOnce, parallelVars
<1>2. CASE Next
  BY <1>2, ClaimKeeps, TransformKeeps, StoreKeeps DEF Next
<1> QED BY <1>1, <1>2

\* Once every worker has exited, what is in the slots up to the first failure
\* is what the sequential path would have computed.
LEMMA JoinedInOrder == ASSUME Inputs \in Nat, Worker # {}, Inv
                       PROVE  SameAsSequential
<1> SUFFICES ASSUME Joined, NEW i \in Input
             PROVE  Reports(i) <=> /\ i \in failing
                                   /\ \A j \in Input : j < i => j \notin failing
  BY DEF SameAsSequential
<1> USE DEF Input
<1>1. \A j \in Input : j <= cursor /\ \A w \in Worker : held[w] # j
  BY DEF Joined, Inv, TypeOK, InputOrder, None
<1>2. \A j \in Input : slots[j] = "empty" => \E k \in failing : k < j
  BY <1>1 DEF Inv, InputOrder
<1>3. failing \subseteq Input /\ \A j \in Input : slots[j] \in {"empty", "done", "failed"}
  BY DEF Inv, TypeOK
<1>4. ASSUME Reports(i)
      PROVE  i \in failing /\ \A j \in Input : j < i => j \notin failing
  <2>1. \A j \in Input : j < i => j \notin failing
    BY <1>4 DEF Reports, Inv, InputOrder
  <2>2. slots[i] # "empty"
    BY <1>2, <1>3, <2>1
  <2>3. slots[i] = "failed"
    BY <1>3, <1>4, <2>2 DEF Reports
  <2> QED BY <2>1, <2>3 DEF Inv, InputOrder
<1>5. ASSUME i \in failing, \A j \in Input : j < i => j \notin failing
      PROVE  Reports(i)
  <2>1. \A j \in Input : j <= i => slots[j] # "empty"
    BY <1>2, <1>3, <1>5
  <2>2. slots[i] # "done"
    BY <1>5 DEF Inv, InputOrder
  <2>3. ASSUME NEW j \in Input, j < i PROVE slots[j] = "done"
    <3>1. slots[j] # "failed"
      BY <1>5, <2>3 DEF Inv, InputOrder
    <3> QED BY <1>3, <2>1, <2>3, <3>1
  <2> QED BY <2>2, <2>3 DEF Reports
<1> QED BY <1>4, <1>5

LEMMA InvHolds == ParallelAssumption /\ Spec => []Inv
<1> SUFFICES ASSUME ParallelAssumption PROVE Spec => []Inv
  OBVIOUS
<1>1. Inputs \in Nat
  BY DEF ParallelAssumption
<1>2. Init => Inv
  BY <1>1, InvInit
<1>3. Inv /\ [Next]_parallelVars => Inv'
  BY <1>1, InvStep
<1> QED BY <1>2, <1>3, PTL DEF Spec

\* What parallel.rs:103 claims of its slots, for any inputs and workers: the
\* first failure in input order is the one reported, and never an input that
\* was skipped.
THEOREM ReportsFirstFailure == ParallelAssumption /\ Spec => []SameAsSequential
<1> SUFFICES ASSUME ParallelAssumption PROVE Spec => []SameAsSequential
  OBVIOUS
<1>1. Inv => SameAsSequential
  BY JoinedInOrder DEF ParallelAssumption
<1> QED BY <1>1, InvHolds, PTL

\* fetch_add hands every input to one worker (parallel.rs:81).
THEOREM WorkedOnOnce == ParallelAssumption /\ Spec => []HandedOutOnce
<1> SUFFICES ASSUME ParallelAssumption PROVE Spec => []HandedOutOnce
  OBVIOUS
<1>1. Inv => HandedOutOnce
  BY DEF Inv
<1> QED BY <1>1, InvHolds, PTL
=============================================================================
