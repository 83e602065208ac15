--------------------------- MODULE WorkspaceProofs ---------------------------
(***************************************************************************)
(* For any number of processes and any commands started together: a lock   *)
(* conflict names a process that held the lock meanwhile or ended without  *)
(* clearing its record, and no tree is removed under a running command     *)
(* but by `dev --clean`.                                                   *)
(*                                                                         *)
(* The argument is about the steps a process has left.  Every lock it      *)
(* tries is cleared of its record before it is let go (Ordered), every     *)
(* step on a tree comes with the lock of that tree (Guarded); both hold of *)
(* the programs, and of what is left of them after each step.              *)
(***************************************************************************)
EXTENDS Workspace, TLAPS

Questions == {"ask", "ask the file"}
Records == {"empty", "write", "note"}
Clearance == {"forget", "blank", "unlock"}
TreeSteps == {"plan", "remove", "create", "work"}
Modes == {"acquire", "as planned", "inspect"}
Step ==
  [do : Questions \cup Records \cup Clearance, on : Lock]
    \cup [do : {"try"}, on : Lock, mode : Modes]
    \cup [do : TreeSteps, on : Tree]

\* After the i-th step, `do` comes on the lock before any of `stops`.
After(t, i, do, l, stops) ==
  \E k \in DOMAIN t :
    /\ i < k /\ t[k].do = do /\ t[k].on = l
    /\ \A j \in DOMAIN t : i < j /\ j < k /\ t[j].on = l => t[j].do \notin stops
Forgets(t, i, l) == After(t, i, "forget", l, {"blank", "unlock"})
Blanks(t, i, l) == After(t, i, "blank", l, {"unlock"})

\* The lock is not let go between two steps.
Kept(t, i, j, l) ==
  \A m \in DOMAIN t : i < m /\ m < j => ~(t[m].do = "unlock" /\ t[m].on = l)

LockOf(tree) == IF tree = "dev" THEN "dev.lock" ELSE "aggr.lock"

\* The i-th step is taken with the lock, by a process that owns `own`.
Secure(t, own, i, l) ==
  \/ l \in own /\ Kept(t, 0, i, l)
  \/ \E j \in DOMAIN t :
       /\ j < i /\ t[j].do = "try" /\ t[j].on = l /\ t[j].mode = "acquire"
       /\ Kept(t, j, i, l)

Covered(t, own, planned, i) ==
  \/ "dev" \notin planned /\ \A j \in DOMAIN t : j < i => t[j].do # "plan"
  \/ "dev.lock" \in own /\ Kept(t, 0, i, "dev.lock")
  \/ \E j \in DOMAIN t :
       /\ j < i /\ t[j].do = "try" /\ t[j].on = "dev.lock"
       /\ t[j].mode \in {"acquire", "as planned"}
       /\ Kept(t, j, i, "dev.lock")
       /\ \A m \in DOMAIN t : j < m /\ m < i => t[m].do # "plan"

\* A question is asked first, and only by a process that tries no other lock.
AskedFirst(t) ==
  \A i \in DOMAIN t :
    /\ t[i].do = "ask" =>
         i = 1 /\ 2 \in DOMAIN t /\ t[2].do = "ask the file" /\ t[2].on = t[1].on
    /\ t[i].do = "ask the file" => i = 1 \/ (i = 2 /\ t[1].do = "ask")
    /\ t[i].do \in Questions => \A j \in DOMAIN t : t[j].do # "try"

RecordedFirst(t) ==
  \A j \in DOMAIN t : t[j].do \in Records =>
    \A i \in DOMAIN t : i < j => t[i].do \in Records

ClearedLater(t) ==
  \A i \in DOMAIN t : t[i].do = "try" =>
    Forgets(t, i, t[i].on) /\ Blanks(t, i, t[i].on)

CreatedBefore(t) ==
  \A j \in DOMAIN t : t[j].do = "work" =>
    \A i \in DOMAIN t : j = i + 1 => t[i].do = "create" /\ t[i].on = t[j].on

Ordered(t) ==
  AskedFirst(t) /\ RecordedFirst(t) /\ ClearedLater(t) /\ CreatedBefore(t)

Guarded(t, own, planned, command) ==
  \A i \in DOMAIN t :
    /\ t[i].do \in {"create", "work"} => Secure(t, own, i, LockOf(t[i].on))
    /\ t[i].do = "remove" =>
         /\ Covered(t, own, planned, i)
         /\ command # "dev --clean" => Secure(t, own, i, "aggr.lock")

Mine(p) == {l \in Lock : holder[l] = p}
Recorder(p) == {l \in Lock : <<p, l>> \in recorder}

\* What is left of a program, for a process that owns some of the locks and has
\* a record to clear in some.
Sound(t, own, records, planned, command) ==
  /\ t \in Seq(Step)
  /\ Ordered(t)
  /\ Guarded(t, own, planned, command)
  /\ \A i \in DOMAIN t : t[i].do \in Records =>
       /\ t[i].on \in own \cap records
       /\ Forgets(t, 0, t[i].on) /\ Blanks(t, 0, t[i].on)
Underway(p) == Sound(todo[p], Mine(p), Recorder(p), plan[p], kind[p])

Recorded(p) ==
  p \notin crashed => \A l \in Lock :
    /\ sidecar[l] = p =>
         l \in Mine(p) /\ l \in Recorder(p) /\ Forgets(todo[p], 0, l)
    /\ body[l] = p =>
         l \in Mine(p) /\ l \in Recorder(p) /\ Blanks(todo[p], 0, l)

Told(p) ==
  /\ \A l \in Lock :
       Asking(p, l) => holder[l] = Nobody \/ holder[l] \in witnessed[p]
  /\ named[p] # Nobody =>
       /\ named[p] \in witnessed[p] \cup crashed
       /\ \A i \in DOMAIN todo[p] : todo[p][i].do # "try"

Standing(p) ==
  Doing(p, "work") =>
    \/ On(p) \in trees
    \/ On(p) = "cache" /\ \E q \in Process : kind[q] = "dev --clean"

WorkspaceInv ==
  /\ TypeOK /\ DOMAIN todo = Process
  /\ \A p \in Process : Underway(p) /\ Recorded(p) /\ Told(p) /\ Standing(p)

-----------------------------------------------------------------------------
(* What is left after the first step                                       *)

LEMMA TailIs ==
  ASSUME NEW t \in Seq(Step), t # <<>>
  PROVE  /\ Tail(t) \in Seq(Step) /\ Head(t) = t[1] /\ 1 \in DOMAIN t
         /\ DOMAIN t = 1..Len(t) /\ Len(t) \in Nat
         /\ DOMAIN Tail(t) = 1..Len(t) - 1
         /\ \A i \in DOMAIN Tail(t) : i + 1 \in DOMAIN t /\ Tail(t)[i] = t[i + 1]
OBVIOUS

LEMMA AfterTail ==
  ASSUME NEW t \in Seq(Step), t # <<>>, NEW i \in Nat, NEW n \in Nat,
         i = n + 1 \/ (i = 0 /\ n = 0),
         NEW do, NEW l, NEW stops, After(t, i, do, l, stops),
         i = 0 => ~(t[1].do = do /\ t[1].on = l)
  PROVE  After(Tail(t), n, do, l, stops)
<1>1. PICK k \in DOMAIN t :
        /\ i < k /\ t[k].do = do /\ t[k].on = l
        /\ \A j \in DOMAIN t : i < j /\ j < k /\ t[j].on = l => t[j].do \notin stops
  BY DEF After
<1>2. k > 1 /\ k - 1 \in DOMAIN Tail(t) /\ Tail(t)[k - 1] = t[k] /\ n < k - 1
  <2>1. k \in Nat /\ k > 1 /\ k - 1 \in 1..Len(t) - 1
    BY <1>1, TailIs
  <2> QED BY <1>1, <2>1, TailIs
<1>3. ASSUME NEW j \in DOMAIN Tail(t), n < j, j < k - 1, Tail(t)[j].on = l
      PROVE  Tail(t)[j].do \notin stops
  <2>1. j + 1 \in DOMAIN t /\ Tail(t)[j] = t[j + 1] /\ i < j + 1 /\ j + 1 < k
    BY <1>2, <1>3, TailIs
  <2> QED BY <1>1, <1>3, <2>1
<1> QED BY <1>1, <1>2, <1>3 DEF After

LEMMA KeptTail ==
  ASSUME NEW t \in Seq(Step), t # <<>>, NEW i \in Nat, NEW n \in Nat,
         i = n + 1 \/ (i = 0 /\ n = 0), NEW j \in Nat, NEW l,
         Kept(t, i, j + 1, l)
  PROVE  Kept(Tail(t), n, j, l)
<1> SUFFICES ASSUME NEW m \in DOMAIN Tail(t), n < m, m < j
             PROVE  ~(Tail(t)[m].do = "unlock" /\ Tail(t)[m].on = l)
  BY DEF Kept
<1>1. m + 1 \in DOMAIN t /\ Tail(t)[m] = t[m + 1] /\ i < m + 1 /\ m + 1 < j + 1
  BY TailIs
<1> QED BY <1>1 DEF Kept

LEMMA OrderedTail ==
  ASSUME NEW t \in Seq(Step), t # <<>>, Ordered(t)
  PROVE  Ordered(Tail(t))
<1> DEFINE u == Tail(t)
<1>1. /\ \A i \in DOMAIN u : i \in Nat /\ i >= 1 /\ i + 1 \in DOMAIN t /\ u[i] = t[i + 1]
      /\ DOMAIN t = 1..Len(t) /\ DOMAIN u = 1..Len(t) - 1
  BY TailIs
<1> HIDE DEF u
<1>2. AskedFirst(u)
  <2> SUFFICES ASSUME NEW i \in DOMAIN u
               PROVE  /\ u[i].do # "ask"
                      /\ u[i].do = "ask the file" => i = 1
                      /\ u[i].do \in Questions =>
                           \A j \in DOMAIN u : u[j].do # "try"
    BY DEF AskedFirst
  <2>1. i + 1 \in DOMAIN t /\ u[i] = t[i + 1] /\ i + 1 # 1 /\ (i + 1 = 2 => i = 1)
    BY <1>1
  <2>2. AskedFirst(t)
    BY DEF Ordered
  <2>3. u[i].do # "ask" /\ (u[i].do = "ask the file" => i = 1)
    BY <2>1, <2>2 DEF AskedFirst
  <2> QED BY <1>1, <2>1, <2>2, <2>3 DEF AskedFirst
<1>3. RecordedFirst(u)
  BY <1>1 DEF Ordered, RecordedFirst
<1>4. ClearedLater(u)
  <2> SUFFICES ASSUME NEW i \in DOMAIN u, u[i].do = "try"
               PROVE  Forgets(u, i, u[i].on) /\ Blanks(u, i, u[i].on)
    BY DEF ClearedLater
  <2>1. Forgets(t, i + 1, u[i].on) /\ Blanks(t, i + 1, u[i].on)
    BY <1>1 DEF Ordered, ClearedLater
  <2> QED BY <1>1, <2>1, AfterTail DEF Forgets, Blanks, u
<1>5. CreatedBefore(u)
  BY <1>1 DEF Ordered, CreatedBefore
<1> QED BY <1>2, <1>3, <1>4, <1>5 DEF Ordered, u

\* What the first step leaves of the ownership and the plan that the others
\* need.
Hands(x, own, own2, planned, planned2) ==
  /\ \A l \in own : l \in own2 \/ (x.do = "unlock" /\ x.on = l)
  /\ x.do = "try" /\ x.mode = "acquire" => x.on \in own2
  /\ x.do = "try" /\ x.mode = "as planned" /\ x.on = "dev.lock" =>
       "dev.lock" \in own2 \/ "dev" \notin planned2
  /\ x.do # "plan" => planned2 = planned

LEMMA SecureTail ==
  ASSUME NEW t \in Seq(Step), t # <<>>, NEW own, NEW own2, NEW planned,
         NEW planned2, Hands(t[1], own, own2, planned, planned2),
         NEW i \in DOMAIN Tail(t), NEW l, Secure(t, own, i + 1, l)
  PROVE  Secure(Tail(t), own2, i, l)
<1>1. i \in Nat /\ i + 1 \in DOMAIN t /\ 1 \in DOMAIN t /\ i + 1 > 1
  BY TailIs
<1>2. CASE l \in own /\ Kept(t, 0, i + 1, l)
  <2>1. ~(t[1].do = "unlock" /\ t[1].on = l)
    BY <1>1, <1>2 DEF Kept
  <2>2. Kept(Tail(t), 0, i, l)
    BY <1>1, <1>2, KeptTail
  <2> QED BY <1>1, <1>2, <2>1, <2>2 DEF Secure, Hands
<1>3. ASSUME NEW j \in DOMAIN t, j < i + 1, t[j].do = "try", t[j].on = l,
             t[j].mode = "acquire", Kept(t, j, i + 1, l)
      PROVE  Secure(Tail(t), own2, i, l)
  <2>1. j \in Nat /\ j >= 1 /\ j - 1 \in Nat /\ j = (j - 1) + 1
        /\ j < i + 1 /\ Kept(t, j, i + 1, l)
    BY <1>3, TailIs
  <2>2. Kept(Tail(t), j - 1, i, l)
    BY <1>1, <2>1, KeptTail
  <2>3. CASE j = 1
    <3>1. Kept(Tail(t), 0, i, l)
      BY <2>2, <2>3
    <3>2. l \in own2
      BY <1>3, <2>3 DEF Hands
    <3> QED BY <3>1, <3>2 DEF Secure
  <2>4. CASE j # 1
    <3>1. j - 1 \in DOMAIN Tail(t) /\ Tail(t)[j - 1] = t[j] /\ j - 1 < i
      <4>1. j - 1 \in 1..Len(t) - 1 /\ (j - 1) + 1 = j
        BY <1>1, <2>1, <2>4, TailIs
      <4> QED BY <1>3, <2>1, <4>1, TailIs
    <3> QED BY <1>1, <1>3, <2>2, <3>1 DEF Secure
  <2> QED BY <2>3, <2>4
<1> QED BY <1>2, <1>3 DEF Secure

LEMMA CoveredTail ==
  ASSUME NEW t \in Seq(Step), t # <<>>, NEW own, NEW own2, NEW planned,
         NEW planned2, Hands(t[1], own, own2, planned, planned2),
         NEW i \in DOMAIN Tail(t), Covered(t, own, planned, i + 1)
  PROVE  Covered(Tail(t), own2, planned2, i)
<1>1. i \in Nat /\ i + 1 \in DOMAIN t /\ 1 \in DOMAIN t /\ 1 < i + 1
  BY TailIs
<1>2. CASE "dev" \notin planned /\ \A j \in DOMAIN t : j < i + 1 => t[j].do # "plan"
  <2>1. \A j \in DOMAIN Tail(t) : j < i => Tail(t)[j].do # "plan"
    BY <1>1, <1>2, TailIs
  <2> QED BY <1>1, <1>2, <2>1 DEF Covered, Hands
<1>3. CASE "dev.lock" \in own /\ Kept(t, 0, i + 1, "dev.lock")
  <2>1. ~(t[1].do = "unlock" /\ t[1].on = "dev.lock")
    BY <1>1, <1>3 DEF Kept
  <2>2. Kept(Tail(t), 0, i, "dev.lock")
    BY <1>1, <1>3, KeptTail
  <2> QED BY <1>1, <1>3, <2>1, <2>2 DEF Covered, Hands
<1>4. ASSUME NEW j \in DOMAIN t, j < i + 1, t[j].do = "try",
             t[j].on = "dev.lock", t[j].mode \in {"acquire", "as planned"},
             Kept(t, j, i + 1, "dev.lock"),
             \A m \in DOMAIN t : j < m /\ m < i + 1 => t[m].do # "plan"
      PROVE  Covered(Tail(t), own2, planned2, i)
  <2>0. j < i + 1 /\ Kept(t, j, i + 1, "dev.lock")
    BY <1>4
  <2>1. j \in Nat /\ j >= 1 /\ j - 1 \in Nat /\ j = (j - 1) + 1
        /\ j < i + 1 /\ Kept(t, j, i + 1, "dev.lock")
    BY <2>0, TailIs
  <2>2. Kept(Tail(t), j - 1, i, "dev.lock")
    BY <1>1, <2>1, KeptTail
  <2>3. ASSUME NEW m \in DOMAIN Tail(t), j - 1 < m, m < i
        PROVE  Tail(t)[m].do # "plan"
    <3>1. m + 1 \in DOMAIN t /\ Tail(t)[m] = t[m + 1] /\ m \in Nat
      BY TailIs
    <3>2. j < m + 1 /\ m + 1 < i + 1
      BY <1>1, <2>1, <2>3, <3>1
    <3> QED BY <1>4, <3>1, <3>2
  <2>4. CASE j = 1
    <3>1. Kept(Tail(t), 0, i, "dev.lock")
      BY <2>2, <2>4
    <3>2. "dev.lock" \in own2 \/ "dev" \notin planned2
      BY <1>4, <2>4 DEF Hands
    <3>3. \A m \in DOMAIN Tail(t) : m < i => Tail(t)[m].do # "plan"
      BY <2>3, <2>4, TailIs
    <3> QED BY <3>1, <3>2, <3>3 DEF Covered
  <2>5. CASE j # 1
    <3>1. j - 1 \in DOMAIN Tail(t) /\ Tail(t)[j - 1] = t[j] /\ j - 1 < i
      <4>1. j - 1 \in 1..Len(t) - 1 /\ (j - 1) + 1 = j
        BY <1>1, <2>1, <2>5, TailIs
      <4>2. j - 1 \in DOMAIN Tail(t)
        BY <4>1, TailIs
      <4> QED BY <1>1, <2>1, <4>1, <4>2, TailIs
    <3> QED BY <1>1, <1>4, <2>2, <2>3, <3>1 DEF Covered
  <2> QED BY <2>4, <2>5
<1> QED BY <1>2, <1>3, <1>4 DEF Covered

LEMMA GuardedTail ==
  ASSUME NEW t \in Seq(Step), t # <<>>, NEW own, NEW own2, NEW planned,
         NEW planned2, Hands(t[1], own, own2, planned, planned2), NEW command,
         Guarded(t, own, planned, command)
  PROVE  Guarded(Tail(t), own2, planned2, command)
<1> SUFFICES ASSUME NEW i \in DOMAIN Tail(t)
             PROVE  /\ Tail(t)[i].do \in {"create", "work"} =>
                         Secure(Tail(t), own2, i, LockOf(Tail(t)[i].on))
                    /\ Tail(t)[i].do = "remove" =>
                         /\ Covered(Tail(t), own2, planned2, i)
                         /\ command # "dev --clean" =>
                              Secure(Tail(t), own2, i, "aggr.lock")
  BY DEF Guarded
<1>1. i + 1 \in DOMAIN t /\ Tail(t)[i] = t[i + 1]
  BY TailIs
<1> QED BY <1>1, SecureTail, CoveredTail DEF Guarded

-----------------------------------------------------------------------------
(* A record inserted in front of what is left                              *)

LEMMA Nonempty ==
  ASSUME NEW t \in Seq(Step), 1 \in DOMAIN t
  PROVE  t # <<>>
OBVIOUS

LEMMA ConcatIs ==
  ASSUME NEW s \in Seq(Step), NEW t \in Seq(Step)
  PROVE  /\ s \o t \in Seq(Step) /\ Len(s \o t) = Len(s) + Len(t)
         /\ DOMAIN (s \o t) = 1..Len(s) + Len(t)
         /\ \A i \in 1..Len(s) : (s \o t)[i] = s[i]
         /\ \A i \in 1..Len(t) : (s \o t)[Len(s) + i] = t[i]
OBVIOUS

LEMMA InConcat ==
  ASSUME NEW s \in Seq(Step), NEW t \in Seq(Step), NEW i \in DOMAIN (s \o t)
  PROVE  \/ i \in DOMAIN s /\ (s \o t)[i] = s[i]
         \/ i - Len(s) \in DOMAIN t /\ (s \o t)[i] = t[i - Len(s)]
<1>1. CASE i \in 1..Len(s)
  BY <1>1, ConcatIs
<1>2. CASE i \notin 1..Len(s)
  <2>1. i - Len(s) \in 1..Len(t) /\ Len(s) + (i - Len(s)) = i
    BY <1>2, ConcatIs
  <2> QED BY <2>1, ConcatIs
<1> QED BY <1>1, <1>2

LEMMA Triples ==
  ASSUME NEW l \in Lock
  PROVE  /\ Record(l) \in Seq(Step) /\ Len(Record(l)) = 3
         /\ Record(l)[1].do = "empty" /\ Record(l)[1].on = l
         /\ Record(l)[2].do = "write" /\ Record(l)[2].on = l
         /\ Record(l)[3].do = "note" /\ Record(l)[3].on = l
         /\ Drop(l) \in Seq(Step) /\ Len(Drop(l)) = 3
         /\ Drop(l)[1].do = "forget" /\ Drop(l)[1].on = l
         /\ Drop(l)[2].do = "blank" /\ Drop(l)[2].on = l
         /\ Drop(l)[3].do = "unlock" /\ Drop(l)[3].on = l
<1> DEFINE Op(do) == [do |-> do, on |-> l]
<1>1. /\ Record(l) = <<Op("empty"), Op("write"), Op("note")>>
      /\ Drop(l) = <<Op("forget"), Op("blank"), Op("unlock")>>
  BY DEF Record, Drop, Steps
<1>2. \A do \in Records \cup Clearance :
        Op(do) \in Step /\ Op(do).do = do /\ Op(do).on = l
  BY DEF Step
<1> HIDE DEF Op
<1>3. \A do \in {"empty", "write", "note", "forget", "blank", "unlock"} :
        Op(do) \in Step /\ Op(do).do = do /\ Op(do).on = l
  BY <1>2 DEF Records, Clearance
<1> QED BY <1>1, <1>3

\* What the steps of `t` are once the record of a lock is put before them.
LEMMA RecordThen ==
  ASSUME NEW l \in Lock, NEW t \in Seq(Step)
  PROVE  /\ Record(l) \o t \in Seq(Step)
         /\ DOMAIN (Record(l) \o t) = 1..Len(t) + 3 /\ DOMAIN t = 1..Len(t)
         /\ Len(t) \in Nat
         /\ \A i \in 1..3 : (Record(l) \o t)[i].do \in Records
                            /\ (Record(l) \o t)[i].on = l
         /\ \A i \in DOMAIN t : i + 3 \in DOMAIN (Record(l) \o t)
                                /\ (Record(l) \o t)[i + 3] = t[i]
<1>1. /\ Record(l) \o t \in Seq(Step)
      /\ DOMAIN (Record(l) \o t) = 1..Len(t) + 3 /\ DOMAIN t = 1..Len(t)
      /\ Len(t) \in Nat
  <2>1. Record(l) \in Seq(Step) /\ Len(Record(l)) = 3
    BY Triples
  <2>2. DOMAIN t = 1..Len(t) /\ Len(t) \in Nat /\ 3 + Len(t) = Len(t) + 3
    OBVIOUS
  <2>3. /\ Record(l) \o t \in Seq(Step)
        /\ DOMAIN (Record(l) \o t) = 1..Len(Record(l)) + Len(t)
    BY <2>1, ConcatIs
  <2> QED BY <2>1, <2>2, <2>3
<1>2. \A i \in 1..3 : (Record(l) \o t)[i] = Record(l)[i]
  BY Triples, ConcatIs
<1>3. \A i \in 1..3 : Record(l)[i].do \in Records /\ Record(l)[i].on = l
  BY Triples DEF Records
<1>4. ASSUME NEW i \in DOMAIN t
      PROVE  /\ i + 3 \in DOMAIN (Record(l) \o t)
             /\ (Record(l) \o t)[i + 3] = t[i]
  <2>1. Len(Record(l)) + i = i + 3 /\ i \in 1..Len(t)
    BY <1>1, Triples
  <2>2. (Record(l) \o t)[Len(Record(l)) + i] = t[i]
    BY <2>1, Triples, ConcatIs
  <2> QED BY <1>1, <2>1, <2>2
<1> QED BY <1>1, <1>2, <1>3, <1>4

LEMMA AfterRecord ==
  ASSUME NEW l \in Lock, NEW t \in Seq(Step), NEW i \in Nat, NEW n \in Nat,
         n = i + 3 \/ (i = 0 /\ n = 0),
         NEW do, NEW m, NEW stops, stops \cap Records = {},
         After(t, i, do, m, stops)
  PROVE  After(Record(l) \o t, n, do, m, stops)
<1> DEFINE r == Record(l) \o t
<1>1. PICK k \in DOMAIN t :
        /\ i < k /\ t[k].do = do /\ t[k].on = m
        /\ \A j \in DOMAIN t : i < j /\ j < k /\ t[j].on = m => t[j].do \notin stops
  BY DEF After
<1>2. /\ DOMAIN r = 1..Len(t) + 3 /\ DOMAIN t = 1..Len(t) /\ Len(t) \in Nat
      /\ \A j \in 1..3 : r[j].do \in Records
      /\ \A j \in DOMAIN t : j + 3 \in DOMAIN r /\ r[j + 3] = t[j]
  <2>1. DOMAIN r = 1..Len(t) + 3 /\ DOMAIN t = 1..Len(t) /\ Len(t) \in Nat
    BY RecordThen
  <2>2. \A j \in 1..3 : r[j].do \in Records
    BY RecordThen
  <2>3. \A j \in DOMAIN t : j + 3 \in DOMAIN r /\ r[j + 3] = t[j]
    BY RecordThen
  <2> QED BY <2>1, <2>2, <2>3
<1> HIDE DEF r
<1>3. k + 3 \in DOMAIN r /\ n < k + 3 /\ r[k + 3].do = do /\ r[k + 3].on = m
  BY <1>1, <1>2
<1>4. ASSUME NEW j \in DOMAIN r, n < j, j < k + 3, r[j].on = m
      PROVE  r[j].do \notin stops
  <2>1. CASE j \in 1..3
    BY <1>2, <2>1
  <2>2. CASE j \notin 1..3
    <3>1. j - 3 \in DOMAIN t /\ (j - 3) + 3 = j /\ i < j - 3 /\ j - 3 < k
      BY <1>2, <1>4, <2>2
    <3>2. r[j] = t[j - 3]
      BY <1>2, <3>1
    <3> QED BY <1>1, <1>4, <3>1, <3>2
  <2> QED BY <2>1, <2>2
<1> QED BY <1>3, <1>4 DEF After, r

LEMMA KeptRecord ==
  ASSUME NEW l \in Lock, NEW t \in Seq(Step), NEW i \in Nat, NEW n \in Nat,
         n = i + 3 \/ (i = 0 /\ n = 0), NEW j \in Nat, NEW m, Kept(t, i, j, m)
  PROVE  Kept(Record(l) \o t, n, j + 3, m)
<1> DEFINE r == Record(l) \o t
<1>1. /\ DOMAIN r = 1..Len(t) + 3 /\ DOMAIN t = 1..Len(t) /\ Len(t) \in Nat
      /\ \A k \in 1..3 : r[k].do \in Records
      /\ \A k \in DOMAIN t : k + 3 \in DOMAIN r /\ r[k + 3] = t[k]
  BY RecordThen
<1> HIDE DEF r
<1>2. ASSUME NEW k \in DOMAIN r, n < k, k < j + 3
      PROVE  ~(r[k].do = "unlock" /\ r[k].on = m)
  <2>1. CASE k \in 1..3
    BY <1>1, <2>1 DEF Records
  <2>2. CASE k \notin 1..3
    <3>1. k - 3 \in DOMAIN t /\ (k - 3) + 3 = k /\ i < k - 3 /\ k - 3 < j
      BY <1>1, <1>2, <2>2
    <3>2. r[k] = t[k - 3]
      BY <1>1, <3>1
    <3> QED BY <3>1, <3>2 DEF Kept
  <2> QED BY <2>1, <2>2
<1> QED BY <1>2 DEF Kept, r

LEMMA SecureRecord ==
  ASSUME NEW l \in Lock, NEW t \in Seq(Step), NEW own, NEW i \in DOMAIN t, NEW m,
         Secure(t, own, i, m)
  PROVE  Secure(Record(l) \o t, own, i + 3, m)
<1>1. i \in Nat
  BY RecordThen
<1>2. CASE m \in own /\ Kept(t, 0, i, m)
  BY <1>1, <1>2, KeptRecord DEF Secure
<1>3. ASSUME NEW j \in DOMAIN t, j < i, t[j].do = "try", t[j].on = m,
             t[j].mode = "acquire", Kept(t, j, i, m)
      PROVE  Secure(Record(l) \o t, own, i + 3, m)
  <2>1. j \in Nat /\ j + 3 < i + 3 /\ j + 3 \in DOMAIN (Record(l) \o t)
        /\ (Record(l) \o t)[j + 3] = t[j]
    BY <1>1, <1>3, RecordThen
  <2>2. Kept(Record(l) \o t, j + 3, i + 3, m)
    BY <1>1, <1>3, <2>1, KeptRecord
  <2> QED BY <1>3, <2>1, <2>2 DEF Secure
<1> QED BY <1>2, <1>3 DEF Secure

LEMMA CoveredRecord ==
  ASSUME NEW l \in Lock, NEW t \in Seq(Step), NEW own, NEW planned,
         NEW i \in DOMAIN t, Covered(t, own, planned, i)
  PROVE  Covered(Record(l) \o t, own, planned, i + 3)
<1> DEFINE r == Record(l) \o t
<1>1. /\ i \in Nat /\ DOMAIN r = 1..Len(t) + 3 /\ DOMAIN t = 1..Len(t)
      /\ Len(t) \in Nat /\ \A k \in 1..3 : r[k].do \in Records
      /\ \A k \in DOMAIN t : k + 3 \in DOMAIN r /\ r[k + 3] = t[k]
  BY RecordThen
<1> HIDE DEF r
<1>2. ASSUME NEW j \in Nat, NEW k \in DOMAIN r, j + 3 < k \/ j = 0, k < i + 3,
             \A m \in DOMAIN t : j < m /\ m < i => t[m].do # "plan"
      PROVE  r[k].do # "plan"
  <2>1. CASE k \in 1..3
    BY <1>1, <2>1 DEF Records
  <2>2. CASE k \notin 1..3
    <3>1. k - 3 \in DOMAIN t /\ (k - 3) + 3 = k /\ j < k - 3 /\ k - 3 < i
      BY <1>1, <1>2, <2>2
    <3>2. r[k] = t[k - 3]
      BY <1>1, <3>1
    <3> QED BY <1>2, <3>1, <3>2
  <2> QED BY <2>1, <2>2
<1>3. CASE "dev" \notin planned /\ \A j \in DOMAIN t : j < i => t[j].do # "plan"
  <2>1. \A k \in DOMAIN r : k < i + 3 => r[k].do # "plan"
    BY <1>2, <1>3
  <2> QED BY <1>3, <2>1 DEF Covered, r
<1>4. CASE "dev.lock" \in own /\ Kept(t, 0, i, "dev.lock")
  BY <1>1, <1>4, KeptRecord DEF Covered
<1>5. ASSUME NEW j \in DOMAIN t, j < i, t[j].do = "try", t[j].on = "dev.lock",
             t[j].mode \in {"acquire", "as planned"}, Kept(t, j, i, "dev.lock"),
             \A m \in DOMAIN t : j < m /\ m < i => t[m].do # "plan"
      PROVE  Covered(r, own, planned, i + 3)
  <2>0. j < i /\ Kept(t, j, i, "dev.lock")
    BY <1>5
  <2>1. j \in Nat /\ j + 3 < i + 3 /\ j + 3 \in DOMAIN r /\ r[j + 3] = t[j]
    BY <1>1, <2>0
  <2>2. Kept(r, j + 3, i + 3, "dev.lock")
    BY <1>1, <2>0, <2>1, KeptRecord DEF r
  <2>3. \A k \in DOMAIN r : j + 3 < k /\ k < i + 3 => r[k].do # "plan"
    BY <1>2, <1>5, <2>1
  <2> QED BY <1>5, <2>1, <2>2, <2>3 DEF Covered
<1> QED BY <1>3, <1>4, <1>5 DEF Covered, r

LEMMA GuardedRecord ==
  ASSUME NEW l \in Lock, NEW t \in Seq(Step), NEW own, NEW planned, NEW command,
         Guarded(t, own, planned, command)
  PROVE  Guarded(Record(l) \o t, own, planned, command)
<1> DEFINE r == Record(l) \o t
<1>1. /\ DOMAIN r = 1..Len(t) + 3 /\ DOMAIN t = 1..Len(t) /\ Len(t) \in Nat
      /\ \A k \in 1..3 : r[k].do \in Records
      /\ \A k \in DOMAIN t : k + 3 \in DOMAIN r /\ r[k + 3] = t[k]
  BY RecordThen
<1> HIDE DEF r
<1> SUFFICES ASSUME NEW i \in DOMAIN r
             PROVE  /\ r[i].do \in {"create", "work"} =>
                         Secure(r, own, i, LockOf(r[i].on))
                    /\ r[i].do = "remove" =>
                         /\ Covered(r, own, planned, i)
                         /\ command # "dev --clean" => Secure(r, own, i, "aggr.lock")
  BY DEF Guarded, r
<1>2. CASE i \in 1..3
  BY <1>1, <1>2 DEF Records
<1>3. CASE i \notin 1..3
  <2> DEFINE n == i - 3
  <2>1. n \in DOMAIN t /\ n + 3 = i
    BY <1>1, <1>3
  <2>2. r[i] = t[n]
    BY <1>1, <2>1
  <2> HIDE DEF n
  <2>3. \A m : Secure(t, own, n, m) => Secure(r, own, i, m)
    BY <2>1, SecureRecord DEF r
  <2>4. Covered(t, own, planned, n) => Covered(r, own, planned, i)
    BY <2>1, CoveredRecord DEF r
  <2> QED BY <2>1, <2>2, <2>3, <2>4 DEF Guarded
<1> QED BY <1>2, <1>3

LEMMA OrderedRecord ==
  ASSUME NEW l \in Lock, NEW t \in Seq(Step), Ordered(t),
         \A i \in DOMAIN t : t[i].do \notin Questions \cup Records,
         1 \in DOMAIN t => t[1].do # "work"
  PROVE  Ordered(Record(l) \o t)
<1> DEFINE r == Record(l) \o t
<1>1. /\ DOMAIN r = 1..Len(t) + 3 /\ DOMAIN t = 1..Len(t) /\ Len(t) \in Nat
      /\ \A k \in 1..3 : r[k].do \in Records
      /\ \A k \in DOMAIN t : k + 3 \in DOMAIN r /\ r[k + 3] = t[k]
  BY RecordThen
<1> HIDE DEF r
<1>2. \A i \in DOMAIN r : i \in 1..3 \/ (i - 3 \in DOMAIN t /\ r[i] = t[i - 3])
  <2> TAKE i \in DOMAIN r
  <2>1. i \notin 1..3 => i - 3 \in DOMAIN t /\ (i - 3) + 3 = i
    BY <1>1
  <2> QED BY <1>1, <2>1
<1>3. AskedFirst(r)
  <2>1. \A i \in DOMAIN r : r[i].do \notin Questions
    BY <1>1, <1>2 DEF Questions, Records
  <2> QED BY <2>1 DEF AskedFirst, Questions
<1>4. RecordedFirst(r)
  <2>1. \A i \in DOMAIN r : r[i].do \in Records => i \in 1..3
    BY <1>2
  <2>2. \A i \in DOMAIN r, j \in 1..3 : i < j => i \in 1..3
    BY <1>1
  <2> QED BY <1>1, <2>1, <2>2 DEF RecordedFirst
<1>5. ClearedLater(r)
  <2> SUFFICES ASSUME NEW i \in DOMAIN r, r[i].do = "try"
               PROVE  Forgets(r, i, r[i].on) /\ Blanks(r, i, r[i].on)
    BY DEF ClearedLater
  <2> DEFINE n == i - 3
  <2>1. n \in DOMAIN t /\ r[i] = t[n]
    BY <1>1, <1>2 DEF Records
  <2>2. n \in Nat /\ i \in Nat /\ i = n + 3
    BY <1>1, <2>1
  <2>3. Forgets(t, n, r[i].on) /\ Blanks(t, n, r[i].on)
    BY <2>1 DEF Ordered, ClearedLater
  <2> HIDE DEF n
  <2> QED BY <2>2, <2>3, AfterRecord DEF Forgets, Blanks, Records, r
<1>6. CreatedBefore(r)
  <2> SUFFICES ASSUME NEW j \in DOMAIN r, r[j].do = "work",
                      NEW i \in DOMAIN r, j = i + 1
               PROVE  r[i].do = "create" /\ r[i].on = r[j].on
    BY DEF CreatedBefore
  <2>1. j - 3 \in DOMAIN t /\ r[j] = t[j - 3]
    BY <1>1, <1>2 DEF Records
  <2>2. j - 3 # 1
    BY <2>1
  <2>3. i - 3 \in DOMAIN t /\ j - 3 = (i - 3) + 1 /\ (i - 3) + 3 = i
    BY <1>1, <2>1, <2>2
  <2>4. r[i] = t[i - 3]
    BY <1>1, <2>3
  <2> QED BY <2>1, <2>3, <2>4 DEF Ordered, CreatedBefore
<1> QED BY <1>3, <1>4, <1>5, <1>6 DEF Ordered, r

-----------------------------------------------------------------------------
(* What is left to a process that fails: questions, and the release of     *)
(* what it holds.                                                          *)

Winding(t) ==
  t \in Seq(Step) /\ \A i \in DOMAIN t : t[i].do \in Questions \cup Clearance

LEMMA WindingGuarded ==
  ASSUME NEW t, Winding(t), NEW own, NEW planned, NEW command
  PROVE  Guarded(t, own, planned, command)
BY DEF Winding, Guarded, Questions, Clearance

LEMMA WindingOrdered ==
  ASSUME NEW t, Winding(t), AskedFirst(t)
  PROVE  Ordered(t) /\ \A i \in DOMAIN t : t[i].do \notin Records \cup {"try"}
<1>1. \A i \in DOMAIN t : t[i].do \notin Records \cup {"try", "work"}
  BY DEF Winding, Questions, Clearance, Records
<1> QED BY <1>1 DEF Ordered, RecordedFirst, ClearedLater, CreatedBefore

LEMMA WindingConcat ==
  ASSUME NEW s, Winding(s), NEW t, Winding(t)
  PROVE  Winding(s \o t)
<1>1. s \in Seq(Step) /\ t \in Seq(Step) /\ Len(s) \in Nat /\ Len(t) \in Nat
      /\ DOMAIN s = 1..Len(s) /\ DOMAIN t = 1..Len(t)
  BY DEF Winding
<1>2. ASSUME NEW i \in DOMAIN (s \o t)
      PROVE  (s \o t)[i].do \in Questions \cup Clearance
  <2>1. i \in 1..Len(s) + Len(t)
    BY <1>1, ConcatIs
  <2>2. CASE i \in 1..Len(s)
    BY <1>1, <2>2, ConcatIs DEF Winding
  <2>3. CASE i \notin 1..Len(s)
    <3>1. i - Len(s) \in 1..Len(t) /\ Len(s) + (i - Len(s)) = i
      BY <1>1, <2>1, <2>3
    <3>2. (s \o t)[i] = t[i - Len(s)]
      BY <1>1, <3>1, ConcatIs
    <3> QED BY <1>1, <3>1, <3>2 DEF Winding
  <2> QED BY <2>2, <2>3
<1> QED BY <1>1, <1>2, ConcatIs DEF Winding

LEMMA AfterLeft ==
  ASSUME NEW s \in Seq(Step), NEW t \in Seq(Step), NEW do, NEW l, NEW stops,
         After(s, 0, do, l, stops)
  PROVE  After(s \o t, 0, do, l, stops)
<1>1. /\ DOMAIN s = 1..Len(s) /\ DOMAIN (s \o t) = 1..Len(s) + Len(t)
      /\ Len(s) \in Nat /\ Len(t) \in Nat
      /\ \A i \in DOMAIN s : (s \o t)[i] = s[i]
  BY ConcatIs
<1>2. PICK k \in DOMAIN s :
        /\ 0 < k /\ s[k].do = do /\ s[k].on = l
        /\ \A j \in DOMAIN s : 0 < j /\ j < k /\ s[j].on = l => s[j].do \notin stops
  BY DEF After
<1>3. k \in DOMAIN (s \o t) /\ (s \o t)[k] = s[k]
      /\ \A j \in DOMAIN (s \o t) : j < k => j \in DOMAIN s
  BY <1>1
<1> QED BY <1>1, <1>2, <1>3 DEF After

LEMMA AfterRight ==
  ASSUME NEW s \in Seq(Step), NEW t \in Seq(Step), NEW do, NEW l, NEW stops,
         \A i \in DOMAIN s : s[i].on # l \/ s[i].do \notin stops,
         After(t, 0, do, l, stops)
  PROVE  After(s \o t, 0, do, l, stops)
<1>1. /\ DOMAIN s = 1..Len(s) /\ DOMAIN t = 1..Len(t)
      /\ DOMAIN (s \o t) = 1..Len(s) + Len(t) /\ Len(s) \in Nat /\ Len(t) \in Nat
      /\ \A i \in DOMAIN s : (s \o t)[i] = s[i]
  BY ConcatIs
<1>2. PICK k \in DOMAIN t :
        /\ 0 < k /\ t[k].do = do /\ t[k].on = l
        /\ \A j \in DOMAIN t : 0 < j /\ j < k /\ t[j].on = l => t[j].do \notin stops
  BY DEF After
<1>3. Len(s) + k \in DOMAIN (s \o t) /\ 0 < Len(s) + k
  BY <1>1, <1>2
<1>4. (s \o t)[Len(s) + k] = t[k]
  BY <1>1, ConcatIs
<1>5. ASSUME NEW j \in DOMAIN (s \o t), 0 < j, j < Len(s) + k, (s \o t)[j].on = l
      PROVE  (s \o t)[j].do \notin stops
  <2>1. CASE j \in DOMAIN s
    BY <1>1, <1>5, <2>1
  <2>2. CASE j \notin DOMAIN s
    <3>1. j - Len(s) \in 1..Len(t) /\ Len(s) + (j - Len(s)) = j
          /\ 0 < j - Len(s) /\ j - Len(s) < k
      BY <1>1, <1>5, <2>2
    <3>2. (s \o t)[j] = t[j - Len(s)]
      BY <3>1, ConcatIs
    <3> QED BY <1>1, <1>2, <1>5, <3>1, <3>2
  <2> QED BY <2>1, <2>2
<1> QED BY <1>2, <1>3, <1>4, <1>5 DEF After

LEMMA DropHeldIs ==
  ASSUME NEW p, NEW l \in Lock
  PROVE  /\ Winding(DropHeld(p, l)) /\ DropHeld(p, l) \in Seq(Step)
         /\ \A i \in DOMAIN DropHeld(p, l) :
              DropHeld(p, l)[i].on = l /\ DropHeld(p, l)[i].do \in Clearance
         /\ l \in Mine(p) => Forgets(DropHeld(p, l), 0, l)
                             /\ Blanks(DropHeld(p, l), 0, l)
<1>1. CASE holder[l] = p
  <2> DEFINE d == Drop(l)
  <2>1. /\ d \in Seq(Step) /\ DOMAIN d = 1..3
        /\ d[1].do = "forget" /\ d[2].do = "blank" /\ d[3].do = "unlock"
        /\ d[1].on = l /\ d[2].on = l /\ d[3].on = l
    BY Triples
  <2>2. DropHeld(p, l) = d
    BY <1>1 DEF DropHeld
  <2> HIDE DEF d
  <2>3. \A i \in DOMAIN d : d[i].on = l /\ d[i].do \in Clearance
    BY <2>1 DEF Clearance
  <2>4. Forgets(d, 0, l)
    BY <2>1 DEF Forgets, After
  <2>5. Blanks(d, 0, l)
    <3>1. 2 \in DOMAIN d /\ \A j \in DOMAIN d : j < 2 => j = 1
      BY <2>1
    <3> QED BY <2>1, <3>1 DEF Blanks, After
  <2> QED BY <2>1, <2>2, <2>3, <2>4, <2>5 DEF Winding
<1>2. CASE holder[l] # p
  BY <1>2 DEF DropHeld, Mine, Winding
<1> QED BY <1>1, <1>2

LEMMA StepsIs ==
  ASSUME NEW l \in Lock, NEW x \in Questions, NEW y \in Questions
  PROVE  /\ Steps(l, <<x, y>>) \in Seq(Step) /\ Len(Steps(l, <<x, y>>)) = 2
         /\ Steps(l, <<x, y>>)[1].do = x /\ Steps(l, <<x, y>>)[1].on = l
         /\ Steps(l, <<x, y>>)[2].do = y /\ Steps(l, <<x, y>>)[2].on = l
<1>1. Steps(l, <<x, y>>) = <<[do |-> x, on |-> l], [do |-> y, on |-> l]>>
  BY DEF Steps
<1>2. [do |-> x, on |-> l] \in Step /\ [do |-> y, on |-> l] \in Step
  BY DEF Step
<1> DEFINE a == [do |-> x, on |-> l]
           b == [do |-> y, on |-> l]
<1>3. a.do = x /\ a.on = l /\ b.do = y /\ b.on = l
  OBVIOUS
<1> HIDE DEF a, b
<1>4. /\ <<a, b>> \in Seq(Step) /\ Len(<<a, b>>) = 2
      /\ <<a, b>>[1] = a /\ <<a, b>>[2] = b
  BY <1>2 DEF a, b
<1> QED BY <1>1, <1>3, <1>4 DEF a, b

\* The two questions a newcomer asks of a lock.
LEMMA AskingIs ==
  ASSUME NEW l \in Lock
  PROVE  \E q \in Seq(Step) :
           /\ q = Steps(l, <<"ask", "ask the file">>) /\ Len(q) = 2
           /\ q[1].do = "ask" /\ q[1].on = l
           /\ q[2].do = "ask the file" /\ q[2].on = l
<1>1. \A x \in Questions, y \in Questions : \E q \in Seq(Step) :
        /\ q = Steps(l, <<x, y>>) /\ Len(q) = 2
        /\ q[1].do = x /\ q[1].on = l /\ q[2].do = y /\ q[2].on = l
  <2> TAKE x \in Questions, y \in Questions
  <2> DEFINE s == Steps(l, <<x, y>>)
  <2>1. /\ s \in Seq(Step) /\ Len(s) = 2
        /\ s[1].do = x /\ s[1].on = l /\ s[2].do = y /\ s[2].on = l
    BY StepsIs
  <2> HIDE DEF s
  <2>2. \E q \in Seq(Step) :
          /\ q = s /\ Len(q) = 2
          /\ q[1].do = x /\ q[1].on = l /\ q[2].do = y /\ q[2].on = l
    BY <2>1
  <2> QED BY <2>2 DEF s
<1>2. "ask" \in Questions /\ "ask the file" \in Questions
  BY DEF Questions
<1>3. \A x \in Questions : x = "ask" => \A y \in Questions : \E q \in Seq(Step) :
        /\ q = Steps(l, <<"ask", y>>) /\ Len(q) = 2
        /\ q[1].do = "ask" /\ q[1].on = l /\ q[2].do = y /\ q[2].on = l
  BY <1>1
<1> QED BY <1>2, <1>3

LEMMA AskedFirstConcat ==
  ASSUME NEW s \in Seq(Step), NEW t \in Seq(Step), AskedFirst(s), Winding(s),
         \A i \in DOMAIN t : t[i].do \in Clearance
  PROVE  AskedFirst(s \o t)
<1> DEFINE r == s \o t
<1>1. /\ DOMAIN s = 1..Len(s) /\ DOMAIN t = 1..Len(t)
      /\ DOMAIN r = 1..Len(s) + Len(t) /\ Len(s) \in Nat /\ Len(t) \in Nat
      /\ \A i \in DOMAIN s : r[i] = s[i]
      /\ r \in Seq(Step)
  BY ConcatIs
<1>2. ASSUME NEW i \in DOMAIN r, i \notin DOMAIN s
      PROVE  r[i].do \in Clearance
  <2>1. i - Len(s) \in 1..Len(t) /\ Len(s) + (i - Len(s)) = i
    BY <1>1, <1>2
  <2>2. r[i] = t[i - Len(s)]
    BY <2>1, ConcatIs
  <2> QED BY <1>1, <2>1, <2>2
<1> HIDE DEF r
<1>3. \A i \in DOMAIN r : r[i].do \in Questions => i \in DOMAIN s
  BY <1>2 DEF Questions, Clearance
<1>4. \A i \in DOMAIN r : r[i].do # "try"
  BY <1>1, <1>2 DEF Clearance, Winding, Questions
<1>5. ASSUME NEW i \in DOMAIN r, r[i].do \in Questions
      PROVE  /\ r[i].do = "ask" => i = 1 /\ 2 \in DOMAIN r
                                   /\ r[2].do = "ask the file" /\ r[2].on = r[1].on
             /\ r[i].do = "ask the file" => i = 1 \/ (i = 2 /\ r[1].do = "ask")
  <2>1. i \in DOMAIN s /\ r[i] = s[i] /\ (1 \in DOMAIN s) /\ r[1] = s[1]
        /\ (2 \in DOMAIN s => 2 \in DOMAIN r /\ r[2] = s[2])
    <3>1. i \in DOMAIN s
      BY <1>3, <1>5
    <3>2. 1 \in DOMAIN s /\ \A k \in DOMAIN s : k \in DOMAIN r
      BY <1>1, <3>1
    <3> QED BY <1>1, <3>1, <3>2
  <2> QED BY <2>1 DEF AskedFirst
<1> QED BY <1>4, <1>5 DEF AskedFirst, Questions, r

\* Fail(p, first): whatever the process owned is cleared, then released.
LEMMA WoundUp ==
  ASSUME NEW p, NEW first \in Seq(Step), Winding(first), AskedFirst(first),
         \A i \in DOMAIN first : first[i].do \in Questions,
         NEW t, t = first \o DropHeld(p, "dev.lock") \o DropHeld(p, "aggr.lock")
  PROVE  /\ Winding(t) /\ AskedFirst(t)
         /\ \A l \in Mine(p) : Forgets(t, 0, l) /\ Blanks(t, 0, l)
         /\ \A i \in DOMAIN t : t[i].do \in Questions =>
              i \in DOMAIN first /\ t[i] = first[i]
         /\ first # <<>> => t # <<>> /\ t[1] = first[1]
<1> DEFINE d == DropHeld(p, "dev.lock")
           a == DropHeld(p, "aggr.lock")
<1>1. "dev.lock" \in Lock /\ "aggr.lock" \in Lock /\ "dev.lock" # "aggr.lock"
      /\ \A l \in Lock : l = "dev.lock" \/ l = "aggr.lock"
  BY DEF Lock
<1>2. /\ Winding(d) /\ d \in Seq(Step) /\ Winding(a) /\ a \in Seq(Step)
      /\ \A i \in DOMAIN d : d[i].on = "dev.lock" /\ d[i].do \in Clearance
      /\ \A i \in DOMAIN a : a[i].on = "aggr.lock" /\ a[i].do \in Clearance
      /\ "dev.lock" \in Mine(p) =>
           Forgets(d, 0, "dev.lock") /\ Blanks(d, 0, "dev.lock")
      /\ "aggr.lock" \in Mine(p) =>
           Forgets(a, 0, "aggr.lock") /\ Blanks(a, 0, "aggr.lock")
  BY <1>1, DropHeldIs
<1> HIDE DEF d, a
<1>3. Winding(first \o d) /\ first \o d \in Seq(Step) /\ AskedFirst(first \o d)
  BY <1>2, WindingConcat, AskedFirstConcat DEF Winding
<1>4. t = (first \o d) \o a /\ Winding(t) /\ AskedFirst(t)
  BY <1>2, <1>3, WindingConcat, AskedFirstConcat DEF d, a
<1>5. \A i \in DOMAIN (first \o d) :
        \/ (first \o d)[i].do \in Questions
        \/ (first \o d)[i].on = "dev.lock"
  <2> TAKE i \in DOMAIN (first \o d)
  <2>1. /\ DOMAIN first = 1..Len(first) /\ DOMAIN d = 1..Len(d)
        /\ Len(first) \in Nat /\ Len(d) \in Nat /\ i \in 1..Len(first) + Len(d)
    BY <1>2, ConcatIs
  <2>2. CASE i \in 1..Len(first)
    BY <1>2, <2>1, <2>2, ConcatIs
  <2>3. CASE i \notin 1..Len(first)
    <3>1. i - Len(first) \in 1..Len(d) /\ Len(first) + (i - Len(first)) = i
      BY <2>1, <2>3
    <3>2. (first \o d)[i] = d[i - Len(first)]
      BY <1>2, <3>1, ConcatIs
    <3> QED BY <1>2, <2>1, <3>1, <3>2
  <2> QED BY <2>2, <2>3
<1>6. ASSUME NEW do, NEW stops, stops \subseteq Clearance,
             After(d, 0, do, "dev.lock", stops)
      PROVE  After(t, 0, do, "dev.lock", stops)
  <2>1. \A i \in DOMAIN first : first[i].do \notin stops
    BY <1>6 DEF Questions, Clearance
  <2>2. After(first \o d, 0, do, "dev.lock", stops)
    BY <1>2, <1>6, <2>1, AfterRight
  <2> QED BY <1>2, <1>3, <1>4, <2>2, AfterLeft
<1>7. ASSUME NEW do, NEW stops, stops \subseteq Clearance,
             After(a, 0, do, "aggr.lock", stops)
      PROVE  After(t, 0, do, "aggr.lock", stops)
  <2>1. \A i \in DOMAIN (first \o d) :
          (first \o d)[i].on # "aggr.lock" \/ (first \o d)[i].do \notin stops
    BY <1>1, <1>5, <1>7 DEF Questions, Clearance
  <2> QED BY <1>2, <1>3, <1>4, <1>7, <2>1, AfterRight
<1>8. {"blank", "unlock"} \subseteq Clearance /\ {"unlock"} \subseteq Clearance
  BY DEF Clearance
<1>9. ASSUME NEW l \in Mine(p) PROVE Forgets(t, 0, l) /\ Blanks(t, 0, l)
  <2>1. l \in Lock
    BY DEF Mine
  <2> QED BY <1>1, <1>2, <1>6, <1>7, <1>8, <2>1 DEF Forgets, Blanks
<1>10. ASSUME NEW i \in DOMAIN t, t[i].do \in Questions
       PROVE  i \in DOMAIN first /\ t[i] = first[i]
  <2>1. t[i].do \notin Clearance
    BY <1>10 DEF Questions, Clearance
  <2>2. i \in DOMAIN (first \o d) /\ t[i] = (first \o d)[i]
    <3>1. ASSUME i - Len(first \o d) \in DOMAIN a, t[i] = a[i - Len(first \o d)]
          PROVE  FALSE
      BY <1>2, <2>1, <3>1
    <3> DEFINE f == first \o d
    <3>2. f \in Seq(Step) /\ t = f \o a /\ i \in DOMAIN (f \o a)
      BY <1>3, <1>4, <1>10
    <3> HIDE DEF f
    <3>3. \/ i \in DOMAIN f /\ (f \o a)[i] = f[i]
          \/ i - Len(f) \in DOMAIN a /\ (f \o a)[i] = a[i - Len(f)]
      BY <1>2, <3>2, InConcat
    <3> QED BY <3>1, <3>2, <3>3 DEF f
  <2>3. (first \o d)[i].do \notin Clearance
    BY <2>1, <2>2
  <2>4. ASSUME i - Len(first) \in DOMAIN d, (first \o d)[i] = d[i - Len(first)]
        PROVE  FALSE
    BY <1>2, <2>3, <2>4
  <2> QED BY <1>2, <2>2, <2>4, InConcat
<1>11. first # <<>> => t # <<>> /\ t[1] = first[1]
  <2> SUFFICES ASSUME first # <<>> PROVE t # <<>> /\ t[1] = first[1]
    OBVIOUS
  <2>1. 1 \in 1..Len(first) /\ Len(first) \in Nat /\ Len(d) \in Nat
        /\ Len(a) \in Nat /\ Len(first) > 0
    BY <1>2
  <2>2. (first \o d)[1] = first[1] /\ Len(first \o d) > 0 /\ Len(first \o d) \in Nat
    BY <1>2, <2>1, ConcatIs
  <2>3. t[1] = (first \o d)[1] /\ Len(t) > 0
    BY <1>2, <1>3, <1>4, <2>1, <2>2, ConcatIs
  <2> QED BY <2>2, <2>3
<1> QED BY <1>4, <1>9, <1>10, <1>11

-----------------------------------------------------------------------------
(* What is left stays sound                                                *)

LEMMA SoundTail ==
  ASSUME NEW t, t # <<>>, NEW own, NEW records, NEW planned, NEW command,
         Sound(t, own, records, planned, command),
         NEW own2, NEW records2, NEW planned2,
         Hands(t[1], own, own2, planned, planned2),
         t[1].do \in Records => own \subseteq own2 /\ records \subseteq records2
  PROVE  Sound(Tail(t), own2, records2, planned2, command)
<1>1. t \in Seq(Step) /\ Ordered(t) /\ Guarded(t, own, planned, command)
  BY DEF Sound
<1>2. /\ Tail(t) \in Seq(Step) /\ Ordered(Tail(t))
      /\ Guarded(Tail(t), own2, planned2, command)
  BY <1>1, TailIs, OrderedTail, GuardedTail
<1>3. ASSUME NEW i \in DOMAIN Tail(t), Tail(t)[i].do \in Records
      PROVE  /\ Tail(t)[i].on \in own2 \cap records2
             /\ Forgets(Tail(t), 0, Tail(t)[i].on)
             /\ Blanks(Tail(t), 0, Tail(t)[i].on)
  <2> DEFINE l == Tail(t)[i].on
  <2>1. i + 1 \in DOMAIN t /\ Tail(t)[i] = t[i + 1] /\ 1 \in DOMAIN t /\ 1 < i + 1
    BY <1>1, TailIs
  <2>2. t[1].do \in Records
    BY <1>1, <1>3, <2>1 DEF Ordered, RecordedFirst
  <2>3. l \in own \cap records /\ Forgets(t, 0, l) /\ Blanks(t, 0, l)
    BY <1>3, <2>1 DEF Sound
  <2> HIDE DEF l
  <2>4. t[1].do \notin {"forget", "blank"}
    BY <2>2 DEF Records
  <2>5. After(Tail(t), 0, "forget", l, {"blank", "unlock"})
    BY <1>1, <2>3, <2>4, AfterTail DEF Forgets
  <2>6. After(Tail(t), 0, "blank", l, {"unlock"})
    BY <1>1, <2>3, <2>4, AfterTail DEF Blanks
  <2> QED BY <2>2, <2>3, <2>5, <2>6 DEF Forgets, Blanks, l
<1> QED BY <1>2, <1>3 DEF Sound

LEMMA SoundWinding ==
  ASSUME NEW t, Winding(t), AskedFirst(t),
         NEW own, NEW records, NEW planned, NEW command
  PROVE  Sound(t, own, records, planned, command)
<1>1. t \in Seq(Step) /\ Ordered(t) /\ \A i \in DOMAIN t : t[i].do \notin Records
  BY WindingOrdered DEF Winding
<1>2. Guarded(t, own, planned, command)
  BY WindingGuarded
<1> QED BY <1>1, <1>2 DEF Sound

\* After an attempt nothing is a question or writes a record.
LEMMA AfterTry ==
  ASSUME NEW t \in Seq(Step), t # <<>>, Ordered(t), t[1].do = "try"
  PROVE  /\ \A i \in DOMAIN Tail(t) : Tail(t)[i].do \notin Questions \cup Records
         /\ 1 \in DOMAIN Tail(t) => Tail(t)[1].do # "work"
         /\ Forgets(Tail(t), 0, t[1].on) /\ Blanks(Tail(t), 0, t[1].on)
<1>1. \A i \in DOMAIN t : t[i].do \notin Questions
  <2>1. 1 \in DOMAIN t
    BY TailIs
  <2> QED BY <2>1 DEF Ordered, AskedFirst
<1>2. ASSUME NEW i \in DOMAIN Tail(t)
      PROVE  Tail(t)[i].do \notin Questions \cup Records
  <2>1. i + 1 \in DOMAIN t /\ Tail(t)[i] = t[i + 1] /\ 1 \in DOMAIN t /\ 1 < i + 1
    BY TailIs
  <2>2. t[1].do \notin Records
    BY DEF Records
  <2> QED BY <1>1, <2>1, <2>2 DEF Ordered, RecordedFirst
<1>3. 1 \in DOMAIN Tail(t) => Tail(t)[1].do # "work"
  <2>1. 1 \in DOMAIN Tail(t) => 2 \in DOMAIN t /\ Tail(t)[1] = t[2] /\ 1 \in DOMAIN t
    BY TailIs
  <2> QED BY <2>1 DEF Ordered, CreatedBefore
<1>4. Forgets(t, 1, t[1].on) /\ Blanks(t, 1, t[1].on)
  BY TailIs DEF Ordered, ClearedLater
<1>5. Forgets(Tail(t), 0, t[1].on) /\ Blanks(Tail(t), 0, t[1].on)
  BY <1>4, AfterTail DEF Forgets, Blanks
<1> QED BY <1>2, <1>3, <1>5

LEMMA SoundRecord ==
  ASSUME NEW t, t # <<>>, NEW own, NEW records, NEW planned, NEW command,
         Sound(t, own, records, planned, command), t[1].do = "try",
         t[1].on \in Lock, NEW own2, NEW records2,
         Hands(t[1], own, own2, planned, planned),
         t[1].on \in own2 \cap records2
  PROVE  Sound(Record(t[1].on) \o Tail(t), own2, records2, planned, command)
<1> DEFINE l == t[1].on
           r == Record(l) \o Tail(t)
<1>1. t \in Seq(Step) /\ Ordered(t) /\ t[1].do \notin Records
  BY DEF Sound, Records
<1>2. Sound(Tail(t), own2, records2, planned, command)
  BY <1>1, SoundTail
<1>3. /\ Tail(t) \in Seq(Step) /\ Ordered(Tail(t))
      /\ Guarded(Tail(t), own2, planned, command)
  BY <1>2 DEF Sound
<1>4. r \in Seq(Step) /\ Ordered(r) /\ Guarded(r, own2, planned, command)
  BY <1>1, <1>3, AfterTry, RecordThen, OrderedRecord, GuardedRecord
<1>5. Forgets(r, 0, l) /\ Blanks(r, 0, l)
  <2>1. /\ After(Tail(t), 0, "forget", l, {"blank", "unlock"})
        /\ After(Tail(t), 0, "blank", l, {"unlock"})
    BY <1>1, AfterTry DEF Forgets, Blanks
  <2>2. {"blank", "unlock"} \cap Records = {} /\ {"unlock"} \cap Records = {}
    BY DEF Records
  <2> QED BY <1>3, <2>1, <2>2, AfterRecord DEF Forgets, Blanks
<1>6. ASSUME NEW i \in DOMAIN r, r[i].do \in Records
      PROVE  r[i].on = l
  <2>1. i \in 1..3 \/ (i - 3 \in DOMAIN Tail(t) /\ (i - 3) + 3 = i)
    BY <1>3, RecordThen
  <2>2. CASE i \in 1..3
    BY <1>3, <2>2, RecordThen
  <2>3. CASE i - 3 \in DOMAIN Tail(t) /\ (i - 3) + 3 = i
    <3>0. \A j \in DOMAIN Tail(t) : r[j + 3] = Tail(t)[j]
      BY <1>3, RecordThen
    <3>1. r[i] = Tail(t)[i - 3]
      <4>1. r[(i - 3) + 3] = Tail(t)[i - 3]
        BY Zenon, <2>3, <3>0
      <4> QED BY Zenon, <2>3, <4>1
    <3> QED BY <1>1, <1>6, <2>3, <3>1, AfterTry
  <2> QED BY <2>1, <2>2, <2>3
<1> QED BY <1>4, <1>5, <1>6 DEF Sound

-----------------------------------------------------------------------------
(* One step of a process                                                   *)

\* What another process does leaves a process as it was.
LEMMA Bystander ==
  ASSUME NEW p \in Process, NEW q \in Process, p # q,
         Underway(q), Recorded(q), Told(q),
         todo'[q] = todo[q], kind' = kind, plan'[q] = plan[q],
         named'[q] = named[q], crashed \subseteq crashed',
         \A l \in Lock :
           /\ holder'[l] = q <=> holder[l] = q
           /\ <<q, l>> \in recorder' <=> <<q, l>> \in recorder
           /\ sidecar'[l] = q => sidecar[l] = q
           /\ body'[l] = q => body[l] = q
           /\ \/ holder'[l] \in {holder[l], Nobody}
              \/ Asking(q, l) => holder'[l] \in witnessed'[q],
         witnessed[q] \subseteq witnessed'[q]
  PROVE  Underway(q)' /\ Recorded(q)' /\ Told(q)'
<1>1. Mine(q)' = Mine(q) /\ Recorder(q)' = Recorder(q)
  BY DEF Mine, Recorder
<1>2. Underway(q)'
  BY <1>1 DEF Underway
<1>3. Recorded(q)'
  <2> SUFFICES ASSUME q \notin crashed', NEW l \in Lock
               PROVE  /\ sidecar'[l] = q =>
                           l \in Mine(q) /\ l \in Recorder(q) /\ Forgets(todo[q], 0, l)
                      /\ body'[l] = q =>
                           l \in Mine(q) /\ l \in Recorder(q) /\ Blanks(todo[q], 0, l)
    BY <1>1 DEF Recorded
  <2>1. q \notin crashed
    OBVIOUS
  <2> QED BY <2>1 DEF Recorded
<1>4. Told(q)'
  <2>1. \A l \in Lock : Asking(q, l)' <=> Asking(q, l)
    BY DEF Asking, Doing, On
  <2>2. ASSUME NEW l \in Lock, Asking(q, l)
        PROVE  holder'[l] = Nobody \/ holder'[l] \in witnessed'[q]
    BY <2>2 DEF Told
  <2>3. named'[q] # Nobody =>
          /\ named'[q] \in witnessed'[q] \cup crashed'
          /\ \A i \in DOMAIN todo'[q] : todo'[q][i].do # "try"
    BY DEF Told
  <2> QED BY <2>1, <2>2, <2>3 DEF Told
<1> QED BY <1>2, <1>3, <1>4

LEMMA BystanderStands ==
  ASSUME NEW q \in Process, Standing(q), todo'[q] = todo[q], kind' = kind,
         trees \subseteq trees'
  PROVE  Standing(q)'
BY DEF Standing, Doing, On

\* A step that is done with: the process goes on with the next one.
LEMMA Advancing ==
  ASSUME WorkspaceInv, NEW p \in Process, todo[p] # <<>>, Advance(p),
         todo[p][1].do \notin Questions,
         todo[p][1].do \in Records =>
           Mine(p) \subseteq Mine(p)' /\ Recorder(p) \subseteq Recorder(p)',
         todo[p][1].do = "create" => todo[p][1].on \in trees',
         Hands(todo[p][1], Mine(p), Mine(p)', plan[p], plan'[p]), kind' = kind,
         named' = named, witnessed'[p] = witnessed[p], crashed' = crashed,
         p \notin crashed => \A l \in Lock :
           /\ sidecar'[l] = p =>
                /\ l \in Mine(p)' /\ l \in Recorder(p)' /\ Forgets(todo[p], 0, l)
                /\ ~(todo[p][1].do = "forget" /\ todo[p][1].on = l)
           /\ body'[l] = p =>
                /\ l \in Mine(p)' /\ l \in Recorder(p)' /\ Blanks(todo[p], 0, l)
                /\ ~(todo[p][1].do = "blank" /\ todo[p][1].on = l)
  PROVE  Underway(p)' /\ Recorded(p)' /\ Told(p)' /\ Standing(p)'
<1> DEFINE t == todo[p]
<1>1. todo'[p] = Tail(t) /\ t \in Seq(Step) /\ Ordered(t) /\ t # <<>>
  BY DEF WorkspaceInv, Advance, Underway, Sound
<1>2. /\ Tail(t) \in Seq(Step) /\ 1 \in DOMAIN t
      /\ \A i \in DOMAIN Tail(t) : i + 1 \in DOMAIN t /\ Tail(t)[i] = t[i + 1]
                                   /\ i + 1 # 1 /\ (i + 1 = 2 => i = 1)
  BY <1>1, TailIs
<1>3. Underway(p)'
  <2>1. Sound(t, Mine(p), Recorder(p), plan[p], kind[p])
    BY DEF WorkspaceInv, Underway
  <2>2. Sound(Tail(t), Mine(p)', Recorder(p)', plan'[p], kind[p])
    BY <1>1, <2>1, SoundTail
  <2> QED BY <1>1, <2>2 DEF Underway
<1>4. Recorded(p)'
  <2>1. ASSUME NEW l \in Lock, Forgets(t, 0, l),
               ~(t[1].do = "forget" /\ t[1].on = l)
        PROVE  Forgets(Tail(t), 0, l)
    BY <1>1, <2>1, AfterTail DEF Forgets
  <2>2. ASSUME NEW l \in Lock, Blanks(t, 0, l),
               ~(t[1].do = "blank" /\ t[1].on = l)
        PROVE  Blanks(Tail(t), 0, l)
    BY <1>1, <2>2, AfterTail DEF Blanks
  <2> SUFFICES ASSUME p \notin crashed, NEW l \in Lock
               PROVE  /\ sidecar'[l] = p =>
                           l \in Mine(p)' /\ l \in Recorder(p)' /\ Forgets(Tail(t), 0, l)
                      /\ body'[l] = p =>
                           l \in Mine(p)' /\ l \in Recorder(p)' /\ Blanks(Tail(t), 0, l)
    BY <1>1 DEF Recorded
  <2> QED BY <2>1, <2>2
<1>5. \A i \in DOMAIN Tail(t) : Tail(t)[i].do \notin Questions
  BY <1>1, <1>2 DEF Ordered, AskedFirst, Questions
<1>6. Told(p)'
  <2>1. \A l \in Lock : ~Asking(p, l)'
    <3>1. Tail(t) # <<>> => 1 \in DOMAIN Tail(t) /\ Head(Tail(t)) = Tail(t)[1]
      BY <1>2, TailIs
    <3> QED BY <1>1, <1>5, <3>1 DEF Asking, Doing, Questions
  <2>2. Told(p)
    BY DEF WorkspaceInv
  <2>3. named[p] # Nobody => \A i \in DOMAIN Tail(t) : Tail(t)[i].do # "try"
    BY <1>2, <2>2 DEF Told
  <2> QED BY <1>1, <2>1, <2>2, <2>3 DEF Told
<1>7. Standing(p)'
  <2>1. ASSUME Tail(t) # <<>>, Head(Tail(t)).do = "work"
        PROVE  Head(Tail(t)).on \in trees'
    <3>1. 1 \in DOMAIN Tail(t) /\ Head(Tail(t)) = Tail(t)[1]
      BY <1>2, <2>1, TailIs
    <3>2. 2 \in DOMAIN t /\ Tail(t)[1] = t[2]
      BY <1>2, <3>1
    <3>3. t[1].do = "create" /\ t[1].on = t[2].on
      BY <1>1, <1>2, <2>1, <3>1, <3>2 DEF Ordered, CreatedBefore
    <3> QED BY <3>1, <3>2, <3>3
  <2> QED BY <1>1, <2>1 DEF Standing, Doing, On
<1> QED BY <1>3, <1>4, <1>6, <1>7

LEMMA StepIs ==
  ASSUME NEW x \in Step
  PROVE  /\ x.on \in Lock \cup Tree
         /\ x.do \in Questions \cup Records \cup Clearance \cup {"try"} => x.on \in Lock
         /\ x.do \in TreeSteps => x.on \in Tree
<1>1. CASE x \in [do : Questions \cup Records \cup Clearance, on : Lock]
  BY <1>1 DEF Questions, Records, Clearance, TreeSteps
<1>2. CASE x \in [do : {"try"}, on : Lock, mode : Modes]
  BY <1>2 DEF TreeSteps
<1>3. CASE x \in [do : TreeSteps, on : Tree]
  BY <1>3 DEF Questions, Records, Clearance, TreeSteps
<1> QED BY <1>1, <1>2, <1>3 DEF Step

\* The step a process is about to take.
LEMMA NextIs ==
  ASSUME WorkspaceInv, NEW p \in Process, todo[p] # <<>>
  PROVE  /\ Head(todo[p]) = todo[p][1] /\ 1 \in DOMAIN todo[p]
         /\ todo[p] \in Seq(Step) /\ Ordered(todo[p])
         /\ todo[p][1].do \in Questions \cup Records \cup Clearance \cup {"try"} =>
              todo[p][1].on \in Lock
         /\ todo[p][1].do \in TreeSteps => todo[p][1].on \in Tree
<1>1. todo[p] \in Seq(Step) /\ Ordered(todo[p])
  BY DEF WorkspaceInv, Underway, Sound
<1>2. Head(todo[p]) = todo[p][1] /\ 1 \in DOMAIN todo[p] /\ todo[p][1] \in Step
  BY <1>1, TailIs
<1> QED BY <1>1, <1>2, StepIs

LEMMA TodoTyped ==
  ASSUME \A p \in Process : Underway(p)'
  PROVE  \A p \in Process : \A i \in DOMAIN todo'[p] :
           todo'[p][i].on \in Lock \cup Tree
<1> SUFFICES ASSUME NEW p \in Process, NEW i \in DOMAIN todo'[p]
             PROVE  todo'[p][i].on \in Lock \cup Tree
  OBVIOUS
<1>1. todo'[p] \in Seq(Step)
  BY DEF Underway, Sound
<1>2. todo'[p][i] \in Step
  BY <1>1
<1> QED BY <1>2, StepIs

LEMMA WriteRecordKeeps ==
  ASSUME WorkspaceAssumption, WorkspaceInv, NEW p \in Process, WriteRecord(p)
  PROVE  WorkspaceInv'
<1> DEFINE t == todo[p]
           l == t[1].on
<1>1. /\ todo[p] # <<>> /\ Advance(p) /\ On(p) = l
      /\ todo' = [todo EXCEPT ![p] = Tail(@)]
      /\ t[1].do \in Records /\ l \in Lock /\ 1 \in DOMAIN t
      /\ UNCHANGED <<kind, plan, holder, exists, recorder, trees, named, witnessed,
                     crashed>>
  <2>1. todo[p] # <<>> /\ Head(t).do \in Records
    BY DEF WriteRecord, Doing, Records
  <2> QED BY <2>1, NextIs DEF WriteRecord, Advance, On, toldVars
<1>2. l \in Mine(p) /\ l \in Recorder(p) /\ Forgets(t, 0, l) /\ Blanks(t, 0, l)
  BY <1>1 DEF WorkspaceInv, Underway, Sound
<1>3. /\ holder \in [Lock -> Process \cup {Nobody}]
      /\ body \in [Lock -> Process \cup {Nobody}]
      /\ sidecar \in [Lock -> Process \cup {Nobody}]
      /\ Nobody \notin Process /\ DOMAIN todo = Process
  BY DEF WorkspaceInv, TypeOK, WorkspaceAssumption
<1>4. /\ \A m \in Lock : sidecar'[m] = sidecar[m] \/ (m = l /\ sidecar'[m] = p)
      /\ \A m \in Lock : body'[m] = body[m] \/ (m = l /\ body'[m] \in {p, Nobody})
      /\ body' \in [Lock -> Process \cup {Nobody}]
      /\ sidecar' \in [Lock -> Process \cup {Nobody}]
  BY <1>1, <1>3 DEF WriteRecord
<1>5. Mine(p)' = Mine(p) /\ Recorder(p)' = Recorder(p)
  BY <1>1 DEF Mine, Recorder
<1>6. Underway(p)' /\ Recorded(p)' /\ Told(p)' /\ Standing(p)'
  <2>1. Hands(t[1], Mine(p), Mine(p)', plan[p], plan'[p])
        /\ t[1].do \notin Questions \cup {"create", "forget", "blank"}
    BY <1>1, <1>5 DEF Hands, Records, Questions
  <2>2. p \notin crashed => \A m \in Lock :
          /\ sidecar'[m] = p =>
               m \in Mine(p)' /\ m \in Recorder(p)' /\ Forgets(todo[p], 0, m)
          /\ body'[m] = p =>
               m \in Mine(p)' /\ m \in Recorder(p)' /\ Blanks(todo[p], 0, m)
    BY <1>2, <1>3, <1>4, <1>5 DEF WorkspaceInv, Recorded
  <2> QED BY <1>1, <1>5, <2>1, <2>2, Advancing
<1>7. ASSUME NEW q \in Process, q # p
      PROVE  Underway(q)' /\ Recorded(q)' /\ Told(q)' /\ Standing(q)'
  <2>1. todo'[q] = todo[q]
    BY <1>1, <1>3, <1>7
  <2>2. Underway(q) /\ Recorded(q) /\ Told(q) /\ Standing(q)
    BY DEF WorkspaceInv
  <2>3. \A m \in Lock : (sidecar'[m] = q => sidecar[m] = q) /\ (body'[m] = q => body[m] = q)
    BY <1>3, <1>4, <1>7
  <2>4. Standing(q)'
    BY <1>1, <2>1, <2>2, BystanderStands
  <2> QED BY <1>1, <1>7, <2>1, <2>2, <2>3, <2>4, Bystander
<1>8. \A q \in Process : Underway(q)' /\ Recorded(q)' /\ Told(q)' /\ Standing(q)'
  BY <1>6, <1>7
<1>9. TypeOK' /\ DOMAIN todo' = Process
  BY <1>1, <1>3, <1>4, <1>8, TodoTyped DEF WorkspaceInv, TypeOK
<1> QED BY <1>8, <1>9 DEF WorkspaceInv

LEMMA ClearRecordKeeps ==
  ASSUME WorkspaceAssumption, WorkspaceInv, NEW p \in Process, ClearRecord(p)
  PROVE  WorkspaceInv'
<1> DEFINE t == todo[p]
           l == t[1].on
<1>1. /\ todo[p] # <<>> /\ Advance(p) /\ On(p) = l /\ Head(t) = t[1]
      /\ todo' = [todo EXCEPT ![p] = Tail(@)]
      /\ t[1].do \in {"forget", "blank"} /\ l \in Lock /\ 1 \in DOMAIN t
      /\ UNCHANGED <<kind, plan, holder, exists, trees, named, witnessed, crashed>>
  <2>1. todo[p] # <<>> /\ Head(t).do \in {"forget", "blank"}
    BY DEF ClearRecord, Doing
  <2> QED BY <2>1, NextIs DEF ClearRecord, Advance, On, toldVars, Clearance
<1>2. /\ sidecar' = IF t[1].do = "forget" /\ <<p, l>> \in recorder
                    THEN [sidecar EXCEPT ![l] = Nobody] ELSE sidecar
      /\ body' = IF t[1].do = "blank" /\ <<p, l>> \in recorder
                 THEN [body EXCEPT ![l] = Nobody] ELSE body
      /\ recorder' = IF t[1].do = "blank" THEN recorder \ {<<p, l>>} ELSE recorder
  BY <1>1 DEF ClearRecord, Doing
<1>3. /\ body \in [Lock -> Process \cup {Nobody}]
      /\ sidecar \in [Lock -> Process \cup {Nobody}]
      /\ Nobody \notin Process /\ DOMAIN todo = Process
      /\ recorder \subseteq Process \X Lock
  BY DEF WorkspaceInv, TypeOK, WorkspaceAssumption
<1>4. /\ \A m \in Lock : sidecar'[m] \in {sidecar[m], Nobody}
      /\ \A m \in Lock : body'[m] \in {body[m], Nobody}
      /\ body' \in [Lock -> Process \cup {Nobody}]
      /\ sidecar' \in [Lock -> Process \cup {Nobody}]
      /\ recorder' \subseteq Process \X Lock
      /\ \A q \in Process, m \in Lock : q # p \/ m # l =>
           (<<q, m>> \in recorder' <=> <<q, m>> \in recorder)
  BY <1>2, <1>3
<1>5. Mine(p)' = Mine(p)
  BY <1>1 DEF Mine
<1>6. Underway(p)' /\ Recorded(p)' /\ Told(p)' /\ Standing(p)'
  <2>1. Hands(t[1], Mine(p), Mine(p)', plan[p], plan'[p])
        /\ t[1].do \notin Questions \cup Records \cup {"create", "unlock"}
    BY <1>1, <1>5 DEF Hands, Records, Questions
  <2>2. ASSUME p \notin crashed, NEW m \in Lock, sidecar'[m] = p
        PROVE  /\ m \in Mine(p)' /\ m \in Recorder(p)' /\ Forgets(t, 0, m)
               /\ ~(t[1].do = "forget" /\ t[1].on = m)
    <3>1. sidecar[m] = p
      BY <1>3, <1>4, <2>2
    <3>2. m \in Mine(p) /\ m \in Recorder(p) /\ Forgets(t, 0, m)
      BY <2>2, <3>1 DEF WorkspaceInv, Recorded
    <3>3. ~(t[1].do = "forget" /\ t[1].on = m)
      <4>1. ASSUME t[1].do = "forget", l = m PROVE sidecar'[m] = Nobody
        BY <1>2, <1>3, <3>2, <4>1 DEF Recorder
      <4> QED BY <1>3, <2>2, <4>1
    <3>4. ~(t[1].do = "blank" /\ l = m)
      <4>1. PICK k \in DOMAIN t :
              /\ 0 < k /\ t[k].do = "forget"
              /\ \A j \in DOMAIN t : 0 < j /\ j < k /\ t[j].on = m =>
                   t[j].do \notin {"blank", "unlock"}
        BY <3>2 DEF Forgets, After
      <4>2. k = 1 \/ 1 < k
        BY <1>1, <4>1, NextIs
      <4> QED BY <1>1, <4>1, <4>2
    <3>5. m \in Recorder(p)'
      BY <1>2, <1>4, <3>2, <3>4 DEF Recorder
    <3> QED BY <1>5, <3>2, <3>3, <3>5
  <2>3. ASSUME p \notin crashed, NEW m \in Lock, body'[m] = p
        PROVE  /\ m \in Mine(p)' /\ m \in Recorder(p)' /\ Blanks(t, 0, m)
               /\ ~(t[1].do = "blank" /\ t[1].on = m)
    <3>1. body[m] = p
      BY <1>3, <1>4, <2>3
    <3>2. m \in Mine(p) /\ m \in Recorder(p) /\ Blanks(t, 0, m)
      BY <2>3, <3>1 DEF WorkspaceInv, Recorded
    <3>3. ~(t[1].do = "blank" /\ t[1].on = m)
      <4>1. ASSUME t[1].do = "blank", l = m PROVE body'[m] = Nobody
        BY <1>2, <1>3, <3>2, <4>1 DEF Recorder
      <4> QED BY <1>3, <2>3, <4>1
    <3>4. m \in Recorder(p)'
      BY <1>2, <1>4, <3>2, <3>3 DEF Recorder
    <3> QED BY <1>5, <3>2, <3>3, <3>4
  <2> QED BY <1>1, <1>5, <2>1, <2>2, <2>3, Advancing
<1>7. ASSUME NEW q \in Process, q # p
      PROVE  Underway(q)' /\ Recorded(q)' /\ Told(q)' /\ Standing(q)'
  <2>1. todo'[q] = todo[q]
    BY <1>1, <1>3, <1>7
  <2>2. Underway(q) /\ Recorded(q) /\ Told(q) /\ Standing(q)
    BY DEF WorkspaceInv
  <2>3. \A m \in Lock : (sidecar'[m] = q => sidecar[m] = q) /\ (body'[m] = q => body[m] = q)
    BY <1>3, <1>4, <1>7
  <2>4. Standing(q)'
    BY <1>1, <2>1, <2>2, BystanderStands
  <2> QED BY <1>1, <1>4, <1>7, <2>1, <2>2, <2>3, <2>4, Bystander
<1>8. \A q \in Process : Underway(q)' /\ Recorded(q)' /\ Told(q)' /\ Standing(q)'
  BY <1>6, <1>7
<1>9. TypeOK' /\ DOMAIN todo' = Process
  BY <1>1, <1>3, <1>4, <1>8, TodoTyped DEF WorkspaceInv, TypeOK
<1> QED BY <1>8, <1>9 DEF WorkspaceInv

LEMMA UnlockKeeps ==
  ASSUME WorkspaceAssumption, WorkspaceInv, NEW p \in Process, Unlock(p)
  PROVE  WorkspaceInv'
<1> DEFINE t == todo[p]
           l == t[1].on
<1>1. /\ todo[p] # <<>> /\ Advance(p) /\ On(p) = l
      /\ todo' = [todo EXCEPT ![p] = Tail(@)]
      /\ t[1].do = "unlock" /\ l \in Lock /\ 1 \in DOMAIN t
      /\ UNCHANGED <<kind, plan, exists, recorder, body, sidecar, trees, named,
                     witnessed, crashed>>
  <2>1. todo[p] # <<>> /\ Head(t).do = "unlock"
    BY DEF Unlock, Doing
  <2> QED BY <2>1, NextIs DEF Unlock, Advance, On, toldVars, Clearance
<1>2. holder' = IF holder[l] = p THEN [holder EXCEPT ![l] = Nobody] ELSE holder
  BY <1>1 DEF Unlock
<1>3. /\ holder \in [Lock -> Process \cup {Nobody}]
      /\ Nobody \notin Process /\ DOMAIN todo = Process
  BY DEF WorkspaceInv, TypeOK, WorkspaceAssumption
<1>4. /\ \A m \in Lock : holder'[m] = holder[m]
                         \/ (m = l /\ holder[m] = p /\ holder'[m] = Nobody)
      /\ holder' \in [Lock -> Process \cup {Nobody}]
  BY <1>2, <1>3
<1>5. Recorder(p)' = Recorder(p) /\ \A m \in Mine(p) : m \in Mine(p)' \/ m = l
  BY <1>1, <1>4 DEF Mine, Recorder
<1>6. Underway(p)' /\ Recorded(p)' /\ Told(p)' /\ Standing(p)'
  <2>1. Hands(t[1], Mine(p), Mine(p)', plan[p], plan'[p])
        /\ t[1].do \notin Questions \cup Records \cup {"create", "forget", "blank"}
    BY <1>1, <1>5 DEF Hands, Records, Questions
  <2>2. ASSUME NEW m \in Lock, NEW do, NEW stops, do # "unlock", "unlock" \in stops,
               After(t, 0, do, m, stops)
        PROVE  m # l
    <3>1. PICK k \in DOMAIN t :
            /\ 0 < k /\ t[k].do = do
            /\ \A j \in DOMAIN t : 0 < j /\ j < k /\ t[j].on = m => t[j].do \notin stops
      BY <2>2 DEF After
    <3>2. k = 1 \/ 1 < k
      BY <1>1, <3>1, NextIs
    <3> QED BY <1>1, <2>2, <3>1, <3>2
  <2>3. ASSUME NEW m \in Lock, Forgets(t, 0, m) \/ Blanks(t, 0, m)
        PROVE  m # l
    BY <2>2, <2>3 DEF Forgets, Blanks
  <2>4. p \notin crashed => \A m \in Lock :
          /\ sidecar'[m] = p =>
               m \in Mine(p)' /\ m \in Recorder(p)' /\ Forgets(todo[p], 0, m)
          /\ body'[m] = p =>
               m \in Mine(p)' /\ m \in Recorder(p)' /\ Blanks(todo[p], 0, m)
    BY <1>1, <1>5, <2>3 DEF WorkspaceInv, Recorded
  <2> QED BY <1>1, <2>1, <2>4, Advancing
<1>7. ASSUME NEW q \in Process, q # p
      PROVE  Underway(q)' /\ Recorded(q)' /\ Told(q)' /\ Standing(q)'
  <2>1. todo'[q] = todo[q]
    BY <1>1, <1>3, <1>7
  <2>2. Underway(q) /\ Recorded(q) /\ Told(q) /\ Standing(q)
    BY DEF WorkspaceInv
  <2>3. \A m \in Lock : (holder'[m] = q <=> holder[m] = q)
                        /\ holder'[m] \in {holder[m], Nobody}
    BY <1>3, <1>4, <1>7
  <2>4. Standing(q)'
    BY <1>1, <2>1, <2>2, BystanderStands
  <2> QED BY <1>1, <1>7, <2>1, <2>2, <2>3, <2>4, Bystander
<1>8. \A q \in Process : Underway(q)' /\ Recorded(q)' /\ Told(q)' /\ Standing(q)'
  BY <1>6, <1>7
<1>9. TypeOK' /\ DOMAIN todo' = Process
  BY <1>1, <1>3, <1>4, <1>8, TodoTyped DEF WorkspaceInv, TypeOK
<1> QED BY <1>8, <1>9 DEF WorkspaceInv

\* A step that leaves the locks, their records and the answers alone.
LEMMA Aside ==
  ASSUME WorkspaceAssumption, WorkspaceInv, NEW p \in Process, todo[p] # <<>>,
         todo[p][1].do \in TreeSteps, Advance(p),
         UNCHANGED <<kind, lockVars, named, witnessed, crashed>>,
         todo[p][1].do = "create" => todo[p][1].on \in trees',
         todo[p][1].do # "plan" => plan'[p] = plan[p],
         \A q \in Process : q # p => plan'[q] = plan[q] /\ Standing(q)',
         plan' \in [Process -> SUBSET Tree], trees' \subseteq Tree
  PROVE  WorkspaceInv'
<1> DEFINE t == todo[p]
<1>1. /\ todo' = [todo EXCEPT ![p] = Tail(@)]
      /\ UNCHANGED <<kind, holder, exists, recorder, body, sidecar, named, witnessed,
                     crashed>>
  BY DEF Advance, lockVars
<1>2. Nobody \notin Process /\ DOMAIN todo = Process
  BY DEF WorkspaceInv, WorkspaceAssumption
<1>3. Mine(p)' = Mine(p) /\ Recorder(p)' = Recorder(p)
  BY <1>1 DEF Mine, Recorder
<1>4. Underway(p)' /\ Recorded(p)' /\ Told(p)' /\ Standing(p)'
  <2>1. Hands(t[1], Mine(p), Mine(p)', plan[p], plan'[p])
    BY <1>3 DEF Hands, TreeSteps
  <2>2. t[1].do \notin Questions \cup Records \cup {"forget", "blank"}
    BY DEF Records, Questions, TreeSteps
  <2>3. p \notin crashed => \A m \in Lock :
          /\ sidecar'[m] = p =>
               m \in Mine(p)' /\ m \in Recorder(p)' /\ Forgets(todo[p], 0, m)
          /\ body'[m] = p =>
               m \in Mine(p)' /\ m \in Recorder(p)' /\ Blanks(todo[p], 0, m)
    BY <1>1, <1>3 DEF WorkspaceInv, Recorded
  <2> QED BY <1>1, <2>1, <2>2, <2>3, Advancing
<1>5. ASSUME NEW q \in Process, q # p
      PROVE  Underway(q)' /\ Recorded(q)' /\ Told(q)' /\ Standing(q)'
  <2>1. todo'[q] = todo[q] /\ plan'[q] = plan[q]
    BY <1>1, <1>2, <1>5
  <2>2. Underway(q) /\ Recorded(q) /\ Told(q)
    BY DEF WorkspaceInv
  <2> QED BY <1>1, <1>5, <2>1, <2>2, Bystander
<1>6. \A q \in Process : Underway(q)' /\ Recorded(q)' /\ Told(q)' /\ Standing(q)'
  BY <1>4, <1>5
<1>7. TypeOK' /\ DOMAIN todo' = Process
  BY <1>1, <1>2, <1>6, TodoTyped DEF WorkspaceInv, TypeOK
<1> QED BY <1>6, <1>7 DEF WorkspaceInv

LEMMA MakePlanKeeps ==
  ASSUME WorkspaceAssumption, WorkspaceInv, NEW p \in Process, MakePlan(p)
  PROVE  WorkspaceInv'
<1>1. /\ todo[p] # <<>> /\ todo[p][1].do = "plan" /\ Advance(p)
      /\ plan' = [plan EXCEPT ![p] = trees]
      /\ UNCHANGED <<kind, lockVars, trees, named, witnessed, crashed>>
  <2>1. todo[p] # <<>> /\ Head(todo[p]).do = "plan"
    BY DEF MakePlan, Doing
  <2> QED BY <2>1, NextIs DEF MakePlan, toldVars
<1>2. plan \in [Process -> SUBSET Tree] /\ trees \subseteq Tree /\ DOMAIN todo = Process
  BY DEF WorkspaceInv, TypeOK
<1>3. ASSUME NEW q \in Process, q # p
      PROVE  plan'[q] = plan[q] /\ Standing(q)'
  <2>1. todo'[q] = todo[q]
    BY <1>1, <1>2, <1>3 DEF Advance
  <2>2. Standing(q)
    BY DEF WorkspaceInv
  <2> QED BY <1>1, <1>2, <1>3, <2>1, <2>2, BystanderStands
<1>4. todo[p][1].do \in TreeSteps /\ todo[p][1].do # "create"
  BY <1>1 DEF TreeSteps
<1>5. plan' \in [Process -> SUBSET Tree] /\ trees' \subseteq Tree
  BY <1>1, <1>2
<1> QED BY <1>1, <1>3, <1>4, <1>5, Aside

LEMMA RunKeeps ==
  ASSUME WorkspaceAssumption, WorkspaceInv, NEW p \in Process, Run(p)
  PROVE  WorkspaceInv'
<1>1. /\ todo[p] # <<>> /\ todo[p][1].do \in {"create", "work"} /\ Advance(p)
      /\ Head(todo[p]) = todo[p][1]
      /\ todo[p][1].on \in Tree
      /\ UNCHANGED <<kind, plan, lockVars, named, witnessed, crashed>>
  <2>1. todo[p] # <<>> /\ Head(todo[p]).do \in {"create", "work"}
    BY DEF Run, Doing
  <2> QED BY <2>1, NextIs DEF Run, toldVars, TreeSteps
<1>2. plan \in [Process -> SUBSET Tree] /\ trees \subseteq Tree /\ DOMAIN todo = Process
  BY DEF WorkspaceInv, TypeOK
<1>3. /\ trees \subseteq trees' /\ trees' \subseteq Tree
      /\ todo[p][1].do = "create" => todo[p][1].on \in trees'
  BY <1>1, <1>2 DEF Run, Doing, On
<1>4. ASSUME NEW q \in Process, q # p
      PROVE  Standing(q)'
  <2>1. todo'[q] = todo[q]
    BY <1>1, <1>2, <1>4 DEF Advance
  <2>2. Standing(q)
    BY DEF WorkspaceInv
  <2> QED BY <1>1, <1>3, <2>1, <2>2, BystanderStands
<1>5. todo[p][1].do \in TreeSteps
  BY <1>1 DEF TreeSteps
<1> QED BY <1>1, <1>2, <1>3, <1>4, <1>5, Aside

\* Nothing is removed under a process that works with the lock of its tree.
LEMMA RemovalSpares ==
  ASSUME WorkspaceAssumption, WorkspaceInv, NEW p \in Process, RemovePlanned(p),
         NEW q \in Process, q # p
  PROVE  Standing(q)'
<1>1. /\ todo[p] # <<>> /\ todo[p][1].do = "remove" /\ 1 \in DOMAIN todo[p]
      /\ kind' = kind /\ trees' = trees \ plan[p] /\ todo'[q] = todo[q]
  <2>1. todo[p] # <<>> /\ Head(todo[p]).do = "remove"
    BY DEF RemovePlanned, Doing
  <2>2. DOMAIN todo = Process
    BY DEF WorkspaceInv
  <2> QED BY <2>1, <2>2, NextIs DEF RemovePlanned, Advance, Fail
<1> SUFFICES ASSUME Doing(q, "work")
             PROVE  \/ On(q) \in trees'
                    \/ On(q) = "cache" /\ \E r \in Process : kind[r] = "dev --clean"
  BY <1>1 DEF Standing, Doing, On
<1> DEFINE T == On(q)
<1>2. /\ todo[q] # <<>> /\ todo[q][1].do = "work" /\ T = todo[q][1].on
      /\ T \in {"cache", "dev"} /\ 1 \in DOMAIN todo[q] /\ todo[q] \in Seq(Step)
  <2>1. todo[q] # <<>> /\ Head(todo[q]).do = "work"
    BY DEF Doing
  <2> QED BY <2>1, NextIs DEF On, TreeSteps, Tree
<1>3. T \in trees \/ (T = "cache" /\ \E r \in Process : kind[r] = "dev --clean")
  BY DEF WorkspaceInv, Standing
<1>4. LockOf(T) \in Mine(q)
  <2>1. Secure(todo[q], Mine(q), 1, LockOf(T))
    BY <1>2 DEF WorkspaceInv, Underway, Sound, Guarded
  <2>2. \A j \in DOMAIN todo[q] : ~(j < 1)
    BY <1>2, TailIs
  <2> QED BY <2>1, <2>2 DEF Secure
<1>5. \A l \in Mine(q) : l \notin Mine(p)
  BY DEF Mine
<1>6. \A j \in DOMAIN todo[p] : ~(j < 1)
  BY <1>1, NextIs, TailIs
<1>7. Covered(todo[p], Mine(p), plan[p], 1)
      /\ (kind[p] # "dev --clean" => Secure(todo[p], Mine(p), 1, "aggr.lock"))
  BY <1>1 DEF WorkspaceInv, Underway, Sound, Guarded
<1>8. CASE T = "dev"
  <2>1. "dev.lock" \notin Mine(p)
    BY <1>4, <1>5, <1>8 DEF LockOf
  <2>2. "dev" \notin plan[p]
    BY <1>6, <1>7, <2>1 DEF Covered
  <2> QED BY <1>1, <1>3, <1>8, <2>2
<1>9. CASE T = "cache"
  <2>1. "aggr.lock" \notin Mine(p)
    BY <1>4, <1>5, <1>9 DEF LockOf
  <2>2. kind[p] = "dev --clean"
    BY <1>6, <1>7, <2>1 DEF Secure
  <2> QED BY <1>9, <2>2
<1> QED BY <1>2, <1>8, <1>9

\* A step after which there is nothing left but to ask and to release.
LEMMA Stopping ==
  ASSUME WorkspaceInv, NEW p \in Process, NEW u, todo'[p] = u,
         Winding(u), AskedFirst(u), crashed \subseteq crashed',
         \/ p \in crashed'
         \/ /\ UNCHANGED <<holder, recorder, body, sidecar>>
            /\ \A l \in Mine(p) : Forgets(u, 0, l) /\ Blanks(u, 0, l),
         \A l \in Lock : Asking(p, l)' =>
           holder'[l] = Nobody \/ holder'[l] \in witnessed'[p],
         named'[p] # Nobody => named'[p] \in witnessed'[p] \cup crashed'
  PROVE  Underway(p)' /\ Recorded(p)' /\ Told(p)' /\ Standing(p)'
<1>1. Underway(p)'
  <2>1. Sound(u, Mine(p)', Recorder(p)', plan'[p], kind'[p])
    BY SoundWinding
  <2> QED BY <2>1 DEF Underway
<1>2. Recorded(p)'
  <2> SUFFICES ASSUME p \notin crashed', NEW l \in Lock
               PROVE  /\ sidecar'[l] = p =>
                           l \in Mine(p)' /\ l \in Recorder(p)' /\ Forgets(u, 0, l)
                      /\ body'[l] = p =>
                           l \in Mine(p)' /\ l \in Recorder(p)' /\ Blanks(u, 0, l)
    BY DEF Recorded
  <2>1. /\ UNCHANGED <<holder, recorder, body, sidecar>> /\ p \notin crashed
        /\ \A m \in Mine(p) : Forgets(u, 0, m) /\ Blanks(u, 0, m)
    OBVIOUS
  <2>2. Mine(p)' = Mine(p) /\ Recorder(p)' = Recorder(p)
    BY <2>1 DEF Mine, Recorder
  <2>3. Recorded(p)
    BY DEF WorkspaceInv
  <2> QED BY <2>1, <2>2, <2>3 DEF Recorded
<1>3. Told(p)'
  <2>1. \A i \in DOMAIN u : u[i].do # "try"
    BY WindingOrdered
  <2> QED BY <2>1 DEF Told
<1>4. Standing(p)'
  <2>1. u # <<>> => 1 \in DOMAIN u /\ Head(u) = u[1]
    BY TailIs DEF Winding
  <2>2. u # <<>> => Head(u).do # "work"
    BY <2>1 DEF Winding, Questions, Clearance
  <2> QED BY <2>2 DEF Standing, Doing
<1> QED BY <1>1, <1>2, <1>3, <1>4

LEMMA RemovePlannedKeeps ==
  ASSUME WorkspaceAssumption, WorkspaceInv, NEW p \in Process, RemovePlanned(p)
  PROVE  WorkspaceInv'
<1>1. /\ todo[p] # <<>> /\ todo[p][1].do = "remove"
      /\ UNCHANGED <<kind, plan, lockVars, named, witnessed, crashed>>
      /\ trees' = trees \ plan[p]
  <2>1. todo[p] # <<>> /\ Head(todo[p]).do = "remove"
    BY DEF RemovePlanned, Doing
  <2> QED BY <2>1, NextIs DEF RemovePlanned, toldVars
<1>2. /\ plan \in [Process -> SUBSET Tree] /\ trees \subseteq Tree
      /\ DOMAIN todo = Process
  BY DEF WorkspaceInv, TypeOK
<1>3. \A q \in Process : q # p => Standing(q)'
  BY RemovalSpares
<1>4. CASE Advance(p)
  <2>1. todo[p][1].do \in TreeSteps /\ todo[p][1].do # "create"
    BY <1>1 DEF TreeSteps
  <2> QED BY <1>1, <1>2, <1>3, <1>4, <2>1, Aside
<1>5. CASE Fail(p, <<>>)
  <2> DEFINE u == <<>> \o DropHeld(p, "dev.lock") \o DropHeld(p, "aggr.lock")
  <2>1. todo' = [todo EXCEPT ![p] = u]
    BY <1>5 DEF Fail
  <2> HIDE DEF u
  <2>2. <<>> \in Seq(Step) /\ Winding(<<>>) /\ AskedFirst(<<>>) /\ DOMAIN <<>> = {}
    BY DEF Winding, AskedFirst
  <2>3. /\ Winding(u) /\ AskedFirst(u)
        /\ \A l \in Mine(p) : Forgets(u, 0, l) /\ Blanks(u, 0, l)
        /\ \A i \in DOMAIN u : u[i].do \notin Questions
    BY <2>2, WoundUp DEF u
  <2>4. todo'[p] = u /\ \A q \in Process : q # p => todo'[q] = todo[q]
    BY <1>2, <2>1
  <2>5. \A l \in Lock : ~Asking(p, l)'
    <3>1. u # <<>> => 1 \in DOMAIN u /\ Head(u) = u[1]
      BY <2>3, TailIs DEF Winding
    <3> QED BY <2>3, <2>4, <3>1 DEF Asking, Doing, Questions
  <2>6. named'[p] # Nobody => named'[p] \in witnessed'[p] \cup crashed'
    BY <1>1 DEF WorkspaceInv, Told
  <2>7. Underway(p)' /\ Recorded(p)' /\ Told(p)' /\ Standing(p)'
    BY <1>1, <2>3, <2>4, <2>5, <2>6, Stopping DEF lockVars
  <2>8. ASSUME NEW q \in Process, q # p
        PROVE  Underway(q)' /\ Recorded(q)' /\ Told(q)' /\ Standing(q)'
    <3>1. Underway(q) /\ Recorded(q) /\ Told(q)
      BY DEF WorkspaceInv
    <3> QED BY <1>1, <1>3, <2>4, <2>8, <3>1, Bystander DEF lockVars
  <2>9. \A q \in Process : Underway(q)' /\ Recorded(q)' /\ Told(q)' /\ Standing(q)'
    BY <2>7, <2>8
  <2>10. TypeOK' /\ DOMAIN todo' = Process
    BY <1>1, <1>2, <2>1, <2>9, TodoTyped DEF WorkspaceInv, TypeOK, lockVars
  <2> QED BY <2>9, <2>10 DEF WorkspaceInv
<1> QED BY <1>4, <1>5 DEF RemovePlanned

LEMMA KillKeeps ==
  ASSUME WorkspaceAssumption, WorkspaceInv, NEW p \in Process, Kill(p)
  PROVE  WorkspaceInv'
<1>1. /\ todo' = [todo EXCEPT ![p] = <<>>] /\ crashed' = crashed \cup {p}
      /\ holder' = [l \in Lock |-> IF holder[l] = p THEN Nobody ELSE holder[l]]
      /\ UNCHANGED <<kind, plan, exists, recorder, body, sidecar, trees, named,
                     witnessed>>
  BY DEF Kill, toldVars
<1>2. /\ holder \in [Lock -> Process \cup {Nobody}]
      /\ Nobody \notin Process /\ DOMAIN todo = Process
      /\ crashed \subseteq Process
  BY DEF WorkspaceInv, TypeOK, WorkspaceAssumption
<1>3. todo'[p] = <<>> /\ \A q \in Process : q # p => todo'[q] = todo[q]
  BY <1>1, <1>2
<1>4. /\ holder' \in [Lock -> Process \cup {Nobody}]
      /\ \A l \in Lock : holder'[l] \in {holder[l], Nobody}
      /\ \A l \in Lock, q \in Process : q # p => (holder'[l] = q <=> holder[l] = q)
  BY <1>1, <1>2
<1>5. Underway(p)' /\ Recorded(p)' /\ Told(p)' /\ Standing(p)'
  <2>1. Winding(<<>>) /\ AskedFirst(<<>>)
    BY DEF Winding, AskedFirst
  <2>2. \A l \in Lock : ~Asking(p, l)'
    BY <1>3 DEF Asking, Doing
  <2>3. named'[p] # Nobody => named'[p] \in witnessed'[p] \cup crashed'
    BY <1>1 DEF WorkspaceInv, Told
  <2> QED BY <1>1, <1>3, <2>1, <2>2, <2>3, Stopping
<1>6. ASSUME NEW q \in Process, q # p
      PROVE  Underway(q)' /\ Recorded(q)' /\ Told(q)' /\ Standing(q)'
  <2>1. Underway(q) /\ Recorded(q) /\ Told(q) /\ Standing(q)
    BY DEF WorkspaceInv
  <2>2. Standing(q)'
    BY <1>1, <1>3, <1>6, <2>1, BystanderStands
  <2> QED BY <1>1, <1>3, <1>4, <1>6, <2>1, <2>2, Bystander
<1>7. \A q \in Process : Underway(q)' /\ Recorded(q)' /\ Told(q)' /\ Standing(q)'
  BY <1>5, <1>6
<1>8. TypeOK' /\ DOMAIN todo' = Process
  BY <1>1, <1>2, <1>4, <1>7, TodoTyped DEF WorkspaceInv, TypeOK
<1> QED BY <1>7, <1>8 DEF WorkspaceInv

LEMMA RecordFailsKeeps ==
  ASSUME WorkspaceAssumption, WorkspaceInv, NEW p \in Process, RecordFails(p)
  PROVE  WorkspaceInv'
<1> DEFINE t == todo[p]
           l == t[1].on
           rest == IF l = "dev.lock" THEN DropHeld(p, "aggr.lock") ELSE <<>>
           u == Steps(l, <<"unlock">>) \o rest
<1>1. /\ todo[p] # <<>> /\ On(p) = l /\ l \in Lock
  <2>1. todo[p] # <<>> /\ Head(t).do \in Records
    BY DEF RecordFails, Doing, Records
  <2> QED BY <2>1, NextIs DEF On
<1>2. /\ todo' = [todo EXCEPT ![p] = u] /\ crashed' = crashed \cup {p}
      /\ recorder' = recorder \ {<<p, l>>}
      /\ UNCHANGED <<kind, plan, holder, exists, body, sidecar, trees, named,
                     witnessed>>
  BY <1>1 DEF RecordFails, toldVars
<1>3. /\ recorder \subseteq Process \X Lock
      /\ DOMAIN todo = Process /\ crashed \subseteq Process
  BY DEF WorkspaceInv, TypeOK
<1>4. todo'[p] = u /\ \A q \in Process : q # p => todo'[q] = todo[q]
  BY <1>2, <1>3
<1>5. Winding(u) /\ \A i \in DOMAIN u : u[i].do \in Clearance
  <2> DEFINE s == Steps(l, <<"unlock">>)
             x == [do |-> "unlock", on |-> l]
  <2>1. x.do = "unlock" /\ x \in Step
    BY <1>1 DEF Step, Clearance
  <2>2. s = <<x>>
    BY DEF Steps
  <2> HIDE DEF x, s
  <2>3. s \in Seq(Step) /\ DOMAIN s = 1..1 /\ s[1].do = "unlock"
    <3>1. <<x>> \in Seq(Step) /\ Len(<<x>>) = 1 /\ <<x>>[1] = x
      BY <2>1
    <3>2. <<x>> \in Seq(Step) => DOMAIN <<x>> = 1..Len(<<x>>)
      OBVIOUS
    <3>3. s = <<x>>
      BY <2>2 DEF x
    <3> QED BY <2>1, <3>1, <3>2, <3>3
  <2>4. s \in Seq(Step) /\ \A i \in DOMAIN s : s[i].do \in Clearance
    BY <2>3 DEF Clearance
  <2>5. rest \in Seq(Step) /\ \A i \in DOMAIN rest : rest[i].do \in Clearance
    <3>1. "aggr.lock" \in Lock
      BY DEF Lock
    <3> QED BY <3>1, DropHeldIs
  <2> HIDE DEF rest
  <2>6. s \o rest \in Seq(Step) /\ \A i \in DOMAIN (s \o rest) : (s \o rest)[i].do \in Clearance
    BY <2>4, <2>5, ConcatIs, InConcat
  <2> QED BY <2>6 DEF Winding, s
<1> HIDE DEF u
<1>6. Underway(p)' /\ Recorded(p)' /\ Told(p)' /\ Standing(p)'
  <2>1. AskedFirst(u)
    BY <1>5 DEF AskedFirst, Clearance, Questions
  <2>2. \A m \in Lock : ~Asking(p, m)'
    <3>1. u # <<>> => 1 \in DOMAIN u /\ Head(u) = u[1]
      BY <1>5, TailIs DEF Winding
    <3> QED BY <1>4, <1>5, <3>1 DEF Asking, Doing, Clearance
  <2>3. named'[p] # Nobody => named'[p] \in witnessed'[p] \cup crashed'
    BY <1>2 DEF WorkspaceInv, Told
  <2> QED BY <1>2, <1>4, <1>5, <2>1, <2>2, <2>3, Stopping
<1>7. ASSUME NEW q \in Process, q # p
      PROVE  Underway(q)' /\ Recorded(q)' /\ Told(q)' /\ Standing(q)'
  <2>1. Underway(q) /\ Recorded(q) /\ Told(q) /\ Standing(q)
    BY DEF WorkspaceInv
  <2>2. Standing(q)'
    BY <1>2, <1>4, <1>7, <2>1, BystanderStands
  <2>3. \A m \in Lock : <<q, m>> \in recorder' <=> <<q, m>> \in recorder
    BY <1>2, <1>7
  <2> QED BY <1>2, <1>4, <1>7, <2>1, <2>2, <2>3, Bystander
<1>8. \A q \in Process : Underway(q)' /\ Recorded(q)' /\ Told(q)' /\ Standing(q)'
  BY <1>6, <1>7
<1>9. TypeOK' /\ DOMAIN todo' = Process
  BY <1>2, <1>3, <1>8, TodoTyped DEF WorkspaceInv, TypeOK
<1> QED BY <1>8, <1>9 DEF WorkspaceInv

\* Whoever asks while the lock is taken is a witness of it.
LEMMA WitnessIs ==
  ASSUME NEW p, NEW l, witnessed \in [Process -> SUBSET Process], Witness(l, p)
  PROVE  /\ \A q \in Process : witnessed[q] \subseteq witnessed'[q]
         /\ \A q \in Process : Asking(q, l) => p \in witnessed'[q]
         /\ p \in Process => witnessed' \in [Process -> SUBSET Process]
         /\ \A q \in Process : ~Asking(q, l) => witnessed'[q] = witnessed[q]
BY DEF Witness

LEMMA TryLockKeeps ==
  ASSUME WorkspaceAssumption, WorkspaceInv, NEW p \in Process, TryLock(p)
  PROVE  WorkspaceInv'
<1> DEFINE t == todo[p]
           l == t[1].on
<1>1. /\ t # <<>> /\ On(p) = l /\ l \in Lock /\ Head(t) = t[1] /\ t[1].do = "try"
      /\ t \in Seq(Step) /\ Ordered(t) /\ 1 \in DOMAIN t
      /\ UNCHANGED <<kind, plan, trees, named, crashed>>
  <2>1. todo[p] # <<>> /\ Head(t).do = "try"
    BY DEF TryLock, Doing
  <2> QED BY <2>1, NextIs DEF On, TryLock
<1>2. /\ holder \in [Lock -> Process \cup {Nobody}]
      /\ Nobody \notin Process /\ DOMAIN todo = Process /\ exists \subseteq Lock
      /\ witnessed \in [Process -> SUBSET Process]
      /\ recorder \subseteq Process \X Lock
  BY DEF WorkspaceInv, TypeOK, WorkspaceAssumption
<1>3. t[1].do \notin Questions \cup Records \cup {"create", "forget", "blank", "unlock", "plan"}
  BY <1>1 DEF Questions, Records
<1>4. named[p] = Nobody /\ \A m : ~Asking(p, m)
  <2>1. named[p] = Nobody
    BY <1>1 DEF WorkspaceInv, Told
  <2>2. \A m : ~Asking(p, m)
    BY <1>1 DEF Asking, Doing
  <2> QED BY <2>1, <2>2
<1>5. ~Writes(p) => /\ t[1].mode # "acquire"
                    /\ t[1].mode = "as planned" => "dev" \notin plan[p]
  BY <1>1 DEF Writes
<1>6. CASE /\ ~Writes(p) /\ l \notin exists
           /\ Advance(p)
           /\ UNCHANGED <<lockVars, witnessed>>
  <2>1. /\ todo' = [todo EXCEPT ![p] = Tail(@)]
        /\ UNCHANGED <<holder, exists, recorder, body, sidecar, witnessed>>
    BY <1>6 DEF Advance, lockVars
  <2>2. Mine(p)' = Mine(p) /\ Recorder(p)' = Recorder(p)
    BY <2>1 DEF Mine, Recorder
  <2>3. Hands(t[1], Mine(p), Mine(p)', plan[p], plan'[p])
    BY <1>1, <1>5, <1>6, <2>2 DEF Hands
  <2>4. p \notin crashed => \A m \in Lock :
          /\ sidecar'[m] = p =>
               m \in Mine(p)' /\ m \in Recorder(p)' /\ Forgets(todo[p], 0, m)
          /\ body'[m] = p =>
               m \in Mine(p)' /\ m \in Recorder(p)' /\ Blanks(todo[p], 0, m)
    BY <2>1, <2>2 DEF WorkspaceInv, Recorded
  <2>5. Underway(p)' /\ Recorded(p)' /\ Told(p)' /\ Standing(p)'
    BY <1>1, <1>3, <1>6, <2>1, <2>3, <2>4, Advancing
  <2>6. ASSUME NEW q \in Process, q # p
        PROVE  Underway(q)' /\ Recorded(q)' /\ Told(q)' /\ Standing(q)'
    <3>1. Underway(q) /\ Recorded(q) /\ Told(q) /\ Standing(q) /\ todo'[q] = todo[q]
      BY <1>2, <2>1, <2>6 DEF WorkspaceInv
    <3>2. Standing(q)'
      BY <1>1, <3>1, BystanderStands
    <3> QED BY <1>1, <2>1, <2>6, <3>1, <3>2, Bystander
  <2>7. \A q \in Process : Underway(q)' /\ Recorded(q)' /\ Told(q)' /\ Standing(q)'
    BY <2>5, <2>6
  <2>8. TypeOK' /\ DOMAIN todo' = Process
    BY <1>1, <1>2, <2>1, <2>7, TodoTyped DEF WorkspaceInv, TypeOK
  <2> QED BY <2>7, <2>8 DEF WorkspaceInv
<1>7. CASE /\ Writes(p) \/ l \in exists
           /\ holder[l] = Nobody
           /\ holder' = [holder EXCEPT ![l] = p]
           /\ exists' = exists \cup {l}
           /\ recorder' = IF Writes(p) THEN recorder \cup {<<p, l>>} ELSE recorder
           /\ todo' = [todo EXCEPT ![p] =
                        (IF Writes(p) THEN Record(l) ELSE <<>>) \o Tail(@)]
           /\ Witness(l, p)
           /\ UNCHANGED <<body, sidecar>>
  <2>1. /\ holder' \in [Lock -> Process \cup {Nobody}]
        /\ holder'[l] = p /\ \A m \in Lock : m # l => holder'[m] = holder[m]
        /\ \A m \in Lock, q \in Process : q # p => (holder'[m] = q <=> holder[m] = q)
    BY <1>1, <1>2, <1>7
  <2>2. /\ Mine(p) \subseteq Mine(p)' /\ l \in Mine(p)'
        /\ Recorder(p) \subseteq Recorder(p)'
        /\ Writes(p) => l \in Recorder(p)'
    BY <1>1, <1>2, <1>7, <2>1 DEF Mine, Recorder
  <2>3. Hands(t[1], Mine(p), Mine(p)', plan[p], plan'[p])
    BY <1>1, <2>2 DEF Hands
  <2>4. /\ \A q \in Process : witnessed[q] \subseteq witnessed'[q]
        /\ \A q \in Process : Asking(q, l) => p \in witnessed'[q]
        /\ witnessed' \in [Process -> SUBSET Process]
        /\ witnessed'[p] = witnessed[p]
    BY <1>2, <1>4, <1>7, WitnessIs
  <2>5. Underway(p)' /\ Recorded(p)' /\ Told(p)' /\ Standing(p)'
    <3>1. CASE ~Writes(p)
      <4>1. Advance(p)
        <5>1. Tail(t) \in Seq(Step)
          BY <1>1, TailIs
        <5>2. <<>> \o Tail(t) = Tail(t)
          BY <5>1
        <5> QED BY <1>2, <1>7, <3>1, <5>2 DEF Advance
      <4>2. p \notin crashed => \A m \in Lock :
              /\ sidecar'[m] = p =>
                   m \in Mine(p)' /\ m \in Recorder(p)' /\ Forgets(todo[p], 0, m)
              /\ body'[m] = p =>
                   m \in Mine(p)' /\ m \in Recorder(p)' /\ Blanks(todo[p], 0, m)
        BY <1>7, <2>2 DEF WorkspaceInv, Recorded
      <4> QED BY <1>1, <1>3, <2>3, <2>4, <4>1, <4>2, Advancing
    <3>2. CASE Writes(p)
      <4> DEFINE u == Record(l) \o Tail(t)
      <4>1. todo'[p] = u
        BY <1>2, <1>7, <3>2
      <4>2. Sound(t, Mine(p), Recorder(p), plan[p], kind[p])
        BY DEF WorkspaceInv, Underway
      <4>3. Sound(u, Mine(p)', Recorder(p)', plan[p], kind[p])
        BY <1>1, <2>2, <2>3, <3>2, <4>2, SoundRecord
      <4>4. Underway(p)'
        BY <1>1, <4>1, <4>3 DEF Underway
      <4>5. Tail(t) \in Seq(Step)
        BY <1>1, TailIs
      <4>6. u # <<>> /\ Head(u) = u[1] /\ u[1].do \in Records
        <5> HIDE DEF u
        <5>1. /\ u \in Seq(Step) /\ DOMAIN u = 1..Len(Tail(t)) + 3
              /\ Len(Tail(t)) \in Nat
              /\ \A i \in 1..3 : u[i].do \in Records
          BY <1>1, <4>5, RecordThen DEF u
        <5>2. 1 \in DOMAIN u /\ u[1].do \in Records
          BY <5>1
        <5>3. u # <<>>
          BY <5>2
        <5> QED BY <5>1, <5>2, <5>3, TailIs
      <4> HIDE DEF u
      <4>7. Recorded(p)'
        <5> SUFFICES ASSUME p \notin crashed', NEW m \in Lock
                     PROVE  /\ sidecar'[m] = p =>
                                 m \in Mine(p)' /\ m \in Recorder(p)' /\ Forgets(u, 0, m)
                            /\ body'[m] = p =>
                                 m \in Mine(p)' /\ m \in Recorder(p)' /\ Blanks(u, 0, m)
          BY <4>1 DEF Recorded
        <5>1. {"blank", "unlock"} \cap Records = {} /\ {"unlock"} \cap Records = {}
          BY DEF Records
        <5>2. ASSUME Forgets(t, 0, m) PROVE Forgets(u, 0, m)
          <6>1. After(Tail(t), 0, "forget", m, {"blank", "unlock"})
            BY <1>1, <1>3, <5>2, AfterTail DEF Forgets
          <6> QED BY <1>1, <4>5, <5>1, <6>1, AfterRecord DEF Forgets, u
        <5>3. ASSUME Blanks(t, 0, m) PROVE Blanks(u, 0, m)
          <6>1. After(Tail(t), 0, "blank", m, {"unlock"})
            BY <1>1, <1>3, <5>3, AfterTail DEF Blanks
          <6> QED BY <1>1, <4>5, <5>1, <6>1, AfterRecord DEF Blanks, u
        <5>4. Recorded(p) /\ p \notin crashed /\ sidecar' = sidecar /\ body' = body
          BY <1>1, <1>7 DEF WorkspaceInv
        <5> QED BY <2>2, <5>2, <5>3, <5>4 DEF Recorded
      <4>8. Told(p)'
        <5>1. \A m \in Lock : ~Asking(p, m)'
          BY <4>1, <4>6 DEF Asking, Doing, Records
        <5> QED BY <1>1, <1>4, <5>1 DEF Told
      <4>9. Standing(p)'
        BY <4>1, <4>6 DEF Standing, Doing, Records
      <4> QED BY <4>4, <4>7, <4>8, <4>9
    <3> QED BY <3>1, <3>2
  <2>6. ASSUME NEW q \in Process, q # p
        PROVE  Underway(q)' /\ Recorded(q)' /\ Told(q)' /\ Standing(q)'
    <3>1. Underway(q) /\ Recorded(q) /\ Told(q) /\ Standing(q) /\ todo'[q] = todo[q]
      BY <1>2, <1>7, <2>6 DEF WorkspaceInv
    <3>2. Standing(q)'
      BY <1>1, <3>1, BystanderStands
    <3>3. \A m \in Lock : <<q, m>> \in recorder' <=> <<q, m>> \in recorder
      BY <1>7, <2>6
    <3>4. \A m \in Lock : holder'[m] = holder[m]
                          \/ (Asking(q, m) => holder'[m] \in witnessed'[q])
      BY <2>1, <2>4
    <3> QED BY <1>1, <1>7, <2>1, <2>4, <2>6, <3>1, <3>2, <3>3, <3>4, Bystander
  <2>7. \A q \in Process : Underway(q)' /\ Recorded(q)' /\ Told(q)' /\ Standing(q)'
    BY <2>5, <2>6
  <2>8. exists' \subseteq Lock /\ recorder' \subseteq Process \X Lock
        /\ DOMAIN todo' = Process
    BY <1>1, <1>2, <1>7
  <2>9. TypeOK'
    <3>1. \A q \in Process : \A i \in DOMAIN todo'[q] :
            todo'[q][i].on \in Lock \cup Tree
      BY <2>7, TodoTyped
    <3>2. TypeOK
      BY DEF WorkspaceInv
    <3>3. holder' \in [Lock -> Process \cup {Nobody}]
      BY <1>1, <1>7, <2>1, <2>4, <3>2 DEF TypeOK
    <3>4. /\ kind' \in [Process -> Command] /\ plan' \in [Process -> SUBSET Tree]
          /\ {body', sidecar'} \subseteq [Lock -> Process \cup {Nobody}]
          /\ trees' \subseteq Tree /\ crashed' \subseteq Process
          /\ named' \in [Process -> Process \cup {Nobody}]
          /\ witnessed' \in [Process -> SUBSET Process]
      BY <1>1, <1>7, <2>1, <2>4, <3>2 DEF TypeOK
    <3> QED BY <2>8, <3>1, <3>3, <3>4 DEF TypeOK
  <2> QED BY <2>7, <2>8, <2>9 DEF WorkspaceInv
<1>8. CASE /\ holder[l] # Nobody
           /\ Fail(p, Steps(l, <<"ask", "ask the file">>))
           /\ witnessed' = [witnessed EXCEPT ![p] = {holder[l]}]
           /\ UNCHANGED lockVars
  <2>1. PICK first \in Seq(Step) :
          /\ first = Steps(l, <<"ask", "ask the file">>) /\ Len(first) = 2
          /\ first[1].do = "ask" /\ first[1].on = l
          /\ first[2].do = "ask the file" /\ first[2].on = l
    BY <1>1, AskingIs
  <2> DEFINE u == first \o DropHeld(p, "dev.lock") \o DropHeld(p, "aggr.lock")
  <2>2. Fail(p, first)
    BY <1>8, <2>1
  <2>3. /\ todo' = [todo EXCEPT ![p] = u]
        /\ UNCHANGED <<holder, exists, recorder, body, sidecar>>
    BY <1>8, <2>2 DEF Fail, lockVars
  <2> HIDE DEF u
  <2>4. DOMAIN first = {1, 2} /\ first # <<>>
    <3>1. first \in Seq(Step) /\ Len(first) = 2
      BY <2>1, Zenon
    <3>2. DOMAIN first = 1..Len(first)
      BY <3>1
    <3> QED BY <3>1, <3>2
  <2>5. \A i \in DOMAIN first : first[i].do \in Questions
    BY <2>1, <2>4 DEF Questions
  <2>6. AskedFirst(first)
    BY <2>1, <2>4 DEF AskedFirst
  <2>7. Winding(first)
    BY <2>5 DEF Winding
  <2>8. /\ Winding(u) /\ AskedFirst(u)
        /\ \A m \in Mine(p) : Forgets(u, 0, m) /\ Blanks(u, 0, m)
        /\ u # <<>> /\ u[1] = first[1]
    <3>1. u = first \o DropHeld(p, "dev.lock") \o DropHeld(p, "aggr.lock")
      BY DEF u
    <3>2. first \in Seq(Step)
      BY <2>1, Zenon
    <3>3. /\ Winding(first) /\ AskedFirst(first)
          /\ \A i \in DOMAIN first : first[i].do \in Questions
      BY <2>5, <2>6, <2>7
    <3>4. \A v : v = first \o DropHeld(p, "dev.lock") \o DropHeld(p, "aggr.lock") =>
            Winding(v) /\ AskedFirst(v)
      BY <3>2, <3>3, WoundUp
    <3>5. \A v : v = first \o DropHeld(p, "dev.lock") \o DropHeld(p, "aggr.lock") =>
            \A m \in Mine(p) : Forgets(v, 0, m) /\ Blanks(v, 0, m)
      BY <3>2, <3>3, WoundUp
    <3>6. \A v : v = first \o DropHeld(p, "dev.lock") \o DropHeld(p, "aggr.lock") =>
            (first # <<>> => v # <<>> /\ v[1] = first[1])
      BY <3>2, <3>3, WoundUp
    <3> QED BY <2>4, <3>1, <3>4, <3>5, <3>6
  <2>9. /\ todo'[p] = u /\ \A q \in Process : q # p => todo'[q] = todo[q]
        /\ witnessed'[p] = {holder[l]}
        /\ \A q \in Process : q # p => witnessed'[q] = witnessed[q]
    BY <1>2, <1>8, <2>3
  <2>10. Underway(p)' /\ Recorded(p)' /\ Told(p)' /\ Standing(p)'
    <3>1. Head(u) = first[1]
      BY <2>8, TailIs DEF Winding
    <3>2. On(p)' = l
      BY <2>1, <2>9, <3>1 DEF On
    <3>3. \A m \in Lock : Asking(p, m)' => holder'[m] \in witnessed'[p]
      BY <2>3, <2>9, <3>2 DEF Asking
    <3>4. named'[p] = Nobody
      BY <1>1, <1>4
    <3> QED BY <1>1, <2>3, <2>8, <2>9, <3>3, <3>4, Stopping
  <2>11. ASSUME NEW q \in Process, q # p
         PROVE  Underway(q)' /\ Recorded(q)' /\ Told(q)' /\ Standing(q)'
    <3>1. Underway(q) /\ Recorded(q) /\ Told(q) /\ Standing(q)
      BY DEF WorkspaceInv
    <3>2. Standing(q)'
      BY <1>1, <2>9, <2>11, <3>1, BystanderStands
    <3> QED BY <1>1, <2>3, <2>9, <2>11, <3>1, <3>2, Bystander
  <2>12. \A q \in Process : Underway(q)' /\ Recorded(q)' /\ Told(q)' /\ Standing(q)'
    BY <2>10, <2>11
  <2>13. witnessed' \in [Process -> SUBSET Process]
    <3>1. {holder[l]} \subseteq Process /\ witnessed' = [witnessed EXCEPT ![p] = {holder[l]}]
      BY <1>1, <1>2, <1>8
    <3> QED BY <1>2, <3>1
  <2>14. TypeOK' /\ DOMAIN todo' = Process
    BY <1>1, <1>2, <2>3, <2>12, <2>13, TodoTyped DEF WorkspaceInv, TypeOK
  <2> QED BY <2>12, <2>14 DEF WorkspaceInv
<1> QED BY <1>1, <1>6, <1>7, <1>8 DEF TryLock

\* Whoever a record names while the lock is refused has been its holder, or has
\* ended with the record standing.
LEMMA AnswerIs ==
  ASSUME WorkspaceAssumption, WorkspaceInv, NEW p \in Process, NEW l \in Lock,
         Asking(p, l), NEW r, r # Nobody, sidecar[l] = r \/ body[l] = r
  PROVE  r \in witnessed[p] \cup crashed
<1>1. r \in Process
  BY DEF WorkspaceInv, TypeOK
<1>2. r \in crashed \/ holder[l] = r
  BY <1>1 DEF WorkspaceInv, Recorded, Mine
<1>3. holder[l] = Nobody \/ holder[l] \in witnessed[p]
  BY DEF WorkspaceInv, Told
<1> QED BY <1>2, <1>3

LEMMA AskKeeps ==
  ASSUME WorkspaceAssumption, WorkspaceInv, NEW p \in Process, Ask(p)
  PROVE  WorkspaceInv'
<1> DEFINE t == todo[p]
           l == t[1].on
<1>1. /\ t # <<>> /\ On(p) = l /\ l \in Lock /\ Head(t) = t[1]
      /\ t[1].do \in Questions /\ Asking(p, l)
      /\ t \in Seq(Step) /\ Ordered(t) /\ 1 \in DOMAIN t
      /\ UNCHANGED <<kind, plan, holder, exists, recorder, body, sidecar, trees,
                     witnessed, crashed>>
  <2>1. todo[p] # <<>> /\ Head(t).do \in Questions
    BY DEF Ask, Doing, Questions
  <2>2. UNCHANGED <<kind, plan, holder, exists, recorder, body, sidecar, trees,
                    witnessed, crashed>>
    BY DEF Ask, lockVars
  <2>3. Doing(p, "ask") \/ Doing(p, "ask the file")
    BY DEF Ask
  <2> QED BY <2>1, <2>2, <2>3, NextIs DEF On, Asking
<1>2. /\ body \in [Lock -> Process \cup {Nobody}]
      /\ sidecar \in [Lock -> Process \cup {Nobody}]
      /\ named \in [Process -> Process \cup {Nobody}]
      /\ Nobody \notin Process /\ DOMAIN todo = Process
  BY DEF WorkspaceInv, TypeOK, WorkspaceAssumption
<1>3. PICK u, a :
        /\ todo' = [todo EXCEPT ![p] = u] /\ named' = [named EXCEPT ![p] = a]
        /\ a \in {sidecar[l], body[l]}
        /\ \/ u = Tail(t)
           \/ u = Tail(Tail(t)) /\ t[1].do = "ask"
  <2>1. CASE Doing(p, "ask") /\ Ask(p)
    <3>1. t[1].do = "ask" /\ t[1].do # "ask the file"
      BY <1>1, <2>1 DEF Doing
    <3>2. /\ named' = [named EXCEPT ![p] = sidecar[l]]
          /\ todo' = [todo EXCEPT ![p] =
               IF sidecar[l] = Nobody THEN Tail(@) ELSE Tail(Tail(@))]
      BY <1>1, <2>1, <3>1 DEF Ask, Doing
    <3> QED BY <3>1, <3>2
  <2>2. CASE Doing(p, "ask the file") /\ Ask(p)
    <3>1. t[1].do = "ask the file" /\ t[1].do # "ask"
      BY <1>1, <2>2 DEF Doing
    <3>2. /\ named' = [named EXCEPT ![p] = body[l]]
          /\ todo' = [todo EXCEPT ![p] = Tail(@)]
      BY <1>1, <2>2, <3>1 DEF Ask, Doing, Advance
    <3> QED BY <3>1, <3>2
  <2> QED BY <2>1, <2>2 DEF Ask
<1>4. /\ todo'[p] = u /\ named'[p] = a
      /\ \A q \in Process : q # p => todo'[q] = todo[q] /\ named'[q] = named[q]
      /\ a \in Process \cup {Nobody}
  BY <1>1, <1>2, <1>3
<1>5. /\ AskedFirst(t) /\ CreatedBefore(t)
      /\ \A i \in DOMAIN t : t[i].do # "try"
      /\ \A i \in DOMAIN t : i \notin {1, 2} => t[i].do \notin Questions
      /\ t[1].do = "ask" => 2 \in DOMAIN t
  BY <1>1 DEF Ordered, AskedFirst, Questions
<1>6. Sound(t, Mine(p), Recorder(p), plan[p], kind[p])
  BY DEF WorkspaceInv, Underway
<1>7. t[1].do \notin Records \cup Clearance \cup {"try", "create"}
  BY <1>1 DEF Questions, Records, Clearance
\* The question that follows, if there is one, is the second one.
<1>8. /\ Tail(t) \in Seq(Step)
      /\ Sound(Tail(t), Mine(p), Recorder(p), plan[p], kind[p])
      /\ \A m : Forgets(t, 0, m) => Forgets(Tail(t), 0, m)
      /\ \A m : Blanks(t, 0, m) => Blanks(Tail(t), 0, m)
      /\ Tail(t) # <<>> =>
           /\ Head(Tail(t)).do # "work"
           /\ Head(Tail(t)).do \in Questions => Head(Tail(t)).on = l
  <2>1. Hands(t[1], Mine(p), Mine(p), plan[p], plan[p])
    BY <1>7 DEF Hands
  <2>2. Sound(Tail(t), Mine(p), Recorder(p), plan[p], kind[p])
    BY <1>1, <1>6, <2>1, SoundTail
  <2>3. ASSUME Tail(t) # <<>>
        PROVE  /\ Head(Tail(t)).do # "work"
               /\ Head(Tail(t)).do \in Questions => Head(Tail(t)).on = l
    <3>1. /\ Tail(t) \in Seq(Step) /\ 1 \in DOMAIN Tail(t)
          /\ Head(Tail(t)) = Tail(t)[1]
      BY <1>1, <2>3, TailIs
    <3>2. 2 \in DOMAIN t /\ Tail(t)[1] = t[2]
      BY <1>1, <3>1, TailIs
    <3>3. t[2].do # "work"
      BY <1>1, <1>5, <1>7, <3>2 DEF CreatedBefore
    <3>4. t[2].do \in Questions => t[2].on = t[1].on
      BY <1>1, <1>5, <3>2 DEF AskedFirst, Questions
    <3> QED BY <3>1, <3>2, <3>3, <3>4
  <2>4. \A m : Forgets(t, 0, m) => Forgets(Tail(t), 0, m)
    BY <1>1, <1>7, AfterTail DEF Forgets, Clearance
  <2>5. \A m : Blanks(t, 0, m) => Blanks(Tail(t), 0, m)
    BY <1>1, <1>7, AfterTail DEF Blanks, Clearance
  <2>6. Tail(t) \in Seq(Step)
    BY <1>1, TailIs
  <2> QED BY <2>2, <2>3, <2>4, <2>5, <2>6
<1>9. ASSUME t[1].do = "ask"
      PROVE  /\ Tail(Tail(t)) \in Seq(Step)
             /\ Sound(Tail(Tail(t)), Mine(p), Recorder(p), plan[p], kind[p])
             /\ \A m : Forgets(t, 0, m) => Forgets(Tail(Tail(t)), 0, m)
             /\ \A m : Blanks(t, 0, m) => Blanks(Tail(Tail(t)), 0, m)
             /\ Tail(Tail(t)) # <<>> =>
                  /\ Head(Tail(Tail(t))).do # "work"
                  /\ Head(Tail(Tail(t))).do \notin Questions
  <2> DEFINE v == Tail(t)
  <2>1. 2 \in DOMAIN t /\ t[2].do = "ask the file"
    BY <1>1, <1>5, <1>9 DEF AskedFirst
  <2>2. v \in Seq(Step) /\ v # <<>> /\ 1 \in DOMAIN v /\ v[1] = t[2] /\ 2 \in DOMAIN t
    <3>1. /\ DOMAIN t = 1..Len(t) /\ Len(t) \in Nat /\ DOMAIN v = 1..Len(t) - 1
          /\ \A i \in DOMAIN v : v[i] = t[i + 1]
      BY <1>1, TailIs
    <3>2. 2 \in DOMAIN t
      BY <1>5, <1>9
    <3> HIDE DEF v
    <3>3. 1 \in DOMAIN v
      BY <3>1, <3>2
    <3>4. v # <<>>
      BY <3>3
    <3>5. v[1] = t[2]
      BY <3>1, <3>3
    <3> QED BY <1>8, <3>2, <3>3, <3>4, <3>5 DEF v
  <2>3. v[1].do \in Questions /\ v[1].do \notin Records \cup Clearance \cup {"try", "create"}
    BY <2>1, <2>2 DEF Questions, Records, Clearance
  <2>4. Hands(v[1], Mine(p), Mine(p), plan[p], plan[p])
    BY <2>3 DEF Hands
  <2>5. Sound(v, Mine(p), Recorder(p), plan[p], kind[p])
    BY <1>8
  <2>6. \A i \in DOMAIN v : i + 1 \in DOMAIN t /\ v[i] = t[i + 1]
    BY <1>1, TailIs
  <2> HIDE DEF v
  <2>7. Sound(Tail(v), Mine(p), Recorder(p), plan[p], kind[p])
    BY <2>2, <2>3, <2>4, <2>5, SoundTail
  <2>8. \A m : Forgets(v, 0, m) => Forgets(Tail(v), 0, m)
    BY <2>2, <2>3, AfterTail DEF Forgets, Clearance
  <2>9. \A m : Blanks(v, 0, m) => Blanks(Tail(v), 0, m)
    BY <2>2, <2>3, AfterTail DEF Blanks, Clearance
  <2>10. ASSUME Tail(v) # <<>>
         PROVE  Head(Tail(v)).do # "work" /\ Head(Tail(v)).do \notin Questions
    <3>1. /\ Tail(v) \in Seq(Step) /\ 1 \in DOMAIN Tail(v)
          /\ Head(Tail(v)) = Tail(v)[1]
      BY <2>2, <2>10, TailIs
    <3>2. 2 \in DOMAIN v /\ Tail(v)[1] = v[2]
      BY <2>2, <3>1, TailIs
    <3>3. 3 \in DOMAIN t /\ v[2] = t[3]
      BY <2>6, <3>2
    <3>4. t[3].do \notin Questions
      BY <1>5, <3>3
    <3>5. t[3].do # "work"
      <4>1. t[2].do # "create"
        BY <2>2, <2>3
      <4>2. t[3].do = "work" => \A i \in DOMAIN t : 3 = i + 1 => t[i].do = "create"
        BY <1>5, <3>3 DEF CreatedBefore
      <4> QED BY <2>2, <4>1, <4>2
    <3> QED BY <3>1, <3>2, <3>3, <3>4, <3>5
  <2>11. Tail(v) \in Seq(Step)
    BY <2>2, TailIs
  <2> QED BY <1>8, <2>7, <2>8, <2>9, <2>10, <2>11 DEF v
<1>10. /\ u \in Seq(Step)
       /\ Sound(u, Mine(p), Recorder(p), plan[p], kind[p])
       /\ \A m : Forgets(t, 0, m) => Forgets(u, 0, m)
       /\ \A m : Blanks(t, 0, m) => Blanks(u, 0, m)
       /\ u # <<>> =>
            /\ Head(u).do # "work"
            /\ Head(u).do \in Questions => Head(u).on = l
  <2>1. CASE u = Tail(t)
    BY <1>8, <2>1
  <2>2. CASE u = Tail(Tail(t)) /\ t[1].do = "ask"
    BY <1>9, <2>2
  <2> QED BY <1>3, <2>1, <2>2
<1>11. \A i \in DOMAIN u : u[i].do # "try"
  <2>1. \A i \in DOMAIN Tail(t) : Tail(t)[i].do # "try"
    BY <1>1, <1>5, TailIs
  <2>2. CASE u = Tail(t)
    BY <2>1, <2>2
  <2>3. CASE u = Tail(Tail(t)) /\ t[1].do = "ask"
    <3>1. /\ DOMAIN t = 1..Len(t) /\ Len(t) \in Nat
          /\ DOMAIN Tail(t) = 1..Len(t) - 1 /\ 2 \in DOMAIN t
      BY <1>1, <1>5, <2>3, TailIs
    <3>2. 1 \in DOMAIN Tail(t)
      BY <3>1
    <3>3. Tail(t) # <<>>
      BY <1>8, <3>2, Nonempty
    <3> QED BY <1>8, <2>1, <2>3, <3>3, TailIs
  <2> QED BY <1>3, <2>2, <2>3
<1>12. Mine(p)' = Mine(p) /\ Recorder(p)' = Recorder(p)
  BY <1>1 DEF Mine, Recorder
<1>13. Underway(p)' /\ Recorded(p)' /\ Told(p)' /\ Standing(p)'
  <2>1. Underway(p)'
    BY <1>1, <1>4, <1>10, <1>12 DEF Underway
  <2>2. Recorded(p)'
    BY <1>1, <1>4, <1>10, <1>12 DEF WorkspaceInv, Recorded
  <2>3. a # Nobody => a \in witnessed[p] \cup crashed
    BY <1>1, <1>3, AnswerIs
  <2>4. ASSUME NEW m \in Lock, Asking(p, m)'
        PROVE  holder'[m] = Nobody \/ holder'[m] \in witnessed'[p]
    <3>1. m = l
      BY <1>4, <1>10, <2>4 DEF Asking, Doing, On, Questions
    <3> QED BY <1>1, <3>1 DEF WorkspaceInv, Told
  <2>5. Told(p)'
    BY <1>1, <1>4, <1>11, <2>3, <2>4 DEF Told
  <2>6. Standing(p)'
    BY <1>4, <1>10 DEF Standing, Doing
  <2> QED BY <2>1, <2>2, <2>5, <2>6
<1>14. ASSUME NEW q \in Process, q # p
       PROVE  Underway(q)' /\ Recorded(q)' /\ Told(q)' /\ Standing(q)'
  <2>1. Underway(q) /\ Recorded(q) /\ Told(q) /\ Standing(q)
    BY DEF WorkspaceInv
  <2>2. Standing(q)'
    BY <1>1, <1>4, <1>14, <2>1, BystanderStands
  <2> QED BY <1>1, <1>4, <1>14, <2>1, <2>2, Bystander
<1>15. \A q \in Process : Underway(q)' /\ Recorded(q)' /\ Told(q)' /\ Standing(q)'
  BY <1>13, <1>14
<1>16. TypeOK' /\ DOMAIN todo' = Process
  BY <1>1, <1>2, <1>3, <1>4, <1>15, TodoTyped DEF WorkspaceInv, TypeOK
<1> QED BY <1>15, <1>16 DEF WorkspaceInv

-----------------------------------------------------------------------------
(* The programs                                                            *)

LEMMA SoundPlain ==
  ASSUME NEW s \in Seq(Step), \A i \in DOMAIN s : s[i].do \notin Questions \cup Records,
         ClearedLater(s), CreatedBefore(s), NEW command, Guarded(s, {}, {}, command)
  PROVE  \A records : Sound(s, {}, records, {}, command)
BY DEF Sound, Ordered, AskedFirst, RecordedFirst, Questions

Joins(r, s, t) ==
  /\ r \in Seq(Step) /\ Len(r) = Len(s) + Len(t)
  /\ Len(s) \in Nat /\ Len(t) \in Nat
  /\ \A i \in 1..Len(s) : r[i] = s[i]
  /\ \A i \in 1..Len(t) : r[Len(s) + i] = t[i]

LEMMA JoinsIs ==
  ASSUME NEW s \in Seq(Step), NEW t \in Seq(Step)
  PROVE  Joins(s \o t, s, t)
<1>1. Len(s) \in Nat /\ Len(t) \in Nat
  OBVIOUS
<1> QED BY <1>1, ConcatIs DEF Joins

\* What comes at the end, and what comes first, of a list of steps.
LEMMA ThenOne ==
  ASSUME NEW r, NEW s, NEW t, Joins(r, s, t), Len(t) = 1
  PROVE  /\ r \in Seq(Step) /\ Len(r) = Len(s) + 1
         /\ \A i \in 1..Len(s) : r[i] = s[i]
         /\ r[Len(s) + 1] = t[1]
BY DEF Joins

LEMMA ThenTwo ==
  ASSUME NEW r, NEW s, NEW t, Joins(r, s, t), Len(t) = 2
  PROVE  /\ r \in Seq(Step) /\ Len(r) = Len(s) + 2
         /\ \A i \in 1..Len(s) : r[i] = s[i]
         /\ r[Len(s) + 1] = t[1] /\ r[Len(s) + 2] = t[2]
<1>1. 1 \in 1..2 /\ 2 \in 1..2
  OBVIOUS
<1> QED BY <1>1 DEF Joins

LEMMA ThenThree ==
  ASSUME NEW r, NEW s, NEW t, Joins(r, s, t), Len(t) = 3
  PROVE  /\ r \in Seq(Step) /\ Len(r) = Len(s) + 3
         /\ \A i \in 1..Len(s) : r[i] = s[i]
         /\ r[Len(s) + 1] = t[1] /\ r[Len(s) + 2] = t[2] /\ r[Len(s) + 3] = t[3]
<1>1. 1 \in 1..3 /\ 2 \in 1..3 /\ 3 \in 1..3
  OBVIOUS
<1> QED BY <1>1 DEF Joins

LEMMA FirstThen ==
  ASSUME NEW r, NEW s, NEW t, Joins(r, s, t), Len(s) = 1
  PROVE  /\ r \in Seq(Step) /\ Len(r) = Len(t) + 1 /\ r[1] = s[1]
         /\ \A i \in 1..Len(t) : r[i + 1] = t[i]
<1>1. \A i \in 1..Len(t) : 1 + i = i + 1
  BY DEF Joins
<1> QED BY <1>1 DEF Joins

LEMMA OneIs ==
  ASSUME NEW x \in Step
  PROVE  <<x>> \in Seq(Step) /\ Len(<<x>>) = 1 /\ <<x>>[1] = x
OBVIOUS

LEMMA TryIs ==
  ASSUME NEW l \in Lock, NEW mode \in Modes
  PROVE  /\ Try(l, mode) \in Seq(Step) /\ Len(Try(l, mode)) = 1
         /\ Try(l, mode)[1].do = "try" /\ Try(l, mode)[1].on = l
         /\ Try(l, mode)[1].mode = mode
<1> DEFINE x == [do |-> "try", on |-> l, mode |-> mode]
<1>1. x.do = "try" /\ x.on = l /\ x.mode = mode /\ x \in Step
  BY DEF Step
<1>2. Try(l, mode) = <<x>>
  BY DEF Try
<1> HIDE DEF x
<1>3. x \in Step
  BY <1>1
<1>4. <<x>> \in Seq(Step) /\ Len(<<x>>) = 1 /\ <<x>>[1] = x
  BY <1>3, OneIs
<1> QED BY <1>1, <1>2, <1>4

LEMMA OnTreeIs ==
  ASSUME NEW tree \in Tree
  PROVE  /\ Work(tree) \in Seq(Step) /\ Len(Work(tree)) = 2
         /\ Work(tree)[1].do = "create" /\ Work(tree)[1].on = tree
         /\ Work(tree)[2].do = "work" /\ Work(tree)[2].on = tree
         /\ \A do \in {"plan", "remove"} :
              LET s == <<[do |-> do, on |-> tree]>> IN
              s \in Seq(Step) /\ Len(s) = 1 /\ s[1].do = do /\ s[1].on = tree
<1> DEFINE Op(do) == [do |-> do, on |-> tree]
<1>1. \A do \in TreeSteps : Op(do).do = do /\ Op(do).on = tree /\ Op(do) \in Step
  BY DEF Step
<1>2. Work(tree) = <<Op("create"), Op("work")>>
  BY DEF Work, Steps
<1> HIDE DEF Op
<1>3. \A do \in {"create", "work", "plan", "remove"} :
        Op(do).do = do /\ Op(do).on = tree /\ Op(do) \in Step
  BY <1>1 DEF TreeSteps
<1>4. /\ Work(tree) \in Seq(Step) /\ Len(Work(tree)) = 2
      /\ Work(tree)[1].do = "create" /\ Work(tree)[1].on = tree
      /\ Work(tree)[2].do = "work" /\ Work(tree)[2].on = tree
  BY <1>2, <1>3
<1>5. \A do \in {"plan", "remove"} :
        LET s == <<Op(do)>> IN
        s \in Seq(Step) /\ Len(s) = 1 /\ s[1].do = do /\ s[1].on = tree
  BY <1>3
<1> QED BY <1>4, <1>5 DEF Op

\* A run that takes a lock, works in its tree and lets the lock go: `sync`, `dev`.
Turn(l, tree) == Try(l, "acquire") \o Work(tree) \o Drop(l)

LEMMA TurnIs ==
  ASSUME NEW l \in Lock, NEW tree \in Tree
  PROVE  LET s == Turn(l, tree) IN
         /\ s \in Seq(Step) /\ Len(s) = 6
         /\ s[1].do = "try" /\ s[1].on = l /\ s[1].mode = "acquire"
         /\ s[2].do = "create" /\ s[2].on = tree
         /\ s[3].do = "work" /\ s[3].on = tree
         /\ s[4].do = "forget" /\ s[4].on = l
         /\ s[5].do = "blank" /\ s[5].on = l
         /\ s[6].do = "unlock" /\ s[6].on = l
<1> DEFINE a == Try(l, "acquire")
           w == Work(tree)
           d == Drop(l)
           b == a \o w
           s == b \o d
<1>1. /\ a \in Seq(Step) /\ Len(a) = 1 /\ a[1].do = "try" /\ a[1].on = l
      /\ a[1].mode = "acquire"
  <2>1. "acquire" \in Modes
    BY DEF Modes
  <2> QED BY <2>1, TryIs
<1>2. /\ w \in Seq(Step) /\ Len(w) = 2 /\ w[1].do = "create" /\ w[1].on = tree
      /\ w[2].do = "work" /\ w[2].on = tree
  BY OnTreeIs
<1>3. /\ d \in Seq(Step) /\ Len(d) = 3 /\ d[1].do = "forget" /\ d[1].on = l
      /\ d[2].do = "blank" /\ d[2].on = l /\ d[3].do = "unlock" /\ d[3].on = l
  BY Triples
<1>4. Turn(l, tree) = s
  BY DEF Turn
<1> HIDE DEF a, w, d
<1>5. Joins(b, a, w)
  BY <1>1, <1>2, JoinsIs
<1> HIDE DEF b
<1>6. b \in Seq(Step) /\ Len(b) = 3 /\ b[1] = a[1] /\ b[2] = w[1] /\ b[3] = w[2]
  <2>1. /\ b \in Seq(Step) /\ Len(b) = Len(a) + 2
        /\ \A i \in 1..Len(a) : b[i] = a[i]
        /\ b[Len(a) + 1] = w[1] /\ b[Len(a) + 2] = w[2]
    <3>1. Len(w) = 2
      BY <1>2
    <3> QED BY <1>5, <3>1, ThenTwo
  <2> QED BY <1>1, <2>1
<1>7. Joins(s, b, d)
  BY <1>3, <1>6, JoinsIs
<1> HIDE DEF s
<1>8. /\ s \in Seq(Step) /\ Len(s) = 6
      /\ s[1] = b[1] /\ s[2] = b[2] /\ s[3] = b[3]
      /\ s[4] = d[1] /\ s[5] = d[2] /\ s[6] = d[3]
  <2>1. /\ s \in Seq(Step) /\ Len(s) = Len(b) + 3
        /\ \A i \in 1..Len(b) : s[i] = b[i]
        /\ s[Len(b) + 1] = d[1] /\ s[Len(b) + 2] = d[2] /\ s[Len(b) + 3] = d[3]
    BY <1>3, <1>7, ThenThree
  <2> QED BY <1>6, <2>1
<1> QED BY <1>1, <1>2, <1>3, <1>4, <1>6, <1>8

\* The plan, the attempt at the dev server's lock, the removal.
Planned(mode) ==
  <<[do |-> "plan", on |-> "cache"]>> \o Try("dev.lock", mode) \o Removal(mode)

LEMMA PlannedIs ==
  ASSUME NEW mode \in Modes
  PROVE  LET s == Planned(mode) IN
         /\ s \in Seq(Step)
         /\ Len(s) = IF mode = "inspect" THEN 2 ELSE 3
         /\ s[1].do = "plan" /\ s[1].on = "cache"
         /\ s[2].do = "try" /\ s[2].on = "dev.lock" /\ s[2].mode = mode
         /\ mode # "inspect" => s[3].do = "remove" /\ s[3].on = "cache"
<1> DEFINE c == <<[do |-> "plan", on |-> "cache"]>>
           a == Try("dev.lock", mode)
           r == <<[do |-> "remove", on |-> "cache"]>>
           b == c \o a
<1>1. "cache" \in Tree /\ "dev.lock" \in Lock
  BY DEF Tree, Lock
<1>2. /\ c \in Seq(Step) /\ Len(c) = 1 /\ c[1].do = "plan" /\ c[1].on = "cache"
      /\ r \in Seq(Step) /\ Len(r) = 1 /\ r[1].do = "remove" /\ r[1].on = "cache"
  BY <1>1, OnTreeIs
<1>3. /\ a \in Seq(Step) /\ Len(a) = 1 /\ a[1].do = "try" /\ a[1].on = "dev.lock"
      /\ a[1].mode = mode
  BY <1>1, TryIs
<1>4. Planned(mode) = IF mode = "inspect" THEN b \o <<>> ELSE b \o r
  BY DEF Planned, Removal
<1> HIDE DEF c, a, r
<1>5. Joins(b, c, a)
  BY <1>2, <1>3, JoinsIs
<1> HIDE DEF b
<1>6. b \in Seq(Step) /\ Len(b) = 2 /\ b[1] = c[1] /\ b[2] = a[1]
  <2>1. /\ b \in Seq(Step) /\ Len(b) = Len(c) + 1
        /\ \A i \in 1..Len(c) : b[i] = c[i]
        /\ b[Len(c) + 1] = a[1]
    BY <1>3, <1>5, ThenOne
  <2>2. Len(c) = 1
    BY <1>2
  <2> QED BY <2>1, <2>2
<1>7. CASE mode = "inspect"
  <2>1. Planned(mode) = b
    BY <1>4, <1>6, <1>7
  <2> QED BY <1>2, <1>3, <1>6, <1>7, <2>1
<1>8. CASE mode # "inspect"
  <2> DEFINE s == b \o r
  <2>1. Joins(s, b, r)
    BY <1>2, <1>6, JoinsIs
  <2>2. Planned(mode) = s
    BY <1>4, <1>8
  <2> HIDE DEF s
  <2>3. s \in Seq(Step) /\ Len(s) = 3 /\ s[1] = b[1] /\ s[2] = b[2] /\ s[3] = r[1]
    <3>1. /\ s \in Seq(Step) /\ Len(s) = Len(b) + 1
          /\ \A i \in 1..Len(b) : s[i] = b[i]
          /\ s[Len(b) + 1] = r[1]
      BY <1>2, <2>1, ThenOne
    <3>2. Len(b) = 2
      BY <1>6
    <3> QED BY <3>1, <3>2
  <2> QED BY <1>2, <1>3, <1>6, <1>8, <2>2, <2>3
<1> QED BY <1>7, <1>8

\* A plan carried out between two locks: `clean`, and what a build starts with.
CleanedBy(first, mode) ==
  Try("aggr.lock", first) \o (Planned(mode) \o Drop("dev.lock"))
    \o Drop("aggr.lock")

LEMMA CleanedByIs ==
  ASSUME NEW first \in Modes, NEW mode \in Modes
  PROVE  LET s == CleanedBy(first, mode)
             n == IF mode = "inspect" THEN 3 ELSE 4 IN
         /\ s \in Seq(Step) /\ Len(s) = n + 6
         /\ s[1].do = "try" /\ s[1].on = "aggr.lock" /\ s[1].mode = first
         /\ s[2].do = "plan" /\ s[2].on = "cache"
         /\ s[3].do = "try" /\ s[3].on = "dev.lock" /\ s[3].mode = mode
         /\ mode # "inspect" => s[4].do = "remove" /\ s[4].on = "cache"
         /\ s[n + 1].do = "forget" /\ s[n + 1].on = "dev.lock"
         /\ s[n + 2].do = "blank" /\ s[n + 2].on = "dev.lock"
         /\ s[n + 3].do = "unlock" /\ s[n + 3].on = "dev.lock"
         /\ s[n + 4].do = "forget" /\ s[n + 4].on = "aggr.lock"
         /\ s[n + 5].do = "blank" /\ s[n + 5].on = "aggr.lock"
         /\ s[n + 6].do = "unlock" /\ s[n + 6].on = "aggr.lock"
<1> DEFINE a == Try("aggr.lock", first)
           c == Planned(mode)
           d == Drop("dev.lock")
           e == Drop("aggr.lock")
           m == IF mode = "inspect" THEN 2 ELSE 3
           b == c \o d
           r == a \o b
           s == r \o e
<1>1. "aggr.lock" \in Lock /\ "dev.lock" \in Lock
  BY DEF Lock
<1>2. /\ a \in Seq(Step) /\ Len(a) = 1 /\ a[1].do = "try" /\ a[1].on = "aggr.lock"
      /\ a[1].mode = first
  BY <1>1, TryIs
<1>3. /\ c \in Seq(Step) /\ Len(c) = m /\ m \in {2, 3} /\ (mode # "inspect" => m = 3)
      /\ c[1].do = "plan" /\ c[1].on = "cache"
      /\ c[2].do = "try" /\ c[2].on = "dev.lock" /\ c[2].mode = mode
      /\ mode # "inspect" => c[3].do = "remove" /\ c[3].on = "cache"
  BY PlannedIs
<1>4. /\ d \in Seq(Step) /\ Len(d) = 3
      /\ d[1].do = "forget" /\ d[1].on = "dev.lock" /\ d[2].do = "blank"
      /\ d[2].on = "dev.lock" /\ d[3].do = "unlock" /\ d[3].on = "dev.lock"
      /\ e \in Seq(Step) /\ Len(e) = 3
      /\ e[1].do = "forget" /\ e[1].on = "aggr.lock" /\ e[2].do = "blank"
      /\ e[2].on = "aggr.lock" /\ e[3].do = "unlock" /\ e[3].on = "aggr.lock"
  BY <1>1, Triples
<1>5. CleanedBy(first, mode) = s /\ (IF mode = "inspect" THEN 3 ELSE 4) = m + 1
  BY DEF CleanedBy
<1> HIDE DEF a, c, d, e, m
<1>6. Joins(b, c, d)
  BY <1>3, <1>4, JoinsIs
<1> HIDE DEF b
<1>7. /\ b \in Seq(Step) /\ Len(b) = m + 3 /\ \A i \in 1..m : b[i] = c[i]
      /\ b[m + 1] = d[1] /\ b[m + 2] = d[2] /\ b[m + 3] = d[3]
  <2>1. /\ b \in Seq(Step) /\ Len(b) = Len(c) + 3
        /\ \A i \in 1..Len(c) : b[i] = c[i]
        /\ b[Len(c) + 1] = d[1] /\ b[Len(c) + 2] = d[2] /\ b[Len(c) + 3] = d[3]
    BY <1>4, <1>6, ThenThree
  <2>2. Len(c) = m
    BY <1>3
  <2> QED BY <2>1, <2>2
<1>8. Joins(r, a, b)
  BY <1>2, <1>7, JoinsIs
<1> HIDE DEF r
<1>9. /\ r \in Seq(Step) /\ Len(r) = m + 4 /\ r[1] = a[1]
      /\ \A i \in 1..m + 3 : r[i + 1] = b[i]
  <2>1. /\ r \in Seq(Step) /\ Len(r) = Len(b) + 1 /\ r[1] = a[1]
        /\ \A i \in 1..Len(b) : r[i + 1] = b[i]
    BY <1>2, <1>8, FirstThen
  <2>2. Len(b) = m + 3 /\ m \in Nat
    BY <1>3, <1>7
  <2> QED BY <2>1, <2>2
<1>10. Joins(s, r, e)
  BY <1>4, <1>9, JoinsIs
<1> HIDE DEF s
<1>11. /\ s \in Seq(Step) /\ Len(s) = m + 7 /\ \A i \in 1..m + 4 : s[i] = r[i]
       /\ s[m + 5] = e[1] /\ s[m + 6] = e[2] /\ s[m + 7] = e[3]
  <2>1. /\ s \in Seq(Step) /\ Len(s) = Len(r) + 3
        /\ \A i \in 1..Len(r) : s[i] = r[i]
        /\ s[Len(r) + 1] = e[1] /\ s[Len(r) + 2] = e[2] /\ s[Len(r) + 3] = e[3]
    BY <1>4, <1>10, ThenThree
  <2>2. Len(r) = m + 4 /\ m \in Nat
    BY <1>3, <1>9
  <2> QED BY <2>1, <2>2
<1>12. CASE m = 3
  <2>1. /\ b[1] = c[1] /\ b[2] = c[2] /\ b[3] = c[3]
        /\ b[4] = d[1] /\ b[5] = d[2] /\ b[6] = d[3]
    BY <1>7, <1>12
  <2>2. /\ r[1] = a[1] /\ \A i \in 1..6 : r[i + 1] = b[i]
    BY <1>9, <1>12
  <2>3. /\ r[2] = b[1] /\ r[3] = b[2] /\ r[4] = b[3] /\ r[5] = b[4] /\ r[6] = b[5]
        /\ r[7] = b[6]
    <3>1. \A i \in {1, 2, 3, 4, 5, 6} : r[i + 1] = b[i]
      BY <2>2
    <3> QED BY <3>1
  <2>4. /\ \A i \in 1..7 : s[i] = r[i]
        /\ s[8] = e[1] /\ s[9] = e[2] /\ s[10] = e[3] /\ Len(s) = 10
    BY <1>11, <1>12
  <2>5. /\ s[1] = a[1] /\ s[2] = c[1] /\ s[3] = c[2] /\ s[4] = c[3]
        /\ s[5] = d[1] /\ s[6] = d[2] /\ s[7] = d[3]
    BY <2>1, <2>2, <2>3, <2>4
  <2> HIDE DEF a
  <2> QED BY <1>2, <1>3, <1>4, <1>5, <1>11, <1>12, <2>4, <2>5
<1>13. CASE m = 2
  <2>1. /\ b[1] = c[1] /\ b[2] = c[2]
        /\ b[3] = d[1] /\ b[4] = d[2] /\ b[5] = d[3]
    BY <1>7, <1>13
  <2>2. /\ r[1] = a[1] /\ \A i \in 1..5 : r[i + 1] = b[i]
    BY <1>9, <1>13
  <2>3. /\ r[2] = b[1] /\ r[3] = b[2] /\ r[4] = b[3] /\ r[5] = b[4] /\ r[6] = b[5]
    <3>1. \A i \in {1, 2, 3, 4, 5} : r[i + 1] = b[i]
      BY <2>2
    <3> QED BY <3>1
  <2>4. /\ \A i \in 1..6 : s[i] = r[i]
        /\ s[7] = e[1] /\ s[8] = e[2] /\ s[9] = e[3] /\ Len(s) = 9
    BY <1>11, <1>13
  <2>5. /\ s[1] = a[1] /\ s[2] = c[1] /\ s[3] = c[2]
        /\ s[4] = d[1] /\ s[5] = d[2] /\ s[6] = d[3]
    BY <2>1, <2>2, <2>3, <2>4
  <2> QED BY <1>2, <1>3, <1>4, <1>5, <1>11, <1>13, <2>4, <2>5
<1> QED BY <1>3, <1>12, <1>13

LEMMA TurnSound ==
  ASSUME NEW tree \in Tree, NEW command, NEW records
  PROVE  Sound(Turn(LockOf(tree), tree), {}, records, {}, command)
<1> DEFINE l == LockOf(tree)
           s == Turn(l, tree)
<1>1. l \in Lock /\ l # tree
  BY DEF LockOf, Lock, Tree
<1>2. /\ s \in Seq(Step) /\ DOMAIN s = 1..6
      /\ s[1].do = "try" /\ s[1].on = l /\ s[1].mode = "acquire"
      /\ s[2].do = "create" /\ s[2].on = tree
      /\ s[3].do = "work" /\ s[3].on = tree
      /\ s[4].do = "forget" /\ s[4].on = l
      /\ s[5].do = "blank" /\ s[5].on = l
      /\ s[6].do = "unlock" /\ s[6].on = l
  <2>1. s \in Seq(Step) /\ Len(s) = 6
    BY <1>1, TurnIs
  <2>2. DOMAIN s = 1..6
    BY <2>1
  <2> QED BY <1>1, <2>1, <2>2, TurnIs
<1>3. LockOf(tree) = l
  OBVIOUS
<1> HIDE DEF l, s
<1>4. \A i \in DOMAIN s : i \in {1, 2, 3, 4, 5, 6}
  BY <1>2
<1>5. \A i \in DOMAIN s : s[i].do \notin Questions \cup Records
  BY <1>2, <1>4 DEF Questions, Records
<1>6. ClearedLater(s)
  <2>1. Forgets(s, 1, l)
    <3>1. 4 \in DOMAIN s /\ \A j \in DOMAIN s : 1 < j /\ j < 4 => j \in {2, 3}
      BY <1>2
    <3> QED BY <1>1, <1>2, <3>1 DEF Forgets, After
  <2>2. Blanks(s, 1, l)
    <3>1. 5 \in DOMAIN s /\ \A j \in DOMAIN s : 1 < j /\ j < 5 => j \in {2, 3, 4}
      BY <1>2
    <3> QED BY <1>1, <1>2, <3>1 DEF Blanks, After
  <2>3. \A i \in DOMAIN s : s[i].do = "try" => i = 1
    BY <1>2, <1>4
  <2> QED BY <1>2, <2>1, <2>2, <2>3 DEF ClearedLater
<1>7. CreatedBefore(s)
  <2>1. \A j \in DOMAIN s : s[j].do = "work" => j = 3
    BY <1>2, <1>4
  <2>2. \A i \in DOMAIN s : 3 = i + 1 => i = 2
    BY <1>2
  <2> QED BY <1>2, <2>1, <2>2 DEF CreatedBefore
<1>8. Guarded(s, {}, {}, command)
  <2>1. \A i \in DOMAIN s : /\ s[i].do \in {"create", "work"} => i \in {2, 3} /\ s[i].on = tree
                            /\ s[i].do # "remove"
    BY <1>2, <1>4
  <2>2. ASSUME NEW i \in {2, 3} PROVE Secure(s, {}, i, l)
    <3>1. \A m \in DOMAIN s : 1 < m /\ m < i => m = 2
      BY <1>2
    <3>2. Kept(s, 1, i, l)
      BY <1>2, <3>1 DEF Kept
    <3>3. 1 \in DOMAIN s /\ 1 < i
      BY <1>2
    <3> QED BY <1>2, <3>2, <3>3 DEF Secure
  <2> QED BY <1>3, <2>1, <2>2 DEF Guarded
<1>9. Sound(s, {}, records, {}, command)
  BY <1>2, <1>5, <1>6, <1>7, <1>8, SoundPlain
<1> QED BY <1>9 DEF s, l

\* `clean`, and `build --clean` that goes on with a turn of its own.
Cleaned(s, mode) ==
  /\ s[1].do = "try" /\ s[1].on = "aggr.lock" /\ s[1].mode = "acquire"
  /\ s[2].do = "plan" /\ s[2].on = "cache"
  /\ s[3].do = "try" /\ s[3].on = "dev.lock" /\ s[3].mode = mode
  /\ s[4].do = "remove" /\ s[4].on = "cache"
  /\ s[5].do = "forget" /\ s[5].on = "dev.lock"
  /\ s[6].do = "blank" /\ s[6].on = "dev.lock"
  /\ s[7].do = "unlock" /\ s[7].on = "dev.lock"
  /\ s[8].do = "forget" /\ s[8].on = "aggr.lock"
  /\ s[9].do = "blank" /\ s[9].on = "aggr.lock"
  /\ s[10].do = "unlock" /\ s[10].on = "aggr.lock"
Turned(s) ==
  /\ DOMAIN s = 1..16
  /\ s[11].do = "try" /\ s[11].on = "aggr.lock" /\ s[11].mode = "acquire"
  /\ s[12].do = "create" /\ s[12].on = "cache"
  /\ s[13].do = "work" /\ s[13].on = "cache"
  /\ s[14].do = "forget" /\ s[14].on = "aggr.lock"
  /\ s[15].do = "blank" /\ s[15].on = "aggr.lock"
  /\ s[16].do = "unlock" /\ s[16].on = "aggr.lock"

LEMMA CleanedSound ==
  ASSUME NEW s \in Seq(Step), NEW mode \in Modes, mode # "inspect",
         Cleaned(s, mode), DOMAIN s = 1..10 \/ Turned(s),
         NEW command, NEW records
  PROVE  Sound(s, {}, records, {}, command)
<1>1. \A i \in DOMAIN s :
        \/ i \in {1, 2, 3, 4, 5, 6, 7, 8, 9, 10}
        \/ i \in {11, 12, 13, 14, 15, 16} /\ Turned(s)
  BY DEF Turned
<1>2. 1..10 \subseteq DOMAIN s
  BY DEF Turned
<1>3. \A i \in {1, 2, 3, 4, 5, 6, 7, 8, 9, 10} :
        /\ s[i].do \notin Questions \cup Records \cup {"create", "work"}
        /\ s[i].do = "try" => i \in {1, 3}
        /\ s[i].do = "remove" => i = 4
  BY DEF Cleaned, Questions, Records
<1>4. Turned(s) => \A i \in {11, 12, 13, 14, 15, 16} :
        /\ s[i].do \notin Questions \cup Records \cup {"remove"}
        /\ s[i].do = "try" => i = 11
        /\ s[i].do \in {"create", "work"} => i \in {12, 13} /\ s[i].on = "cache"
        /\ s[i].do = "work" => i = 13
  BY DEF Turned, Questions, Records
<1>5. ASSUME NEW i \in DOMAIN s
      PROVE  /\ s[i].do \notin Questions \cup Records
             /\ s[i].do = "try" => i \in {1, 3} \/ (i = 11 /\ Turned(s))
             /\ s[i].do = "remove" => i = 4
             /\ s[i].do \in {"create", "work"} =>
                  i \in {12, 13} /\ Turned(s) /\ s[i].on = "cache"
             /\ s[i].do = "work" => i = 13
  <2>1. CASE i \in {1, 2, 3, 4, 5, 6, 7, 8, 9, 10}
    <3>1. /\ s[i].do \notin Questions \cup Records \cup {"create", "work"}
          /\ s[i].do = "try" => i \in {1, 3}
          /\ s[i].do = "remove" => i = 4
      BY <1>3, <2>1
    <3> QED BY <3>1
  <2>2. CASE i \in {11, 12, 13, 14, 15, 16} /\ Turned(s)
    <3>1. /\ s[i].do \notin Questions \cup Records \cup {"remove"}
          /\ s[i].do = "try" => i = 11
          /\ s[i].do \in {"create", "work"} => i \in {12, 13} /\ s[i].on = "cache"
          /\ s[i].do = "work" => i = 13
      BY <1>4, <2>2
    <3> QED BY <2>2, <3>1
  <2> QED BY <1>1, <2>1, <2>2
<1>6. ClearedLater(s)
  <2>1. Forgets(s, 1, "aggr.lock")
    <3>1. 8 \in DOMAIN s /\ \A j \in DOMAIN s : 1 < j /\ j < 8 => j \in {2, 3, 4, 5, 6, 7}
      BY <1>2
    <3> QED BY <3>1 DEF Forgets, After, Cleaned
  <2>2. Blanks(s, 1, "aggr.lock")
    <3>1. 9 \in DOMAIN s
          /\ \A j \in DOMAIN s : 1 < j /\ j < 9 => j \in {2, 3, 4, 5, 6, 7, 8}
      BY <1>2
    <3> QED BY <3>1 DEF Blanks, After, Cleaned
  <2>3. Forgets(s, 3, "dev.lock")
    <3>1. 5 \in DOMAIN s /\ \A j \in DOMAIN s : 3 < j /\ j < 5 => j = 4
      BY <1>2
    <3> QED BY <3>1 DEF Forgets, After, Cleaned
  <2>4. Blanks(s, 3, "dev.lock")
    <3>1. 6 \in DOMAIN s /\ \A j \in DOMAIN s : 3 < j /\ j < 6 => j \in {4, 5}
      BY <1>2
    <3> QED BY <3>1 DEF Blanks, After, Cleaned
  <2>5. ASSUME Turned(s)
        PROVE  Forgets(s, 11, "aggr.lock") /\ Blanks(s, 11, "aggr.lock")
    <3>1. /\ 14 \in DOMAIN s /\ \A j \in DOMAIN s : 11 < j /\ j < 14 => j \in {12, 13}
          /\ 15 \in DOMAIN s /\ \A j \in DOMAIN s : 11 < j /\ j < 15 => j \in {12, 13, 14}
      BY <2>5 DEF Turned
    <3>2. Forgets(s, 11, "aggr.lock")
      BY <2>5, <3>1 DEF Forgets, After, Turned
    <3>3. Blanks(s, 11, "aggr.lock")
      BY <2>5, <3>1 DEF Blanks, After, Turned
    <3> QED BY <3>2, <3>3
  <2>6. \A i \in DOMAIN s : s[i].do = "try" => i \in {1, 3} \/ (i = 11 /\ Turned(s))
    BY <1>5
  <2>7. /\ s[1].on = "aggr.lock" /\ s[3].on = "dev.lock"
        /\ Turned(s) => s[11].on = "aggr.lock"
    BY DEF Cleaned, Turned
  <2> QED BY <2>1, <2>2, <2>3, <2>4, <2>5, <2>6, <2>7 DEF ClearedLater
<1>7. CreatedBefore(s)
  <2> SUFFICES ASSUME NEW j \in DOMAIN s, s[j].do = "work",
                      NEW i \in DOMAIN s, j = i + 1
               PROVE  s[i].do = "create" /\ s[i].on = s[j].on
    BY DEF CreatedBefore
  <2>1. j = 13 /\ Turned(s)
    BY <1>5
  <2>2. i = 12
    BY <2>1 DEF Turned
  <2> QED BY <2>1, <2>2 DEF Turned
<1>8. Guarded(s, {}, {}, command)
  <2>1. \A i \in DOMAIN s :
          /\ s[i].do = "remove" => i = 4
          /\ s[i].do \in {"create", "work"} =>
               i \in {12, 13} /\ Turned(s) /\ LockOf(s[i].on) = "aggr.lock"
    BY <1>5 DEF LockOf
  <2>2. Covered(s, {}, {}, 4)
    <3>1. Kept(s, 3, 4, "dev.lock") /\ \A m \in DOMAIN s : ~(3 < m /\ m < 4)
      BY <1>2 DEF Kept
    <3>2. 3 \in DOMAIN s /\ 3 < 4
      BY <1>2
    <3>3. mode \in {"acquire", "as planned"}
      BY DEF Modes
    <3>4. s[3].do = "try" /\ s[3].on = "dev.lock" /\ s[3].mode = mode
      BY DEF Cleaned
    <3>5. s[3].mode \in {"acquire", "as planned"}
      BY <3>3, <3>4
    <3> QED BY <3>1, <3>2, <3>4, <3>5 DEF Covered
  <2>3. Secure(s, {}, 4, "aggr.lock")
    <3>1. \A m \in DOMAIN s : 1 < m /\ m < 4 => m \in {2, 3}
      BY <1>2
    <3>2. Kept(s, 1, 4, "aggr.lock")
      BY <3>1 DEF Kept, Cleaned
    <3>3. 1 \in DOMAIN s /\ 1 < 4
      BY <1>2
    <3> QED BY <3>2, <3>3 DEF Secure, Cleaned
  <2>4. ASSUME Turned(s), NEW i \in {12, 13}
        PROVE  Secure(s, {}, i, "aggr.lock")
    <3>1. 11 \in DOMAIN s /\ 11 < i
          /\ \A m \in DOMAIN s : 11 < m /\ m < i => m = 12
      BY <2>4 DEF Turned
    <3>2. Kept(s, 11, i, "aggr.lock")
      BY <2>4, <3>1 DEF Kept, Turned
    <3> QED BY <2>4, <3>1, <3>2 DEF Secure, Turned
  <2> QED BY <2>1, <2>2, <2>3, <2>4 DEF Guarded
<1> QED BY <1>5, <1>6, <1>7, <1>8, SoundPlain

\* LockedClean(mode) and, for `build --clean`, the turn that follows it.
LEMMA LockedCleanSound ==
  ASSUME NEW command, NEW records
  PROVE  /\ Sound(LockedClean("as planned"), {}, records, {}, command)
         /\ Sound(LockedClean("as planned") \o Sync, {}, records, {}, command)
<1>1. /\ LockedClean("as planned") = CleanedBy("acquire", "as planned")
      /\ "acquire" \in Modes /\ "as planned" \in Modes
  BY DEF LockedClean, DevLockedClean, CleanedBy, Planned, Modes
<1>2. PICK mode \in Modes : mode = "as planned"
  BY <1>1
<1> DEFINE c == CleanedBy("acquire", mode)
           u == Turn("aggr.lock", "cache")
           s == c \o u
<1>3. mode \in Modes /\ mode # "inspect" /\ "acquire" \in Modes
  BY <1>1, <1>2
<1>4. LockedClean("as planned") = c
  BY <1>1, <1>2
<1>5. Sync = u
  BY DEF Sync, Turn
<1>6. c \in Seq(Step) /\ Len(c) = 10 /\ Cleaned(c, mode)
  <2>1. /\ CleanedBy("acquire", mode) \in Seq(Step)
        /\ Len(CleanedBy("acquire", mode)) = 10
    BY <1>3, CleanedByIs
  <2>2. Cleaned(CleanedBy("acquire", mode), mode)
    BY <1>3, CleanedByIs DEF Cleaned
  <2> QED BY <2>1, <2>2
<1>7. /\ u \in Seq(Step) /\ Len(u) = 6
      /\ u[1].do = "try" /\ u[1].on = "aggr.lock" /\ u[1].mode = "acquire"
      /\ u[2].do = "create" /\ u[2].on = "cache"
      /\ u[3].do = "work" /\ u[3].on = "cache"
      /\ u[4].do = "forget" /\ u[4].on = "aggr.lock"
      /\ u[5].do = "blank" /\ u[5].on = "aggr.lock"
      /\ u[6].do = "unlock" /\ u[6].on = "aggr.lock"
  <2>1. "aggr.lock" \in Lock /\ "cache" \in Tree
    BY DEF Lock, Tree
  <2> QED BY <2>1, TurnIs
<1> HIDE DEF c, u
<1>8. Joins(s, c, u)
  BY <1>6, <1>7, JoinsIs
<1> HIDE DEF s
<1>9. /\ s \in Seq(Step) /\ Len(s) = 16
      /\ \A i \in 1..10 : s[i] = c[i]
      /\ \A i \in 1..6 : s[10 + i] = u[i]
  <2>1. Len(c) = 10 /\ Len(u) = 6
    BY <1>6, <1>7
  <2> QED BY <1>8, <2>1 DEF Joins
<1>10. Cleaned(s, mode)
  <2>1. /\ s[1] = c[1] /\ s[2] = c[2] /\ s[3] = c[3] /\ s[4] = c[4] /\ s[5] = c[5]
        /\ s[6] = c[6] /\ s[7] = c[7] /\ s[8] = c[8] /\ s[9] = c[9] /\ s[10] = c[10]
    BY <1>9
  <2>2. Cleaned(c, mode)
    BY <1>6
  <2> QED BY <2>1, <2>2 DEF Cleaned
<1>11. Turned(s)
  <2>1. DOMAIN s = 1..16
    BY <1>9
  <2>2. \A i \in {1, 2, 3, 4, 5, 6} : s[10 + i] = u[i]
    BY <1>9
  <2>3. /\ s[11] = u[1] /\ s[12] = u[2] /\ s[13] = u[3] /\ s[14] = u[4]
        /\ s[15] = u[5] /\ s[16] = u[6]
    BY <2>2
  <2> QED BY <1>7, <2>1, <2>3 DEF Turned
<1>12. Sound(s, {}, records, {}, command)
  BY <1>3, <1>9, <1>10, <1>11, CleanedSound
<1>13. Sound(c, {}, records, {}, command)
  <2>1. DOMAIN c = 1..10
    BY <1>6
  <2> QED BY <1>3, <1>6, <2>1, CleanedSound
<1> QED BY <1>4, <1>5, <1>12, <1>13 DEF s

\* `clean --dry-run` takes no lock that is not there, and removes nothing.
LEMMA InspectionSound ==
  ASSUME NEW command, NEW records
  PROVE  Sound(LockedClean("inspect"), {}, records, {}, command)
<1> DEFINE s == CleanedBy("inspect", "inspect")
<1>1. LockedClean("inspect") = s /\ "inspect" \in Modes
  BY DEF LockedClean, DevLockedClean, CleanedBy, Planned, Modes
<1>2. /\ s \in Seq(Step) /\ Len(s) = 9
      /\ s[1].do = "try" /\ s[1].on = "aggr.lock"
      /\ s[2].do = "plan" /\ s[2].on = "cache"
      /\ s[3].do = "try" /\ s[3].on = "dev.lock"
      /\ s[4].do = "forget" /\ s[4].on = "dev.lock"
      /\ s[5].do = "blank" /\ s[5].on = "dev.lock"
      /\ s[6].do = "unlock" /\ s[6].on = "dev.lock"
      /\ s[7].do = "forget" /\ s[7].on = "aggr.lock"
      /\ s[8].do = "blank" /\ s[8].on = "aggr.lock"
      /\ s[9].do = "unlock" /\ s[9].on = "aggr.lock"
  BY <1>1, CleanedByIs
<1> HIDE DEF s
<1>3. DOMAIN s = 1..9
  BY <1>2
<1>4. \A i \in DOMAIN s : i \in {1, 2, 3, 4, 5, 6, 7, 8, 9}
  BY <1>3
<1>5. \A i \in DOMAIN s :
        /\ s[i].do \notin Questions \cup Records \cup {"create", "work", "remove"}
        /\ s[i].do = "try" => i \in {1, 3}
  BY <1>2, <1>4 DEF Questions, Records
<1>6. ClearedLater(s)
  <2>1. Forgets(s, 1, "aggr.lock")
    <3>1. 7 \in DOMAIN s /\ \A j \in DOMAIN s : 1 < j /\ j < 7 => j \in {2, 3, 4, 5, 6}
      BY <1>3
    <3> QED BY <1>2, <3>1 DEF Forgets, After
  <2>2. Blanks(s, 1, "aggr.lock")
    <3>1. 8 \in DOMAIN s
          /\ \A j \in DOMAIN s : 1 < j /\ j < 8 => j \in {2, 3, 4, 5, 6, 7}
      BY <1>3
    <3> QED BY <1>2, <3>1 DEF Blanks, After
  <2>3. Forgets(s, 3, "dev.lock")
    <3>1. 4 \in DOMAIN s /\ \A j \in DOMAIN s : ~(3 < j /\ j < 4)
      BY <1>3
    <3> QED BY <1>2, <3>1 DEF Forgets, After
  <2>4. Blanks(s, 3, "dev.lock")
    <3>1. 5 \in DOMAIN s /\ \A j \in DOMAIN s : 3 < j /\ j < 5 => j = 4
      BY <1>3
    <3> QED BY <1>2, <3>1 DEF Blanks, After
  <2>5. s[1].on = "aggr.lock" /\ s[3].on = "dev.lock"
    BY <1>2
  <2> QED BY <1>5, <2>1, <2>2, <2>3, <2>4, <2>5 DEF ClearedLater
<1>7. CreatedBefore(s) /\ Guarded(s, {}, {}, command)
  BY <1>5 DEF CreatedBefore, Guarded
<1>8. s \in Seq(Step) /\ \A i \in DOMAIN s : s[i].do \notin Questions \cup Records
  BY <1>2, <1>5
<1>9. Sound(s, {}, records, {}, command)
  BY <1>6, <1>7, <1>8, SoundPlain
<1> QED BY <1>1, <1>9

\* `dev --clean` removes what it planned under its own lock alone.
LEMMA DevCleanSound ==
  ASSUME NEW records
  PROVE  Sound(Planned("acquire") \o Work("dev") \o Drop("dev.lock"),
               {}, records, {}, "dev --clean")
<1> DEFINE c == Planned("acquire")
           w == Work("dev")
           d == Drop("dev.lock")
           b == c \o w
           s == b \o d
<1>1. "acquire" \in Modes /\ "dev.lock" \in Lock /\ "dev" \in Tree
  BY DEF Modes, Lock, Tree
<1>2. /\ c \in Seq(Step) /\ Len(c) = 3 /\ c[1].do = "plan" /\ c[1].on = "cache"
      /\ c[2].do = "try" /\ c[2].on = "dev.lock" /\ c[2].mode = "acquire"
      /\ c[3].do = "remove" /\ c[3].on = "cache"
  BY <1>1, PlannedIs
<1>3. /\ w \in Seq(Step) /\ Len(w) = 2 /\ w[1].do = "create" /\ w[1].on = "dev"
      /\ w[2].do = "work" /\ w[2].on = "dev"
  BY <1>1, OnTreeIs
<1>4. /\ d \in Seq(Step) /\ Len(d) = 3 /\ d[1].do = "forget" /\ d[1].on = "dev.lock"
      /\ d[2].do = "blank" /\ d[2].on = "dev.lock"
      /\ d[3].do = "unlock" /\ d[3].on = "dev.lock"
  BY <1>1, Triples
<1> HIDE DEF c, w, d
<1>5. Joins(b, c, w)
  BY <1>2, <1>3, JoinsIs
<1> HIDE DEF b
<1>6. /\ b \in Seq(Step) /\ Len(b) = 5 /\ b[1] = c[1] /\ b[2] = c[2] /\ b[3] = c[3]
      /\ b[4] = w[1] /\ b[5] = w[2]
  <2>1. /\ b \in Seq(Step) /\ Len(b) = Len(c) + 2
        /\ \A i \in 1..Len(c) : b[i] = c[i]
        /\ b[Len(c) + 1] = w[1] /\ b[Len(c) + 2] = w[2]
    BY <1>3, <1>5, ThenTwo
  <2>2. Len(c) = 3
    BY <1>2
  <2> QED BY <2>1, <2>2
<1>7. Joins(s, b, d)
  BY <1>4, <1>6, JoinsIs
<1> HIDE DEF s
<1>8. /\ s \in Seq(Step) /\ Len(s) = 8 /\ \A i \in 1..5 : s[i] = b[i]
      /\ s[6] = d[1] /\ s[7] = d[2] /\ s[8] = d[3]
  <2>1. /\ s \in Seq(Step) /\ Len(s) = Len(b) + 3
        /\ \A i \in 1..Len(b) : s[i] = b[i]
        /\ s[Len(b) + 1] = d[1] /\ s[Len(b) + 2] = d[2] /\ s[Len(b) + 3] = d[3]
    BY <1>4, <1>7, ThenThree
  <2>2. Len(b) = 5
    BY <1>6
  <2> QED BY <2>1, <2>2
<1>9. /\ s[1].do = "plan"
      /\ s[2].do = "try" /\ s[2].on = "dev.lock" /\ s[2].mode = "acquire"
      /\ s[3].do = "remove"
      /\ s[4].do = "create" /\ s[4].on = "dev"
      /\ s[5].do = "work" /\ s[5].on = "dev"
      /\ s[6].do = "forget" /\ s[6].on = "dev.lock"
      /\ s[7].do = "blank" /\ s[7].on = "dev.lock"
      /\ s[8].do = "unlock"
  BY <1>2, <1>3, <1>4, <1>6, <1>8
<1>10. DOMAIN s = 1..8
  BY <1>8
<1>11. \A i \in DOMAIN s : i \in {1, 2, 3, 4, 5, 6, 7, 8}
  BY <1>10
<1>12. \A i \in DOMAIN s :
         /\ s[i].do \notin Questions \cup Records
         /\ s[i].do = "try" => i = 2
         /\ s[i].do = "remove" => i = 3
         /\ s[i].do = "work" => i = 5
         /\ s[i].do \in {"create", "work"} => i \in {4, 5} /\ LockOf(s[i].on) = "dev.lock"
  BY <1>9, <1>11 DEF Questions, Records, LockOf
<1>13. ClearedLater(s)
  <2>1. Forgets(s, 2, "dev.lock")
    <3>1. 6 \in DOMAIN s /\ \A j \in DOMAIN s : 2 < j /\ j < 6 => j \in {3, 4, 5}
      BY <1>10
    <3> QED BY <1>9, <3>1 DEF Forgets, After
  <2>2. Blanks(s, 2, "dev.lock")
    <3>1. 7 \in DOMAIN s /\ \A j \in DOMAIN s : 2 < j /\ j < 7 => j \in {3, 4, 5, 6}
      BY <1>10
    <3> QED BY <1>9, <3>1 DEF Blanks, After
  <2> QED BY <1>9, <1>12, <2>1, <2>2 DEF ClearedLater
<1>14. CreatedBefore(s)
  <2>1. \A i \in DOMAIN s : 5 = i + 1 => i = 4
    BY <1>10
  <2> QED BY <1>9, <1>12, <2>1 DEF CreatedBefore
<1>15. Guarded(s, {}, {}, "dev --clean")
  <2>1. Covered(s, {}, {}, 3)
    <3>1. Kept(s, 2, 3, "dev.lock") /\ \A m \in DOMAIN s : ~(2 < m /\ m < 3)
      BY <1>10 DEF Kept
    <3>2. 2 \in DOMAIN s /\ 2 < 3
      BY <1>10
    <3>3. "acquire" \in {"acquire", "as planned"}
      OBVIOUS
    <3>4. s[2].mode \in {"acquire", "as planned"}
      BY <1>9, <3>3
    <3> QED BY <1>9, <3>1, <3>2, <3>4 DEF Covered
  <2>2. ASSUME NEW i \in {4, 5} PROVE Secure(s, {}, i, "dev.lock")
    <3>1. \A m \in DOMAIN s : 2 < m /\ m < i => m \in {3, 4}
      BY <1>10
    <3>2. Kept(s, 2, i, "dev.lock")
      BY <1>9, <3>1 DEF Kept
    <3>3. 2 \in DOMAIN s /\ 2 < i
      BY <1>10
    <3> QED BY <1>9, <3>2, <3>3 DEF Secure
  <2> QED BY <1>12, <2>1, <2>2 DEF Guarded
<1>16. Sound(s, {}, records, {}, "dev --clean")
  BY <1>8, <1>12, <1>13, <1>14, <1>15, SoundPlain
<1> QED BY <1>16 DEF s, b, c, w, d

-----------------------------------------------------------------------------
(* The invariant, and what it gives                                        *)

LEMMA ProgramIs ==
  /\ Program("none") = <<>> /\ Program("sync") = Sync
  /\ Program("build --clean") = LockedClean("as planned") \o Sync
  /\ Program("clean") = LockedClean("as planned")
  /\ Program("clean --dry-run") = LockedClean("inspect")
  /\ Program("dev") =
       Try("dev.lock", "acquire") \o Work("dev") \o Drop("dev.lock")
  /\ Program("dev --clean") =
       <<[do |-> "plan", on |-> "cache"]>> \o Try("dev.lock", "acquire")
         \o Removal("acquire") \o Work("dev") \o Drop("dev.lock")
<1>1. Program("none") = <<>>
  BY Zenon DEF Program
<1>2. Program("sync") = Sync
  BY Zenon DEF Program
<1>3. Program("build --clean") = LockedClean("as planned") \o Sync
  BY Zenon DEF Program
<1>4. Program("clean") = LockedClean("as planned")
  BY Zenon DEF Program
<1>5. Program("clean --dry-run") = LockedClean("inspect")
  BY Zenon DEF Program
<1>6. Program("dev") =
        Try("dev.lock", "acquire") \o Work("dev") \o Drop("dev.lock")
  BY Zenon DEF Program
<1>7. Program("dev --clean") =
        <<[do |-> "plan", on |-> "cache"]>> \o Try("dev.lock", "acquire")
          \o Removal("acquire") \o Work("dev") \o Drop("dev.lock")
  BY Zenon DEF Program
<1> QED BY Zenon, <1>1, <1>2, <1>3, <1>4, <1>5, <1>6, <1>7

LEMMA NothingSound ==
  ASSUME NEW command, NEW records
  PROVE  Sound(<<>>, {}, records, {}, command)
<1>1. <<>> \in Seq(Step) /\ DOMAIN <<>> = {}
  OBVIOUS
<1> QED BY <1>1 DEF Sound, Ordered, AskedFirst, RecordedFirst, ClearedLater,
                    CreatedBefore, Guarded

LEMMA ProgramSound ==
  ASSUME NEW command \in Command, NEW records
  PROVE  Sound(Program(command), {}, records, {}, command)
<1>1. ASSUME NEW c PROVE Sound(Sync, {}, records, {}, c)
  <2>1. "cache" \in Tree /\ LockOf("cache") = "aggr.lock"
    BY DEF Tree, LockOf
  <2>2. Sound(Turn("aggr.lock", "cache"), {}, records, {}, c)
    BY <2>1, TurnSound
  <2>3. Sync = Turn("aggr.lock", "cache")
    BY DEF Sync, Turn
  <2> QED BY <2>2, <2>3
<1>2. ASSUME NEW c
      PROVE  Sound(Try("dev.lock", "acquire") \o Work("dev") \o Drop("dev.lock"),
                   {}, records, {}, c)
  <2>1. "dev" \in Tree /\ LockOf("dev") = "dev.lock"
    BY DEF Tree, LockOf
  <2>2. Sound(Turn("dev.lock", "dev"), {}, records, {}, c)
    BY <2>1, TurnSound
  <2>3. Turn("dev.lock", "dev") =
          Try("dev.lock", "acquire") \o Work("dev") \o Drop("dev.lock")
    BY DEF Turn
  <2> QED BY <2>2, <2>3
<1>3. Sound(Program("dev --clean"), {}, records, {}, "dev --clean")
  <2>1. Program("dev --clean") =
          Planned("acquire") \o Work("dev") \o Drop("dev.lock")
    BY Zenon, ProgramIs DEF Planned
  <2> QED BY Zenon, <2>1, DevCleanSound
<1>4. CASE command = "none"
  BY Zenon, <1>4, ProgramIs, NothingSound
<1>5. CASE command = "sync"
  BY Zenon, <1>1, <1>5, ProgramIs
<1>6. CASE command = "build --clean"
  BY Zenon, <1>6, ProgramIs, LockedCleanSound
<1>7. CASE command = "clean"
  BY Zenon, <1>7, ProgramIs, LockedCleanSound
<1>8. CASE command = "clean --dry-run"
  BY Zenon, <1>8, ProgramIs, InspectionSound
<1>9. CASE command = "dev"
  BY Zenon, <1>2, <1>9, ProgramIs
<1>10. CASE command = "dev --clean"
  BY Zenon, <1>3, <1>10
<1> QED
  BY Zenon, <1>4, <1>5, <1>6, <1>7, <1>8, <1>9, <1>10 DEF Command

LEMMA InitHolds ==
  ASSUME WorkspaceAssumption, Init
  PROVE  WorkspaceInv
<1>1. /\ kind \in [Process -> Command] /\ Nobody \notin Process
      /\ todo = [p \in Process |-> Program(kind[p])]
      /\ plan = [p \in Process |-> {}]
      /\ holder = [l \in Lock |-> Nobody] /\ exists = {} /\ recorder = {}
      /\ body = [l \in Lock |-> Nobody] /\ sidecar = [l \in Lock |-> Nobody]
      /\ trees \in SUBSET Tree
      /\ named = [p \in Process |-> Nobody]
      /\ witnessed = [p \in Process |-> {}]
      /\ crashed = {}
  BY Zenon DEF Init, WorkspaceAssumption
<1>2. ASSUME NEW p \in Process
      PROVE  Underway(p) /\ Recorded(p) /\ Told(p) /\ Standing(p)
  <2>1. Mine(p) = {} /\ plan[p] = {} /\ named[p] = Nobody
        /\ \A l \in Lock : holder[l] = Nobody /\ sidecar[l] = Nobody /\ body[l] = Nobody
    BY <1>1 DEF Mine
  <2>2. kind[p] \in Command /\ todo[p] = Program(kind[p])
    BY Zenon, <1>1
  <2>3. Sound(todo[p], {}, Recorder(p), {}, kind[p])
    BY Zenon, <2>2, ProgramSound
  <2>4. Underway(p)
    BY <2>1, <2>3 DEF Underway
  <2>5. Recorded(p)
    BY <1>1, <2>1 DEF Recorded
  <2>6. Told(p)
    BY Zenon, <2>1 DEF Told
  <2>7. ~Doing(p, "work")
    <3> SUFFICES ASSUME Doing(p, "work") PROVE FALSE
      OBVIOUS
    <3>1. todo[p] \in Seq(Step) /\ todo[p] # <<>> /\ Guarded(todo[p], {}, {}, kind[p])
      BY <2>3 DEF Sound, Doing
    <3>2. 1 \in DOMAIN todo[p] /\ todo[p][1].do = "work"
          /\ \A j \in DOMAIN todo[p] : ~(j < 1)
      BY <3>1, TailIs DEF Doing
    <3>3. Secure(todo[p], {}, 1, LockOf(todo[p][1].on))
      BY <3>1, <3>2 DEF Guarded
    <3> QED BY <3>2, <3>3 DEF Secure
  <2> QED BY <2>4, <2>5, <2>6, <2>7 DEF Standing
<1>3. DOMAIN todo = Process
  BY <1>1
<1>4. TypeOK
  <2>1. ASSUME NEW p \in Process, NEW i \in DOMAIN todo[p]
        PROVE  todo[p][i].on \in Lock \cup Tree
    <3>1. todo[p] \in Seq(Step)
      BY <1>2 DEF Underway, Sound
    <3>2. todo[p][i] \in Step
      BY <3>1
    <3> QED BY <3>2, StepIs
  <2>2. /\ plan \in [Process -> SUBSET Tree]
        /\ {holder, body, sidecar} \subseteq [Lock -> Process \cup {Nobody}]
        /\ exists \subseteq Lock /\ recorder \subseteq Process \X Lock
        /\ trees \subseteq Tree /\ crashed \subseteq Process
        /\ named \in [Process -> Process \cup {Nobody}]
        /\ witnessed \in [Process -> SUBSET Process]
    BY <1>1
  <2> QED BY Zenon, <1>1, <2>1, <2>2 DEF TypeOK
<1> QED BY Zenon, <1>2, <1>3, <1>4 DEF WorkspaceInv

LEMMA StepHolds ==
  ASSUME WorkspaceAssumption, WorkspaceInv, [Next]_workspaceVars
  PROVE  WorkspaceInv'
<1>1. CASE UNCHANGED workspaceVars
  <2>1. /\ kind' = kind /\ todo' = todo /\ plan' = plan /\ holder' = holder
        /\ exists' = exists /\ recorder' = recorder /\ body' = body
        /\ sidecar' = sidecar /\ trees' = trees /\ named' = named
        /\ witnessed' = witnessed /\ crashed' = crashed
    BY <1>1 DEF workspaceVars, lockVars, toldVars
  <2>2. TypeOK'
    BY Zenon, <2>1 DEF WorkspaceInv, TypeOK
  <2>3. ASSUME NEW p \in Process
        PROVE  Underway(p)' /\ Recorded(p)' /\ Told(p)' /\ Standing(p)'
    <3>1. Underway(p) /\ Recorded(p) /\ Told(p) /\ Standing(p)
      BY Zenon DEF WorkspaceInv
    <3>2. Underway(p)'
      BY Zenon, <2>1, <3>1 DEF Underway, Mine, Recorder
    <3>3. Recorded(p)'
      BY Zenon, <2>1, <3>1 DEF Recorded, Mine, Recorder
    <3>4. Told(p)'
      BY Zenon, <2>1, <3>1 DEF Told, Asking, Doing, On
    <3>5. Standing(p)'
      BY Zenon, <2>1, <3>1 DEF Standing, Doing, On
    <3> QED BY <3>2, <3>3, <3>4, <3>5
  <2> QED BY Zenon, <2>1, <2>2, <2>3 DEF WorkspaceInv
<1>2. CASE Next
  <2>1. PICK p \in Process :
          \/ TryLock(p) \/ Ask(p) \/ WriteRecord(p) \/ RecordFails(p)
          \/ ClearRecord(p) \/ Unlock(p)
          \/ MakePlan(p) \/ RemovePlanned(p) \/ Run(p) \/ Kill(p)
    BY Zenon, <1>2 DEF Next
  <2>2. CASE TryLock(p)
    BY Zenon, <2>2, TryLockKeeps
  <2>3. CASE Ask(p)
    BY Zenon, <2>3, AskKeeps
  <2>4. CASE WriteRecord(p)
    BY Zenon, <2>4, WriteRecordKeeps
  <2>5. CASE RecordFails(p)
    BY Zenon, <2>5, RecordFailsKeeps
  <2>6. CASE ClearRecord(p)
    BY Zenon, <2>6, ClearRecordKeeps
  <2>7. CASE Unlock(p)
    BY Zenon, <2>7, UnlockKeeps
  <2>8. CASE MakePlan(p)
    BY Zenon, <2>8, MakePlanKeeps
  <2>9. CASE RemovePlanned(p)
    BY Zenon, <2>9, RemovePlannedKeeps
  <2>10. CASE Run(p)
    BY Zenon, <2>10, RunKeeps
  <2>11. CASE Kill(p)
    BY Zenon, <2>11, KillKeeps
  <2> QED
    BY Zenon, <2>1, <2>2, <2>3, <2>4, <2>5, <2>6, <2>7, <2>8, <2>9, <2>10, <2>11
<1> QED BY <1>1, <1>2

LEMMA Implied ==
  ASSUME WorkspaceInv
  PROVE  TypeOK /\ NamedHeld /\ TreeKept
<1>1. NamedHeld
  BY Zenon DEF WorkspaceInv, Told, NamedHeld
<1>2. TreeKept
  BY Zenon DEF WorkspaceInv, Standing, TreeKept
<1> QED BY Zenon, <1>1, <1>2 DEF WorkspaceInv

\* The strengthening is inductive: what is left of every process is sound for
\* the locks, the records and the plan it has, and the records and the answers
\* given are accounted for.
THEOREM WorkspaceHolds ==
  ASSUME WorkspaceAssumption
  PROVE  Spec => []WorkspaceInv
<1>1. Init => WorkspaceInv
  BY InitHolds
<1>2. WorkspaceInv /\ [Next]_workspaceVars => WorkspaceInv'
  BY StepHolds
<1> QED BY <1>1, <1>2, PTL DEF Spec

\* A conflict names nobody, or a process that held the lock while the newcomer
\* was turned away, or one that ended without clearing its record (lock.rs:23).
THEOREM ConflictsNameHolders ==
  ASSUME WorkspaceAssumption
  PROVE  Spec => []NamedHeld
<1>1. WorkspaceInv => NamedHeld
  BY Implied
<1> QED BY <1>1, WorkspaceHolds, PTL

\* No command but `dev --clean` removes a tree another one is working in
\* (clean.rs:15).
THEOREM WorkedTreesStay ==
  ASSUME WorkspaceAssumption
  PROVE  Spec => []TreeKept
<1>1. WorkspaceInv => TreeKept
  BY Implied
<1> QED BY <1>1, WorkspaceHolds, PTL
=============================================================================
