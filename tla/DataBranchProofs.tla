--------------------------- MODULE DataBranchProofs ---------------------------
(***************************************************************************)
(* Theorems about DataBranch, for any number of machines, runs and push    *)
(* attempts, and whatever is lost, rejected or killed: a run is the same   *)
(* commit wherever it is, last-good only advances along published history, *)
(* and every run's work is kept and committed once.  Inv is inductive.     *)
(***************************************************************************)
EXTENDS DataBranch, SequenceTheorems, WellFoundedInduction, TLAPS

LEMMA PrefixPointwise ==
  ASSUME NEW S, NEW s \in Seq(S), NEW t \in Seq(S)
  PROVE  IsPrefix(s, t) <=> /\ Len(s) <= Len(t)
                            /\ \A i \in 1..Len(s) : s[i] = t[i]
<1>1. Len(s) \in Nat /\ Len(t) \in Nat
  BY LenProperties
<1>2. SubSeq(s, 1, Len(s)) = s
  BY SubSeqFull
<1>3. ASSUME Len(s) <= Len(t)
      PROVE  /\ SubSeq(t, 1, Len(s)) \in Seq(S)
             /\ Len(SubSeq(t, 1, Len(s))) = Len(s)
             /\ \A i \in 1..Len(s) : SubSeq(t, 1, Len(s))[i] = t[i]
  <2>1. \A i \in 1..Len(s) : t[i] \in S
    BY <1>1, <1>3, ElementOfSeq
  <2> QED BY <1>1, <2>1, SubSeqProperties
<1>4. ASSUME Len(s) <= Len(t), \A i \in 1..Len(s) : s[i] = t[i]
      PROVE  s = SubSeq(t, 1, Len(s))
  BY <1>3, <1>4, SeqEqual
<1> QED BY <1>2, <1>3, <1>4 DEF IsPrefix

LEMMA PrefixReflexive == ASSUME NEW S, NEW s \in Seq(S) PROVE IsPrefix(s, s)
BY PrefixPointwise, LenProperties

LEMMA PrefixTransitive ==
  ASSUME NEW S, NEW s \in Seq(S), NEW t \in Seq(S), NEW u \in Seq(S),
         IsPrefix(s, t), IsPrefix(t, u)
  PROVE  IsPrefix(s, u)
<1>1. Len(s) \in Nat /\ Len(t) \in Nat /\ Len(u) \in Nat
  BY LenProperties
<1>2. Len(s) <= Len(t) /\ \A i \in 1..Len(s) : s[i] = t[i]
  BY PrefixPointwise
<1>3. Len(t) <= Len(u) /\ \A i \in 1..Len(t) : t[i] = u[i]
  BY PrefixPointwise
<1>4. Len(s) <= Len(u) /\ \A i \in 1..Len(s) : s[i] = u[i]
  BY <1>1, <1>2, <1>3
<1> QED BY <1>4, PrefixPointwise

LEMMA LeastNatural ==
  ASSUME NEW T, T \subseteq Nat, T # {}
  PROVE  \E n \in T : \A k \in T : n <= k
<1> DEFINE R == OpToRel(<, Nat)
<1>1. IsWellFoundedOn(R, Nat)
  BY NatLessThanWellFounded
<1>2. \A n, k \in Nat : <<k, n>> \in R <=> k < n
  BY DEF OpToRel
<1> HIDE DEF R
<1>3. PICK n \in T : \A k \in T : <<k, n>> \notin R
  BY <1>1, WFMin
<1>4. ASSUME NEW k \in T PROVE n <= k
  <2>1. n \in Nat /\ k \in Nat /\ ~(k < n)
    BY <1>2, <1>3
  <2> QED BY <2>1
<1> QED BY <1>4

\* What SequencesExt chooses is there: a common prefix of two branches that is
\* as long as what they agree on.
LEMMA LongestCommonPrefixes ==
  ASSUME NEW S, NEW s \in Seq(S), NEW t \in Seq(S),
         NEW base, base = LongestCommonPrefix({s, t})
  PROVE  /\ base \in Seq(S) /\ IsPrefix(base, s) /\ IsPrefix(base, t)
         /\ \A n \in Nat :
              /\ n <= Len(s) /\ n <= Len(t)
              /\ \A i \in 1..n : s[i] = t[i]
              => n <= Len(base)
<1> DEFINE C == CommonPrefixes({s, t})
<1>1. Len(s) \in Nat /\ Len(t) \in Nat
  BY LenProperties
<1>2. ASSUME NEW u \in {s, t}, NEW n \in 0..Len(u)
      PROVE  /\ SubSeq(u, 1, n) \in Seq(S) /\ Len(SubSeq(u, 1, n)) = n
             /\ \A i \in 1..n : SubSeq(u, 1, n)[i] = u[i]
  <2>1. \A i \in 1..n : u[i] \in S
    BY <1>1, ElementOfSeq
  <2>2. n \in Int /\ 1 \in Int
    BY <1>1
  <2> HIDE <1>2
  <2>3. /\ SubSeq(u, 1, n) \in Seq(S)
        /\ Len(SubSeq(u, 1, n)) = IF 1 <= n THEN n - 1 + 1 ELSE 0
        /\ \A i \in 1..n - 1 + 1 : SubSeq(u, 1, n)[i] = u[1 + i - 1]
    BY <2>1, <2>2, SubSeqProperties
  <2> QED BY <1>1, <2>3
<1>3. \A c \in C : c \in Seq(S) /\ IsPrefix(c, s) /\ IsPrefix(c, t)
  BY <1>2 DEF CommonPrefixes, Prefixes
<1>4. ASSUME NEW n \in Nat, n <= Len(s), n <= Len(t),
             \A i \in 1..n : s[i] = t[i]
      PROVE  \E c \in C : Len(c) = n
  <2> DEFINE c == SubSeq(s, 1, n)
  <2>1. n \in 0..Len(s)
    BY <1>1, <1>4
  <2>2. c \in Seq(S) /\ Len(c) = n /\ \A i \in 1..n : c[i] = s[i]
    BY <1>2, <2>1
  <2>3. IsPrefix(c, s) /\ IsPrefix(c, t)
    BY <1>4, <2>2, PrefixPointwise
  <2>4. c \in Prefixes(s)
    BY <2>1 DEF Prefixes
  <2>5. c \in C
    BY <2>3, <2>4 DEF CommonPrefixes
  <2> QED BY <2>2, <2>5
<1>5. \A c \in C : Len(c) \in Nat /\ Len(c) <= Len(s)
  BY <1>1, <1>3, LenProperties, PrefixPointwise
<1>6. \E longest \in C : \A other \in C : Len(other) <= Len(longest)
  <2> DEFINE Short == {n \in Nat : \E c \in C : n = Len(s) - Len(c)}
  <2>1. \E c \in C : Len(c) = 0
    <3>1. 0 \in Nat /\ 0 <= Len(s) /\ 0 <= Len(t) /\ \A i \in 1..0 : s[i] = t[i]
      BY <1>1
    <3> QED BY <1>4, <3>1
  <2> HIDE DEF C
  <2>2. Short # {}
    BY <1>1, <2>1
  <2>3. PICK n \in Short : \A k \in Short : n <= k
    BY <2>2, LeastNatural
  <2>4. PICK c \in C : n = Len(s) - Len(c)
    BY <2>3
  <2>5. \A d \in C : Len(s) - Len(d) \in Short
    BY <1>1, <1>5
  <2>6. ASSUME NEW d \in C PROVE Len(d) <= Len(c)
    <3>1. n <= Len(s) - Len(d)
      BY <2>3, <2>5
    <3>2. Len(c) \in Nat /\ Len(d) \in Nat
      BY <1>5
    <3> QED BY <1>1, <2>4, <3>1, <3>2
  <2> QED BY <2>6
<1>7. base \in C /\ \A other \in C : Len(other) <= Len(base)
  BY <1>6 DEF LongestCommonPrefix
<1> QED BY <1>3, <1>4, <1>7

-----------------------------------------------------------------------------

\* What a rebase leaves: the branch it went onto, then the clone's commits from
\* where the two part, at place `n`.
RebasedAt(m, onto, n) ==
  LET s == head[m]
      r == Rebased(m, onto)
  IN  /\ n \in Nat /\ n <= Len(s) /\ n <= Len(onto)
      /\ \A i \in 1..n : s[i] = onto[i]
      /\ \A k \in Nat : k <= Len(s) /\ k <= Len(onto)
                        /\ (\A i \in 1..k : s[i] = onto[i]) => k <= n
      /\ r \in Seq(Commit) /\ Len(r) = Len(onto) + Len(s) - n
      /\ \A i \in 1..Len(onto) : r[i] = onto[i]
      /\ \A k \in n + 1..Len(s) : r[Len(onto) + k - n] = s[k]

LEMMA RebaseKeeps ==
  ASSUME NEW m \in Machine, NEW onto \in Seq(Commit), head[m] \in Seq(Commit)
  PROVE  \E n \in Nat : RebasedAt(m, onto, n)
<1> DEFINE s == head[m]
           base == LongestCommonPrefix({s, onto})
           n == Len(base)
           rest == SubSeq(s, n + 1, Len(s))
<1>1. s \in Seq(Commit) /\ Len(s) \in Nat /\ Len(onto) \in Nat
  BY LenProperties
<1>2. Rebased(m, onto) = onto \o rest
  BY DEF Rebased, Unpublished
<1>3. base = LongestCommonPrefix({s, onto})
  OBVIOUS
<1> HIDE DEF base, s
<1>4. /\ base \in Seq(Commit) /\ IsPrefix(base, s) /\ IsPrefix(base, onto)
      /\ \A k \in Nat : k <= Len(s) /\ k <= Len(onto)
                        /\ (\A i \in 1..k : s[i] = onto[i]) => k <= n
  BY <1>1, <1>3, LongestCommonPrefixes
<1>5. n \in Nat
  BY <1>4, LenProperties
<1>6. /\ n <= Len(s) /\ n <= Len(onto)
      /\ \A i \in 1..n : s[i] = onto[i]
  <2>1. n <= Len(s) /\ \A i \in 1..n : base[i] = s[i]
    BY <1>1, <1>4, PrefixPointwise
  <2>2. n <= Len(onto) /\ \A i \in 1..n : base[i] = onto[i]
    BY <1>4, PrefixPointwise
  <2> QED BY <2>1, <2>2
<1>7. /\ rest \in Seq(Commit) /\ Len(rest) = Len(s) - n
      /\ \A i \in 1..Len(s) - n : rest[i] = s[n + i]
  <2>1. n + 1 \in Int /\ Len(s) \in Int
    BY <1>1, <1>5
  <2>2. \A k \in n + 1..Len(s) : s[k] \in Commit
    BY <1>1, <1>5, ElementOfSeq
  <2> HIDE DEF n
  <2>3. /\ rest \in Seq(Commit)
        /\ Len(rest) = IF n + 1 <= Len(s) THEN Len(s) - (n + 1) + 1 ELSE 0
        /\ \A i \in 1..Len(s) - (n + 1) + 1 : rest[i] = s[n + 1 + i - 1]
    BY <2>1, <2>2, SubSeqProperties
  <2> QED BY <1>1, <1>5, <1>6, <2>3
<1> HIDE DEF n, rest
<1>8. /\ onto \o rest \in Seq(Commit) /\ Len(onto \o rest) = Len(onto) + Len(rest)
      /\ \A i \in 1..Len(onto) + Len(rest) :
           (onto \o rest)[i] = IF i <= Len(onto) THEN onto[i] ELSE rest[i - Len(onto)]
  BY <1>7, ConcatProperties
<1>9. /\ \A i \in 1..Len(onto) : (onto \o rest)[i] = onto[i]
      /\ \A k \in n + 1..Len(s) : (onto \o rest)[Len(onto) + k - n] = s[k]
  BY <1>1, <1>5, <1>6, <1>7, <1>8
<1> QED BY <1>1, <1>2, <1>4, <1>5, <1>6, <1>7, <1>8, <1>9 DEF RebasedAt, s

LEMMA RebasedFollows ==
  ASSUME NEW m \in Machine, NEW onto \in Seq(Commit), head[m] \in Seq(Commit)
  PROVE  /\ Rebased(m, onto) \in Seq(Commit)
         /\ IsPrefix(onto, Rebased(m, onto))
         /\ IsPrefix(onto, head[m]) => Rebased(m, onto) = head[m]
<1> DEFINE s == head[m]
           r == Rebased(m, onto)
<1>1. PICK n \in Nat : RebasedAt(m, onto, n)
  BY RebaseKeeps
<1>2. Len(s) \in Nat /\ Len(onto) \in Nat
  BY LenProperties
<1>3. r \in Seq(Commit) /\ IsPrefix(onto, r)
  BY <1>1, <1>2, PrefixPointwise DEF RebasedAt
<1>4. ASSUME IsPrefix(onto, s) PROVE r = s
  <2>1. Len(onto) <= Len(s) /\ \A i \in 1..Len(onto) : onto[i] = s[i]
    BY <1>4, PrefixPointwise
  <2>2. n = Len(onto) /\ Len(r) = Len(s)
    BY <1>1, <1>2, <2>1 DEF RebasedAt
  <2>3. ASSUME NEW i \in 1..Len(s) PROVE r[i] = s[i]
    <3>1. CASE i <= Len(onto)
      BY <1>1, <1>2, <2>1, <3>1 DEF RebasedAt
    <3>2. CASE i > Len(onto)
      <4>1. i \in n + 1..Len(s) /\ Len(onto) + i - n = i
        BY <1>2, <2>2, <3>2
      <4> QED BY <1>1, <4>1 DEF RebasedAt
    <3> QED BY <1>2, <3>1, <3>2
  <2> QED BY <1>3, <2>2, <2>3, SeqEqual
<1> QED BY <1>3, <1>4

LEMMA RebasedAdds ==
  ASSUME NEW m \in Machine, NEW onto \in Seq(Commit), head[m] \in Seq(Commit)
  PROVE  Added(Rebased(m, onto)) = Added(onto) \cup Added(head[m])
<1> DEFINE s == head[m]
           r == Rebased(m, onto)
<1>1. PICK n \in Nat : RebasedAt(m, onto, n)
  BY RebaseKeeps
<1>2. Len(s) \in Nat /\ Len(onto) \in Nat /\ DOMAIN s = 1..Len(s)
      /\ DOMAIN onto = 1..Len(onto) /\ r \in Seq(Commit)
  BY <1>1, LenProperties DEF RebasedAt
<1>3. DOMAIN r = 1..Len(onto) + Len(s) - n
  BY <1>1, <1>2, LenProperties DEF RebasedAt
<1>4. ASSUME NEW i \in DOMAIN r
      PROVE  \/ i \in DOMAIN onto /\ r[i] = onto[i]
             \/ \E k \in DOMAIN s : r[i] = s[k]
  <2>1. CASE i <= Len(onto)
    BY <1>1, <1>2, <1>3, <2>1 DEF RebasedAt
  <2>2. CASE i > Len(onto)
    <3>1. /\ i - Len(onto) + n \in n + 1..Len(s)
          /\ Len(onto) + (i - Len(onto) + n) - n = i
      BY <1>1, <1>2, <1>3, <2>2 DEF RebasedAt
    <3>2. r[i] = s[i - Len(onto) + n]
      BY <1>1, <3>1 DEF RebasedAt
    <3> QED BY <1>2, <3>1, <3>2
  <2> QED BY <1>2, <1>3, <2>1, <2>2
<1>5. ASSUME NEW i \in DOMAIN onto PROVE i \in DOMAIN r /\ r[i] = onto[i]
  BY <1>1, <1>2, <1>3 DEF RebasedAt
<1>6. ASSUME NEW k \in DOMAIN s PROVE \E i \in DOMAIN r : r[i] = s[k]
  <2>1. CASE k <= n
    <3>1. k \in DOMAIN onto /\ s[k] = onto[k]
      BY <1>1, <1>2, <2>1 DEF RebasedAt
    <3> QED BY <1>5, <3>1
  <2>2. CASE k > n
    <3>1. /\ k \in n + 1..Len(s) /\ Len(onto) + k - n \in DOMAIN r
      BY <1>1, <1>2, <1>3, <2>2 DEF RebasedAt
    <3> QED BY <1>1, <3>1 DEF RebasedAt
  <2> QED BY <1>2, <2>1, <2>2
<1> QED BY <1>4, <1>5, <1>6 DEF Added

-----------------------------------------------------------------------------

\* The retry limit is met by the guards before an attempt is counted, and a
\* run has a number while its sources are fetched.
Counted ==
  \A m \in Machine :
    /\ pc[m] \in {"refetching", "rebasing", "comparing"} => attempt[m] < PushAttempts
    /\ pc[m] = "fetching" => run[m] # 0

Sized == TypeOK /\ Counted

LEMMA SizedInit == Init => Sized
<1> SUFFICES ASSUME Init PROVE Sized
  OBVIOUS
<1>1. <<>> \in Seq(Commit)
  BY EmptySeq
<1> QED BY <1>1, ConstantsAssumption DEF Init, Sized, TypeOK, Counted, Steps, Health,
     Worktrees

LEMMA MoveTyped ==
  ASSUME TypeOK, NEW m \in Machine, NEW tip \in Seq(Commit), Move(m, tip)
  PROVE  local' \in [Machine -> Seq(Commit)] /\ head' \in [Machine -> Seq(Commit)]
BY DEF Move, TypeOK

LEMMA StatusTyped ==
  ASSUME TypeOK, NEW m \in Machine, NEW tip \in Seq(Commit), Rebase(m, tip)
  PROVE  /\ local' \in [Machine -> Seq(Commit)] /\ head' \in [Machine -> Seq(Commit)]
         /\ status' \in [Machine -> Health]
<1>1. head[m] \in Seq(Commit)
  BY DEF TypeOK
<1>2. Rebased(m, tip) \in Seq(Commit)
  BY <1>1, RebasedFollows
<1>3. \A branch : StatusOf(branch) \in Health
  BY DEF StatusOf, Health
<1>4. Move(m, Rebased(m, tip))
  BY DEF Rebase
<1> QED BY <1>2, <1>3, <1>4, MoveTyped DEF Rebase, TypeOK

\* Where a rebase that was killed leaves HEAD.
LEMMA MidwayTyped ==
  ASSUME TypeOK, NEW m \in Machine, NEW onto \in Seq(Commit), LeaveMidway(m, onto)
  PROVE  /\ head' \in [Machine -> Seq(Commit)]
         /\ worktree' \in [Machine -> Worktrees]
<1> DEFINE s == head[m]
           n == Len(LongestCommonPrefix({s, onto}))
           u == Unpublished(m, onto)
<1>1. s \in Seq(Commit) /\ head \in [Machine -> Seq(Commit)]
  BY DEF TypeOK
<1>2. PICK base : base = LongestCommonPrefix({s, onto})
  OBVIOUS
<1>3. base \in Seq(Commit) /\ Len(base) \in Nat
  BY <1>1, <1>2, LongestCommonPrefixes, LenProperties
<1>4. u = SubSeq(s, Len(base) + 1, Len(s))
  BY <1>2 DEF Unpublished
<1>5. \A i \in 1..Len(s) : s[i] \in Commit
  BY <1>1, ElementOfSeq
<1>6. Len(s) \in Nat
  BY <1>1, LenProperties
<1> HIDE DEF u, s
<1>7. u \in Seq(Commit)
  <2>1. Len(base) + 1 \in Int /\ Len(s) \in Int
        /\ \A i \in Len(base) + 1..Len(s) : s[i] \in Commit
    BY <1>3, <1>5, <1>6
  <2> QED BY <1>4, <2>1, SubSeqProperties
<1>8. ASSUME NEW k \in 0..Len(u) PROVE onto \o SubSeq(u, 1, k) \in Seq(Commit)
  <2>1. Len(u) \in Nat /\ \A i \in 1..Len(u) : u[i] \in Commit
    BY <1>7, LenProperties, ElementOfSeq
  <2>2. 1 \in Int /\ k \in Int /\ \A i \in 1..k : u[i] \in Commit
    BY <2>1
  <2>3. SubSeq(u, 1, k) \in Seq(Commit)
    BY <2>2, SubSeqProperties
  <2> QED BY <2>3, ConcatProperties
<1>9. PICK k \in 0..Len(u) : head' = [head EXCEPT ![m] = onto \o SubSeq(u, 1, k)]
  BY DEF LeaveMidway, u
<1>10. head' \in [Machine -> Seq(Commit)]
  BY <1>1, <1>8, <1>9
<1> QED BY <1>10 DEF LeaveMidway, TypeOK, Worktrees

\* A sync that goes on to another step, with the attempts it counts there.
LEMMA MovedTo ==
  ASSUME Sized, NEW m \in Machine, NEW step \in Steps, Go(m, step),
         NEW n \in 0..PushAttempts, attempt' = [attempt EXCEPT ![m] = n],
         step \in {"refetching", "rebasing", "comparing"} => n < PushAttempts,
         NEW r, run' = [run EXCEPT ![m] = r], step = "fetching" => r # 0
  PROVE  /\ pc' \in [Machine -> Steps] /\ attempt' \in [Machine -> 0..PushAttempts]
         /\ Counted'
<1>1. /\ pc' = [pc EXCEPT ![m] = step] /\ pc \in [Machine -> Steps]
      /\ attempt \in [Machine -> 0..PushAttempts]
      /\ run \in [Machine -> 0..MaxRuns]
  BY DEF Go, Sized, TypeOK
<1>2. ASSUME NEW k \in Machine
      PROVE  /\ pc'[k] \in {"refetching", "rebasing", "comparing"}
                   => attempt'[k] < PushAttempts
             /\ pc'[k] = "fetching" => run'[k] # 0
  <2>1. CASE k = m
    BY <1>1, <2>1
  <2>2. CASE k # m
    BY <1>1, <2>2 DEF Sized, Counted
  <2> QED BY <2>1, <2>2
<1> QED BY <1>1, <1>2 DEF Counted

LEMMA MovedOn ==
  ASSUME Sized, NEW m \in Machine, NEW step \in Steps, Go(m, step),
         attempt' = attempt, run' = run, step # "fetching",
         step \in {"refetching", "rebasing", "comparing"} => attempt[m] < PushAttempts
  PROVE  /\ pc' \in [Machine -> Steps] /\ attempt' \in [Machine -> 0..PushAttempts]
         /\ Counted'
<1>1. /\ attempt' = [attempt EXCEPT ![m] = attempt[m]] /\ attempt[m] \in 0..PushAttempts
      /\ run' = [run EXCEPT ![m] = run[m]]
  BY DEF Sized, TypeOK
<1> QED BY <1>1, MovedTo

LEMMA LeftTyped ==
  ASSUME Sized, NEW m \in Machine, Leave(m)
  PROVE  /\ pc' \in [Machine -> Steps] /\ attempt' \in [Machine -> 0..PushAttempts]
         /\ run' \in [Machine -> 0..MaxRuns] /\ errors' \in [Machine -> BOOLEAN]
         /\ target' \in [Machine -> Seq(Commit)]
         /\ Counted'
<1>1. <<>> \in Seq(Commit) /\ 0 \in 0..PushAttempts /\ 0 \in 0..MaxRuns
      /\ "idle" \in Steps
  BY EmptySeq, ConstantsAssumption DEF Steps
<1>2. /\ Go(m, "idle") /\ attempt' = [attempt EXCEPT ![m] = 0]
      /\ run' = [run EXCEPT ![m] = 0]
      /\ errors' = [errors EXCEPT ![m] = FALSE]
      /\ target' = [target EXCEPT ![m] = <<>>]
  BY DEF Leave
<1>3. pc' \in [Machine -> Steps] /\ attempt' \in [Machine -> 0..PushAttempts] /\ Counted'
  BY <1>1, <1>2, MovedTo
<1> QED BY <1>1, <1>2, <1>3 DEF Sized, TypeOK

LEMMA SizedStep == ASSUME Sized, [Next]_vars PROVE Sized'
<1> USE DEF Sized, remoteVars, cloneVars, treeVars, syncVars
<1>1. CASE UNCHANGED vars
  BY <1>1 DEF vars, TypeOK, Counted
<1>2. ASSUME NEW m \in Machine, EnsureWorktree(m) PROVE Sized'
  <2>1. PICK tip \in {origin, tracking[m]} :
          /\ tracking' = [tracking EXCEPT ![m] = tip]
          /\ \/ /\ Enter(m, tip)
                /\ Go(m, "fetching")
                /\ runs' = runs + 1
                /\ run' = [run EXCEPT ![m] = runs + 1]
             \/ UNCHANGED <<local, worktree, head, status, pc, runs, run>>
             \/ LeaveMidway(m, tip) /\ UNCHANGED <<local, status, pc, runs, run>>
    BY <1>2 DEF EnsureWorktree
  <2>2. tip \in Seq(Commit)
    BY DEF TypeOK
  <2>3. /\ UNCHANGED <<origin, originGood, good, dirty, errors, attempt, target>>
        /\ runs < MaxRuns
    BY <1>2 DEF EnsureWorktree
  <2>4. tracking' \in [Machine -> Seq(Commit)]
    BY <2>1, <2>2 DEF TypeOK
  <2>5. CASE /\ Enter(m, tip) /\ Go(m, "fetching")
             /\ runs' = runs + 1 /\ run' = [run EXCEPT ![m] = runs + 1]
    <3>1. /\ local' \in [Machine -> Seq(Commit)] /\ head' \in [Machine -> Seq(Commit)]
          /\ status' \in [Machine -> Health]
      BY <2>2, <2>5, StatusTyped DEF Enter
    <3>2. worktree' \in [Machine -> Worktrees]
      BY <2>5 DEF Enter, TypeOK, Worktrees
    <3>3. /\ run' \in [Machine -> 0..MaxRuns] /\ runs' \in 0..MaxRuns
          /\ runs + 1 # 0
      BY <2>3, <2>5, ConstantsAssumption DEF TypeOK
    <3>4. attempt' = [attempt EXCEPT ![m] = attempt[m]] /\ attempt[m] \in 0..PushAttempts
      BY <2>3 DEF TypeOK
    <3>5. /\ pc' \in [Machine -> Steps] /\ attempt' \in [Machine -> 0..PushAttempts]
          /\ Counted'
      BY <2>5, <3>3, <3>4, MovedTo DEF Steps
    <3> QED BY <2>3, <2>4, <3>1, <3>2, <3>3, <3>5 DEF TypeOK
  <2>6. CASE UNCHANGED <<local, worktree, head, status, pc, runs, run>>
    BY <2>3, <2>4, <2>6 DEF TypeOK, Counted
  <2>7. CASE LeaveMidway(m, tip) /\ UNCHANGED <<local, status, pc, runs, run>>
    <3>1. head' \in [Machine -> Seq(Commit)] /\ worktree' \in [Machine -> Worktrees]
      BY <2>2, <2>7, MidwayTyped
    <3> QED BY <2>3, <2>4, <2>7, <3>1 DEF TypeOK, Counted
  <2> QED BY <2>1, <2>5, <2>6, <2>7
<1>3. ASSUME NEW m \in Machine, RunSources(m) PROVE Sized'
  <2>1. PICK new \in {{}, {run[m]}}, failed \in BOOLEAN :
          /\ dirty' = [dirty EXCEPT ![m] = @ \cup new]
          /\ errors' = [errors EXCEPT ![m] = failed]
          /\ status' = [status EXCEPT ![m] = IF failed THEN "failing" ELSE "ok"]
    BY <1>3 DEF RunSources
  <2>2. /\ pc[m] = "fetching" /\ Go(m, "committing")
        /\ UNCHANGED <<remoteVars, cloneVars, worktree, head, run, attempt, target, runs>>
    BY <1>3 DEF RunSources
  <2>3. new \subseteq 1..MaxRuns
    BY <2>2, ConstantsAssumption DEF TypeOK, Counted
  <2>4. /\ dirty' \in [Machine -> SUBSET (1..MaxRuns)]
        /\ errors' \in [Machine -> BOOLEAN] /\ status' \in [Machine -> Health]
    BY <2>1, <2>3 DEF TypeOK, Health
  <2>5. /\ pc' \in [Machine -> Steps] /\ attempt' \in [Machine -> 0..PushAttempts]
        /\ Counted'
    BY <2>2, MovedOn DEF Steps
  <2> QED BY <2>2, <2>4, <2>5 DEF TypeOK
<1>4. ASSUME NEW m \in Machine, Leave(m), UNCHANGED treeVars, UNCHANGED runs,
             UNCHANGED local, tracking' \in [Machine -> Seq(Commit)],
             good' \in [Machine -> Seq(Commit)],
             origin' \in Seq(Commit), originGood' \in Seq(Commit)
      PROVE  Sized'
  BY <1>4, LeftTyped DEF TypeOK
<1>5. ASSUME NEW m \in Machine, FetchOnly(m) \/ Stop(m) \/ SyncFails(m)
      PROVE  Sized'
  BY <1>4, <1>5 DEF FetchOnly, Stop, SyncFails, TypeOK
<1>6. ASSUME NEW m \in Machine, CommitWorktree(m) PROVE Sized'
  <2>1. [adds |-> dirty[m], status |-> IF status[m] = StatusOf(head[m])
                                      THEN "same" ELSE status[m]] \in Commit
    BY DEF Commit, TypeOK
  <2>2. PICK c \in Commit : IF Staged(m) THEN Move(m, Append(head[m], c))
                            ELSE UNCHANGED <<local, head>>
    BY <1>6, <2>1 DEF CommitWorktree
  <2>3. head[m] \in Seq(Commit) /\ Append(head[m], c) \in Seq(Commit)
    BY AppendProperties DEF TypeOK
  <2>4. local' \in [Machine -> Seq(Commit)] /\ head' \in [Machine -> Seq(Commit)]
    BY <2>2, <2>3, MoveTyped DEF TypeOK
  <2>5. dirty' \in [Machine -> SUBSET (1..MaxRuns)]
    BY <1>6 DEF CommitWorktree, TypeOK
  <2>6. /\ attempt' = [attempt EXCEPT ![m] = 1] /\ 1 \in 0..PushAttempts
        /\ run' = [run EXCEPT ![m] = run[m]] /\ Go(m, "pushing")
        /\ UNCHANGED <<remoteVars, good, tracking, worktree, status, run, errors, target, runs>>
    BY <1>6, ConstantsAssumption DEF CommitWorktree, TypeOK
  <2>7. /\ pc' \in [Machine -> Steps] /\ attempt' \in [Machine -> 0..PushAttempts]
        /\ Counted'
    BY <2>6, MovedTo DEF Steps
  <2> QED BY <2>4, <2>5, <2>6, <2>7 DEF TypeOK
<1>7. ASSUME NEW m \in Machine, Push(m) PROVE Sized'
  <2>1. /\ UNCHANGED <<originGood, local, good, treeVars, runs>>
        /\ origin' \in Seq(Commit) /\ tracking' \in [Machine -> Seq(Commit)]
        /\ Leave(m) \/ Proceed(m, "pointing")
    BY <1>7 DEF Push, TypeOK
  <2>2. CASE Leave(m)
    BY <1>4, <2>1, <2>2 DEF TypeOK
  <2>3. CASE Proceed(m, "pointing")
    <3>1. /\ pc' \in [Machine -> Steps] /\ attempt' \in [Machine -> 0..PushAttempts]
          /\ Counted'
      BY <2>3, MovedOn DEF Proceed, Steps
    <3> QED BY <2>1, <2>3, <3>1 DEF Proceed, TypeOK
  <2> QED BY <2>1, <2>2, <2>3
<1>8. ASSUME NEW m \in Machine, PushUnconfirmed(m) PROVE Sized'
  BY <1>4, <1>8 DEF PushUnconfirmed, TypeOK
<1>9. ASSUME NEW m \in Machine, NEW step \in Steps, Proceed(m, step),
             step # "fetching", UNCHANGED <<cloneVars, treeVars, runs, origin>>,
             originGood' \in Seq(Commit),
             step \in {"refetching", "rebasing", "comparing"}
               => attempt[m] < PushAttempts
      PROVE  Sized'
  <2>1. /\ pc' \in [Machine -> Steps] /\ attempt' \in [Machine -> 0..PushAttempts]
        /\ Counted'
    BY <1>9, MovedOn DEF Proceed
  <2> QED BY <1>9, <2>1 DEF Proceed, TypeOK
<1>10. ASSUME NEW m \in Machine, ~LastAttempt(m) PROVE attempt[m] < PushAttempts
  BY <1>10, ConstantsAssumption DEF LastAttempt, TypeOK
<1>11. ASSUME NEW m \in Machine, PushRejected(m) PROVE Sized'
  <2>1. CASE LastAttempt(m)
    BY <1>4, <1>11, <2>1 DEF PushRejected, TypeOK
  <2>2. CASE ~LastAttempt(m)
    <3>1. Proceed(m, "refetching") /\ UNCHANGED <<remoteVars, cloneVars, treeVars, runs>>
      BY <1>11, <2>2 DEF PushRejected
    <3> QED BY <1>9, <1>10, <2>2, <3>1 DEF Steps, TypeOK
  <2> QED BY <2>1, <2>2
<1>12. ASSUME NEW m \in Machine, Refetch(m) PROVE Sized'
  <2>1. /\ pc[m] = "refetching" /\ Go(m, "rebasing")
        /\ tracking' = [tracking EXCEPT ![m] = origin]
        /\ UNCHANGED <<remoteVars, local, good, treeVars, syncVars, runs>>
    BY <1>12 DEF Refetch
  <2>2. /\ pc' \in [Machine -> Steps] /\ attempt' \in [Machine -> 0..PushAttempts]
        /\ Counted'
    BY <2>1, MovedOn DEF Steps, Counted
  <2> QED BY <2>1, <2>2 DEF TypeOK
<1>13. ASSUME NEW m \in Machine, RebaseOnRemote(m) PROVE Sized'
  <2>1. /\ pc[m] = "rebasing" /\ Go(m, "pushing") /\ Rebase(m, tracking[m])
        /\ attempt' = [attempt EXCEPT ![m] = attempt[m] + 1]
        /\ UNCHANGED <<remoteVars, good, tracking, worktree, dirty, run, errors, target,
                       runs>>
    BY <1>13 DEF RebaseOnRemote
  <2>2. /\ local' \in [Machine -> Seq(Commit)] /\ head' \in [Machine -> Seq(Commit)]
        /\ status' \in [Machine -> Health]
    BY <2>1, StatusTyped DEF TypeOK
  <2>3. /\ attempt[m] + 1 \in 0..PushAttempts /\ run' = [run EXCEPT ![m] = run[m]]
    BY <2>1, ConstantsAssumption DEF TypeOK, Counted
  <2>4. /\ pc' \in [Machine -> Steps] /\ attempt' \in [Machine -> 0..PushAttempts]
        /\ Counted'
    BY <2>1, <2>3, MovedTo DEF Steps
  <2> QED BY <2>1, <2>2, <2>4 DEF TypeOK
<1>14. ASSUME NEW m \in Machine, PointLastGood(m) PROVE Sized'
  <2>1. CASE IsPrefix(good[m], head[m])
    <3>1. /\ attempt' = [attempt EXCEPT ![m] = 1] /\ 1 \in 0..PushAttempts
          /\ target' = [target EXCEPT ![m] = head[m]]
          /\ Go(m, "publishing") /\ run' = [run EXCEPT ![m] = run[m]]
          /\ UNCHANGED <<run, errors, remoteVars, cloneVars, treeVars, runs>>
      BY <1>14, <2>1, ConstantsAssumption DEF PointLastGood, TypeOK
    <3>2. /\ pc' \in [Machine -> Steps] /\ attempt' \in [Machine -> 0..PushAttempts]
          /\ Counted'
      BY <3>1, MovedTo DEF Steps
    <3> QED BY <3>1, <3>2 DEF TypeOK
  <2>2. CASE ~IsPrefix(good[m], head[m])
    BY <1>4, <1>14, <2>2 DEF PointLastGood, TypeOK
  <2> QED BY <2>1, <2>2
<1>15. ASSUME NEW m \in Machine, PublishPointer(m) PROVE Sized'
  <2>1. UNCHANGED <<origin, cloneVars, treeVars, runs>>
    BY <1>15 DEF PublishPointer
  <2>2. CASE Pointable(m)
    <3>1. originGood' = head[m] /\ Proceed(m, "storing")
      BY <1>15, <2>2 DEF PublishPointer
    <3> QED BY <1>9, <2>1, <3>1 DEF Steps, TypeOK
  <2>3. CASE ~Pointable(m) /\ LastAttempt(m)
    BY <1>4, <1>15, <2>3 DEF PublishPointer, TypeOK
  <2>4. CASE ~Pointable(m) /\ ~LastAttempt(m)
    <3>1. originGood' = originGood /\ Proceed(m, "comparing")
      BY <1>15, <2>4 DEF PublishPointer
    <3> QED BY <1>9, <1>10, <2>1, <2>4, <3>1 DEF Steps, TypeOK
  <2> QED BY <2>2, <2>3, <2>4
<1>16. ASSUME NEW m \in Machine, ComparePointer(m) PROVE Sized'
  <2>1. pc[m] = "comparing" /\ UNCHANGED <<remoteVars, cloneVars, treeVars, runs>>
    BY <1>16 DEF ComparePointer
  <2>2. CASE Leave(m)
    BY <1>4, <2>1, <2>2 DEF TypeOK
  <2>3. CASE /\ attempt' = [attempt EXCEPT ![m] = attempt[m] + 1]
             /\ Go(m, "publishing") /\ UNCHANGED <<run, errors, target>>
    <3>1. attempt[m] + 1 \in 0..PushAttempts /\ run' = [run EXCEPT ![m] = run[m]]
      BY <2>1, <2>3, ConstantsAssumption DEF TypeOK, Counted
    <3>2. /\ pc' \in [Machine -> Steps] /\ attempt' \in [Machine -> 0..PushAttempts]
          /\ Counted'
      BY <2>3, <3>1, MovedTo DEF Steps
    <3> QED BY <2>1, <2>3, <3>2 DEF TypeOK
  <2>4. CASE /\ target' = [target EXCEPT ![m] = originGood]
             /\ Go(m, "storing") /\ UNCHANGED <<run, errors, attempt>>
    <3>1. /\ pc' \in [Machine -> Steps] /\ attempt' \in [Machine -> 0..PushAttempts]
          /\ Counted'
      BY <2>4, MovedOn DEF Steps
    <3> QED BY <2>1, <2>4, <3>1 DEF TypeOK
  <2> QED BY <1>16, <2>2, <2>3, <2>4 DEF ComparePointer
<1>17. ASSUME NEW m \in Machine, StorePointer(m) PROVE Sized'
  BY <1>4, <1>17 DEF StorePointer, TypeOK
<1>18. ASSUME NEW m \in Machine, StopMidRebase(m) PROVE Sized'
  <2>1. /\ LeaveMidway(m, tracking[m]) /\ Leave(m) /\ tracking[m] \in Seq(Commit)
        /\ UNCHANGED <<remoteVars, cloneVars, dirty, status, runs>>
    BY <1>18 DEF StopMidRebase, TypeOK
  <2>2. head' \in [Machine -> Seq(Commit)] /\ worktree' \in [Machine -> Worktrees]
    BY <2>1, MidwayTyped
  <2> QED BY <2>1, <2>2, LeftTyped DEF TypeOK
<1>19. ASSUME NEW m \in Machine, ResolveManually(m) PROVE Sized'
  BY <1>19 DEF ResolveManually, TypeOK, Counted, Worktrees
<1> QED BY <1>1, <1>2, <1>3, <1>5, <1>6, <1>7, <1>8, <1>11, <1>12, <1>13,
           <1>14, <1>15, <1>16, <1>17, <1>18, <1>19 DEF Next, Pushing, Pointing

-----------------------------------------------------------------------------

\* HEAD is off its branch in worktrees that no run works in, and stands for the
\* branch in all others.
Attached ==
  \A m \in Machine : /\ worktree[m] # "detached" => head[m] = local[m]
                     /\ pc[m] # "idle" => worktree[m] = "branch"

Typed == Sized /\ Attached

LEMMA TypedInit == Init => Typed
<1>1. Init => Attached
  BY DEF Init, Attached
<1> QED BY <1>1, SizedInit DEF Typed


Step(m) ==
  \/ EnsureWorktree(m) \/ RunSources(m) \/ FetchOnly(m) \/ CommitWorktree(m)
  \/ Pushing(m) \/ Pointing(m) \/ Stop(m) \/ ResolveManually(m)

\* A step changes nothing of another machine.
LEMMA OthersRest ==
  ASSUME Typed, NEW m \in Machine, Step(m), NEW k \in Machine, k # m
  PROVE  /\ local'[k] = local[k] /\ good'[k] = good[k]
         /\ tracking'[k] = tracking[k] /\ dirty'[k] = dirty[k]
         /\ worktree'[k] = worktree[k] /\ head'[k] = head[k]
         /\ pc'[k] = pc[k] /\ run'[k] = run[k] /\ target'[k] = target[k]
<1> USE DEF Typed, Sized, TypeOK, Go, Leave, Proceed, Move, syncVars, cloneVars, treeVars
<1>1. CASE EnsureWorktree(m)
  <2>1. /\ UNCHANGED <<good, dirty, target>> /\ tracking'[k] = tracking[k]
        /\ pc'[k] = pc[k] /\ run'[k] = run[k]
    BY <1>1 DEF EnsureWorktree
  <2>2. /\ local'[k] = local[k] /\ worktree'[k] = worktree[k] /\ head'[k] = head[k]
    BY <1>1 DEF EnsureWorktree, Enter, Rebase, LeaveMidway
  <2> QED BY <2>1, <2>2
<1>2. CASE RunSources(m) \/ FetchOnly(m) \/ Stop(m) \/ ResolveManually(m)
  BY <1>2 DEF RunSources, FetchOnly, Stop, ResolveManually
<1>3. CASE CommitWorktree(m)
  BY <1>3 DEF CommitWorktree
<1>4. CASE Push(m) \/ PushUnconfirmed(m) \/ PushRejected(m) \/ SyncFails(m)
  BY <1>4 DEF Push, PushUnconfirmed, PushRejected, SyncFails
<1>5. CASE Refetch(m) \/ RebaseOnRemote(m) \/ StopMidRebase(m)
  BY <1>5 DEF Refetch, RebaseOnRemote, Rebase, StopMidRebase, LeaveMidway
<1>6. CASE PointLastGood(m) \/ PublishPointer(m)
  BY <1>6 DEF PointLastGood, PublishPointer
<1>7. CASE ComparePointer(m) \/ StorePointer(m)
  BY <1>7 DEF ComparePointer, StorePointer
<1> QED BY <1>1, <1>2, <1>3, <1>4, <1>5, <1>6, <1>7 DEF Step, Pushing, Pointing

\* Only a worktree on its branch is worked in, and what moves HEAD there moves
\* the branch.
LEMMA AttachedOf ==
  ASSUME Typed, Sized', NEW m \in Machine, Step(m)
  PROVE  /\ worktree'[m] # "detached" => head'[m] = local'[m]
         /\ pc'[m] # "idle" => worktree'[m] = "branch"
<1>1. /\ worktree[m] # "detached" => head[m] = local[m]
      /\ pc[m] # "idle" => worktree[m] = "branch"
      /\ worktree[m] \in Worktrees
  BY DEF Typed, Sized, TypeOK, Attached
<1> USE DEF Typed, Sized, TypeOK, Go, Leave, Proceed, Move, syncVars, cloneVars, treeVars
<1>2. CASE EnsureWorktree(m)
  <2>1. PICK tip \in {origin, tracking[m]} :
          \/ Enter(m, tip)
          \/ UNCHANGED <<local, worktree, head, pc>>
          \/ LeaveMidway(m, tip) /\ UNCHANGED <<local, pc>>
    BY <1>2 DEF EnsureWorktree
  <2>2. pc[m] = "idle"
    BY <1>2 DEF EnsureWorktree
  <2>3. CASE Enter(m, tip)
    <3>1. worktree[m] \in {"none", "branch"} /\ worktree'[m] = "branch"
      BY <2>3 DEF Enter, OnBranch
    <3>2. head'[m] = local'[m]
      BY <2>3, <3>1 DEF Enter, Rebase
    <3> QED BY <3>1, <3>2
  <2>4. CASE UNCHANGED <<local, worktree, head, pc>>
    BY <1>1, <2>4
  <2>5. CASE LeaveMidway(m, tip) /\ UNCHANGED <<local, pc>>
    BY <2>2, <2>5 DEF LeaveMidway
  <2> QED BY <2>1, <2>3, <2>4, <2>5
<1>3. CASE RunSources(m) \/ FetchOnly(m) \/ Stop(m)
  BY <1>1, <1>3 DEF RunSources, FetchOnly, Stop
<1>4. CASE CommitWorktree(m)
  <2>1. worktree[m] = "branch" /\ worktree' = worktree /\ head[m] = local[m]
    BY <1>1, <1>4 DEF CommitWorktree
  <2>2. \/ UNCHANGED <<local, head>>
        \/ \E tip : /\ head' = [head EXCEPT ![m] = tip]
                   /\ local' = [local EXCEPT ![m] = tip]
    BY <1>4, <2>1 DEF CommitWorktree
  <2> QED BY <2>1, <2>2
<1>5. CASE Push(m) \/ PushUnconfirmed(m) \/ PushRejected(m) \/ SyncFails(m) \/ Refetch(m)
  BY <1>1, <1>5 DEF Push, PushUnconfirmed, PushRejected, SyncFails, Refetch, Pushable
<1>6. CASE RebaseOnRemote(m)
  <2>1. worktree[m] = "branch" /\ worktree' = worktree
    BY <1>1, <1>6 DEF RebaseOnRemote
  <2> QED BY <1>6, <2>1 DEF RebaseOnRemote, Rebase
<1>7. CASE StopMidRebase(m)
  BY <1>7 DEF StopMidRebase, LeaveMidway
<1>8. CASE PointLastGood(m) \/ PublishPointer(m)
  BY <1>1, <1>8 DEF PointLastGood, PublishPointer
<1>9. CASE ComparePointer(m) \/ StorePointer(m)
  BY <1>1, <1>9 DEF ComparePointer, StorePointer
<1>10. CASE ResolveManually(m)
  BY <1>10 DEF ResolveManually
<1> QED BY <1>2, <1>3, <1>4, <1>5, <1>6, <1>7, <1>8, <1>9, <1>10
        DEF Step, Pushing, Pointing

LEMMA TypedStep == ASSUME Typed, [Next]_vars PROVE Typed'
<1>1. Sized'
  BY SizedStep DEF Typed
<1>2. CASE UNCHANGED vars
  BY <1>1, <1>2 DEF Typed, Attached, vars, cloneVars, treeVars
<1>3. ASSUME NEW m \in Machine, Step(m) PROVE Attached'
  <2>1. ASSUME NEW k \in Machine, k # m
        PROVE  /\ worktree'[k] # "detached" => head'[k] = local'[k]
               /\ pc'[k] # "idle" => worktree'[k] = "branch"
    BY <1>3, <2>1, OthersRest DEF Typed, Attached
  <2> QED BY <1>1, <1>3, <2>1, AttachedOf DEF Attached
<1> QED BY <1>1, <1>2, <1>3 DEF Next, Step, Typed

\* In a run HEAD is the branch.
LEMMA OnItsBranch ==
  ASSUME Typed, NEW m \in Machine, pc[m] # "idle"
  PROVE  worktree[m] = "branch" /\ head[m] = local[m]
BY DEF Typed, Attached

\* "Push, never force": the remote takes what it is a prefix of.
LEMMA PublishedGrows ==
  ASSUME Typed, NEW m \in Machine, Step(m)
  PROVE  /\ IsPrefix(origin, origin')
         /\ origin' # origin => origin' = local[m] /\ local' = local
<1>1. CASE Push(m) \/ PushUnconfirmed(m)
  BY <1>1 DEF Push, PushUnconfirmed, Accepted, cloneVars
<1>2. CASE ~(Push(m) \/ PushUnconfirmed(m))
  <2>1. origin' = origin
    BY <1>2 DEF Step, Pushing, Pointing, EnsureWorktree, RunSources, FetchOnly,
         CommitWorktree, PushRejected, Refetch, RebaseOnRemote, SyncFails,
         PointLastGood, PublishPointer, ComparePointer, StorePointer, Stop,
         StopMidRebase, ResolveManually, remoteVars
  <2> QED BY <2>1, PrefixReflexive DEF Typed, Sized, TypeOK
<1> QED BY <1>1, <1>2

\* A clone knows less than the remote, and from its push to the end of its run
\* the branch it points to is published and ahead of its pointer.
PointersOf(m) ==
  /\ IsPrefix(good[m], origin) /\ IsPrefix(tracking[m], origin)
  /\ pc[m] \in {"pointing", "publishing", "comparing"} => IsPrefix(local[m], origin)
  /\ pc[m] \in {"publishing", "comparing"}
       => target[m] = local[m] /\ IsPrefix(good[m], local[m])
  /\ pc[m] = "storing" => IsPrefix(target[m], origin) /\ IsPrefix(good[m], target[m])

Pointers == IsPrefix(originGood, origin) /\ \A m \in Machine : PointersOf(m)

LEMMA PointersInit == Init => Pointers
<1> SUFFICES ASSUME Init PROVE Pointers
  OBVIOUS
<1>1. IsPrefix(<<>>, <<>>)
  BY PrefixReflexive, EmptySeq
<1> QED BY <1>1 DEF Init, Pointers, PointersOf

LEMMA PointersOfOthers ==
  ASSUME Typed, Typed', NEW k \in Machine, PointersOf(k), IsPrefix(origin, origin'),
         good'[k] = good[k], tracking'[k] = tracking[k], local'[k] = local[k],
         target'[k] = target[k], pc'[k] = pc[k]
  PROVE  PointersOf(k)'
<1>1. /\ origin \in Seq(Commit) /\ origin' \in Seq(Commit)
      /\ good[k] \in Seq(Commit) /\ tracking[k] \in Seq(Commit)
      /\ local[k] \in Seq(Commit) /\ target[k] \in Seq(Commit)
  BY DEF Typed, Sized, TypeOK
<1>2. \A s \in {good[k], tracking[k], local[k], target[k]} :
        IsPrefix(s, origin) => IsPrefix(s, origin')
  BY <1>1, PrefixTransitive
<1> QED BY <1>2 DEF PointersOf

LEMMA PointersStep ==
  ASSUME Typed, Typed', Pointers, [Next]_vars
  PROVE  /\ Pointers'
         /\ IsPrefix(originGood, originGood')
         /\ \A m \in Machine : IsPrefix(good[m], good'[m])
<1> USE DEF Typed, Sized, remoteVars, cloneVars, treeVars, syncVars
<1>1. /\ origin \in Seq(Commit) /\ originGood \in Seq(Commit)
      /\ \A k \in Machine : /\ good[k] \in Seq(Commit) /\ local[k] \in Seq(Commit)
                            /\ target[k] \in Seq(Commit)
  BY DEF TypeOK
<1>2. IsPrefix(originGood, originGood) /\ \A k \in Machine : IsPrefix(good[k], good[k])
  BY <1>1, PrefixReflexive
<1>3. CASE UNCHANGED vars
  BY <1>2, <1>3 DEF vars, Pointers, PointersOf
<1>4. ASSUME NEW m \in Machine, Step(m), PointersOf(m)',
             IsPrefix(originGood', origin'), IsPrefix(originGood, originGood'),
             IsPrefix(good[m], good'[m])
      PROVE  /\ Pointers'
             /\ IsPrefix(originGood, originGood')
             /\ \A k \in Machine : IsPrefix(good[k], good'[k])
  <2>1. ASSUME NEW k \in Machine, k # m
        PROVE  PointersOf(k)' /\ good'[k] = good[k]
    <3>1. IsPrefix(origin, origin') /\ PointersOf(k)
      BY <1>4, PublishedGrows DEF Pointers
    <3> QED BY <1>4, <2>1, <3>1, OthersRest, PointersOfOthers
  <2> QED BY <1>2, <1>4, <2>1 DEF Pointers
<1>5. ASSUME NEW m \in Machine, Step(m), originGood' = originGood, good'[m] = good[m],
             tracking'[m] = tracking[m],
             \/ pc'[m] \notin {"pointing", "publishing", "comparing", "storing"}
             \/ pc'[m] = "pointing" /\ IsPrefix(local'[m], origin')
      PROVE  /\ PointersOf(m)' /\ IsPrefix(originGood', origin')
             /\ IsPrefix(originGood, originGood') /\ IsPrefix(good[m], good'[m])
  <2>1. IsPrefix(origin, origin') /\ origin' \in Seq(Commit)
        /\ tracking[m] \in Seq(Commit)
    BY <1>5, PublishedGrows DEF TypeOK
  <2>2. /\ IsPrefix(good[m], origin) /\ IsPrefix(tracking[m], origin)
        /\ IsPrefix(originGood, origin)
    BY DEF Pointers, PointersOf
  <2>3. /\ IsPrefix(good[m], origin') /\ IsPrefix(tracking[m], origin')
        /\ IsPrefix(originGood, origin')
    BY <1>1, <2>1, <2>2, PrefixTransitive
  <2> QED BY <1>2, <1>5, <2>3 DEF PointersOf
<1>6. ASSUME NEW m \in Machine,
             \/ RunSources(m) \/ FetchOnly(m) \/ CommitWorktree(m) \/ PushUnconfirmed(m)
             \/ PushRejected(m) \/ RebaseOnRemote(m) \/ SyncFails(m) \/ Stop(m)
             \/ StopMidRebase(m) \/ ResolveManually(m)
      PROVE  /\ originGood' = originGood /\ good'[m] = good[m]
             /\ tracking'[m] = tracking[m]
             /\ pc'[m] \notin {"pointing", "publishing", "comparing", "storing"}
  BY <1>6 DEF RunSources, FetchOnly, CommitWorktree, PushUnconfirmed, PushRejected,
       RebaseOnRemote, SyncFails, Stop, StopMidRebase, ResolveManually, Leave, Proceed,
       Go, TypeOK
<1>7. ASSUME NEW m \in Machine, Step(m), origin' = origin, originGood' = originGood,
             good'[m] = good[m], tracking'[m] \in {origin, tracking[m]},
             pc'[m] \notin {"pointing", "publishing", "comparing", "storing"}
      PROVE  /\ PointersOf(m)' /\ IsPrefix(originGood', origin')
             /\ IsPrefix(originGood, originGood') /\ IsPrefix(good[m], good'[m])
  <2>1. IsPrefix(origin, origin)
    BY <1>1, PrefixReflexive
  <2> QED BY <1>2, <1>7, <2>1 DEF Pointers, PointersOf
<1>8. ASSUME NEW m \in Machine, EnsureWorktree(m) \/ Refetch(m)
      PROVE  /\ origin' = origin /\ originGood' = originGood /\ good'[m] = good[m]
             /\ tracking'[m] \in {origin, tracking[m]}
             /\ pc'[m] \notin {"pointing", "publishing", "comparing", "storing"}
  BY <1>8 DEF EnsureWorktree, Refetch, Go, TypeOK
<1>9. ASSUME NEW m \in Machine, Push(m)
      PROVE  /\ PointersOf(m)' /\ IsPrefix(originGood', origin')
             /\ IsPrefix(originGood, originGood') /\ IsPrefix(good[m], good'[m])
  <2>1. /\ origin' = local[m] /\ tracking'[m] = local[m] /\ local' = local
        /\ originGood' = originGood /\ good' = good /\ IsPrefix(origin, local[m])
        /\ pc'[m] \in {"idle", "pointing"}
    BY <1>9 DEF Push, Accepted, Leave, Proceed, Go, TypeOK
  <2>2. /\ IsPrefix(good[m], local[m]) /\ IsPrefix(local[m], local[m])
        /\ IsPrefix(originGood, local[m])
    BY <1>1, <2>1, PrefixTransitive, PrefixReflexive DEF Pointers, PointersOf
  <2> QED BY <1>2, <2>1, <2>2 DEF PointersOf
<1>10. ASSUME NEW m \in Machine, PointLastGood(m)
       PROVE  /\ PointersOf(m)' /\ IsPrefix(originGood', origin')
              /\ IsPrefix(originGood, originGood') /\ IsPrefix(good[m], good'[m])
  <2> head[m] = local[m]
    BY <1>10, OnItsBranch DEF PointLastGood
  <2>1. CASE IsPrefix(good[m], local[m])
    BY <1>2, <1>10, <2>1 DEF PointLastGood, Go, TypeOK, Pointers, PointersOf
  <2>2. CASE ~IsPrefix(good[m], local[m])
    BY <1>2, <1>10, <2>2 DEF PointLastGood, Leave, Go, TypeOK, Pointers, PointersOf
  <2> QED BY <2>1, <2>2
<1>11. ASSUME NEW m \in Machine, PublishPointer(m)
       PROVE  /\ PointersOf(m)' /\ IsPrefix(originGood', origin')
              /\ IsPrefix(originGood, originGood') /\ IsPrefix(good[m], good'[m])
  <2> head[m] = local[m]
    BY <1>11, OnItsBranch DEF PublishPointer
  <2>1. CASE Pointable(m)
    BY <1>2, <1>11, <2>1 DEF PublishPointer, Pointable, Proceed, Go, TypeOK,
         Pointers, PointersOf
  <2>2. CASE ~Pointable(m)
    BY <1>2, <1>11, <2>2 DEF PublishPointer, Proceed, Leave, Go, TypeOK,
         Pointers, PointersOf
  <2> QED BY <2>1, <2>2
<1>12. ASSUME NEW m \in Machine, ComparePointer(m)
       PROVE  /\ PointersOf(m)' /\ IsPrefix(originGood', origin')
              /\ IsPrefix(originGood, originGood') /\ IsPrefix(good[m], good'[m])
  <2> head[m] = local[m]
    BY <1>12, OnItsBranch DEF ComparePointer
  <2>1. /\ pc[m] = "comparing" /\ UNCHANGED <<remoteVars, cloneVars, treeVars, runs>>
    BY <1>12 DEF ComparePointer
  <2>2. CASE Leave(m)
    BY <1>2, <2>1, <2>2 DEF Leave, Go, TypeOK, Pointers, PointersOf
  <2>3. CASE Go(m, "publishing") /\ UNCHANGED target
    BY <1>2, <2>1, <2>3 DEF Go, TypeOK, Pointers, PointersOf
  <2>4. CASE /\ IsPrefix(local[m], originGood) /\ Go(m, "storing")
             /\ target' = [target EXCEPT ![m] = originGood]
    <3>1. /\ IsPrefix(good[m], local[m]) /\ IsPrefix(originGood, origin)
      BY <2>1 DEF Pointers, PointersOf
    <3>2. IsPrefix(good[m], originGood)
      BY <1>1, <2>4, <3>1, PrefixTransitive
    <3>3. target'[m] = originGood /\ pc'[m] = "storing"
      BY <2>4 DEF Go, TypeOK
    <3> QED BY <1>2, <2>1, <3>1, <3>2, <3>3 DEF Pointers, PointersOf
  <2> QED BY <1>12, <2>2, <2>3, <2>4 DEF ComparePointer
<1>13. ASSUME NEW m \in Machine, StorePointer(m)
       PROVE  /\ PointersOf(m)' /\ IsPrefix(originGood', origin')
              /\ IsPrefix(originGood, originGood') /\ IsPrefix(good[m], good'[m])
  BY <1>2, <1>13 DEF StorePointer, Leave, Go, TypeOK, Pointers, PointersOf
<1>14. ASSUME NEW m \in Machine, Step(m)
       PROVE  /\ PointersOf(m)' /\ IsPrefix(originGood', origin')
              /\ IsPrefix(originGood, originGood') /\ IsPrefix(good[m], good'[m])
  BY <1>5, <1>6, <1>7, <1>8, <1>9, <1>10, <1>11, <1>12, <1>13, <1>14
     DEF Step, Pushing, Pointing
<1> QED BY <1>3, <1>4, <1>14 DEF Next, Step

-----------------------------------------------------------------------------

\* Why a run is never replayed on top of itself: branches that share it share
\* the history before it, and clones share nothing that is not published.
Lineage ==
  /\ \A s, t \in Branches : HistoryShared(s, t)
  /\ \A m, n \in Machine :
       m # n => Added(local[m]) \cap Added(local[n]) \subseteq Added(origin)

\* The runs whose work only a worktree has, or is about to have: on no branch,
\* and each waits in one place.
Waiting(m) == dirty[m] \cup (IF pc[m] = "fetching" THEN {run[m]} ELSE {})
Work ==
  /\ \A s \in Branches : Added(s) \subseteq 1..runs
  /\ \A m \in Machine :
       /\ Waiting(m) \subseteq 1..runs
       /\ \A s \in Branches : Waiting(m) \cap Added(s) = {}
       /\ \A n \in Machine : m # n => Waiting(m) \cap Waiting(n) = {}

LEMMA PrefixAdds ==
  ASSUME NEW s \in Seq(Commit), NEW t \in Seq(Commit), IsPrefix(s, t)
  PROVE  Added(s) \subseteq Added(t)
<1>1. Len(s) <= Len(t) /\ \A i \in 1..Len(s) : s[i] = t[i]
  BY PrefixPointwise
<1>2. Len(s) \in Nat /\ Len(t) \in Nat /\ DOMAIN s = 1..Len(s) /\ DOMAIN t = 1..Len(t)
  BY LenProperties
<1>3. \A i \in DOMAIN s : i \in DOMAIN t /\ s[i].adds = t[i].adds
  BY <1>1, <1>2
<1> QED BY <1>3 DEF Added

LEMMA AppendAdds ==
  ASSUME NEW s \in Seq(Commit), NEW c \in Commit
  PROVE  /\ Append(s, c) \in Seq(Commit)
         /\ Len(Append(s, c)) = Len(s) + 1
         /\ \A i \in 1..Len(s) : Append(s, c)[i] = s[i]
         /\ Append(s, c)[Len(s) + 1] = c
         /\ Added(Append(s, c)) = Added(s) \cup c.adds
<1> DEFINE r == Append(s, c)
<1>1. /\ r \in Seq(Commit) /\ Len(r) = Len(s) + 1
      /\ \A i \in 1..Len(s) : r[i] = s[i]
      /\ r[Len(s) + 1] = c
  BY AppendProperties
<1>2. Len(s) \in Nat /\ DOMAIN s = 1..Len(s) /\ DOMAIN r = 1..Len(s) + 1
  BY <1>1, LenProperties
<1> HIDE DEF r
<1>3. \A i \in DOMAIN r : r[i] = c \/ (i \in DOMAIN s /\ r[i] = s[i])
  BY <1>1, <1>2
<1>4. Len(s) + 1 \in DOMAIN r /\ \A i \in DOMAIN s : i \in DOMAIN r /\ r[i] = s[i]
  BY <1>1, <1>2
<1>5. Added(r) = Added(s) \cup c.adds
  BY <1>1, <1>3, <1>4 DEF Added
<1> QED BY <1>1, <1>5 DEF r

LEMMA SharedTurned ==
  ASSUME NEW s \in Seq(Commit), NEW t \in Seq(Commit), HistoryShared(s, t)
  PROVE  HistoryShared(t, s)
<1> SUFFICES ASSUME NEW i \in DOMAIN t, NEW j \in DOMAIN s,
                    t[i].adds \cap s[j].adds # {}
             PROVE  i = j /\ \A k \in 1..i : t[k] = s[k]
  BY DEF HistoryShared
<1>1. j = i /\ \A k \in 1..j : s[k] = t[k]
  BY DEF HistoryShared
<1> QED BY <1>1

LEMMA PrefixShares ==
  ASSUME NEW s \in Seq(Commit), NEW u \in Seq(Commit), NEW t, IsPrefix(s, u),
         HistoryShared(u, t)
  PROVE  HistoryShared(s, t)
<1>1. Len(s) <= Len(u) /\ \A i \in 1..Len(s) : s[i] = u[i]
  BY PrefixPointwise
<1>2. Len(s) \in Nat /\ Len(u) \in Nat /\ DOMAIN s = 1..Len(s) /\ DOMAIN u = 1..Len(u)
  BY LenProperties
<1>3. SUFFICES ASSUME NEW i \in DOMAIN s, NEW j \in DOMAIN t,
                      s[i].adds \cap t[j].adds # {}
               PROVE  i = j /\ \A k \in 1..i : s[k] = t[k]
  BY DEF HistoryShared
<1>4. i \in DOMAIN u /\ u[i] = s[i] /\ \A k \in 1..i : u[k] = s[k]
  BY <1>1, <1>2
<1>5. i = j /\ \A k \in 1..i : u[k] = t[k]
  BY <1>3, <1>4 DEF HistoryShared
<1> QED BY <1>4, <1>5

\* What a commit does to the clone's branch.
LEMMA CommitOf ==
  ASSUME Typed, NEW m \in Machine, CommitWorktree(m)
  PROVE  \/ dirty[m] = {} /\ local' = local
         \/ \E c \in Commit : /\ c.adds = dirty[m]
                             /\ local' = [local EXCEPT ![m] = Append(local[m], c)]
<1>1. worktree[m] = "branch" /\ head[m] = local[m]
  BY OnItsBranch DEF CommitWorktree
<1>2. CASE ~Staged(m)
  BY <1>2 DEF CommitWorktree, Staged
<1>3. CASE Staged(m)
  <2> DEFINE c == [adds |-> dirty[m],
                   status |-> IF status[m] = StatusOf(head[m])
                              THEN "same" ELSE status[m]]
  <2>1. c \in Commit /\ c.adds = dirty[m]
    BY DEF Typed, Sized, TypeOK, Commit
  <2>2. Move(m, Append(head[m], c))
    BY <1>3 DEF CommitWorktree
  <2> HIDE DEF c
  <2>3. local' = [local EXCEPT ![m] = Append(local[m], c)]
    BY <1>1, <2>2 DEF Move, Typed, Sized, TypeOK
  <2> QED BY <2>1, <2>3
<1> QED BY <1>2, <1>3

\* A branch that follows a trunk up to some place, and from there on has runs
\* nobody else has, shares history with whoever shares it with the trunk.
LEMMA Outgrown ==
  ASSUME NEW trunk \in Seq(Commit), NEW t \in Seq(Commit), NEW r \in Seq(Commit),
         NEW n \in Nat, n <= Len(r), n <= Len(trunk), HistoryShared(trunk, t),
         \A i \in 1..n : r[i] = trunk[i],
         \A i \in n + 1..Len(r) : r[i].adds \cap Added(t) = {}
  PROVE  HistoryShared(r, t)
<1> SUFFICES ASSUME NEW i \in DOMAIN r, NEW j \in DOMAIN t,
                    r[i].adds \cap t[j].adds # {}
             PROVE  i = j /\ \A k \in 1..i : r[k] = t[k]
  BY DEF HistoryShared
<1>1. /\ DOMAIN r = 1..Len(r) /\ DOMAIN trunk = 1..Len(trunk)
      /\ Len(r) \in Nat /\ Len(trunk) \in Nat
  BY LenProperties
<1>2. t[j].adds \subseteq Added(t)
  BY DEF Added
<1>3. r[i].adds \cap Added(t) # {}
  BY <1>2
<1>4. i \in 1..n
  BY <1>1, <1>3
<1>5. i \in DOMAIN trunk /\ r[i] = trunk[i]
  BY <1>1, <1>4
<1>6. i = j /\ \A k \in 1..i : trunk[k] = t[k]
  BY <1>5 DEF HistoryShared
<1>7. \A k \in 1..i : r[k] = trunk[k]
  BY <1>4
<1> QED BY <1>6, <1>7

\* The same of a branch with itself, when what it adds is new to the trunk and
\* added once.
LEMMA OutgrownItself ==
  ASSUME NEW trunk \in Seq(Commit), NEW r \in Seq(Commit),
         NEW n \in Nat, n <= Len(r), n <= Len(trunk), HistoryShared(trunk, trunk),
         \A i \in 1..n : r[i] = trunk[i],
         \A i \in n + 1..Len(r) : \A j \in 1..Len(r) :
           i # j => r[i].adds \cap r[j].adds = {}
  PROVE  HistoryShared(r, r)
<1> SUFFICES ASSUME NEW i \in DOMAIN r, NEW j \in DOMAIN r,
                    r[i].adds \cap r[j].adds # {}
             PROVE  i = j
  BY DEF HistoryShared
<1>1. /\ DOMAIN r = 1..Len(r) /\ DOMAIN trunk = 1..Len(trunk)
      /\ Len(r) \in Nat /\ Len(trunk) \in Nat
  BY LenProperties
<1>2. CASE i \in 1..n /\ j \in 1..n
  <2>1. i \in DOMAIN trunk /\ j \in DOMAIN trunk /\ r[i] = trunk[i] /\ r[j] = trunk[j]
    BY <1>1, <1>2
  <2> QED BY <2>1 DEF HistoryShared
<1>3. CASE i \in n + 1..Len(r)
  BY <1>1, <1>3
<1>4. CASE j \in n + 1..Len(r)
  <2>1. j # i => r[j].adds \cap r[i].adds = {}
    BY <1>1, <1>4
  <2> QED BY <2>1
<1> QED BY <1>1, <1>2, <1>3, <1>4

\* What a clone adds where it parted from a published branch is nobody else's:
\* had it come from there, so would the history before it.
LEMMA OwnCommits ==
  ASSUME Typed, Lineage, NEW m \in Machine, head[m] = local[m],
         NEW tip \in Seq(Commit),
         IsPrefix(tip, origin), NEW n \in Nat, RebasedAt(m, tip, n),
         n < Len(tip), NEW k \in n + 1..Len(local[m])
  PROVE  /\ local[m][k].adds \cap Added(origin) = {}
         /\ \A q \in Machine : q # m => local[m][k].adds \cap Added(local[q]) = {}
<1> DEFINE s == local[m]
<1>1. /\ s \in Seq(Commit) /\ origin \in Seq(Commit)
      /\ DOMAIN s = 1..Len(s) /\ DOMAIN origin = 1..Len(origin)
      /\ Len(s) \in Nat /\ Len(tip) \in Nat /\ Len(origin) \in Nat
  BY LenProperties DEF Typed, Sized, TypeOK
<1>2. Len(tip) <= Len(origin) /\ \A i \in 1..Len(tip) : tip[i] = origin[i]
  BY <1>1, PrefixPointwise
<1>3. s[n + 1] # tip[n + 1]
  <2>1. SUFFICES ASSUME s[n + 1] = tip[n + 1] PROVE FALSE
    OBVIOUS
  <2>2. \A i \in 1..n : s[i] = tip[i]
    BY DEF RebasedAt
  <2>3. \A i \in 1..n + 1 : s[i] = tip[i]
    BY <2>1, <2>2
  <2>4. n + 1 \in Nat /\ n + 1 <= Len(s) /\ n + 1 <= Len(tip)
    BY <1>1
  <2>5. n + 1 <= n
    BY <2>3, <2>4 DEF RebasedAt
  <2> QED BY <2>5
<1>4. k \in DOMAIN s /\ n + 1 \in 1..k /\ n + 1 \in 1..Len(tip)
  BY <1>1
<1>5. HistoryShared(s, origin)
  BY DEF Lineage, Branches
<1>6. ASSUME NEW j \in DOMAIN origin PROVE s[k].adds \cap origin[j].adds = {}
  <2>1. SUFFICES ASSUME s[k].adds \cap origin[j].adds # {} PROVE FALSE
    OBVIOUS
  <2>2. \A i \in 1..k : s[i] = origin[i]
    BY <1>4, <1>5, <2>1 DEF HistoryShared
  <2>3. s[n + 1] = origin[n + 1]
    BY <1>4, <2>2
  <2>4. tip[n + 1] = origin[n + 1]
    BY <1>2, <1>4
  <2> QED BY <1>3, <2>3, <2>4
<1>7. s[k].adds \cap Added(origin) = {}
  BY <1>6 DEF Added
<1>8. ASSUME NEW q \in Machine, q # m PROVE s[k].adds \cap Added(local[q]) = {}
  <2>1. s[k].adds \subseteq Added(s)
    BY <1>4 DEF Added
  <2>2. Added(s) \cap Added(local[q]) \subseteq Added(origin)
    BY <1>8 DEF Lineage
  <2> QED BY <1>7, <2>1, <2>2
<1> QED BY <1>7, <1>8

\* One clone's branch is replaced, and what it shares with others is published.
LEMMA LineageOfNew ==
  ASSUME Typed, Lineage, NEW m \in Machine, NEW r \in Seq(Commit),
         local' = [local EXCEPT ![m] = r], origin' = origin,
         HistoryShared(r, r), HistoryShared(r, origin),
         \A q \in Machine : q # m => /\ HistoryShared(r, local[q])
                                     /\ Added(r) \cap Added(local[q]) \subseteq Added(origin)
  PROVE  Lineage'
<1>1. /\ origin \in Seq(Commit) /\ local \in [Machine -> Seq(Commit)]
      /\ local'[m] = r /\ \A q \in Machine : q # m => local'[q] = local[q]
  BY DEF Typed, Sized, TypeOK
<1>2. HistoryShared(origin, r) /\ \A q \in Machine : q # m => HistoryShared(local[q], r)
  BY <1>1, SharedTurned
<1>3. /\ HistoryShared(origin, origin)
      /\ \A q, p \in Machine : /\ HistoryShared(local[q], local[p])
                               /\ HistoryShared(local[q], origin)
                               /\ HistoryShared(origin, local[q])
  BY DEF Lineage, Branches
<1>4. \A q, p \in Machine : /\ HistoryShared(local'[q], local'[p])
                            /\ HistoryShared(local'[q], origin)
                            /\ HistoryShared(origin, local'[q])
  BY <1>1, <1>2, <1>3
<1>5. \A s, t \in Branches' : HistoryShared(s, t)
  BY <1>3, <1>4 DEF Branches
<1>6. ASSUME NEW q \in Machine, NEW p \in Machine, q # p
      PROVE  Added(local'[q]) \cap Added(local'[p]) \subseteq Added(origin)
  <2>1. CASE q = m
    BY <1>1, <1>6, <2>1
  <2>2. CASE p = m
    BY <1>1, <1>6, <2>2
  <2>3. CASE q # m /\ p # m
    BY <1>1, <1>6, <2>3 DEF Lineage
  <2> QED BY <2>1, <2>2, <2>3
<1> QED BY <1>5, <1>6 DEF Lineage

LEMMA LineageRebase ==
  ASSUME Typed, Lineage, NEW m \in Machine, head[m] = local[m],
         worktree[m] # "detached", NEW tip \in Seq(Commit),
         IsPrefix(tip, origin), Rebase(m, tip), origin' = origin
  PROVE  Lineage'
<1> DEFINE s == local[m]
           r == Rebased(m, tip)
<1>1. /\ s \in Seq(Commit) /\ origin \in Seq(Commit) /\ r \in Seq(Commit)
      /\ \A q \in Machine : local[q] \in Seq(Commit)
  BY RebasedFollows DEF Typed, Sized, TypeOK
<1>2. local' = [local EXCEPT ![m] = r] /\ local \in [Machine -> Seq(Commit)]
  BY DEF Rebase, Move, Typed, Sized, TypeOK
<1>3. /\ HistoryShared(origin, origin) /\ HistoryShared(s, s)
      /\ \A q \in Machine : HistoryShared(origin, local[q])
  BY DEF Lineage, Branches
<1>4. Added(tip) \subseteq Added(origin)
  BY <1>1, PrefixAdds
<1>5. Added(r) \subseteq Added(origin) \cup Added(s)
  BY <1>1, <1>4, RebasedAdds
<1>6. \A q \in Machine : q # m =>
        Added(r) \cap Added(local[q]) \subseteq Added(origin)
  BY <1>5 DEF Lineage
<1>7. CASE IsPrefix(tip, s)
  <2>1. r = s
    BY <1>1, <1>7, RebasedFollows
  <2>2. local' = local
    BY <1>2, <2>1
  <2> QED BY <2>2 DEF Lineage, Branches
<1>8. CASE ~IsPrefix(tip, s)
  <2>1. PICK n \in Nat : RebasedAt(m, tip, n)
    BY <1>1, RebaseKeeps
  <2>2. /\ Len(s) \in Nat /\ Len(tip) \in Nat /\ Len(origin) \in Nat
        /\ DOMAIN s = 1..Len(s) /\ Len(tip) <= Len(origin)
        /\ \A i \in 1..Len(tip) : tip[i] = origin[i]
    BY <1>1, LenProperties, PrefixPointwise
  <2>3. n < Len(tip)
    <3>1. n <= Len(tip) /\ n <= Len(s) /\ \A i \in 1..n : s[i] = tip[i]
      BY <2>1 DEF RebasedAt
    <3>2. n # Len(tip)
      BY <1>1, <1>8, <2>2, <3>1, PrefixPointwise
    <3> QED BY <2>2, <3>1, <3>2
  <2>4. \A k \in n + 1..Len(s) :
          /\ s[k].adds \cap Added(origin) = {}
          /\ \A q \in Machine : q # m => s[k].adds \cap Added(local[q]) = {}
    BY <2>1, <2>3, OwnCommits
  <2>5. /\ Len(r) = Len(tip) + Len(s) - n /\ n <= Len(s)
        /\ \A i \in 1..Len(tip) : r[i] = tip[i]
        /\ \A k \in n + 1..Len(s) : r[Len(tip) + k - n] = s[k]
    BY <2>1 DEF RebasedAt
  <2> HIDE DEF r, s
  <2>6. \A i \in Len(tip) + 1..Len(r) :
          /\ i - Len(tip) + n \in n + 1..Len(s)
          /\ r[i] = s[i - Len(tip) + n]
    <3> TAKE i \in Len(tip) + 1..Len(r)
    <3>1. i - Len(tip) + n \in n + 1..Len(s)
          /\ Len(tip) + (i - Len(tip) + n) - n = i
      BY <2>2, <2>5
    <3> QED BY <2>5, <3>1
  <2>7. \A i \in Len(tip) + 1..Len(r) :
          /\ r[i].adds \cap Added(origin) = {}
          /\ \A q \in Machine : q # m => r[i].adds \cap Added(local[q]) = {}
    BY <2>4, <2>6
  <2>8. /\ Len(tip) <= Len(r) /\ Len(tip) <= Len(origin)
        /\ \A i \in 1..Len(tip) : r[i] = origin[i]
    BY <2>2, <2>5
  <2>9. HistoryShared(r, origin)
    BY <1>1, <1>3, <2>2, <2>7, <2>8, Outgrown
  <2>10. \A q \in Machine : q # m => HistoryShared(r, local[q])
    BY <1>1, <1>3, <2>2, <2>7, <2>8, Outgrown
  <2>11. ASSUME NEW i \in Len(tip) + 1..Len(r), NEW j \in 1..Len(r), i # j
         PROVE  r[i].adds \cap r[j].adds = {}
    <3>1. CASE j \in 1..Len(tip)
      <4>1. j \in DOMAIN origin /\ r[j] = origin[j]
        BY <1>1, <2>2, <2>8, <3>1, LenProperties
      <4>2. r[j].adds \subseteq Added(origin)
        BY <4>1 DEF Added
      <4> QED BY <2>7, <4>2
    <3>2. CASE j \in Len(tip) + 1..Len(r)
      <4> DEFINE a == i - Len(tip) + n
                 b == j - Len(tip) + n
      <4>1. a \in n + 1..Len(s) /\ b \in n + 1..Len(s) /\ r[i] = s[a] /\ r[j] = s[b]
        BY <2>6, <3>2
      <4>2. a \in DOMAIN s /\ b \in DOMAIN s /\ a # b
        BY <2>2, <2>11, <4>1
      <4> QED BY <1>3, <4>1, <4>2 DEF HistoryShared
    <3> QED BY <2>2, <2>11, <3>1, <3>2
  <2>12. HistoryShared(r, r)
    BY <1>1, <1>3, <2>2, <2>8, <2>11, OutgrownItself
  <2> QED BY <1>1, <1>2, <1>6, <2>9, <2>10, <2>12, LineageOfNew
<1> QED BY <1>7, <1>8

LEMMA LineageCommit ==
  ASSUME Typed, Typed', Lineage, Work, NEW m \in Machine, CommitWorktree(m)
  PROVE  Lineage'
<1> DEFINE s == local[m]
<1>1. /\ s \in Seq(Commit) /\ origin \in Seq(Commit) /\ origin' = origin
      /\ \A q \in Machine : local[q] \in Seq(Commit)
      /\ local \in [Machine -> Seq(Commit)]
  BY DEF CommitWorktree, remoteVars, Typed, Sized, TypeOK
<1>2. CASE local' = local
  BY <1>1, <1>2 DEF Lineage, Branches
<1>3. ASSUME NEW c \in Commit, c.adds = dirty[m],
             local' = [local EXCEPT ![m] = Append(local[m], c)]
      PROVE  Lineage'
  <2> DEFINE r == Append(s, c)
  <2>1. local' = [local EXCEPT ![m] = r]
    BY <1>3
  <2>2. c \in Commit /\ c.adds = dirty[m]
    BY <1>3
  <2>3. /\ r \in Seq(Commit) /\ Len(r) = Len(s) + 1
        /\ \A i \in 1..Len(s) : r[i] = s[i]
        /\ r[Len(s) + 1] = c /\ Added(r) = Added(s) \cup c.adds
    BY <1>1, <2>2, AppendAdds
  <2>4. \A t \in Branches : c.adds \cap Added(t) = {}
    BY <2>2 DEF Work, Waiting
  <2>5. /\ s \in Branches /\ origin \in Branches
        /\ \A q \in Machine : local[q] \in Branches
    BY DEF Branches
  <2>6. /\ HistoryShared(s, s) /\ HistoryShared(s, origin)
        /\ \A q \in Machine : HistoryShared(s, local[q])
    BY <2>5 DEF Lineage
  <2>7. Len(s) \in Nat /\ DOMAIN s = 1..Len(s)
    BY <1>1, LenProperties
  <2> HIDE DEF r, s
  <2>8. \A i \in Len(s) + 1..Len(r) : r[i] = c
    BY <2>3, <2>7
  <2>9. /\ HistoryShared(r, origin)
        /\ \A q \in Machine : HistoryShared(r, local[q])
    <3>1. \A t \in Branches : \A i \in Len(s) + 1..Len(r) : r[i].adds \cap Added(t) = {}
      BY <2>4, <2>8
    <3>2. Len(s) <= Len(r) /\ Len(s) <= Len(s) /\ r \in Seq(Commit) /\ s \in Seq(Commit)
      BY <1>1, <2>3, <2>7 DEF s
    <3>3. ASSUME NEW t \in Branches, t \in Seq(Commit), HistoryShared(s, t)
          PROVE  HistoryShared(r, t)
      BY <2>3, <2>7, <3>1, <3>2, <3>3, Outgrown
    <3> QED BY <1>1, <2>5, <2>6, <3>3
  <2>10. ASSUME NEW i \in Len(s) + 1..Len(r), NEW j \in 1..Len(r), i # j
         PROVE  r[i].adds \cap r[j].adds = {}
    <3>1. r[i] = c /\ j \in DOMAIN s /\ r[j] = s[j]
      BY <2>3, <2>7, <2>8, <2>10
    <3>2. s[j].adds \subseteq Added(s)
      BY <3>1 DEF Added
    <3> QED BY <2>4, <2>5, <3>1, <3>2
  <2>11. HistoryShared(r, r)
    <3>1. Len(s) <= Len(r) /\ Len(s) <= Len(s) /\ r \in Seq(Commit) /\ s \in Seq(Commit)
      BY <1>1, <2>3, <2>7 DEF s
    <3> QED BY <2>3, <2>6, <2>7, <2>10, <3>1, OutgrownItself
  <2>12. \A q \in Machine : q # m =>
           Added(r) \cap Added(local[q]) \subseteq Added(origin)
    BY <2>3, <2>4, <2>5 DEF Lineage, s
  <2> QED BY <1>1, <2>1, <2>3, <2>9, <2>11, <2>12, LineageOfNew
<1> QED BY <1>2, <1>3, CommitOf

\* The remote takes a clone's branch or nothing moves.
LEMMA LineageRests ==
  ASSUME Lineage, local' = local, origin' = origin \/ (\E m \in Machine : origin' = local[m]),
         Added(origin) \subseteq Added(origin')
  PROVE  Lineage'
<1>1. Branches' \subseteq Branches
  BY DEF Branches
<1>2. \A s, t \in Branches' : HistoryShared(s, t)
  BY <1>1 DEF Lineage
<1>3. \A m, n \in Machine :
        m # n => Added(local[m]) \cap Added(local[n]) \subseteq Added(origin')
  BY DEF Lineage
<1> QED BY <1>2, <1>3 DEF Lineage

\* No branch gets runs but those of others, and no worktree but the next one.
LEMMA WorkRests ==
  ASSUME Typed, Work, runs' \in Nat, runs <= runs', NEW m \in Machine,
         \A s \in Branches' : \A c \in Added(s) : \E t \in Branches : c \in Added(t),
         \A k \in Machine : k # m => Waiting(k)' = Waiting(k),
         Waiting(m)' \subseteq Waiting(m) \cup (runs + 1..runs')
  PROVE  Work'
<1>1. runs \in Nat
  BY DEF Typed, Sized, TypeOK
<1>2. \A s \in Branches' : Added(s) \subseteq 1..runs
  BY DEF Work
<1>3. 1..runs \subseteq 1..runs' /\ runs + 1..runs' \subseteq 1..runs'
      /\ 1..runs \cap (runs + 1..runs') = {}
  BY <1>1
<1>4. \A k \in Machine : Waiting(k)' \subseteq Waiting(k) \cup (runs + 1..runs')
  OBVIOUS
<1>5. \A k \in Machine : Waiting(k) \subseteq 1..runs
  BY DEF Work
<1>6. \A k \in Machine : \A s \in Branches' : Waiting(k) \cap Added(s) = {}
  BY DEF Work
<1>7. \A k \in Machine : \A s \in Branches' : Waiting(k)' \cap Added(s) = {}
  BY <1>2, <1>3, <1>4, <1>6
<1>8. ASSUME NEW k \in Machine, k # m PROVE Waiting(m)' \cap Waiting(k)' = {}
  <2>1. Waiting(k)' = Waiting(k) /\ Waiting(k) \subseteq 1..runs
    BY <1>5, <1>8
  <2>2. Waiting(m) \cap Waiting(k) = {}
    BY <1>8 DEF Work
  <2> QED BY <1>3, <2>1, <2>2
<1>9. ASSUME NEW k \in Machine, NEW n \in Machine, k # n
      PROVE  Waiting(k)' \cap Waiting(n)' = {}
  <2>1. CASE k = m \/ n = m
    BY <1>8, <1>9, <2>1
  <2>2. CASE k # m /\ n # m
    BY <1>9, <2>2 DEF Work
  <2> QED BY <2>1, <2>2
<1>10. /\ \A s \in Branches' : Added(s) \subseteq 1..runs'
       /\ \A k \in Machine : Waiting(k)' \subseteq 1..runs'
  BY <1>2, <1>3, <1>4, <1>5
<1> QED BY <1>7, <1>9, <1>10 DEF Work

\* A commit moves the worktree's runs onto its branch.
LEMMA WorkCommit ==
  ASSUME Typed, Typed', Work, NEW m \in Machine, CommitWorktree(m)
  PROVE  Work'
<1>1. /\ Waiting(m)' = {} /\ dirty[m] \subseteq Waiting(m) /\ runs' = runs
      /\ origin' = origin /\ \A k \in Machine : k # m => local'[k] = local[k]
  <2>1. /\ runs' = runs /\ origin' = origin /\ pc'[m] = "pushing" /\ dirty'[m] = {}
    BY DEF CommitWorktree, Go, remoteVars, Typed, Sized, TypeOK
  <2>2. \A k \in Machine : k # m => local'[k] = local[k]
    BY OthersRest DEF Step
  <2> QED BY <2>1, <2>2 DEF Waiting
<1>2. Added(local'[m]) \subseteq Added(local[m]) \cup dirty[m]
  <2>1. local \in [Machine -> Seq(Commit)]
    BY DEF Typed, Sized, TypeOK
  <2>2. ASSUME NEW c \in Commit, c.adds = dirty[m],
               local' = [local EXCEPT ![m] = Append(local[m], c)]
        PROVE  Added(local'[m]) \subseteq Added(local[m]) \cup dirty[m]
    BY <2>1, <2>2, AppendAdds
  <2> QED BY <2>2, CommitOf
<1>3. ASSUME NEW k \in Machine, k # m PROVE Waiting(k)' = Waiting(k)
  BY <1>3, OthersRest DEF Step, Waiting
<1>4. ASSUME NEW s \in Branches'
      PROVE  \A c \in Added(s) : c \in dirty[m] \/ \E t \in Branches : c \in Added(t)
  <2>1. CASE s = local'[m]
    BY <1>2, <2>1 DEF Branches
  <2>2. CASE s \in Branches
    BY <2>2
  <2> QED BY <1>1, <1>4, <2>1, <2>2 DEF Branches
<1>5. \A s \in Branches' : Added(s) \subseteq 1..runs
  BY <1>1, <1>4 DEF Work
<1>6. ASSUME NEW k \in Machine, NEW s \in Branches' PROVE Waiting(k)' \cap Added(s) = {}
  <2>1. CASE k = m
    BY <1>1, <2>1
  <2>2. CASE k # m
    <3>1. Waiting(k) \cap Waiting(m) = {} /\ Waiting(k)' = Waiting(k)
      BY <1>3, <2>2 DEF Work
    <3>2. \A t \in Branches : Waiting(k) \cap Added(t) = {}
      BY DEF Work
    <3> QED BY <1>1, <1>4, <3>1, <3>2
  <2> QED BY <2>1, <2>2
<1>7. ASSUME NEW k \in Machine
      PROVE  /\ Waiting(k)' \subseteq 1..runs
             /\ \A n \in Machine : k # n => Waiting(k)' \cap Waiting(n)' = {}
  BY <1>1, <1>3 DEF Work
<1> QED BY <1>1, <1>5, <1>6, <1>7 DEF Work

\* Nothing a step leaves on the branches was not there before, but for commits;
\* a worktree gets the run that begins.
LEMMA StepRests ==
  ASSUME Typed, Typed', Pointers, NEW m \in Machine, Step(m), ~CommitWorktree(m)
  PROVE  /\ \/ local' = local
            \/ /\ origin' = origin
               /\ head[m] = local[m] /\ worktree[m] # "detached"
               /\ \E tip \in Seq(Commit) : IsPrefix(tip, origin) /\ Rebase(m, tip)
         /\ runs' \in Nat /\ runs <= runs'
         /\ Waiting(m)' \subseteq Waiting(m) \cup (runs + 1..runs')
<1> USE DEF Typed, Sized, TypeOK, remoteVars, cloneVars, treeVars, syncVars, Go, Leave,
            Proceed
<1>1. runs \in Nat /\ runs' \in Nat
  OBVIOUS
<1>2. CASE EnsureWorktree(m)
  <2>1. PICK tip \in {origin, tracking[m]} :
          \/ /\ Enter(m, tip) /\ pc' = [pc EXCEPT ![m] = "fetching"]
             /\ runs' = runs + 1 /\ run' = [run EXCEPT ![m] = runs + 1]
          \/ UNCHANGED <<local, status, pc, runs, run>>
    BY <1>2 DEF EnsureWorktree
  <2>2. origin' = origin /\ dirty' = dirty /\ pc[m] = "idle"
    BY <1>2 DEF EnsureWorktree
  <2>3. tip \in Seq(Commit) /\ IsPrefix(tip, origin)
    BY PrefixReflexive DEF Pointers, PointersOf
  <2>4. CASE /\ Enter(m, tip) /\ pc' = [pc EXCEPT ![m] = "fetching"]
             /\ runs' = runs + 1 /\ run' = [run EXCEPT ![m] = runs + 1]
    <3>1. runs + 1 \in runs + 1..runs' /\ runs <= runs'
      BY <1>1, <2>4
    <3>2. Waiting(m)' = dirty[m] \cup {runs + 1} /\ dirty[m] \subseteq Waiting(m)
      BY <2>2, <2>4 DEF Waiting
    <3>3. Rebase(m, tip) /\ head[m] = local[m] /\ worktree[m] # "detached"
      BY <2>4 DEF Enter, OnBranch, Attached
    <3> QED BY <1>1, <2>2, <2>3, <2>4, <3>1, <3>2, <3>3
  <2>5. CASE UNCHANGED <<local, status, pc, runs, run>>
    BY <1>1, <2>2, <2>5 DEF Waiting
  <2> QED BY <2>1, <2>4, <2>5
<1>3. CASE RunSources(m)
  BY <1>1, <1>3 DEF RunSources, Waiting
<1>4. CASE \/ FetchOnly(m) \/ Stop(m) \/ Push(m) \/ PushUnconfirmed(m)
           \/ StopMidRebase(m) \/ ResolveManually(m)
  <2>1. local' = local /\ dirty' = dirty /\ runs' = runs
    BY <1>4 DEF FetchOnly, Stop, Push, PushUnconfirmed, StopMidRebase, ResolveManually
  <2>2. pc'[m] # "fetching"
    BY <1>4 DEF FetchOnly, Stop, Push, PushUnconfirmed, StopMidRebase, ResolveManually
  <2>3. Waiting(m)' \subseteq Waiting(m)
    BY <2>1, <2>2 DEF Waiting
  <2> QED BY <1>1, <2>1, <2>3
<1>5. CASE PushRejected(m) \/ SyncFails(m) \/ Refetch(m)
  <2>1. local' = local /\ dirty' = dirty /\ runs' = runs
    BY <1>5 DEF PushRejected, SyncFails, Refetch
  <2>2. pc'[m] # "fetching"
    BY <1>5 DEF PushRejected, SyncFails, Refetch
  <2>3. Waiting(m)' \subseteq Waiting(m)
    BY <2>1, <2>2 DEF Waiting
  <2> QED BY <1>1, <2>1, <2>3
<1>6. CASE RebaseOnRemote(m)
  <2>1. /\ Rebase(m, tracking[m]) /\ origin' = origin /\ dirty' = dirty
        /\ pc'[m] = "pushing" /\ runs' = runs
    BY <1>6 DEF RebaseOnRemote
  <2>2. tracking[m] \in Seq(Commit) /\ IsPrefix(tracking[m], origin)
    BY DEF Pointers, PointersOf
  <2>3. head[m] = local[m] /\ worktree[m] # "detached"
    BY <1>6, OnItsBranch DEF RebaseOnRemote
  <2> QED BY <1>1, <2>1, <2>2, <2>3 DEF Waiting
<1>7. CASE PointLastGood(m) \/ PublishPointer(m)
  BY <1>1, <1>7 DEF PointLastGood, PublishPointer, Waiting
<1>8. CASE ComparePointer(m) \/ StorePointer(m)
  BY <1>1, <1>8 DEF ComparePointer, StorePointer, Waiting
<1> HIDE DEF Typed, Sized, TypeOK
<1> QED BY <1>2, <1>3, <1>4, <1>5, <1>6, <1>7, <1>8 DEF Step, Pushing, Pointing

LEMMA LineageInit == Init => Lineage /\ Work
<1> SUFFICES ASSUME Init PROVE Lineage /\ Work
  OBVIOUS
<1>1. \A s \in Branches : s = <<>>
  BY DEF Init, Branches
<1>2. DOMAIN <<>> = {} /\ Added(<<>>) = {}
  BY EmptySeq, LenProperties DEF Added
<1>3. \A s \in Branches : DOMAIN s = {} /\ Added(s) = {}
  BY <1>1, <1>2
<1>4. \A m \in Machine : Waiting(m) = {} /\ local[m] \in Branches
  BY DEF Init, Waiting, Branches
<1>5. Lineage
  BY <1>3, <1>4 DEF Lineage, HistoryShared
<1>6. Work
  BY <1>3, <1>4 DEF Work
<1> QED BY <1>5, <1>6

LEMMA LineageStep ==
  ASSUME Typed, Typed', Pointers, Lineage, Work, [Next]_vars
  PROVE  Lineage' /\ Work'
<1>1. CASE UNCHANGED vars
  BY <1>1 DEF vars, remoteVars, cloneVars, treeVars, syncVars, Lineage, Work,
     Branches, Waiting
<1>2. ASSUME NEW m \in Machine, CommitWorktree(m) PROVE Lineage' /\ Work'
  BY <1>2, LineageCommit, WorkCommit
<1>3. ASSUME NEW m \in Machine, Step(m), ~CommitWorktree(m) PROVE Lineage' /\ Work'
  <2>1. /\ runs' \in Nat /\ runs <= runs'
        /\ Waiting(m)' \subseteq Waiting(m) \cup (runs + 1..runs')
    BY <1>3, StepRests
  <2>2. \A k \in Machine : k # m => Waiting(k)' = Waiting(k)
    BY <1>3, OthersRest DEF Waiting
  <2>3. /\ IsPrefix(origin, origin')
        /\ origin' # origin => origin' = local[m] /\ local' = local
    BY <1>3, PublishedGrows
  <2>4. /\ origin \in Seq(Commit) /\ origin' \in Seq(Commit)
        /\ local \in [Machine -> Seq(Commit)]
    BY DEF Typed, Sized, TypeOK
  <2>5. Added(origin) \subseteq Added(origin')
    BY <2>3, <2>4, PrefixAdds
  <2>6. CASE local' = local
    <3>1. Branches' \subseteq Branches
      BY <2>3, <2>6 DEF Branches
    <3>2. Lineage'
      BY <2>3, <2>5, <2>6, LineageRests
    <3> QED BY <2>1, <2>2, <3>1, <3>2, WorkRests
  <2>7. ASSUME NEW tip \in Seq(Commit), IsPrefix(tip, origin), Rebase(m, tip),
               origin' = origin, head[m] = local[m], worktree[m] # "detached"
        PROVE  Lineage' /\ Work'
    <3>1. Lineage'
      BY <2>7, LineageRebase
    <3>2. local' = [local EXCEPT ![m] = Rebased(m, tip)]
      BY <2>4, <2>7 DEF Rebase, Move
    <3>3. Added(Rebased(m, tip)) \subseteq Added(origin) \cup Added(local[m])
      BY <2>4, <2>7, RebasedAdds, PrefixAdds
    <3>4. origin \in Branches /\ local[m] \in Branches
      BY DEF Branches
    <3>5. ASSUME NEW s \in Branches'
          PROVE  \A c \in Added(s) : \E t \in Branches : c \in Added(t)
      <4>1. CASE s = Rebased(m, tip)
        BY <3>3, <3>4, <4>1
      <4>2. CASE s \in Branches
        BY <4>2
      <4>3. s \in Branches \/ s = Rebased(m, tip)
        BY <2>4, <2>7, <3>2 DEF Branches
      <4> QED BY <4>1, <4>2, <4>3
    <3> QED BY <2>1, <2>2, <3>1, <3>5, WorkRests
  <2> QED BY <1>3, <2>6, <2>7, StepRests
<1> QED BY <1>1, <1>2, <1>3 DEF Next, Step

\* A step keeps what a branch holds, and what a worktree held is in it or on
\* its branch.
LEMMA StepKeeps ==
  ASSUME Typed, Typed', Pointers, NEW m \in Machine, Step(m)
  PROVE  /\ Added(origin) \subseteq Added(origin')
         /\ Added(local[m]) \subseteq Added(local'[m])
         /\ dirty[m] \subseteq dirty'[m] \cup Added(local'[m])
<1>1. /\ origin \in Seq(Commit) /\ origin' \in Seq(Commit)
      /\ local \in [Machine -> Seq(Commit)] /\ dirty \in [Machine -> SUBSET (1..MaxRuns)]
      /\ status \in [Machine -> Health]
  BY DEF Typed, Sized, TypeOK
<1>2. Added(origin) \subseteq Added(origin')
  BY <1>1, PublishedGrows, PrefixAdds
<1>3. CASE CommitWorktree(m)
  <2>1. CASE dirty[m] = {} /\ local' = local
    BY <1>2, <2>1
  <2>2. ASSUME NEW c \in Commit, c.adds = dirty[m],
               local' = [local EXCEPT ![m] = Append(local[m], c)]
        PROVE  /\ Added(local[m]) \subseteq Added(local'[m])
               /\ dirty[m] \subseteq Added(local'[m])
    BY <1>1, <2>2, AppendAdds
  <2> QED BY <1>2, <1>3, <2>1, <2>2, CommitOf
<1>4. CASE ~CommitWorktree(m)
  <2>1. dirty[m] \subseteq dirty'[m]
    BY <1>1, <1>4 DEF Step, Pushing, Pointing, EnsureWorktree, RunSources, FetchOnly,
       Push, PushUnconfirmed, PushRejected, Refetch, RebaseOnRemote, SyncFails,
       PointLastGood, PublishPointer, ComparePointer, StorePointer, Stop,
       StopMidRebase, ResolveManually, treeVars
  <2>2. CASE local' = local
    BY <1>2, <2>1, <2>2
  <2>3. ASSUME NEW tip \in Seq(Commit), Rebase(m, tip), head[m] = local[m],
               worktree[m] # "detached"
        PROVE  Added(local[m]) \subseteq Added(local'[m])
    <3>1. local'[m] = Rebased(m, tip)
      BY <1>1, <2>3 DEF Rebase, Move
    <3> QED BY <1>1, <2>3, <3>1, RebasedAdds
  <2> QED BY <1>2, <1>4, <2>1, <2>2, <2>3, StepRests
<1> QED BY <1>3, <1>4

LEMMA KeptStep ==
  ASSUME Typed, Typed', Pointers, [Next]_vars
  PROVE  [\A c \in 1..MaxRuns : Kept(c) => Kept(c)']_vars
<1> SUFFICES ASSUME Next, NEW c \in 1..MaxRuns, Kept(c) PROVE Kept(c)'
  OBVIOUS
<1>1. PICK m \in Machine : Step(m)
  BY DEF Next, Step
<1>2. /\ Added(origin) \subseteq Added(origin')
      /\ Added(local[m]) \subseteq Added(local'[m])
      /\ dirty[m] \subseteq dirty'[m] \cup Added(local'[m])
  BY <1>1, StepKeeps
<1>3. \A k \in Machine : k # m => local'[k] = local[k] /\ dirty'[k] = dirty[k]
  BY <1>1, OthersRest
<1>4. /\ c \in Added(origin') => Kept(c)'
      /\ \A k \in Machine : c \in Added(local'[k]) \/ c \in dirty'[k] => Kept(c)'
  BY DEF Kept, Branches
<1>5. \/ c \in Added(origin)
      \/ \E k \in Machine : c \in Added(local[k]) \/ c \in dirty[k]
  BY DEF Kept, Branches
<1> QED BY <1>2, <1>3, <1>4, <1>5

-----------------------------------------------------------------------------

Inv == Typed /\ Pointers /\ Lineage /\ Work

THEOREM Inductive == Spec => []Inv
<1>1. Init => Inv
  BY TypedInit, PointersInit, LineageInit DEF Inv
<1>2. Inv /\ [Next]_vars => Inv'
  BY TypedStep, PointersStep, LineageStep DEF Inv
<1> QED BY <1>1, <1>2, PTL DEF Spec

\* Every variable keeps its type, and no run pushes or points more often than
\* PUSH_ATTEMPTS (git.rs:16).
THEOREM TypeCorrect == Spec => []TypeOK
<1>1. Inv => TypeOK
  BY DEF Inv, Typed, Sized
<1> QED BY <1>1, Inductive, PTL

\* "Push, never force" (docs/git-model.md:143), and rebase: whatever the races,
\* crashes, lost answers and half-finished rebases, a run is the same commit, with
\* the same history before it, in every branch and pointer of every machine.
THEOREM HistoriesAgree == Spec => []OneHistory
<1>1. ASSUME Inv PROVE OneHistory
  <2>1. origin \in Seq(Commit)
    BY <1>1 DEF Inv, Typed, Sized, TypeOK
  <2>2. \A s \in Refs : s \in Seq(Commit) /\ (s \in Branches \/ IsPrefix(s, origin))
    BY <1>1 DEF Refs, Branches, Inv, Typed, Sized, TypeOK, Pointers, PointersOf
  <2>3. \A s, t \in Branches : HistoryShared(s, t)
    BY <1>1 DEF Inv, Lineage
  <2>4. origin \in Branches /\ \A s \in Branches : s \in Refs
    BY DEF Branches, Refs
  <2>5. ASSUME NEW s \in Refs, NEW t \in Branches PROVE HistoryShared(s, t)
    BY <2>1, <2>2, <2>3, <2>4, PrefixShares
  <2>6. ASSUME NEW s \in Refs, NEW t \in Refs PROVE HistoryShared(s, t)
    <3>1. CASE t \in Branches
      BY <2>5, <3>1
    <3>2. CASE IsPrefix(t, origin)
      <4>1. HistoryShared(origin, s)
        BY <2>1, <2>2, <2>4, <2>5, SharedTurned
      <4>2. HistoryShared(t, s)
        BY <2>1, <2>2, <3>2, <4>1, PrefixShares
      <4> QED BY <2>2, <4>2, SharedTurned
    <3> QED BY <2>2, <3>1, <3>2
  <2> QED BY <2>6 DEF OneHistory
<1>2. Inv => OneHistory
  BY <1>1
<1> QED BY <1>2, Inductive, PTL

\* refs/aggr/last-good, on the remote and in every clone, names a published
\* commit: the branch that names one it was pushed with has only grown since.
THEOREM PointersStayPublished == Spec => []PointerPublished
<1>1. Inv => PointerPublished
  BY DEF Inv, Pointers, PointersOf, PointerPublished
<1> QED BY <1>1, Inductive, PTL

\* "Advance an auxiliary ref without ever moving it backwards" (git.rs:517),
\* though a run stores a pointer it compared several steps before.
THEOREM PointersAdvance == Spec => PointerAdvances
<1>1. ASSUME Inv, Inv', [Next]_vars
      PROVE  [/\ IsPrefix(originGood, originGood')
              /\ \A m \in Machine : IsPrefix(good[m], good'[m])]_<<originGood, good>>
  BY <1>1, PointersStep DEF Inv
<1> QED BY <1>1, Inductive, PTL DEF Spec, PointerAdvances

\* No rebase or retried push replays a run that a branch already has, and what
\* waits in a worktree has not been committed before.
THEOREM RunsCommittedOnce == Spec => []CommittedOnce
<1>1. ASSUME Inv PROVE CommittedOnce
  <2>1. \A branch \in Branches : HistoryShared(branch, branch)
    BY <1>1 DEF Inv, Lineage
  <2>2. \A branch \in Branches : \A i, j \in DOMAIN branch :
          i # j => branch[i].adds \cap branch[j].adds = {}
    BY <2>1 DEF HistoryShared
  <2>3. \A m \in Machine : dirty[m] \cap Added(local[m]) = {}
    BY <1>1 DEF Inv, Work, Waiting, Branches
  <2> QED BY <2>2, <2>3 DEF CommittedOnce
<1>2. Inv => CommittedOnce
  BY <1>1
<1> QED BY <1>2, Inductive, PTL

\* What a run wrote stays published, committed or in the worktree it was written
\* to, through every crash, conflict, lost answer and rebase.
THEOREM WorkNeverDropped == Spec => NothingDropped
<1>1. ASSUME Inv, Inv', [Next]_vars
      PROVE  [\A c \in 1..MaxRuns : Kept(c) => Kept(c)']_vars
  BY <1>1, KeptStep DEF Inv
<1> QED BY <1>1, Inductive, PTL DEF Spec, NothingDropped
=============================================================================
