--------------------------- MODULE CompactionProofs ---------------------------
(***************************************************************************)
(* The web provider answers each call for its own history, and a           *)
(* checkpoint opens at home only (Compaction), for any tasks, routes,      *)
(* events, texts, histories and bounds.                                    *)
(*                                                                         *)
(* The histories grow without bound and are read by recursive functions    *)
(* (Within, FlattenSeq).  What these compute is proved by induction        *)
(* without the induction theorems, which take an operator: a set of        *)
(* numbers that is not empty has a least one, and a step fails nowhere if  *)
(* it has no first failure (FirstOne, Reaches, StepByStep).                *)
(***************************************************************************)
EXTENDS Compaction, Integers, SequenceTheorems, FiniteSetTheorems, WellFoundedInduction, TLAPS

-----------------------------------------------------------------------------
(* Induction over a number: what fails has a first failure.                *)

\* A set of numbers has a least one.
LEMMA FirstOne ==
  ASSUME NEW S \in SUBSET Nat, S # {}
  PROVE  \E n \in S : \A m \in S : n <= m
<1> DEFINE T == {1..n : n \in S}
<1>1. T \subseteq FiniteSubsetsOf(Nat)
  <2> SUFFICES ASSUME NEW n \in S PROVE 1..n \in FiniteSubsetsOf(Nat)
    OBVIOUS
  <2>1. IsFiniteSet(1..n)
    BY FS_Interval
  <2> QED BY <2>1 DEF FiniteSubsetsOf
<1>2. T # {}
  OBVIOUS
<1>3. \E x \in T : \A y \in T : ~ (<<y, x>> \in StrictSubsetOrdering(Nat))
  <2> HIDE DEF T
  <2> QED BY <1>1, <1>2, FS_StrictSubsetOrderingWellFounded, WFMin
<1>4. PICK n \in S : \A y \in T : ~ (<<y, 1..n>> \in StrictSubsetOrdering(Nat))
  BY <1>3
<1>5. ASSUME NEW m \in S, ~ (n <= m)
      PROVE  FALSE
  <2>1. n \in Nat /\ m \in Nat /\ m < n
    BY <1>5
  <2>2. 1..m \subseteq 1..n /\ n \in 1..n /\ n \notin 1..m
    BY <2>1
  <2>3. 1..m # 1..n
    BY <2>2
  <2>4. <<1..m, 1..n>> \in StrictSubsetOrdering(Nat)
    BY <2>1, <2>2, <2>3 DEF StrictSubsetOrdering
  <2> QED BY <1>4, <1>5, <2>4
<1> QED BY <1>5

\* From one number to the next, for a set of numbers.
LEMMA Reaches ==
  ASSUME NEW n \in Nat, NEW S,
         0 \in S,
         \A i \in 1..n : i - 1 \in S => i \in S
  PROVE  \A i \in 0..n : i \in S
<1> DEFINE Out == {i \in 0..n : i \notin S}
<1>1. SUFFICES ASSUME Out # {} PROVE FALSE
  OBVIOUS
<1>2. Out \in SUBSET Nat
  OBVIOUS
<1>3. \E k \in Out : \A m \in Out : k <= m
  <2> HIDE DEF Out
  <2> QED BY <1>1, <1>2, FirstOne
<1>4. PICK k \in Out : \A m \in Out : k <= m
  BY <1>3
<1>5. k \in 1..n /\ k - 1 \in 0..n /\ ~(k <= k - 1)
  BY <1>4
<1> QED BY <1>4, <1>5
-----------------------------------------------------------------------------
(* Functions that are defined step by step.                                *)

\* f has n steps from the first value on.
Steps(f, n, V, first, step) ==
  /\ f \in [0..n -> V]
  /\ f[0] = first
  /\ \A i \in 1..n : f[i] = step[i][f[i - 1]]

\* A first value and a step from one value to the next make a function.
LEMMA StepByStep ==
  ASSUME NEW n \in Nat, NEW V, NEW first \in V, NEW step \in [1..n -> [V -> V]]
  PROVE  \E f : Steps(f, n, V, first, step)
<1> DEFINE Fits(k, f) == \A i \in 0..k : f[i] = IF i = 0 THEN first ELSE step[i][f[i - 1]]
           S == {k \in 0..n : \E f \in [0..k -> V] : Fits(k, f)}
<1>1. 0 \in S
  <2> DEFINE h == [i \in 0..0 |-> first]
  <2>1. h \in [0..0 -> V] /\ Fits(0, h)
    OBVIOUS
  <2> HIDE DEF h, Fits
  <2> QED BY <2>1
<1>2. ASSUME NEW k \in 1..n, k - 1 \in S PROVE k \in S
  <2>1. PICK g \in [0..(k - 1) -> V] : Fits(k - 1, g)
    BY <1>2
  <2> DEFINE h == [i \in 0..k |-> IF i = k THEN step[k][g[k - 1]] ELSE g[i]]
  <2>2. k \in Nat /\ k - 1 \in 0..(k - 1) /\ \A i \in 0..k : i # k => i \in 0..(k - 1)
    OBVIOUS
  <2>3. step[k][g[k - 1]] \in V
    <3>1. g[k - 1] \in V
      BY <2>2
    <3> QED BY <3>1
  <2>4. h \in [0..k -> V]
    BY <2>2, <2>3
  <2>5. ASSUME NEW i \in 0..k
        PROVE  h[i] = IF i = 0 THEN first ELSE step[i][h[i - 1]]
    <3>1. i # 0 => i - 1 \in 0..k /\ i - 1 # k
      OBVIOUS
    <3>2. i # 0 => h[i - 1] = g[i - 1]
      BY <3>1
    <3>3. CASE i = k
      <4>1. i # 0 /\ h[i] = step[k][g[k - 1]]
        BY <3>3
      <4> QED BY <3>2, <3>3, <4>1
    <3>4. CASE i # k
      <4>1. i \in 0..(k - 1) /\ h[i] = g[i]
        BY <2>2, <3>4
      <4>2. g[i] = IF i = 0 THEN first ELSE step[i][g[i - 1]]
        BY <2>1, <4>1
      <4> HIDE DEF h
      <4> QED BY <3>2, <4>1, <4>2
    <3> QED BY <3>3, <3>4
  <2>6. Fits(k, h)
    <3> HIDE DEF h
    <3> QED BY <2>5
  <2> HIDE DEF h, Fits
  <2> QED BY <2>4, <2>6
<1>3. n \in S
  <2> HIDE DEF S
  <2>1. \A i \in 0..n : i \in S
    BY <1>1, <1>2, Reaches
  <2> QED BY <2>1
<1>4. PICK f \in [0..n -> V] : Fits(n, f)
  BY <1>3
<1>5. f[0] = first /\ \A i \in 1..n : f[i] = step[i][f[i - 1]]
  <2>1. 0 \in 0..n /\ \A i \in 1..n : i \in 0..n /\ i # 0
    OBVIOUS
  <2> QED BY <1>4, <2>1
<1>6. Steps(f, n, V, first, step)
  BY <1>4, <1>5 DEF Steps
<1> QED BY <1>6

\* Two functions that take the same steps from the same start agree.
LEMMA SameSteps ==
  ASSUME NEW n \in Nat, NEW f, NEW g, f[0] = g[0],
         \A i \in 1..n : f[i - 1] = g[i - 1] => f[i] = g[i]
  PROVE  \A i \in 0..n : f[i] = g[i]
<1> DEFINE S == {i \in 0..n : f[i] = g[i]}
<1>1. 0 \in S
  OBVIOUS
<1>2. \A i \in 1..n : i - 1 \in S => i \in S
  OBVIOUS
<1>3. \A i \in 0..n : i \in S
  <2> HIDE DEF S
  <2> QED BY <1>1, <1>2, Reaches
<1> QED BY <1>3
-----------------------------------------------------------------------------
(* What is taken from a sequence, and sequences put one after another.     *)

\* What is in a longer sequence.
LEMMA SetOfAppend ==
  ASSUME NEW V, NEW s \in Seq(V), NEW x \in V
  PROVE  ToSet(Append(s, x)) = ToSet(s) \cup {x}
<1>1. DOMAIN s = 1..Len(s) /\ DOMAIN Append(s, x) = 1..(Len(s) + 1) /\ Len(s) \in Nat
  OBVIOUS
<1>2. /\ \A i \in 1..Len(s) : Append(s, x)[i] = s[i]
      /\ Append(s, x)[Len(s) + 1] = x
  OBVIOUS
<1> QED BY <1>1, <1>2 DEF ToSet

\* What is in two sequences put together.
LEMMA SetOfConcat ==
  ASSUME NEW V, NEW s \in Seq(V), NEW t \in Seq(V)
  PROVE  ToSet(s \o t) = ToSet(s) \cup ToSet(t)
<1>1. /\ DOMAIN s = 1..Len(s) /\ Len(s) \in Nat
      /\ DOMAIN t = 1..Len(t) /\ Len(t) \in Nat
      /\ DOMAIN (s \o t) = 1..(Len(s) + Len(t))
  OBVIOUS
<1>2. /\ \A i \in 1..Len(s) : (s \o t)[i] = s[i]
      /\ \A i \in 1..Len(t) : (s \o t)[Len(s) + i] = t[i]
  OBVIOUS
<1>3. ASSUME NEW i \in 1..(Len(s) + Len(t)), i \notin 1..Len(s)
      PROVE  i - Len(s) \in 1..Len(t) /\ (s \o t)[i] = t[i - Len(s)]
  BY <1>1, <1>3
<1>4. ASSUME NEW i \in 1..Len(t)
      PROVE  Len(s) + i \in 1..(Len(s) + Len(t))
  BY <1>1
<1>5. \A i \in 1..Len(s) : i \in 1..(Len(s) + Len(t))
  BY <1>1
<1>6. ASSUME NEW x \in ToSet(s \o t) PROVE x \in ToSet(s) \cup ToSet(t)
  <2>1. PICK i \in 1..(Len(s) + Len(t)) : x = (s \o t)[i]
    BY <1>1 DEF ToSet
  <2>2. CASE i \in 1..Len(s)
    BY <1>1, <1>2, <2>1, <2>2 DEF ToSet
  <2>3. CASE i \notin 1..Len(s)
    BY <1>1, <1>3, <2>1, <2>3 DEF ToSet
  <2> QED BY <2>2, <2>3
<1>7. ASSUME NEW x \in ToSet(s) PROVE x \in ToSet(s \o t)
  <2>1. PICK i \in 1..Len(s) : x = s[i]
    BY <1>1 DEF ToSet
  <2> QED BY <1>1, <1>2, <1>5, <2>1 DEF ToSet
<1>8. ASSUME NEW x \in ToSet(t) PROVE x \in ToSet(s \o t)
  <2>1. PICK i \in 1..Len(t) : x = t[i]
    BY <1>1 DEF ToSet
  <2> QED BY <1>1, <1>2, <1>4, <2>1 DEF ToSet
<1> QED BY <1>6, <1>7, <1>8

\* What is in the shortest sequences.
LEMMA SetOfOne ==
  ToSet(<< >>) = {} /\ \A x : ToSet(<<x>>) = {x}
BY DEF ToSet

\* The items that Within takes, one after another.
Takes(f, V, seq, set) ==
  /\ f \in [0..Len(seq) -> Seq(V)]
  /\ f[0] = << >>
  /\ \A i \in 1..Len(seq) :
       f[i] = IF seq[i] \in set THEN Append(f[i - 1], seq[i]) ELSE f[i - 1]
  /\ Within(seq, set) = f[Len(seq)]

\* Within is the last of a row of steps.
LEMMA WithinSteps ==
  ASSUME NEW V, NEW seq \in Seq(V), NEW set
  PROVE  \E f : Takes(f, V, seq, set)
<1> DEFINE step == [i \in 1..Len(seq) |-> [v \in Seq(V) |->
                     IF seq[i] \in set THEN Append(v, seq[i]) ELSE v]]
           Is(f) == f = [i \in 0..Len(seq) |->
                      IF i = 0 THEN << >>
                      ELSE IF seq[i] \in set THEN Append(f[i - 1], seq[i]) ELSE f[i - 1]]
<1>1. Len(seq) \in Nat /\ << >> \in Seq(V) /\ \A i \in 1..Len(seq) : seq[i] \in V
  OBVIOUS
<1>2. step \in [1..Len(seq) -> [Seq(V) -> Seq(V)]]
  BY <1>1
<1>3. PICK f : Steps(f, Len(seq), Seq(V), << >>, step)
  <2> HIDE DEF step
  <2> QED BY <1>1, <1>2, StepByStep
<1>4. ASSUME NEW i \in 1..Len(seq)
      PROVE  step[i][f[i - 1]] = IF seq[i] \in set THEN Append(f[i - 1], seq[i]) ELSE f[i - 1]
  <2>1. i - 1 \in 0..Len(seq)
    BY <1>1
  <2>2. f[i - 1] \in Seq(V)
    BY <1>3, <2>1 DEF Steps
  <2> QED BY <2>2
<1>5. Is(f)
  <2> HIDE DEF step
  <2>1. \A i \in 0..Len(seq) : i # 0 => i \in 1..Len(seq)
    BY <1>1
  <2> QED BY <1>3, <1>4, <2>1 DEF Steps
<1>6. Is(CHOOSE g : Is(g))
  <2> HIDE DEF Is
  <2> QED BY <1>5
<1> DEFINE F == CHOOSE g : Is(g)
<1>7. Within(seq, set) = F[Len(seq)]
  BY Zenon DEF Within
<1>8. /\ F[0] = << >>
      /\ \A i \in 1..Len(seq) :
           F[i] = IF seq[i] \in set THEN Append(F[i - 1], seq[i]) ELSE F[i - 1]
  <2> HIDE DEF F
  <2>1. Is(F)
    BY <1>6 DEF F
  <2>2. 0 \in 0..Len(seq) /\ \A i \in 1..Len(seq) : i \in 0..Len(seq) /\ i # 0
    BY <1>1
  <2> QED BY <2>1, <2>2
<1>9. \A i \in 0..Len(seq) : F[i] = f[i]
  <2> HIDE DEF F
  <2>1. F[0] = f[0] /\ \A i \in 1..Len(seq) : F[i - 1] = f[i - 1] => F[i] = f[i]
    <3>1. 0 \in 0..Len(seq) /\ \A i \in 1..Len(seq) : i \in 0..Len(seq) /\ i # 0
      BY <1>1
    <3>2. f[0] = << >>
      BY <1>5, <3>1
    <3> QED BY <1>8, <1>5, <3>1, <3>2
  <2> QED BY <1>1, <2>1, SameSteps, ZenonT(60)
<1> HIDE DEF F, Is, step
<1>10. Len(seq) \in 0..Len(seq) /\ 0 \in 0..Len(seq) /\ \A i \in 1..Len(seq) : i \in 0..Len(seq) /\ i - 1 \in 0..Len(seq)
  BY <1>1
<1>11. Takes(f, V, seq, set)
  BY <1>3, <1>7, <1>8, <1>9, <1>10 DEF Steps, Takes
<1> QED BY <1>11

\* Within takes the items of the set, and no others.
LEMMA WithinSet ==
  ASSUME NEW V, NEW seq \in Seq(V), NEW set
  PROVE  /\ Within(seq, set) \in Seq(V)
         /\ ToSet(Within(seq, set)) = ToSet(seq) \cap set
<1>0. Len(seq) \in Nat /\ DOMAIN seq = 1..Len(seq) /\ Len(seq) \in 0..Len(seq)
  OBVIOUS
<1>1. PICK f : Takes(f, V, seq, set)
  BY WithinSteps
<1> DEFINE S == {i \in 0..Len(seq) : ToSet(f[i]) = {seq[j] : j \in 1..i} \cap set}
<1>2. 0 \in S
  <2>1. f[0] = << >> /\ 0 \in 0..Len(seq) /\ {seq[j] : j \in 1..0} = {}
    BY <1>0, <1>1 DEF Takes
  <2>2. ToSet(<< >>) = {}
    BY DEF ToSet
  <2> QED BY <2>1, <2>2
<1>3. ASSUME NEW i \in 1..Len(seq), i - 1 \in S PROVE i \in S
  <2>1. i - 1 \in 0..Len(seq) /\ i \in 0..Len(seq) /\ 1..i = (1..(i - 1)) \cup {i}
    BY <1>0
  <2>2. f[i - 1] \in Seq(V) /\ seq[i] \in V
    BY <1>1, <2>1 DEF Takes
  <2>3. {seq[j] : j \in 1..i} = {seq[j] : j \in 1..(i - 1)} \cup {seq[i]}
    BY <2>1
  <2>4. ToSet(f[i - 1]) = {seq[j] : j \in 1..(i - 1)} \cap set
    BY <1>3
  <2>5. f[i] = IF seq[i] \in set THEN Append(f[i - 1], seq[i]) ELSE f[i - 1]
    BY <1>1 DEF Takes
  <2>6. ToSet(Append(f[i - 1], seq[i])) = ToSet(f[i - 1]) \cup {seq[i]}
    BY <2>2, SetOfAppend
  <2>7. ToSet(f[i]) = {seq[j] : j \in 1..i} \cap set
    BY <2>3, <2>4, <2>5, <2>6
  <2> QED BY <2>1, <2>7
<1>4. \A i \in 0..Len(seq) : i \in S
  <2> HIDE DEF S
  <2> QED BY <1>0, <1>2, <1>3, Reaches
<1>5. ToSet(f[Len(seq)]) = {seq[j] : j \in 1..Len(seq)} \cap set
  BY <1>0, <1>4
<1>6. ToSet(seq) = {seq[j] : j \in 1..Len(seq)}
  BY <1>0 DEF ToSet
<1> QED BY <1>0, <1>1, <1>5, <1>6 DEF Takes

\* The sequences that FlattenSeq puts one after another.
Joins(f, V, ss) ==
  /\ f \in [0..Len(ss) -> Seq(V)]
  /\ f[0] = << >>
  /\ \A i \in 1..Len(ss) : f[i] = f[i - 1] \o ss[i]
  /\ FlattenSeq(ss) = f[Len(ss)]

\* FlattenSeq is the last of a row of steps.
LEMMA FlattenSteps ==
  ASSUME NEW V, NEW ss \in Seq(Seq(V))
  PROVE  \E f : Joins(f, V, ss)
<1> DEFINE n == Len(ss)
           step == [i \in 1..n |-> [v \in Seq(V) |-> v \o ss[i]]]
           Is(f) == f = [i \in 1..n |-> IF i = 1 THEN ss[i] ELSE f[i - 1] \o ss[i]]
<1>1. n \in Nat /\ << >> \in Seq(V) /\ \A i \in 1..n : ss[i] \in Seq(V)
  OBVIOUS
<1>2. step \in [1..n -> [Seq(V) -> Seq(V)]]
  BY <1>1
<1>3. PICK f : Steps(f, n, Seq(V), << >>, step)
  <2> HIDE DEF step, n
  <2> QED BY <1>1, <1>2, StepByStep
<1>4. ASSUME NEW i \in 1..n
      PROVE  f[i] = f[i - 1] \o ss[i]
  <2>1. i - 1 \in 0..n
    BY <1>1
  <2>2. f[i - 1] \in Seq(V)
    BY <1>3, <2>1 DEF Steps
  <2> QED BY <1>3, <2>2 DEF Steps
<1>5. CASE n = 0
  <2>1. FlattenSeq(ss) = << >>
    BY <1>5 DEF FlattenSeq
  <2> HIDE DEF step
  <2>2. Joins(f, V, ss)
    BY <1>3, <1>4, <1>5, <2>1 DEF Joins, Steps
  <2> QED BY <2>2
<1>6. CASE n # 0
  <2> DEFINE h == [i \in 1..n |-> f[i]]
  <2>1. ASSUME NEW i \in 1..n
        PROVE  h[i] = IF i = 1 THEN ss[i] ELSE h[i - 1] \o ss[i]
    <3>1. CASE i = 1
      <4>1. f[i] = f[i - 1] \o ss[i]
        BY <1>4
      <4>2. f[i] = << >> \o ss[i]
        <5>1. i - 1 = 0
          BY <3>1
        <5>2. f[0] = << >>
          BY <1>3 DEF Steps
        <5> HIDE DEF h, step
        <5> QED BY <4>1, <5>1, <5>2
      <4> QED BY <1>1, <3>1, <4>2
    <3>2. CASE i # 1
      <4>1. i - 1 \in 1..n
        BY <1>1, <3>2
      <4> QED BY <1>4, <3>2, <4>1
    <3> QED BY <3>1, <3>2
  <2>2. Is(h)
    BY <2>1
  <2>3. Is(CHOOSE g : Is(g))
    <3> HIDE DEF Is, h
    <3> QED BY <2>2
  <2> DEFINE F == CHOOSE g : Is(g)
  <2>4. FlattenSeq(ss) = F[n]
    BY <1>6, Zenon DEF FlattenSeq
  <2>5. \A i \in 1..n : F[i] = IF i = 1 THEN ss[i] ELSE F[i - 1] \o ss[i]
    <3>1. Is(F)
      BY <2>3
    <3> HIDE DEF F
    <3> QED BY <3>1
  <2> DEFINE S == {i \in 0..n : i # 0 => F[i] = f[i]}
  <2>6. 0 \in S
    BY <1>1
  <2>7. ASSUME NEW i \in 1..n, i - 1 \in S PROVE i \in S
    <3> HIDE DEF F
    <3>1. i \in 0..n /\ i - 1 \in 0..n
      BY <1>1
    <3>2. CASE i = 1
      <4>0. f[i] = f[i - 1] \o ss[i]
        BY <1>4
      <4>1. f[i] = << >> \o ss[i]
        <5>1. i - 1 = 0
          BY <3>2
        <5>2. f[0] = << >>
          BY <1>3 DEF Steps
        <5> HIDE DEF h, step
        <5> QED BY <4>0, <5>1, <5>2
      <4>2. F[i] = ss[i]
        BY <2>5, <3>2
      <4> QED BY <1>1, <3>1, <4>1, <4>2
    <3>3. CASE i # 1
      <4>1. F[i - 1] = f[i - 1]
        BY <2>7, <3>1, <3>3
      <4>2. F[i] = F[i - 1] \o ss[i]
        BY <2>5, <3>3
      <4> QED BY <1>4, <3>1, <4>1, <4>2
    <3> QED BY <3>2, <3>3
  <2>8. \A i \in 0..n : i \in S
    <3> HIDE DEF S, n
    <3> QED BY <1>1, <2>6, <2>7, Reaches
  <2>9. FlattenSeq(ss) = f[n]
    <3> HIDE DEF F
    <3>1. n \in 0..n
      BY <1>1
    <3> QED BY <1>6, <2>4, <2>8, <3>1
  <2> HIDE DEF step, F
  <2>10. Joins(f, V, ss)
    BY <1>3, <1>4, <2>9 DEF Joins, Steps
  <2> QED BY <2>10
<1> QED BY <1>5, <1>6

\* One sequence more.
LEMMA FlattenAppend ==
  ASSUME NEW V, NEW ss \in Seq(Seq(V)), NEW s \in Seq(V)
  PROVE  /\ FlattenSeq(ss) \in Seq(V)
         /\ FlattenSeq(Append(ss, s)) = FlattenSeq(ss) \o s
<1> DEFINE n == Len(ss)
           more == Append(ss, s)
<1>1. n \in Nat /\ more \in Seq(Seq(V)) /\ Len(more) = n + 1
  OBVIOUS
<1>2. more[n + 1] = s /\ \A i \in 1..n : more[i] = ss[i]
  OBVIOUS
<1>3. PICK f : Joins(f, V, ss)
  BY FlattenSteps
<1>4. PICK g : Joins(g, V, more)
  <2> HIDE DEF more
  <2> QED BY <1>1, FlattenSteps
<1> HIDE DEF more, n
<1>5. n \in 0..n /\ n + 1 \in 1..(n + 1) /\ (n + 1) - 1 = n /\ \A i \in 1..n : i \in 1..(n + 1)
  BY <1>1
<1>6. f[0] = g[0] /\ \A i \in 1..n : f[i - 1] = g[i - 1] => f[i] = g[i]
  BY <1>1, <1>2, <1>3, <1>4, <1>5 DEF Joins, n
<1>7. f[n] = g[n]
  BY <1>1, <1>5, <1>6, SameSteps, ZenonT(60)
<1>8. FlattenSeq(ss) = f[n] /\ f[n] \in Seq(V)
  BY <1>3, <1>5 DEF Joins, n
<1>9. FlattenSeq(more) = g[n + 1] /\ g[n + 1] = g[n] \o s
  BY <1>1, <1>2, <1>4, <1>5 DEF Joins
<1> QED BY <1>7, <1>8, <1>9 DEF more
-----------------------------------------------------------------------------
\* A sequence of what is in it.
LEMMA InSeq ==
  ASSUME NEW V, NEW W, NEW s \in Seq(V), ToSet(s) \subseteq W
  PROVE  s \in Seq(W)
<1>1. DOMAIN s = 1..Len(s) /\ Len(s) \in Nat
  OBVIOUS
<1>2. \A i \in 1..Len(s) : s[i] \in W
  BY <1>1 DEF ToSet
<1> QED BY <1>1, <1>2, SeqDef

\* The sequence of a set of at most one.
LEMMA SetToSeqSmall ==
  SetToSeq({}) = << >> /\ \A x : SetToSeq({x}) = <<x>>
<1>1. SetToSeq({}) = << >>
  <2>1. Cardinality({}) = 0
    BY FS_EmptySet
  <2>2. << >> \in [1..0 -> {}] /\ IsInjective(<< >>)
    BY DEF IsInjective
  <2>3. \A f \in [1..0 -> {}] : f = << >>
    OBVIOUS
  <2> QED BY <2>1, <2>2, <2>3 DEF SetToSeq
<1>2. ASSUME NEW x PROVE SetToSeq({x}) = <<x>>
  <2>1. Cardinality({x}) = 1
    BY FS_Singleton
  <2>2. <<x>> \in [1..1 -> {x}] /\ IsInjective(<<x>>)
    BY DEF IsInjective
  <2>3. \A f \in [1..1 -> {x}] : f = <<x>>
    <3>1. SUFFICES ASSUME NEW f \in [1..1 -> {x}] PROVE f = <<x>>
      OBVIOUS
    <3>2. f \in Seq({x}) /\ Len(f) = 1 /\ f[1] = x
      OBVIOUS
    <3> QED BY <3>2
  <2> QED BY <2>1, <2>2, <2>3 DEF SetToSeq
<1> QED BY <1>1, <1>2
-----------------------------------------------------------------------------
(* Histories and what is shown of them.                                    *)

Said == Texts \cup {"none"}
Shown == Events \cup [type : {"summary"}, text : Said, made : SUBSET Events]

\* A result comes after its call.
Complete(items) ==
  \A x \in items : x.type = "result" => Item("call", x.id) \in items

\* A checkpoint: bound to the task and route it is of, with its unanswered calls.
Tokens ==
  {x \in [type : {"token"}, home : [task : Tasks, window : {0}, route : Routes], text : Said,
          made : SUBSET Events, of : [task : Tasks, route : Routes], pending : Seq(Events)] :
     /\ x.home = [task |-> x.of.task, window |-> 0, route |-> x.of.route]
     /\ ToSet(x.pending) = Unanswered(x.made)
     /\ Complete(x.made)}
Held == Events \cup Tokens

\* What an item of a history is shown as.
Opened(x) == IF IsToken(x) THEN <<Summary(x.text, x.made)>> \o x.pending ELSE <<x>>

\* What an event is, and that it is shown as itself.
LEMMA EventFits ==
  ASSUME NEW x \in Events
  PROVE  /\ x = Item(x.type, x.id) /\ x.type \in {"user", "call", "result"} /\ x.id \in Nat
         /\ Tells(x) = {x} /\ ~IsToken(x) /\ Opened(x) = <<x>>
BY CompactionAssumption DEF Item, Tells, IsToken, Opened

\* What a checkpoint is, and what it is shown as.
LEMMA TokenFits ==
  ASSUME NEW x \in Tokens
  PROVE  /\ IsToken(x) /\ Tells(x) = x.made /\ x.made \subseteq Events
         /\ x.pending \in Seq(Events) /\ Summary(x.text, x.made) \in Shown
         /\ Opened(x) = <<Summary(x.text, x.made)>> \o x.pending
         /\ ToSet(x.pending) = Unanswered(x.made)
         /\ Complete(x.made)
         /\ x.home = [task |-> x.of.task, window |-> 0, route |-> x.of.route]
         /\ x.of = [task |-> x.of.task, route |-> x.of.route]
BY DEF Tokens, IsToken, Tells, Shown, Summary, Opened

\* What an item of a prompt tells.
LEMMA ShownFits ==
  ASSUME NEW x \in Shown
  PROVE  /\ Tells(x) \subseteq Events
         /\ x.type = "summary" => Tells(x) = x.made
         /\ x.type # "summary" => x \in Events /\ Tells(x) = {x}
BY EventFits, CompactionAssumption DEF Shown, Tells

\* Every item of a history can be shown.
LEMMA OpenedFits ==
  ASSUME NEW x \in Held
  PROVE  Opened(x) \in Seq(Shown)
<1>1. CASE x \in Events
  <2>1. Opened(x) = <<x>> /\ x \in Shown
    BY <1>1, EventFits DEF Shown
  <2> QED BY <2>1
<1>2. CASE x \in Tokens
  <2>1. PICK s, p : /\ s = Summary(x.text, x.made) /\ p = x.pending
                    /\ s \in Shown /\ p \in Seq(Events) /\ Opened(x) = <<s>> \o p
    BY <1>2, TokenFits
  <2>2. p \in Seq(Shown)
    BY <2>1, SeqMonotonic DEF Shown
  <2>3. <<s>> \in Seq(Shown)
    BY <2>1
  <2> QED BY <2>1, <2>2, <2>3
<1> QED BY <1>1, <1>2 DEF Held

\* One item more.
LEMMA ExpandedAppend ==
  ASSUME NEW h \in Seq(Held), NEW x \in Held
  PROVE  /\ Expanded(h) \in Seq(Shown)
         /\ Expanded(Append(h, x)) = Expanded(h) \o Opened(x)
<1> DEFINE ss == [i \in DOMAIN h |-> Opened(h[i])]
           more == Append(h, x)
           tt == [i \in DOMAIN more |-> Opened(more[i])]
<1>1. DOMAIN h = 1..Len(h) /\ Len(h) \in Nat /\ \A i \in 1..Len(h) : h[i] \in Held
  OBVIOUS
<1>2. ss \in Seq(Seq(Shown)) /\ Len(ss) = Len(h)
  <2>1. \A i \in 1..Len(h) : Opened(h[i]) \in Seq(Shown)
    BY <1>1, OpenedFits
  <2> QED BY <1>1, <2>1
<1>3. /\ DOMAIN more = 1..(Len(h) + 1)
      /\ more[Len(h) + 1] = x
      /\ \A i \in 1..Len(h) : more[i] = h[i]
  BY <1>1
<1>4. tt = Append(ss, Opened(x))
  <2> HIDE DEF more
  <2>1. \A i \in 1..(Len(h) + 1) : i # Len(h) + 1 => i \in 1..Len(h)
    BY <1>1
  <2>2. Opened(x) \in Seq(Shown)
    BY OpenedFits
  <2>3. \A i \in 1..(Len(h) + 1) : tt[i] = IF i = Len(h) + 1 THEN Opened(x) ELSE ss[i]
    BY <1>1, <1>3, <2>1
  <2>4. tt \in Seq(Seq(Shown)) /\ Len(tt) = Len(h) + 1
    <3>1. \A i \in 1..(Len(h) + 1) : Opened(more[i]) \in Seq(Shown)
      BY <1>1, <1>3, <2>1, OpenedFits
    <3> QED BY <1>1, <1>3, <3>1
  <2> HIDE DEF ss, tt
  <2>5. /\ Append(ss, Opened(x)) \in Seq(Seq(Shown)) /\ Len(Append(ss, Opened(x))) = Len(h) + 1
        /\ \A i \in 1..(Len(h) + 1) :
             Append(ss, Opened(x))[i] = IF i = Len(h) + 1 THEN Opened(x) ELSE ss[i]
    BY <1>1, <1>2, <2>2
  <2> QED BY <2>3, <2>4, <2>5, SeqEqual
<1>5. Expanded(h) = FlattenSeq(ss) /\ Expanded(more) = FlattenSeq(tt)
  BY Zenon DEF Expanded, Opened
<1>6. Opened(x) \in Seq(Shown)
  BY OpenedFits
<1> HIDE DEF ss, tt, more
<1>7. FlattenSeq(ss) \in Seq(Shown) /\ FlattenSeq(Append(ss, Opened(x))) = FlattenSeq(ss) \o Opened(x)
  BY <1>2, <1>6, FlattenAppend
<1> QED BY <1>4, <1>5, <1>7 DEF more

\* A single item is shown as it is opened.
LEMMA ExpandedOne ==
  ASSUME NEW x, Opened(x) \in Seq(Shown)
  PROVE  Expanded(<<x>>) = Opened(x)
<1> DEFINE ss == [i \in DOMAIN <<x>> |-> Opened(<<x>>[i])]
           o == Opened(x)
<1>1. Expanded(<<x>>) = FlattenSeq(ss)
  BY Zenon DEF Expanded, Opened
<1>2. ss = <<o>>
  <2> HIDE DEF o
  <2>1. DOMAIN <<x>> = {1} /\ <<x>>[1] = x
    OBVIOUS
  <2>2. DOMAIN ss = {1} /\ ss[1] = o
    BY <2>1 DEF o
  <2> QED BY <2>1, <2>2
<1> HIDE DEF o, ss
<1>3. o \in Seq(Shown)
  BY DEF o
<1>4. << >> \in Seq(Seq(Shown)) /\ Append(<< >>, o) = <<o>> /\ << >> \o o = o
  BY <1>3
<1>5. FlattenSeq(Append(<< >>, o)) = FlattenSeq(<< >>) \o o
  BY <1>3, <1>4, FlattenAppend
<1>6. FlattenSeq(<< >>) = << >>
  BY DEF FlattenSeq
<1> QED BY <1>1, <1>2, <1>4, <1>5, <1>6 DEF o

\* Two sequences tell what each of them tells.
LEMMA ToldByConcat ==
  ASSUME NEW V, NEW s \in Seq(V), NEW t \in Seq(V)
  PROVE  ToldBy(s \o t) = ToldBy(s) \cup ToldBy(t)
BY SetOfConcat DEF ToldBy

\* One more item tells what it tells.
LEMMA ToldByAppend ==
  ASSUME NEW V, NEW s \in Seq(V), NEW x \in V
  PROVE  ToldBy(Append(s, x)) = ToldBy(s) \cup Tells(x)
BY SetOfAppend DEF ToldBy

\* What the shortest sequences tell.
LEMMA ToldByOne ==
  ToldBy(<< >>) = {} /\ \A x : ToldBy(<<x>>) = Tells(x)
<1>1. \A x : UNION {Tells(y) : y \in {x}} = Tells(x)
  OBVIOUS
<1>2. UNION {Tells(y) : y \in {}} = {}
  OBVIOUS
<1> QED BY <1>1, <1>2, SetOfOne DEF ToldBy

\* Events tell themselves.
LEMMA ToldByEvents ==
  ASSUME NEW s, ToSet(s) \subseteq Events
  PROVE  ToldBy(s) = ToSet(s)
BY EventFits DEF ToldBy
-----------------------------------------------------------------------------
(* A history tells what happened, and shows exactly the unanswered calls.  *)

\* A result is shown after its call.
InOrder(seq) ==
  \A i, j \in DOMAIN seq : i < j /\ seq[j].type = "call" => seq[i] # Item("result", seq[j].id)

Tale(h) ==
  /\ ToldBy(Expanded(h)) = ToldBy(h)
  /\ ToldBy(h) \subseteq Events
  /\ Complete(ToldBy(h))
  /\ Unanswered(ToSet(Expanded(h))) = Unanswered(ToldBy(h))
  /\ InOrder(Expanded(h))

\* The empty history is told.
LEMMA EmptyTale ==
  /\ Expanded(<< >>) = << >> /\ ToldBy(<< >>) = {}
  /\ Tale(<< >>)
<1>1. Expanded(<< >>) = << >>
  <2>1. FlattenSeq([i \in DOMAIN << >> |-> Opened(<< >>[i])]) = Expanded(<< >>)
    BY Zenon DEF Expanded, Opened
  <2>2. [i \in DOMAIN << >> |-> Opened(<< >>[i])] = << >>
    OBVIOUS
  <2>3. FlattenSeq(<< >>) = << >>
    BY DEF FlattenSeq
  <2> QED BY <2>1, <2>2, <2>3
<1>2. ToldBy(<< >>) = {} /\ ToSet(<< >>) = {}
  BY ToldByOne, SetOfOne
<1>3. InOrder(<< >>)
  BY DEF InOrder
<1> QED BY <1>1, <1>2, <1>3 DEF Tale, Complete, Unanswered

\* What a sequence shows is part of what it tells, and of it the events.
LEMMA ShowsTold ==
  ASSUME NEW seq \in Seq(Shown)
  PROVE  /\ ToldBy(seq) \subseteq Events
         /\ ToSet(seq) \cap Events \subseteq ToldBy(seq)
         /\ \A x \in ToSet(seq) : x.type # "summary" => x \in Events /\ x \in ToldBy(seq)
<1>1. ToSet(seq) \subseteq Shown
  BY DEF ToSet
<1>2. \A x \in ToSet(seq) : Tells(x) \subseteq Events /\ (x.type # "summary" => x \in Events /\ Tells(x) = {x})
  BY <1>1, ShownFits
<1>3. \A x \in Events : Tells(x) = {x}
  BY EventFits
<1> HIDE DEF ToSet
<1> QED BY <1>2, <1>3 DEF ToldBy

\* A history that an event is appended to still tells all that happened.
LEMMA TaleGrows ==
  ASSUME NEW h \in Seq(Held), Tale(h), NEW x \in Events, x \notin ToldBy(h),
         x.type = "result" => Item("call", x.id) \in ToldBy(h)
  PROVE  /\ Append(h, x) \in Seq(Held)
         /\ Expanded(Append(h, x)) = Append(Expanded(h), x)
         /\ ToldBy(Append(h, x)) = ToldBy(h) \cup {x}
         /\ Tale(Append(h, x))
<1> DEFINE E == Expanded(h)
           T == ToldBy(h)
<1>1. x \in Held /\ x \in Shown
  BY DEF Held, Shown
<1>2. E \in Seq(Shown) /\ Expanded(Append(h, x)) = E \o Opened(x)
  BY <1>1, ExpandedAppend
<1>3. Expanded(Append(h, x)) = Append(E, x)
  <2>1. Append(E, x) = E \o <<x>>
    BY <1>1, <1>2, AppendIsConcat
  <2> QED BY <1>2, <2>1, EventFits
<1>4. ToldBy(Append(h, x)) = T \cup {x} /\ ToldBy(Append(E, x)) = T \cup {x}
  BY <1>1, <1>2, ToldByAppend, EventFits DEF Tale
<1>5. ToSet(Append(E, x)) = ToSet(E) \cup {x}
  BY <1>1, <1>2, SetOfAppend
<1>6. /\ ToldBy(E) = T /\ T \subseteq Events /\ Complete(T)
      /\ Unanswered(ToSet(E)) = Unanswered(T) /\ InOrder(E)
  BY DEF Tale
<1>7. \A y \in ToSet(E) : y.type # "summary" => y \in Events /\ y \in T
  BY <1>2, <1>6, ShowsTold
<1> HIDE DEF E, T
<1>8. Complete(T \cup {x}) /\ T \cup {x} \subseteq Events
  BY <1>6 DEF Complete, T
<1>9. /\ x = Item(x.type, x.id) /\ x.type \in {"user", "call", "result"}
      /\ \A id : Item("result", id).type = "result" /\ Item("result", id).id = id
      /\ \A id : Item("call", id).type = "call" /\ Item("call", id).id = id
  BY EventFits DEF Item
<1>10. x.type = "call" => Item("result", x.id) \notin T
  BY <1>6, <1>9 DEF Complete, T
<1>11. Unanswered(ToSet(E) \cup {x}) = Unanswered(T \cup {x})
  <2>1. \A S : Unanswered(S \cup {x}) =
          {y \in Unanswered(S) : Item("result", y.id) # x}
            \cup (IF x.type = "call" /\ Item("result", x.id) \notin S \cup {x} THEN {x} ELSE {})
    BY DEF Unanswered
  <2>2. x.type = "call" => Item("result", x.id) \notin T \cup {x} /\ Item("result", x.id) \notin ToSet(E) \cup {x}
    BY <1>7, <1>9, <1>10
  <2>3. Unanswered(ToSet(E) \cup {x}) =
          {y \in Unanswered(ToSet(E)) : Item("result", y.id) # x}
            \cup (IF x.type = "call" /\ Item("result", x.id) \notin ToSet(E) \cup {x} THEN {x} ELSE {})
    BY <2>1
  <2>4. Unanswered(T \cup {x}) =
          {y \in Unanswered(T) : Item("result", y.id) # x}
            \cup (IF x.type = "call" /\ Item("result", x.id) \notin T \cup {x} THEN {x} ELSE {})
    BY <2>1
  <2> QED BY <1>6, <2>2, <2>3, <2>4
<1>12. InOrder(Append(E, x))
  <2>1. SUFFICES ASSUME NEW i \in DOMAIN Append(E, x), NEW j \in DOMAIN Append(E, x), i < j,
                        Append(E, x)[j].type = "call"
                 PROVE  Append(E, x)[i] # Item("result", Append(E, x)[j].id)
    BY DEF InOrder
  <2>2. PICK n \in Nat : n = Len(E)
    BY <1>2
  <2>3. DOMAIN E = 1..n /\ DOMAIN Append(E, x) = 1..(n + 1) /\ i \in 1..n
    BY <1>2, <2>1, <2>2
  <2>4. Append(E, x)[i] = E[i]
    BY <1>2, <2>2, <2>3
  <2>5. CASE j \in 1..n
    <3>1. Append(E, x)[j] = E[j]
      BY <1>2, <2>2, <2>5
    <3> QED BY <1>6, <2>1, <2>3, <2>4, <2>5, <3>1 DEF InOrder
  <2>6. CASE j = n + 1
    <3>1. Append(E, x)[j] = x
      BY <1>2, <2>2, <2>6
    <3>2. E[i] \in ToSet(E)
      BY <2>3 DEF ToSet
    <3>3. E[i] = Item("result", x.id) => E[i] \in T
      BY <1>7, <1>9, <3>2
    <3> QED BY <1>10, <2>1, <2>4, <3>1, <3>3
  <2> QED BY <2>3, <2>5, <2>6
<1> QED BY <1>1, <1>3, <1>4, <1>5, <1>6, <1>8, <1>11, <1>12 DEF Tale, E, T

\* The history that is only a checkpoint.
LEMMA TokenTale ==
  ASSUME NEW x \in Tokens
  PROVE  /\ <<x>> \in Seq(Held)
         /\ ToldBy(<<x>>) = x.made
         /\ Tale(<<x>>)
<1> DEFINE s == Summary(x.text, x.made)
           p == x.pending
<1>1. /\ p \in Seq(Events) /\ s \in Shown /\ Opened(x) = <<s>> \o p
      /\ ToSet(p) = Unanswered(x.made) /\ Complete(x.made) /\ x.made \subseteq Events
      /\ Tells(x) = x.made
  BY TokenFits
<1>2. Tells(s) = x.made /\ s.type = "summary"
  BY DEF Summary, Tells
<1>3. x \in Held /\ <<x>> \in Seq(Held)
  BY DEF Held
<1>4. Expanded(<<x>>) = <<s>> \o p
  BY <1>1, <1>3, ExpandedOne, OpenedFits
<1> HIDE DEF s, p
<1>5. p \in Seq(Shown) /\ <<s>> \in Seq(Shown)
  BY <1>1, SeqMonotonic DEF Shown
<1>6. ToldBy(<<s>> \o p) = x.made
  <2>1. ToldBy(p) = ToSet(p)
    BY <1>1, ToldByEvents DEF Unanswered
  <2>2. ToldBy(<<s>> \o p) = ToldBy(<<s>>) \cup ToldBy(p)
    BY <1>5, ToldByConcat, ZenonT(60)
  <2>3. ToldBy(<<s>>) = x.made /\ ToSet(p) \subseteq x.made
    BY <1>1, <1>2, ToldByOne DEF Unanswered
  <2> QED BY <2>1, <2>2, <2>3
<1>7. ToSet(<<s>> \o p) = {s} \cup Unanswered(x.made)
  <2>1. ToSet(<<s>> \o p) = ToSet(<<s>>) \cup ToSet(p)
    BY <1>5, SetOfConcat, ZenonT(60)
  <2> QED BY <1>1, <2>1, SetOfOne
<1>8. Unanswered({s} \cup Unanswered(x.made)) = Unanswered(x.made)
  BY <1>2 DEF Unanswered, Item
<1>9. ASSUME NEW i \in DOMAIN (<<s>> \o p)
      PROVE  (<<s>> \o p)[i].type # "result"
  <2>1. (<<s>> \o p)[i] \in ToSet(<<s>> \o p)
    BY DEF ToSet
  <2> QED BY <1>2, <1>7, <2>1 DEF Unanswered
<1>10. InOrder(<<s>> \o p)
  <2> SUFFICES ASSUME NEW i \in DOMAIN (<<s>> \o p), NEW j \in DOMAIN (<<s>> \o p)
               PROVE  (<<s>> \o p)[i] # Item("result", (<<s>> \o p)[j].id)
    BY DEF InOrder
  <2> QED BY <1>9 DEF Item
<1>11. ToldBy(<<x>>) = x.made
  BY <1>1, ToldByOne
<1> QED BY <1>1, <1>3, <1>4, <1>6, <1>7, <1>8, <1>10, <1>11 DEF Tale
-----------------------------------------------------------------------------
(* Beginnings of sequences.                                                *)

Upto(seq, n) == SubSeq(seq, 1, n)

\* The beginnings of a sequence.
LEMMA UptoFits ==
  ASSUME NEW V, NEW s \in Seq(V), NEW n \in 0..Len(s)
  PROVE  /\ Upto(s, n) \in Seq(V) /\ Len(Upto(s, n)) = n
         /\ \A i \in 1..n : Upto(s, n)[i] = s[i]
         /\ Upto(s, 0) = << >> /\ Upto(s, Len(s)) = s
         /\ \A k \in 0..n : Upto(Upto(s, n), k) = Upto(s, k)
<1>1. /\ Len(s) \in Nat /\ n \in Nat /\ 0 \in 0..Len(s) /\ Len(s) \in 0..Len(s)
  OBVIOUS
<1>2. ASSUME NEW k \in 0..Len(s)
      PROVE  Upto(s, k) \in Seq(V) /\ Len(Upto(s, k)) = k /\ \A i \in 1..k : Upto(s, k)[i] = s[i]
  BY <1>1 DEF Upto
<1>3. Upto(s, 0) = << >> /\ Upto(s, Len(s)) = s
  BY <1>1, SubSeqEmpty, SubSeqFull DEF Upto
<1>4. ASSUME NEW k \in 0..n
      PROVE  Upto(Upto(s, n), k) = Upto(s, k)
  <2>1. PICK t \in Seq(V) : t = Upto(s, n) /\ Len(t) = n /\ \A i \in 1..n : t[i] = s[i]
    BY <1>2
  <2>2. Upto(t, k) \in Seq(V) /\ Len(Upto(t, k)) = k /\ \A i \in 1..k : Upto(t, k)[i] = t[i]
    BY <2>1 DEF Upto
  <2>3. k \in 0..Len(s) /\ k \in Nat /\ \A i \in 1..k : i \in 1..n
    BY <1>1
  <2>4. Upto(s, k) \in Seq(V) /\ Len(Upto(s, k)) = k /\ \A i \in 1..k : Upto(s, k)[i] = s[i]
    BY <1>2, <2>3
  <2>5. \A i \in 1..k : Upto(t, k)[i] = Upto(s, k)[i]
    BY <2>1, <2>2, <2>3, <2>4
  <2>6. Upto(t, k) = Upto(s, k)
    BY <2>2, <2>4, <2>5, SeqEqual
  <2> QED BY <2>1, <2>6
<1> QED BY <1>2, <1>3, <1>4

\* A longer sequence has the same beginnings.
LEMMA UptoAppend ==
  ASSUME NEW V, NEW s \in Seq(V), NEW x \in V
  PROVE  \A n \in 0..Len(s) : Upto(Append(s, x), n) = Upto(s, n)
<1> SUFFICES ASSUME NEW n \in 0..Len(s) PROVE Upto(Append(s, x), n) = Upto(s, n)
  OBVIOUS
<1>1. PICK t : t = Append(s, x)
  OBVIOUS
<1>0. t \in Seq(V) /\ Len(t) = Len(s) + 1 /\ \A i \in 1..Len(s) : t[i] = s[i]
  BY <1>1
<1>2. n \in Nat /\ Len(s) \in Nat /\ n \in 0..Len(t) /\ \A i \in 1..n : i \in 1..Len(s)
  BY <1>0
<1>3. Upto(t, n) \in Seq(V) /\ Len(Upto(t, n)) = n /\ \A i \in 1..n : Upto(t, n)[i] = t[i]
  BY <1>0, <1>2, UptoFits
<1>4. Upto(s, n) \in Seq(V) /\ Len(Upto(s, n)) = n /\ \A i \in 1..n : Upto(s, n)[i] = s[i]
  BY UptoFits
<1>5. \A i \in 1..n : Upto(t, n)[i] = Upto(s, n)[i]
  BY <1>0, <1>2, <1>3, <1>4
<1>6. Upto(t, n) = Upto(s, n)
  BY <1>3, <1>4, <1>5, SeqEqual
<1> QED BY <1>1, <1>6

\* What the program sees has the same length.
LEMMA BytesFit ==
  ASSUME NEW V, NEW s \in Seq(V)
  PROVE  Len(Bytes(s)) = Len(s)
<1>1. DOMAIN s = 1..Len(s) /\ Len(s) \in Nat
  OBVIOUS
<1>2. PICK n \in Nat : n = Len(s)
  BY <1>1
<1> QED BY <1>1, <1>2 DEF Bytes

\* All but the last item, and the last.
LEMMA FrontAndLast ==
  ASSUME NEW V, NEW s \in Seq(V), Len(s) # 0
  PROVE  /\ Front(s) \in Seq(V) /\ Last(s) \in V
         /\ Len(Front(s)) = Len(s) - 1
         /\ Front(s) = Upto(s, Len(s) - 1)
         /\ s = Append(Front(s), Last(s))
<1>1. PICK n \in Nat : n = Len(s) /\ n \in 1..Len(s)
  OBVIOUS
<1>2. n - 1 \in 0..Len(s) /\ n - 1 \in Nat
  BY <1>1
<1>3. Front(s) = Upto(s, n - 1) /\ Last(s) = s[n] /\ s[n] \in V
  BY <1>1 DEF Front, Last, Upto
<1>4. PICK t \in Seq(V) : t = Upto(s, n - 1) /\ Len(t) = n - 1 /\ \A i \in 1..(n - 1) : t[i] = s[i]
  BY <1>2, UptoFits
<1>5. s = Append(t, s[n])
  <2>1. Append(t, s[n]) \in Seq(V) /\ Len(Append(t, s[n])) = n
        /\ \A i \in 1..n : Append(t, s[n])[i] = IF i = n THEN s[n] ELSE t[i]
    BY <1>3, <1>4
  <2>2. \A i \in 1..n : i # n => i \in 1..(n - 1)
    OBVIOUS
  <2>3. \A i \in 1..n : Append(t, s[n])[i] = s[i]
    BY <1>4, <2>1, <2>2
  <2> QED BY <1>1, <2>1, <2>3, SeqEqual
<1> QED BY <1>1, <1>3, <1>4, <1>5
-----------------------------------------------------------------------------
(* A checkpoint of all but the last item, and the last.                    *)

\* overflow_projection: the prompt with a checkpoint in it tells what the body told,
\* and shows the same calls as unanswered.
LEMMA ContinuationTells ==
  ASSUME NEW body \in Seq(Shown), Len(body) # 0, InOrder(body), NEW token,
         IsToken(token), token.text \in Said, token.made = ToldBy(Front(body)),
         token.pending = Pending(Front(body))
  PROVE  /\ Continuation(body, token) \in Seq(Shown)
         /\ ToldBy(Continuation(body, token)) = ToldBy(body)
         /\ Unanswered(ToSet(Continuation(body, token))) = Unanswered(ToSet(body))
<1> DEFINE F == Front(body)
           x == Last(body)
           u == SetToSeq({body[i] : i \in LatestUser(body) \ {Len(body)}})
           s == Summary(token.text, token.made)
           p == token.pending
<1>1. /\ F \in Seq(Shown) /\ x \in Shown /\ Len(F) = Len(body) - 1 /\ body = Append(F, x)
      /\ F = Upto(body, Len(body) - 1)
  BY FrontAndLast
<1>2. /\ ToldBy(F) \subseteq Events /\ ToSet(F) \cap Events \subseteq ToldBy(F)
      /\ \A y \in ToSet(F) : y.type # "summary" => y \in Events /\ y \in ToldBy(F)
  <2> HIDE DEF F
  <2> QED BY <1>1, ShowsTold
<1>3. /\ p \in Seq(Shown) /\ ToSet(p) = Unanswered(ToSet(F))
      /\ ToSet(p) \subseteq Events /\ ToSet(p) \subseteq ToldBy(F)
  <2> HIDE DEF F
  <2>1. Pending(F) \in Seq(Shown) /\ ToSet(Pending(F)) = ToSet(F) \cap Unanswered(ToSet(F))
    BY <1>1, WithinSet DEF Pending
  <2>2. Pending(F) = p
    BY DEF F
  <2> QED BY <1>2, <2>1, <2>2 DEF Unanswered
<1>4. s \in Shown /\ s.type = "summary" /\ Tells(s) = ToldBy(F) /\ <<s>> \in Seq(Shown)
  <2>1. ToldBy(F) \subseteq Events /\ token.made = ToldBy(F)
    BY <1>2
  <2> HIDE DEF F
  <2> QED BY <2>1 DEF Summary, Shown, Tells
<1>5. Expanded(<<token>>) = <<s>> \o p
  <2>1. Opened(token) = <<s>> \o p
    BY DEF Opened
  <2> HIDE DEF s, p
  <2>2. <<s>> \o p \in Seq(Shown)
    BY <1>3, <1>4
  <2> QED BY <2>1, <2>2, ExpandedOne
<1>6. PICK n \in Nat : n = Len(body) /\ n \in 1..Len(body) /\ DOMAIN body = 1..n
  OBVIOUS
<1>7. PICK us \in SUBSET ToSet(F) :
        /\ u = SetToSeq(us) /\ (us = {} \/ \E y : us = {y})
        /\ \A y \in us : y.type = "user"
  <2> DEFINE us == {body[i] : i \in LatestUser(body) \ {n}}
  <2>1. ASSUME NEW i \in LatestUser(body) \ {n}
        PROVE  body[i] \in ToSet(F) /\ body[i].type = "user"
    <3>1. i \in 1..(n - 1) /\ body[i].type = "user"
      BY <1>6 DEF LatestUser
    <3>2. F[i] = body[i] /\ DOMAIN F = 1..(n - 1)
      <4>1. n - 1 \in 0..Len(body)
        BY <1>6
      <4>2. PICK t \in Seq(Shown) : t = F /\ Len(t) = n - 1 /\ \A k \in 1..(n - 1) : t[k] = body[k]
        BY <1>1, <1>6, <4>1, UptoFits, ZenonT(60)
      <4> HIDE DEF F
      <4> QED BY <3>1, <4>2
    <3> HIDE DEF F
    <3> QED BY <3>1, <3>2 DEF ToSet
  <2>2. \A i, j \in LatestUser(body) : i = j
    <3> SUFFICES ASSUME NEW i \in LatestUser(body), NEW j \in LatestUser(body) PROVE i = j
      OBVIOUS
    <3>1. i \in 1..n /\ j \in 1..n /\ i <= j /\ j <= i
      BY <1>6 DEF LatestUser
    <3> QED BY <3>1
  <2>3. us = {} \/ \E y : us = {y}
    BY <2>2
  <2>4. u = SetToSeq(us)
    BY <1>6
  <2> HIDE DEF F, us, u
  <2>5. us \in SUBSET ToSet(F) /\ \A y \in us : y.type = "user"
    BY <2>1 DEF us
  <2> QED BY <2>3, <2>4, <2>5
<1> HIDE DEF F, x, u, s, p
<1>8. u \in Seq(Shown) /\ ToSet(u) = us
  <2>1. us \subseteq Shown
    BY <1>1 DEF ToSet
  <2>2. CASE us = {}
    <3>1. u = SetToSeq(us) /\ SetToSeq({}) = << >>
      BY <1>7, SetToSeqSmall
    <3>2. u = << >>
      BY <2>2, <3>1, Zenon
    <3>3. ToSet(u) = {}
      BY <3>2, SetOfOne
    <3> QED BY <2>2, <3>2, <3>3
  <2>3. ASSUME NEW y, us = {y} PROVE u \in Seq(Shown) /\ ToSet(u) = us
    <3>1. u = <<y>>
      BY <1>7, <2>3, SetToSeqSmall
    <3>2. ToSet(<<y>>) = {y}
      BY SetOfOne
    <3> QED BY <2>1, <2>3, <3>1, <3>2
  <2> QED BY <1>7, <2>2, <2>3
<1>9. Continuation(body, token) = u \o (<<s>> \o p) \o <<x>>
  BY <1>5 DEF Continuation, u, x
<1>10. <<s>> \o p \in Seq(Shown) /\ ToldBy(<<s>> \o p) = ToldBy(F) /\ ToSet(<<s>> \o p) = {s} \cup Unanswered(ToSet(F))
  <2>1. <<s>> \o p \in Seq(Shown)
    BY <1>3, <1>4
  <2>0. PICK t \in Seq(Shown) : t = <<s>>
    BY <1>4
  <2>2. ToldBy(t \o p) = ToldBy(t) \cup ToldBy(p)
    BY <1>3, ToldByConcat
  <2>3. ToSet(t \o p) = ToSet(t) \cup ToSet(p)
    BY <1>3, SetOfConcat
  <2> QED BY <1>3, <1>4, <2>0, <2>1, <2>2, <2>3, ToldByOne, ToldByEvents, SetOfOne
<1>11. PICK m \in Seq(Shown) : m = <<s>> \o p
  BY <1>10
<1>12. /\ u \o m \in Seq(Shown) /\ ToldBy(u \o m) = ToldBy(F)
       /\ ToSet(u \o m) = us \cup {s} \cup Unanswered(ToSet(F))
  <2>1. u \o m \in Seq(Shown)
    BY <1>8
  <2>2. ToldBy(u \o m) = ToldBy(u) \cup ToldBy(m)
    BY <1>8, ToldByConcat
  <2>3. ToSet(u \o m) = ToSet(u) \cup ToSet(m)
    BY <1>8, SetOfConcat
  <2>4. us \subseteq Events /\ us \subseteq ToldBy(F)
    BY <1>2, <1>7
  <2>5. ToldBy(u) = us
    BY <1>8, <2>4, ToldByEvents
  <2> QED BY <1>8, <1>10, <1>11, <2>1, <2>2, <2>3, <2>4, <2>5
<1>13. PICK k \in Seq(Shown) : k = u \o m
  BY <1>12
<1>14. Continuation(body, token) = Append(k, x)
  <2>1. Append(k, x) = k \o <<x>>
    BY <1>1, AppendIsConcat
  <2> QED BY <1>9, <1>11, <1>13, <2>1
<1>15. /\ ToldBy(Append(k, x)) = ToldBy(k) \cup Tells(x) /\ ToldBy(body) = ToldBy(F) \cup Tells(x)
       /\ ToSet(Append(k, x)) = ToSet(k) \cup {x} /\ ToSet(body) = ToSet(F) \cup {x}
       /\ Append(k, x) \in Seq(Shown)
  BY <1>1, ToldByAppend, SetOfAppend
<1>16. x.type = "call" => Item("result", x.id) \notin ToSet(F)
  <2> SUFFICES ASSUME x.type = "call", NEW i \in DOMAIN F PROVE F[i] # Item("result", x.id)
    BY DEF ToSet
  <2>1. PICK t \in Seq(Shown) : t = F /\ Len(t) = n - 1 /\ body = Append(t, x)
    BY <1>1, <1>6
  <2>2. i \in 1..(n - 1) /\ body[i] = t[i] /\ body[n] = x /\ i < n
    BY <2>1
  <2> QED BY <1>6, <2>1, <2>2 DEF InOrder
<1>17. Unanswered(ToSet(k) \cup {x}) = Unanswered(ToSet(F) \cup {x})
  <2>1. \A S : Unanswered(S \cup {x}) =
          {y \in Unanswered(S) : Item("result", y.id) # x}
            \cup (IF x.type = "call" /\ Item("result", x.id) \notin S \cup {x} THEN {x} ELSE {})
    BY DEF Unanswered
  <2>2. \A y \in ToSet(k) : y.type # "result"
    BY <1>4, <1>7, <1>12, <1>13 DEF Unanswered
  <2>3. \A id : Item("result", id).type = "result"
    BY DEF Item
  <2>4. \A y \in ToSet(k) : y.type = "call" => y \in Unanswered(ToSet(F))
    BY <1>4, <1>7, <1>12, <1>13
  <2>5. Unanswered(ToSet(k)) = Unanswered(ToSet(F))
    <3>1. \A y \in Unanswered(ToSet(F)) : y \in ToSet(k) /\ y.type = "call"
      BY <1>12, <1>13 DEF Unanswered
    <3> QED BY <2>2, <2>3, <2>4, <3>1 DEF Unanswered
  <2>6. x.type = "call" => Item("result", x.id) \notin ToSet(k) \cup {x} /\ Item("result", x.id) \notin ToSet(F) \cup {x}
    BY <1>16, <2>2, <2>3
  <2>7. Unanswered(ToSet(k) \cup {x}) =
          {y \in Unanswered(ToSet(k)) : Item("result", y.id) # x}
            \cup (IF x.type = "call" /\ Item("result", x.id) \notin ToSet(k) \cup {x} THEN {x} ELSE {})
    BY <2>1
  <2>8. Unanswered(ToSet(F) \cup {x}) =
          {y \in Unanswered(ToSet(F)) : Item("result", y.id) # x}
            \cup (IF x.type = "call" /\ Item("result", x.id) \notin ToSet(F) \cup {x} THEN {x} ELSE {})
    BY <2>1
  <2> QED BY <2>5, <2>6, <2>7, <2>8
<1> QED BY <1>12, <1>13, <1>14, <1>15, <1>17
-----------------------------------------------------------------------------
(* The histories that a task had, one for each window: H[t][w].  In its    *)
(* window a history only grows, so that its length says which it was; what *)
(* is on record was made of a beginning of one of them.                    *)

Histories == [Tasks -> [Nat -> Seq(Held)]]

Longer(h, k) ==
  /\ Len(h) <= Len(k) /\ \A n \in 0..Len(h) : Upto(k, n) = Upto(h, n)
  /\ Len(Expanded(h)) <= Len(Expanded(k))
  /\ \A n \in 0..Len(Expanded(h)) : Upto(Expanded(k), n) = Upto(Expanded(h), n)
  /\ h # << >> => Len(Expanded(k)) - Len(k) = Len(Expanded(h)) - Len(h)

Grows(H, K) == \A t \in Tasks, w \in Nat : Longer(H[t][w], K[t][w])

\* p presented a beginning of the history of its window.
Begins(asked, h) ==
  /\ asked \in Seq(Held) /\ Len(asked) \in 1..Len(h) /\ asked = Upto(h, Len(asked))
  /\ Len(Expanded(asked)) \in 0..Len(Expanded(h))
  /\ Expanded(asked) = Upto(Expanded(h), Len(Expanded(asked)))
  /\ Len(Expanded(asked)) - Len(asked) = Len(Expanded(h)) - Len(h)

Drawn(H, p) ==
  /\ p.task \in Tasks /\ p.window \in Nat
  /\ Begins(p.asked, H[p.task][p.window])
  /\ p.truth = ToldBy(p.asked)

\* What was made of the first n items that were shown in the window of session s.
Part(E, n, made) == n \in 0..Len(E) /\ made = ToldBy(Upto(E, n))
MadeOf(H, s, n, made) ==
  /\ s.task \in Tasks /\ s.window \in Nat
  /\ Part(Expanded(H[s.task][s.window]), n, made)

\* Every history can be shown.
LEMMA ExpandedFits ==
  ASSUME NEW h \in Seq(Held)
  PROVE  Expanded(h) \in Seq(Shown) /\ Len(Expanded(h)) \in Nat
<1>1. Expanded(h) \in Seq(Shown)
  <2>1. CASE h = << >>
    <3>1. Expanded(<< >>) = << >> /\ << >> \in Seq(Shown)
      BY EmptyTale
    <3> QED BY <2>1, <3>1, Zenon
  <2>2. CASE h # << >>
    <3>1. PICK x \in Held : TRUE
      <4>1. 1 \in 1..Len(h)
        BY <2>2
      <4> QED BY <4>1
    <3> QED BY <3>1, ExpandedAppend
  <2> QED BY <2>1, <2>2
<1> QED BY <1>1

\* A history goes on as itself.
LEMMA LongerSelf ==
  ASSUME NEW h \in Seq(Held)
  PROVE  Longer(h, h)
<1>1. Len(h) \in Nat /\ Len(Expanded(h)) \in Nat
  BY ExpandedFits
<1> QED BY <1>1 DEF Longer

\* The beginning of a history stays its beginning.
LEMMA BeginsKeeps ==
  ASSUME NEW h \in Seq(Held), NEW k \in Seq(Held), Longer(h, k), NEW asked, Begins(asked, h)
  PROVE  Begins(asked, k)
<1>1. PICK n \in Nat, m \in Nat, a \in Nat, b \in Nat :
        n = Len(h) /\ m = Len(k) /\ a = Len(Expanded(h)) /\ b = Len(Expanded(k))
  BY ExpandedFits
<1>2. PICK i \in Nat, j \in Nat : i = Len(asked) /\ j = Len(Expanded(asked))
  BY ExpandedFits DEF Begins
<1>3. i \in 1..n /\ asked = Upto(h, i) /\ j \in 0..a /\ Expanded(asked) = Upto(Expanded(h), j) /\ j - i = a - n
  BY <1>1, <1>2 DEF Begins
<1>4. h # << >>
  BY <1>1, <1>3
<1>5. n <= m /\ a <= b /\ b - m = a - n /\ Upto(k, i) = Upto(h, i) /\ Upto(Expanded(k), j) = Upto(Expanded(h), j)
  BY <1>1, <1>3, <1>4 DEF Longer
<1>6. i \in 1..m /\ j \in 0..b /\ j - i = b - m
  BY <1>3, <1>5
<1> QED BY <1>1, <1>2, <1>3, <1>5, <1>6 DEF Begins

\* What was made of a part stays made of it.
LEMMA PartKeeps ==
  ASSUME NEW h \in Seq(Held), NEW k \in Seq(Held), Longer(h, k), NEW n, NEW made,
         Part(Expanded(h), n, made)
  PROVE  Part(Expanded(k), n, made)
<1>1. PICK a \in Nat, b \in Nat : a = Len(Expanded(h)) /\ b = Len(Expanded(k))
  BY ExpandedFits
<1>2. a <= b /\ n \in 0..a /\ Upto(Expanded(k), n) = Upto(Expanded(h), n)
  BY <1>1 DEF Longer, Part
<1>3. n \in 0..b
  BY <1>2
<1> QED BY <1>1, <1>2, <1>3 DEF Part

\* When histories grow, what was drawn from them still is.
LEMMA GrowsKeeps ==
  ASSUME NEW H \in Histories, NEW K \in Histories, Grows(H, K)
  PROVE  /\ \A p : Drawn(H, p) => Drawn(K, p)
         /\ \A s, n, made : MadeOf(H, s, n, made) => MadeOf(K, s, n, made)
<1>1. \A t \in Tasks, w \in Nat :
        H[t][w] \in Seq(Held) /\ K[t][w] \in Seq(Held) /\ Longer(H[t][w], K[t][w])
  BY DEF Histories, Grows
<1>2. ASSUME NEW p, Drawn(H, p) PROVE Drawn(K, p)
  BY <1>1, <1>2, BeginsKeeps DEF Drawn
<1>3. ASSUME NEW s, NEW n, NEW made, MadeOf(H, s, n, made) PROVE MadeOf(K, s, n, made)
  BY <1>1, <1>3, PartKeeps DEF MadeOf
<1> QED BY <1>2, <1>3

\* In a window the length says which history it was.
LEMMA DrawnOnce ==
  ASSUME NEW H, NEW p, NEW q, Drawn(H, p), Drawn(H, q), p.task = q.task, p.window = q.window,
         Len(Expanded(p.asked)) = Len(Expanded(q.asked)), H \in Histories
  PROVE  p.asked = q.asked /\ p.truth = q.truth
<1>1. PICK h \in Seq(Held) : h = H[p.task][p.window] /\ Begins(p.asked, h) /\ Begins(q.asked, h)
  BY DEF Histories, Drawn
<1>2. Len(p.asked) \in Nat /\ Len(q.asked) \in Nat
  BY <1>1 DEF Begins
<1>3. PICK i \in Nat, j \in Nat : i = Len(p.asked) /\ j = Len(q.asked)
  BY <1>2
<1>4. PICK n \in Nat, a \in Nat, e \in Nat :
        n = Len(h) /\ a = Len(Expanded(h)) /\ e = Len(Expanded(p.asked))
  BY <1>1, ExpandedFits DEF Begins
<1>5. e - i = a - n /\ e - j = a - n
  BY <1>1, <1>3, <1>4 DEF Begins
<1>6. i = j
  BY <1>5
<1>7. p.asked = Upto(h, i) /\ q.asked = Upto(h, j)
  BY <1>1, <1>3 DEF Begins
<1> QED BY <1>6, <1>7 DEF Drawn

\* A whole history is the longest of its beginnings.
LEMMA BeginsWhole ==
  ASSUME NEW h \in Seq(Held), h # << >>
  PROVE  Begins(h, h)
<1>1. PICK n \in Nat, a \in Nat : n = Len(h) /\ a = Len(Expanded(h)) /\ n \in 1..n /\ a \in 0..a /\ Expanded(h) \in Seq(Shown)
  BY ExpandedFits
<1>2. Upto(h, n) = h /\ Upto(Expanded(h), a) = Expanded(h)
  <2>1. n \in 0..Len(h) /\ a \in 0..Len(Expanded(h))
    BY <1>1
  <2> QED BY <1>1, <2>1, UptoFits
<1> QED BY <1>1, <1>2 DEF Begins

\* What a part of what a beginning shows tells.
LEMMA PartOfBeginning ==
  ASSUME NEW H \in Histories, NEW p, Drawn(H, p), NEW n \in 0..Len(Expanded(p.asked))
  PROVE  /\ Expanded(p.asked) \in Seq(Shown)
         /\ \A s : s.task = p.task /\ s.window = p.window =>
              MadeOf(H, s, n, ToldBy(Upto(Expanded(p.asked), n)))
<1>1. PICK h \in Seq(Held) : h = H[p.task][p.window] /\ Begins(p.asked, h)
  BY DEF Histories, Drawn
<1>2. PICK E \in Seq(Shown) : E = Expanded(h) /\ Len(E) \in Nat
  BY ExpandedFits
<1>3. p.asked \in Seq(Held)
  BY <1>1 DEF Begins
<1>4. PICK e \in Nat : e = Len(Expanded(p.asked)) /\ Expanded(p.asked) \in Seq(Shown)
  BY <1>3, ExpandedFits
<1>5. e \in 0..Len(E) /\ Expanded(p.asked) = Upto(E, e) /\ n \in 0..e
  BY <1>1, <1>2, <1>4 DEF Begins
<1>6. Upto(Expanded(p.asked), n) = Upto(E, n)
  BY <1>5, UptoFits
<1>7. n \in 0..Len(E)
  BY <1>2, <1>5
<1>8. Part(Expanded(H[p.task][p.window]), n, ToldBy(Upto(Expanded(p.asked), n)))
  BY <1>1, <1>2, <1>6, <1>7 DEF Part
<1> QED BY <1>4, <1>8 DEF Drawn, MadeOf
-----------------------------------------------------------------------------
\* An event appended to a history leaves what was shown of it.
LEMMA LongerAppend ==
  ASSUME NEW h \in Seq(Held), Tale(h), NEW x \in Events, x \notin ToldBy(h),
         x.type = "result" => Item("call", x.id) \in ToldBy(h)
  PROVE  Longer(h, Append(h, x))
<1>1. PICK k \in Seq(Held) : k = Append(h, x) /\ Expanded(k) = Append(Expanded(h), x)
  BY TaleGrows
<1>2. PICK E \in Seq(Shown) : E = Expanded(h)
  BY ExpandedFits
<1>3. x \in Held /\ x \in Shown
  BY DEF Held, Shown
<1>4. \A n \in 0..Len(h) : Upto(k, n) = Upto(h, n)
  BY <1>1, <1>3, UptoAppend
<1>5. \A n \in 0..Len(E) : Upto(Append(E, x), n) = Upto(E, n)
  BY <1>3, UptoAppend
<1>6. PICK n \in Nat, a \in Nat : n = Len(h) /\ a = Len(E)
  OBVIOUS
<1>7. Len(k) = n + 1 /\ Len(Expanded(k)) = a + 1
  BY <1>1, <1>2, <1>3, <1>6
<1>8. Len(h) <= Len(k) /\ Len(E) <= Len(Expanded(k)) /\ Len(Expanded(k)) - Len(k) = Len(E) - Len(h)
  BY <1>6, <1>7
<1>9. Longer(h, k)
  BY <1>1, <1>2, <1>4, <1>5, <1>8 DEF Longer
<1> QED BY <1>1, <1>9

\* Every history goes on from the empty one.
LEMMA LongerEmpty ==
  ASSUME NEW h, NEW k \in Seq(Held), h = << >>
  PROVE  Longer(h, k)
<1>1. Expanded(h) = << >> /\ h = << >>
  BY EmptyTale
<1>2. Len(k) \in Nat /\ Expanded(k) \in Seq(Shown) /\ Len(Expanded(k)) \in Nat
  BY ExpandedFits
<1>3. Upto(k, 0) = << >> /\ Upto(Expanded(k), 0) = << >> /\ Upto(<< >>, 0) = << >>
  BY SubSeqEmpty DEF Upto
<1>4. \A n \in 0..Len(<< >>) : n = 0
  OBVIOUS
<1> QED BY <1>1, <1>2, <1>3, <1>4 DEF Longer

\* One history grows.
LEMMA GrowsAt ==
  ASSUME NEW H \in Histories, NEW t \in Tasks, NEW w \in Nat, NEW k \in Seq(Held),
         Longer(H[t][w], k)
  PROVE  /\ [H EXCEPT ![t][w] = k] \in Histories
         /\ Grows(H, [H EXCEPT ![t][w] = k])
<1> DEFINE K == [H EXCEPT ![t][w] = k]
<1>1. K \in Histories
  BY DEF Histories
<1>2. ASSUME NEW u \in Tasks, NEW v \in Nat PROVE Longer(H[u][v], K[u][v])
  <2>1. H[u][v] \in Seq(Held)
    BY DEF Histories
  <2>2. CASE u = t /\ v = w
    <3>1. K[u][v] = k
      BY <2>2 DEF Histories
    <3> QED BY <2>2, <3>1
  <2>3. CASE ~(u = t /\ v = w)
    <3>1. K[u][v] = H[u][v]
      BY <2>3 DEF Histories
    <3> QED BY <2>1, <3>1, LongerSelf
  <2> QED BY <2>2, <2>3
<1> QED BY <1>1, <1>2 DEF Grows
-----------------------------------------------------------------------------
(* What is on record.                                                      *)

RowFits(H, r) ==
  /\ r.text \in Said
  /\ r.id.use \in {"answer", "compact", "overflow", "stage"}
  /\ r.id.use = "answer" =>
       /\ Drawn(H, r.purpose) /\ r.purpose = Purpose(r.purpose)
       /\ r.id = [use |-> "answer", session |-> Session(r.purpose),
                  body |-> Bytes(Expanded(r.purpose.asked)), policy |-> "none"]
       /\ r.made = r.purpose.truth
       /\ r.pending = Unanswered(r.purpose.truth)
  /\ r.id.use \in {"compact", "overflow"} => MadeOf(H, r.id.session, Len(r.id.body), r.made)
  /\ r.id.use = "stage" =>
       MadeOf(H, r.id.base.session, r.id.bytes.start + Len(r.id.bytes.part), r.made)

RowsFit(H, all) ==
  /\ \A r \in all : RowFits(H, r)
  /\ \A r1, r2 \in all : r1.id = r2.id => r1 = r2

StageFits(H, s) ==
  /\ s.text \in Said
  /\ "bytes" \in DOMAIN s.key =>
       MadeOf(H, s.key.writer, s.key.bytes.start + Len(s.key.bytes.part), s.made)
  /\ "final" \in DOMAIN s.key => MadeOf(H, s.key.final.session, Len(s.key.final.body), s.made)

StagesFit(H, cache) ==
  /\ cache \in Seq(ToSet(cache))
  /\ \A s \in ToSet(cache) : StageFits(H, s)

\* When histories grow, what is on record still fits.
LEMMA RecordsKeep ==
  ASSUME NEW H \in Histories, NEW K \in Histories, Grows(H, K)
  PROVE  /\ \A all : RowsFit(H, all) => RowsFit(K, all)
         /\ \A cache : StagesFit(H, cache) => StagesFit(K, cache)
<1>1. \A r : RowFits(H, r) => RowFits(K, r)
  BY GrowsKeeps DEF RowFits
<1>2. \A s : StageFits(H, s) => StageFits(K, s)
  BY GrowsKeeps DEF StageFits
<1> QED BY <1>1, <1>2 DEF RowsFit, StagesFit

\* The caches of the process may be lost.
LEMMA RememberedFits ==
  ASSUME NEW H, NEW cache, StagesFit(H, cache), NEW key, NEW text, NEW made,
         StageFits(H, [key |-> key, text |-> text, made |-> made])
  PROVE  StagesFit(H, Remembered(cache, key, text, made))
<1> DEFINE x == [key |-> key, text |-> text, made |-> made]
           W == ToSet(cache) \cup {x}
           set == {s \in ToSet(cache) : s.key # key}
           others == Within(cache, set)
           room == IF Len(others) < StageLimit THEN others ELSE Tail(others)
<1>1. cache \in Seq(ToSet(cache))
  BY DEF StagesFit
<1>2. others \in Seq(ToSet(cache))
  <2> HIDE DEF set
  <2> QED BY <1>1, WithinSet
<1>3. Len(others) < StageLimit \/ others # << >>
  <2>1. StageLimit \in Nat \ {0} /\ Len(<< >>) = 0
    BY CompactionAssumption
  <2> QED BY <1>2, <2>1
<1>4. room \in Seq(ToSet(cache))
  <2> HIDE DEF others
  <2> QED BY <1>2, <1>3, HeadTailProperties
<1>5. Remembered(cache, key, text, made) = Append(room, x)
  BY DEF Remembered
<1> HIDE DEF room, x
<1>6. room \in Seq(W) /\ x \in W
  BY <1>4, SeqMonotonic
<1> HIDE DEF W
<1>7. Append(room, x) \in Seq(W) /\ ToSet(Append(room, x)) = ToSet(room) \cup {x}
  BY <1>6, SetOfAppend
<1>8. ToSet(room) \subseteq ToSet(cache)
  <2>1. PICK V : V = ToSet(cache)
    OBVIOUS
  <2>2. DOMAIN room = 1..Len(room) /\ \A i \in 1..Len(room) : room[i] \in V
    BY <1>4, <2>1
  <2> QED BY <2>1, <2>2 DEF ToSet
<1>9. Append(room, x) \in Seq(ToSet(Append(room, x)))
  BY <1>7, InSeq
<1> QED BY <1>5, <1>7, <1>8, <1>9 DEF StagesFit, x
-----------------------------------------------------------------------------
(* The end of a turn.                                                      *)

NewRow(q, id, prompt, text, completed) ==
  [id |-> id, input |-> Bytes(prompt), completed |-> completed, text |-> text,
   purpose |-> IF q.pc = "answer" THEN Purpose(q) ELSE Purpose(Idle),
   pending |-> IF q.pc = "answer" THEN ToSet(Pending(prompt)) ELSE {},
   made |-> q.made \cup ToldBy(prompt)]

\* The coordinator's promise: what is on record after a turn fits if a new row would, and
\* what the caller gets is the row of its identity.
LEMMA EndsFit ==
  ASSUME NEW H, RowsFit(H, rows), NEW q, NEW id, NEW prompt, NEW text,
         \A completed : RowFits(H, NewRow(q, id, prompt, text, completed)),
         NEW o \in TurnEnds(q, id, prompt, text)
  PROVE  /\ RowsFit(H, o.rows)
         /\ o.result \in {"refused", "failed", "E_REQUEST_CONFLICT", "E_REQUEST_ALREADY_ADMITTED",
                          "E_REPLAY_UNAVAILABLE", "ok"}
         /\ o.result = "ok" => \E r : RowFits(H, r) /\ r.id = id /\ o.got = {r}
<1> DEFINE row == NewRow(q, id, prompt, text, TRUE)
           lost == NewRow(q, id, prompt, text, FALSE)
<1>1. row.id = id /\ lost.id = id
  BY DEF NewRow
<1>2. RowFits(H, row) /\ RowFits(H, lost)
  OBVIOUS
<1>3. CASE \A r \in rows : r.id # id
  <2>1. o \in {[result |-> "refused", rows |-> rows, replay |-> replay, got |-> {}],
               [result |-> "failed", rows |-> rows \cup {lost}, replay |-> replay, got |-> {}],
               [result |-> "ok", rows |-> rows \cup {row}, replay |-> replay \cup {id}, got |-> {row}]}
    BY <1>1, <1>3 DEF TurnEnds, NewRow
  <2> HIDE DEF row, lost
  <2>2. RowsFit(H, rows \cup {lost}) /\ RowsFit(H, rows \cup {row})
    BY <1>1, <1>2, <1>3 DEF RowsFit
  <2>3. CASE o = [result |-> "refused", rows |-> rows, replay |-> replay, got |-> {}]
    BY <2>3
  <2>4. CASE o = [result |-> "failed", rows |-> rows \cup {lost}, replay |-> replay, got |-> {}]
    BY <2>2, <2>4
  <2>5. CASE o = [result |-> "ok", rows |-> rows \cup {row}, replay |-> replay \cup {id}, got |-> {row}]
    <3>1. o.rows = rows \cup {row} /\ o.result = "ok" /\ o.got = {row}
      BY <2>5
    <3> QED BY <1>1, <1>2, <2>2, <3>1
  <2> QED BY <2>1, <2>3, <2>4, <2>5
<1>4. CASE ~ \A r \in rows : r.id # id
  <2>1. PICK r \in rows : /\ r.id = id
                          /\ o = [result |-> IF r.input # Bytes(prompt) THEN "E_REQUEST_CONFLICT"
                                             ELSE IF ~r.completed THEN "E_REQUEST_ALREADY_ADMITTED"
                                             ELSE IF id \notin replay THEN "E_REPLAY_UNAVAILABLE"
                                             ELSE "ok",
                                  rows |-> rows, replay |-> replay, got |-> {r}]
    BY <1>4 DEF TurnEnds
  <2>2. o.rows = rows /\ o.got = {r}
        /\ o.result \in {"E_REQUEST_CONFLICT", "E_REQUEST_ALREADY_ADMITTED", "E_REPLAY_UNAVAILABLE", "ok"}
    BY <2>1
  <2>3. RowFits(H, r)
    BY DEF RowsFit
  <2> QED BY <2>1, <2>2, <2>3
<1> QED BY <1>3, <1>4
-----------------------------------------------------------------------------
(* Where a call is.                                                        *)

\* A call with its last fields as given.
Call(q, pc, source, prompt, start, text, made, result, got, body, policyThen) ==
  [pc |-> pc, kind |-> q.kind, task |-> q.task, window |-> q.window, route |-> q.route,
   asked |-> q.asked, truth |-> q.truth, body |-> body, source |-> source, prompt |-> prompt,
   policy |-> policyThen, start |-> start, text |-> text, made |-> made,
   result |-> result, got |-> got]
IsCall(q) ==
  q = Call(q, q.pc, q.source, q.prompt, q.start, q.text, q.made, q.result, q.got, q.body, q.policy)

Portable(q) == \A x \in ToSet(q.asked) : IsToken(x) => x.home = Home(q)
Source(q) == IF q.kind = "compact" THEN Expanded(q.asked) ELSE Front(Expanded(q.asked))

\* What the call stands for.
Stands(H, q) ==
  /\ IsCall(q)
  /\ Drawn(H, q) /\ Tale(q.asked) /\ q.route \in Routes
  /\ q.kind \in {"answer", "compact"}
  /\ q.result = "E_NONPORTABLE_CONTEXT" <=> ~Portable(q)

\* What was summarised so far is a beginning of the source.
Summarising(q) ==
  /\ q.pc = "summarise" /\ q.result = "none"
  /\ q.body = Expanded(q.asked) /\ q.source = Source(q)
  /\ q.kind = "answer" => Len(q.body) # 0
  /\ q.start \in 0..Len(q.source) /\ q.made = ToldBy(Upto(q.source, q.start)) /\ q.text \in Said

Answering(q) ==
  /\ q.pc = "answer" /\ q.result = "none" /\ q.kind = "answer"
  /\ q.body = Expanded(q.asked) /\ q.made = {}
  /\ q.prompt \in Seq(Shown) /\ ToldBy(q.prompt) = q.truth
  /\ Unanswered(ToSet(q.prompt)) = Unanswered(q.truth)

Over(q) ==
  /\ q.pc = "done" /\ q.result \in {"ok", "E_NONPORTABLE_CONTEXT"}
  /\ q.result = "ok" /\ q.kind = "compact" => \E g \in Tokens : q.got = {g} /\ g.made = q.truth
  /\ q.result = "ok" /\ q.kind = "answer" => \A g \in q.got : g.purpose = Purpose(q)

CallFits(H, q) ==
  \/ q = Idle
  \/ Stands(H, q) /\ (Summarising(q) \/ Answering(q) \/ Over(q))

CallsFit(H, calls) ==
  /\ calls = [c \in Clients |-> calls[c]]
  /\ \A c \in Clients : CallFits(H, calls[c])

ClientsFit(H, all) ==
  /\ all \in [Tasks -> [history : Seq(Held), truth : SUBSET Events, window : Nat, route : Routes]]
  /\ \A t \in Tasks :
       /\ H[t][all[t].window] = all[t].history
       /\ \A w \in Nat : w > all[t].window => H[t][w] = << >>
       /\ all[t].truth = ToldBy(all[t].history)
       /\ all[t].truth = {} => all[t].history = << >>

HistoriesFit(H) ==
  /\ H \in Histories
  /\ \A t \in Tasks, w \in Nat : Tale(H[t][w])

OfItsHistory(H) ==
  /\ HistoriesFit(H) /\ ClientsFit(H, client)
  /\ RowsFit(H, rows) /\ StagesFit(H, stages) /\ CallsFit(H, request)

ProviderInv == \E H : OfItsHistory(H)

\* When histories grow, the calls still fit.
LEMMA CallsKeep ==
  ASSUME NEW H \in Histories, NEW K \in Histories, Grows(H, K)
  PROVE  /\ \A q : CallFits(H, q) => CallFits(K, q)
         /\ \A calls : CallsFit(H, calls) => CallsFit(K, calls)
BY GrowsKeeps DEF CallFits, CallsFit, Stands

\* The fields of a call.
LEMMA CallFields ==
  ASSUME NEW q, NEW pc, NEW source, NEW prompt, NEW start, NEW text, NEW made, NEW result,
         NEW got, NEW body, NEW chosen, NEW r,
         r = Call(q, pc, source, prompt, start, text, made, result, got, body, chosen)
  PROVE  /\ IsCall(r)
         /\ r.pc = pc /\ r.source = source /\ r.prompt = prompt /\ r.start = start
         /\ r.text = text /\ r.made = made /\ r.result = result /\ r.got = got
         /\ r.body = body /\ r.policy = chosen
         /\ r.kind = q.kind /\ r.task = q.task /\ r.window = q.window /\ r.route = q.route
         /\ r.asked = q.asked /\ r.truth = q.truth
BY DEF IsCall, Call

\* A call that goes on stands for the same.
LEMMA StandsStill ==
  ASSUME NEW H, NEW q, Stands(H, q), NEW r, IsCall(r),
         r.kind = q.kind, r.task = q.task, r.window = q.window, r.route = q.route,
         r.asked = q.asked, r.truth = q.truth,
         r.result = q.result
         \/ (r.result # "E_NONPORTABLE_CONTEXT" /\ q.result # "E_NONPORTABLE_CONTEXT")
  PROVE  Stands(H, r) /\ Source(r) = Source(q) /\ Purpose(r) = Purpose(q) /\ Home(r) = Home(q)
         /\ Session(r) = Session(q)
<1>1. Source(r) = Source(q) /\ Purpose(r) = Purpose(q) /\ Home(r) = Home(q) /\ Session(r) = Session(q)
  BY DEF Source, Purpose, Home, Session
<1>2. Portable(r) <=> Portable(q)
  BY <1>1 DEF Portable
<1>3. Drawn(H, r)
  BY DEF Stands, Drawn
<1> QED BY <1>1, <1>2, <1>3 DEF Stands

\* What is left of a call that has ended.
LEMMA EndedIs ==
  ASSUME NEW q, IsCall(q), NEW result, NEW got
  PROVE  Ended(q, result, got) =
           IF result \in {"ok", "E_NONPORTABLE_CONTEXT"}
           THEN Call(q, "done", << >>, << >>, 0, "none", {}, result, got, << >>, "none")
           ELSE Idle
<1>1. CASE result \notin {"ok", "E_NONPORTABLE_CONTEXT"}
  BY <1>1 DEF Ended
<1>2. CASE result \in {"ok", "E_NONPORTABLE_CONTEXT"}
  <2>1. PICK p : p = [q EXCEPT !.pc = "done", !.result = result, !.got = got, !.body = << >>,
                               !.source = << >>]
    OBVIOUS
  <2>2. p = Call(q, "done", << >>, q.prompt, q.start, q.text, q.made, result, got, << >>, q.policy)
    BY <2>1 DEF IsCall, Call
  <2>3. Ended(q, result, got) =
          [p EXCEPT !.prompt = << >>, !.policy = "none", !.start = 0, !.text = "none", !.made = {}]
    BY <1>2, <2>1, Zenon DEF Ended
  <2>4. Ended(q, result, got) =
          Call(q, "done", << >>, << >>, 0, "none", {}, result, got, << >>, "none")
    BY <2>2, <2>3, ZenonT(60) DEF Call
  <2> QED BY <1>2, <2>4
<1> QED BY <1>1, <1>2

\* What the call gets is of its own history.
LEMMA EndedFits ==
  ASSUME NEW H, NEW q, Stands(H, q), q.result = "none", NEW result, NEW got,
         result # "E_NONPORTABLE_CONTEXT",
         result = "ok" /\ q.kind = "compact" => \E g \in Tokens : got = {g} /\ g.made = q.truth,
         result = "ok" /\ q.kind = "answer" => \A g \in got : g.purpose = Purpose(q)
  PROVE  CallFits(H, Ended(q, result, got))
<1>1. CASE result # "ok"
  <2>1. IsCall(q)
    BY DEF Stands
  <2>2. Ended(q, result, got) = Idle
    BY <1>1, <2>1, EndedIs
  <2> QED BY <2>2 DEF CallFits
<1>2. CASE result = "ok"
  <2>0. IsCall(q)
    BY DEF Stands
  <2>1. PICK r : r = Ended(q, result, got)
    OBVIOUS
  <2>2. r = Call(q, "done", << >>, << >>, 0, "none", {}, result, got, << >>, "none")
    BY <1>2, <2>0, <2>1, EndedIs
  <2>3. /\ IsCall(r) /\ r.pc = "done" /\ r.result = result /\ r.got = got
        /\ r.kind = q.kind /\ r.task = q.task /\ r.window = q.window /\ r.route = q.route
        /\ r.asked = q.asked /\ r.truth = q.truth
    BY <2>2, CallFields
  <2>4. Stands(H, r) /\ Purpose(r) = Purpose(q)
    BY <2>3, StandsStill
  <2>5. Over(r)
    BY <1>2, <2>3, <2>4 DEF Over
  <2> QED BY <2>1, <2>4, <2>5 DEF CallFits
<1> QED BY <1>1, <1>2

\* The checkpoint of the whole source, for the client or for the prompt.
LEMMA DeliveredFits ==
  ASSUME NEW H \in Histories, NEW q, Stands(H, q), Summarising(q), NEW text \in Said, NEW made,
         made = ToldBy(q.source)
  PROVE  CallFits(H, Delivered(q, text, made))
<1> DEFINE token == [type |-> "token", home |-> Home(q), text |-> text, made |-> made,
                     of |-> [task |-> q.task, route |-> q.route], pending |-> Pending(q.source)]
<1>1. /\ q.task \in Tasks /\ q.route \in Routes /\ q.asked \in Seq(Held)
      /\ q.truth = ToldBy(q.asked) /\ Tale(q.asked) /\ IsCall(q)
  BY DEF Stands, Drawn, Begins
<1>2. PICK body \in Seq(Shown) : body = q.body /\ body = Expanded(q.asked)
  BY <1>1, ExpandedFits DEF Summarising
<1>3. CASE q.kind = "compact"
  <2>1. q.source = body /\ made = q.truth
    BY <1>1, <1>2, <1>3 DEF Summarising, Source, Tale
  <2>2. /\ Pending(body) \in Seq(Shown)
        /\ ToSet(Pending(body)) = ToSet(body) \cap Unanswered(ToSet(body))
    BY WithinSet DEF Pending
  <2>3. ToSet(Pending(body)) = Unanswered(made)
    BY <1>1, <1>2, <2>1, <2>2 DEF Tale, Unanswered
  <2>4. Pending(body) \in Seq(Events) /\ made \subseteq Events /\ Complete(made)
    <3>1. made \subseteq Events /\ Complete(made)
      BY <1>1, <2>1 DEF Tale
    <3>2. ToSet(Pending(body)) \subseteq Events
      BY <2>3, <3>1 DEF Unanswered
    <3> QED BY <2>2, <3>1, <3>2, InSeq
  <2>5. token \in Tokens /\ token.made = made
    <3>1. Home(q) = [task |-> q.task, window |-> 0, route |-> q.route]
      BY DEF Home
    <3> QED BY <1>1, <2>1, <2>3, <2>4, <3>1 DEF Tokens
  <2>6. Delivered(q, text, made) = Ended(q, "ok", {token})
    BY <1>3 DEF Delivered
  <2> HIDE DEF token
  <2>7. q.result = "none"
    BY DEF Summarising
  <2> QED BY <1>3, <2>1, <2>5, <2>6, <2>7, EndedFits
<1>4. CASE q.kind = "answer"
  <2>1. q.source = Front(body) /\ Len(body) # 0 /\ InOrder(body)
        /\ ToldBy(body) = q.truth /\ Unanswered(ToSet(body)) = Unanswered(q.truth)
    BY <1>1, <1>2, <1>4 DEF Summarising, Source, Tale
  <2>2. PICK prompt : prompt = Continuation(body, token)
    OBVIOUS
  <2>3. IsToken(token) /\ token.text \in Said /\ token.made = ToldBy(Front(body)) /\ token.pending = Pending(Front(body))
    BY <2>1 DEF IsToken
  <2>4. Delivered(q, text, made) =
          [q EXCEPT !.pc = "answer", !.made = {}, !.source = << >>, !.start = 0,
                    !.text = "none", !.prompt = prompt]
    BY <1>2, <1>4, <2>2 DEF Delivered
  <2> HIDE DEF token
  <2>5. prompt \in Seq(Shown) /\ ToldBy(prompt) = q.truth /\ Unanswered(ToSet(prompt)) = Unanswered(q.truth)
    BY <2>1, <2>2, <2>3, ContinuationTells
  <2>6. PICK r : r = Delivered(q, text, made)
    OBVIOUS
  <2>7. r = Call(q, "answer", << >>, prompt, 0, "none", {}, q.result, q.got, q.body, q.policy)
    BY <1>1, <2>4, <2>6, ZenonT(60) DEF IsCall, Call
  <2>8. /\ IsCall(r) /\ r.pc = "answer" /\ r.result = q.result /\ r.prompt = prompt /\ r.made = {}
        /\ r.body = q.body
        /\ r.kind = q.kind /\ r.task = q.task /\ r.window = q.window /\ r.route = q.route
        /\ r.asked = q.asked /\ r.truth = q.truth
    BY <2>7, CallFields
  <2>9. Stands(H, r)
    BY <2>8, StandsStill
  <2>10. Answering(r)
    BY <1>2, <1>4, <2>5, <2>8 DEF Answering, Summarising
  <2> QED BY <2>6, <2>9, <2>10 DEF CallFits
<1> QED BY <1>3, <1>4 DEF Stands
-----------------------------------------------------------------------------
(* The steps of the clients.                                               *)

\* A task goes on with a longer history, or in a new window.
LEMMA ClientMoves ==
  ASSUME NEW H, HistoriesFit(H), NEW all, ClientsFit(H, all), NEW t \in Tasks, NEW w \in Nat,
         w \in {all[t].window, all[t].window + 1}, NEW k \in Seq(Held), k # << >>, Tale(k),
         ToldBy(k) # {}, w = all[t].window => Longer(all[t].history, k), NEW r \in Routes
  PROVE  \E K \in Histories :
           /\ HistoriesFit(K) /\ Grows(H, K)
           /\ ClientsFit(K, [all EXCEPT ![t] = [history |-> k, truth |-> ToldBy(k), window |-> w, route |-> r]])
<1> DEFINE next == [all EXCEPT ![t] = [history |-> k, truth |-> ToldBy(k), window |-> w, route |-> r]]
<1>1. H \in Histories /\ all[t].window \in Nat /\ all[t].history \in Seq(Held)
  BY DEF HistoriesFit, ClientsFit
<1>2. Longer(H[t][w], k)
  <2>1. CASE w = all[t].window
    BY <2>1 DEF ClientsFit
  <2>2. CASE w # all[t].window
    <3>1. w > all[t].window
      BY <1>1, <2>2
    <3>2. H[t][w] = << >>
      BY <3>1 DEF ClientsFit
    <3> QED BY <3>2, LongerEmpty
  <2> QED BY <2>1, <2>2
<1>3. PICK K : K = [H EXCEPT ![t][w] = k]
  OBVIOUS
<1>4. K \in Histories /\ Grows(H, K)
  BY <1>1, <1>2, <1>3, GrowsAt
<1>5. \A u \in Tasks, v \in Nat : K[u][v] = IF u = t /\ v = w THEN k ELSE H[u][v]
  BY <1>1, <1>3 DEF Histories
<1>6. HistoriesFit(K)
  BY <1>4, <1>5 DEF HistoriesFit
<1>7. next \in [Tasks -> [history : Seq(Held), truth : SUBSET Events, window : Nat, route : Routes]]
  <2>1. ToldBy(k) \subseteq Events
    BY DEF Tale
  <2> QED BY <2>1 DEF ClientsFit
<1>8. ASSUME NEW u \in Tasks
      PROVE  /\ K[u][next[u].window] = next[u].history
             /\ \A v \in Nat : v > next[u].window => K[u][v] = << >>
             /\ next[u].truth = ToldBy(next[u].history)
             /\ next[u].truth = {} => next[u].history = << >>
  <2>1. CASE u = t
    <3>1. next[u] = [history |-> k, truth |-> ToldBy(k), window |-> w, route |-> r]
      BY <2>1 DEF ClientsFit
    <3> HIDE DEF next
    <3>2. ASSUME NEW v \in Nat, v > w PROVE K[u][v] = << >>
      <4>1. v # w /\ v > all[t].window
        BY <1>1, <3>2
      <4> QED BY <1>5, <2>1, <4>1 DEF ClientsFit
    <3> QED BY <1>5, <2>1, <3>1, <3>2
  <2>2. CASE u # t
    <3>1. next[u] = all[u] /\ all[u].window \in Nat
      BY <2>2 DEF ClientsFit
    <3> HIDE DEF next
    <3>2. PICK v \in Nat : v = all[u].window
      BY <3>1
    <3>3. \A y \in Nat : K[u][y] = H[u][y]
      BY <1>5, <2>2
    <3>4. /\ H[u][v] = all[u].history /\ \A y \in Nat : y > v => H[u][y] = << >>
          /\ all[u].truth = ToldBy(all[u].history)
          /\ all[u].truth = {} => all[u].history = << >>
      BY <3>2 DEF ClientsFit
    <3> QED BY <3>1, <3>2, <3>3, <3>4
  <2> QED BY <2>1, <2>2
<1>9. ClientsFit(K, next)
  <2> HIDE DEF next
  <2> QED BY <1>7, <1>8 DEF ClientsFit
<1> QED BY <1>4, <1>6, <1>9

\* Then what is on record still fits.
LEMMA MovesKeep ==
  ASSUME NEW H, OfItsHistory(H), NEW K \in Histories, HistoriesFit(K), Grows(H, K),
         ClientsFit(K, client'), UNCHANGED <<rows, stages>>, CallsFit(H, request')
  PROVE  ProviderInv'
<1>1. H \in Histories
  BY DEF OfItsHistory, HistoriesFit
<1>2. RowsFit(K, rows') /\ StagesFit(K, stages') /\ CallsFit(K, request')
  BY <1>1, RecordsKeep, CallsKeep DEF OfItsHistory
<1>3. OfItsHistory(K)'
  BY <1>2 DEF OfItsHistory
<1> QED BY <1>3 DEF ProviderInv

\* An event is appended to the history of a task.
LEMMA GrowKeeps ==
  ASSUME NEW H, OfItsHistory(H), NEW t \in Tasks, NEW x \in Events, Grow(t, x)
  PROVE  ProviderInv'
<1>1. /\ HistoriesFit(H) /\ ClientsFit(H, client) /\ CallsFit(H, request)
      /\ UNCHANGED <<rows, stages, request>>
  BY DEF OfItsHistory, Grow
<1>2. PICK h \in Seq(Held), w \in Nat, r \in Routes :
        h = client[t].history /\ w = client[t].window /\ r = client[t].route
  BY <1>1 DEF ClientsFit
<1>3. client[t].truth = ToldBy(h) /\ Tale(h)
  BY <1>1, <1>2 DEF ClientsFit, HistoriesFit
<1>4. x \notin ToldBy(h) /\ (x.type = "result" => Item("call", x.id) \in ToldBy(h))
  BY <1>3 DEF Grow
<1>5. PICK k \in Seq(Held) : k = Append(h, x) /\ ToldBy(k) = ToldBy(h) \cup {x} /\ Tale(k)
  BY <1>3, <1>4, TaleGrows
<1>6. Longer(h, k)
  BY <1>3, <1>4, <1>5, LongerAppend
<1>7. k # << >>
  BY <1>2, <1>5
<1>8. client' = [client EXCEPT ![t] = [history |-> k, truth |-> ToldBy(k), window |-> w, route |-> r]]
  <2>1. client' = [client EXCEPT ![t].history = Append(@, x), ![t].truth = @ \cup {x}]
    BY DEF Grow
  <2>3. client \in [Tasks -> [history : Seq(Held), truth : SUBSET Events, window : Nat, route : Routes]]
    BY <1>1 DEF ClientsFit
  <2>4. PICK T : T = ToldBy(k)
    OBVIOUS
  <2>5. client' = [client EXCEPT ![t].history = k, ![t].truth = T]
    BY <1>2, <1>3, <1>5, <2>1, <2>3, <2>4
  <2>6. client' = [client EXCEPT ![t] = [history |-> k, truth |-> T, window |-> client[t].window,
                                          route |-> client[t].route]]
    <3>1. PICK old : old = client[t]
      OBVIOUS
    <3>2. old = [history |-> old.history, truth |-> old.truth, window |-> old.window, route |-> old.route]
      BY <2>3, <3>1
    <3>3. PICK new : new = [[old EXCEPT !.history = k] EXCEPT !.truth = T]
      OBVIOUS
    <3>4. PICK half : half = [old EXCEPT !.history = k]
      OBVIOUS
    <3>5. half = [history |-> k, truth |-> old.truth, window |-> old.window, route |-> old.route]
      BY ONLY <3>2, <3>4
    <3>6. new = [half EXCEPT !.truth = T]
      BY ONLY <3>3, <3>4
    <3>7. new = [history |-> k, truth |-> T, window |-> old.window, route |-> old.route]
      BY ONLY <3>5, <3>6
    <3>8. client' = [client EXCEPT ![t] = new]
      BY <2>3, <2>5, <3>1, <3>3
    <3> QED BY <3>1, <3>7, <3>8
  <2> QED BY <1>2, <2>4, <2>6
<1>9. \E K \in Histories : HistoriesFit(K) /\ Grows(H, K) /\ ClientsFit(K, client')
  BY <1>1, <1>2, <1>5, <1>6, <1>7, <1>8, ClientMoves
<1> QED BY <1>1, <1>9, MovesKeep

\* A task takes over the history of another one.
LEMMA ForkKeeps ==
  ASSUME NEW H, OfItsHistory(H), NEW t \in Tasks, NEW u \in Tasks, Fork(t, u)
  PROVE  ProviderInv'
<1>1. /\ HistoriesFit(H) /\ ClientsFit(H, client) /\ CallsFit(H, request)
      /\ UNCHANGED <<rows, stages, request>>
  BY DEF OfItsHistory, Fork
<1>2. PICK k \in Seq(Held), w \in Nat, r \in Routes :
        k = client[u].history /\ w = client[t].window /\ r = client[t].route
  BY <1>1 DEF ClientsFit
<1>3. client[u].truth = ToldBy(k) /\ ToldBy(k) # {} /\ Tale(k)
  BY <1>1, <1>2 DEF ClientsFit, HistoriesFit, Fork
<1>4. client[t].history = << >> /\ k # << >>
  BY <1>1, <1>3, EmptyTale DEF ClientsFit, Fork
<1>5. Longer(client[t].history, k)
  BY <1>4, LongerEmpty
<1>6. client' = [client EXCEPT ![t] = [history |-> k, truth |-> ToldBy(k), window |-> w, route |-> r]]
  <2>0. PICK T : T = ToldBy(k)
    OBVIOUS
  <2>1. client' = [client EXCEPT ![t].history = k, ![t].truth = T]
    BY <1>2, <1>3, <2>0 DEF Fork
  <2>2. client \in [Tasks -> [history : Seq(Held), truth : SUBSET Events, window : Nat, route : Routes]]
    BY <1>1 DEF ClientsFit
  <2>3. client' = [client EXCEPT ![t] = [history |-> k, truth |-> T, window |-> client[t].window,
                                          route |-> client[t].route]]
    <3>1. PICK old : old = client[t]
      OBVIOUS
    <3>2. old = [history |-> old.history, truth |-> old.truth, window |-> old.window, route |-> old.route]
      BY <2>2, <3>1
    <3>3. PICK new : new = [[old EXCEPT !.history = k] EXCEPT !.truth = T]
      OBVIOUS
    <3>4. PICK half : half = [old EXCEPT !.history = k]
      OBVIOUS
    <3>5. half = [history |-> k, truth |-> old.truth, window |-> old.window, route |-> old.route]
      BY ONLY <3>2, <3>4
    <3>6. new = [half EXCEPT !.truth = T]
      BY ONLY <3>3, <3>4
    <3>7. new = [history |-> k, truth |-> T, window |-> old.window, route |-> old.route]
      BY ONLY <3>5, <3>6
    <3>8. client' = [client EXCEPT ![t] = new]
      BY <2>2, <2>1, <3>1, <3>3
    <3> QED BY <3>1, <3>7, <3>8
  <2> QED BY <1>2, <2>0, <2>3
<1>7. \E K \in Histories : HistoriesFit(K) /\ Grows(H, K) /\ ClientsFit(K, client')
  BY <1>1, <1>2, <1>3, <1>4, <1>5, <1>6, ClientMoves
<1> QED BY <1>1, <1>7, MovesKeep

\* The history is now the checkpoint, in the next window.
LEMMA TakeTokenKeeps ==
  ASSUME NEW H, OfItsHistory(H), NEW c \in Clients, TakeToken(c)
  PROVE  ProviderInv'
<1>1. /\ HistoriesFit(H) /\ ClientsFit(H, client) /\ CallsFit(H, request)
      /\ UNCHANGED <<rows, stages>>
  BY DEF OfItsHistory, TakeToken
<1>2. PICK q : /\ q = request[c] /\ q.pc = "done" /\ q.kind = "compact" /\ q.result = "ok"
               /\ client[q.task].history = q.asked
               /\ client' = [client EXCEPT ![q.task].history = SetToSeq(q.got), ![q.task].window = @ + 1]
               /\ request' = [request EXCEPT ![c] = Idle]
  BY DEF TakeToken
<1>3. Stands(H, q) /\ Over(q)
  <2>1. CallFits(H, q)
    BY <1>1, <1>2 DEF CallsFit
  <2> QED BY <1>2, <2>1 DEF CallFits, Idle, Summarising, Answering
<1>4. PICK t \in Tasks : t = q.task
  BY <1>3 DEF Stands, Drawn
<1>5. PICK g \in Tokens : q.got = {g} /\ g.made = q.truth
  BY <1>2, <1>3 DEF Over
<1>6. PICK w \in Nat, r \in Routes : w = client[t].window /\ r = client[t].route
  BY <1>1 DEF ClientsFit
<1>7. /\ client[t].truth = ToldBy(q.asked) /\ q.truth = ToldBy(q.asked)
      /\ q.asked # << >> /\ client[t].truth # {}
  <2>1. q.asked # << >>
    BY <1>3 DEF Stands, Drawn, Begins
  <2> QED BY <1>1, <1>2, <1>3, <1>4, <2>1 DEF ClientsFit, Stands, Drawn
<1>8. PICK k \in Seq(Held) : k = <<g>> /\ ToldBy(k) = g.made /\ Tale(k)
  BY <1>5, TokenTale
<1>9. k # << >> /\ SetToSeq(q.got) = k
  <2>1. k # << >>
    BY <1>8
  <2>2. SetToSeq({g}) = <<g>>
    BY SetToSeqSmall
  <2>3. SetToSeq(q.got) = k
    BY <1>5, <1>8, <2>2, Zenon
  <2> QED BY <2>1, <2>3
<1>10. client' = [client EXCEPT ![t] = [history |-> k, truth |-> ToldBy(k), window |-> w + 1, route |-> r]]
  <2>1. client' = [client EXCEPT ![t].history = k, ![t].window = w + 1]
    BY <1>2, <1>4, <1>6, <1>9
  <2>2. client \in [Tasks -> [history : Seq(Held), truth : SUBSET Events, window : Nat, route : Routes]]
    BY <1>1 DEF ClientsFit
  <2>3. client[t].truth = ToldBy(k)
    BY <1>5, <1>7, <1>8
  <2> QED BY <1>6, <2>1, <2>2, <2>3
<1>11. w + 1 # w /\ w + 1 \in Nat
  OBVIOUS
<1>12. ToldBy(k) # {}
  BY <1>5, <1>7, <1>8
<1>13. \E K \in Histories : HistoriesFit(K) /\ Grows(H, K) /\ ClientsFit(K, client')
  <2>1. PICK v \in Nat : v = w + 1 /\ v # w
    BY <1>11
  <2>2. v \in {client[t].window, client[t].window + 1} /\ v # client[t].window
    BY <1>6, <2>1
  <2>3. client' = [client EXCEPT ![t] = [history |-> k, truth |-> ToldBy(k), window |-> v, route |-> r]]
    BY <1>10, <2>1
  <2> QED BY <1>1, <1>8, <1>9, <1>12, <2>2, <2>3, ClientMoves
<1>14. CallsFit(H, request')
  BY <1>1, <1>2 DEF CallsFit, CallFits
<1> QED BY <1>1, <1>13, <1>14, MovesKeep

\* The choices of the user and a restart leave the histories alone.
LEMMA SwitchKeeps ==
  ASSUME NEW H, OfItsHistory(H),
         \/ \E t \in Tasks, r \in Routes : SwitchRoute(t, r)
         \/ \E p \in Writers \cup {"none"} : ChoosePolicy(p)
         \/ Forget
         \/ UNCHANGED providerVars
  PROVE  ProviderInv'
<1>1. /\ HistoriesFit(H) /\ ClientsFit(H, client) /\ CallsFit(H, request)
      /\ RowsFit(H, rows) /\ StagesFit(H, stages)
  BY DEF OfItsHistory
<1>2. ClientsFit(H, client')
  <2>1. CASE \E t \in Tasks, r \in Routes : SwitchRoute(t, r)
    <3>1. PICK t \in Tasks, r \in Routes : client' = [client EXCEPT ![t].route = r]
      BY <2>1 DEF SwitchRoute
    <3>2. client' \in [Tasks -> [history : Seq(Held), truth : SUBSET Events, window : Nat, route : Routes]]
      BY <1>1, <3>1 DEF ClientsFit
    <3>3. ASSUME NEW u \in Tasks
          PROVE  client'[u].window = client[u].window /\ client'[u].truth = client[u].truth
                 /\ client'[u].history = client[u].history
      BY <1>1, <3>1 DEF ClientsFit
    <3> QED BY <1>1, <3>2, <3>3 DEF ClientsFit
  <2>2. CASE \/ \E p \in Writers \cup {"none"} : ChoosePolicy(p)
             \/ Forget \/ UNCHANGED providerVars
    BY <1>1, <2>2 DEF ChoosePolicy, Forget, providerVars
  <2> QED BY <2>1, <2>2
<1>3. rows' = rows /\ (stages' = stages \/ stages' = << >>)
  BY DEF SwitchRoute, ChoosePolicy, Forget, providerVars
<1>4. RowsFit(H, rows') /\ StagesFit(H, stages')
  <2>1. StagesFit(H, << >>)
    BY SetOfOne DEF StagesFit
  <2> QED BY <1>1, <1>3, <2>1
<1>5. CallsFit(H, request')
  <2>1. CASE request' = request
    BY <1>1, <2>1
  <2>2. CASE Forget
    BY <1>1, <2>2 DEF Forget, CallsFit, CallFits
  <2> QED BY <2>1, <2>2 DEF SwitchRoute, ChoosePolicy, providerVars
<1>6. OfItsHistory(H)'
  BY <1>1, <1>2, <1>4, <1>5 DEF OfItsHistory
<1> QED BY <1>6 DEF ProviderInv
-----------------------------------------------------------------------------
(* The steps of the calls.                                                 *)

\* A step of one call that leaves the clients alone.
LEMMA CallStep ==
  ASSUME NEW H, OfItsHistory(H), NEW c \in Clients, NEW q, CallFits(H, q),
         request' = [request EXCEPT ![c] = q], UNCHANGED client,
         RowsFit(H, rows'), StagesFit(H, stages')
  PROVE  ProviderInv'
<1>1. CallsFit(H, request')
  BY DEF OfItsHistory, CallsFit
<1>2. OfItsHistory(H)'
  BY <1>1 DEF OfItsHistory
<1> QED BY <1>2 DEF ProviderInv

\* What a step finds of a call that is being summarised.
LEMMA AtSummary ==
  ASSUME NEW H, OfItsHistory(H), NEW c \in Clients, request[c].pc = "summarise"
  PROVE  H \in Histories /\ Stands(H, request[c]) /\ Summarising(request[c])
BY DEF OfItsHistory, HistoriesFit, CallsFit, CallFits, Idle, Answering, Over

\* What a step finds of a call that is to be answered.
LEMMA AtAnswer ==
  ASSUME NEW H, OfItsHistory(H), NEW c \in Clients, request[c].pc = "answer"
  PROVE  H \in Histories /\ Stands(H, request[c]) /\ Answering(request[c])
BY DEF OfItsHistory, HistoriesFit, CallsFit, CallFits, Idle, Summarising, Over

\* Any part of the source was shown in the window of the call, and the other way round.
LEMMA SourceFits ==
  ASSUME NEW H \in Histories, NEW q, Stands(H, q), Summarising(q)
  PROVE  /\ q.source \in Seq(Shown) /\ Len(q.source) \in Nat
         /\ ToldBy(Upto(q.source, Len(q.source))) = ToldBy(q.source)
         /\ \A n \in 0..Len(q.source) : \A s, made :
              s.task = q.task /\ s.window = q.window =>
                (MadeOf(H, s, n, made) <=> made = ToldBy(Upto(q.source, n)))
<1>1. Drawn(H, q) /\ q.asked \in Seq(Held)
  BY DEF Stands, Drawn, Begins
<1>2. PICK e \in Seq(Shown) : e = Expanded(q.asked)
  BY <1>1, ExpandedFits
<1>3. PICK source : source = q.source
  OBVIOUS
<1>4. /\ source \in Seq(Shown) /\ Len(source) \in 0..Len(e)
      /\ \A n \in 0..Len(source) : Upto(source, n) = Upto(e, n)
  <2>1. CASE q.kind = "compact"
    BY <1>2, <1>3, <2>1 DEF Summarising, Source
  <2>2. CASE q.kind = "answer"
    <3>1. source = Front(e) /\ Len(e) # 0
      BY <1>2, <1>3, <2>2 DEF Summarising, Source
    <3>2. source \in Seq(Shown) /\ Len(source) = Len(e) - 1 /\ source = Upto(e, Len(e) - 1)
      BY <3>1, FrontAndLast
    <3>3. PICK m \in 0..Len(e) : m = Len(e) - 1
      <4>1. Len(e) - 1 \in 0..Len(e)
        BY <3>1
      <4> QED BY <4>1, Zenon
    <3>4. \A n \in 0..m : Upto(Upto(e, m), n) = Upto(e, n)
      BY UptoFits
    <3> QED BY <3>2, <3>3, <3>4
  <2> QED BY <2>1, <2>2 DEF Stands
<1>5. ToldBy(Upto(source, Len(source))) = ToldBy(source)
  BY <1>4, UptoFits
<1>6. ASSUME NEW n \in 0..Len(source), NEW s, NEW made, s.task = q.task, s.window = q.window
      PROVE  MadeOf(H, s, n, made) <=> made = ToldBy(Upto(source, n))
  <2>1. n \in 0..Len(Expanded(q.asked))
    BY <1>2, <1>4
  <2>2. MadeOf(H, s, n, ToldBy(Upto(Expanded(q.asked), n)))
    BY <1>1, <1>6, <2>1, PartOfBeginning
  <2>3. MadeOf(H, s, n, ToldBy(Upto(source, n)))
    BY <1>2, <1>4, <2>2
  <2>4. \A a, b : MadeOf(H, s, n, a) /\ MadeOf(H, s, n, b) => a = b
    BY DEF MadeOf, Part
  <2> QED BY <2>3, <2>4
<1> QED BY <1>3, <1>4, <1>5, <1>6

\* What was summarised before and the next items.
LEMMA PartsJoin ==
  ASSUME NEW V, NEW s \in Seq(V), NEW n \in 0..Len(s), NEW m \in n..Len(s)
  PROVE  /\ SubSeq(s, n + 1, m) \in Seq(V) /\ Len(SubSeq(s, n + 1, m)) = m - n
         /\ ToldBy(Upto(s, n)) \cup ToldBy(SubSeq(s, n + 1, m)) = ToldBy(Upto(s, m))
<1>1. PICK a \in Seq(V) : a = Upto(s, n)
  BY UptoFits
<1>2. PICK b \in Seq(V) : b = SubSeq(s, n + 1, m) /\ Len(b) = m - n
  <2>1. PICK k \in Nat, i \in Int, j \in Int : k = Len(s) /\ i = n + 1 /\ j = m
    OBVIOUS
  <2>2. \A x \in i..j : s[x] \in V
    BY <2>1
  <2>3. /\ SubSeq(s, i, j) \in Seq(V)
        /\ Len(SubSeq(s, i, j)) = IF i <= j THEN j - i + 1 ELSE 0
    BY <2>2, SubSeqProperties
  <2>4. Len(SubSeq(s, i, j)) = m - n
    BY <2>1, <2>3
  <2> QED BY <2>1, <2>3, <2>4
<1>3. a \o b = Upto(s, m)
  BY <1>1, <1>2, ConcatAdjacentSubSeq DEF Upto
<1>4. ToldBy(a) \cup ToldBy(b) = ToldBy(Upto(s, m))
  BY <1>3, ToldByConcat, ZenonT(60)
<1> QED BY <1>1, <1>2, <1>4

\* A source in one message: its summary tells all of it.
LEMMA SummariseWholeKeeps ==
  ASSUME NEW H, OfItsHistory(H), NEW c \in Clients, SummariseWhole(c)
  PROVE  ProviderInv'
<1>1. PICK q : q = request[c]
  OBVIOUS
<1>0. PICK text \in Texts : \E o \in TurnEnds(q, SummaryId(q), q.source, text) :
        /\ rows' = o.rows
        /\ request' = [request EXCEPT ![c] =
             IF o.result # "ok" THEN Ended(q, o.result, {})
             ELSE LET r == CHOOSE r \in o.got : TRUE IN Delivered(q, r.text, r.made)]
  BY <1>1 DEF SummariseWhole, Recorded
<1>2. PICK o \in TurnEnds(q, SummaryId(q), q.source, text) :
        /\ rows' = o.rows
        /\ request' = [request EXCEPT ![c] =
             IF o.result # "ok" THEN Ended(q, o.result, {})
             ELSE LET r == CHOOSE r \in o.got : TRUE IN Delivered(q, r.text, r.made)]
  BY <1>0
<1>3. UNCHANGED <<client, stages>> /\ q.pc = "summarise"
  BY <1>1 DEF SummariseWhole
<1>4. H \in Histories /\ Stands(H, q) /\ Summarising(q)
  BY <1>1, <1>3, AtSummary
<1>5. PICK id : /\ id = SummaryId(q) /\ id.use \in {"compact", "overflow"}
                /\ id.session = Session(q) /\ id.body = Bytes(q.source)
  BY DEF SummaryId
<1>6. PICK n \in Nat, told \in {ToldBy(q.source)} : n = Len(q.source) /\ told = ToldBy(q.source)
  BY <1>4, SourceFits
<1>7. \A made : MadeOf(H, id.session, Len(id.body), made) <=> made = told
  <2>1. q.source \in Seq(Shown) /\ told = ToldBy(Upto(q.source, n)) /\ n \in 0..Len(q.source)
    BY <1>4, <1>6, SourceFits
  <2>2. Len(id.body) = n
    BY <1>5, <1>6, <2>1, BytesFit
  <2>3. id.session.task = q.task /\ id.session.window = q.window
    BY <1>5 DEF Session
  <2>4. \A made : MadeOf(H, id.session, n, made) <=> made = ToldBy(Upto(q.source, n))
    BY <1>4, <2>1, <2>3, SourceFits
  <2> QED BY <2>1, <2>2, <2>4
<1>8. \A completed : RowFits(H, NewRow(q, id, q.source, text, completed))
  <2>1. q.made \cup ToldBy(q.source) = told
    <3>1. /\ q.start \in 0..Len(q.source) /\ q.made = ToldBy(Upto(q.source, q.start))
          /\ q.source \in Seq(Shown) /\ n \in q.start..Len(q.source)
      BY <1>4, <1>6, SourceFits DEF Summarising
    <3>2. ToldBy(Upto(q.source, q.start)) \subseteq ToldBy(Upto(q.source, n))
      <4>1. PICK s \in Seq(Shown), k \in Nat : s = q.source /\ k = q.start /\ k \in 0..Len(s) /\ n \in k..Len(s)
        BY <3>1
      <4>2. ToldBy(Upto(s, k)) \cup ToldBy(SubSeq(s, k + 1, n)) = ToldBy(Upto(s, n))
        BY <4>1, PartsJoin
      <4> QED BY <4>1, <4>2
    <3>3. ToldBy(Upto(q.source, n)) = told
      BY <1>4, <1>6, SourceFits
    <3> QED BY <1>6, <3>1, <3>2, <3>3
  <2>2. ASSUME NEW completed
        PROVE  RowFits(H, NewRow(q, id, q.source, text, completed))
    <3>1. PICK r : r = NewRow(q, id, q.source, text, completed)
      OBVIOUS
    <3>2. r.id = id /\ r.text = text /\ r.made = told
      BY <2>1, <3>1 DEF NewRow
    <3>3. RowFits(H, r)
      BY <1>5, <1>7, <3>2 DEF RowFits, Said
    <3> QED BY <3>1, <3>3
  <2> QED BY <2>2
<1>9. /\ RowsFit(H, o.rows)
      /\ o.result \in {"refused", "failed", "E_REQUEST_CONFLICT", "E_REQUEST_ALREADY_ADMITTED",
                       "E_REPLAY_UNAVAILABLE", "ok"}
      /\ o.result = "ok" => \E r : RowFits(H, r) /\ r.id = id /\ o.got = {r}
  <2>1. RowsFit(H, rows)
    BY DEF OfItsHistory
  <2> QED BY <1>2, <1>5, <1>8, <2>1, EndsFit
<1>10. StagesFit(H, stages')
  BY <1>3 DEF OfItsHistory
<1>11. CASE o.result # "ok"
  <2>1. CallFits(H, Ended(q, o.result, {}))
    BY <1>4, <1>9, <1>11, EndedFits DEF Summarising
  <2>2. request' = [request EXCEPT ![c] = Ended(q, o.result, {})]
    BY <1>2, <1>11
  <2> QED BY <1>2, <1>3, <1>9, <1>10, <2>1, <2>2, CallStep
<1>12. CASE o.result = "ok"
  <2>1. PICK r : RowFits(H, r) /\ r.id = id /\ o.got = {r}
    BY <1>9, <1>12
  <2>2. request' = [request EXCEPT ![c] = Delivered(q, r.text, r.made)]
    <3>1. (CHOOSE x \in {r} : TRUE) = r
      OBVIOUS
    <3>2. request' = [request EXCEPT ![c] = LET x == CHOOSE x \in o.got : TRUE IN Delivered(q, x.text, x.made)]
      BY <1>2, <1>12
    <3> QED BY <2>1, <3>1, <3>2
  <2>3. r.text \in Said /\ r.made = told
    BY <1>5, <1>7, <2>1 DEF RowFits
  <2>4. CallFits(H, Delivered(q, r.text, r.made))
    BY <1>4, <1>6, <2>3, DeliveredFits
  <2> QED BY <1>2, <1>3, <1>9, <1>10, <2>2, <2>4, CallStep
<1> QED BY <1>11, <1>12

\* The checkpoint of the same request is still in the cache.
LEMMA SummaryCachedKeeps ==
  ASSUME NEW H, OfItsHistory(H), NEW c \in Clients, SummaryCached(c)
  PROVE  ProviderInv'
<1>1. PICK q : q = request[c]
  OBVIOUS
<1>2. UNCHANGED <<client, rows, stages>> /\ q.pc = "summarise"
  BY <1>1 DEF SummaryCached
<1>3. PICK s \in ToSet(stages) :
        s.key = FinalKey(q) /\ request' = [request EXCEPT ![c] = Delivered(q, s.text, s.made)]
  BY <1>1 DEF SummaryCached, Cached
<1>4. H \in Histories /\ Stands(H, q) /\ Summarising(q)
  BY <1>1, <1>2, AtSummary
<1>5. StageFits(H, s) /\ RowsFit(H, rows') /\ StagesFit(H, stages')
  BY <1>2, <1>3 DEF OfItsHistory, StagesFit
<1>6. PICK key : key = s.key /\ "final" \in DOMAIN key /\ key.final.session = Session(q)
                 /\ key.final.body = Bytes(q.source)
  BY <1>3 DEF FinalKey, SummaryId
<1>7. s.text \in Said /\ MadeOf(H, Session(q), Len(Bytes(q.source)), s.made)
  BY <1>5, <1>6 DEF StageFits
<1>8. s.made = ToldBy(q.source)
  <2>1. PICK n \in Nat : n = Len(q.source)
    BY <1>4, SourceFits
  <2>2. q.source \in Seq(Shown) /\ ToldBy(q.source) = ToldBy(Upto(q.source, n)) /\ n \in 0..Len(q.source)
    BY <1>4, <2>1, SourceFits
  <2>3. Len(Bytes(q.source)) = n
    BY <2>1, <2>2, BytesFit
  <2>4. Session(q).task = q.task /\ Session(q).window = q.window
    BY DEF Session
  <2>5. MadeOf(H, Session(q), n, s.made) => s.made = ToldBy(Upto(q.source, n))
    BY <1>4, <2>2, <2>4, SourceFits
  <2> QED BY <1>7, <2>2, <2>3, <2>5
<1>9. CallFits(H, Delivered(q, s.text, s.made))
  BY <1>4, <1>7, <1>8, DeliveredFits
<1> QED BY <1>2, <1>3, <1>5, <1>9, CallStep

\* The next fragment, told with the summary of those before it.
LEMMA FragmentTells ==
  ASSUME NEW H \in Histories, NEW q, Stands(H, q), Summarising(q)
  PROVE  \E m \in q.start..Len(q.source) :
           /\ m = IF LastStage(q) THEN Len(q.source) ELSE q.start + StageItems
           /\ q.start + Len(Bytes(Fragment(q))) = m
           /\ q.made \cup ToldBy(Fragment(q)) = ToldBy(Upto(q.source, m))
<1>1. PICK s \in Seq(Shown), k \in Nat : s = q.source /\ k = q.start /\ k \in 0..Len(s)
  BY SourceFits DEF Summarising
<1>2. q.made = ToldBy(Upto(s, k))
  BY <1>1 DEF Summarising
<1>3. PICK i \in Nat \ {0} : i = StageItems
  BY CompactionAssumption
<1>4. PICK m \in k..Len(s) : m = IF k + i >= Len(s) THEN Len(s) ELSE k + i
  <2>1. PICK n \in Nat : n = Len(s)
    BY <1>1
  <2>2. (IF k + i >= n THEN n ELSE k + i) \in k..n
    BY <1>1, <2>1
  <2> QED BY <2>1, <2>2, Zenon
<1>5. LastStage(q) <=> k + i >= Len(s)
  BY <1>1, <1>3 DEF LastStage
<1>6. Fragment(q) = SubSeq(s, k + 1, m)
  BY <1>1, <1>3, <1>4, <1>5 DEF Fragment
<1>7. PICK f \in Seq(Shown) : f = Fragment(q) /\ Len(f) = m - k
                              /\ ToldBy(Upto(s, k)) \cup ToldBy(f) = ToldBy(Upto(s, m))
  <2>1. PICK f : f = SubSeq(s, k + 1, m)
    OBVIOUS
  <2>2. f \in Seq(Shown) /\ Len(f) = m - k /\ ToldBy(Upto(s, k)) \cup ToldBy(f) = ToldBy(Upto(s, m))
    <3>1. s \in Seq(Shown) /\ k \in 0..Len(s) /\ m \in k..Len(s)
      BY <1>1, <1>4
    <3>2. /\ SubSeq(s, k + 1, m) \in Seq(Shown) /\ Len(SubSeq(s, k + 1, m)) = m - k
          /\ ToldBy(Upto(s, k)) \cup ToldBy(SubSeq(s, k + 1, m)) = ToldBy(Upto(s, m))
      BY ONLY <3>1, PartsJoin
    <3> QED BY ONLY <2>1, <3>2
  <2> QED BY <1>6, <2>1, <2>2, Zenon
<1>8. Len(Bytes(f)) = m - k
  BY <1>7, BytesFit
<1>9. k + Len(Bytes(f)) = m
  BY <1>4, <1>8
<1>10. m = IF LastStage(q) THEN Len(q.source) ELSE q.start + StageItems
  BY <1>1, <1>3, <1>4, <1>5
<1> QED BY <1>1, <1>2, <1>4, <1>7, <1>9, <1>10

Further(q, text, made) ==
  [q EXCEPT !.start = @ + StageItems, !.text = text, !.made = made]

\* The fragment was summarised: the call goes on with the next one, or has its checkpoint.
LEMMA FragmentSaid ==
  ASSUME NEW H, OfItsHistory(H), NEW c \in Clients, NEW q, q = request[c], q.pc = "summarise",
         NEW text \in Said, NEW made, NEW m \in q.start..Len(q.source),
         m = IF LastStage(q) THEN Len(q.source) ELSE q.start + StageItems,
         q.start + Len(Bytes(Fragment(q))) = m, made = ToldBy(Upto(q.source, m)),
         UNCHANGED client, RowsFit(H, rows'),
         NEW cache, cache = Remembered(stages, StageKey(q), text, made),
         IF LastStage(q)
         THEN /\ stages' = Remembered(cache, FinalKey(q), text, made)
              /\ request' = [request EXCEPT ![c] = Delivered(q, text, made)]
         ELSE /\ stages' = cache
              /\ request' = [request EXCEPT ![c] = Further(q, text, made)]
  PROVE  ProviderInv'
<1>1. H \in Histories /\ Stands(H, q) /\ Summarising(q) /\ StagesFit(H, stages)
  BY AtSummary DEF OfItsHistory
<1>2. PICK s \in Seq(Shown), k \in Nat : s = q.source /\ k = q.start /\ k \in 0..Len(s)
  BY <1>1, SourceFits DEF Summarising
<1>3. /\ Session(q).task = q.task /\ Session(q).window = q.window
      /\ Writer(q).task = q.task /\ Writer(q).window = q.window
  BY DEF Session, Writer
<1>4. m \in 0..Len(s) /\ m \in Nat
  BY <1>2
<1>5. MadeOf(H, Writer(q), m, made) /\ MadeOf(H, Session(q), m, made)
  BY <1>1, <1>2, <1>3, <1>4, SourceFits
<1>6. StagesFit(H, cache)
  <2>1. PICK x : x = [key |-> StageKey(q), text |-> text, made |-> made]
    OBVIOUS
  <2>2. PICK key : key = StageKey(q) /\ x.key = key
    BY <2>1
  <2>3. /\ DOMAIN key = {"writer", "home", "bytes"} /\ key.writer = Writer(q)
        /\ key.bytes.start = q.start /\ key.bytes.part = Bytes(Fragment(q))
    BY <2>2 DEF StageKey, StageBytes
  <2>4. StageFits(H, x)
    BY <1>5, <2>1, <2>2, <2>3 DEF StageFits
  <2> QED BY <1>1, <2>1, <2>4, RememberedFits
<1>7. CASE LastStage(q)
  <2>1. m = Len(s) /\ made = ToldBy(q.source)
    BY <1>1, <1>2, <1>7, SourceFits
  <2>2. StagesFit(H, stages')
    <3>1. PICK x : x = [key |-> FinalKey(q), text |-> text, made |-> made]
      OBVIOUS
    <3>2. PICK key : key = FinalKey(q) /\ x.key = key
      BY <3>1
    <3>3. /\ DOMAIN key = {"writer", "home", "final"} /\ key.final.session = Session(q)
          /\ key.final.body = Bytes(q.source)
      BY <3>2 DEF FinalKey, SummaryId
    <3>4. Len(Bytes(s)) = m
      BY <1>2, <2>1, BytesFit
    <3>5. StageFits(H, x)
      BY <1>2, <1>5, <3>1, <3>2, <3>3, <3>4 DEF StageFits
    <3>6. StagesFit(H, Remembered(cache, FinalKey(q), text, made))
      BY <1>6, <3>1, <3>5, RememberedFits
    <3> QED BY <1>7, <3>6
  <2>3. CallFits(H, Delivered(q, text, made))
    BY <1>1, <2>1, DeliveredFits
  <2> QED BY <1>7, <2>2, <2>3, CallStep
<1>8. CASE ~LastStage(q)
  <2>1. PICK r : r = [q EXCEPT !.start = m, !.text = text, !.made = made]
    OBVIOUS
  <2>2. IsCall(q)
    BY <1>1 DEF Stands
  <2>3. r = Call(q, q.pc, q.source, q.prompt, m, text, made, q.result, q.got, q.body, q.policy)
    BY <2>1, <2>2 DEF IsCall, Call
  <2>4. /\ IsCall(r) /\ r.pc = q.pc /\ r.source = q.source /\ r.start = m /\ r.text = text
        /\ r.made = made /\ r.result = q.result /\ r.body = q.body
        /\ r.kind = q.kind /\ r.task = q.task /\ r.window = q.window /\ r.route = q.route
        /\ r.asked = q.asked /\ r.truth = q.truth
    BY <2>3, CallFields, SMTT(30)
  <2>5. Stands(H, r) /\ Source(r) = Source(q)
    BY <1>1, <2>4, StandsStill
  <2>6. Summarising(r)
    BY <1>1, <1>2, <1>4, <2>4, <2>5 DEF Summarising
  <2>7. CallFits(H, r)
    BY <2>5, <2>6 DEF CallFits
  <2>8. stages' = cache /\ request' = [request EXCEPT ![c] = r]
    <3>1. m = q.start + StageItems
      BY <1>8
    <3>2. Further(q, text, made) = r
      BY <2>1, <3>1 DEF Further
    <3> QED BY <1>8, <3>2
  <2> QED BY <1>6, <2>7, <2>8, CallStep
<1> QED BY <1>7, <1>8

\* A fragment that was summarised before, or is now.
LEMMA SummariseFragmentKeeps ==
  ASSUME NEW H, OfItsHistory(H), NEW c \in Clients, SummariseFragment(c)
  PROVE  ProviderInv'
<1> DEFINE Goes(q, o) ==
      /\ rows' = o.rows
      /\ IF o.result # "ok"
         THEN request' = [request EXCEPT ![c] = Ended(q, o.result, {})] /\ UNCHANGED stages
         ELSE LET r == CHOOSE r \in o.got : TRUE
                  cache == Remembered(stages, StageKey(q), r.text, r.made)
              IN IF LastStage(q)
                 THEN /\ stages' = Remembered(cache, FinalKey(q), r.text, r.made)
                      /\ request' = [request EXCEPT ![c] = Delivered(q, r.text, r.made)]
                 ELSE /\ stages' = cache
                      /\ request' = [request EXCEPT ![c] =
                           [q EXCEPT !.start = @ + StageItems, !.text = r.text, !.made = r.made]]
           Ways(q, kept, text) ==
             IF kept # {} THEN {[result |-> "ok", rows |-> rows, replay |-> replay, got |-> kept]}
             ELSE TurnEnds(q, StageId(q), Fragment(q), text)
<1>0. PICK text \in Texts :
        \E o \in Ways(request[c], Cached(StageKey(request[c])), text) : Goes(request[c], o)
  BY DEF SummariseFragment, Recorded
<1>1. PICK q, kept : q = request[c] /\ kept = Cached(StageKey(q))
  OBVIOUS
<1>2. UNCHANGED client /\ q.pc = "summarise"
  BY <1>1 DEF SummariseFragment
<1>3. \E o \in Ways(q, kept, text) : Goes(q, o)
  <2> HIDE DEF Goes, Ways
  <2> QED BY <1>0, <1>1
<1>4. H \in Histories /\ Stands(H, q) /\ Summarising(q) /\ RowsFit(H, rows) /\ StagesFit(H, stages)
  BY <1>1, <1>2, AtSummary DEF OfItsHistory
<1>5. PICK m \in q.start..Len(q.source) :
        /\ m = IF LastStage(q) THEN Len(q.source) ELSE q.start + StageItems
        /\ q.start + Len(Bytes(Fragment(q))) = m
        /\ q.made \cup ToldBy(Fragment(q)) = ToldBy(Upto(q.source, m))
  BY <1>4, FragmentTells
<1>6. PICK told : told = ToldBy(Upto(q.source, m))
  OBVIOUS
<1>7. \A s, made : s.task = q.task /\ s.window = q.window => (MadeOf(H, s, m, made) <=> made = told)
  <2>1. m \in 0..Len(q.source)
    <3>1. PICK n \in Nat, k \in Nat : n = Len(q.source) /\ k = q.start
      BY <1>4, SourceFits DEF Summarising
    <3> QED BY <1>5, <3>1
  <2> QED BY <1>4, <1>6, <2>1, SourceFits
<1>8. ASSUME NEW r, r.text \in Said, r.made = told, NEW o, Goes(q, o), RowsFit(H, o.rows),
             o.result = "ok", (CHOOSE x \in o.got : TRUE) = r
      PROVE  ProviderInv'
  <2>1. PICK cache : cache = Remembered(stages, StageKey(q), r.text, r.made)
    OBVIOUS
  <2>2. /\ rows' = o.rows
        /\ IF LastStage(q)
           THEN /\ stages' = Remembered(cache, FinalKey(q), r.text, r.made)
                /\ request' = [request EXCEPT ![c] = Delivered(q, r.text, r.made)]
           ELSE /\ stages' = cache
                /\ request' = [request EXCEPT ![c] = Further(q, r.text, r.made)]
    BY <1>8, <2>1 DEF Further
  <2> HIDE DEF Goes
  <2>3. PICK said \in Said : said = r.text
    BY <1>8
  <2>4. /\ cache = Remembered(stages, StageKey(q), said, told)
        /\ IF LastStage(q)
           THEN /\ stages' = Remembered(cache, FinalKey(q), said, told)
                /\ request' = [request EXCEPT ![c] = Delivered(q, said, told)]
           ELSE /\ stages' = cache
                /\ request' = [request EXCEPT ![c] = Further(q, said, told)]
    BY <1>8, <2>1, <2>2, <2>3
  <2>5. RowsFit(H, rows')
    BY <1>8, <2>2
  <2> QED BY <1>1, <1>2, <1>5, <1>6, <2>4, <2>5, FragmentSaid
<1>9. CASE kept # {}
  <2>1. PICK o : o = [result |-> "ok", rows |-> rows, replay |-> replay, got |-> kept] /\ Goes(q, o)
    BY <1>3, <1>9
  <2>2. PICK r \in kept : (CHOOSE x \in o.got : TRUE) = r
    BY <1>9, <2>1
  <2>3. r \in ToSet(stages) /\ r.key = StageKey(q)
    BY <1>1, <2>2 DEF Cached
  <2>4. r.text \in Said /\ r.made = told
    <3>1. PICK key : key = r.key /\ "bytes" \in DOMAIN key /\ key.writer = Writer(q)
                     /\ key.bytes.start = q.start /\ key.bytes.part = Bytes(Fragment(q))
      BY <2>3 DEF StageKey, StageBytes
    <3>2. StageFits(H, r)
      BY <1>4, <2>3 DEF StagesFit
    <3>3. r.text \in Said /\ MadeOf(H, Writer(q), m, r.made)
      BY <1>5, <3>1, <3>2 DEF StageFits
    <3>4. Writer(q).task = q.task /\ Writer(q).window = q.window
      BY DEF Writer, Session
    <3> QED BY <1>7, <3>3, <3>4
  <2>5. o.result = "ok" /\ RowsFit(H, o.rows)
    BY <1>4, <2>1
  <2> HIDE DEF Goes
  <2> QED BY <1>8, <2>1, <2>2, <2>4, <2>5
<1>10. CASE kept = {}
  <2>1. PICK o \in TurnEnds(q, StageId(q), Fragment(q), text) : Goes(q, o)
    BY <1>3, <1>10
  <2>2. PICK id : /\ id = StageId(q) /\ id.use = "stage"
                  /\ id.base.session = Session(q) /\ id.bytes.start = q.start
                  /\ id.bytes.part = Bytes(Fragment(q))
    BY DEF StageId, SummaryId, StageBytes
  <2>3. \A made : MadeOf(H, id.base.session, id.bytes.start + Len(id.bytes.part), made) <=> made = told
    <3>1. id.base.session.task = q.task /\ id.base.session.window = q.window
      BY <2>2 DEF Session
    <3>2. id.bytes.start + Len(id.bytes.part) = m
      BY <1>5, <2>2
    <3> QED BY <1>7, <3>1, <3>2
  <2>4. ASSUME NEW completed PROVE RowFits(H, NewRow(q, id, Fragment(q), text, completed))
    <3>1. PICK r : r = NewRow(q, id, Fragment(q), text, completed)
      OBVIOUS
    <3>2. r.id = id /\ r.text = text /\ r.made = told
      BY <1>5, <1>6, <3>1 DEF NewRow
    <3>3. RowFits(H, r)
      BY <2>2, <2>3, <3>2 DEF RowFits, Said
    <3> QED BY <3>1, <3>3
  <2>5. /\ RowsFit(H, o.rows)
        /\ o.result \in {"refused", "failed", "E_REQUEST_CONFLICT", "E_REQUEST_ALREADY_ADMITTED",
                         "E_REPLAY_UNAVAILABLE", "ok"}
        /\ o.result = "ok" => \E r : RowFits(H, r) /\ r.id = id /\ o.got = {r}
    BY <1>4, <2>1, <2>2, <2>4, EndsFit
  <2>6. CASE o.result # "ok"
    <3>1. /\ rows' = o.rows /\ stages' = stages
          /\ request' = [request EXCEPT ![c] = Ended(q, o.result, {})]
      BY <2>1, <2>6
    <3> HIDE DEF Goes
    <3>2. CallFits(H, Ended(q, o.result, {}))
      BY <1>4, <2>5, <2>6, EndedFits DEF Summarising
    <3> QED BY <1>2, <1>4, <2>5, <3>1, <3>2, CallStep
  <2>7. CASE o.result = "ok"
    <3> HIDE DEF Goes
    <3>1. PICK r : RowFits(H, r) /\ r.id = id /\ o.got = {r}
      BY <2>5, <2>7
    <3>2. r.text \in Said /\ r.made = told
      BY <2>2, <2>3, <3>1 DEF RowFits
    <3>3. (CHOOSE x \in o.got : TRUE) = r
      BY <3>1
    <3> QED BY <1>8, <2>1, <2>5, <2>7, <3>2, <3>3
  <2> QED BY <2>6, <2>7
<1> QED BY <1>9, <1>10

\* The answer is on record for the call it was made for.
LEMMA AnswerKeeps ==
  ASSUME NEW H, OfItsHistory(H), NEW c \in Clients, Answer(c)
  PROVE  ProviderInv'
<1>1. PICK q : q = request[c]
  OBVIOUS
<1>2. PICK o \in TurnEnds(q, TurnId(q), q.prompt, "none") :
        /\ rows' = o.rows
        /\ request' = [request EXCEPT ![c] = Ended(q, o.result, o.got)]
  BY <1>1 DEF Answer, Recorded
<1>3. UNCHANGED <<client, stages>> /\ q.pc = "answer"
  BY <1>1 DEF Answer
<1>4. H \in Histories /\ Stands(H, q) /\ Answering(q) /\ Drawn(H, q) /\ RowsFit(H, rows)
      /\ StagesFit(H, stages')
  BY <1>1, <1>3, AtAnswer DEF Stands, OfItsHistory
<1>5. PICK p : p = Purpose(q) /\ Purpose(p) = p /\ Session(p) = Session(q) /\ p.asked = q.asked
               /\ p.truth = q.truth /\ p.task = q.task /\ p.window = q.window /\ Drawn(H, p)
  <2>1. PICK p : p = Purpose(q)
    OBVIOUS
  <2>2. /\ p.asked = q.asked /\ p.truth = q.truth /\ p.task = q.task /\ p.window = q.window
        /\ p.route = q.route /\ Purpose(p) = p
    BY <2>1 DEF Purpose
  <2>3. Session(p) = Session(q)
    BY <2>2 DEF Session
  <2>4. Drawn(H, p)
    BY <1>4, <2>2 DEF Drawn
  <2> QED BY <2>1, <2>2, <2>3, <2>4
<1>6. PICK id : /\ id = TurnId(q) /\ id.use = "answer"
                /\ id = [use |-> "answer", session |-> Session(q), body |-> Bytes(Expanded(q.asked)),
                         policy |-> "none"]
  BY <1>4 DEF TurnId, Answering
<1>7. ASSUME NEW completed PROVE RowFits(H, NewRow(q, id, q.prompt, "none", completed))
  <2>1. PICK r : r = NewRow(q, id, q.prompt, "none", completed)
    OBVIOUS
  <2>2. /\ r.id = id /\ r.text = "none" /\ r.purpose = p /\ r.made = q.made \cup ToldBy(q.prompt)
        /\ r.pending = ToSet(Pending(q.prompt))
    BY <1>3, <1>5, <2>1 DEF NewRow
  <2>3. r.made = p.truth
    BY <1>4, <1>5, <2>2 DEF Answering
  <2>4. r.pending = Unanswered(p.truth)
    <3>1. PICK s \in Seq(Shown) : s = q.prompt
      BY <1>4 DEF Answering
    <3>2. ToSet(Pending(s)) = ToSet(s) \cap Unanswered(ToSet(s))
      BY WithinSet DEF Pending
    <3>3. Unanswered(ToSet(s)) \subseteq ToSet(s)
      BY DEF Unanswered
    <3> QED BY <1>4, <1>5, <2>2, <3>1, <3>2, <3>3 DEF Answering
  <2>5. RowFits(H, r)
    BY <1>5, <1>6, <2>2, <2>3, <2>4 DEF RowFits, Said
  <2> QED BY <2>1, <2>5
<1>8. /\ RowsFit(H, o.rows)
      /\ o.result \in {"refused", "failed", "E_REQUEST_CONFLICT", "E_REQUEST_ALREADY_ADMITTED",
                       "E_REPLAY_UNAVAILABLE", "ok"}
      /\ o.result = "ok" => \E r : RowFits(H, r) /\ r.id = id /\ o.got = {r}
  BY <1>2, <1>4, <1>6, <1>7, EndsFit
<1>9. ASSUME o.result = "ok", NEW g \in o.got
      PROVE  g.purpose = p
  <2>1. RowFits(H, g) /\ g.id = id
    BY <1>8, <1>9
  <2>2. PICK d : d = g.purpose
    OBVIOUS
  <2>3. /\ Drawn(H, d) /\ d = Purpose(d)
        /\ id = [use |-> "answer", session |-> Session(d), body |-> Bytes(Expanded(d.asked)),
                 policy |-> "none"]
    BY <1>6, <2>1, <2>2 DEF RowFits
  <2>4. Session(d) = Session(q) /\ Bytes(Expanded(d.asked)) = Bytes(Expanded(q.asked))
    BY <1>6, <2>3
  <2>5. d.task = q.task /\ d.window = q.window /\ d.route = q.route
    BY <2>4 DEF Session
  <2>6. Len(Expanded(d.asked)) = Len(Expanded(q.asked))
    <3>1. d.asked \in Seq(Held) /\ q.asked \in Seq(Held)
      BY <1>4, <2>3 DEF Drawn, Begins
    <3>2. PICK a \in Seq(Shown), b \in Seq(Shown) : a = Expanded(d.asked) /\ b = Expanded(q.asked)
      BY <3>1, ExpandedFits
    <3>3. Len(Bytes(a)) = Len(a) /\ Len(Bytes(b)) = Len(b)
      BY BytesFit
    <3> QED BY <2>4, <3>2, <3>3
  <2>7. d.asked = q.asked /\ d.truth = q.truth
    BY <1>4, <2>3, <2>5, <2>6, DrawnOnce
  <2>8. Purpose(d) = Purpose(q)
    BY <2>5, <2>7 DEF Purpose
  <2> QED BY <1>5, <2>2, <2>3, <2>8
<1>10. CallFits(H, Ended(q, o.result, o.got))
  <2>1. q.result = "none" /\ q.kind = "answer" /\ o.result # "E_NONPORTABLE_CONTEXT"
    BY <1>4, <1>8 DEF Answering
  <2>2. o.result = "ok" => \A g \in o.got : g.purpose = Purpose(q)
    BY <1>5, <1>9
  <2> QED BY <1>4, <2>1, <2>2, EndedFits
<1> QED BY <1>2, <1>3, <1>4, <1>8, <1>10, CallStep
-----------------------------------------------------------------------------
\* At first nothing has happened.
LEMMA InitFits ==
  ASSUME ProviderInit
  PROVE  ProviderInv
<1>1. PICK H : H = [t \in Tasks |-> [w \in Nat |-> << >>]]
  OBVIOUS
<1>2. HistoriesFit(H)
  <2>1. << >> \in Seq(Held)
    OBVIOUS
  <2> QED BY <1>1, <2>1, EmptyTale DEF HistoriesFit, Histories
<1>3. ClientsFit(H, client)
  <2>1. PICK r \in Routes : r = CHOOSE x \in Routes : TRUE
    BY CompactionAssumption
  <2>2. client = [t \in Tasks |-> [history |-> << >>, truth |-> {}, window |-> 1, route |-> r]]
    BY <2>1 DEF ProviderInit
  <2>3. << >> \in Seq(Held)
    OBVIOUS
  <2> QED BY <1>1, <2>2, <2>3, EmptyTale DEF ClientsFit
<1>4. RowsFit(H, rows) /\ StagesFit(H, stages) /\ CallsFit(H, request)
  BY SetOfOne DEF ProviderInit, RowsFit, StagesFit, CallsFit, CallFits
<1>5. OfItsHistory(H)
  BY <1>2, <1>3, <1>4 DEF OfItsHistory
<1> QED BY <1>5 DEF ProviderInv

\* A call presents the whole history of its task.
LEMMA AskKeeps ==
  ASSUME NEW H, OfItsHistory(H), NEW t \in Tasks, NEW c \in Clients,
         NEW kind \in {"answer", "compact"}, Ask(c, t, kind)
  PROVE  ProviderInv'
<1>1. /\ H \in Histories /\ HistoriesFit(H) /\ ClientsFit(H, client)
      /\ UNCHANGED <<client, rows, stages>> /\ RowsFit(H, rows') /\ StagesFit(H, stages')
  BY DEF OfItsHistory, HistoriesFit, Ask
<1>2. PICK h \in Seq(Held), w \in Nat, r \in Routes, T \in SUBSET Events :
        /\ h = client[t].history /\ w = client[t].window /\ r = client[t].route
        /\ T = client[t].truth /\ h # << >> /\ T = ToldBy(h) /\ h = H[t][w] /\ Tale(h)
  <2>1. PICK h \in Seq(Held), w \in Nat, r \in Routes, T \in SUBSET Events :
          /\ h = client[t].history /\ w = client[t].window /\ r = client[t].route
          /\ T = client[t].truth
    BY <1>1 DEF ClientsFit
  <2>2. T = ToldBy(h) /\ h = H[t][w] /\ Tale(h)
    BY <1>1, <2>1 DEF ClientsFit, HistoriesFit
  <2>3. h # << >>
    BY <2>1 DEF Ask
  <2> QED BY <2>1, <2>2, <2>3
<1>3. PICK body \in Seq(Shown) : body = Expanded(h)
  BY ExpandedFits
<1>4. PICK over \in BOOLEAN : over <=> kind = "answer" /\ Len(body) > Budget
  OBVIOUS
<1>5. PICK source, chosen : /\ source = IF over THEN Front(body) ELSE body
                            /\ chosen = IF over \/ kind = "compact" THEN policy ELSE "none"
  OBVIOUS
<1>6. PICK q : /\ q = [Idle EXCEPT !.kind = kind, !.task = t, !.window = w, !.route = r, !.asked = h,
                                   !.truth = T, !.body = body, !.prompt = body,
                                   !.source = source, !.policy = chosen]
               /\ request' = [request EXCEPT ![c] =
                    IF ~Portable(q) THEN Ended(q, "E_NONPORTABLE_CONTEXT", {})
                    ELSE [q EXCEPT !.pc = IF over \/ kind = "compact" THEN "summarise" ELSE "answer"]]
  BY <1>2, <1>3, <1>4, <1>5, ZenonT(60) DEF Ask, Portable
<1>7. q = [pc |-> "idle", kind |-> kind, task |-> t, window |-> w, route |-> r, asked |-> h,
           truth |-> T, body |-> body, source |-> source, prompt |-> body, policy |-> chosen,
           start |-> 0, text |-> "none", made |-> {}, result |-> "none", got |-> {}]
  <2>1. PICK p : p = [Idle EXCEPT !.kind = kind, !.task = t, !.window = w, !.route = r, !.asked = h]
    OBVIOUS
  <2>2. p = [pc |-> "idle", kind |-> kind, task |-> t, window |-> w, route |-> r, asked |-> h,
             truth |-> {}, body |-> << >>, source |-> << >>, prompt |-> << >>, policy |-> "none",
             start |-> 0, text |-> "none", made |-> {}, result |-> "none", got |-> {}]
    BY <2>1 DEF Idle
  <2>3. q = [p EXCEPT !.truth = T, !.body = body, !.prompt = body, !.source = source, !.policy = chosen]
    BY <1>6, <2>1
  <2> QED BY <2>2, <2>3
<1>8. /\ IsCall(q) /\ q.kind = kind /\ q.task = t /\ q.window = w /\ q.route = r /\ q.asked = h
      /\ q.truth = T /\ q.body = body /\ q.source = source /\ q.prompt = body /\ q.start = 0
      /\ q.text = "none" /\ q.made = {} /\ q.result = "none"
  BY <1>7 DEF IsCall, Call
<1>9. ASSUME NEW p, IsCall(p), p.kind = kind, p.task = t, p.window = w, p.route = r, p.asked = h,
             p.truth = T, p.result = "E_NONPORTABLE_CONTEXT" <=> ~Portable(q)
      PROVE  Stands(H, p) /\ (over \/ kind = "compact" => Source(p) = source)
  <2>1. Drawn(H, p)
    BY <1>1, <1>2, <1>9, BeginsWhole DEF Drawn
  <2>2. Portable(p) <=> Portable(q)
    BY <1>8, <1>9 DEF Portable, Home
  <2>3. over \/ kind = "compact" => Source(p) = source
    BY <1>3, <1>4, <1>5, <1>9 DEF Source
  <2> QED BY <1>2, <1>9, <2>1, <2>2, <2>3 DEF Stands
<1>10. CASE ~Portable(q)
  <2>1. PICK p : p = Ended(q, "E_NONPORTABLE_CONTEXT", {})
    OBVIOUS
  <2>2. p = Call(q, "done", << >>, << >>, 0, "none", {}, "E_NONPORTABLE_CONTEXT", {}, << >>, "none")
    BY <1>8, <2>1, EndedIs
  <2>3. /\ IsCall(p) /\ p.pc = "done" /\ p.result = "E_NONPORTABLE_CONTEXT" /\ p.kind = q.kind
        /\ p.task = q.task /\ p.window = q.window /\ p.route = q.route /\ p.asked = q.asked
        /\ p.truth = q.truth
    BY <2>2, CallFields
  <2>4. Stands(H, p) /\ Over(p)
    BY <1>8, <1>9, <1>10, <2>3 DEF Over
  <2> QED BY <1>1, <1>6, <1>10, <2>1, <2>4, CallStep DEF CallFits
<1>11. CASE Portable(q)
  <2>1. PICK pc : pc = IF over \/ kind = "compact" THEN "summarise" ELSE "answer"
    OBVIOUS
  <2>2. PICK p : p = [q EXCEPT !.pc = pc]
    OBVIOUS
  <2>3. p = Call(q, pc, q.source, q.prompt, q.start, q.text, q.made, q.result, q.got, q.body, q.policy)
    BY <1>8, <2>2 DEF IsCall, Call
  <2>4. /\ IsCall(p) /\ p.pc = pc /\ p.source = source /\ p.prompt = body /\ p.start = 0
        /\ p.text = "none" /\ p.made = {} /\ p.result = "none" /\ p.body = body
        /\ p.kind = kind /\ p.task = t /\ p.window = w /\ p.route = r /\ p.asked = h /\ p.truth = T
    BY <1>8, <2>3, CallFields
  <2>5. Stands(H, p) /\ (over \/ kind = "compact" => Source(p) = source)
    BY <1>9, <1>11, <2>4
  <2>6. CASE over \/ kind = "compact"
    <3>1. kind = "answer" => Len(body) # 0
      BY <1>4, <2>6, CompactionAssumption
    <3>2. source \in Seq(Shown)
      <4>1. CASE over
        <5>1. Len(body) # 0
          BY <1>4, <3>1, <4>1
        <5> QED BY <1>5, <4>1, <5>1, FrontAndLast
      <4>2. CASE ~over
        BY <1>5, <4>2
      <4> QED BY <4>1, <4>2
    <3>3. 0 \in 0..Len(source) /\ ToldBy(Upto(source, 0)) = {}
      <4>1. 0 \in 0..Len(source)
        BY <3>2
      <4> QED BY <3>2, <4>1, UptoFits, EmptyTale
    <3>4. Summarising(p)
      BY <1>3, <2>1, <2>4, <2>5, <2>6, <3>1, <3>3 DEF Summarising, Said
    <3> QED BY <1>1, <1>6, <1>11, <2>1, <2>2, <2>5, <3>4, CallStep DEF CallFits
  <2>7. CASE ~(over \/ kind = "compact")
    <3>1. ToldBy(body) = T /\ Unanswered(ToSet(body)) = Unanswered(T)
      BY <1>2, <1>3 DEF Tale
    <3>2. Answering(p)
      BY <1>3, <2>1, <2>4, <2>7, <3>1 DEF Answering
    <3> QED BY <1>1, <1>6, <1>11, <2>1, <2>2, <2>5, <3>2, CallStep DEF CallFits
  <2> QED BY <2>6, <2>7
<1> QED BY <1>10, <1>11
-----------------------------------------------------------------------------
\* Every step of the provider and its clients.
LEMMA ProviderStep ==
  ASSUME ProviderInv, [ProviderNext]_providerVars
  PROVE  ProviderInv'
<1>1. PICK H : OfItsHistory(H)
  BY DEF ProviderInv
<1>2. ASSUME NEW t \in Tasks, NEW x \in Events, Grow(t, x) PROVE ProviderInv'
  BY <1>1, <1>2, GrowKeeps
<1>3. ASSUME NEW t \in Tasks, NEW u \in Tasks, Fork(t, u) PROVE ProviderInv'
  BY <1>1, <1>3, ForkKeeps
<1>4. ASSUME NEW t \in Tasks, NEW c \in Clients, NEW kind \in {"answer", "compact"}, Ask(c, t, kind)
      PROVE  ProviderInv'
  BY <1>1, <1>4, AskKeeps
<1>5. CASE \/ \E t \in Tasks, r \in Routes : SwitchRoute(t, r)
           \/ \E p \in Writers \cup {"none"} : ChoosePolicy(p)
           \/ Forget
           \/ UNCHANGED providerVars
  BY <1>1, <1>5, SwitchKeeps
<1>6. ASSUME NEW c \in Clients, SummariseWhole(c) PROVE ProviderInv'
  BY <1>1, <1>6, SummariseWholeKeeps
<1>7. ASSUME NEW c \in Clients, SummaryCached(c) PROVE ProviderInv'
  BY <1>1, <1>7, SummaryCachedKeeps
<1>8. ASSUME NEW c \in Clients, SummariseFragment(c) PROVE ProviderInv'
  BY <1>1, <1>8, SummariseFragmentKeeps
<1>9. ASSUME NEW c \in Clients, Answer(c) PROVE ProviderInv'
  BY <1>1, <1>9, AnswerKeeps
<1>10. ASSUME NEW c \in Clients, TakeToken(c) PROVE ProviderInv'
  BY <1>1, <1>10, TakeTokenKeeps
<1> QED BY <1>2, <1>3, <1>4, <1>5, <1>6, <1>7, <1>8, <1>9, <1>10 DEF ProviderNext

\* The inductive invariant: there are histories, one for each task and window, that every
\* row, every cached summary and every call was made of a beginning of (web_provider.rs).
THEOREM ProviderKeepsItsHistory == ProviderSpec => []ProviderInv
<1>1. ProviderInit => ProviderInv
  BY InitFits
<1>2. ProviderInv /\ [ProviderNext]_providerVars => ProviderInv'
  BY ProviderStep
<1> QED BY <1>1, <1>2, PTL DEF ProviderSpec

\* What is drawn from one history with the same length is the same.
LEMMA OneTurnFollows ==
  ASSUME ProviderInv
  PROVE  OneTurnForItsHistory
<1>1. PICK H : OfItsHistory(H)
  BY DEF ProviderInv
<1>2. ASSUME NEW r \in rows, r.id.use = "answer"
      PROVE  /\ r.made = r.purpose.truth /\ r.pending = Unanswered(r.purpose.truth)
             /\ r.id = [use |-> "answer", session |-> Session(r.purpose),
                        body |-> Bytes(Expanded(r.purpose.asked)), policy |-> "none"]
  BY <1>1, <1>2 DEF OfItsHistory, RowsFit, RowFits
<1>3. ASSUME NEW c \in Clients, request[c].result = "ok", NEW g \in request[c].got
      PROVE  IF request[c].kind = "compact"
             THEN g.made = request[c].truth /\ ToSet(g.pending) = Unanswered(request[c].truth)
             ELSE g.purpose = Purpose(request[c])
  <2>1. PICK q : q = request[c]
    OBVIOUS
  <2>2. CallFits(H, q) /\ q.result = "ok"
    BY <1>1, <1>3, <2>1 DEF OfItsHistory, CallsFit
  <2>3. Stands(H, q) /\ Over(q)
    BY <2>2 DEF CallFits, Idle, Summarising, Answering
  <2>4. CASE q.kind = "compact"
    <3>1. g \in Tokens /\ g.made = q.truth
      BY <1>3, <2>1, <2>2, <2>3, <2>4 DEF Over
    <3> QED BY <2>1, <2>4, <3>1 DEF Tokens
  <2>5. CASE q.kind = "answer"
    BY <1>3, <2>1, <2>2, <2>3, <2>5 DEF Over
  <2> QED BY <2>1, <2>3, <2>4, <2>5 DEF Stands
<1>4. AnswersItsOwnHistory
  BY <1>2, <1>3 DEF AnswersItsOwnHistory
<1>5. ASSUME NEW a \in rows, NEW b \in rows, a.id.use = "answer", b.id.use = "answer",
             a.purpose = b.purpose
      PROVE  a = b
  <2>1. a.id = b.id
    BY <1>2, <1>5
  <2> QED BY <1>1, <2>1 DEF OfItsHistory, RowsFit
<1>6. RetryIsNoSecondTurn
  BY <1>5 DEF RetryIsNoSecondTurn
<1> QED BY <1>4, <1>6 DEF OneTurnForItsHistory

\* The home of a checkpoint is the task and the route it is of.
LEMMA AtHomeFollows ==
  ASSUME ProviderInv
  PROVE  CheckpointOpensAtHome
<1>1. PICK H : OfItsHistory(H)
  BY DEF ProviderInv
<1>2. ASSUME NEW c \in Clients, request[c].pc # "idle"
      PROVE  request[c].result = "E_NONPORTABLE_CONTEXT" <=>
               \E x \in ToSet(request[c].asked) :
                 IsToken(x) /\ x.of # [task |-> request[c].task, route |-> request[c].route]
  <2>1. PICK q : q = request[c]
    OBVIOUS
  <2>2. Stands(H, q)
    <3>1. CallFits(H, q) /\ q # Idle
      BY <1>1, <1>2, <2>1 DEF OfItsHistory, CallsFit, Idle
    <3> QED BY <3>1 DEF CallFits
  <2>3. q.asked \in Seq(Held) /\ (q.result = "E_NONPORTABLE_CONTEXT" <=> ~Portable(q))
    BY <2>2 DEF Stands, Drawn, Begins
  <2>4. ASSUME NEW x \in ToSet(q.asked), IsToken(x)
        PROVE  x.home = Home(q) <=> x.of = [task |-> q.task, route |-> q.route]
    <3>1. x \in Held
      BY <2>3 DEF ToSet
    <3>2. x \in Tokens
      BY <2>4, <3>1, EventFits DEF Held
    <3>3. /\ x.home = [task |-> x.of.task, window |-> 0, route |-> x.of.route]
          /\ x.of = [task |-> x.of.task, route |-> x.of.route]
      BY <3>2, TokenFits
    <3>4. PICK of, home, a, b : of = x.of /\ home = x.home /\ a = x.of.task /\ b = x.of.route
      OBVIOUS
    <3>5. home = [task |-> a, window |-> 0, route |-> b] /\ of = [task |-> a, route |-> b]
      BY <3>3, <3>4
    <3>6. Home(q) = [task |-> q.task, window |-> 0, route |-> q.route]
      BY DEF Home
    <3>7. home = Home(q) <=> of = [task |-> q.task, route |-> q.route]
      BY <3>5, <3>6
    <3> QED BY <3>4, <3>7
  <2> QED BY <2>1, <2>3, <2>4 DEF Portable
<1> QED BY <1>2 DEF CheckpointOpensAtHome

\* A turn is taken once for its own history: its prompt tells all that happened in it, and
\* a call gets what was made of its own history, whatever was summarised, cached, forgotten
\* or retried in between (CoordinatorProvider::execute, staged_compaction::execute).
THEOREM OneTurn == ProviderSpec => []OneTurnForItsHistory
BY ProviderKeepsItsHistory, OneTurnFollows, PTL

\* A checkpoint opens in its own task and route and nowhere else (BoundCheckpoint::expand).
THEOREM OpensAtHome == ProviderSpec => []CheckpointOpensAtHome
BY ProviderKeepsItsHistory, AtHomeFollows, PTL
===============================================================================
