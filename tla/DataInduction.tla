---------------------------- MODULE DataInduction ----------------------------
(***************************************************************************)
(* Induction for the proofs about what the models compute.  A predicate is *)
(* given as the set of the values that satisfy it, and the steps of a fold *)
(* as a function, so that the provers need no operator for either.         *)
(***************************************************************************)
EXTENDS Integers, SequencesExt, FiniteSetsExt, FiniteSetTheorems, SequenceTheorems, TLAPS

(* Every set of numbers has a least one. *)
LEMMA Smallest ==
  ASSUME NEW T, T \subseteq Nat, T # {}
  PROVE  \E x \in T : \A y \in T : x <= y
<1> DEFINE Below == {0..x : x \in T}
<1>1. IsWellFoundedOn(StrictSubsetOrdering(Nat), FiniteSubsetsOf(Nat))
  BY FS_StrictSubsetOrderingWellFounded
<1>2. Below \subseteq FiniteSubsetsOf(Nat) /\ Below # {}
  <2>1. ASSUME NEW x \in T PROVE 0..x \in SUBSET Nat /\ IsFiniteSet(0..x)
    <3>1. x \in Int /\ 0 \in Int
      OBVIOUS
    <3> QED
      BY <3>1, FS_Interval
  <2> QED
    BY <2>1 DEF FiniteSubsetsOf
<1>3. PICK X \in Below : \A Y \in Below : <<Y, X>> \notin StrictSubsetOrdering(Nat)
  <2> HIDE DEF Below
  <2> QED
    BY <1>1, <1>2, WFMin
<1>4. PICK x \in T : X = 0..x
  BY <1>3
<1>5. ASSUME NEW y \in T PROVE x <= y
  <2>1. SUFFICES ASSUME y < x PROVE FALSE
    OBVIOUS
  <2>2. 0..y \subseteq 0..x /\ x \in 0..x /\ x \notin 0..y
    BY <2>1
  <2>3. <<0..y, 0..x>> \in StrictSubsetOrdering(Nat)
    BY <2>2 DEF StrictSubsetOrdering
  <2> QED
    BY <1>3, <1>4, <2>3
<1> QED
  BY <1>5

(* A set that contains 0, and with each number the next, contains all. *)
LEMMA Induction ==
  ASSUME NEW T, 0 \in T, \A n \in Nat : n \in T => n + 1 \in T
  PROVE  Nat \subseteq T
<1> SUFFICES ASSUME Nat \ T # {} PROVE FALSE
  OBVIOUS
<1>1. PICK x \in Nat \ T : \A y \in Nat \ T : x <= y
  BY Smallest
<1>2. x # 0 /\ x - 1 \in Nat /\ (x - 1) + 1 = x
  OBVIOUS
<1>3. x - 1 \in T
  BY <1>1, <1>2
<1> QED
  BY <1>2, <1>3

-----------------------------------------------------------------------------
(* A fold over the numbers 1 to n, as the community modules define it: the  *)
(* value of a set is made from that of the set without its largest number.  *)

IsFold(g, n, base, F) ==
  g = [s \in SUBSET (1..n) |-> IF s = {} THEN base ELSE F[<<g[s \ {Max(s)}], Max(s)>>]]

LEMMA LargestAdded ==
  ASSUME NEW n \in Nat, NEW s \in SUBSET (1..n + 1), n + 1 \in s
  PROVE  Max(s) = n + 1
<1>1. \A y \in s : n + 1 >= y
  OBVIOUS
<1>2. \A x \in s : (\A y \in s : x >= y) => x = n + 1
  OBVIOUS
<1> QED
  BY <1>1, <1>2 DEF Max

LEMMA FoldExists ==
  ASSUME NEW n \in Nat, NEW T, NEW base \in T, NEW F \in [T \X (1..n) -> T]
  PROVE  \E g : /\ IsFold(g, n, base, F)
               /\ \A s \in SUBSET (1..n) : g[s] \in T /\ (s = {} \/ Max(s) \in s)
<1> DEFINE Solves(g, m) ==
             /\ IsFold(g, m, base, F)
             /\ \A s \in SUBSET (1..m) : g[s] \in T /\ (s = {} \/ Max(s) \in s)
           I == {m \in Nat : m <= n => \E g : Solves(g, m)}
<1>1. 0 \in I
  <2> DEFINE g == [s \in SUBSET (1..0) |-> base]
  <2>1. \A s \in SUBSET (1..0) : s = {}
    OBVIOUS
  <2>2. IsFold(g, 0, base, F)
    BY <2>1 DEF IsFold
  <2>3. Solves(g, 0)
    BY <2>1, <2>2
  <2> QED
    BY <2>3
<1>2. ASSUME NEW m \in Nat, m \in I PROVE m + 1 \in I
  <2>1. SUFFICES ASSUME m + 1 <= n PROVE \E g : Solves(g, m + 1)
    OBVIOUS
  <2>2. PICK g : Solves(g, m)
    BY <1>2, <2>1
  <2> DEFINE h == [s \in SUBSET (1..m + 1) |->
                     IF m + 1 \in s THEN F[<<g[s \ {m + 1}], m + 1>>] ELSE g[s]]
  <2>3. ASSUME NEW s \in SUBSET (1..m + 1)
        PROVE  /\ h[s] = IF s = {} THEN base ELSE F[<<h[s \ {Max(s)}], Max(s)>>]
               /\ h[s] \in T
               /\ s = {} \/ Max(s) \in s
    <3>1. CASE m + 1 \in s
      <4>1. Max(s) = m + 1
        BY <3>1, LargestAdded
      <4>2. /\ s \ {m + 1} \in SUBSET (1..m + 1) /\ m + 1 \notin s \ {m + 1}
            /\ s \ {m + 1} \in SUBSET (1..m)
        OBVIOUS
      <4>3. h[s \ {m + 1}] = g[s \ {m + 1}] /\ g[s \ {m + 1}] \in T
        BY <2>2, <4>2
      <4>4. h[s] = F[<<g[s \ {m + 1}], m + 1>>] /\ m + 1 \in 1..n
        BY <2>1, <3>1
      <4> HIDE DEF h
      <4>5. h[s] \in T
        BY <4>3, <4>4
      <4> QED
        BY <3>1, <4>1, <4>3, <4>4, <4>5
    <3>2. CASE m + 1 \notin s
      <4>1. s \in SUBSET (1..m)
        BY <3>2
      <4>2. s \ {Max(s)} \in SUBSET (1..m + 1) /\ m + 1 \notin s \ {Max(s)}
        <5>1. \A x : s \ {x} \subseteq s
          OBVIOUS
        <5> QED
          BY <3>2, <5>1
      <4>3. h[s \ {Max(s)}] = g[s \ {Max(s)}] /\ h[s] = g[s]
        BY <3>2, <4>2
      <4>4. /\ g[s] = IF s = {} THEN base ELSE F[<<g[s \ {Max(s)}], Max(s)>>]
            /\ g[s] \in T /\ (s = {} \/ Max(s) \in s)
        BY <2>2, <4>1 DEF IsFold
      <4> QED
        BY <4>3, <4>4
    <3> QED
      BY <3>1, <3>2
  <2>4. IsFold(h, m + 1, base, F)
    <3>1. h = [s \in SUBSET (1..m + 1) |-> h[s]]
      OBVIOUS
    <3> HIDE DEF h
    <3> QED
      BY <2>3, <3>1 DEF IsFold
  <2>5. Solves(h, m + 1)
    BY <2>3, <2>4
  <2> QED
    BY <2>5
<1>3. Nat \subseteq I
  <2> HIDE DEF I
  <2> QED
    BY <1>1, <1>2, Induction
<1>4. n <= n => \E g : Solves(g, n)
  BY <1>3
<1> QED
  BY <1>4

(* A fold keeps what each of its steps keeps. *)
LEMMA FoldKeeps ==
  ASSUME NEW n \in Nat, NEW g, NEW T,
         g[{}] \in T,
         \A k \in 1..n : g[1..k - 1] \in T => g[1..k] \in T
  PROVE  g[1..n] \in T
<1> DEFINE I == {k \in Nat : k <= n => g[1..k] \in T}
<1>1. 0 \in I
  <2>1. 1..0 = {}
    OBVIOUS
  <2> QED
    BY <2>1
<1>2. ASSUME NEW k \in Nat, k \in I PROVE k + 1 \in I
  <2>1. SUFFICES ASSUME k + 1 <= n PROVE g[1..k + 1] \in T
    OBVIOUS
  <2>2. k + 1 \in 1..n /\ (k + 1) - 1 = k /\ k <= n
    BY <2>1
  <2> QED
    BY <1>2, <2>2
<1>3. Nat \subseteq I
  <2> HIDE DEF I
  <2> QED
    BY <1>1, <1>2, Induction
<1> QED
  BY <1>3

(* What a step of a fold starts from. *)
LEMMA Prefix ==
  ASSUME NEW n \in Nat, NEW k \in 1..n
  PROVE  /\ 1..k \in SUBSET (1..n) /\ 1..k # {}
         /\ Max(1..k) = k
         /\ (1..k) \ {k} = 1..k - 1
<1>1. /\ k - 1 \in Nat /\ (k - 1) + 1 = k /\ k \in 1..k /\ 1..k \in SUBSET (1..n)
      /\ 1..k = 1..(k - 1) + 1 /\ (1..k) \ {k} = 1..k - 1 /\ 1..k # {}
  OBVIOUS
<1>2. Max(1..k) = k
  BY <1>1, LargestAdded
<1> QED
  BY <1>1, <1>2

(* A function defined by recursion on the numbers up to n. *)
IsRecursion(g, n, base, F) ==
  g = [i \in 0..n |-> IF i = 0 THEN base ELSE F[<<g[i - 1], i>>]]

LEMMA RecursionExists ==
  ASSUME NEW n \in Nat, NEW T, NEW base \in T, NEW F \in [T \X (1..n) -> T]
  PROVE  \E g \in [0..n -> T] : IsRecursion(g, n, base, F)
<1>1. PICK h : /\ IsFold(h, n, base, F)
               /\ \A s \in SUBSET (1..n) : h[s] \in T /\ (s = {} \/ Max(s) \in s)
  BY FoldExists
<1> DEFINE g == [i \in 0..n |-> h[1..i]]
<1>2. \A i \in 0..n : g[i] = h[1..i] /\ 1..i \in SUBSET (1..n)
  OBVIOUS
<1>3. ASSUME NEW i \in 0..n
      PROVE  g[i] = IF i = 0 THEN base ELSE F[<<g[i - 1], i>>]
  <2>1. CASE i = 0
    <3>1. 1..i = {} /\ {} \in SUBSET (1..n)
      BY <2>1
    <3>2. h[{}] = base
      BY <1>1, <3>1 DEF IsFold
    <3> QED
      BY <1>2, <2>1, <3>1, <3>2
  <2>2. CASE i # 0
    <3>1. i \in 1..n /\ i - 1 \in 0..n
      BY <2>2
    <3>2. 1..i \in SUBSET (1..n) /\ 1..i # {} /\ Max(1..i) = i /\ (1..i) \ {i} = 1..i - 1
      BY <3>1, Prefix
    <3>3. h[1..i] = F[<<h[1..i - 1], i>>]
      BY <1>1, <3>2 DEF IsFold
    <3> QED
      BY <1>2, <2>2, <3>1, <3>3
  <2> QED
    BY <2>1, <2>2
<1>4. g = [i \in 0..n |-> g[i]]
  OBVIOUS
<1>5. \A i \in 0..n : g[i] \in T
  BY <1>1, <1>2
<1> HIDE DEF g
<1>6. g \in [0..n -> T]
  BY <1>4, <1>5
<1>7. g = [i \in 0..n |-> IF i = 0 THEN base ELSE F[<<g[i - 1], i>>]]
  BY <1>3, <1>4
<1> QED
  BY <1>6, <1>7 DEF IsRecursion

(* A part of a sequence, element by element.                                *)
LEMMA Slice ==
  ASSUME NEW S, NEW s \in Seq(S), NEW m \in Nat, NEW n \in Nat, m <= n, n <= Len(s)
  PROVE  /\ SubSeq(s, m + 1, n) \in Seq(S)
         /\ Len(SubSeq(s, m + 1, n)) = n - m
         /\ \A i \in 1..n - m : SubSeq(s, m + 1, n)[i] = s[m + i]
<1>1. \A i \in m + 1..n : s[i] \in S
  BY ElementOfSeq
<1>2. m + 1 \in Int /\ n \in Int
  OBVIOUS
<1>3. /\ SubSeq(s, m + 1, n) \in Seq(S)
      /\ Len(SubSeq(s, m + 1, n)) = IF m + 1 <= n THEN n - (m + 1) + 1 ELSE 0
      /\ \A i \in 1..n - (m + 1) + 1 : SubSeq(s, m + 1, n)[i] = s[m + 1 + i - 1]
  BY <1>1, <1>2, SubSeqProperties
<1> DEFINE r == SubSeq(s, m + 1, n)
<1> HIDE DEF r
<1>4. \A i \in 1..n - m : r[i] = s[m + i]
  <2> TAKE i \in 1..n - m
  <2>1. i \in 1..n - (m + 1) + 1 /\ m + 1 + i - 1 = m + i
    OBVIOUS
  <2> QED
    BY <1>3, <2>1 DEF r
<1> QED
  BY <1>3, <1>4 DEF r
=============================================================================
