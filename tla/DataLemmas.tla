----------------------------- MODULE DataLemmas -----------------------------
(***************************************************************************)
(* Facts about numbers, sequences and recursive functions that the proofs  *)
(* of several components use.  Induction is stated about a set of numbers  *)
(* instead of a predicate, and rests on the order of the natural numbers   *)
(* being well founded.                                                     *)
(***************************************************************************)
EXTENDS Integers, Sequences, FiniteSetTheorems, TLAPS

(* A nonempty set of natural numbers has a least one. *)
LEMMA LeastNatural ==
  ASSUME NEW S \in SUBSET Nat, S # {}
  PROVE  \E n \in S : \A m \in S : n <= m
<1> DEFINE R == {ss \in Nat \X Nat : ss[1] < ss[2]}
<1>1. IsWellFoundedOn(R, Nat)
  BY NatLessThanWellFounded DEF OpToRel
<1>2. \A y, x \in Nat : <<y, x>> \in R <=> y < x
  OBVIOUS
<1> HIDE DEF R
<1>3. PICK n \in S : \A m \in S : ~(<<m, n>> \in R)
  BY <1>1, WFMin
<1>4. ASSUME NEW m \in S PROVE n <= m
  <2>1. ~(m < n)
    BY <1>2, <1>3
  <2> QED
    BY <2>1
<1> QED
  BY <1>4

(* A set that has 0, and the successor of each number it has, has all. *)
LEMMA NaturalInduction ==
  ASSUME NEW S, 0 \in S, \A n \in Nat : n \in S => n + 1 \in S
  PROVE  Nat \subseteq S
<1> SUFFICES ASSUME Nat \ S # {} PROVE FALSE
  OBVIOUS
<1>1. PICK n \in Nat \ S : \A m \in Nat \ S : n <= m
  BY LeastNatural
<1>2. n # 0
  OBVIOUS
<1>3. n - 1 \in Nat /\ n - 1 < n
  BY <1>2
<1>4. n - 1 \in S
  BY <1>1, <1>3
<1>5. (n - 1) + 1 = n
  OBVIOUS
<1> QED
  BY <1>3, <1>4, <1>5
-----------------------------------------------------------------------------
(* How often elements of a set occur in a sequence *)

Occurrences(s, E) == {i \in DOMAIN s : s[i] \in E}

(* An element of the set that is appended is one more.                     *)
LEMMA OccursInAppend ==
  ASSUME NEW T, NEW s \in Seq(T), NEW x \in T, NEW E
  PROVE  /\ Cardinality(Occurrences(s, E)) \in Nat
         /\ Cardinality(Occurrences(Append(s, x), E))
              = Cardinality(Occurrences(s, E)) + (IF x \in E THEN 1 ELSE 0)
<1> DEFINE before == Occurrences(s, E)
           after  == Occurrences(Append(s, x), E)
<1>1. Len(s) \in Nat /\ DOMAIN s = 1 .. Len(s)
  OBVIOUS
<1>2. IsFiniteSet(before) /\ Cardinality(before) \in Nat
  <2>1. IsFiniteSet(1 .. Len(s)) /\ before \in SUBSET (1 .. Len(s))
    BY <1>1, FS_Interval DEF Occurrences
  <2> QED
    BY <2>1, FS_Subset, FS_CardinalityType
<1>3. Len(s) + 1 \notin before
  BY <1>1 DEF Occurrences
<1>4. CASE x \in E
  <2>1. after = before \cup {Len(s) + 1}
    BY <1>1, <1>4 DEF Occurrences
  <2> QED
    BY <1>2, <1>3, <1>4, <2>1, FS_AddElement
<1>5. CASE x \notin E
  <2>1. after = before
    BY <1>1, <1>5 DEF Occurrences
  <2> QED
    BY <1>2, <1>5, <2>1
<1> QED
  BY <1>4, <1>5

(* If the head is in the set the tail has one less.                        *)
LEMMA OccursInTail ==
  ASSUME NEW T, NEW s \in Seq(T), s # <<>>, NEW E
  PROVE  /\ Cardinality(Occurrences(s, E)) \in Nat /\ Cardinality(Occurrences(Tail(s), E)) \in Nat
         /\ Cardinality(Occurrences(s, E))
              = Cardinality(Occurrences(Tail(s), E)) + (IF Head(s) \in E THEN 1 ELSE 0)
<1> DEFINE before == Occurrences(s, E)
           after  == Occurrences(Tail(s), E)
           later  == before \ {1}
           shift  == [i \in after |-> i + 1]
<1>1. /\ Len(s) \in Nat \ {0} /\ DOMAIN s = 1 .. Len(s) /\ Head(s) = s[1]
      /\ DOMAIN Tail(s) = 1 .. Len(s) - 1
      /\ \A i \in 1 .. Len(s) - 1 : Tail(s)[i] = s[i + 1]
  OBVIOUS
<1>2. IsFiniteSet(before) /\ IsFiniteSet(after)
  <2>1. IsFiniteSet(1 .. Len(s)) /\ before \in SUBSET (1 .. Len(s))
    BY <1>1, FS_Interval DEF Occurrences
  <2>2. IsFiniteSet(1 .. Len(s) - 1) /\ after \in SUBSET (1 .. Len(s) - 1)
    BY <1>1, FS_Interval DEF Occurrences
  <2> QED
    BY <2>1, <2>2, FS_Subset
<1>3. ExistsBijection(after, later)
  <2>1. shift \in [after -> later]
    BY <1>1 DEF Occurrences
  <2>2. \A i, j \in after : shift[i] = shift[j] => i = j
    BY <1>1 DEF Occurrences
  <2>3. ASSUME NEW k \in later PROVE \E i \in after : shift[i] = k
    <3>1. k - 1 \in after /\ k \in Int
      BY <1>1 DEF Occurrences
    <3> QED
      BY <1>1, <3>1
  <2> HIDE DEF after, later, shift
  <2> QED
    BY <2>1, <2>2, <2>3 DEF ExistsBijection, Bijection, Injection, Surjection, IsInjective
<1>4. 1 \in before <=> Head(s) \in E
  BY <1>1 DEF Occurrences
<1> HIDE DEF before, after, later, shift
<1>5. Cardinality(later) = Cardinality(after)
  BY <1>2, <1>3, FS_Bijection
<1>6. Cardinality(later) = IF 1 \in before THEN Cardinality(before) - 1
                                           ELSE Cardinality(before)
  BY <1>2, FS_RemoveElement DEF later
<1>7. Cardinality(before) \in Nat /\ Cardinality(after) \in Nat
  BY <1>2, FS_CardinalityType
<1> QED
  BY <1>2, <1>4, <1>5, <1>6, <1>7 DEF before, after

(* No more occur than there are. *)
LEMMA OccursFew ==
  ASSUME NEW T, NEW s \in Seq(T), NEW E
  PROVE  /\ Cardinality(Occurrences(s, E)) \in Nat
         /\ Cardinality(Occurrences(s, E)) <= Len(s)
<1>1. Len(s) \in Nat /\ Occurrences(s, E) \in SUBSET (1 .. Len(s))
  BY DEF Occurrences
<1>2. IsFiniteSet(1 .. Len(s)) /\ Cardinality(1 .. Len(s)) = Len(s)
  <2>1. /\ IsFiniteSet(1 .. Len(s))
        /\ Cardinality(1 .. Len(s)) = IF 1 > Len(s) THEN 0 ELSE Len(s) - 1 + 1
    BY <1>1, FS_Interval
  <2> QED
    BY <1>1, <2>1
<1> QED
  BY <1>1, <1>2, FS_Subset, FS_CardinalityType
-----------------------------------------------------------------------------
(* Loops, written as recursive functions of the number of rounds *)

Loops(f, N, start, step) ==
  f = [n \in 0 .. N |-> IF n = 0 THEN start ELSE step[n][f[n - 1]]]

Rounds(step, N, Holds) ==
  \A n \in 1 .. N : step[n] \in [Holds[n - 1] -> Holds[n]]

(* A loop whose rounds step from what holds before to what holds after has *)
(* a function that says what each round leaves.                            *)
LEMMA LoopExists ==
  ASSUME NEW N \in Nat, NEW Holds, NEW start \in Holds[0], NEW step,
         Rounds(step, N, Holds)
  PROVE  \E f : Loops(f, N, start, step) /\ \A n \in 0 .. N : f[n] \in Holds[n]
<1> USE DEF Loops, Rounds
<1> DEFINE Runs(f, m) ==
             /\ f = [n \in 0 .. m |-> IF n = 0 THEN start ELSE step[n][f[n - 1]]]
             /\ \A n \in 0 .. m : f[n] \in Holds[n]
           S == {m \in Nat : m <= N => \E f : Runs(f, m)}
<1>1. 0 \in S
  <2> DEFINE f == [n \in 0 .. 0 |-> start]
  <2>1. \A n \in 0 .. 0 : n = 0
    OBVIOUS
  <2>2. f = [n \in 0 .. 0 |-> IF n = 0 THEN start ELSE step[n][f[n - 1]]]
    BY <2>1
  <2>3. \A n \in 0 .. 0 : f[n] \in Holds[n]
    BY <2>1
  <2> HIDE DEF f
  <2>4. Runs(f, 0)
    BY <2>2, <2>3
  <2> HIDE DEF Runs
  <2> QED
    BY <2>4
<1>2. ASSUME NEW m \in Nat, m \in S PROVE m + 1 \in S
  <2> SUFFICES ASSUME m + 1 <= N PROVE \E f : Runs(f, m + 1)
    OBVIOUS
  <2>1. PICK f : Runs(f, m)
    BY <1>2
  <2> DEFINE g == [n \in 0 .. m + 1 |-> IF n <= m THEN f[n] ELSE step[n][f[m]]]
  <2>2. \A n \in 0 .. m : g[n] = f[n]
    OBVIOUS
  <2>3. g[m + 1] = step[m + 1][g[m]]
    BY <2>2
  <2>4. ASSUME NEW n \in 0 .. m + 1
        PROVE  g[n] = IF n = 0 THEN start ELSE step[n][g[n - 1]]
    <3>1. CASE n = m + 1
      BY <2>3, <3>1
    <3>2. CASE n # m + 1
      <4>1. n \in 0 .. m /\ g[n] = f[n] /\ (n # 0 => g[n - 1] = f[n - 1])
        BY <2>2, <3>2
      <4> QED
        BY <2>1, <4>1
    <3> QED
      BY <3>1, <3>2
  <2>5. g = [n \in 0 .. m + 1 |-> IF n = 0 THEN start ELSE step[n][g[n - 1]]]
    BY <2>4
  <2>6. ASSUME NEW n \in 0 .. m + 1 PROVE g[n] \in Holds[n]
    <3>1. CASE n = m + 1
      <4>1. step[m + 1] \in [Holds[m] -> Holds[m + 1]]
        <5>1. m + 1 \in 1 .. N /\ (m + 1) - 1 = m
          OBVIOUS
        <5> QED
          BY <5>1
      <4>2. g[m] \in Holds[m]
        BY <2>1, <2>2
      <4> QED
        BY <2>3, <3>1, <4>1, <4>2
    <3>2. CASE n # m + 1
      BY <2>1, <2>2, <3>2
    <3> QED
      BY <3>1, <3>2
  <2> HIDE DEF g
  <2>7. Runs(g, m + 1)
    BY <2>5, <2>6
  <2> HIDE DEF Runs
  <2> QED
    BY <2>7
<1> HIDE DEF S
<1>3. N \in S
  BY <1>1, <1>2, NaturalInduction
<1> QED
  BY <1>3 DEF S

Kept(f, N, Holds) ==
  \A n \in 1 .. N : f[n - 1] \in Holds[n - 1] => f[n] \in Holds[n]

(* What a loop keeps in every round holds after all of them. *)
LEMMA LoopInvariant ==
  ASSUME NEW N \in Nat, NEW Holds, NEW f, f[0] \in Holds[0], Kept(f, N, Holds)
  PROVE  f[N] \in Holds[N]
<1> USE DEF Kept
<1> DEFINE S == {m \in Nat : m <= N => f[m] \in Holds[m]}
<1>1. 0 \in S
  OBVIOUS
<1>2. ASSUME NEW m \in Nat, m \in S PROVE m + 1 \in S
  <2>1. m + 1 <= N => m + 1 \in 1 .. N /\ (m + 1) - 1 = m
    OBVIOUS
  <2> QED
    BY <1>2, <2>1
<1> HIDE DEF S
<1>3. N \in S
  BY <1>1, <1>2, NaturalInduction
<1> QED
  BY <1>3 DEF S
=============================================================================
