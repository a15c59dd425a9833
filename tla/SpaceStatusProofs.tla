-------------------------- MODULE SpaceStatusProofs --------------------------
(***************************************************************************)
(* Proofs about the status document for every set of names and topics, and *)
(* any sizes of the channel and of the lists.                              *)
(***************************************************************************)
EXTENDS SpaceStatus, DataLemmas, SequenceTheorems, TLAPS

(* What is left of a list when an entry is cut out. *)
LEMMA RemoveAtEntries ==
  ASSUME NEW S, NEW list \in Seq(S), NEW i \in 1 .. Len(list)
  PROVE  /\ RemoveAt(list, i) \in Seq(S)
         /\ Len(RemoveAt(list, i)) = Len(list) - 1
         /\ \A k \in 1 .. Len(list) - 1 :
              RemoveAt(list, i)[k] = IF k < i THEN list[k] ELSE list[k + 1]
<1> DEFINE front == SubSeq(list, 1, i - 1)
           back  == SubSeq(list, i + 1, Len(list))
<1>1. /\ front \in Seq(S) /\ Len(front) = i - 1
      /\ \A k \in 1 .. i - 1 : front[k] = list[k]
  BY SubSeqProperties, ElementOfSeq
<1>2. /\ back \in Seq(S) /\ Len(back) = Len(list) - i
      /\ \A k \in 1 .. Len(list) - i : back[k] = list[i + k]
  BY SubSeqProperties, ElementOfSeq
<1>3. Len(list) \in Nat /\ RemoveAt(list, i) = front \o back
  BY DEF RemoveAt
<1> HIDE DEF front, back
<1>4. /\ front \o back \in Seq(S)
      /\ Len(front \o back) = Len(front) + Len(back)
      /\ \A k \in 1 .. Len(front) + Len(back) :
           (front \o back)[k] = IF k <= Len(front) THEN front[k] ELSE back[k - Len(front)]
  BY <1>1, <1>2, ConcatProperties
<1>5. ASSUME NEW k \in 1 .. Len(list) - 1
      PROVE  (front \o back)[k] = IF k < i THEN list[k] ELSE list[k + 1]
  <2>1. CASE k < i
    <3>1. k \in 1 .. i - 1 /\ k \in 1 .. Len(front) + Len(back) /\ k <= Len(front)
      BY <1>1, <1>2, <2>1
    <3> QED
      BY <1>1, <1>4, <2>1, <3>1
  <2>2. CASE ~(k < i)
    <3>1. /\ k - (i - 1) \in 1 .. Len(list) - i /\ i + (k - (i - 1)) = k + 1
          /\ k \in 1 .. Len(front) + Len(back) /\ ~(k <= Len(front))
      BY <1>1, <1>2, <1>3, <2>2
    <3> QED
      BY <1>1, <1>2, <1>4, <2>2, <3>1
  <2> QED
    BY <2>1, <2>2
<1> QED
  BY <1>1, <1>2, <1>3, <1>4, <1>5

(* A list that is cleaned from its entry k on. *)
CleanedFrom(s, list, k) ==
  /\ k <= Len(s) + 1 /\ \A i \in 1 .. k - 1 : s[i] = list[i]
  /\ \E from \in [k .. Len(s) -> k .. Len(list)] :
       /\ \A i \in k .. Len(s) : ~list[from[i]].old /\ s[i] = list[from[i]]
       /\ \A j \in k .. Len(list) : ~list[j].old => \E i \in k .. Len(s) : from[i] = j
       /\ \A i, j \in k .. Len(s) : i < j => from[i] < from[j]

LEMMA CutRound ==
  ASSUME NEW S, NEW list \in Seq(S), NEW s \in Seq(S), NEW m \in 1 .. Len(list),
         CleanedFrom(s, list, m + 1)
  PROVE  /\ s[m].old  => /\ RemoveAt(s, m) \in Seq(S)
                         /\ CleanedFrom(RemoveAt(s, m), list, m)
         /\ ~s[m].old => CleanedFrom(s, list, m)
<1>l. Len(list) \in Nat /\ Len(s) \in Nat /\ m <= Len(s) /\ s[m] = list[m]
  BY DEF CleanedFrom
<1>f. PICK from \in [m + 1 .. Len(s) -> m + 1 .. Len(list)] :
        /\ \A i \in m + 1 .. Len(s) : ~list[from[i]].old /\ s[i] = list[from[i]]
        /\ \A j \in m + 1 .. Len(list) :
             ~list[j].old => \E i \in m + 1 .. Len(s) : from[i] = j
        /\ \A i, j \in m + 1 .. Len(s) : i < j => from[i] < from[j]
  BY DEF CleanedFrom
<1>1. ASSUME s[m].old
      PROVE  RemoveAt(s, m) \in Seq(S) /\ CleanedFrom(RemoveAt(s, m), list, m)
  <2>1. PICK t \in Seq(S) : t = RemoveAt(s, m)
    BY <1>l, RemoveAtEntries
  <2>2. /\ Len(t) = Len(s) - 1
        /\ \A k \in 1 .. Len(s) - 1 : t[k] = IF k < m THEN s[k] ELSE s[k + 1]
    <3>1. m \in 1 .. Len(s)
      BY <1>l
    <3>2. /\ Len(RemoveAt(s, m)) = Len(s) - 1
          /\ \A k \in 1 .. Len(s) - 1 :
               RemoveAt(s, m)[k] = IF k < m THEN s[k] ELSE s[k + 1]
      BY <3>1, RemoveAtEntries
    <3> QED
      BY <2>1, <3>2
  <2> DEFINE moved == [i \in m .. Len(t) |-> from[i + 1]]
  <2>3. moved \in [m .. Len(t) -> m .. Len(list)]
    BY <1>l, <2>2
  <2>4. \A i \in m .. Len(t) : ~list[moved[i]].old /\ t[i] = list[moved[i]]
    BY <1>l, <1>f, <2>2
  <2>5. ASSUME NEW j \in m .. Len(list), ~list[j].old
        PROVE  \E i \in m .. Len(t) : moved[i] = j
    <3>1. j \in m + 1 .. Len(list)
      BY <1>1, <1>l, <2>5
    <3>2. PICK i \in m + 1 .. Len(s) : from[i] = j
      BY <1>f, <2>5, <3>1
    <3>3. i - 1 \in m .. Len(t) /\ (i - 1) + 1 = i
      BY <1>l, <2>2
    <3> QED
      BY <3>2, <3>3
  <2>6. \A i, j \in m .. Len(t) : i < j => moved[i] < moved[j]
    BY <1>l, <1>f, <2>2
  <2>7. m <= Len(t) + 1 /\ \A i \in 1 .. m - 1 : t[i] = list[i]
    <3>1. \A i \in 1 .. m - 1 : s[i] = list[i]
      BY DEF CleanedFrom
    <3>2. \A i \in 1 .. m - 1 : i \in 1 .. Len(s) - 1 /\ i < m
      BY <1>l
    <3>3. m <= Len(t) + 1
      BY <1>l, <2>2
    <3>4. ASSUME NEW i \in 1 .. m - 1 PROVE t[i] = list[i]
      BY <2>2, <3>1, <3>2
    <3> QED
      BY <3>3, <3>4
  <2> HIDE DEF moved
  <2>9. CleanedFrom(t, list, m)
    BY <2>3, <2>4, <2>5, <2>6, <2>7 DEF CleanedFrom
  <2> QED
    BY <2>1, <2>9
<1>2. ASSUME ~s[m].old PROVE CleanedFrom(s, list, m)
  <2> DEFINE kept == [i \in m .. Len(s) |-> IF i = m THEN m ELSE from[i]]
  <2>3. kept \in [m .. Len(s) -> m .. Len(list)]
    BY <1>l
  <2>4. \A i \in m .. Len(s) : ~list[kept[i]].old /\ s[i] = list[kept[i]]
    BY <1>l, <1>f, <1>2
  <2>5. ASSUME NEW j \in m .. Len(list), ~list[j].old
        PROVE  \E i \in m .. Len(s) : kept[i] = j
    <3>1. CASE j = m
      BY <1>l, <3>1
    <3>2. CASE j # m
      <4>1. PICK i \in m + 1 .. Len(s) : from[i] = j
        BY <1>f, <2>5, <3>2
      <4>2. i \in m .. Len(s) /\ kept[i] = j
        BY <1>l, <4>1
      <4> QED
        BY <4>2
    <3> QED
      BY <3>1, <3>2
  <2>6. \A i, j \in m .. Len(s) : i < j => kept[i] < kept[j]
    BY <1>l, <1>f
  <2>7. m <= Len(s) + 1 /\ \A i \in 1 .. m - 1 : s[i] = list[i]
    BY <1>l DEF CleanedFrom
  <2> HIDE DEF kept
  <2> QED
    BY <2>3, <2>4, <2>5, <2>6, <2>7 DEF CleanedFrom
<1> QED
  BY <1>1, <1>2

(* The loop over the sensors, as a function of the number of rounds. *)
CutsSensors(f, list) ==
  f = [n \in 0 .. Len(list) |->
         IF n = 0 THEN list
         ELSE IF f[n - 1][Len(list) - n + 1].old
              THEN RemoveAt(f[n - 1], Len(list) - n + 1) ELSE f[n - 1]]

LEMMA CleanedByCuts ==
  ASSUME NEW list
  PROVE  CleanOutdatedSensorData(list) = (CHOOSE f : CutsSensors(f, list))[Len(list)]
  BY DEF CleanOutdatedSensorData, CutsSensors

(* What is left are the sensors that are not too old, in their order. *)
LEMMA CleaningSensors ==
  ASSUME NEW S, NEW list \in Seq(S)
  PROVE  /\ CleanOutdatedSensorData(list) \in Seq(S)
         /\ KeepsTheRestInOrder(CleanOutdatedSensorData(list), list)
<1> DEFINE N     == Len(list)
           Holds == [n \in 0 .. N |-> {s \in Seq(S) : CleanedFrom(s, list, N + 1 - n)}]
           Round(s, n) == IF s[N - n + 1].old THEN RemoveAt(s, N - n + 1) ELSE s
           step  == [n \in 1 .. N |-> [s \in Holds[n - 1] |-> Round(s, n)]]
<1>1. N \in Nat
  OBVIOUS
<1>2. list \in Holds[0]
  <2>1. CleanedFrom(list, list, N + 1)
    <3> DEFINE from == [i \in N + 1 .. Len(list) |-> i]
    <3>1. N + 1 .. Len(list) = {}
      OBVIOUS
    <3>2. from \in [N + 1 .. Len(list) -> N + 1 .. Len(list)]
      OBVIOUS
    <3> HIDE DEF from
    <3> QED
      BY <3>1, <3>2 DEF CleanedFrom
  <2> QED
    BY <2>1
<1>3. ASSUME NEW n \in 1 .. N, NEW s \in Holds[n - 1]
      PROVE  Round(s, n) \in Holds[n]
  <2>1. PICK m \in 1 .. N : m = N - n + 1
    OBVIOUS
  <2>2. s \in Seq(S) /\ CleanedFrom(s, list, m + 1)
    BY <2>1
  <2>3. m + 1 = N + 1 - (n - 1) /\ m = N + 1 - n
    BY <2>1
  <2>4. Round(s, n) \in Seq(S) /\ CleanedFrom(Round(s, n), list, m)
    BY <2>1, <2>2, CutRound
  <2> HIDE DEF Round
  <2> QED
    BY <2>3, <2>4
<1>4. Rounds(step, N, Holds)
  <2> HIDE DEF Holds, Round
  <2> QED
    BY <1>3 DEF Rounds
<1>5. \E f : CutsSensors(f, list)
  <2>1. PICK f : Loops(f, N, list, step) /\ \A n \in 0 .. N : f[n] \in Holds[n]
    <3> HIDE DEF N, Holds, step, Round
    <3> QED
      BY <1>1, <1>2, <1>4, LoopExists
  <2>2. ASSUME NEW n \in 0 .. N
        PROVE  f[n] = IF n = 0 THEN list ELSE Round(f[n - 1], n)
    <3>1. f[n] = IF n = 0 THEN list ELSE step[n][f[n - 1]]
      BY <2>1 DEF Loops
    <3>2. n # 0 => n \in 1 .. N /\ f[n - 1] \in Holds[n - 1]
      BY <2>1
    <3> HIDE DEF Holds, Round, N
    <3> QED
      BY <3>1, <3>2
  <2>3. f = [n \in 0 .. N |-> IF n = 0 THEN list ELSE Round(f[n - 1], n)]
    <3>1. DOMAIN f = 0 .. N /\ f = [n \in 0 .. N |-> f[n]]
      BY <2>1 DEF Loops
    <3> HIDE DEF Holds, Round, step, N
    <3> QED
      BY <2>2, <3>1
  <2> QED
    BY <2>3 DEF CutsSensors
<1>6. PICK f : /\ CutsSensors(f, list)
               /\ CleanOutdatedSensorData(list) = f[N]
  BY <1>5, CleanedByCuts
<1>7. /\ f[0] = list
      /\ \A n \in 1 .. N : f[n] = Round(f[n - 1], n)
  <2>1. \A n \in 0 .. N : f[n] = IF n = 0 THEN list ELSE Round(f[n - 1], n)
    BY <1>6 DEF CutsSensors
  <2>2. 0 \in 0 .. N /\ \A n \in 1 .. N : n \in 0 .. N /\ n # 0
    BY <1>1
  <2> HIDE DEF Round, N
  <2> QED
    BY <2>1, <2>2
<1>8. f[N] \in Holds[N]
  <2>1. Kept(f, N, Holds)
    <3> HIDE DEF Holds, Round
    <3> QED
      BY <1>3, <1>7 DEF Kept
  <2> HIDE DEF Holds, N, Round
  <2> QED
    BY <1>1, <1>2, <1>7, <2>1, LoopInvariant
<1>9. CleanOutdatedSensorData(list) \in Seq(S)
        /\ CleanedFrom(CleanOutdatedSensorData(list), list, 1)
  BY <1>6, <1>8
<1>10. ASSUME NEW s \in Seq(S), CleanedFrom(s, list, 1)
       PROVE  KeepsTheRestInOrder(s, list)
  <2>1. DOMAIN s = 1 .. Len(s) /\ DOMAIN list = 1 .. Len(list)
    OBVIOUS
  <2>2. PICK from \in [1 .. Len(s) -> 1 .. Len(list)] :
          /\ \A i \in 1 .. Len(s) : ~list[from[i]].old /\ s[i] = list[from[i]]
          /\ \A j \in 1 .. Len(list) :
               ~list[j].old => \E i \in 1 .. Len(s) : from[i] = j
          /\ \A i, j \in 1 .. Len(s) : i < j => from[i] < from[j]
    BY <1>10, <2>1 DEF CleanedFrom
  <2>3. {from[i] : i \in 1 .. Len(s)} = {i \in 1 .. Len(list) : ~list[i].old}
    <3>1. \A i \in 1 .. Len(s) : from[i] \in {k \in 1 .. Len(list) : ~list[k].old}
      BY <2>2
    <3>2. \A k \in 1 .. Len(list) :
            ~list[k].old => k \in {from[i] : i \in 1 .. Len(s)}
      BY <2>2
    <3> QED
      BY <3>1, <3>2
  <2> QED
    BY <2>1, <2>2, <2>3 DEF KeepsTheRestInOrder
<1> QED
  BY <1>9, <1>10

(* Events that are cleaned from the k-th on, in some order. *)
EventsCleanedFrom(s, list, k) ==
  /\ k <= Len(s) + 1 /\ Len(s) <= Len(list) /\ \A i \in 1 .. k - 1 : s[i] = list[i]
  /\ \E from \in [k .. Len(s) -> k .. Len(list)] :
       /\ \A i \in k .. Len(s) : ~list[from[i]].old /\ s[i] = list[from[i]]
       /\ \A j \in k .. Len(list) : ~list[j].old => \E i \in k .. Len(s) : from[i] = j
       /\ \A i, j \in k .. Len(s) : from[i] = from[j] => i = j

ReplacedByLast(s, i) == Front([s EXCEPT ![i] = s[Len(s)]])

LEMMA ReplacedEntries ==
  ASSUME NEW S, NEW s \in Seq(S), NEW i \in 1 .. Len(s)
  PROVE  /\ ReplacedByLast(s, i) \in Seq(S)
         /\ Len(ReplacedByLast(s, i)) = Len(s) - 1
         /\ \A k \in 1 .. Len(s) - 1 :
              ReplacedByLast(s, i)[k] = IF k = i THEN s[Len(s)] ELSE s[k]
<1>1. Len(s) \in Nat \ {0} /\ s[Len(s)] \in S
  BY ElementOfSeq
<1> DEFINE t == [s EXCEPT ![i] = s[Len(s)]]
<1>2. /\ t \in Seq(S) /\ Len(t) = Len(s)
      /\ \A k \in 1 .. Len(s) : t[k] = IF k = i THEN s[Len(s)] ELSE s[k]
  BY <1>1, ExceptSeq
<1> HIDE DEF t
<1>3. \A k \in 1 .. Len(t) - 1 : t[k] \in S
  BY <1>1, <1>2, ElementOfSeq
<1>4. /\ SubSeq(t, 1, Len(t) - 1) \in Seq(S)
      /\ Len(SubSeq(t, 1, Len(t) - 1)) = Len(t) - 1
      /\ \A k \in 1 .. Len(t) - 1 : SubSeq(t, 1, Len(t) - 1)[k] = t[k]
  <2>1. 1 \in Int /\ Len(t) - 1 \in Int /\ Len(t) - 1 >= 0
    BY <1>1, <1>2
  <2>2. /\ SubSeq(t, 1, Len(t) - 1) \in Seq(S)
        /\ Len(SubSeq(t, 1, Len(t) - 1)) = IF 1 <= Len(t) - 1 THEN Len(t) - 1 - 1 + 1 ELSE 0
        /\ \A k \in 1 .. Len(t) - 1 - 1 + 1 :
             SubSeq(t, 1, Len(t) - 1)[k] = t[1 + k - 1]
    BY <1>3, <2>1, SubSeqProperties
  <2>3. /\ Len(t) - 1 - 1 + 1 = Len(t) - 1
        /\ \A k \in 1 .. Len(t) - 1 : 1 + k - 1 = k
    BY <2>1
  <2> QED
    BY <2>1, <2>2, <2>3
<1>5. ReplacedByLast(s, i) = SubSeq(t, 1, Len(t) - 1)
  BY DEF ReplacedByLast, Front, t
<1> QED
  BY <1>1, <1>2, <1>4, <1>5

LEMMA ReplaceRound ==
  ASSUME NEW S, NEW list \in Seq(S), NEW s \in Seq(S), NEW m \in 1 .. Len(list),
         EventsCleanedFrom(s, list, m + 1)
  PROVE  /\ s[m].old  => /\ ReplacedByLast(s, m) \in Seq(S)
                         /\ EventsCleanedFrom(ReplacedByLast(s, m), list, m)
         /\ ~s[m].old => EventsCleanedFrom(s, list, m)
<1>l. /\ Len(list) \in Nat /\ Len(s) \in Nat /\ m <= Len(s) /\ s[m] = list[m]
      /\ Len(s) <= Len(list) /\ \A i \in 1 .. m - 1 : s[i] = list[i]
  BY DEF EventsCleanedFrom
<1>f. PICK from \in [m + 1 .. Len(s) -> m + 1 .. Len(list)] :
        /\ \A i \in m + 1 .. Len(s) : ~list[from[i]].old /\ s[i] = list[from[i]]
        /\ \A j \in m + 1 .. Len(list) :
             ~list[j].old => \E i \in m + 1 .. Len(s) : from[i] = j
        /\ \A i, j \in m + 1 .. Len(s) : from[i] = from[j] => i = j
  BY DEF EventsCleanedFrom
<1>1. ASSUME s[m].old
      PROVE  /\ ReplacedByLast(s, m) \in Seq(S)
             /\ EventsCleanedFrom(ReplacedByLast(s, m), list, m)
  <2>0. m \in 1 .. Len(s)
    BY <1>l
  <2>1. PICK t \in Seq(S) : t = ReplacedByLast(s, m)
    BY <2>0, ReplacedEntries
  <2>2. /\ Len(t) = Len(s) - 1
        /\ \A k \in 1 .. Len(s) - 1 : t[k] = IF k = m THEN s[Len(s)] ELSE s[k]
    <3>1. /\ Len(ReplacedByLast(s, m)) = Len(s) - 1
          /\ \A k \in 1 .. Len(s) - 1 :
               ReplacedByLast(s, m)[k] = IF k = m THEN s[Len(s)] ELSE s[k]
      BY <2>0, ReplacedEntries
    <3> QED
      BY <2>1, <3>1
  <2> DEFINE moved == [i \in m .. Len(t) |-> IF i = m THEN from[Len(s)] ELSE from[i]]
  <2>3. moved \in [m .. Len(t) -> m .. Len(list)]
    BY <1>l, <2>2
  <2>4. \A i \in m .. Len(t) : ~list[moved[i]].old /\ t[i] = list[moved[i]]
    BY <1>l, <1>f, <2>2
  <2>5. ASSUME NEW j \in m .. Len(list), ~list[j].old
        PROVE  \E i \in m .. Len(t) : moved[i] = j
    <3>1. j \in m + 1 .. Len(list)
      BY <1>1, <1>l, <2>5
    <3>2. PICK i \in m + 1 .. Len(s) : from[i] = j
      BY <1>f, <2>5, <3>1
    <3>3. CASE i = Len(s)
      <4>1. m \in m .. Len(t)
        BY <1>l, <2>2, <3>3
      <4> QED
        BY <3>2, <3>3, <4>1
    <3>4. CASE i # Len(s)
      <4>1. i \in m .. Len(t) /\ i # m
        BY <1>l, <2>2, <3>4
      <4> QED
        BY <3>2, <4>1
    <3> QED
      BY <3>3, <3>4
  <2>6. \A i, j \in m .. Len(t) : moved[i] = moved[j] => i = j
    BY <1>l, <1>f, <2>2
  <2>7. m <= Len(t) + 1 /\ Len(t) <= Len(list)
    BY <1>l, <2>2
  <2>8. ASSUME NEW i \in 1 .. m - 1 PROVE t[i] = list[i]
    <3>1. i \in 1 .. Len(s) - 1 /\ i # m
      BY <1>l
    <3> QED
      BY <1>l, <2>2, <3>1
  <2> HIDE DEF moved
  <2>9. EventsCleanedFrom(t, list, m)
    BY <2>3, <2>4, <2>5, <2>6, <2>7, <2>8 DEF EventsCleanedFrom
  <2> QED
    BY <2>1, <2>9
<1>2. ASSUME ~s[m].old PROVE EventsCleanedFrom(s, list, m)
  <2> DEFINE kept == [i \in m .. Len(s) |-> IF i = m THEN m ELSE from[i]]
  <2>3. kept \in [m .. Len(s) -> m .. Len(list)]
    BY <1>l
  <2>4. \A i \in m .. Len(s) : ~list[kept[i]].old /\ s[i] = list[kept[i]]
    BY <1>l, <1>f, <1>2
  <2>5. ASSUME NEW j \in m .. Len(list), ~list[j].old
        PROVE  \E i \in m .. Len(s) : kept[i] = j
    <3>1. CASE j = m
      BY <1>l, <3>1
    <3>2. CASE j # m
      <4>1. PICK i \in m + 1 .. Len(s) : from[i] = j
        BY <1>f, <2>5, <3>2
      <4>2. i \in m .. Len(s) /\ kept[i] = j
        BY <1>l, <4>1
      <4> QED
        BY <4>2
    <3> QED
      BY <3>1, <3>2
  <2>6. \A i, j \in m .. Len(s) : kept[i] = kept[j] => i = j
    BY <1>l, <1>f
  <2>7. m <= Len(s) + 1 /\ \A i \in 1 .. m - 1 : s[i] = list[i]
    BY <1>l
  <2> HIDE DEF kept
  <2> QED
    BY <1>l, <2>3, <2>4, <2>5, <2>6, <2>7 DEF EventsCleanedFrom
<1> QED
  BY <1>1, <1>2

(* The loop over the events, as a function of the number of rounds. *)
CutsEvents(f, list) ==
  f = [n \in 0 .. Len(list) |->
         IF n = 0 THEN list
         ELSE IF f[n - 1][Len(list) - n + 1].old
              THEN ReplacedByLast(f[n - 1], Len(list) - n + 1) ELSE f[n - 1]]

LEMMA EventsCleanedByCuts ==
  ASSUME NEW list
  PROVE  CleanOutdatedSpaceEvents(list) = (CHOOSE f : CutsEvents(f, list))[Len(list)]
  BY DEF CleanOutdatedSpaceEvents, CutsEvents, ReplacedByLast

(* What is left are the events that are not over, in some order. *)
LEMMA CleaningEvents ==
  ASSUME NEW S, NEW list \in Seq(S)
  PROVE  /\ CleanOutdatedSpaceEvents(list) \in Seq(S)
         /\ Len(CleanOutdatedSpaceEvents(list)) <= Len(list)
         /\ KeepsTheRest(CleanOutdatedSpaceEvents(list), list)
<1> DEFINE N     == Len(list)
           Holds == [n \in 0 .. N |-> {s \in Seq(S) : EventsCleanedFrom(s, list, N + 1 - n)}]
           Round(s, n) == IF s[N - n + 1].old THEN ReplacedByLast(s, N - n + 1) ELSE s
           step  == [n \in 1 .. N |-> [s \in Holds[n - 1] |-> Round(s, n)]]
<1>1. N \in Nat
  OBVIOUS
<1>2. list \in Holds[0]
  <2>1. EventsCleanedFrom(list, list, N + 1)
    <3> DEFINE from == [i \in N + 1 .. Len(list) |-> i]
    <3>1. N + 1 .. Len(list) = {}
      OBVIOUS
    <3>2. from \in [N + 1 .. Len(list) -> N + 1 .. Len(list)]
      OBVIOUS
    <3> HIDE DEF from
    <3> QED
      BY <3>1, <3>2 DEF EventsCleanedFrom
  <2> QED
    BY <2>1
<1>3. ASSUME NEW n \in 1 .. N, NEW s \in Holds[n - 1]
      PROVE  Round(s, n) \in Holds[n]
  <2>1. PICK m \in 1 .. N : m = N - n + 1
    OBVIOUS
  <2>2. s \in Seq(S) /\ EventsCleanedFrom(s, list, m + 1)
    BY <2>1
  <2>3. m + 1 = N + 1 - (n - 1) /\ m = N + 1 - n
    BY <2>1
  <2>4. Round(s, n) \in Seq(S) /\ EventsCleanedFrom(Round(s, n), list, m)
    BY <2>1, <2>2, ReplaceRound
  <2> HIDE DEF Round
  <2> QED
    BY <2>3, <2>4
<1>4. Rounds(step, N, Holds)
  <2> HIDE DEF Holds, Round
  <2> QED
    BY <1>3 DEF Rounds
<1>5. \E f : CutsEvents(f, list)
  <2>1. PICK f : Loops(f, N, list, step) /\ \A n \in 0 .. N : f[n] \in Holds[n]
    <3> HIDE DEF N, Holds, step, Round
    <3> QED
      BY <1>1, <1>2, <1>4, LoopExists
  <2>2. ASSUME NEW n \in 0 .. N
        PROVE  f[n] = IF n = 0 THEN list ELSE Round(f[n - 1], n)
    <3>1. f[n] = IF n = 0 THEN list ELSE step[n][f[n - 1]]
      BY <2>1 DEF Loops
    <3>2. n # 0 => n \in 1 .. N /\ f[n - 1] \in Holds[n - 1]
      BY <2>1
    <3> HIDE DEF Holds, Round, N
    <3> QED
      BY <3>1, <3>2
  <2>3. f = [n \in 0 .. N |-> IF n = 0 THEN list ELSE Round(f[n - 1], n)]
    <3>1. DOMAIN f = 0 .. N /\ f = [n \in 0 .. N |-> f[n]]
      BY <2>1 DEF Loops
    <3> HIDE DEF Holds, Round, step, N
    <3> QED
      BY <2>2, <3>1
  <2> QED
    BY <2>3 DEF CutsEvents
<1>6. PICK f : /\ CutsEvents(f, list)
               /\ CleanOutdatedSpaceEvents(list) = f[N]
  BY <1>5, EventsCleanedByCuts
<1>7. /\ f[0] = list
      /\ \A n \in 1 .. N : f[n] = Round(f[n - 1], n)
  <2>1. \A n \in 0 .. N : f[n] = IF n = 0 THEN list ELSE Round(f[n - 1], n)
    BY <1>6 DEF CutsEvents
  <2>2. 0 \in 0 .. N /\ \A n \in 1 .. N : n \in 0 .. N /\ n # 0
    BY <1>1
  <2> HIDE DEF Round, N
  <2> QED
    BY <2>1, <2>2
<1>8. f[N] \in Holds[N]
  <2>1. Kept(f, N, Holds)
    <3> HIDE DEF Holds, Round
    <3> QED
      BY <1>3, <1>7 DEF Kept
  <2> HIDE DEF Holds, N, Round
  <2> QED
    BY <1>1, <1>2, <1>7, <2>1, LoopInvariant
<1>9. CleanOutdatedSpaceEvents(list) \in Seq(S)
        /\ EventsCleanedFrom(CleanOutdatedSpaceEvents(list), list, 1)
  BY <1>6, <1>8
<1>10. ASSUME NEW s \in Seq(S), EventsCleanedFrom(s, list, 1)
       PROVE  KeepsTheRest(s, list) /\ Len(s) <= Len(list)
  <2>1. DOMAIN s = 1 .. Len(s) /\ DOMAIN list = 1 .. Len(list)
    OBVIOUS
  <2>2. PICK from \in [1 .. Len(s) -> 1 .. Len(list)] :
          /\ \A i \in 1 .. Len(s) : ~list[from[i]].old /\ s[i] = list[from[i]]
          /\ \A j \in 1 .. Len(list) :
               ~list[j].old => \E i \in 1 .. Len(s) : from[i] = j
          /\ \A i, j \in 1 .. Len(s) : from[i] = from[j] => i = j
    BY <1>10, <2>1 DEF EventsCleanedFrom
  <2>3. {from[i] : i \in 1 .. Len(s)} = {i \in 1 .. Len(list) : ~list[i].old}
    <3>1. \A i \in 1 .. Len(s) : from[i] \in {k \in 1 .. Len(list) : ~list[k].old}
      BY <2>2
    <3>2. \A k \in 1 .. Len(list) :
            ~list[k].old => k \in {from[i] : i \in 1 .. Len(s)}
      BY <2>2
    <3> QED
      BY <3>1, <3>2
  <2>4. Len(s) <= Len(list)
    BY <1>10 DEF EventsCleanedFrom
  <2> QED
    <3>1. DOMAIN s = 1 .. Len(s) /\ DOMAIN list = 1 .. Len(list)
      OBVIOUS
    <3>2. from \in [DOMAIN s -> DOMAIN list]
      BY <2>2, <3>1
    <3>3. {from[i] : i \in DOMAIN s} = {i \in DOMAIN list : ~list[i].old}
      BY <2>3, <3>1
    <3>4. \A i, j \in DOMAIN s : from[i] = from[j] => i = j
      BY <2>2, <3>1
    <3>5. \A i \in DOMAIN s : s[i] = list[from[i]]
      BY <2>2, <3>1
    <3>6. KeepsTheRest(s, list)
      BY <3>2, <3>3, <3>4, <3>5 DEF KeepsTheRest
    <3> QED
      BY <2>4, <3>6
<1> QED
  BY <1>9, <1>10
-----------------------------------------------------------------------------
(* Sensors and the lists they are in *)
Lists       == TimedLists \cup UntimedLists
SensorNames == Names \cup {"couchred", "R2W2", "Space1Empty", "Space2Empty"}
Sensors     == [name : SensorNames, so : BOOLEAN, old : BOOLEAN, nan : BOOLEAN]
Numbers     == {s \in Sensors : ~s.nan}

SensorLists ==
  {lists \in [Lists -> Seq(Sensors)] : \A l \in UntimedLists : lists[l] \in Seq(Numbers)}

MergeSteps ==
  {merge \in [list : Lists, sensor : Sensors] :
     merge.list \in UntimedLists => merge.sensor \in Numbers}

LEMMA MergeGrows ==
  ASSUME NEW S, NEW list \in Seq(S), NEW sensor \in S
  PROVE  /\ MergeInSensor(list, sensor) \in Seq(S)
         /\ Len(list) <= Len(MergeInSensor(list, sensor))
<1>1. Len(list) \in Nat /\ DOMAIN list = 1 .. Len(list)
  OBVIOUS
<1>2. CASE \E i \in DOMAIN list : list[i].name = sensor.name
  <2> DEFINE new == [i \in 1 .. Len(list) |->
                       IF list[i].name = sensor.name THEN sensor ELSE list[i]]
  <2>1. new \in Seq(S) /\ Len(new) = Len(list)
    <3>1. new \in [1 .. Len(list) -> S]
      BY ElementOfSeq
    <3> HIDE DEF new
    <3> QED
      BY <1>1, <3>1
  <2>2. MergeInSensor(list, sensor) = new
    BY <1>1, <1>2 DEF MergeInSensor
  <2> QED
    BY <1>1, <2>1, <2>2
<1>3. CASE ~\E i \in DOMAIN list : list[i].name = sensor.name
  <2>1. MergeInSensor(list, sensor) = Append(list, sensor)
    BY <1>3 DEF MergeInSensor
  <2> QED
    BY <1>1, <2>1, AppendProperties
<1> QED
  BY <1>2, <1>3

(* The loop over the merges. *)
PutsSensors(f, lists, merges) ==
  f = [n \in 0 .. Len(merges) |->
         IF n = 0 THEN lists
         ELSE [f[n - 1] EXCEPT ![merges[n].list] = MergeInSensor(@, merges[n].sensor)]]

LEMMA MergedByPuts ==
  ASSUME NEW lists, NEW merges
  PROVE  Merged(lists, merges) = (CHOOSE f : PutsSensors(f, lists, merges))[Len(merges)]
  BY DEF Merged, PutsSensors

(* Merging keeps the lists what they are and takes nothing from them. *)
LEMMA MergedLists ==
  ASSUME NEW lists \in SensorLists, NEW merges \in Seq(MergeSteps)
  PROVE  /\ Merged(lists, merges) \in SensorLists
         /\ \A l \in Lists : Len(lists[l]) <= Len(Merged(lists, merges)[l])
<1> DEFINE N     == Len(merges)
           Grown == {s \in SensorLists : \A l \in Lists : Len(lists[l]) <= Len(s[l])}
           Holds == [n \in 0 .. N |-> Grown]
           Round(s, n) == [s EXCEPT ![merges[n].list] = MergeInSensor(@, merges[n].sensor)]
           step  == [n \in 1 .. N |-> [s \in Holds[n - 1] |-> Round(s, n)]]
<1>1. N \in Nat
  OBVIOUS
<1>2. lists \in Holds[0]
  <2>1. lists \in Grown
    <3>1. \A l \in Lists : Len(lists[l]) \in Nat
      BY DEF SensorLists
    <3> QED
      BY <3>1
  <2> HIDE DEF Grown
  <2> QED
    BY <1>1, <2>1
<1>3. ASSUME NEW n \in 1 .. N, NEW s \in Grown PROVE Round(s, n) \in Grown
  <2>1. PICK merge \in MergeSteps : merge = merges[n]
    BY ElementOfSeq
  <2>2. PICK l \in Lists : l = merge.list
    BY DEF MergeSteps
  <2>3. PICK new : new = MergeInSensor(s[l], merge.sensor)
    OBVIOUS
  <2>4. s \in [Lists -> Seq(Sensors)] /\ s[l] \in Seq(Sensors)
    BY DEF SensorLists
  <2>5. Round(s, n) = [s EXCEPT ![l] = new]
    BY <2>1, <2>2, <2>3, <2>4
  <2>6. new \in Seq(Sensors) /\ Len(s[l]) <= Len(new)
    <3>1. merge.sensor \in Sensors
      BY DEF MergeSteps
    <3> QED
      BY <2>3, <2>4, <3>1, MergeGrows
  <2>7. l \in UntimedLists => new \in Seq(Numbers)
    <3>1. l \in UntimedLists => merge.sensor \in Numbers /\ s[l] \in Seq(Numbers)
      BY <2>2 DEF MergeSteps, SensorLists
    <3> QED
      BY <2>3, <3>1, MergeGrows
  <2> HIDE DEF Round
  <2>8. /\ Round(s, n) \in [Lists -> Seq(Sensors)]
        /\ Round(s, n)[l] = new
        /\ \A k \in Lists \ {l} : Round(s, n)[k] = s[k]
    BY <2>4, <2>5, <2>6
  <2>9. \A k \in UntimedLists : Round(s, n)[k] \in Seq(Numbers)
    BY <2>7, <2>8 DEF SensorLists, Lists
  <2>10. Round(s, n) \in SensorLists
    BY <2>8, <2>9 DEF SensorLists
  <2>11. ASSUME NEW k \in Lists PROVE Len(lists[k]) <= Len(Round(s, n)[k])
    <3>1. /\ Len(lists[k]) <= Len(s[k]) /\ Len(lists[k]) \in Nat /\ Len(s[k]) \in Nat
          /\ Len(new) \in Nat
      BY <2>6 DEF SensorLists
    <3> QED
      BY <2>6, <2>8, <3>1
  <2> QED
    BY <2>10, <2>11
<1>4. Rounds(step, N, Holds)
  <2> HIDE DEF Grown, Round
  <2> QED
    BY <1>3 DEF Rounds
<1>5. \E f : PutsSensors(f, lists, merges)
  <2>1. PICK f : Loops(f, N, lists, step) /\ \A n \in 0 .. N : f[n] \in Holds[n]
    <3> HIDE DEF N, Holds, step, Round, Grown
    <3> QED
      BY <1>1, <1>2, <1>4, LoopExists
  <2>2. ASSUME NEW n \in 0 .. N
        PROVE  f[n] = IF n = 0 THEN lists ELSE Round(f[n - 1], n)
    <3>1. f[n] = IF n = 0 THEN lists ELSE step[n][f[n - 1]]
      BY <2>1 DEF Loops
    <3>2. n # 0 => n \in 1 .. N /\ f[n - 1] \in Holds[n - 1]
      BY <2>1
    <3> HIDE DEF Holds, Round, N
    <3> QED
      BY <3>1, <3>2
  <2>3. f = [n \in 0 .. N |-> IF n = 0 THEN lists ELSE Round(f[n - 1], n)]
    <3>1. DOMAIN f = 0 .. N /\ f = [n \in 0 .. N |-> f[n]]
      BY <2>1 DEF Loops
    <3> HIDE DEF Holds, Round, step, N
    <3> QED
      BY <2>2, <3>1
  <2> QED
    BY <2>3 DEF PutsSensors
<1>6. PICK f : PutsSensors(f, lists, merges) /\ Merged(lists, merges) = f[N]
  BY <1>5, MergedByPuts
<1>7. /\ f[0] = lists
      /\ \A n \in 1 .. N : f[n] = Round(f[n - 1], n)
  <2>1. \A n \in 0 .. N : f[n] = IF n = 0 THEN lists ELSE Round(f[n - 1], n)
    BY <1>6 DEF PutsSensors
  <2>2. 0 \in 0 .. N /\ \A n \in 1 .. N : n \in 0 .. N /\ n # 0
    BY <1>1
  <2> HIDE DEF Round, N
  <2> QED
    BY <2>1, <2>2
<1>8. f[N] \in Holds[N]
  <2>1. Kept(f, N, Holds)
    <3> HIDE DEF Grown, Round
    <3> QED
      BY <1>3, <1>7 DEF Kept
  <2> HIDE DEF Holds, N, Round
  <2> QED
    BY <1>1, <1>2, <1>7, <2>1, LoopInvariant
<1> QED
  BY <1>1, <1>6, <1>8

(* What the events of main say and where they come from. *)
Said   == {"space1", "space2", "old", "nan", "recent", "locked", "open"}
Topics == UNION Scenarios
Events == [type : Topics \cup {"barometer", "temperature"},
           from : Names \cup {"couchred"}, says : SUBSET Said]

LEMMA MergesOfEvents ==
  ASSUME NEW e \in Events
  PROVE  Merges(e) \in Seq(MergeSteps)
<1>1. e.from \in SensorNames
  BY DEF Events, SensorNames
<1>2. ASSUME NEW name \in SensorNames, NEW so \in BOOLEAN
      PROVE  Sensor(name, so) \in Numbers
  BY <1>2 DEF Sensor, Numbers, Sensors
<1>3. ASSUME NEW name \in SensorNames, NEW says
      PROVE  Measured(name, says) \in Sensors
  BY <1>3 DEF Measured, Sensors
<1>4. /\ "R2W2" \in SensorNames /\ "Space1Empty" \in SensorNames
      /\ "Space2Empty" \in SensorNames
  BY DEF SensorNames
<1>5. ASSUME NEW l \in UntimedLists, NEW name \in SensorNames, NEW so \in BOOLEAN
      PROVE  [list |-> l, sensor |-> Sensor(name, so)] \in MergeSteps
  BY <1>2 DEF MergeSteps, Lists, Numbers
<1>6. ASSUME NEW l \in TimedLists, NEW name \in SensorNames, NEW says
      PROVE  [list |-> l, sensor |-> Measured(name, says)] \in MergeSteps
  BY <1>3 DEF MergeSteps, Lists, TimedLists, UntimedLists
<1>7. /\ {"door_locked", "ext_door_ajar"} \subseteq UntimedLists
      /\ {"temperature", "barometer", "ext_voltage"} \subseteq TimedLists
  BY DEF TimedLists, UntimedLists
<1>8. \A a, b \in MergeSteps : /\ <<a>> \in Seq(MergeSteps) /\ <<a, b>> \in Seq(MergeSteps)
  OBVIOUS
<1>9. <<>> \in Seq(MergeSteps)
  OBVIOUS
<1>10. CASE e.type = "presence"
  BY <1>4, <1>5, <1>7, <1>8, <1>10 DEF Merges
<1>11. CASE e.type = "lock"
  <2>1. ("locked" \in e.says) \in BOOLEAN
    OBVIOUS
  <2>2. [list |-> "door_locked", sensor |-> Sensor(e.from, "locked" \in e.says)] \in MergeSteps
    BY <1>1, <1>5, <1>7, <2>1
  <2> QED
    BY <1>8, <1>11, <2>2 DEF Merges
<1>12. CASE e.type = "ajar"
  <2>1. ("open" \in e.says) \in BOOLEAN
    OBVIOUS
  <2>2. [list |-> "ext_door_ajar", sensor |-> Sensor(e.from, "open" \in e.says)] \in MergeSteps
    BY <1>1, <1>5, <1>7, <2>1
  <2> QED
    BY <1>8, <1>12, <2>2 DEF Merges
<1>13. CASE e.type = "zigbee window"
  <2>1. ("open" \in e.says) \in BOOLEAN
    OBVIOUS
  <2>2. [list |-> "ext_door_ajar", sensor |-> Sensor(e.from, "open" \in e.says)] \in MergeSteps
    BY <1>1, <1>5, <1>7, <2>1
  <2>3. [list |-> "ext_voltage", sensor |-> Measured(e.from, {})] \in MergeSteps
    BY <1>1, <1>6, <1>7
  <2> QED
    BY <1>8, <1>13, <2>2, <2>3 DEF Merges
<1>14. CASE e.type = "esphome temperature"
  BY <1>4, <1>6, <1>7, <1>8, <1>14 DEF Merges
<1>15. CASE e.type \in {"temperature", "barometer"}
  BY <1>1, <1>6, <1>7, <1>8, <1>15 DEF Merges
<1>16. CASE e.type \notin {"presence", "lock", "ajar", "zigbee window",
                           "esphome temperature", "temperature", "barometer"}
  BY <1>9, <1>16 DEF Merges
<1> QED
  BY <1>10, <1>11, <1>12, <1>13, <1>14, <1>15, <1>16
-----------------------------------------------------------------------------
LEMMA FieldsSaid == \A topic : Fields(topic) \subseteq Said /\ Unread(topic) \subseteq Said
  BY DEF Fields, Unread, Said

(* The events of a message: those of its topic, if it can be read. *)
LEMMA EventsOfMessage ==
  ASSUME NEW topic \in Topics, NEW from \in Names, NEW intact \in BOOLEAN,
         NEW says \in SUBSET Fields(topic), NEW msg,
         msg = [topic |-> topic, from |-> from, intact |-> intact, says |-> says]
  PROVE  /\ EventsOf(msg) \in Seq(Events) /\ Len(EventsOf(msg)) <= 2
         /\ topic \in SpaceEventTopics => Len(EventsOf(msg)) <= 1
         /\ topic \notin SpaceEventTopics =>
              \A i \in DOMAIN EventsOf(msg) : EventsOf(msg)[i].type \notin SpaceEventTopics
         /\ topic # "presence" =>
              \A i \in DOMAIN EventsOf(msg) : EventsOf(msg)[i].type # "presence"
         /\ topic = "presence" /\ ~intact => EventsOf(msg) = <<>>
         /\ topic = "presence" /\ intact =>
              EventsOf(msg) = <<[type |-> "presence", from |-> from, says |-> says]>>
<1>1. CASE topic = "couchred" /\ intact
  <2>1. EventsOf(msg) = <<[type |-> "barometer", from |-> "couchred", says |-> {}],
                          [type |-> "temperature", from |-> "couchred", says |-> {}]>>
    BY <1>1 DEF EventsOf, TranslateSonOffSensor
  <2>2. PICK b, t : /\ b = [type |-> "barometer", from |-> "couchred", says |-> {}]
                    /\ t = [type |-> "temperature", from |-> "couchred", says |-> {}]
    OBVIOUS
  <2>3. b \in Events /\ t \in Events
    <3>1. {} \in SUBSET Said /\ "couchred" \in Names \cup {"couchred"}
      OBVIOUS
    <3>2. /\ "barometer" \in Topics \cup {"barometer", "temperature"}
          /\ "temperature" \in Topics \cup {"barometer", "temperature"}
      OBVIOUS
    <3> QED
      BY <2>2, <3>1, <3>2 DEF Events
  <2>4. PICK q : q = <<b, t>>
    OBVIOUS
  <2>5. q \in Seq(Events) /\ Len(q) = 2 /\ DOMAIN q = {1, 2}
    BY <2>3, <2>4
  <2>6. \A i \in {1, 2} : q[i].type \in {"barometer", "temperature"}
    BY <2>2, <2>4
  <2>7. topic \notin SpaceEventTopics /\ topic # "presence"
    BY <1>1 DEF SpaceEventTopics
  <2>8. \A i \in {1, 2} : q[i].type \notin SpaceEventTopics /\ q[i].type # "presence"
    BY <2>6 DEF SpaceEventTopics
  <2>9. EventsOf(msg) = q
    BY <2>1, <2>2, <2>4
  <2>10. EventsOf(msg) \in Seq(Events) /\ Len(EventsOf(msg)) <= 2
    <3>1. q \in Seq(Events) /\ Len(q) <= 2
      BY <2>5
    <3> QED
      BY <2>9, <3>1, Zenon
  <2>11. \A i \in DOMAIN EventsOf(msg) : /\ EventsOf(msg)[i].type \notin SpaceEventTopics
                                         /\ EventsOf(msg)[i].type # "presence"
    BY <2>5, <2>8, <2>9
  <2> QED
    BY <2>7, <2>10, <2>11
<1>2. CASE topic = "couchred" /\ ~intact
  <2>1. EventsOf(msg) = <<>>
    BY <1>2 DEF EventsOf, TranslateSonOffSensor
  <2>2. <<>> \in Seq(Events)
    OBVIOUS
  <2> QED
    BY <1>2, <2>1, <2>2 DEF SpaceEventTopics
<1>3. CASE topic # "couchred"
  <2>1. PICK e : e = Event(msg)
    OBVIOUS
  <2>2. e.type = topic /\ e \in Events
    BY <2>1, FieldsSaid DEF Event, Events
  <2>3. EventsOf(msg) = <<>> \/ EventsOf(msg) = <<e>>
    BY <1>3, <2>1 DEF EventsOf, UnmarshalTopicByte2Event, SpecialTopic, GenericTopic
  <2>4. <<>> \in Seq(Events) /\ <<e>> \in Seq(Events) /\ Len(<<>>) = 0 /\ Len(<<e>>) = 1
    BY <2>2
  <2>5. ASSUME topic = "presence" /\ ~intact PROVE EventsOf(msg) = <<>>
    BY <1>3, <2>5 DEF EventsOf, UnmarshalTopicByte2Event, SpecialTopic, JsonTopics
  <2>6. ASSUME topic = "presence" /\ intact
        PROVE  EventsOf(msg) = <<[type |-> "presence", from |-> from, says |-> says]>>
    BY <1>3, <2>6 DEF EventsOf, UnmarshalTopicByte2Event, SpecialTopic, JsonTopics, Event
  <2>7. \A i \in DOMAIN EventsOf(msg) : EventsOf(msg)[i].type = topic
    BY <2>2, <2>3
  <2>8. CASE EventsOf(msg) = <<>>
    BY <2>4, <2>5, <2>6, <2>7, <2>8
  <2>9. CASE EventsOf(msg) = <<e>>
    <3>1. EventsOf(msg) \in Seq(Events) /\ Len(EventsOf(msg)) = 1
      BY <2>4, <2>9
    <3> QED
      BY <2>5, <2>6, <2>7, <3>1
  <2> QED
    BY <2>3, <2>8, <2>9
<1> QED
  BY <1>1, <1>2, <1>3
-----------------------------------------------------------------------------
(* Where things are *)

EventRecords == [name : SpaceEventTopics, old : BOOLEAN]
SpaceNews    == {e \in Events : e.type \in SpaceEventTopics}
Handlers     == [at : {"connect", "select", "ask", "send", "exited"}, exits : BOOLEAN]

QueuesOK ==
  /\ arrives \in Scenarios
  /\ forwarding \in Seq(Events) /\ Len(forwarding) <= 2
  /\ events_to_status_chan \in Seq(Events) /\ Len(events_to_status_chan) <= EventsCap

DocumentOK ==
  /\ statusstate \in [present : BOOLEAN, space1present : BOOLEAN, space2present : BOOLEAN]
  /\ having_fun \in BOOLEAN
  /\ sensors \in SensorLists
  /\ spaceevents \in Seq(EventRecords)

PublishOK ==
  /\ spacestate \in Shown
  /\ handler \in Handlers
  /\ installing \in Seq(Shown) /\ Len(installing) <= MaxInstalls
  /\ spaceapijsonbytes \in Shown

(* There is room for the space events that are on their way. *)
RoomForEvents ==
  Len(spaceevents) + Cardinality(Occurrences(events_to_status_chan, SpaceNews))
                   + Cardinality(Occurrences(forwarding, SpaceNews)) <= MaxSpaceEvents

StatusInv == QueuesOK /\ DocumentOK /\ PublishOK /\ RoomForEvents

LEMMA InvIsTyped == StatusInv => StatusTypeOK
<1> SUFFICES ASSUME StatusInv PROVE StatusTypeOK
  OBVIOUS
<1>1. DOMAIN sensors = TimedLists \cup UntimedLists
  BY DEF StatusInv, DocumentOK, SensorLists, Lists
<1>2. \A l \in UntimedLists : CanMakeJSON(sensors[l])
  <2> SUFFICES ASSUME NEW l \in UntimedLists, NEW i \in DOMAIN sensors[l]
               PROVE  ~sensors[l][i].nan
    BY DEF CanMakeJSON
  <2>1. sensors[l] \in Seq(Numbers)
    BY DEF StatusInv, DocumentOK, SensorLists
  <2>2. sensors[l][i] \in Numbers
    BY <2>1, ElementOfSeq
  <2> QED
    BY <2>2 DEF Numbers
<1>3. Len(spaceevents) <= MaxSpaceEvents
  <2>1. /\ Cardinality(Occurrences(events_to_status_chan, SpaceNews)) \in Nat
        /\ Cardinality(Occurrences(forwarding, SpaceNews)) \in Nat
        /\ Len(spaceevents) \in Nat
    BY OccursFew DEF StatusInv, QueuesOK, DocumentOK
  <2> QED
    BY <2>1, SpaceStatusAssumption DEF StatusInv, RoomForEvents
<1> QED
  BY <1>1, <1>2, <1>3
     DEF StatusInv, QueuesOK, DocumentOK, PublishOK, Handlers, StatusTypeOK

LEMMA InitStatusInv == StatusInit => StatusInv
<1> SUFFICES ASSUME StatusInit PROVE StatusInv
  OBVIOUS
<1> USE DEF StatusInit
<1>1. \A S : <<>> \in Seq(S)
  OBVIOUS
<1>2. QueuesOK
  BY <1>1, SpaceStatusAssumption DEF QueuesOK
<1>3. DocumentOK
  <2>1. NoLists \in SensorLists
    BY <1>1 DEF NoLists, SensorLists, Lists
  <2>2. Nobody \in [present : BOOLEAN, space1present : BOOLEAN, space2present : BOOLEAN]
    BY DEF Nobody
  <2> QED
    BY <1>1, <2>1, <2>2 DEF DocumentOK
<1>4. PublishOK
  <2>1. Connecting \in Handlers
    BY DEF Connecting, Handlers
  <2>2. NoState \in Shown
    BY DEF NoState, Shown
  <2>3. installing \in Seq(Shown) /\ Len(installing) = 0
    BY <1>1
  <2> QED
    BY <2>1, <2>2, <2>3, SpaceStatusAssumption DEF PublishOK
<1>5. RoomForEvents
  <2>1. Occurrences(<<>>, SpaceNews) = {} /\ Cardinality({}) = 0
    BY FS_EmptySet DEF Occurrences
  <2> QED
    BY <2>1, SpaceStatusAssumption DEF RoomForEvents
<1> QED
  BY <1>2, <1>3, <1>4, <1>5 DEF StatusInv
-----------------------------------------------------------------------------
LEMMA PublishTyped ==
  ASSUME PublishOK, NEW exits \in BOOLEAN, publishStateToWeb(exits),
         UNCHANGED spaceapijsonbytes
  PROVE  PublishOK'
<1>1. spacestate' \in Shown
  BY DEF publishStateToWeb, StateOf, Shown
<1>2. CASE installing' = Append(installing, spacestate')
             /\ handler' = [at |-> "ask", exits |-> exits]
  <2>1. /\ installing' \in Seq(Shown) /\ Len(installing') = Len(installing) + 1
        /\ Len(installing) \in Nat /\ Len(installing) < MaxInstalls
    BY <1>1, <1>2 DEF PublishOK, publishStateToWeb
  <2>2. handler' \in Handlers
    BY <1>2 DEF Handlers
  <2> QED
    BY <1>1, <2>1, <2>2, SpaceStatusAssumption DEF PublishOK
<1>3. CASE UNCHANGED installing
             /\ handler' = [handler EXCEPT !.at = IF exits THEN "exited" ELSE "select"]
  BY <1>1, <1>3 DEF PublishOK, Handlers
<1> QED
  BY <1>2, <1>3 DEF publishStateToWeb

LEMMA ReceiveKeeps == StatusInv /\ ReceiveMessage => StatusInv'
<1> SUFFICES ASSUME StatusInv, ReceiveMessage PROVE StatusInv'
  OBVIOUS
<1>1. DocumentOK' /\ PublishOK'
  BY DEF ReceiveMessage, StatusInv, DocumentOK, PublishOK, documentVars
<1>a. PICK topic \in arrives, from \in Names, intact \in BOOLEAN :
        \E says \in SUBSET Fields(topic) :
          LET msg == [topic |-> topic, from |-> from, intact |-> intact, says |-> says]
          IN  /\ topic \in SpaceEventTopics =>
                   Len(spaceevents) + Len(events_to_status_chan) < MaxSpaceEvents
              /\ forwarding' = EventsOf(msg)
  BY DEF ReceiveMessage
<1>r. PICK says \in SUBSET Fields(topic) :
        LET msg == [topic |-> topic, from |-> from, intact |-> intact, says |-> says]
        IN  /\ topic \in SpaceEventTopics =>
                 Len(spaceevents) + Len(events_to_status_chan) < MaxSpaceEvents
            /\ forwarding' = EventsOf(msg)
  BY <1>a
<1>2. PICK msg :
        /\ msg = [topic |-> topic, from |-> from, intact |-> intact, says |-> says]
        /\ topic \in SpaceEventTopics =>
             Len(spaceevents) + Len(events_to_status_chan) < MaxSpaceEvents
        /\ forwarding' = EventsOf(msg)
  BY <1>r
<1>3. topic \in Topics
  BY <1>2 DEF StatusInv, QueuesOK, Topics
<1>4. /\ forwarding' \in Seq(Events) /\ Len(forwarding') <= 2
      /\ topic \in SpaceEventTopics => Len(forwarding') <= 1
      /\ topic \notin SpaceEventTopics =>
           \A i \in DOMAIN forwarding' : forwarding'[i].type \notin SpaceEventTopics
  BY <1>2, <1>3, EventsOfMessage
<1>5. QueuesOK'
  BY <1>4 DEF ReceiveMessage, StatusInv, QueuesOK
<1>6. RoomForEvents'
  <2>1. PICK before \in Nat :
          /\ before = Cardinality(Occurrences(events_to_status_chan, SpaceNews))
          /\ before <= Len(events_to_status_chan)
    BY OccursFew DEF StatusInv, QueuesOK
  <2>2. PICK new \in Nat : /\ new = Cardinality(Occurrences(forwarding', SpaceNews))
                           /\ new <= Len(forwarding')
    BY <1>4, OccursFew
  <2>3. forwarding = <<>> /\ Occurrences(forwarding, SpaceNews) = {}
    BY DEF ReceiveMessage, Occurrences
  <2>4. Len(spaceevents) + before <= MaxSpaceEvents
    <3>1. Cardinality(Occurrences(forwarding, SpaceNews)) = 0
      BY <2>3, FS_EmptySet
    <3>2. Len(spaceevents) \in Nat
      BY DEF StatusInv, DocumentOK
    <3> QED
      BY <2>1, <3>1, <3>2 DEF StatusInv, RoomForEvents
  <2>5. UNCHANGED <<spaceevents, events_to_status_chan>>
    BY DEF ReceiveMessage, documentVars
  <2>6. Len(spaceevents) \in Nat /\ Len(events_to_status_chan) \in Nat
          /\ Len(forwarding') \in Nat /\ MaxSpaceEvents \in Nat
    BY <1>4, SpaceStatusAssumption DEF StatusInv, DocumentOK, QueuesOK
  <2>7. CASE topic \in SpaceEventTopics
    <3>1. Len(spaceevents) + before + new <= MaxSpaceEvents
      BY <1>2, <1>4, <2>1, <2>2, <2>6, <2>7
    <3> QED
      BY <2>1, <2>2, <2>5, <3>1 DEF RoomForEvents
  <2>8. CASE topic \notin SpaceEventTopics
    <3>1. Occurrences(forwarding', SpaceNews) = {}
      BY <1>4, <2>8 DEF Occurrences, SpaceNews
    <3>2. new = 0
      BY <2>2, <3>1, FS_EmptySet
    <3>3. Len(spaceevents) + before + new <= MaxSpaceEvents
      BY <2>1, <2>4, <2>6, <3>2
    <3> QED
      BY <2>1, <2>2, <2>5, <3>3 DEF RoomForEvents
  <2> QED
    BY <2>7, <2>8
<1> QED
  BY <1>1, <1>5, <1>6 DEF StatusInv

LEMMA ForwardKeeps == StatusInv /\ Forward => StatusInv'
<1> SUFFICES ASSUME StatusInv, Forward PROVE StatusInv'
  OBVIOUS
<1>1. DocumentOK' /\ PublishOK'
  BY DEF Forward, StatusInv, DocumentOK, PublishOK, documentVars
<1>2. /\ forwarding # <<>> /\ forwarding \in Seq(Events)
      /\ events_to_status_chan \in Seq(Events)
      /\ forwarding' = Tail(forwarding)
      /\ events_to_status_chan' = Append(events_to_status_chan, Head(forwarding))
      /\ Len(events_to_status_chan) < EventsCap /\ Len(forwarding) <= 2
      /\ UNCHANGED spaceevents
  BY DEF Forward, StatusInv, QueuesOK, documentVars
<1>3. PICK e \in Events : e = Head(forwarding)
  BY <1>2
<1>4. QueuesOK'
  <2>1. forwarding' \in Seq(Events) /\ Len(forwarding') = Len(forwarding) - 1
    BY <1>2
  <2>2. /\ events_to_status_chan' \in Seq(Events)
        /\ Len(events_to_status_chan') = Len(events_to_status_chan) + 1
    BY <1>2, <1>3
  <2>3. Len(forwarding') <= 2 /\ Len(events_to_status_chan') <= EventsCap
    BY <1>2, <2>1, <2>2, SpaceStatusAssumption
  <2> QED
    BY <2>1, <2>2, <2>3 DEF Forward, StatusInv, QueuesOK
<1>5. RoomForEvents'
  <2> DEFINE one == IF e \in SpaceNews THEN 1 ELSE 0
  <2>1. /\ Cardinality(Occurrences(events_to_status_chan, SpaceNews)) \in Nat
        /\ Cardinality(Occurrences(events_to_status_chan', SpaceNews))
             = Cardinality(Occurrences(events_to_status_chan, SpaceNews)) + one
    <3>1. events_to_status_chan' = Append(events_to_status_chan, e)
      BY <1>2, <1>3
    <3>2. /\ Cardinality(Occurrences(events_to_status_chan, SpaceNews)) \in Nat
          /\ Cardinality(Occurrences(Append(events_to_status_chan, e), SpaceNews))
               = Cardinality(Occurrences(events_to_status_chan, SpaceNews)) + one
      BY <1>2, OccursInAppend
    <3> QED
      BY <3>1, <3>2
  <2>2. /\ Cardinality(Occurrences(forwarding', SpaceNews)) \in Nat
        /\ Cardinality(Occurrences(forwarding, SpaceNews))
             = Cardinality(Occurrences(forwarding', SpaceNews)) + one
    BY <1>2, <1>3, OccursInTail
  <2>3. one \in Nat /\ Len(spaceevents) \in Nat
    BY DEF StatusInv, DocumentOK
  <2> HIDE DEF one
  <2> QED
    BY <1>2, <2>1, <2>2, <2>3 DEF StatusInv, RoomForEvents
<1> QED
  BY <1>1, <1>4, <1>5 DEF StatusInv

LEMMA TakeKeeps == StatusInv /\ TakeEvent => StatusInv'
<1> SUFFICES ASSUME StatusInv, TakeEvent PROVE StatusInv'
  OBVIOUS
<1>1. /\ events_to_status_chan # <<>> /\ events_to_status_chan \in Seq(Events)
      /\ events_to_status_chan' = Tail(events_to_status_chan)
      /\ UNCHANGED <<mainVars, spaceapijsonbytes>>
  BY DEF TakeEvent, StatusInv, QueuesOK
<1>2. PICK e \in Events : e = Head(events_to_status_chan)
  BY <1>1
<1>3. QueuesOK'
  <2>1. /\ events_to_status_chan' \in Seq(Events)
        /\ Len(events_to_status_chan') = Len(events_to_status_chan) - 1
        /\ Len(events_to_status_chan) \in Nat
    BY <1>1
  <2>2. Len(events_to_status_chan') <= EventsCap
    BY <2>1, SpaceStatusAssumption DEF StatusInv, QueuesOK
  <2> QED
    BY <1>1, <2>1, <2>2 DEF StatusInv, QueuesOK, mainVars
<1>4. /\ spaceevents' = IF e.type \in SpaceEventTopics
                        THEN Append(spaceevents, [name |-> e.type, old |-> FALSE])
                        ELSE spaceevents
      /\ sensors' = Merged(sensors, Merges(e))
      /\ having_fun' = IF e.type = "button" THEN "recent" \in e.says ELSE having_fun
      /\ statusstate' = IF e.type = "presence"
                        THEN [present |-> e.says # {},
                              space1present |-> "space1" \in e.says,
                              space2present |-> "space2" \in e.says]
                        ELSE statusstate
  BY <1>2 DEF TakeEvent
<1>5. DocumentOK'
  <2>1. sensors' \in SensorLists
    BY <1>4, MergesOfEvents, MergedLists DEF StatusInv, DocumentOK
  <2>2. having_fun' \in BOOLEAN
    <3>1. ("recent" \in e.says) \in BOOLEAN
      OBVIOUS
    <3> QED
      BY <1>4, <3>1 DEF StatusInv, DocumentOK
  <2>3. statusstate' \in [present : BOOLEAN, space1present : BOOLEAN, space2present : BOOLEAN]
    <3>1. /\ (e.says # {}) \in BOOLEAN /\ ("space1" \in e.says) \in BOOLEAN
          /\ ("space2" \in e.says) \in BOOLEAN
      OBVIOUS
    <3>2. CASE e.type = "presence"
      BY <1>4, <3>1, <3>2
    <3>3. CASE e.type # "presence"
      BY <1>4, <3>3 DEF StatusInv, DocumentOK
    <3> QED
      BY <3>2, <3>3
  <2>4. spaceevents' \in Seq(EventRecords)
    <3>1. e.type \in SpaceEventTopics => [name |-> e.type, old |-> FALSE] \in EventRecords
      BY DEF EventRecords
    <3> QED
      BY <1>4, <3>1, AppendProperties DEF StatusInv, DocumentOK
  <2> QED
    BY <2>1, <2>2, <2>3, <2>4 DEF DocumentOK
<1>6. PublishOK'
  <2>1. CASE e.type \in ClimateTopics
    BY <1>1, <1>2, <2>1 DEF TakeEvent, StatusInv, PublishOK
  <2>2. CASE e.type \notin ClimateTopics
    <3>1. publishStateToWeb(FALSE)
      BY <1>2, <2>2 DEF TakeEvent
    <3> QED
      BY <1>1, <3>1, PublishTyped DEF StatusInv
  <2> QED
    BY <2>1, <2>2
<1>7. RoomForEvents'
  <2> DEFINE one == IF e \in SpaceNews THEN 1 ELSE 0
  <2>1. /\ Cardinality(Occurrences(events_to_status_chan', SpaceNews)) \in Nat
        /\ Cardinality(Occurrences(events_to_status_chan, SpaceNews))
             = Cardinality(Occurrences(events_to_status_chan', SpaceNews)) + one
    BY <1>1, <1>2, OccursInTail
  <2>2. Len(spaceevents') = Len(spaceevents) + one
    <3>1. spaceevents \in Seq(EventRecords)
      BY DEF StatusInv, DocumentOK
    <3>2. e \in SpaceNews <=> e.type \in SpaceEventTopics
      BY DEF SpaceNews
    <3>3. CASE e \in SpaceNews
      <4>1. PICK new \in EventRecords : new = [name |-> e.type, old |-> FALSE]
        BY <3>2, <3>3 DEF EventRecords
      <4>2. spaceevents' = Append(spaceevents, new)
        BY <1>4, <3>2, <3>3, <4>1
      <4> QED
        BY <3>1, <3>3, <4>2
    <3>4. CASE e \notin SpaceNews
      <4>1. spaceevents' = spaceevents /\ Len(spaceevents) \in Nat
        BY <1>4, <3>1, <3>2, <3>4
      <4> QED
        BY <3>4, <4>1
    <3> QED
      BY <3>3, <3>4
  <2>3. Len(spaceevents) \in Nat /\ one \in Nat /\ UNCHANGED forwarding
    BY <1>1 DEF StatusInv, DocumentOK, mainVars
  <2>4. Cardinality(Occurrences(forwarding, SpaceNews)) \in Nat
    BY OccursFew DEF StatusInv, QueuesOK
  <2> HIDE DEF one
  <2> QED
    BY <2>1, <2>2, <2>3, <2>4 DEF StatusInv, RoomForEvents
<1> QED
  BY <1>3, <1>5, <1>6, <1>7 DEF StatusInv

(* Fewer events in the document leave no less room. *)
LEMMA RoomStays ==
  ASSUME StatusInv, spaceevents' \in Seq(EventRecords),
         Len(spaceevents') <= Len(spaceevents),
         UNCHANGED <<forwarding, events_to_status_chan>>
  PROVE  RoomForEvents'
<1>1. /\ Cardinality(Occurrences(events_to_status_chan, SpaceNews)) \in Nat
      /\ Cardinality(Occurrences(forwarding, SpaceNews)) \in Nat
      /\ Len(spaceevents) \in Nat /\ Len(spaceevents') \in Nat
  BY OccursFew DEF StatusInv, QueuesOK, DocumentOK
<1> QED
  BY <1>1, SpaceStatusAssumption DEF StatusInv, RoomForEvents

LEMMA CleanedLists ==
  ASSUME sensors \in SensorLists,
         sensors' = [l \in DOMAIN sensors |-> CleanOutdatedSensorData(sensors[l])]
  PROVE  /\ sensors' \in SensorLists
         /\ \A l \in DOMAIN sensors : KeepsTheRestInOrder(sensors'[l], sensors[l])
<1>1. DOMAIN sensors = Lists /\ \A l \in Lists : sensors[l] \in Seq(Sensors)
  BY DEF SensorLists
<1>2. \A l \in Lists : sensors'[l] = CleanOutdatedSensorData(sensors[l])
  BY <1>1
<1>3. ASSUME NEW l \in Lists
      PROVE  sensors'[l] \in Seq(Sensors) /\ KeepsTheRestInOrder(sensors'[l], sensors[l])
  BY <1>1, <1>2, CleaningSensors
<1>4. ASSUME NEW l \in UntimedLists PROVE sensors'[l] \in Seq(Numbers)
  <2>1. sensors[l] \in Seq(Numbers) /\ l \in Lists
    BY DEF SensorLists, Lists
  <2> QED
    BY <1>2, <2>1, CleaningSensors
<1>5. sensors' \in [Lists -> Seq(Sensors)]
  <2>1. DOMAIN sensors' = Lists /\ sensors' = [l \in Lists |-> sensors'[l]]
    BY <1>1
  <2> QED
    BY <1>3, <2>1
<1> QED
  BY <1>1, <1>3, <1>4, <1>5 DEF SensorLists

LEMMA TickKeeps == StatusInv /\ Tick => StatusInv'
<1> SUFFICES ASSUME StatusInv, Tick PROVE StatusInv'
  OBVIOUS
<1>1. /\ UNCHANGED <<statusstate, having_fun>> /\ publishStateToWeb(FALSE)
      /\ UNCHANGED <<mainVars, events_to_status_chan, spaceapijsonbytes>>
      /\ spaceevents' = CleanOutdatedSpaceEvents(spaceevents)
      /\ sensors' = [l \in DOMAIN sensors |-> CleanOutdatedSensorData(sensors[l])]
  BY DEF Tick
<1>2. QueuesOK'
  BY <1>1 DEF StatusInv, QueuesOK, mainVars
<1>3. PublishOK'
  BY <1>1, PublishTyped DEF StatusInv
<1>4. spaceevents' \in Seq(EventRecords) /\ Len(spaceevents') <= Len(spaceevents)
  BY <1>1, CleaningEvents DEF StatusInv, DocumentOK
<1>5. sensors' \in SensorLists
  BY <1>1, CleanedLists DEF StatusInv, DocumentOK
<1>6. DocumentOK'
  BY <1>1, <1>4, <1>5 DEF StatusInv, DocumentOK
<1>7. RoomForEvents'
  BY <1>1, <1>4, RoomStays DEF mainVars
<1> QED
  BY <1>2, <1>3, <1>6, <1>7 DEF StatusInv

LEMMA AgesSensors ==
  ASSUME StatusInv, NEW l \in TimedLists, NEW i \in DOMAIN sensors[l],
         sensors' = [sensors EXCEPT ![l][i].old = TRUE]
  PROVE  /\ sensors' \in SensorLists
         /\ \A k \in DOMAIN sensors : Len(sensors'[k]) = Len(sensors[k])
<1>1. sensors \in [Lists -> Seq(Sensors)] /\ l \in Lists /\ l \notin UntimedLists
        /\ DOMAIN sensors = Lists
  BY DEF StatusInv, DocumentOK, SensorLists, Lists, TimedLists, UntimedLists
<1>2. PICK list \in Seq(Sensors) : list = sensors[l]
  BY <1>1
<1>3. i \in 1 .. Len(list)
  BY <1>2
<1>4. PICK aged : aged = [list[i] EXCEPT !.old = TRUE]
  OBVIOUS
<1>5. aged \in Sensors
  <2>1. list[i] \in Sensors
    BY <1>3, ElementOfSeq
  <2> QED
    BY <1>4, <2>1 DEF Sensors
<1>6. PICK new : new = [list EXCEPT ![i] = aged]
  OBVIOUS
<1>7. new \in Seq(Sensors) /\ Len(new) = Len(list)
  BY <1>3, <1>5, <1>6, ExceptSeq
<1>8. sensors' = [sensors EXCEPT ![l] = new]
  BY <1>1, <1>2, <1>4, <1>6
<1> QED
  <2>1. \A k \in Lists \ {l} : sensors'[k] = sensors[k]
    BY <1>1, <1>8
  <2>2. sensors'[l] = new /\ sensors' \in [Lists -> Seq(Sensors)]
    BY <1>1, <1>7, <1>8
  <2>3. \A k \in UntimedLists : k \in Lists \ {l} /\ sensors[k] \in Seq(Numbers)
    BY <1>1 DEF StatusInv, DocumentOK, SensorLists, Lists
  <2>4. sensors' \in SensorLists
    BY <2>1, <2>2, <2>3 DEF SensorLists
  <2> QED
    BY <1>1, <1>2, <1>7, <2>1, <2>2, <2>4

LEMMA AgesEvents ==
  ASSUME StatusInv, NEW i \in DOMAIN spaceevents,
         spaceevents' = [spaceevents EXCEPT ![i].old = TRUE]
  PROVE  spaceevents' \in Seq(EventRecords) /\ Len(spaceevents') = Len(spaceevents)
<1>1. spaceevents \in Seq(EventRecords) /\ i \in 1 .. Len(spaceevents)
  BY DEF StatusInv, DocumentOK
<1>2. PICK aged : aged = [spaceevents[i] EXCEPT !.old = TRUE]
  OBVIOUS
<1>3. aged \in EventRecords
  <2>1. spaceevents[i] \in EventRecords
    BY <1>1, ElementOfSeq
  <2> QED
    BY <1>2, <2>1 DEF EventRecords
<1>4. spaceevents' = [spaceevents EXCEPT ![i] = aged]
  BY <1>2
<1> QED
  <2>1. /\ [spaceevents EXCEPT ![i] = aged] \in Seq(EventRecords)
        /\ Len([spaceevents EXCEPT ![i] = aged]) = Len(spaceevents)
    BY <1>1, <1>3, ExceptSeq
  <2> QED
    BY <1>4, <2>1

LEMMA NextStatusInv == StatusInv /\ [StatusNext]_statusVars => StatusInv'
<1> SUFFICES ASSUME StatusInv, [StatusNext]_statusVars PROVE StatusInv'
  OBVIOUS
<1> USE DEF mainVars, documentVars
<1>s. QueuesOK /\ DocumentOK /\ PublishOK /\ RoomForEvents
  BY DEF StatusInv
<1>q. UNCHANGED <<arrives, forwarding, events_to_status_chan>> => QueuesOK'
  BY <1>s DEF QueuesOK
<1>d. UNCHANGED documentVars => DocumentOK'
  BY <1>s DEF DocumentOK
<1>r. UNCHANGED <<forwarding, events_to_status_chan, spaceevents>> => RoomForEvents'
  BY <1>s DEF RoomForEvents
<1>p. UNCHANGED <<spacestate, handler, installing, spaceapijsonbytes>> => PublishOK'
  BY <1>s DEF PublishOK
<1>1. CASE ReceiveMessage
  BY <1>1, ReceiveKeeps
<1>2. CASE Forward
  BY <1>2, ForwardKeeps
<1>3. CASE TakeEvent
  BY <1>3, TakeKeeps
<1>4. CASE Tick
  BY <1>4, TickKeeps
<1>5. CASE GotSession \/ SendEnds \/ BrokerReached
  <2>1. handler' \in Handlers
    BY <1>5, <1>s DEF GotSession, SendEnds, BrokerReached, PublishOK, Handlers
  <2>2. UNCHANGED <<mainVars, events_to_status_chan, documentVars, spacestate, installing,
                    spaceapijsonbytes>>
    BY <1>5 DEF GotSession, SendEnds, BrokerReached
  <2> QED
    BY <1>s, <1>q, <1>d, <1>r, <2>1, <2>2 DEF StatusInv, PublishOK
<1>6. ASSUME NEW i \in 1 .. MaxInstalls, Install(i) PROVE StatusInv'
  <2>1. /\ installing \in Seq(Shown) /\ i \in 1 .. Len(installing) /\ Len(installing) \in Nat
        /\ Len(installing) <= MaxInstalls
    BY <1>6, <1>s DEF Install, PublishOK
  <2>2. installing' \in [1 .. Len(installing) - 1 -> Shown]
    <3>1. \A j \in 1 .. Len(installing) - 1 : installing[IF j < i THEN j ELSE j + 1] \in Shown
      BY <2>1
    <3> QED
      BY <1>6, <3>1 DEF Install
  <2>3. installing' \in Seq(Shown) /\ Len(installing') = Len(installing) - 1
    BY <2>1, <2>2
  <2>4. spaceapijsonbytes' \in Shown
    BY <1>6, <2>1 DEF Install
  <2>5. UNCHANGED <<mainVars, events_to_status_chan, documentVars, spacestate, handler>>
    BY <1>6 DEF Install
  <2>6. Len(installing') <= MaxInstalls
    BY <2>1, <2>3, SpaceStatusAssumption
  <2> QED
    BY <1>s, <1>q, <1>d, <1>r, <2>3, <2>4, <2>5, <2>6 DEF StatusInv, PublishOK
<1>7. CASE FunEnds
  <2>1. DocumentOK'
    BY <1>7, <1>s DEF FunEnds, DocumentOK
  <2> QED
    BY <1>7, <1>q, <1>r, <1>p, <2>1 DEF FunEnds, StatusInv
<1>8. ASSUME NEW i \in 1 .. MaxSpaceEvents, EventEnds(i) PROVE StatusInv'
  <2>1. spaceevents' \in Seq(EventRecords) /\ Len(spaceevents') = Len(spaceevents)
    BY <1>8, AgesEvents DEF EventEnds
  <2>2. DocumentOK'
    BY <1>8, <1>s, <2>1 DEF EventEnds, DocumentOK
  <2>3. RoomForEvents'
    BY <1>8, <1>s, <2>1 DEF EventEnds, RoomForEvents
  <2> QED
    BY <1>8, <1>q, <1>p, <2>2, <2>3 DEF EventEnds, StatusInv
<1>9. ASSUME NEW l \in TimedLists, NEW i \in DOMAIN sensors[l], SensorAges(l, i)
      PROVE  StatusInv'
  <2>1. sensors' \in SensorLists
    BY <1>9, AgesSensors DEF SensorAges
  <2>2. DocumentOK'
    BY <1>9, <1>s, <2>1 DEF SensorAges, DocumentOK
  <2> QED
    BY <1>9, <1>q, <1>r, <1>p, <2>2 DEF SensorAges, StatusInv
<1>10. CASE BrokerNotReached
  <2>1. PublishOK'
    BY <1>10, <1>s, PublishTyped DEF BrokerNotReached
  <2> QED
    BY <1>10, <1>q, <1>d, <1>r, <2>1 DEF BrokerNotReached, StatusInv
<1>11. CASE RestartStatus
  <2>1. PublishOK'
    <3>1. Connecting \in Handlers /\ NoState \in Shown
      BY DEF Connecting, Handlers, NoState, Shown
    <3>2. installing' \in Seq(Shown) /\ Len(installing') = 0
      BY <1>11 DEF RestartStatus
    <3> QED
      BY <1>11, <3>1, <3>2, SpaceStatusAssumption DEF RestartStatus, PublishOK
  <2> QED
    BY <1>11, <1>q, <1>d, <1>r, <2>1 DEF RestartStatus, StatusInv
<1>12. CASE UNCHANGED statusVars
  BY <1>12, <1>q, <1>d, <1>r, <1>p DEF statusVars, StatusInv
<1> QED
  BY <1>1, <1>2, <1>3, <1>4, <1>5, <1>6, <1>7, <1>8, <1>9, <1>10, <1>11, <1>12
     DEF StatusNext, Main, EventToWeb, Installs, Time, Process

(* The lists, the channel and the goroutines never hold what they must     *)
(* not: a sensor without a timestamp is never one that no document can be  *)
(* made of, and nothing outgrows its bound.                                *)
THEOREM StatusTypeCorrect == StatusSpec => []StatusTypeOK
  BY InitStatusInv, NextStatusInv, InvIsTyped, PTL DEF StatusSpec
-----------------------------------------------------------------------------
(* What cleaning takes *)

LEMMA TickKeepsTheRest ==
  ASSUME StatusInv, Tick
  PROVE  /\ \A l \in DOMAIN sensors : KeepsTheRestInOrder(sensors'[l], sensors[l])
         /\ KeepsTheRest(spaceevents', spaceevents)
<1>1. /\ spaceevents' = CleanOutdatedSpaceEvents(spaceevents)
      /\ sensors' = [l \in DOMAIN sensors |-> CleanOutdatedSensorData(sensors[l])]
  BY DEF Tick
<1>2. \A l \in DOMAIN sensors : KeepsTheRestInOrder(sensors'[l], sensors[l])
  BY <1>1, CleanedLists DEF StatusInv, DocumentOK
<1>3. KeepsTheRest(spaceevents', spaceevents)
  BY <1>1, CleaningEvents DEF StatusInv, DocumentOK
<1> QED
  BY <1>2, <1>3

(* No list gets shorter. *)
ListsLast ==
  /\ \A l \in DOMAIN sensors : ~(Len(sensors'[l]) < Len(sensors[l]))
  /\ ~(Len(spaceevents') < Len(spaceevents))

LEMMA OthersTakeNothing ==
  ASSUME StatusInv, [StatusNext]_statusVars, ~Tick
  PROVE  ListsLast
<1> USE DEF documentVars
<1>1. /\ DOMAIN sensors = Lists /\ \A l \in Lists : Len(sensors[l]) \in Nat
      /\ spaceevents \in Seq(EventRecords) /\ Len(spaceevents) \in Nat
      /\ sensors \in SensorLists
  BY DEF StatusInv, DocumentOK, SensorLists
<1>2. CASE UNCHANGED <<sensors, spaceevents>>
  BY <1>1, <1>2 DEF ListsLast
<1>3. CASE \/ ReceiveMessage \/ Forward \/ GotSession \/ SendEnds \/ FunEnds \/ Process
           \/ Installs \/ UNCHANGED statusVars
  BY <1>2, <1>3 DEF ReceiveMessage, Forward, GotSession, SendEnds, FunEnds, Process,
                    BrokerReached, BrokerNotReached, RestartStatus, Installs, Install,
                    statusVars
<1>4. CASE TakeEvent
  <2>1. PICK e \in Events : e = Head(events_to_status_chan)
    BY <1>4 DEF TakeEvent, StatusInv, QueuesOK
  <2>2. /\ spaceevents' = IF e.type \in SpaceEventTopics
                          THEN Append(spaceevents, [name |-> e.type, old |-> FALSE])
                          ELSE spaceevents
        /\ sensors' = Merged(sensors, Merges(e))
    BY <1>4, <2>1 DEF TakeEvent
  <2>3. /\ sensors' \in SensorLists
        /\ \A l \in Lists : Len(sensors[l]) <= Len(sensors'[l])
    BY <1>1, <2>2, MergesOfEvents, MergedLists
  <2>4. \A l \in Lists : Len(sensors'[l]) \in Nat
    BY <2>3 DEF SensorLists
  <2>5. Len(spaceevents') = Len(spaceevents) \/ Len(spaceevents') = Len(spaceevents) + 1
    BY <1>1, <2>2
  <2> QED
    BY <1>1, <2>3, <2>4, <2>5 DEF ListsLast
<1>5. ASSUME NEW i \in 1 .. MaxSpaceEvents, EventEnds(i) PROVE ListsLast
  <2>1. Len(spaceevents') = Len(spaceevents) /\ UNCHANGED sensors
    BY <1>5, AgesEvents DEF EventEnds
  <2> QED
    BY <1>1, <2>1 DEF ListsLast
<1>6. ASSUME NEW l \in TimedLists, NEW i \in DOMAIN sensors[l], SensorAges(l, i)
      PROVE  ListsLast
  <2>1. /\ \A k \in DOMAIN sensors : Len(sensors'[k]) = Len(sensors[k])
        /\ UNCHANGED spaceevents
    BY <1>6, AgesSensors DEF SensorAges
  <2> QED
    BY <1>1, <2>1 DEF ListsLast
<1> QED
  BY <1>3, <1>4, <1>5, <1>6 DEF StatusNext, Main, EventToWeb, Time

(* A tick takes from the lists what is too old and nothing else, however   *)
(* many sensors and events there are and whichever of them are too old;    *)
(* the sensors keep their order; and nothing but a tick takes anything.    *)
THEOREM CleaningAlwaysKeepsTheRest == StatusSpec => CleaningKeepsTheRest
<1>1. StatusInv /\ [StatusNext]_statusVars =>
        [/\ \A l \in DOMAIN sensors :
              Tick \/ Len(sensors'[l]) < Len(sensors[l])
                => KeepsTheRestInOrder(sensors'[l], sensors[l])
         /\ Tick \/ Len(spaceevents') < Len(spaceevents)
              => KeepsTheRest(spaceevents', spaceevents)]_statusVars
  BY TickKeepsTheRest, OthersTakeNothing DEF ListsLast
<1> QED
  BY <1>1, InitStatusInv, NextStatusInv, PTL DEF StatusSpec, CleaningKeepsTheRest
-----------------------------------------------------------------------------
(* The last presence message *)

(* The last news of a queue says what was reported, or there is none and   *)
(* EventToWeb goes by it.                                                  *)
IsNews(e) == e.type = "presence"

LastNews(q, says) ==
  \E i \in 1 .. Len(q) :
    IsNews(q[i]) /\ q[i].says = says /\ \A j \in 1 .. Len(q) : IsNews(q[j]) => j <= i

NoNews(q) == \A i \in 1 .. Len(q) : ~IsNews(q[i])

GoesBy(says) ==
  /\ statusstate.space1present = ("space1" \in says)
  /\ statusstate.space2present = ("space2" \in says)

PresenceInv ==
  \/ LastNews(forwarding, reported)
  \/ /\ NoNews(forwarding)
     /\ \/ LastNews(events_to_status_chan, reported)
        \/ NoNews(events_to_status_chan) /\ GoesBy(reported)

LEMMA AppendedNews ==
  ASSUME NEW q \in Seq(Events), NEW e \in Events, NEW says
  PROVE  /\ IsNews(e) /\ e.says = says => LastNews(Append(q, e), says)
         /\ ~IsNews(e) => /\ LastNews(q, says) => LastNews(Append(q, e), says)
                          /\ NoNews(q) => NoNews(Append(q, e))
<1> DEFINE t == Append(q, e)
           n == Len(q) + 1
<1>1. /\ Len(q) \in Nat /\ Len(t) = n /\ t[n] = e
      /\ \A i \in 1 .. Len(q) : t[i] = q[i]
  BY AppendProperties
<1> HIDE DEF t
<1>2. ASSUME IsNews(e), e.says = says PROVE LastNews(t, says)
  <2>1. n \in 1 .. Len(t) /\ \A j \in 1 .. Len(t) : j <= n
    BY <1>1
  <2> QED
    BY <1>1, <1>2, <2>1 DEF LastNews
<1>3. ASSUME ~IsNews(e), LastNews(q, says) PROVE LastNews(t, says)
  <2>1. PICK i \in 1 .. Len(q) :
          IsNews(q[i]) /\ q[i].says = says /\ \A j \in 1 .. Len(q) : IsNews(q[j]) => j <= i
    BY <1>3 DEF LastNews
  <2>2. i \in 1 .. Len(t) /\ t[i] = q[i]
    BY <1>1
  <2>3. ASSUME NEW j \in 1 .. Len(t), IsNews(t[j]) PROVE j <= i
    <3>1. j \in 1 .. Len(q)
      BY <1>1, <1>3, <2>3
    <3> QED
      BY <1>1, <2>1, <2>3, <3>1
  <2> QED
    BY <2>1, <2>2, <2>3 DEF LastNews
<1>4. ASSUME ~IsNews(e), NoNews(q) PROVE NoNews(t)
  <2> SUFFICES ASSUME NEW i \in 1 .. Len(t) PROVE ~IsNews(t[i])
    BY DEF NoNews
  <2>1. i = n \/ i \in 1 .. Len(q)
    BY <1>1
  <2> QED
    BY <1>1, <1>4, <2>1 DEF NoNews
<1> QED
  BY <1>2, <1>3, <1>4 DEF t

LEMMA TakenNews ==
  ASSUME NEW q \in Seq(Events), q # <<>>, NEW says
  PROVE  /\ LastNews(q, says) => \/ LastNews(Tail(q), says)
                                 \/ /\ NoNews(Tail(q))
                                    /\ IsNews(Head(q)) /\ Head(q).says = says
         /\ NoNews(q) => NoNews(Tail(q)) /\ ~IsNews(Head(q))
<1> DEFINE t == Tail(q)
<1>1. /\ Len(q) \in Nat \ {0} /\ Len(t) = Len(q) - 1 /\ Head(q) = q[1]
      /\ \A i \in 1 .. Len(t) : t[i] = q[i + 1]
  BY HeadTailProperties
<1> HIDE DEF t
<1>2. ASSUME LastNews(q, says)
      PROVE  \/ LastNews(t, says)
             \/ NoNews(t) /\ IsNews(Head(q)) /\ Head(q).says = says
  <2>1. PICK i \in 1 .. Len(q) :
          IsNews(q[i]) /\ q[i].says = says /\ \A j \in 1 .. Len(q) : IsNews(q[j]) => j <= i
    BY <1>2 DEF LastNews
  <2>2. \A j \in 1 .. Len(t) : IsNews(t[j]) => j + 1 <= i
    BY <1>1, <2>1
  <2>3. CASE i = 1
    <3>1. NoNews(t)
      BY <1>1, <2>2, <2>3 DEF NoNews
    <3> QED
      BY <1>1, <2>1, <2>3, <3>1
  <2>4. CASE i # 1
    <3>1. i - 1 \in 1 .. Len(t) /\ t[i - 1] = q[i]
      BY <1>1, <2>4
    <3>2. \A j \in 1 .. Len(t) : IsNews(t[j]) => j <= i - 1
      BY <1>1, <2>2
    <3> QED
      BY <2>1, <3>1, <3>2 DEF LastNews
  <2> QED
    BY <2>3, <2>4
<1>3. ASSUME NoNews(q) PROVE NoNews(t) /\ ~IsNews(Head(q))
  BY <1>1, <1>3 DEF NoNews
<1> QED
  BY <1>2, <1>3 DEF t

LEMMA PresenceStep == StatusInv /\ PresenceInv /\ [StatusNext]_statusVars => PresenceInv'
<1> SUFFICES ASSUME StatusInv, PresenceInv, [StatusNext]_statusVars PROVE PresenceInv'
  OBVIOUS
<1> USE DEF mainVars, documentVars
<1>q. /\ forwarding \in Seq(Events) /\ events_to_status_chan \in Seq(Events)
      /\ arrives \in Scenarios
  BY DEF StatusInv, QueuesOK
<1>1. CASE UNCHANGED <<forwarding, events_to_status_chan, statusstate, reported>>
  BY <1>1 DEF PresenceInv, GoesBy
<1>2. CASE \/ Tick \/ GotSession \/ SendEnds \/ Time \/ Process \/ Installs
           \/ UNCHANGED statusVars
  BY <1>1, <1>2 DEF Tick, GotSession, SendEnds, Time, FunEnds, EventEnds, SensorAges,
                    Process, BrokerReached, BrokerNotReached, RestartStatus, Installs,
                    Install, statusVars
<1>3. CASE ReceiveMessage
  <2>1. PICK topic \in arrives, from \in Names, intact \in BOOLEAN :
          \E says \in SUBSET Fields(topic) :
            LET msg == [topic |-> topic, from |-> from, intact |-> intact, says |-> says]
            IN  /\ forwarding' = EventsOf(msg)
                /\ reported' = IF topic = "presence" /\ intact THEN says ELSE reported
    BY <1>3 DEF ReceiveMessage
  <2>2. PICK says \in SUBSET Fields(topic) :
          LET msg == [topic |-> topic, from |-> from, intact |-> intact, says |-> says]
          IN  /\ forwarding' = EventsOf(msg)
              /\ reported' = IF topic = "presence" /\ intact THEN says ELSE reported
    BY <2>1
  <2>3. PICK msg :
          /\ msg = [topic |-> topic, from |-> from, intact |-> intact, says |-> says]
          /\ forwarding' = EventsOf(msg)
          /\ reported' = IF topic = "presence" /\ intact THEN says ELSE reported
    BY <2>2
  <2>4. /\ topic # "presence" =>
             \A i \in DOMAIN forwarding' : forwarding'[i].type # "presence"
        /\ topic = "presence" /\ ~intact => forwarding' = <<>>
        /\ topic = "presence" /\ intact =>
             forwarding' = <<[type |-> "presence", from |-> from, says |-> says]>>
        /\ forwarding' \in Seq(Events)
    <3>1. topic \in Topics
      BY <1>q DEF Topics
    <3> QED
      BY <2>3, <3>1, EventsOfMessage
  <2>5. forwarding = <<>> /\ UNCHANGED <<events_to_status_chan, statusstate>>
    BY <1>3 DEF ReceiveMessage
  <2>6. CASE topic = "presence" /\ intact
    <3>1. /\ Len(forwarding') = 1 /\ IsNews(forwarding'[1])
          /\ forwarding'[1].says = reported'
      BY <2>3, <2>4, <2>6 DEF IsNews
    <3>2. \A j \in 1 .. Len(forwarding') : j <= 1
      BY <3>1
    <3>3. LastNews(forwarding', reported')
      BY <3>1, <3>2 DEF LastNews
    <3> QED
      BY <3>3 DEF PresenceInv
  <2>7. CASE ~(topic = "presence" /\ intact)
    <3>1. NoNews(forwarding') /\ reported' = reported
      BY <2>3, <2>4, <2>7 DEF NoNews, IsNews
    <3>2. ~LastNews(forwarding, reported)
      BY <2>5 DEF LastNews
    <3> QED
      BY <2>5, <3>1, <3>2 DEF PresenceInv, GoesBy
  <2> QED
    BY <2>6, <2>7
<1>4. CASE Forward
  <2>1. PICK e \in Events : e = Head(forwarding)
    BY <1>4, <1>q DEF Forward
  <2>2. /\ forwarding # <<>> /\ forwarding' = Tail(forwarding)
        /\ events_to_status_chan' = Append(events_to_status_chan, e)
        /\ UNCHANGED <<reported, statusstate>>
    BY <1>4, <2>1 DEF Forward
  <2>3. CASE LastNews(forwarding, reported)
    <3>1. \/ LastNews(forwarding', reported)
          \/ NoNews(forwarding') /\ IsNews(e) /\ e.says = reported
      BY <1>q, <2>1, <2>2, <2>3, TakenNews
    <3>2. IsNews(e) /\ e.says = reported => LastNews(events_to_status_chan', reported)
      BY <1>q, <2>2, AppendedNews
    <3> QED
      BY <2>2, <3>1, <3>2 DEF PresenceInv
  <2>4. CASE NoNews(forwarding)
    <3>1. NoNews(forwarding') /\ ~IsNews(e)
      BY <1>q, <2>1, <2>2, <2>4, TakenNews
    <3>2. /\ LastNews(events_to_status_chan, reported) =>
               LastNews(events_to_status_chan', reported)
          /\ NoNews(events_to_status_chan) => NoNews(events_to_status_chan')
      BY <1>q, <2>2, <3>1, AppendedNews
    <3>3. LastNews(forwarding, reported) => ~NoNews(forwarding)
      BY DEF LastNews, NoNews
    <3> QED
      BY <2>2, <2>4, <3>1, <3>2, <3>3 DEF PresenceInv, GoesBy
  <2> QED
    BY <2>3, <2>4 DEF PresenceInv
<1>5. CASE TakeEvent
  <2>1. PICK e \in Events : e = Head(events_to_status_chan)
    BY <1>5, <1>q DEF TakeEvent
  <2>2. /\ events_to_status_chan # <<>>
        /\ events_to_status_chan' = Tail(events_to_status_chan)
        /\ UNCHANGED <<reported, forwarding>>
        /\ ~IsNews(e) => UNCHANGED statusstate
        /\ IsNews(e) => GoesBy(e.says)'
    BY <1>5, <2>1 DEF TakeEvent, IsNews, GoesBy
  <2>3. /\ LastNews(events_to_status_chan, reported) =>
             \/ LastNews(events_to_status_chan', reported)
             \/ NoNews(events_to_status_chan') /\ IsNews(e) /\ e.says = reported
        /\ NoNews(events_to_status_chan) => NoNews(events_to_status_chan') /\ ~IsNews(e)
    BY <1>q, <2>1, <2>2, TakenNews
  <2> QED
    BY <2>2, <2>3 DEF PresenceInv, GoesBy
<1> QED
  BY <1>2, <1>3, <1>4, <1>5 DEF StatusNext, Main, EventToWeb

(* No presence message is lost or overtaken on its way through main and    *)
(* the channel, whatever its capacity and whatever arrives with it.        *)
THEOREM PresenceIsNeverLost == StatusSpec => []PresenceNeverLost
<1>1. StatusInit => PresenceInv
  <2> SUFFICES ASSUME StatusInit PROVE PresenceInv
    OBVIOUS
  <2>1. NoNews(forwarding) /\ NoNews(events_to_status_chan)
    BY DEF StatusInit, NoNews
  <2>2. Fields("presence") = {"space1", "space2"}
    BY DEF Fields
  <2>3. "space1" \notin reported /\ "space2" \notin reported
    BY <2>2 DEF StatusInit, Unread
  <2>4. statusstate.space1present = FALSE /\ statusstate.space2present = FALSE
    BY DEF StatusInit, Nobody
  <2>5. ("space1" \in reported) = FALSE /\ ("space2" \in reported) = FALSE
    BY <2>3
  <2>6. GoesBy(reported)
    BY <2>4, <2>5, Zenon DEF GoesBy
  <2> QED
    BY <2>1, <2>6, Zenon DEF PresenceInv
<1>2. StatusInv /\ PresenceInv => PresenceNeverLost
  <2> SUFFICES ASSUME StatusInv, PresenceInv PROVE PresenceNeverLost
    OBVIOUS
  <2> DEFINE c == events_to_status_chan
             f == forwarding
             q == c \o f
  <2>1. /\ c \in Seq(Events) /\ f \in Seq(Events)
        /\ Len(c) \in Nat /\ Len(f) \in Nat
    BY DEF StatusInv, QueuesOK
  <2>2. /\ DOMAIN q = 1 .. Len(c) + Len(f)
        /\ \A i \in 1 .. Len(c) + Len(f) :
             q[i] = IF i <= Len(c) THEN c[i] ELSE f[i - Len(c)]
    BY <2>1, ConcatProperties
  <2> DEFINE news == {i \in DOMAIN q : q[i].type = "presence"}
  <2> HIDE DEF q
  <2>3. SUFFICES \/ news = {} /\ GoesBy(reported)
                 \/ \E i \in news : q[i].says = reported /\ \A j \in news : j <= i
    BY DEF PresenceNeverLost, GoesBy, q
  <2>4. CASE LastNews(f, reported)
    <3>1. PICK i \in 1 .. Len(f) :
            /\ IsNews(f[i]) /\ f[i].says = reported
            /\ \A j \in 1 .. Len(f) : IsNews(f[j]) => j <= i
      BY <2>4 DEF LastNews
    <3>2. Len(c) + i \in DOMAIN q /\ q[Len(c) + i] = f[i]
      BY <2>1, <2>2
    <3>3. ASSUME NEW j \in news PROVE j <= Len(c) + i
      <4>1. CASE j <= Len(c)
        BY <2>1, <2>2, <4>1
      <4>2. CASE ~(j <= Len(c))
        <5>1. j - Len(c) \in 1 .. Len(f) /\ q[j] = f[j - Len(c)]
          BY <2>1, <2>2, <4>2
        <5>2. j - Len(c) <= i
          BY <3>1, <5>1 DEF IsNews
        <5> QED
          BY <2>1, <2>2, <5>2
      <4> QED
        BY <4>1, <4>2
    <3> QED
      BY <3>1, <3>2, <3>3 DEF IsNews
  <2>5. CASE NoNews(f) /\ LastNews(c, reported)
    <3>1. PICK i \in 1 .. Len(c) :
            /\ IsNews(c[i]) /\ c[i].says = reported
            /\ \A j \in 1 .. Len(c) : IsNews(c[j]) => j <= i
      BY <2>5 DEF LastNews
    <3>2. i \in DOMAIN q /\ q[i] = c[i]
      BY <2>1, <2>2
    <3>3. ASSUME NEW j \in news PROVE j <= i
      <4>1. CASE j <= Len(c)
        BY <2>1, <2>2, <3>1, <4>1 DEF IsNews
      <4>2. CASE ~(j <= Len(c))
        <5>1. j - Len(c) \in 1 .. Len(f) /\ q[j] = f[j - Len(c)]
          BY <2>1, <2>2, <4>2
        <5> QED
          BY <2>5, <5>1 DEF NoNews, IsNews
      <4> QED
        BY <4>1, <4>2
    <3> QED
      BY <3>1, <3>2, <3>3 DEF IsNews
  <2>6. CASE NoNews(f) /\ NoNews(c) /\ GoesBy(reported)
    <3>1. ASSUME NEW i \in DOMAIN q PROVE ~IsNews(q[i])
      <4>1. CASE i <= Len(c)
        BY <2>1, <2>2, <2>6, <4>1 DEF NoNews
      <4>2. CASE ~(i <= Len(c))
        <5>1. i - Len(c) \in 1 .. Len(f) /\ q[i] = f[i - Len(c)]
          BY <2>1, <2>2, <4>2
        <5> QED
          BY <2>6, <5>1 DEF NoNews
      <4> QED
        BY <4>1, <4>2
    <3> QED
      BY <2>6, <3>1 DEF IsNews
  <2> QED
    BY <2>4, <2>5, <2>6 DEF PresenceInv
<1>3. StatusInv /\ PresenceInv /\ [StatusNext]_statusVars => StatusInv' /\ PresenceInv'
  BY NextStatusInv, PresenceStep
<1> QED
  BY <1>1, <1>2, <1>3, InitStatusInv, PTL DEF StatusSpec
=============================================================================
