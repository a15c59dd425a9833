------------------------- MODULE MetaMovementProofs -------------------------
(***************************************************************************)
(* Proofs about the movement routine for every ring size, threshold, tick  *)
(* distance and choice of announced ages that GapAssumption allows.        *)
(***************************************************************************)
EXTENDS MetaMovement, MetaEvents, DataLemmas, TLAPS

(* The part of the type invariant the arguments need. *)
TimesOK ==
  /\ ts \in Nat
  /\ last_movement \in Nat
  /\ last_movement <= ts
  /\ last_movementN \in [Stages -> Nat]

RingOK ==
  /\ movement_window \in [Slots -> Nat]
  /\ current \in Slots

(* A nonempty set of announced ages has an oldest member. *)
LEMMA OldestExists ==
  ASSUME NEW S \in SUBSET (1 .. 4), S # {}
  PROVE  \E k \in S : \A j \in S : j <= k
<1>1. S \subseteq {1, 2, 3, 4}
  OBVIOUS
<1>2. CASE 4 \in S
  BY <1>1, <1>2
<1>3. CASE 4 \notin S /\ 3 \in S
  BY <1>1, <1>3
<1>4. CASE 4 \notin S /\ 3 \notin S /\ 2 \in S
  BY <1>1, <1>4
<1>5. CASE 4 \notin S /\ 3 \notin S /\ 2 \notin S
  <2>1. S = {1}
    BY <1>1, <1>5, S # {}
  <2> QED
    BY <2>1
<1> QED
  BY <1>2, <1>3, <1>4, <1>5

(* The neighbours of a slot are slots. *)
LEMMA Neighbours ==
  ASSUME NEW s \in Slots
  PROVE  Prev(s) \in Slots /\ Succ(s) \in Slots /\ Prev(Succ(s)) = s
BY MovementAssumption DEF Slots, Prev, Succ
-----------------------------------------------------------------------------
(* One tick tells the ages on time if the tick before it did. *)
LEMMA FadeOnTime ==
  ASSUME TimesOK, AgesAnnouncedOnTime, NEW gap \in Gaps,
         ts' = ts + gap, Fade(ts')
  PROVE  TimesOK' /\ AgesAnnouncedOnTime'
<1> DEFINE age    == ts' - last_movement
           stages == {k \in 1 .. 4 : Due(k, age)}
           oldest == CHOOSE k \in stages : \A j \in stages : j <= k
<1>1. gap \in Nat /\ gap > 0 /\ FadeAfter \in [1 .. 4 -> Nat] /\ Horizon \in Nat
  BY MovementAssumption
<1>2. ts' \in Nat /\ age \in Nat /\ ts' > last_movement
  BY <1>1 DEF TimesOK
<1>3. CASE last_movement = 0
  BY <1>2, <1>3 DEF Fade, TimesOK, AgesAnnouncedOnTime
<1>4. CASE last_movement > 0
  <2>1. /\ ts - last_movement <= FadeAfter[4]
        /\ \A k \in Stages : Announced(k) <=> ts - last_movement > FadeAfter[k]
    BY <1>4 DEF AgesAnnouncedOnTime
  <2>2. age < Horizon
    BY <1>1, <2>1, GapAssumption DEF TimesOK
  <2>3. \A k \in Stages : FadeAfter[k] \in Nat /\ FadeAfter[4] \in Nat
    BY <1>1 DEF Stages
  (* An age that is not due and not the oldest due one keeps its status. *)
  <2>4. ASSUME NEW k \in Stages, ~Due(k, age)
        PROVE  Announced(k) <=> age > FadeAfter[k]
    BY <1>1, <2>1, <2>3, <2>4 DEF Due, Announced, TimesOK, Stages
  <2>5. CASE stages = {}
    <3>1. last_movement' = last_movement /\ last_movementN' = last_movementN
      BY <2>5 DEF Fade
    <3>2. age <= FadeAfter[4]
      BY <1>1, <1>2, <2>3, <2>5 DEF Due
    <3>3. \A k \in Stages : Announced(k) <=> age > FadeAfter[k]
      BY <2>4, <2>5 DEF Stages
    <3> QED
      BY <1>2, <3>1, <3>2, <3>3 DEF AgesAnnouncedOnTime, Announced, TimesOK
  <2>6. CASE stages # {}
    <3>1. oldest \in stages /\ \A j \in stages : j <= oldest
      BY <2>6, OldestExists
    <3>2. /\ last_movement' = IF oldest = 4 THEN 0 ELSE last_movement
          /\ last_movementN' = [k \in Stages |-> IF k = oldest THEN 0 ELSE last_movementN[k]]
      BY <1>4, <2>2, <2>6 DEF Fade
    <3>3. last_movementN' \in [Stages -> Nat]
      BY <3>2 DEF TimesOK
    <3> HIDE DEF oldest, stages
    <3>4. CASE oldest = 4
      BY <1>2, <3>2, <3>3, <3>4 DEF TimesOK, AgesAnnouncedOnTime
    <3>5. CASE oldest # 4
      <4>1. oldest \in Stages /\ age > FadeAfter[oldest]
        BY <3>1, <3>5 DEF Stages, Due, stages
      <4>2. age <= FadeAfter[4]
        <5>1. 4 \notin stages
          BY <3>1, <3>5 DEF stages
        <5> QED
          BY <1>1, <1>2, <2>3, <5>1 DEF Due, stages
      <4>3. ASSUME NEW k \in Stages
            PROVE  last_movementN'[k] = 0 <=> age > FadeAfter[k]
        <5>1. CASE k = oldest
          BY <3>2, <4>1, <5>1
        <5>2. CASE k > oldest
          <6>1. ~Due(k, age)
            BY <3>1, <4>1, <5>2 DEF Stages, stages
          <6>2. last_movementN'[k] = last_movementN[k]
            BY <3>2, <4>1, <5>2 DEF Stages
          <6> QED
            BY <2>4, <6>1, <6>2 DEF Announced
        <5>3. CASE k < oldest
          <6>1. FadeAfter[k] + gap <= FadeAfter[oldest]
            <7>1. /\ FadeAfter[1] + gap <= FadeAfter[2]
                  /\ FadeAfter[2] + gap <= FadeAfter[3]
                  /\ FadeAfter[1] \in Nat /\ FadeAfter[2] \in Nat /\ FadeAfter[3] \in Nat
              BY <1>1, GapAssumption
            <7>2. \/ k = 1 /\ oldest = 2
                  \/ k = 1 /\ oldest = 3
                  \/ k = 2 /\ oldest = 3
              BY <4>1, <5>3 DEF Stages
            <7> QED
              BY <1>1, <7>1, <7>2
          <6>2. FadeAfter[k] \in Nat /\ FadeAfter[oldest] \in Nat
            BY <2>3, <4>1
          <6>3. ts - last_movement > FadeAfter[k] /\ age > FadeAfter[k]
            BY <1>1, <4>1, <6>1, <6>2 DEF TimesOK
          <6>4. last_movementN'[k] = last_movementN[k]
            BY <3>2, <4>1, <5>3 DEF Stages
          <6> QED
            BY <2>1, <6>3, <6>4 DEF Announced
        <5> QED
          BY <4>1, <5>1, <5>2, <5>3 DEF Stages
      <4> QED
        BY <1>2, <3>2, <3>3, <3>5, <4>2, <4>3
           DEF AgesAnnouncedOnTime, Announced, TimesOK
    <3> QED
      BY <3>4, <3>5
  <2> QED
    BY <2>5, <2>6
<1> QED
  BY <1>3, <1>4 DEF TimesOK

(* The times and what has been announced stay in step with each other.     *)
LEMMA AgesInductive == Spec => [](TimesOK /\ AgesAnnouncedOnTime)
<1> DEFINE Inv == TimesOK /\ AgesAnnouncedOnTime
<1>1. Init => Inv
  BY MovementAssumption DEF Init, TimesOK, AgesAnnouncedOnTime
<1>2. Inv /\ [Next]_vars => Inv'
  <2> SUFFICES ASSUME TimesOK, AgesAnnouncedOnTime, [Next]_vars
               PROVE  Inv'
    OBVIOUS
  <2>1. CASE MovementSensorUpdate
    BY <2>1 DEF MovementSensorUpdate, TimesOK, AgesAnnouncedOnTime, Announced
  <2>2. ASSUME NEW gap \in Gaps, Tick(gap)
        PROVE  Inv'
    <3>1. ts' = ts + gap /\ (ReallyMoving(Total(Cleared), ts') \/ Fade(ts'))
      BY <2>2 DEF Tick
    <3>2. CASE ReallyMoving(Total(Cleared), ts')
      <4>1. ts' \in Nat /\ ts' > 0
        BY <3>1, MovementAssumption DEF TimesOK
      <4>2. last_movement' = ts' /\ last_movementN' = [k \in Stages |-> ts']
        BY <3>2 DEF ReallyMoving
      <4>3. \A k \in Stages : FadeAfter[k] \in Nat /\ FadeAfter[4] \in Nat
        BY MovementAssumption DEF Stages
      <4>4. ts' - last_movement' = 0 /\ TimesOK'
        <5>1. last_movementN' \in [Stages -> Nat]
          BY <4>1, <4>2
        <5>2. last_movement' = ts'
          BY <4>2
        <5>3. last_movement' \in Nat
          BY <4>1, <5>2
        <5>4. last_movement' <= ts'
          BY <4>1, <5>2
        <5>5. ts' - last_movement' = 0
          <6>1. \A m, n \in Nat : m <= n /\ n <= m => n - m = 0
            OBVIOUS
          <6>2. ts' <= last_movement'
            BY <4>1, <5>2
          <6> QED
            BY <4>1, <5>3, <5>4, <6>1, <6>2
        <5> QED
          BY <4>1, <5>1, <5>3, <5>4, <5>5 DEF TimesOK
      <4>5. \A k \in Stages : ~Announced(k)' /\ ~(0 > FadeAfter[k]) /\ 0 <= FadeAfter[4]
        BY <4>1, <4>2, <4>3 DEF Announced
      <4> QED
        BY <4>4, <4>5 DEF AgesAnnouncedOnTime, Stages
    <3>3. CASE Fade(ts')
      BY <3>1, <3>3, FadeOnTime
    <3> QED
      BY <3>1, <3>2, <3>3
  <2>3. CASE UNCHANGED vars
    BY <2>3 DEF vars, TimesOK, AgesAnnouncedOnTime, Announced
  <2> QED
    BY <2>1, <2>2, <2>3 DEF Next
<1>3. Inv => AgesAnnouncedOnTime
  OBVIOUS
<1> QED
  BY <1>1, <1>2, <1>3, PTL DEF Spec

(* Every age of a movement is announced when the movement exceeds it, and  *)
(* the movement is forgotten after the last.                               *)
THEOREM AgesAlwaysAnnouncedOnTime == Spec => []AgesAnnouncedOnTime
BY AgesInductive, PTL

(* An age is due in a tick exactly when the movement exceeds it in that    *)
(* tick.                                                                   *)
LEMMA DueWhenExceeded ==
  ASSUME TimesOK, AgesAnnouncedOnTime, last_movement > 0, NEW gap \in Gaps,
         ts' = ts + gap, NEW k \in 1 .. 4
  PROVE  Due(k, ts' - last_movement) <=> Exceeded(k)
<1>1. FadeAfter[k] \in Nat /\ FadeAfter[4] \in Nat /\ gap \in Nat
  BY MovementAssumption
<1>2. CASE k = 4
  BY <1>1, <1>2 DEF Due, Exceeded, TimesOK, AgesAnnouncedOnTime
<1>3. CASE k # 4
  <2>1. k \in Stages
    BY <1>3 DEF Stages
  <2>2. last_movementN[k] = 0 <=> ts - last_movement > FadeAfter[k]
    BY <2>1 DEF AgesAnnouncedOnTime, Announced
  <2>3. last_movementN[k] \in Nat
    BY <2>1 DEF TimesOK
  <2> QED
    BY <1>1, <1>3, <2>2, <2>3 DEF Due, Exceeded, TimesOK
<1> QED
  BY <1>2, <1>3

(* A movement that is no longer announced as new is told of once per age,  *)
(* in the tick that sees it exceed the age.                                *)
THEOREM AgesAlwaysToldOnce == Spec => EachAgeToldOnce
<1> DEFINE Inv == TimesOK /\ AgesAnnouncedOnTime
           Told == ts' # ts /\ last_movement > 0 /\ last_movement' \in {0, last_movement}
                     => (published' # <<>> <=> \E k \in 1 .. 4 : Exceeded(k))
<1>1. Spec => []Inv
  BY AgesInductive
<1>2. Inv /\ [Next]_vars => [Told]_vars
  <2> SUFFICES ASSUME Inv, Next, ts' # ts, last_movement > 0,
                      last_movement' \in {0, last_movement}
               PROVE  published' # <<>> <=> \E k \in 1 .. 4 : Exceeded(k)
    BY DEF vars
  <2>1. PICK gap \in Gaps : Tick(gap)
    BY DEF Next, MovementSensorUpdate
  <2>2. ts' = ts + gap /\ gap \in Nat /\ gap > 0
    BY <2>1, MovementAssumption DEF Tick
  <2>3. Fade(ts')
    BY <2>1, <2>2 DEF Tick, ReallyMoving, TimesOK
  <2>4. \A k \in 1 .. 4 : Due(k, ts' - last_movement) <=> Exceeded(k)
    BY <2>2, DueWhenExceeded
  <2>5. ts' - last_movement < Horizon
    BY <2>2, GapAssumption, MovementAssumption DEF TimesOK, AgesAnnouncedOnTime
  <2>6. CASE \E k \in 1 .. 4 : Exceeded(k)
    <3>1. published' = <<[Movement |-> TRUE,
                          Confidence |-> FadeConfidence[CHOOSE k \in {k \in 1 .. 4 : Due(k, ts' - last_movement)} :
                             \A j \in {i \in 1 .. 4 : Due(i, ts' - last_movement)} : j <= k],
                          Ts |-> ts']>>
      BY <2>3, <2>4, <2>5, <2>6 DEF Fade
    <3> QED
      BY <2>6, <3>1
  <2>7. CASE ~\E k \in 1 .. 4 : Exceeded(k)
    BY <2>3, <2>4, <2>7 DEF Fade
  <2> QED
    BY <2>6, <2>7
<1> QED
  BY <1>1, <1>2, PTL DEF Spec, EachAgeToldOnce
-----------------------------------------------------------------------------
(* Between two ticks the ring holds counts only in the slot of the running *)
(* interval and in the one before it.                                      *)
RingHoldsTwoIntervals ==
  \A s \in Slots \ {current, Prev(current)} : movement_window[s] = 0

(* However many slots the ring has, it remembers two intervals: the tick   *)
(* clears the slot of the interval before the one that ends.               *)
LEMMA RingTyped == Spec => [](RingOK /\ RingHoldsTwoIntervals)
<1> DEFINE Inv == RingOK /\ RingHoldsTwoIntervals
<1>1. Init => Inv
  BY MovementAssumption DEF Init, RingOK, RingHoldsTwoIntervals, Slots
<1>2. Inv /\ [Next]_vars => Inv'
  <2> SUFFICES ASSUME RingOK, RingHoldsTwoIntervals, [Next]_vars
               PROVE  Inv'
    OBVIOUS
  <2>1. CASE MovementSensorUpdate
    BY <2>1 DEF MovementSensorUpdate, RingOK, RingHoldsTwoIntervals
  <2>2. ASSUME NEW gap \in Gaps, Tick(gap)
        PROVE  Inv'
    <3>1. /\ movement_window' = [movement_window EXCEPT ![Prev(current)] = 0]
          /\ current' = Succ(current)
      BY <2>2 DEF Tick, Cleared
    <3>2. /\ Prev(current) \in Slots /\ Succ(current) \in Slots
          /\ Prev(current') = current
      BY <3>1, Neighbours DEF RingOK
    <3>3. RingOK'
      BY <3>1, <3>2 DEF RingOK
    <3>4. ASSUME NEW s \in Slots \ {current', Prev(current')}
          PROVE  movement_window'[s] = 0
      BY <3>1, <3>2, <3>4 DEF RingOK, RingHoldsTwoIntervals
    <3> QED
      BY <3>3, <3>4 DEF RingHoldsTwoIntervals
  <2>3. CASE UNCHANGED vars
    BY <2>3 DEF vars, RingOK, RingHoldsTwoIntervals, Prev
  <2> QED
    BY <2>1, <2>2, <2>3 DEF Next
<1> QED
  BY <1>1, <1>2, PTL DEF Spec
-----------------------------------------------------------------------------
(* What the ring adds up to *)

(* sum maps each subset of S to what its counts add up to, in the order in *)
(* which the fold takes them.                                              *)
Adds(sum, S, counts) ==
  sum = [s \in SUBSET S |->
           IF s = {} THEN 0
           ELSE counts[CHOOSE x \in s : TRUE] + sum[s \ {CHOOSE x \in s : TRUE}]]

LEMMA TotalIsASum ==
  ASSUME NEW counts
  PROVE  Total(counts) = (CHOOSE sum : Adds(sum, DOMAIN counts, counts))[DOMAIN counts]
BY DEF Total, FoldFunction, FoldFunctionOnSet, MapThenFoldSet, Adds

(* Two sums agree: there is no smallest set on which they differ. *)
LEMMA SumsAgree ==
  ASSUME NEW S, IsFiniteSet(S), NEW counts, NEW g, NEW h,
         Adds(g, S, counts), Adds(h, S, counts)
  PROVE  g = h
<1> DEFINE T == {s \in SUBSET S : g[s] # h[s]}
<1>1. SUFFICES ASSUME T # {} PROVE FALSE
  BY DEF Adds
<1>2. IsWellFoundedOn(StrictSubsetOrdering(S), SUBSET S)
  BY FS_StrictSubsetOrderingWellFounded, FS_FiniteSubsetsOfFinite
<1>3. PICK s \in T : \A t \in T : ~(<<t, s>> \in StrictSubsetOrdering(S))
  <2> HIDE DEF T
  <2>1. T \subseteq SUBSET S
    BY DEF T
  <2> QED
    BY <1>1, <1>2, <2>1, WFMin
<1> DEFINE x == CHOOSE x \in s : TRUE
<1>4. s # {}
  BY DEF Adds
<1>5. x \in s
  BY <1>4
<1>6. s \ {x} \in SUBSET S /\ s \ {x} # s /\ s \ {x} \subseteq s
  BY <1>5
<1>7. <<s \ {x}, s>> \in StrictSubsetOrdering(S)
  BY <1>6 DEF StrictSubsetOrdering
<1>8. g[s \ {x}] = h[s \ {x}]
  BY <1>3, <1>6, <1>7
<1>9. g[s] = counts[x] + g[s \ {x}] /\ h[s] = counts[x] + h[s \ {x}]
  BY <1>4 DEF Adds
<1> QED
  BY <1>8, <1>9

(* When all counts but one are 0 the total is that one. *)
LEMMA TotalOfOne ==
  ASSUME NEW S, IsFiniteSet(S), NEW counts \in [S -> Nat], NEW c \in S,
         \A x \in S \ {c} : counts[x] = 0
  PROVE  Total(counts) = counts[c]
<1> DEFINE h == [s \in SUBSET S |-> IF c \in s THEN counts[c] ELSE 0]
<1>1. Adds(h, S, counts)
  <2>1. ASSUME NEW s \in SUBSET S
        PROVE  h[s] = IF s = {} THEN 0
                      ELSE counts[CHOOSE x \in s : TRUE] + h[s \ {CHOOSE x \in s : TRUE}]
    <3>1. CASE s = {}
      BY <3>1
    <3>2. CASE s # {}
      <4> DEFINE x == CHOOSE x \in s : TRUE
      <4>1. x \in s
        BY <3>2
      <4>2. s \ {x} \in SUBSET S /\ counts[x] \in Nat /\ counts[c] \in Nat
        BY <4>1
      <4> HIDE DEF x
      <4>3. h[s] = counts[x] + h[s \ {x}]
        BY <4>1, <4>2
      <4> QED
        BY <3>2, <4>3 DEF x
    <3> QED
      BY <3>1, <3>2
  <2> QED
    BY <2>1 DEF Adds
<1>2. h = CHOOSE sum : Adds(sum, S, counts)
  <2> HIDE DEF h
  <2> QED
    BY <1>1, SumsAgree
<1>3. h[S] = counts[c]
  OBVIOUS
<1> QED
  BY <1>2, <1>3, TotalIsASum
-----------------------------------------------------------------------------
(* The running interval's slot holds the running interval's count. *)
RingCounts ==
  /\ recent \in [1 .. Granularity -> Nat]
  /\ movement_window[current] = recent[1]

RingInv == RingOK /\ RingHoldsTwoIntervals /\ RingCounts

LEMMA RingInductive == Spec => []RingInv
<1>1. Init => RingCounts
  BY MovementAssumption DEF Init, RingCounts, Slots
<1>2. RingOK /\ RingHoldsTwoIntervals /\ RingCounts /\ [Next]_vars => RingCounts'
  <2> SUFFICES ASSUME RingOK, RingHoldsTwoIntervals, RingCounts, [Next]_vars
               PROVE  RingCounts'
    OBVIOUS
  <2>1. CASE MovementSensorUpdate
    BY <2>1, MovementAssumption DEF MovementSensorUpdate, RingOK, RingCounts
  <2>2. ASSUME NEW gap \in Gaps, Tick(gap)
        PROVE  RingCounts'
    <3>1. /\ movement_window' = [movement_window EXCEPT ![Prev(current)] = 0]
          /\ current' = Succ(current)
          /\ recent' = [i \in 1 .. Granularity |-> IF i = 1 THEN 0 ELSE recent[i - 1]]
      BY <2>2 DEF Tick, Cleared
    <3>2. Succ(current) \in Slots /\ Succ(current) # current
      BY MovementAssumption DEF RingOK, Slots, Succ
    <3>3. movement_window'[Succ(current)] = 0
      BY <3>1, <3>2 DEF RingOK, RingHoldsTwoIntervals
    <3>4. recent' \in [1 .. Granularity -> Nat] /\ recent'[1] = 0
      BY <3>1, MovementAssumption DEF RingCounts
    <3> QED
      BY <3>1, <3>3, <3>4 DEF RingCounts
  <2>3. CASE UNCHANGED vars
    BY <2>3 DEF vars, RingCounts
  <2> QED
    BY <2>1, <2>2, <2>3 DEF Next
<1> QED
  BY <1>1, <1>2, RingTyped, PTL DEF Spec, RingInv

(* In a reachable state the ring adds up to the running interval's count. *)
LEMMA RingAddsUp ==
  ASSUME RingInv
  PROVE  Total(Cleared) = recent[1] /\ recent[1] \in Nat
<1>1. Prev(current) \in Slots /\ Prev(current) # current
  BY MovementAssumption DEF RingInv, RingOK, Slots, Prev
<1>2. Cleared \in [Slots -> Nat] /\ Cleared[current] = movement_window[current]
  BY <1>1 DEF RingInv, RingOK, Cleared
<1>3. \A s \in Slots \ {current} : Cleared[s] = 0
  BY <1>1 DEF RingInv, RingOK, RingHoldsTwoIntervals, Cleared
<1>4. IsFiniteSet(Slots)
  BY FS_Interval, MovementAssumption DEF Slots
<1>5. Total(Cleared) = Cleared[current]
  BY <1>2, <1>3, <1>4, TotalOfOne DEF RingInv, RingOK
<1> QED
  BY <1>2, <1>5, MovementAssumption DEF RingInv, RingCounts

(* What adds up a set adds up its subsets. *)
LEMMA SumRestricts ==
  ASSUME NEW S, NEW counts, NEW g, Adds(g, S, counts), NEW T \in SUBSET S
  PROVE  Adds([s \in SUBSET T |-> g[s]], T, counts)
<1> DEFINE h == [s \in SUBSET T |-> g[s]]
<1>1. ASSUME NEW s \in SUBSET T
      PROVE  h[s] = IF s = {} THEN 0
                    ELSE counts[CHOOSE x \in s : TRUE] + h[s \ {CHOOSE x \in s : TRUE}]
  <2>1. s \in SUBSET S /\ s \ {CHOOSE x \in s : TRUE} \in SUBSET T
    OBVIOUS
  <2>2. g[s] = IF s = {} THEN 0
               ELSE counts[CHOOSE x \in s : TRUE] + g[s \ {CHOOSE x \in s : TRUE}]
    BY <2>1 DEF Adds
  <2> QED
    BY <2>1, <2>2
<1> QED
  BY <1>1 DEF Adds

(* Every finite set can be added up: there is no smallest one that cannot, *)
(* because the sums of its proper subsets make up its own.                 *)
LEMMA SumExists ==
  ASSUME NEW S, IsFiniteSet(S), NEW counts
  PROVE  \E g : Adds(g, S, counts)
<1> DEFINE Bad == {t \in SUBSET S : ~\E g : Adds(g, t, counts)}
           Best(t) == CHOOSE g : Adds(g, t, counts)
<1>1. SUFFICES ASSUME Bad # {} PROVE FALSE
  OBVIOUS
<1>2. IsWellFoundedOn(StrictSubsetOrdering(S), SUBSET S)
  BY FS_StrictSubsetOrderingWellFounded, FS_FiniteSubsetsOfFinite
<1>3. PICK T \in Bad : \A t \in Bad : ~(<<t, T>> \in StrictSubsetOrdering(S))
  <2>1. Bad \subseteq SUBSET S
    OBVIOUS
  <2> HIDE DEF Bad
  <2> QED
    BY <1>1, <1>2, <2>1, WFMin
<1>4. ASSUME NEW t \in SUBSET T, t # T
      PROVE  Adds(Best(t), t, counts)
  <2>1. t \in SUBSET S /\ <<t, T>> \in StrictSubsetOrdering(S)
    BY <1>4 DEF StrictSubsetOrdering
  <2>2. t \notin Bad
    BY <1>3, <2>1
  <2>3. \E g : Adds(g, t, counts)
    BY <2>1, <2>2
  <2> QED
    BY <2>3
<1> DEFINE first(s) == CHOOSE x \in s : TRUE
           G == [s \in SUBSET T |->
                   IF s # T THEN Best(s)[s]
                   ELSE IF s = {} THEN 0
                   ELSE counts[first(s)] + Best(s \ {first(s)})[s \ {first(s)}]]
<1> HIDE DEF Best, Bad
<1>5. ASSUME NEW s \in SUBSET T
      PROVE  G[s] = IF s = {} THEN 0 ELSE counts[first(s)] + G[s \ {first(s)}]
  <2>1. CASE s = {}
    <3>1. CASE s = T
      BY <2>1, <3>1
    <3>2. CASE s # T
      <4>1. Adds(Best(s), s, counts)
        BY <1>4, <3>2
      <4>2. Best(s)[s] = 0
        BY <2>1, <4>1 DEF Adds
      <4> QED
        BY <2>1, <3>2, <4>2
    <3> QED
      BY <3>1, <3>2
  <2>2. CASE s # {}
    <3>1. first(s) \in s
      BY <2>2
    <3> DEFINE r == s \ {first(s)}
    <3>2. r \in SUBSET T /\ r # T /\ r \in SUBSET s
      BY <3>1
    <3>3. G[r] = Best(r)[r]
      BY <3>2
    <3>4. CASE s = T
      BY <2>2, <3>3, <3>4
    <3>5. CASE s # T
      <4>1. Adds(Best(s), s, counts) /\ Adds(Best(r), r, counts)
        BY <1>4, <3>2, <3>5
      <4>2. Adds([u \in SUBSET r |-> Best(s)[u]], r, counts)
        BY <3>2, <4>1, SumRestricts
      <4>3. IsFiniteSet(r)
        <5>1. T \in SUBSET S
          BY DEF Bad
        <5> QED
          BY <3>2, <5>1, FS_Subset
      <4>4. [u \in SUBSET r |-> Best(s)[u]] = Best(r)
        BY <4>1, <4>2, <4>3, SumsAgree
      <4>5. Best(s)[r] = Best(r)[r]
        BY <4>4
      <4>6. Best(s)[s] = counts[first(s)] + Best(s)[r]
        BY <2>2, <4>1 DEF Adds
      <4> QED
        BY <2>2, <3>3, <3>5, <4>5, <4>6
    <3> QED
      BY <3>4, <3>5
  <2> QED
    BY <2>1, <2>2
<1>6. Adds(G, T, counts)
  <2>1. G = [s \in SUBSET T |-> G[s]]
    OBVIOUS
  <2> HIDE DEF G
  <2> QED
    BY <1>5, <2>1 DEF Adds
<1> QED
  BY <1>3, <1>6 DEF Bad

(* A total is at least each of its counts. *)
LEMMA TotalAtLeast ==
  ASSUME NEW S, IsFiniteSet(S), NEW counts \in [S -> Nat], NEW c \in S
  PROVE  Total(counts) \in Nat /\ Total(counts) >= counts[c]
<1>1. PICK g : g = (CHOOSE sum : Adds(sum, S, counts)) /\ Adds(g, S, counts)
  BY SumExists
<1>2. Total(counts) = g[S]
  BY <1>1, TotalIsASum
<1> DEFINE Bad == {s \in SUBSET S : ~(g[s] \in Nat /\ \A x \in s : g[s] >= counts[x])}
<1>3. SUFFICES ASSUME Bad # {} PROVE FALSE
  BY <1>2
<1>4. IsWellFoundedOn(StrictSubsetOrdering(S), SUBSET S)
  BY FS_StrictSubsetOrderingWellFounded, FS_FiniteSubsetsOfFinite
<1>5. PICK s \in Bad : \A t \in Bad : ~(<<t, s>> \in StrictSubsetOrdering(S))
  <2>1. Bad \subseteq SUBSET S
    OBVIOUS
  <2> HIDE DEF Bad
  <2> QED
    BY <1>3, <1>4, <2>1, WFMin
<1> DEFINE x == CHOOSE x \in s : TRUE
           r == s \ {x}
<1>6. s # {}
  <2>1. {} \in SUBSET S /\ g[{}] = 0
    BY <1>1 DEF Adds
  <2>2. {} \notin Bad
    BY <2>1
  <2> HIDE DEF Bad
  <2> QED
    BY <1>5, <2>2
<1>7. x \in s /\ counts[x] \in Nat
  BY <1>6
<1>8. r \in SUBSET S /\ <<r, s>> \in StrictSubsetOrdering(S)
  BY <1>7 DEF StrictSubsetOrdering
<1>9. g[r] \in Nat /\ \A y \in r : g[r] >= counts[y]
  BY <1>5, <1>8
<1>10. g[s] = counts[x] + g[r]
  BY <1>1, <1>6 DEF Adds
<1>11. g[s] \in Nat /\ \A y \in s : g[s] >= counts[y]
  <2> HIDE DEF x
  <2>1. \A y \in s : counts[y] \in Nat
    OBVIOUS
  <2> QED
    BY <1>7, <1>9, <1>10, <2>1
<1> QED
  BY <1>5, <1>11

(* However many slots the ring has, a tick judges the movements of the     *)
(* interval it ends: the code publishes less often than its comment says   *)
(* (WholeWindowIsJudged), never more often.                                *)
THEOREM AlwaysJudgedOnMovements == Spec => JudgedOnMovements
<1> DEFINE Judged == ts' # ts /\ last_movement' = ts' => Total(recent) > Threshold
<1>1. RingInv /\ TimesOK /\ [Next]_vars => [Judged]_vars
  <2> SUFFICES ASSUME RingInv, TimesOK, Next, ts' # ts, last_movement' = ts'
               PROVE  Total(recent) > Threshold
    BY DEF vars
  <2>1. PICK gap \in Gaps : Tick(gap)
    BY DEF Next, MovementSensorUpdate
  <2>2. ts' = ts + gap /\ gap \in Nat /\ gap > 0
    BY <2>1, MovementAssumption DEF Tick
  <2>3. Total(Cleared) = recent[1] /\ recent[1] \in Nat
    BY RingAddsUp
  <2>4. recent[1] > Threshold
    <3>1. SUFFICES ASSUME ~(recent[1] > Threshold) PROVE FALSE
      OBVIOUS
    <3>2. Fade(ts')
      BY <2>1, <2>2, <2>3, <3>1 DEF Tick
    <3>3. last_movement' \in {0, last_movement}
      BY <3>2 DEF Fade
    <3> QED
      BY <2>2, <3>3 DEF TimesOK
  <2>5. Total(recent) \in Nat /\ Total(recent) >= recent[1]
    <3>1. recent \in [1 .. Granularity -> Nat] /\ 1 \in 1 .. Granularity
      BY MovementAssumption DEF RingInv, RingCounts
    <3>2. IsFiniteSet(1 .. Granularity)
      BY FS_Interval, MovementAssumption
    <3> QED
      BY <3>1, <3>2, TotalAtLeast
  <2> QED
    BY <2>3, <2>4, <2>5, MovementAssumption
<1> QED
  BY <1>1, RingInductive, AgesInductive, PTL DEF Spec, JudgedOnMovements
-----------------------------------------------------------------------------
(* Every message is a well-formed one: the confidence is a number because  *)
(* the ring adds up, and the announced age is one of the four.             *)
PublishedOK == published \in Seq(Messages)

LEMMA PublishedStep ==
  ASSUME RingInv, TimesOK, PublishedOK, [Next]_vars
  PROVE  PublishedOK'
<1>1. CASE MovementSensorUpdate
  BY <1>1 DEF MovementSensorUpdate, PublishedOK
<1>2. ASSUME NEW gap \in Gaps, Tick(gap)
      PROVE  PublishedOK'
  <2>1. ts' \in Nat
    BY <1>2, MovementAssumption DEF Tick, TimesOK
  <2>2. CASE ReallyMoving(Total(Cleared), ts')
    <3>1. Total(Cleared) % ConfidenceModulus \in Nat
      BY RingAddsUp, MovementAssumption
    <3> QED
      BY <2>1, <2>2, <3>1 DEF ReallyMoving, PublishedOK, Messages
  <2>3. CASE Fade(ts')
    <3> DEFINE stages == {k \in 1 .. 4 : Due(k, ts' - last_movement)}
               oldest == CHOOSE k \in stages : \A j \in stages : j <= k
    <3>1. \/ published' = <<>>
          \/ /\ stages # {}
             /\ published' = <<[Movement |-> TRUE, Confidence |-> FadeConfidence[oldest],
                                Ts |-> ts']>>
      BY <2>3 DEF Fade
    <3>2. stages # {} => oldest \in stages
      BY OldestExists
    <3> HIDE DEF oldest
    <3>3. oldest \in 1 .. 4 => FadeConfidence[oldest] \in Nat
      <4>1. oldest \in 1 .. 4 <=> oldest \in {1, 2, 3, 4}
        OBVIOUS
      <4> QED
        BY <4>1 DEF FadeConfidence
    <3>4. CASE published' = <<>>
      BY <3>4 DEF PublishedOK
    <3>5. CASE published' # <<>>
      <4> DEFINE message == [Movement |-> TRUE, Confidence |-> FadeConfidence[oldest],
                             Ts |-> ts']
      <4>1. message \in Messages
        BY <2>1, <3>1, <3>2, <3>3, <3>5 DEF Messages
      <4>2. published' = <<message>>
        BY <3>1, <3>5
      <4> HIDE DEF message
      <4> QED
        BY <4>1, <4>2 DEF PublishedOK
    <3> QED
      BY <3>4, <3>5
  <2> QED
    BY <1>2, <2>1, <2>2, <2>3 DEF Tick
<1>3. CASE UNCHANGED vars
  BY <1>3 DEF vars, PublishedOK
<1> QED
  BY <1>1, <1>2, <1>3 DEF Next

(* All variables keep their types, and all messages are well formed. *)
THEOREM TypeCorrect == Spec => []TypeOK
<1>1. Init => PublishedOK
  BY DEF Init, PublishedOK
<1>2. RingInv /\ TimesOK /\ PublishedOK /\ [Next]_vars => PublishedOK'
  BY PublishedStep
<1>3. RingInv /\ TimesOK /\ PublishedOK => TypeOK
  BY DEF RingInv, RingOK, RingCounts, TimesOK, PublishedOK, TypeOK
<1> QED
  BY <1>1, <1>2, <1>3, RingInductive, AgesInductive, PTL DEF Spec
-----------------------------------------------------------------------------
(* main and MovementSum *)

(* What the sum's argument needs to know of the types. *)
EventsOK ==
  /\ events \in Seq(MetaTopics)
  /\ in_hand = Nothing \/ in_hand \in [at : {"event", "topic"}, topic : MetaTopics]
  /\ topic_ctr_map \in [Movements -> Nat \cup {-1}]
  /\ summed \in [Movements -> Nat]
  /\ dispatched \in [MetaTopics -> Nat]

(* What one topic's share of MovementsConserved is. *)
InHand(t)   == IF in_hand = [at |-> "event", topic |-> t] THEN 1 ELSE 0
Counted(t)  == IF t \in Known THEN topic_ctr_map[t] ELSE 0
Conserved(t) ==
  summed[t] + Counted(t) + (Cardinality(Occurrences(events, {t})) + InHand(t)) = dispatched[t]

LEMMA ConservedByTopic == MovementsConserved <=> \A t \in Movements : Conserved(t)
BY DEF MovementsConserved, Conserved, Counted, InHand, Occurrences

LEMMA EventsTyped == EventsSpec => []EventsOK
<1>1. EventsInit => EventsOK
  BY DEF EventsInit, EventsOK, MetaTopics
<1>2. EventsOK /\ [EventsNext]_eventsVars => EventsOK'
  <2> SUFFICES ASSUME EventsOK, [EventsNext]_eventsVars PROVE EventsOK'
    OBVIOUS
  <2> USE DEF EventsOK, mainEventVars, sumVars, lostVars
  <2>1. CASE ReceiveEvent
    <3>1. PICK t \in MetaTopics :
            /\ in_hand' = [at |-> "event", topic |-> t]
            /\ dispatched' = [dispatched EXCEPT ![t] = @ + 1]
      BY <2>1 DEF ReceiveEvent
    <3> QED
      BY <2>1, <3>1 DEF ReceiveEvent
  <2>2. CASE PubEvent
    <3>1. in_hand \in [at : {"event", "topic"}, topic : MetaTopics]
      <4>1. Nothing.at # "event"
        BY DEF Nothing
      <4> QED
        BY <2>2, <4>1 DEF PubEvent
    <3>2. in_hand.topic \in MetaTopics /\ in_hand' = [in_hand EXCEPT !.at = "topic"]
      BY <2>2, <3>1 DEF PubEvent
    <3>3. in_hand' \in [at : {"event", "topic"}, topic : MetaTopics]
      BY <3>1, <3>2
    <3>4. events' \in Seq(MetaTopics)
      BY <2>2, <3>2 DEF PubEvent
    <3> QED
      BY <2>2, <3>3, <3>4 DEF PubEvent
  <2>3. CASE PubTopic
    BY <2>3 DEF PubTopic
  <2>4. CASE CountMovement
    <3>1. events' \in Seq(MetaTopics)
      BY <2>4 DEF CountMovement
    <3>2. topic_ctr_map' \in [Movements -> Nat \cup {-1}]
      <4>1. \A t \in Movements :
              (IF topic_ctr_map[t] = -1 THEN 1 ELSE topic_ctr_map[t] + 1) \in Nat
        OBVIOUS
      <4> QED
        BY <2>4, <4>1 DEF CountMovement
    <3> QED
      BY <2>4, <3>1, <3>2 DEF CountMovement
  <2>5. CASE SumTick
    <3>1. \A t \in Known : topic_ctr_map[t] \in Nat
      BY DEF Known
    <3>2. \A t \in Known : summed[t] + topic_ctr_map[t] \in Nat
      BY <3>1 DEF Known
    <3>3. summed' \in [Movements -> Nat]
      BY <2>5, <3>2 DEF SumTick
    <3>4. topic_ctr_map' \in [Movements -> Nat \cup {-1}]
      BY <2>5 DEF SumTick
    <3> QED
      BY <2>5, <3>3, <3>4 DEF SumTick
  <2>6. CASE SeeTopic \/ LostTick \/ SecondPasses
    BY <2>6 DEF SeeTopic, LostTick, SecondPasses
  <2>7. CASE UNCHANGED eventsVars
    BY <2>7 DEF eventsVars
  <2> QED
    BY <2>1, <2>2, <2>3, <2>4, <2>5, <2>6, <2>7 DEF EventsNext
<1> QED
  BY <1>1, <1>2, PTL DEF EventsSpec

(* What main has put down is no movement. *)
LEMMA NothingInHand ==
  ASSUME NEW t
  PROVE  Nothing # [at |-> "event", topic |-> t]
<1>1. Nothing.at # "event"
  BY DEF Nothing
<1> QED
  BY <1>1

LEMMA ConservedStep ==
  ASSUME EventsOK, EventsOK', NEW t \in Movements, Conserved(t), [EventsNext]_eventsVars
  PROVE  Conserved(t)'
<1> DEFINE places == Cardinality(Occurrences(events, {t}))
<1>1. t \in MetaTopics /\ summed[t] \in Nat /\ topic_ctr_map[t] \in Nat \cup {-1}
  BY DEF EventsOK, MetaTopics
<1>2. Counted(t) \in Nat /\ InHand(t) \in Nat
  BY <1>1 DEF Counted, InHand, Known
<1>3. places \in Nat
  <2>1. CASE events = <<>>
    <3>1. Occurrences(events, {t}) = {}
      BY <2>1 DEF Occurrences
    <3> QED
      BY <3>1, FS_EmptySet
  <2>2. CASE events # <<>>
    BY <2>2, OccursInTail DEF EventsOK
  <2> QED
    BY <2>1, <2>2
<1>4. CASE ReceiveEvent
  <2>1. PICK e \in MetaTopics :
          /\ in_hand' = [at |-> "event", topic |-> e]
          /\ dispatched' = [dispatched EXCEPT ![e] = @ + 1]
    BY <1>4 DEF ReceiveEvent
  <2>2. InHand(t) = 0 /\ InHand(t)' = IF e = t THEN 1 ELSE 0
    BY <1>4, <2>1 DEF ReceiveEvent, InHand
  <2>3. events' = events /\ Counted(t)' = Counted(t) /\ summed' = summed
    BY <1>4 DEF ReceiveEvent, sumVars, Counted, Known
  <2>4. dispatched'[t] = dispatched[t] + (IF e = t THEN 1 ELSE 0)
    BY <1>1, <2>1 DEF EventsOK
  <2> QED
    BY <1>1, <1>2, <1>3, <2>2, <2>3, <2>4 DEF Conserved
<1>5. CASE PubEvent
  <2>1. in_hand \in [at : {"event", "topic"}, topic : MetaTopics] /\ in_hand.at = "event"
    BY <1>5 DEF PubEvent, EventsOK, Nothing
  <2>2. events' = Append(events, in_hand.topic) /\ in_hand'.at = "topic"
    BY <1>5, <2>1 DEF PubEvent
  <2>3. Cardinality(Occurrences(events', {t})) = places + (IF in_hand.topic = t THEN 1 ELSE 0)
    BY <2>1, <2>2, OccursInAppend DEF EventsOK
  <2>4. InHand(t) = (IF in_hand.topic = t THEN 1 ELSE 0) /\ InHand(t)' = 0
    BY <2>1, <2>2 DEF InHand
  <2>5. Counted(t)' = Counted(t) /\ summed' = summed /\ dispatched' = dispatched
    BY <1>5 DEF PubEvent, sumVars, Counted, Known
  <2> QED
    BY <1>1, <1>2, <1>3, <2>3, <2>4, <2>5 DEF Conserved
<1>6. CASE PubTopic
  <2>1. InHand(t) = 0 /\ InHand(t)' = 0
    BY <1>6, NothingInHand DEF PubTopic, InHand
  <2> QED
    BY <1>6, <2>1 DEF PubTopic, sumVars, Counted, Known, Conserved
<1>7. CASE CountMovement
  <2>1. events # <<>> /\ events' = Tail(events)
    BY <1>7 DEF CountMovement
  <2>2. /\ Cardinality(Occurrences(events', {t})) \in Nat
        /\ places = Cardinality(Occurrences(events', {t})) + (IF Head(events) = t THEN 1 ELSE 0)
    BY <2>1, OccursInTail DEF EventsOK
  <2>3. Counted(t)' = Counted(t) + (IF Head(events) = t THEN 1 ELSE 0)
    <3>1. CASE Head(events) = t
      <4>1. topic_ctr_map'[t] = IF topic_ctr_map[t] = -1 THEN 1 ELSE topic_ctr_map[t] + 1
        BY <1>7, <3>1 DEF CountMovement, EventsOK
      <4> QED
        BY <1>1, <3>1, <4>1 DEF Counted, Known
    <3>2. CASE Head(events) # t
      <4>1. topic_ctr_map'[t] = topic_ctr_map[t]
        BY <1>7, <3>2 DEF CountMovement, EventsOK
      <4> QED
        BY <1>1, <3>2, <4>1 DEF Counted, Known
    <3> QED
      BY <3>1, <3>2
  <2>4. InHand(t)' = InHand(t) /\ summed' = summed /\ dispatched' = dispatched
    BY <1>7 DEF CountMovement, mainEventVars, InHand
  <2> QED
    BY <1>1, <1>2, <1>3, <2>2, <2>3, <2>4 DEF Conserved
<1>8. CASE SumTick
  <2>1. summed'[t] = summed[t] + Counted(t) /\ Counted(t)' = 0
    BY <1>1, <1>8 DEF SumTick, Counted, Known
  <2>2. InHand(t)' = InHand(t) /\ events' = events /\ dispatched' = dispatched
    BY <1>8 DEF SumTick, mainEventVars, InHand
  <2> QED
    BY <1>1, <1>2, <1>3, <2>1, <2>2 DEF Conserved
<1>9. CASE SeeTopic \/ LostTick \/ SecondPasses \/ UNCHANGED eventsVars
  BY <1>9 DEF SeeTopic, LostTick, SecondPasses, eventsVars, mainEventVars, sumVars,
              Conserved, Counted, Known, InHand
<1> QED
  BY <1>4, <1>5, <1>6, <1>7, <1>8, <1>9 DEF EventsNext

(* However many sensors there are, whatever the channels hold and whenever *)
(* the ticker comes, each movement is counted and told once.               *)
THEOREM MovementsAlwaysConserved == EventsSpec => []MovementsConserved
<1> DEFINE Inv == \A t \in Movements : Conserved(t)
<1>1. EventsInit => Inv
  <2> SUFFICES ASSUME EventsInit, NEW t \in Movements PROVE Conserved(t)
    OBVIOUS
  <2>1. Occurrences(events, {t}) = {}
    BY DEF EventsInit, Occurrences
  <2>2. Cardinality(Occurrences(events, {t})) = 0
    BY <2>1, FS_EmptySet
  <2> QED
    BY <2>2, NothingInHand DEF EventsInit, Conserved, Counted, Known, InHand, MetaTopics
<1>2. Inv /\ EventsOK /\ EventsOK' /\ [EventsNext]_eventsVars => Inv'
  BY ConservedStep
<1>3. Inv => MovementsConserved
  BY ConservedByTopic
<1> QED
  BY <1>1, <1>2, <1>3, EventsTyped, PTL DEF EventsSpec
-----------------------------------------------------------------------------
(* SensorLost *)

(* The records of the monitored topics stay as they began, because the     *)
(* routine changes copies of them; so no loss is ever announced, however   *)
(* many messages come and however long they fail to.                       *)
THEOREM NoSensorIsEverLost == EventsSpec => [](lost = {})
<1> DEFINE Inv == lost = {} /\ topicData = [t \in Monitored |-> NotSeen]
<1>1. EventsInit => Inv
  BY DEF EventsInit
<1>2. Inv /\ [EventsNext]_eventsVars => Inv'
  <2> SUFFICES ASSUME Inv, [EventsNext]_eventsVars PROVE Inv'
    OBVIOUS
  <2>1. CASE LostTick
    <3>1. \A t \in Monitored : topicData[t].num_seen = 0
      BY DEF NotSeen
    <3>2. ~(0 >= SeenEnough)
      BY EventsAssumption
    <3>3. {t \in Monitored : IsLost(topicData[t], second)} = {}
      BY <3>1, <3>2 DEF IsLost
    <3>4. lost' = {}
      BY <2>1, <3>3 DEF LostTick
    <3> QED
      BY <2>1, <3>4 DEF LostTick
  <2>2. CASE ReceiveEvent \/ PubEvent \/ PubTopic
    BY <2>2 DEF ReceiveEvent, PubEvent, PubTopic, lostVars
  <2>3. CASE CountMovement \/ SumTick
    BY <2>3 DEF CountMovement, SumTick, lostVars
  <2>4. CASE SeeTopic \/ SecondPasses \/ UNCHANGED eventsVars
    BY <2>4 DEF SeeTopic, SecondPasses, eventsVars, lostVars
  <2> QED
    BY <2>1, <2>2, <2>3, <2>4 DEF EventsNext
<1>3. Inv => lost = {}
  OBVIOUS
<1> QED
  BY <1>1, <1>2, <1>3, PTL DEF EventsSpec
=============================================================================
