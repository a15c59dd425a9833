---------------------------- MODULE MetaMovement ----------------------------
(***************************************************************************)
(* MetaEventRoutine_Movement of r3-metaevt-maker: counts the movement      *)
(* sensor events in a ring of slots, judges the ring at each tick and      *)
(* publishes SomethingReallyIsMoving, either because the count exceeded    *)
(* the threshold or because the last such judgement has become so old.     *)
(*                                                                         *)
(* The event and the tick are the two cases of the routine's select.  A    *)
(* ticker drops ticks that nobody takes, so the time between two handled   *)
(* ticks is any of Gaps.  A slot that was never counted in (nil) adds      *)
(* nothing to the sum and is modelled as 0.                                *)
(***************************************************************************)
EXTENDS Integers, Sequences, Functions

CONSTANTS
  Granularity,         \* the ring has Granularity + 1 slots (10)
  Gaps,                \* seconds between two handled ticks (gran_duration, 20)
  Threshold,           \* movements that must be exceeded (10)
  ConfidenceModulus,   \* confidence is a uint8 (256)
  FadeAfter,           \* ages that are announced (120, 1800, 3600, 10800)
  Horizon,             \* age from which nothing is announced any more (21600)
  FirstTick            \* time before the first tick

Slots == 0 .. Granularity
Stages == 1 .. 3          \* the announced ages that last_movement1 to 3 guard
FadeConfidence == <<5, 20, 50, 99>>

ASSUME MovementAssumption ==
  /\ Granularity \in Nat \ {0}
  /\ Gaps \subseteq Nat \ {0}
  /\ Threshold \in Nat
  /\ ConfidenceModulus \in Nat \ {0}
  /\ FadeAfter \in [1 .. 4 -> Nat]
  /\ Horizon \in Nat
  /\ FirstTick \in Nat

(* Handled ticks are never further apart than two announced ages. *)
ASSUME GapAssumption ==
  \A g \in Gaps :
    /\ g <= FadeAfter[1]
    /\ FadeAfter[1] + g <= FadeAfter[2]
    /\ FadeAfter[2] + g <= FadeAfter[3]
    /\ FadeAfter[3] + g <= FadeAfter[4]
    /\ FadeAfter[4] + g < Horizon

VARIABLES
  movement_window,     \* the ring's counts
  current,             \* the slot the routine points at
  ts,                  \* time of the last handled tick
  last_movement,       \* time of the last movement announced, 0 for none
  last_movementN,      \* last_movement1, 2 and 3: 0 once that age is announced
  published,           \* the messages the last step published
  recent               \* history: the counts of the window's intervals, this one first

vars == <<movement_window, current, ts, last_movement, last_movementN, published, recent>>

Messages == [Movement : BOOLEAN, Confidence : Nat, Ts : Nat]

TypeOK ==
  /\ movement_window \in [Slots -> Nat]
  /\ current \in Slots
  /\ ts \in Nat
  /\ last_movement \in Nat
  /\ last_movementN \in [Stages -> Nat]
  /\ published \in Seq(Messages)
  /\ recent \in [1 .. Granularity -> Nat]

Init ==
  /\ movement_window = [s \in Slots |-> 0]
  /\ current = 0
  /\ ts = FirstTick
  /\ last_movement = 0
  /\ last_movementN = [k \in Stages |-> 0]
  /\ published = <<>>
  /\ recent = [i \in 1 .. Granularity |-> 0]
-----------------------------------------------------------------------------
Total(counts) == FoldFunction(+, 0, counts)

(* Mutant: the ring does not close. *)
SuccOpen(s) == s + 1

Prev(s) == IF s = 0 THEN Granularity ELSE s - 1
Succ(s) == IF s = Granularity THEN 0 ELSE s + 1

(* A MovementSensorUpdate. *)
MovementSensorUpdate ==
  /\ movement_window' = [movement_window EXCEPT ![current] = @ + 1]
  /\ published' = <<>>
  /\ recent' = [recent EXCEPT ![1] = @ + 1]
  /\ UNCHANGED <<current, ts, last_movement, last_movementN>>

(* Mutant: no slot is ever cleared. *)
ClearedNone == movement_window

(* The ring the tick judges: the slot before the running one is cleared,   *)
(* not the one that is entered.                                            *)
Cleared == [movement_window EXCEPT ![Prev(current)] = 0]

(* Mutant: an age is announced again at each tick. *)
DueAgain(k, age) == age > FadeAfter[k]

(* Mutant: an age is announced a second early. *)
DueEarly(k, age) == age >= FadeAfter[k] /\ (k = 4 \/ last_movementN[k] > 0)

(* The age is announced unless it was before; the last one ends the story. *)
Due(k, age) == age > FadeAfter[k] /\ (k = 4 \/ last_movementN[k] > 0)

(* A movement judgement, which starts the announcements of its age anew. *)
ReallyMoving(movsum, now) ==
  /\ last_movement' = now
  /\ last_movementN' = [k \in Stages |-> now]
  /\ published' = <<[Movement |-> TRUE, Confidence |-> movsum % ConfidenceModulus,
                     Ts |-> now]>>

(* The oldest age that is due is announced, with Movement set. *)
Fade(now) ==
  LET age    == now - last_movement
      stages == {k \in 1 .. 4 : Due(k, age)}
      oldest == CHOOSE k \in stages : \A j \in stages : j <= k
  IN  IF last_movement > 0 /\ age < Horizon /\ stages # {}
      THEN /\ last_movement' = IF oldest = 4 THEN 0 ELSE last_movement
           /\ last_movementN' = [k \in Stages |-> IF k = oldest THEN 0 ELSE last_movementN[k]]
           /\ published' = <<[Movement |-> TRUE, Confidence |-> FadeConfidence[oldest],
                              Ts |-> now]>>
      ELSE /\ published' = <<>>
           /\ UNCHANGED <<last_movement, last_movementN>>

(* Of the two parts of the tick's handler the second never follows the     *)
(* first: the age of a movement judged in this tick is 0.                  *)
Tick(gap) ==
  /\ ts' = ts + gap
  /\ movement_window' = Cleared
  /\ current' = Succ(current)
  /\ recent' = [i \in 1 .. Granularity |-> IF i = 1 THEN 0 ELSE recent[i - 1]]
  /\ IF Total(Cleared) > Threshold
     THEN ReallyMoving(Total(Cleared), ts')
     ELSE Fade(ts')

Next == MovementSensorUpdate \/ \E gap \in Gaps : Tick(gap)

Spec == Init /\ [][Next]_vars
-----------------------------------------------------------------------------
Announced(k) == last_movementN[k] = 0

(* At every moment exactly those ages are announced that the last judged   *)
(* movement has exceeded at the last tick: none early, none late, none     *)
(* skipped, whatever the order of the cascaded conditions; and a movement  *)
(* older than the last age is forgotten.                                   *)
AgesAnnouncedOnTime ==
  last_movement > 0 =>
    /\ ts - last_movement <= FadeAfter[4]
    /\ \A k \in Stages : Announced(k) <=> ts - last_movement > FadeAfter[k]

(* A tick that judges no new movement publishes if, and only if, the last  *)
(* one has exceeded another age since the tick before: nothing is told     *)
(* twice and no tick passes over an age in silence.                        *)
Exceeded(k) ==
  ts - last_movement <= FadeAfter[k] /\ ts' - last_movement > FadeAfter[k]

EachAgeToldOnce ==
  [][ts' # ts /\ last_movement > 0 /\ last_movement' \in {0, last_movement}
       => (published' # <<>> <=> \E k \in 1 .. 4 : Exceeded(k))]_vars

(* Movement is published only on the evidence of movements: more of them   *)
(* than the threshold came in the Granularity intervals that the routine's *)
(* comment (metamovement.go:16) speaks of.  No count that has left the     *)
(* window is ever added to those in it.                                    *)
JudgedOnMovements ==
  [][ts' # ts /\ last_movement' = ts' => Total(recent) > Threshold]_vars

(* The other direction of that comment, "threshold number of movements     *)
(* within gran_duration*granularity seconds -> SomethingReallyIsMoving":   *)
(* a tick judges all the intervals of the window.                          *)
WholeWindowIsJudged ==
  [][ts' # ts /\ Total(recent) > Threshold => last_movement' = ts']_vars
=============================================================================
