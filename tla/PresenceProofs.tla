--------------------------- MODULE PresenceProofs ---------------------------
(***************************************************************************)
(* Proofs about the presence routine for every set of stamps and every     *)
(* value of the timeouts.  Every handler ends in Decide or in Continue, so *)
(* the proofs rest on one lemma for each: what a decision establishes from *)
(* well-typed evidence, and when continuing early may keep the old one.    *)
(***************************************************************************)
EXTENDS Presence, TLAPS

(* The type of the evidence, apart from that of the decision. *)
EvidenceOK ==
  /\ last_door_cmd \in Commands \cup {NoCommand}
  /\ last_event_indicating_presence \in Stamps \cup {0}
  /\ last_manual_lockhandling \in Stamps \cup {0}
  /\ locked \in [Doors -> BOOLEAN]
  /\ lock_use_ts \in Stamps \cup {0}
  /\ shut \in [Doors -> BOOLEAN]

DecisionOK ==
  /\ presences_last \in Spaces
  /\ retained \in Board!Messages \cup {NoMessage}

(* The inductive invariant: the decision agrees with the evidence. *)
Agreement == W1UseIsReported /\ W2FollowsItsDoor

LEMMA TypeParts == PresenceTypeOK <=> EvidenceOK /\ DecisionOK
BY DEF PresenceTypeOK, EvidenceOK, DecisionOK

LEMMA DoorFacts == "frontdoor" \in Doors /\ "backdoorcx" \in Doors /\ "w2frontdoor" \in Doors
BY DEF Doors, W1Doors

LEMMA StampsAreIntegers == \A ts \in Stamps : ts \in Int
BY PresenceAssumption

(* The message of a decision has the type of a message. *)
LEMMA MessageType ==
  ASSUME NEW p \in Spaces PROVE Message(p) \in Board!Messages
BY DEF Spaces, Message, Board!Presences, Board!Messages, Board!PresenceUpdate

(* A decision is well-typed and is published when it differs. *)
LEMMA DecideType ==
  ASSUME DecisionOK, NEW tentative \in BOOLEAN, Decide(tentative)
  PROVE  DecisionOK'
<1> DEFINE p == [W1 |-> W1Decision(tentative), W2 |-> W2Decision]
<1>1. W1Decision(tentative) \in BOOLEAN /\ W2Decision \in BOOLEAN
  BY DEF W1Decision, W2Decision, W1Open, DoorOpen, LockedFromInside
<1>2. p \in Spaces
  BY <1>1 DEF Spaces, Board!Presences
<1>3. presences_last' = p /\ retained' \in {Message(p), retained}
  BY DEF Decide, Publish
<1> QED
  BY <1>2, <1>3, MessageType DEF DecisionOK

(* A decision agrees with the evidence it is taken from, provided that the *)
(* event asks for absence only where the evidence allows it.               *)
LEMMA DecideAgrees ==
  ASSUME NEW tentative \in BOOLEAN, Decide(tentative), presences_last \in Spaces,
         presences_last.W1 /\ ~tentative => ~(W1Open' \/ LockedFromInside')
  PROVE  Agreement'
<1>1. /\ presences_last'.W1 = W1Decision(tentative)
      /\ presences_last'.W2 = W2Decision
  BY DEF Decide
<1>2. presences_last.W1 \in BOOLEAN
  BY DEF Spaces, Board!Presences
<1>3. W1UseIsReported'
  BY <1>1, <1>2 DEF W1UseIsReported, W1Decision
<1>4. W2FollowsItsDoor'
  BY <1>1 DEF W2FollowsItsDoor, W2Decision
<1> QED
  BY <1>3, <1>4 DEF Agreement
-----------------------------------------------------------------------------
(* Type correctness of the presence routine. *)
THEOREM TypeCorrect == PresenceSpec => []PresenceTypeOK
<1>1. PresenceInit => PresenceTypeOK
  BY DEF PresenceInit, PresenceTypeOK, Doors, Spaces, Board!Presences, Board!Nobody
<1>2. PresenceTypeOK /\ [PresenceNext]_presenceVars => PresenceTypeOK'
  <2> SUFFICES ASSUME EvidenceOK, DecisionOK, [PresenceNext]_presenceVars
               PROVE  EvidenceOK' /\ DecisionOK'
    BY TypeParts DEF PresenceTypeOK, EvidenceOK, DecisionOK
  <2>0. presences_last.W1 \in BOOLEAN
    BY DEF DecisionOK, Spaces, Board!Presences
  <2>1. ASSUME NEW ts \in Stamps, SomethingIsMoving(ts)
        PROVE  EvidenceOK' /\ DecisionOK'
    BY <2>0, <2>1, DecideType DEF SomethingIsMoving, EvidenceOK
  <2>2. ASSUME NEW confident \in BOOLEAN, NothingIsMoving(confident)
        PROVE  EvidenceOK' /\ DecisionOK'
    BY <2>0, <2>2, DecideType DEF NothingIsMoving, EvidenceOK, evidence
  <2>3. ASSUME NEW ts \in Stamps, BoreDoomButtonPress(ts)
        PROVE  EvidenceOK' /\ DecisionOK'
    BY <2>3, DecideType DEF BoreDoomButtonPress, EvidenceOK
  <2>4. ASSUME NEW cmd \in Commands, DoorCommand(cmd)
        PROVE  EvidenceOK' /\ DecisionOK'
    BY <2>0, <2>4, DecideType DEF DoorCommand, EvidenceOK, DecisionOK, Continue
  <2>5. ASSUME NEW ts \in Stamps, ManualMovement(ts)
        PROVE  EvidenceOK' /\ DecisionOK'
    BY <2>0, <2>5, DecideType DEF ManualMovement, EvidenceOK
  <2>6. ASSUME NEW d \in Doors, NEW b \in BOOLEAN, NEW ts \in Stamps, LockUpdate(d, b, ts)
        PROVE  EvidenceOK' /\ DecisionOK'
    BY <2>0, <2>6, DecideType DEF LockUpdate, EvidenceOK, DecisionOK, Continue
  <2>7. ASSUME NEW d \in Doors, NEW b \in BOOLEAN, NEW ts \in Stamps, AjarUpdate(d, b, ts)
        PROVE  EvidenceOK' /\ DecisionOK'
    BY <2>0, <2>7, DecideType DEF AjarUpdate, EvidenceOK, DecisionOK, Continue
  <2>8. CASE WindowContact
    BY <2>0, <2>8, DecideType DEF WindowContact, EvidenceOK, evidence
  <2>9. CASE Restart
    BY <2>9 DEF Restart, EvidenceOK, DecisionOK, Spaces, Board!Presences, Board!Nobody
  <2>10. CASE UNCHANGED presenceVars
    BY <2>10 DEF presenceVars, EvidenceOK, DecisionOK
  <2> QED
    BY <2>1, <2>2, <2>3, <2>4, <2>5, <2>6, <2>7, <2>8, <2>9, <2>10 DEF PresenceNext
<1> QED
  BY <1>1, <1>2, PTL DEF PresenceSpec
-----------------------------------------------------------------------------
(* The decision agrees with the evidence in every reachable state.  It is  *)
(* inductive beside the types: an event either changes the evidence and is *)
(* decided upon, or is ignored and changes none of what the agreement      *)
(* speaks of; the one exception is a command, stored even when the handler *)
(* continues, which it does only where nothing asks for presence.          *)
THEOREM DecisionAgreesWithEvidence == PresenceSpec => []Agreement
<1>1. PresenceInit => Agreement
  BY DEF PresenceInit, Agreement, W1UseIsReported, W2FollowsItsDoor, W1Open, DoorOpen,
         LockedFromInside, Doors, W1Doors, Board!Nobody
<1>2. PresenceTypeOK /\ Agreement /\ [PresenceNext]_presenceVars => Agreement'
  <2> SUFFICES ASSUME PresenceTypeOK, Agreement, [PresenceNext]_presenceVars
               PROVE  Agreement'
    OBVIOUS
  <2>0. presences_last \in Spaces /\ presences_last.W1 \in BOOLEAN
    BY DEF PresenceTypeOK, Spaces, Board!Presences
  <2>1. ASSUME NEW ts \in Stamps, SomethingIsMoving(ts)
        PROVE  Agreement'
    BY <2>0, <2>1, DecideAgrees DEF SomethingIsMoving
  <2>2. ASSUME NEW confident \in BOOLEAN, NothingIsMoving(confident)
        PROVE  Agreement'
    <3>1. StillnessEndsPresence(confident) => ~(W1Open \/ LockedFromInside)
      <4> SUFFICES ASSUME StillnessEndsPresence(confident)
                   PROVE  ~W1Open /\ ~LockedFromInside
        OBVIOUS
      <4>1. ~W1Open
        BY DEF StillnessEndsPresence, W1Open, DoorOpen, Doors
      <4>2. ~LockedFromInside
        <5>1. CASE last_door_cmd = NoCommand
          BY <5>1 DEF LockedFromInside
        <5>2. CASE last_door_cmd # NoCommand
          <6>1. last_door_cmd.ts \in Int
            <7>1. last_door_cmd \in Commands
              BY <5>2 DEF PresenceTypeOK
            <7>2. last_door_cmd.ts \in Stamps
              BY <7>1 DEF Commands
            <7> QED
              BY <7>2, StampsAreIntegers
          <6>2. last_manual_lockhandling \in Int
            BY PresenceAssumption DEF PresenceTypeOK
          <6>3. ~last_door_cmd.inside /\ last_door_cmd.ts >= last_manual_lockhandling
            BY <5>2 DEF StillnessEndsPresence
          <6> QED
            BY <6>1, <6>2, <6>3 DEF LockedFromInside
        <5> QED
          BY <5>1, <5>2
      <4> QED
        BY <4>1, <4>2
    <3>2. (W1Open' <=> W1Open) /\ (LockedFromInside' <=> LockedFromInside)
      BY <2>2 DEF NothingIsMoving, evidence, W1Open, DoorOpen, LockedFromInside
    <3>3. Decide(presences_last.W1 /\ ~StillnessEndsPresence(confident))
      BY <2>2 DEF NothingIsMoving
    <3> QED
      BY <2>0, <3>1, <3>2, <3>3, DecideAgrees
  <2>3. ASSUME NEW ts \in Stamps, BoreDoomButtonPress(ts)
        PROVE  Agreement'
    BY <2>0, <2>3, DecideAgrees DEF BoreDoomButtonPress
  <2>4. ASSUME NEW cmd \in Commands, DoorCommand(cmd)
        PROVE  Agreement'
    <3>1. CASE W1Open' \/ LockedFromInside'
      BY <2>0, <2>4, <3>1, DecideAgrees DEF DoorCommand
    <3>2. CASE ~(W1Open' \/ LockedFromInside')
      BY <2>4, <3>2 DEF DoorCommand, Continue, Agreement, W1UseIsReported,
                        W2FollowsItsDoor, DoorOpen
    <3> QED
      BY <3>1, <3>2
  <2>5. ASSUME NEW ts \in Stamps, ManualMovement(ts)
        PROVE  Agreement'
    BY <2>0, <2>5, DecideAgrees DEF ManualMovement
  <2>6. ASSUME NEW d \in Doors, NEW b \in BOOLEAN, NEW ts \in Stamps, LockUpdate(d, b, ts)
        PROVE  Agreement'
    <3>1. CASE LockIgnored(d, b)
      BY <2>6, <3>1 DEF LockUpdate, Continue, Agreement, W1UseIsReported,
                        W2FollowsItsDoor, W1Open, DoorOpen, LockedFromInside
    <3>2. CASE ~LockIgnored(d, b)
      BY <2>0, <2>6, <3>2, DecideAgrees DEF LockUpdate
    <3> QED
      BY <3>1, <3>2
  <2>7. ASSUME NEW d \in Doors, NEW b \in BOOLEAN, NEW ts \in Stamps, AjarUpdate(d, b, ts)
        PROVE  Agreement'
    <3>1. CASE ShutIgnored(d, b, ts)
      BY <2>7, <3>1 DEF AjarUpdate, Continue, Agreement, W1UseIsReported,
                        W2FollowsItsDoor, W1Open, DoorOpen, LockedFromInside
    <3>2. CASE ~ShutIgnored(d, b, ts)
      BY <2>0, <2>7, <3>2, DecideAgrees DEF AjarUpdate
    <3> QED
      BY <3>1, <3>2
  <2>8. CASE WindowContact
    BY <2>0, <2>8, DecideAgrees DEF WindowContact
  <2>9. CASE Restart
    BY <2>9 DEF Restart, Agreement, W1UseIsReported, W2FollowsItsDoor, W1Open,
                DoorOpen, LockedFromInside, Doors, W1Doors, Board!Nobody
  <2>10. CASE UNCHANGED presenceVars
    BY <2>10 DEF presenceVars, Agreement, W1UseIsReported, W2FollowsItsDoor, W1Open,
                 DoorOpen, LockedFromInside
  <2> QED
    BY <2>1, <2>2, <2>3, <2>4, <2>5, <2>6, <2>7, <2>8, <2>9, <2>10 DEF PresenceNext
<1> QED
  BY <1>1, <1>2, TypeCorrect, PTL DEF PresenceSpec

(* Nobody is reported absent from W1 while the evidence says otherwise. *)
THEOREM W1UseAlwaysReported == PresenceSpec => []W1UseIsReported
<1>1. Agreement => W1UseIsReported
  BY DEF Agreement
<1> QED
  BY <1>1, DecisionAgreesWithEvidence, PTL

(* The decision for W2 is that of its door in every reachable state. *)
THEOREM W2AlwaysFollowsItsDoor == PresenceSpec => []W2FollowsItsDoor
<1>1. Agreement => W2FollowsItsDoor
  BY DEF Agreement
<1> QED
  BY <1>1, DecisionAgreesWithEvidence, PTL

(* No command alone ends the presence in W1. *)
THEOREM CommandsNeverEmpty == PresenceSpec => CommandAloneNeverEmpties
<1> DEFINE A == presences_last.W1 /\ ~presences_last.W1' /\ ~Restart
                   => UNCHANGED last_door_cmd
<1>1. PresenceTypeOK /\ [PresenceNext]_presenceVars => [A]_presenceVars
  <2> SUFFICES ASSUME PresenceTypeOK, PresenceNext, presences_last.W1, ~presences_last.W1', ~Restart
               PROVE  last_door_cmd' = last_door_cmd
    OBVIOUS
  <2>1. ASSUME NEW cmd \in Commands, DoorCommand(cmd)
        PROVE  FALSE
    <3>1. CASE W1Open' \/ LockedFromInside'
      <4>1. Decide(presences_last.W1)
        BY <2>1, <3>1 DEF DoorCommand
      <4>2. presences_last \in Spaces /\ presences_last.W1 \in BOOLEAN
        BY DEF PresenceTypeOK, Spaces, Board!Presences
      <4>3. Agreement'
        BY <3>1, <4>1, <4>2, DecideAgrees
      <4> QED
        BY <3>1, <4>3 DEF Agreement, W1UseIsReported
    <3>2. CASE ~(W1Open' \/ LockedFromInside')
      BY <2>1, <3>2 DEF DoorCommand, Continue
    <3> QED
      BY <3>1, <3>2
  <2>2. Restart \/ UNCHANGED last_door_cmd
    BY <2>1 DEF PresenceNext, SomethingIsMoving, NothingIsMoving, BoreDoomButtonPress,
         ManualMovement, LockUpdate, AjarUpdate, WindowContact, evidence
  <2> QED
    BY <2>2
<1> QED
  BY <1>1, TypeCorrect, PTL DEF PresenceSpec, CommandAloneNeverEmpties
-----------------------------------------------------------------------------
(* Each step of the routine is a step of the presence board or leaves it alone. *)
LEMMA BoardStep ==
  ASSUME PresenceTypeOK, PresenceTypeOK', [PresenceNext]_presenceVars
  PROVE  [Board!Next]_Board!vars
<1>1. ASSUME NEW tentative \in BOOLEAN, Decide(tentative)
      PROVE  [Board!Next]_Board!vars
  <2>1. presences_last' \in Board!Presences
    BY DEF PresenceTypeOK, Spaces
  <2>2. CASE presences_last' = presences_last
    BY <1>1, <2>2 DEF Decide, Publish, Board!vars
  <2>3. CASE presences_last' # presences_last
    <3>1. retained' = Board!PresenceUpdate(presences_last')
      BY <1>1, <2>3 DEF Decide, Publish, Message
    <3>2. Board!Announce(presences_last')
      BY <2>3, <3>1 DEF Board!Announce
    <3> QED
      BY <2>1, <3>2 DEF Board!Next
  <2> QED
    BY <2>2, <2>3
<1>2. presences_last.W1 \in BOOLEAN
  BY DEF PresenceTypeOK, Spaces, Board!Presences
<1>3. ASSUME Continue
      PROVE  [Board!Next]_Board!vars
  BY <1>3 DEF Continue, Board!vars
<1>4. ASSUME NEW ts \in Stamps,
             SomethingIsMoving(ts) \/ BoreDoomButtonPress(ts) \/ ManualMovement(ts)
      PROVE  [Board!Next]_Board!vars
  BY <1>1, <1>2, <1>4 DEF SomethingIsMoving, BoreDoomButtonPress, ManualMovement
<1>5. ASSUME NEW confident \in BOOLEAN, NothingIsMoving(confident)
      PROVE  [Board!Next]_Board!vars
  BY <1>1, <1>2, <1>5 DEF NothingIsMoving
<1>6. ASSUME NEW cmd \in Commands, DoorCommand(cmd)
      PROVE  [Board!Next]_Board!vars
  BY <1>1, <1>2, <1>3, <1>6 DEF DoorCommand
<1>7. ASSUME NEW d \in Doors, NEW b \in BOOLEAN, NEW ts \in Stamps,
             LockUpdate(d, b, ts) \/ AjarUpdate(d, b, ts)
      PROVE  [Board!Next]_Board!vars
  BY <1>1, <1>2, <1>3, <1>7 DEF LockUpdate, AjarUpdate
<1>8. CASE WindowContact
  BY <1>1, <1>2, <1>8 DEF WindowContact
<1>9. CASE Restart
  BY <1>9 DEF Restart, Board!Next, Board!Forget
<1>10. CASE UNCHANGED presenceVars
  BY <1>10 DEF presenceVars, Board!vars
<1> QED
  BY <1>4, <1>5, <1>6, <1>7, <1>8, <1>9, <1>10 DEF PresenceNext

(* The presence routine implements the presence board. *)
THEOREM PresenceImplementsBoard == PresenceSpec => ImplementsBoard
<1>1. PresenceInit => Board!Init
  BY DEF PresenceInit, Board!Init
<1>2. PresenceTypeOK /\ PresenceTypeOK' /\ [PresenceNext]_presenceVars
        => [Board!Next]_Board!vars
  BY BoardStep
<1> QED
  BY <1>1, <1>2, TypeCorrect, PTL DEF PresenceSpec, ImplementsBoard, Board!Spec
=============================================================================
