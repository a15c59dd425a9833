------------------------------ MODULE Presence ------------------------------
(***************************************************************************)
(* MetaEventRoutine_Presence of r3-metaevt-maker: decides, from the door,  *)
(* button, movement and window events of the MQTT broker, whether somebody *)
(* is in space W1 and in space W2, and publishes each change of that       *)
(* decision as a retained message.                                         *)
(*                                                                         *)
(* One action handles one event of the routine's channel, from the type    *)
(* switch to the publication.  Events carry the time stamp of their sender *)
(* (three hosts with clocks of their own, retained messages, broker        *)
(* redelivery), so an event may carry any stamp.  Events with a topic of   *)
(* fewer than three levels and events of other types change nothing and    *)
(* are left out, and so are the contents of zigbeecontact_shut and of      *)
(* lock_use_ts for the doors other than the front door: no code reads      *)
(* them.                                                                   *)
(***************************************************************************)
EXTENDS Integers

CONSTANTS
  Stamps,            \* the Unix times events carry
  MovementTimeout,   \* seconds during which movement after a presence event is ignored (21)
  ShutGrace,         \* seconds a locked front door has to fall shut (2)
  QuietUptime,       \* the 1800 an event's time must exceed before stillness counts
  NoCommand,         \* last_door_cmd is nil
  NoMessage          \* the presence topic holds no retained message

W1Doors == {"frontdoor", "backdoorcx"}
Doors   == W1Doors \cup {"w2frontdoor"}

(* A DoorCommandEvent: from inside if it was given "using Button" or by a  *)
(* command that ends in "frominside" (manualInsideButtonUsed).             *)
Commands == [inside : BOOLEAN, ts : Stamps]

ASSUME PresenceAssumption ==
  /\ Stamps \subseteq Nat
  /\ MovementTimeout \in Nat
  /\ ShutGrace \in Nat
  /\ QuietUptime \in Nat
  /\ NoCommand \notin Commands

VARIABLES
  last_door_cmd,
  last_event_indicating_presence,
  last_manual_lockhandling,
  locked,            \* for each door
  lock_use_ts,       \* the front door's entry
  shut,              \* for each door
  presences_last,    \* the decision for each space
  retained           \* the retained message of realraum/metaevt/presence

evidence ==
  <<last_door_cmd, last_event_indicating_presence, last_manual_lockhandling,
    locked, lock_use_ts, shut>>

presenceVars ==
  <<last_door_cmd, last_event_indicating_presence, last_manual_lockhandling,
    locked, lock_use_ts, shut, presences_last, retained>>

(* What consumers of the presence topic may rely on. *)
Board == INSTANCE PresenceBoard
Spaces == Board!Presences

PresenceTypeOK ==
  /\ last_door_cmd \in Commands \cup {NoCommand}
  /\ last_event_indicating_presence \in Stamps \cup {0}
  /\ last_manual_lockhandling \in Stamps \cup {0}
  /\ locked \in [Doors -> BOOLEAN]
  /\ lock_use_ts \in Stamps \cup {0}
  /\ shut \in [Doors -> BOOLEAN]
  /\ presences_last \in Spaces
  /\ retained \in Board!Messages \cup {NoMessage}

PresenceInit ==
  /\ last_door_cmd = NoCommand
  /\ last_event_indicating_presence = 0
  /\ last_manual_lockhandling = 0
  /\ locked = [d \in Doors |-> TRUE]
  /\ lock_use_ts = 0
  /\ shut = [d \in Doors |-> TRUE]
  /\ presences_last = Board!Nobody
  /\ retained = NoMessage
-----------------------------------------------------------------------------
(* The decision *)

DoorOpen(d) == ~locked[d] \/ ~shut[d]

W1Open == \E d \in W1Doors : DoorOpen(d)

(* The last command came from inside, or the lock was turned by hand after it. *)
LockedFromInside ==
  /\ last_door_cmd # NoCommand
  /\ last_door_cmd.inside \/ last_door_cmd.ts < last_manual_lockhandling

(* Mutant: the front door's and the back door's ajar contacts are not asked. *)
W1DecisionLocksOnly(tentative) ==
  IF tentative # presences_last.W1 THEN tentative
  ELSE (\E d \in W1Doors : ~locked[d])' \/ LockedFromInside'

(* A tentative value that differs from the last decision is final; else    *)
(* the doors decide, then the way the door was last locked.                *)
W1Decision(tentative) ==
  IF tentative # presences_last.W1 THEN tentative
  ELSE W1Open' \/ LockedFromInside'

(* Mutant: only the lock counts. *)
W2DecisionLockOnly == ~locked'["w2frontdoor"]

W2Decision == DoorOpen("w2frontdoor")'

(* Mutant: the message of the time before space W2. *)
MessageOldFormat(p) == [Present |-> p.W1]

Message(p) == Board!PresenceUpdate(p)

(* Mutant: published only when the overall answer changes. *)
PublishOverall(p) ==
  retained' = IF (p.W1 \/ p.W2) # (presences_last.W1 \/ presences_last.W2)
              THEN Message(p) ELSE retained

Publish(p) ==
  retained' = IF p # presences_last THEN Message(p) ELSE retained

(* The part of the handler below the type switch, entered with the W1      *)
(* presence the event asks for.                                            *)
Decide(tentative) ==
  LET p == [W1 |-> W1Decision(tentative), W2 |-> W2Decision]
  IN  /\ presences_last' = p
      /\ Publish(p)

Continue == UNCHANGED <<presences_last, retained>>
-----------------------------------------------------------------------------
(* The events *)

(* SomethingReallyIsMoving with Movement: asks for presence unless it      *)
(* follows another presence event too closely.                             *)
SomethingIsMoving(ts) ==
  /\ last_event_indicating_presence' = ts
  /\ UNCHANGED <<last_door_cmd, last_manual_lockhandling, locked, lock_use_ts, shut>>
  /\ Decide(\/ ts - last_event_indicating_presence > MovementTimeout
            \/ presences_last.W1)

(* SomethingReallyIsMoving without Movement: may end the presence in W1 if *)
(* its confidence is at least 90.                                          *)
StillnessEndsPresence(confident) ==
  /\ confident
  /\ \A d \in Doors : locked[d]
  /\ \A d \in W1Doors : shut[d]
  /\ last_event_indicating_presence > QuietUptime
  /\ \/ last_door_cmd = NoCommand
     \/ /\ ~last_door_cmd.inside
        /\ last_door_cmd.ts >= last_manual_lockhandling

NothingIsMoving(confident) ==
  /\ UNCHANGED evidence
  /\ Decide(presences_last.W1 /\ ~StillnessEndsPresence(confident))

BoreDoomButtonPress(ts) ==
  /\ last_event_indicating_presence' = ts
  /\ UNCHANGED <<last_door_cmd, last_manual_lockhandling, locked, lock_use_ts, shut>>
  /\ Decide(TRUE)

(* Mutant: a command is decided upon like any other event. *)
DoorCommandDecides(cmd) ==
  /\ last_door_cmd' = cmd
  /\ UNCHANGED <<last_event_indicating_presence, last_manual_lockhandling,
                 locked, lock_use_ts, shut>>
  /\ Decide(presences_last.W1)

(* A command alone never sets the presence to FALSE: the lock update does. *)
DoorCommand(cmd) ==
  /\ last_door_cmd' = cmd
  /\ UNCHANGED <<last_event_indicating_presence, last_manual_lockhandling,
                 locked, lock_use_ts, shut>>
  /\ IF W1Open' \/ LockedFromInside' THEN Decide(presences_last.W1) ELSE Continue

ManualMovement(ts) ==
  /\ last_manual_lockhandling' = ts
  /\ last_event_indicating_presence' = ts
  /\ UNCHANGED <<last_door_cmd, locked, lock_use_ts, shut>>
  /\ Decide(presences_last.W1)

(* The front door is not taken to be locked while the back door is not. *)
LockIgnored(d, isLocked) ==
  d = "frontdoor" /\ isLocked /\ ~locked["backdoorcx"]

LockUpdate(d, isLocked, ts) ==
  /\ last_event_indicating_presence' =
        IF locked[d] # isLocked THEN ts ELSE last_event_indicating_presence
  /\ UNCHANGED <<last_door_cmd, last_manual_lockhandling, shut>>
  /\ IF LockIgnored(d, isLocked)
     THEN UNCHANGED <<locked, lock_use_ts>> /\ Continue
     ELSE /\ locked' = [locked EXCEPT ![d] = isLocked]
          /\ lock_use_ts' = IF d = "frontdoor" THEN ts ELSE lock_use_ts
          /\ Decide(presences_last.W1)

(* A front door that was ajar when it was locked does not become shut later. *)
ShutIgnored(d, isShut, ts) ==
  /\ d = "frontdoor" /\ isShut
  /\ ~shut["frontdoor"] /\ locked["frontdoor"]
  /\ ts - lock_use_ts > ShutGrace

AjarUpdate(d, isShut, ts) ==
  /\ last_event_indicating_presence' = ts
  /\ UNCHANGED <<last_door_cmd, last_manual_lockhandling, locked, lock_use_ts>>
  /\ IF ShutIgnored(d, isShut, ts)
     THEN UNCHANGED shut /\ Continue
     ELSE /\ shut' = [shut EXCEPT ![d] = isShut]
          /\ Decide(presences_last.W1)

(* ZigbeeAjarSensor: the window contact is stored, never read, and the     *)
(* decision is taken once more.                                            *)
WindowContact ==
  /\ UNCHANGED evidence
  /\ Decide(presences_last.W1)

(* The process exits (panic, reboot) and is started again; the retained    *)
(* message of the topic survives in the broker.                            *)
Restart ==
  /\ last_door_cmd' = NoCommand
  /\ last_event_indicating_presence' = 0
  /\ last_manual_lockhandling' = 0
  /\ locked' = [d \in Doors |-> TRUE]
  /\ lock_use_ts' = 0
  /\ shut' = [d \in Doors |-> TRUE]
  /\ presences_last' = Board!Nobody
  /\ UNCHANGED retained
-----------------------------------------------------------------------------
PresenceNext ==
  \/ \E ts \in Stamps : SomethingIsMoving(ts)
  \/ \E confident \in BOOLEAN : NothingIsMoving(confident)
  \/ \E ts \in Stamps : BoreDoomButtonPress(ts)
  \/ \E cmd \in Commands : DoorCommand(cmd)
  \/ \E ts \in Stamps : ManualMovement(ts)
  \/ \E d \in Doors, b \in BOOLEAN, ts \in Stamps : LockUpdate(d, b, ts)
  \/ \E d \in Doors, b \in BOOLEAN, ts \in Stamps : AjarUpdate(d, b, ts)
  \/ WindowContact
  \/ Restart

PresenceSpec == PresenceInit /\ [][PresenceNext]_presenceVars
-----------------------------------------------------------------------------
(* Somebody is reported in W1 in every state in which a door of W1 is not  *)
(* both locked and shut, or in which the last locking was done from        *)
(* inside: no order of events, stale stamp, ignored update or early        *)
(* continue of the handler leaves the decision behind the evidence.        *)
W1UseIsReported == W1Open \/ LockedFromInside => presences_last.W1

(* The decision for W2 follows its one door exactly, although the handler  *)
(* skips it whenever it continues early for a reason that concerns W1.     *)
W2FollowsItsDoor == presences_last.W2 <=> DoorOpen("w2frontdoor")

(* "Don't set presence to false for just a door command, wait until we     *)
(* receive a LockUpdate" (the comment in the handler): no step that takes  *)
(* in a new command ends the presence in W1, except the loss of all state  *)
(* in a restart.                                                           *)
CommandAloneNeverEmpties ==
  [][presences_last.W1 /\ ~presences_last.W1' /\ ~Restart
       => UNCHANGED last_door_cmd]_presenceVars

(* The routine keeps the promise of the presence topic. *)
ImplementsBoard == Board!Spec
=============================================================================
