----------------------------- MODULE MetaEvents -----------------------------
(***************************************************************************)
(* r3-metaevt-maker: main decodes the messages and hands each, through a   *)
(* pubsub, to the routines that subscribed its event or its topic.  Two of *)
(* them are here: MetaEventRoutine_MovementSum counts the movements of     *)
(* each topic and publishes the counts, MetaEventRoutine_SensorLost is to  *)
(* announce sensors that have gone silent.                                 *)
(*                                                                         *)
(*   broker --> main --events--> MovementSum --> broker                    *)
(*                   --seentopics--> SensorLost --> broker                 *)
(*                                                                         *)
(* A subscriber's channel that is full makes main wait.                    *)
(***************************************************************************)
EXTENDS Integers, Sequences, FiniteSets

CONSTANTS
  Movements,        \* topics of movement sensors
  Monitored,        \* topics_monitor_if_sensors_disappear
  PubSubCap,        \* what a subscriber's channel holds (100)
  SeenEnough,       \* messages before a sensor can be lost (10)
  LostFactor,       \* intervals of silence (10)
  MaxMessages,      \* bound: messages of a topic
  MaxNow            \* bound: seconds

ASSUME EventsAssumption ==
  /\ PubSubCap \in Nat \ {0} /\ SeenEnough \in Nat \ {0} /\ LostFactor \in Nat
  /\ MaxMessages \in Nat /\ MaxNow \in Nat

MetaTopics == Movements \cup Monitored
NotSeen == [last_seen |-> 0, num_seen |-> 0, max_interval |-> -1]

VARIABLES
  second,           \* the second it is
  in_hand,          \* main: the message and where main stands with it
  events,           \* the channel of MovementSum
  seentopics,       \* the channel of SensorLost
  topic_ctr_map,    \* counts of the topics known so far, -1 for unknown
  topicData,        \* what SensorLost knows of each monitored topic
  lost,             \* the topics whose loss was announced
  ticked,           \* the second of SensorLost's last tick
  dispatched,       \* history: readable messages of each topic
  summed,           \* history: the sum of the counts announced of each topic
  witnessed         \* history: what there was to know of each monitored topic

eventsVars == <<second, in_hand, events, seentopics, topic_ctr_map, topicData, lost, ticked,
                dispatched, summed, witnessed>>

mainEventVars == <<in_hand, dispatched>>
sumVars       == <<topic_ctr_map, summed>>
lostVars      == <<topicData, lost, ticked, witnessed>>

Nothing == [at |-> "receive", topic |-> ""]

EventsInit ==
  /\ second = 1 /\ in_hand = Nothing /\ events = <<>> /\ seentopics = <<>>
  /\ topic_ctr_map = [t \in Movements |-> -1]
  /\ topicData = [t \in Monitored |-> NotSeen]
  /\ lost = {} /\ ticked = 0
  /\ dispatched = [t \in MetaTopics |-> 0]
  /\ summed = [t \in Movements |-> 0]
  /\ witnessed = [t \in Monitored |-> NotSeen]
-----------------------------------------------------------------------------
(* main *)

(* What cannot be read is dropped. *)
ReceiveEvent ==
  /\ in_hand.at = "receive"
  /\ \E t \in MetaTopics :
       /\ dispatched[t] < MaxMessages
       /\ in_hand' = [at |-> "event", topic |-> t]
       /\ dispatched' = [dispatched EXCEPT ![t] = @ + 1]
  /\ UNCHANGED <<second, events, seentopics, sumVars, lostVars>>

(* Mutant: an event that finds its channel full is dropped. *)
PubEventOrDrop ==
  /\ in_hand.at = "event"
  /\ events' = IF Len(events) < PubSubCap THEN Append(events, in_hand.topic) ELSE events
  /\ in_hand' = [in_hand EXCEPT !.at = "topic"]
  /\ UNCHANGED <<second, seentopics, sumVars, lostVars, dispatched>>

PubEvent ==
  /\ in_hand.at = "event" /\ Len(events) < PubSubCap
  /\ events' = Append(events, in_hand.topic)
  /\ in_hand' = [in_hand EXCEPT !.at = "topic"]
  /\ UNCHANGED <<second, seentopics, sumVars, lostVars, dispatched>>

PubTopic ==
  /\ in_hand.at = "topic" /\ Len(seentopics) < PubSubCap
  /\ seentopics' = Append(seentopics, in_hand.topic)
  /\ in_hand' = Nothing
  /\ UNCHANGED <<second, events, sumVars, lostVars, dispatched>>
-----------------------------------------------------------------------------
(* MetaEventRoutine_MovementSum *)

(* A topic is known from its first movement on; others do not count. *)
CountMovement ==
  /\ events # <<>>
  /\ events' = Tail(events)
  /\ LET t == Head(events)
     IN  topic_ctr_map' = IF t \in Movements
                          THEN [topic_ctr_map EXCEPT ![t] = IF @ = -1 THEN 1 ELSE @ + 1]
                          ELSE topic_ctr_map
  /\ UNCHANGED <<second, mainEventVars, seentopics, summed, lostVars>>

Known == {t \in Movements : topic_ctr_map[t] # -1}

(* Mutant: the counts begin at one again. *)
SumTickFromOne ==
  /\ Known # {}
  /\ summed' = [t \in Movements |-> IF t \in Known THEN summed[t] + topic_ctr_map[t]
                                                   ELSE summed[t]]
  /\ topic_ctr_map' = [t \in Movements |-> IF t \in Known THEN 1 ELSE -1]
  /\ UNCHANGED <<second, mainEventVars, events, seentopics, lostVars>>

(* The counts of all topics known are published and begin anew. *)
SumTick ==
  /\ Known # {}
  /\ summed' = [t \in Movements |-> IF t \in Known THEN summed[t] + topic_ctr_map[t]
                                                   ELSE summed[t]]
  /\ topic_ctr_map' = [t \in Movements |-> IF t \in Known THEN 0 ELSE -1]
  /\ UNCHANGED <<second, mainEventVars, events, seentopics, lostVars>>
-----------------------------------------------------------------------------
(* MetaEventRoutine_SensorLost *)

(* What becomes of the record when its topic is seen. *)
SeenAgain(seen, now) ==
  LET interv == now - seen.last_seen
  IN  [last_seen    |-> now,
       num_seen     |-> seen.num_seen + 1,
       max_interval |->
         CASE seen.num_seen = 0 -> seen.max_interval
           [] seen.num_seen = 1 -> interv
           [] seen.num_seen = 2 -> IF interv > seen.max_interval THEN interv
                                                                 ELSE seen.max_interval
           [] OTHER -> IF interv > seen.max_interval /\ interv < 10 * seen.max_interval
                       THEN interv ELSE seen.max_interval]

(* The record that is changed is a copy, and nobody puts it into the map. *)
SeeTopic ==
  /\ seentopics # <<>>
  /\ seentopics' = Tail(seentopics)
  /\ LET t == Head(seentopics)
     IN  witnessed' = IF t \in Monitored
                      THEN [witnessed EXCEPT ![t] = SeenAgain(@, second)] ELSE witnessed
  /\ UNCHANGED <<second, mainEventVars, events, sumVars, topicData, lost,
                 ticked>>

IsLost(seen, now) ==
  seen.num_seen >= SeenEnough /\ now - seen.last_seen > LostFactor * seen.max_interval

(* The reset of num_seen is lost with the copy, too. *)
LostTick ==
  /\ lost' = lost \cup {t \in Monitored : IsLost(topicData[t], second)}
  /\ ticked' = second
  /\ UNCHANGED <<second, mainEventVars, events, seentopics, sumVars, topicData, witnessed>>

SecondPasses ==
  /\ second < MaxNow /\ second' = second + 1
  /\ UNCHANGED <<mainEventVars, events, seentopics, sumVars, lostVars>>
-----------------------------------------------------------------------------
EventsNext ==
  \/ ReceiveEvent \/ PubEvent \/ PubTopic
  \/ CountMovement \/ SumTick
  \/ SeeTopic \/ LostTick
  \/ SecondPasses

EventsSpec == EventsInit /\ [][EventsNext]_eventsVars
-----------------------------------------------------------------------------
(* No movement is lost or told twice between main, the pubsub and the      *)
(* ticker: what was announced of a topic, what is counted and what is on   *)
(* its way is what was received.                                           *)
MovementsConserved ==
  \A t \in Movements :
    LET onTheWay == Cardinality({i \in DOMAIN events : events[i] = t})
                      + (IF in_hand = [at |-> "event", topic |-> t] THEN 1 ELSE 0)
        counted  == IF t \in Known THEN topic_ctr_map[t] ELSE 0
    IN  summed[t] + counted + onTheWay = dispatched[t]
-----------------------------------------------------------------------------
(* A statement of the source that the code does not keep. *)

(* The "topics_monitor_if_sensors_disappear" are monitored: a tick that    *)
(* finds a sensor silent for ten times its longest interval, after ten     *)
(* messages, announces it.                                                 *)
LostSensorIsAnnounced ==
  [][ticked' # ticked
       => \A t \in Monitored : IsLost(witnessed[t], second) => t \in lost']_eventsVars
=============================================================================
