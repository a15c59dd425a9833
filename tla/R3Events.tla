------------------------------ MODULE R3Events ------------------------------
(***************************************************************************)
(* UnmarshalTopicByte2Event of r3events: from a topic and a payload to an  *)
(* event or an error.  A message has the kind of its topic, the device the *)
(* topic names, and a payload that is intact and says something or cannot  *)
(* be read; what it says is the set of what is so.  There is one topic of  *)
(* each kind that consumers tell apart.                                    *)
(***************************************************************************)

(* The topics of the first switch: JSON, or a bare number. *)
JsonTopics  == {"presence", "zigbee window"}
FloatTopics == {"esphome temperature"}

(* The last parts of a topic that the second switch knows. *)
GenericTypes == {"lock", "ajar", "button", "alert", "temperature"}

(* What can be so in a message of a topic, and in its event. *)
Fields(topic) ==
  CASE topic = "presence" -> {"space1", "space2"}
    [] topic = "temperature" -> {"old"}
    [] topic = "esphome temperature" -> {"nan"}
    [] topic = "button" -> {"recent"}
    [] topic = "lock" -> {"locked"}
    [] topic \in {"ajar", "zigbee window"} -> {"open"}
    [] OTHER -> {}

(* When nothing could be read the fields are zero, but fixTs fills in the  *)
(* time, so that the event is one of this moment.                          *)
Unread(topic) == Fields(topic) \cap {"recent"}

Event(msg) ==
  [type |-> msg.topic, from |-> msg.from,
   says |-> IF msg.intact THEN msg.says ELSE Unread(msg.topic)]

(* The first switch returns an error beside the event. *)
SpecialTopic(msg) == [event |-> Event(msg), err |-> ~msg.intact]

(* The second has no error beside an event, not even one of its own. *)
GenericTopic(msg) == [event |-> Event(msg), err |-> msg.topic \notin GenericTypes]

(* Mutant: an event takes away every error. *)
UnmarshalAny(msg) ==
  [event |-> Event(msg),
   err   |-> msg.topic \notin JsonTopics \cup FloatTopics \cup GenericTypes]

UnmarshalTopicByte2Event(msg) ==
  IF msg.topic \in JsonTopics \cup FloatTopics THEN SpecialTopic(msg) ELSE GenericTopic(msg)
=============================================================================
