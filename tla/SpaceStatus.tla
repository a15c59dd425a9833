----------------------------- MODULE SpaceStatus -----------------------------
(***************************************************************************)
(* r3-spaceapistatus: from messages to the status document.                *)
(*                                                                         *)
(*   broker --> main --events_to_status_chan--> EventToWeb --> web, ssh    *)
(*                                                                         *)
(* main decodes a message and forwards none, one or two events.            *)
(* EventToWeb takes events and ticks, keeps the document, and publishes    *)
(* it: to the web server through a goroutine that installs it, and through *)
(* an ssh session (SessionRequests) that it waits for.  Of what is         *)
(* published the state is kept: open or not, and the message.  Time is     *)
(* abstract: what can become too old does so at any moment.                *)
(***************************************************************************)
EXTENDS R3Events, SpaceDocument

CONSTANTS
  Names,            \* of doors and of the places of sensors
  Scenarios,        \* bound: the sets of topics that have messages in a behaviour
  EventsCap,        \* events_to_status_chan (80)
  MaxInstalls,      \* bound: goroutines that install the document
  MaxSpaceEvents    \* bound: events in the document and on their way to it

ASSUME SpaceStatusAssumption ==
  /\ EventsCap \in Nat \ {0}
  /\ MaxInstalls \in Nat \ {0}
  /\ MaxSpaceEvents \in Nat

VARIABLES
  arrives,                  \* external: the topics that have messages
  forwarding,               \* main: the events of the message it has in hand
  events_to_status_chan,
  statusstate, having_fun,  \* having_fun: buttonpress_until is in the future
  sensors, spaceevents,     \* spaceapidata: its lists
  spacestate,               \* spaceapidata: its state
  handler,                  \* where the process stands, and whether it will exit
  installing,               \* the documents of the goroutines that install one
  spaceapijsonbytes,        \* what the web server shows
  reported                  \* history: the last intact presence message

statusVars == <<arrives, forwarding, events_to_status_chan, statusstate, having_fun, sensors,
                spaceevents, spacestate, handler, installing, spaceapijsonbytes, reported>>

mainVars     == <<arrives, forwarding, reported>>
documentVars == <<statusstate, having_fun, sensors, spaceevents>>

(* The lists of sensors with a timestamp, and those without. *)
TimedLists   == {"temperature", "barometer", "ext_voltage"}
UntimedLists == {"door_locked", "ext_door_ajar"}

Sensor(name, so)     == [name |-> name, so |-> so, old |-> FALSE, nan |-> FALSE]
Measured(name, says) == [name |-> name, so |-> TRUE,
                         old |-> "old" \in says, nan |-> "nan" \in says]

NoState == [open |-> "unknown", message |-> ""]
Shown   == [open : {"open", "closed", "unknown"},
            message : {"", "StatusUnknown", "PeopleHavingFun", "LeuteAnwesend",
                       "NurHinterwhg", "KeinerDa"}]

StatusTypeOK ==
  /\ arrives \in Scenarios
  /\ Len(forwarding) <= 2
  /\ Len(events_to_status_chan) <= EventsCap
  /\ statusstate \in [present : BOOLEAN, space1present : BOOLEAN, space2present : BOOLEAN]
  /\ having_fun \in BOOLEAN
  /\ DOMAIN sensors = TimedLists \cup UntimedLists
  /\ \A l \in UntimedLists : CanMakeJSON(sensors[l])
  /\ Len(spaceevents) <= MaxSpaceEvents
  /\ spacestate \in Shown
  /\ handler \in [at : {"connect", "select", "ask", "send", "exited"}, exits : BOOLEAN]
  /\ installing \in Seq(Shown) /\ Len(installing) <= MaxInstalls
  /\ spaceapijsonbytes \in Shown
-----------------------------------------------------------------------------
(* main *)

(* A message of the couch becomes two events, or none if it cannot be read.*)
TranslateSonOffSensor(msg) ==
  IF msg.intact
  THEN <<[type |-> "barometer", from |-> "couchred", says |-> {}],
         [type |-> "temperature", from |-> "couchred", says |-> {}]>>
  ELSE <<>>

(* Mutant: of a message that cannot be read its zero event is forwarded. *)
EventsOfUnchecked(msg) ==
  IF msg.topic = "couchred" THEN TranslateSonOffSensor(msg)
  ELSE <<UnmarshalTopicByte2Event(msg).event>>

EventsOf(msg) ==
  IF msg.topic = "couchred" THEN TranslateSonOffSensor(msg)
  ELSE LET decoded == UnmarshalTopicByte2Event(msg)
       IN  IF decoded.err THEN <<>> ELSE <<decoded.event>>

SpaceEventTopics == {"button", "alert"}

(* main takes a message when it has forwarded the one before. *)
ReceiveMessage ==
  /\ handler.at \in {"select", "ask", "send"} /\ ~handler.exits
  /\ forwarding = <<>>
  /\ \E topic \in arrives, from \in Names, intact \in BOOLEAN :
       \E says \in SUBSET Fields(topic) :
         LET msg == [topic |-> topic, from |-> from, intact |-> intact, says |-> says]
         IN  /\ topic \in SpaceEventTopics =>
                  Len(spaceevents) + Len(events_to_status_chan) < MaxSpaceEvents
             /\ forwarding' = EventsOf(msg)
             /\ reported' = IF topic = "presence" /\ intact THEN says ELSE reported
  /\ UNCHANGED <<arrives, events_to_status_chan, documentVars, spacestate, handler,
                 installing, spaceapijsonbytes>>

(* Mutant: the events queue up without limit. *)
ForwardUnbounded ==
  /\ forwarding # <<>>
  /\ forwarding' = Tail(forwarding)
  /\ events_to_status_chan' = Append(events_to_status_chan, Head(forwarding))
  /\ UNCHANGED <<arrives, reported, documentVars, spacestate, handler, installing,
                 spaceapijsonbytes>>

(* Mutant: an event that finds the channel full is dropped. *)
ForwardOrDrop ==
  /\ forwarding # <<>>
  /\ forwarding' = Tail(forwarding)
  /\ events_to_status_chan' =
       IF Len(events_to_status_chan) < EventsCap
       THEN Append(events_to_status_chan, Head(forwarding)) ELSE events_to_status_chan
  /\ UNCHANGED <<arrives, reported, documentVars, spacestate, handler, installing,
                 spaceapijsonbytes>>

(* The channel is cleaned out only before the loop over the messages, when *)
(* nothing is in it yet.                                                   *)
Forward ==
  /\ forwarding # <<>> /\ Len(events_to_status_chan) < EventsCap
  /\ forwarding' = Tail(forwarding)
  /\ events_to_status_chan' = Append(events_to_status_chan, Head(forwarding))
  /\ UNCHANGED <<arrives, reported, documentVars, spacestate, handler, installing,
                 spaceapijsonbytes>>
-----------------------------------------------------------------------------
(* Publishing *)

StateOf(status, fun) ==
  IF ~status.present THEN [open |-> "closed", message |-> "KeinerDa"]
  ELSE [open |-> "open",
        message |-> IF fun THEN "PeopleHavingFun"
                    ELSE IF status.space1present THEN "LeuteAnwesend"
                    ELSE IF status.space2present THEN "NurHinterwhg" ELSE ""]

(* The state is computed anew whatever it was set to before.  Without a    *)
(* document there is nothing to publish.                                   *)
publishStateToWeb(exits) ==
  /\ Len(installing) < MaxInstalls
  /\ spacestate' = StateOf(statusstate', having_fun')
  /\ IF \A l \in DOMAIN sensors' : CanMakeJSON(sensors'[l])
     THEN /\ installing' = Append(installing, spacestate')
          /\ handler' = [at |-> "ask", exits |-> exits]
     ELSE /\ handler' = [handler EXCEPT !.at = IF exits THEN "exited" ELSE "select"]
          /\ UNCHANGED installing

(* The goroutines that install wait for one lock, in no order. *)
Install(i) ==
  /\ i \in DOMAIN installing
  /\ spaceapijsonbytes' = installing[i]
  /\ installing' = [j \in 1 .. Len(installing) - 1 |-> installing[IF j < i THEN j ELSE j + 1]]
  /\ UNCHANGED <<mainVars, events_to_status_chan, documentVars, spacestate, handler>>

(* Without a session the publication ends. *)
GotSession ==
  /\ handler.at = "ask"
  /\ handler' \in {[handler EXCEPT !.at = "send"],
                   [handler EXCEPT !.at = IF handler.exits THEN "exited" ELSE "select"]}
  /\ UNCHANGED <<mainVars, events_to_status_chan, documentVars, spacestate, installing,
                 spaceapijsonbytes>>

(* Sent, failed or not sent in time. *)
SendEnds ==
  /\ handler.at = "send"
  /\ handler' = [handler EXCEPT !.at = IF handler.exits THEN "exited" ELSE "select"]
  /\ UNCHANGED <<mainVars, events_to_status_chan, documentVars, spacestate, installing,
                 spaceapijsonbytes>>
-----------------------------------------------------------------------------
(* EventToWeb *)

(* What an event puts into the lists. *)
Merges(e) ==
  CASE e.type = "presence" ->
         <<[list |-> "door_locked", sensor |-> Sensor("Space1Empty", "space1" \notin e.says)],
           [list |-> "door_locked", sensor |-> Sensor("Space2Empty", "space2" \notin e.says)]>>
    [] e.type = "lock" -> <<[list |-> "door_locked", sensor |-> Sensor(e.from, "locked" \in e.says)]>>
    [] e.type = "ajar" -> <<[list |-> "ext_door_ajar", sensor |-> Sensor(e.from, "open" \in e.says)]>>
    [] e.type = "zigbee window" ->
         <<[list |-> "ext_door_ajar", sensor |-> Sensor(e.from, "open" \in e.says)],
           [list |-> "ext_voltage", sensor |-> Measured(e.from, {})]>>
    [] e.type = "esphome temperature" ->
         <<[list |-> "temperature", sensor |-> Measured("R2W2", e.says)]>>
    [] e.type \in {"temperature", "barometer"} ->
         <<[list |-> e.type, sensor |-> Measured(e.from, e.says)]>>
    [] OTHER -> <<>>

Merged(lists, merges) ==
  LET merged[n \in 0 .. Len(merges)] ==
        IF n = 0 THEN lists
        ELSE [merged[n - 1] EXCEPT ![merges[n].list] = MergeInSensor(@, merges[n].sensor)]
  IN  merged[Len(merges)]

ClimateTopics == {"temperature", "esphome temperature", "barometer"}

(* An event from the channel; all but those of the climate publish. *)
TakeEvent ==
  /\ handler.at = "select" /\ events_to_status_chan # <<>>
  /\ events_to_status_chan' = Tail(events_to_status_chan)
  /\ LET e == Head(events_to_status_chan)
     IN  /\ statusstate' = IF e.type = "presence"
                           THEN [present |-> e.says # {},
                                 space1present |-> "space1" \in e.says,
                                 space2present |-> "space2" \in e.says]
                           ELSE statusstate
         /\ having_fun' = IF e.type = "button" THEN "recent" \in e.says ELSE having_fun
         /\ sensors' = Merged(sensors, Merges(e))
         /\ spaceevents' = IF e.type \in SpaceEventTopics
                           THEN Append(spaceevents, [name |-> e.type, old |-> FALSE])
                           ELSE spaceevents
         /\ IF e.type \in ClimateTopics THEN UNCHANGED <<spacestate, handler, installing>>
                                        ELSE publishStateToWeb(FALSE)
  /\ UNCHANGED <<mainVars, spaceapijsonbytes>>

(* Mutant: the ticker cleans the lists and publishes nothing. *)
TickQuiet ==
  /\ handler.at = "select"
  /\ spaceevents' = CleanOutdatedSpaceEvents(spaceevents)
  /\ sensors' = [l \in DOMAIN sensors |-> CleanOutdatedSensorData(sensors[l])]
  /\ UNCHANGED <<mainVars, events_to_status_chan, statusstate, having_fun, spacestate,
                 handler, installing, spaceapijsonbytes>>

Tick ==
  /\ handler.at = "select"
  /\ spaceevents' = CleanOutdatedSpaceEvents(spaceevents)
  /\ sensors' = [l \in DOMAIN sensors |-> CleanOutdatedSensorData(sensors[l])]
  /\ UNCHANGED <<statusstate, having_fun>>
  /\ publishStateToWeb(FALSE)
  /\ UNCHANGED <<mainVars, events_to_status_chan, spaceapijsonbytes>>
-----------------------------------------------------------------------------
(* Time passes: an hour after the button, the validity of an event, and    *)
(* fifteen minutes after a measurement.                                    *)

FunEnds ==
  /\ having_fun /\ having_fun' = FALSE
  /\ UNCHANGED <<mainVars, events_to_status_chan, statusstate, sensors, spaceevents,
                 spacestate, handler, installing, spaceapijsonbytes>>

EventEnds(i) ==
  /\ i \in DOMAIN spaceevents /\ ~spaceevents[i].old
  /\ spaceevents' = [spaceevents EXCEPT ![i].old = TRUE]
  /\ UNCHANGED <<mainVars, events_to_status_chan, statusstate, having_fun, sensors,
                 spacestate, handler, installing, spaceapijsonbytes>>

SensorAges(l, i) ==
  /\ i \in DOMAIN sensors[l] /\ ~sensors[l][i].old
  /\ sensors' = [sensors EXCEPT ![l][i].old = TRUE]
  /\ UNCHANGED <<mainVars, events_to_status_chan, statusstate, having_fun, spaceevents,
                 spacestate, handler, installing, spaceapijsonbytes>>
-----------------------------------------------------------------------------
(* Start and end of the process. *)

BrokerReached ==
  /\ handler.at = "connect"
  /\ handler' = [handler EXCEPT !.at = "select"]
  /\ UNCHANGED <<mainVars, events_to_status_chan, documentVars, spacestate, installing,
                 spaceapijsonbytes>>

(* publishStateNotKnown: the state it sets does not survive its second     *)
(* statement, in which everything but spacestate is as it was.             *)
BrokerNotReached ==
  /\ handler.at = "connect"
  /\ UNCHANGED documentVars
  /\ publishStateToWeb(TRUE)
  /\ UNCHANGED <<mainVars, events_to_status_chan, spaceapijsonbytes>>

Nobody     == [present |-> FALSE, space1present |-> FALSE, space2present |-> FALSE]
NoLists    == [l \in TimedLists \cup UntimedLists |-> <<>>]
Connecting == [at |-> "connect", exits |-> FALSE]

StatusInit ==
  /\ arrives \in Scenarios
  /\ forwarding = <<>> /\ events_to_status_chan = <<>> /\ reported = Unread("presence")
  /\ statusstate = Nobody /\ having_fun = FALSE
  /\ sensors = NoLists /\ spaceevents = <<>> /\ spacestate = NoState
  /\ handler = Connecting /\ installing = <<>> /\ spaceapijsonbytes = NoState

(* systemd starts the process again, which had not seen any message. *)
RestartStatus ==
  /\ handler.at = "exited"
  /\ spacestate' = NoState
  /\ handler' = Connecting /\ installing' = <<>> /\ spaceapijsonbytes' = NoState
  /\ UNCHANGED <<mainVars, events_to_status_chan, documentVars>>
-----------------------------------------------------------------------------
Main       == ReceiveMessage \/ Forward
EventToWeb == TakeEvent \/ Tick \/ GotSession \/ SendEnds
Installs   == \E i \in 1 .. MaxInstalls : Install(i)
Time       == \/ FunEnds
              \/ \E i \in 1 .. MaxSpaceEvents : EventEnds(i)
              \/ \E l \in TimedLists : \E i \in DOMAIN sensors[l] : SensorAges(l, i)
Process    == BrokerReached \/ BrokerNotReached \/ RestartStatus

StatusNext == Main \/ EventToWeb \/ Installs \/ Time \/ Process

NanAges == \E l \in TimedLists : \E i \in DOMAIN sensors[l] :
             sensors[l][i].nan /\ SensorAges(l, i)

(* The goroutines run; the publication waits for a session no longer than  *)
(* StatusSessions lets it, and four seconds for it to be sent; the select  *)
(* takes a tick in the end.  A number that was no number becomes too old.  *)
StatusFairness ==
  /\ WF_statusVars(Forward) /\ WF_statusVars(Install(1))
  /\ WF_statusVars(GotSession) /\ WF_statusVars(SendEnds)
  /\ SF_statusVars(TakeEvent) /\ SF_statusVars(Tick)
  /\ WF_statusVars(NanAges)

StatusSpec == StatusInit /\ [][StatusNext]_statusVars /\ StatusFairness
-----------------------------------------------------------------------------
(* What the web server should show. *)
Due == StateOf(statusstate, having_fun)

Serving  == handler.at \in {"select", "ask", "send"} /\ ~handler.exits
NanFresh == \E l \in TimedLists : \E i \in DOMAIN sensors[l] :
              sensors[l][i].nan /\ ~sensors[l][i].old

(* When presence and button settle, and no sensor reports a number that is *)
(* none, the web server ends up showing what they say: goroutines that     *)
(* install in the wrong order, events that were merged but not published   *)
(* and documents that could not be made are made up for by the ticker.     *)
StatusSettles ==
  (<>[]Serving /\ <>[][Due' = Due /\ (NanFresh' => NanFresh)]_statusVars)
    => <>[](spaceapijsonbytes = Due)

(* The last presence message that was intact is on its way to EventToWeb   *)
(* or is what EventToWeb goes by: none is overtaken, dropped while         *)
(* EventToWeb waits for the web, or replaced by a message that was not.    *)
PresenceNeverLost ==
  LET underway == events_to_status_chan \o forwarding
      news     == {i \in DOMAIN underway : underway[i].type = "presence"}
  IN  \/ /\ news = {}
         /\ statusstate.space1present = ("space1" \in reported)
         /\ statusstate.space2present = ("space2" \in reported)
      \/ \E i \in news : underway[i].says = reported /\ \A j \in news : j <= i

(* A tick takes from the lists what is too old and nothing else, keeps the *)
(* order of the sensors, and does not lose an event it moves.  Nothing but *)
(* a tick takes anything.                                                  *)
KeepsTheRest(after, before) ==
  \E from \in [DOMAIN after -> DOMAIN before] :
    /\ {from[i] : i \in DOMAIN after} = {i \in DOMAIN before : ~before[i].old}
    /\ \A i, j \in DOMAIN after : from[i] = from[j] => i = j
    /\ \A i \in DOMAIN after : after[i] = before[from[i]]

KeepsTheRestInOrder(after, before) ==
  \E from \in [DOMAIN after -> DOMAIN before] :
    /\ {from[i] : i \in DOMAIN after} = {i \in DOMAIN before : ~before[i].old}
    /\ \A i, j \in DOMAIN after : i < j => from[i] < from[j]
    /\ \A i \in DOMAIN after : after[i] = before[from[i]]

CleaningKeepsTheRest ==
  [][/\ \A l \in DOMAIN sensors :
          Tick \/ Len(sensors'[l]) < Len(sensors[l])
            => KeepsTheRestInOrder(sensors'[l], sensors[l])
     /\ Tick \/ Len(spaceevents') < Len(spaceevents)
          => KeepsTheRest(spaceevents', spaceevents)]_statusVars
-----------------------------------------------------------------------------
(* A statement of the source that the code does not keep. *)

(* "MQTT can't be reached....  upload a fallback Status JSON then exit"    *)
(* (main), which publishStateNotKnown says is "Status Unknown".            *)
FallbackStatusIsUnknown ==
  handler.exits /\ handler.at = "send" => spacestate.open = "unknown"
=============================================================================
