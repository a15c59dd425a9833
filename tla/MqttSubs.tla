------------------------------ MODULE MqttSubs ------------------------------
(***************************************************************************)
(* goutils/mqtt_subs.go: subscriptions that survive a reconnect.  A topic  *)
(* that was subscribed is remembered when the broker has granted it; the   *)
(* client library runs mqttOnConnectionHandler in a goroutine of its own   *)
(* for each connection, which subscribes all that is remembered again.     *)
(* Who subscribes is RunXMPPBotForever of r3-xmppbot: each bot subscribes  *)
(* when it starts and unsubscribes when it stops.                          *)
(*                                                                         *)
(* External: the client library and the broker, which forgets the          *)
(* subscriptions of a connection with it (clean session) and answers the   *)
(* packets of a connection in their order.  A request without a connection *)
(* and a request that loses its connection end in an error; then the       *)
(* process exits (Fatalf) and is started again.                            *)
(***************************************************************************)
EXTENDS Integers, Sequences

CONSTANTS
  Topics,           \* the topics a bot subscribes
  Granted,          \* those of them that the broker grants
  MaxConnections    \* bound: connections in a life of the process

ASSUME SubsAssumption ==
  /\ Granted \subseteq Topics
  /\ MaxConnections \in Nat \ {0}

Connections == 1 .. MaxConnections
Bot == 0                  \* who sent a packet, if not the handler of a connection

VARIABLES
  mqtt_topics_we_subscribed_,
  bot,              \* where RunXMPPBotForever stands
  handler,          \* where the handler of each connection stands
  connections,      \* how many connections there have been
  connected,        \* is the last of them up?
  wire,             \* external: the packets on their way to the broker
  subscribed,       \* external: the topics the broker sends
  routes,           \* external: the topics with a callback
  stale             \* history: the connection that granted the topics is lost,
                    \* and since then a handler has not found them remembered

subsVars == <<mqtt_topics_we_subscribed_, bot, handler, connections, connected, wire,
              subscribed, routes, stale>>

connectionVars == <<connections, connected>>

Packets == [sub : BOOLEAN, topics : SUBSET Topics, by : {Bot} \cup Connections]

SubsTypeOK ==
  /\ mqtt_topics_we_subscribed_ \subseteq Granted
  /\ bot \in {"connect", "idle", "subscribing", "adding", "running", "removing"}
  /\ handler \in [Connections -> {"none", "started", "waiting", "done"}]
  /\ connections \in 0 .. MaxConnections
  /\ connected \in BOOLEAN
  /\ wire \in Seq(Packets)
  /\ subscribed \subseteq Granted
  /\ routes \subseteq Topics
  /\ stale \in {"no", "granted", "missed"}

NoHandlers == [k \in Connections |-> "none"]

SubsInit ==
  /\ mqtt_topics_we_subscribed_ = {}
  /\ bot = "connect"
  /\ handler = NoHandlers
  /\ connections = 0 /\ connected = FALSE
  /\ wire = <<>> /\ subscribed = {} /\ routes = {}
  /\ stale = "no"

(* The process ends at any moment, or of a request that failed; all is gone*)
(* with it, at the broker too.                                             *)
Exit ==
  /\ mqtt_topics_we_subscribed_' = {}
  /\ bot' = "connect"
  /\ handler' = NoHandlers
  /\ connections' = 0 /\ connected' = FALSE
  /\ wire' = <<>> /\ subscribed' = {} /\ routes' = {}
  /\ stale' = "no"

(* The handler holds the read lock while it waits for the broker. *)
ReadLocked == \E k \in Connections : handler[k] = "waiting"
-----------------------------------------------------------------------------
(* RunXMPPBotForever *)

(* ConnectMQTTBroker has returned; without a connection it returns nil,    *)
(* which the first use of it does not survive.                             *)
ConnectMQTTBroker ==
  /\ bot = "connect" /\ connections > 0
  /\ bot' = "idle"
  /\ UNCHANGED <<mqtt_topics_we_subscribed_, handler, connectionVars, wire, subscribed,
                 routes, stale>>

(* The library attaches the callback when it sends the packet. *)
SubscribeMultiple ==
  /\ bot = "idle"
  /\ IF connected
     THEN /\ wire' = Append(wire, [sub |-> TRUE, topics |-> Topics, by |-> Bot])
          /\ routes' = routes \cup Topics
          /\ bot' = "subscribing"
          /\ UNCHANGED <<mqtt_topics_we_subscribed_, handler, connectionVars, subscribed,
                         stale>>
     ELSE Exit

(* What was refused is not remembered. *)
addSubscribedTopics ==
  /\ bot = "adding" /\ ~ReadLocked
  /\ mqtt_topics_we_subscribed_' = mqtt_topics_we_subscribed_ \cup Granted
  /\ bot' = "running"
  /\ UNCHANGED <<handler, connectionVars, wire, subscribed, routes, stale>>

(* The bot stops: its topics are unsubscribed, whether that succeeds or    *)
(* not, and nobody waits for the broker.                                   *)
UnsubscribeMultiple ==
  /\ bot = "running"
  /\ bot' = "removing"
  /\ IF connected
     THEN /\ wire' = Append(wire, [sub |-> FALSE, topics |-> Topics, by |-> Bot])
          /\ routes' = routes \ Topics
     ELSE UNCHANGED <<wire, routes>>
  /\ UNCHANGED <<mqtt_topics_we_subscribed_, handler, connectionVars, subscribed, stale>>

removeSubscribedTopic ==
  /\ bot = "removing" /\ ~ReadLocked
  /\ \E topic \in mqtt_topics_we_subscribed_ :
       mqtt_topics_we_subscribed_' = mqtt_topics_we_subscribed_ \ {topic}
  /\ UNCHANGED <<bot, handler, connectionVars, wire, subscribed, routes, stale>>

BotRests ==
  /\ bot = "removing" /\ mqtt_topics_we_subscribed_ = {}
  /\ bot' = "idle" /\ stale' = "no"
  /\ UNCHANGED <<mqtt_topics_we_subscribed_, handler, connectionVars, wire, subscribed,
                 routes>>
-----------------------------------------------------------------------------
(* mqttOnConnectionHandler of connection k *)

(* Mutant: only the first connection subscribes what is remembered. *)
ResubscribesOnce(k) ==
  /\ handler[k] = "started"
  /\ handler' = [handler EXCEPT ![k] = "done"]
  /\ stale' = IF stale = "granted" THEN "missed" ELSE stale
  /\ UNCHANGED <<mqtt_topics_we_subscribed_, bot, connectionVars, wire, subscribed, routes>>

(* The topics are read under the lock and sent without a callback: those   *)
(* attached before stay.                                                   *)
Resubscribes(k) ==
  /\ handler[k] = "started"
  /\ IF mqtt_topics_we_subscribed_ = {}
     THEN /\ handler' = [handler EXCEPT ![k] = "done"]
          /\ stale' = IF stale = "granted" THEN "missed" ELSE stale
          /\ UNCHANGED <<mqtt_topics_we_subscribed_, bot, connectionVars, wire, subscribed,
                         routes>>
     ELSE IF connected
     THEN /\ handler' = [handler EXCEPT ![k] = "waiting"]
          /\ wire' = Append(wire, [sub |-> TRUE, topics |-> mqtt_topics_we_subscribed_,
                                   by |-> k])
          /\ UNCHANGED <<mqtt_topics_we_subscribed_, bot, connectionVars, subscribed, routes,
                         stale>>
     ELSE Exit
-----------------------------------------------------------------------------
(* The broker and the connection *)

(* The broker answers the oldest packet. *)
BrokerAnswers ==
  /\ connected /\ wire # <<>>
  /\ wire' = Tail(wire)
  /\ LET packet == Head(wire)
     IN  /\ subscribed' = IF packet.sub THEN subscribed \cup (packet.topics \cap Granted)
                          ELSE subscribed \ packet.topics
         /\ bot' = IF packet.sub /\ packet.by = Bot THEN "adding" ELSE bot
         /\ handler' = IF packet.by = Bot THEN handler
                       ELSE [handler EXCEPT ![packet.by] = "done"]
  /\ UNCHANGED <<mqtt_topics_we_subscribed_, connectionVars, routes, stale>>

(* Who waits for the broker gets an error. *)
ConnectionLost ==
  /\ connected
  /\ IF \E i \in DOMAIN wire : wire[i].sub
     THEN Exit
     ELSE /\ connected' = FALSE
          /\ wire' = <<>> /\ subscribed' = {}
          /\ stale' = IF bot = "adding" THEN "granted" ELSE stale
          /\ UNCHANGED <<mqtt_topics_we_subscribed_, bot, handler, connections, routes>>

(* The first connection, or the library's next one. *)
Connected ==
  /\ ~connected /\ connections < MaxConnections
  /\ connected' = TRUE /\ connections' = connections + 1
  /\ handler' = [handler EXCEPT ![connections + 1] = "started"]
  /\ UNCHANGED <<mqtt_topics_we_subscribed_, bot, wire, subscribed, routes, stale>>
-----------------------------------------------------------------------------
RunXMPPBotForever ==
  \/ ConnectMQTTBroker \/ SubscribeMultiple \/ addSubscribedTopics
  \/ UnsubscribeMultiple \/ removeSubscribedTopic \/ BotRests

SubsNext ==
  \/ RunXMPPBotForever
  \/ \E k \in Connections : Resubscribes(k)
  \/ BrokerAnswers \/ ConnectionLost \/ Connected
  \/ Exit

SubsSpec == SubsInit /\ [][SubsNext]_subsVars
-----------------------------------------------------------------------------
Settled ==
  /\ bot = "running" /\ connected /\ wire = <<>>
  /\ \A k \in Connections : handler[k] # "started"

(* Whenever a bot runs, the connection is up and nothing is under way, the *)
(* broker sends the bot's topics and their messages reach it: through any  *)
(* number of reconnects, handlers that are late, and bots that stopped.    *)
(* There is one exception: the connection that granted the topics was lost *)
(* before they were remembered, and a handler looked in between.           *)
SubscriptionsSurvive ==
  Settled /\ stale # "missed" => Granted \subseteq subscribed \cap routes
=============================================================================
