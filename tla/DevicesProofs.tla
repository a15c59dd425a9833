--------------------------- MODULE DevicesProofs ---------------------------
(***************************************************************************)
(* Proofs about the programs of MCDevices: the cache of the key file, the  *)
(* backdoor node, the remembered subscriptions, the ssh sessions and the   *)
(* programming of the keys, for every value of the constants.              *)
(***************************************************************************)
EXTENDS MCDevices, DataLemmas, TLAPS

(* The key file and the short messages of the node *)

(* What LoadKeysFileIfNeeded relies on between two statements, and what it *)
(* leaves behind: a map whose file has the remembered time is the file's,  *)
(* unless the file was touched in one of the three ways.                   *)
MapKeepsUp ==
  loading.at \in {"idle", "stat"} =>
    (file.mtime = file_mtime => key_nick_map = file.version \/ touched # {})

OpenedKeepsUp ==
  loading.at = "read" =>
    (file.mtime = file_mtime => loading.version = file.version \/ touched # {})

OpenedIsCurrent ==
  loading.at = "read" /\ answered = "none" => loading.version = file.version

AnswersAtTheEnd == loading.at # "idle" => answered \in {"none", "overtaken"}

KeysInv ==
  KeysTypeOK /\ MapKeepsUp /\ OpenedKeepsUp /\ OpenedIsCurrent /\ AnswersAtTheEnd
             /\ LookupIsCurrent

LEMMA KeysInitInv == KeysInit => KeysInv
BY KeysAssumption
   DEF KeysInit, KeysInv, KeysTypeOK, MapKeepsUp, OpenedKeepsUp, OpenedIsCurrent,
       AnswersAtTheEnd, LookupIsCurrent, Stat, Loading, Maps, Versions, NoKeys

LEMMA SecondsAreNumbers == \A s \in {0} \cup Now : s \in Int
BY KeysAssumption

(* The file and the fields of loading keep their types in every step. *)
LEMMA KeysTypeStep == KeysTypeOK /\ [KeysNext]_keysVars => KeysTypeOK'
<1> SUFFICES ASSUME KeysTypeOK, [KeysNext]_keysVars PROVE KeysTypeOK'
  OBVIOUS
<1> USE KeysAssumption DEF KeysTypeOK, Maps, Versions, NoKeys
<1>1. CASE LookupHexKeyNick
  BY <1>1 DEF LookupHexKeyNick, Stat, Loading, fileVars
<1>2. CASE getFileMTime
  <2>1. loading' \in {Idle, Loading("open", file.mtime, NoKeys)}
    BY <1>2 DEF getFileMTime, Ends
  <2>2. answered' \in {"none", "map", "error", "overtaken"}
    BY <1>2 DEF getFileMTime, Ends
  <2> QED
    BY <1>2, <2>1, <2>2 DEF getFileMTime, Idle, Loading, fileVars
<1>3. CASE OpenFile
  <2>1. loading' \in {Idle, Loading("read", loading.mtime, file.version)}
    BY <1>3 DEF OpenFile, Ends
  <2>2. answered' \in {"none", "map", "error", "overtaken"}
    BY <1>3 DEF OpenFile, Ends
  <2> QED
    BY <1>3, <2>1, <2>2 DEF OpenFile, Idle, Loading, fileVars
<1>4. CASE ReadKeys
  BY <1>4 DEF ReadKeys, Ends, Stat, Idle, Loading, fileVars
<1>10. CASE ReadingStops
  BY <1>10 DEF ReadingStops, Ends, Stat, Idle, Loading, fileVars
<1>5. CASE FileChanges
  BY <1>5 DEF FileChanges
<1>6. CASE FileComesAndGoes
  BY <1>6 DEF FileComesAndGoes
<1>7. CASE TimePasses
  BY <1>7 DEF TimePasses
<1>8. CASE NewKeyNickStore
  BY <1>8 DEF NewKeyNickStore, Stat, Loading, fileVars
<1>9. CASE UNCHANGED keysVars
  BY <1>9 DEF keysVars
<1> QED
  BY <1>1, <1>2, <1>3, <1>4, <1>5, <1>6, <1>7, <1>8, <1>9, <1>10 DEF KeysNext

LEMMA KeysNextInv == KeysInv /\ [KeysNext]_keysVars => KeysInv'
<1> SUFFICES ASSUME KeysInv, [KeysNext]_keysVars PROVE KeysInv'
  OBVIOUS
<1>0. KeysTypeOK /\ KeysTypeOK'
  BY KeysTypeStep DEF KeysInv
<1> USE DEF KeysInv, MapKeepsUp, OpenedKeepsUp, OpenedIsCurrent, AnswersAtTheEnd,
            LookupIsCurrent
<1>1. CASE LookupHexKeyNick
  BY <1>0, <1>1 DEF LookupHexKeyNick, Stat, Loading, fileVars
<1>2. CASE getFileMTime
  <2>1. file.mtime \in Now /\ file_mtime \in {0} \cup Now
    BY <1>0 DEF KeysTypeOK
  <2>2. file.mtime \in Int /\ file_mtime \in Int
    BY <2>1, SecondsAreNumbers
  <2>3. CASE ~file.there
    BY <1>0, <1>2, <2>3 DEF getFileMTime, Ends, Idle, Loading, fileVars
  <2>4. CASE file.there /\ file.mtime <= file_mtime
    <3>1. file.mtime = file_mtime \/ file.mtime < file_mtime
      BY <2>2, <2>4
    <3> QED
      BY <1>0, <1>2, <2>4, <3>1 DEF getFileMTime, Ends, Idle, Loading, fileVars
  <2>5. CASE file.there /\ ~(file.mtime <= file_mtime)
    BY <1>0, <1>2, <2>5 DEF getFileMTime, Idle, Loading, fileVars
  <2> QED
    BY <2>3, <2>4, <2>5
<1>3. CASE OpenFile
  BY <1>0, <1>3 DEF OpenFile, Ends, Idle, Loading, fileVars
<1>4. CASE ReadKeys
  BY <1>0, <1>4 DEF ReadKeys, Ends, Stat, Idle, Loading, fileVars
<1>10. CASE ReadingStops
  BY <1>0, <1>10 DEF ReadingStops, Ends, Stat, Idle, Loading, fileVars
<1>5. CASE FileChanges
  BY <1>0, <1>5 DEF FileChanges, Remembered
<1>6. CASE FileComesAndGoes
  <2>1. file'.version = file.version /\ file'.mtime = file.mtime
    BY <1>0, <1>6 DEF FileComesAndGoes, KeysTypeOK
  <2> QED
    BY <1>0, <1>6, <2>1 DEF FileComesAndGoes
<1>7. CASE TimePasses
  BY <1>0, <1>7 DEF TimePasses
<1>8. CASE NewKeyNickStore
  <2>1. file.mtime # 0
    BY <1>0, KeysAssumption DEF KeysTypeOK
  <2> QED
    BY <1>0, <1>8, <2>1 DEF NewKeyNickStore, Stat, Loading, fileVars
<1>9. CASE UNCHANGED keysVars
  BY <1>0, <1>9 DEF keysVars
<1> QED
  BY <1>1, <1>2, <1>3, <1>4, <1>5, <1>6, <1>7, <1>8, <1>9, <1>10 DEF KeysNext

(* Whatever happens to the file and whenever it happens, a lookup while    *)
(* the file rests goes by all that is in it, but for the four cases.       *)
THEOREM LookupsAreCurrent == KeysSpec => []LookupIsCurrent
<1>1. KeysInv => LookupIsCurrent
  BY DEF KeysInv
<1> QED
  BY <1>1, KeysInitInv, KeysNextInv, PTL DEF KeysSpec
-----------------------------------------------------------------------------
(* The remembered subscriptions *)

(* SubsTypeOK as far as the proof needs it. *)
WireIsSeq == wire \in Seq(Packets)

LastIsAConnection ==
  /\ connections \in Nat /\ connections <= MaxConnections
  /\ DOMAIN handler = Connections
  /\ connected => connections \in Connections

(* A bot's callbacks are attached from its subscribing to its stop. *)
CallbacksAttached == bot \in {"subscribing", "adding", "running"} => Topics \subseteq routes

(* What is remembered belongs to a bot that runs or stops. *)
RememberedByBot ==
  /\ bot \in {"connect", "idle", "subscribing", "adding"} => mqtt_topics_we_subscribed_ = {}
  /\ bot = "running" => mqtt_topics_we_subscribed_ = Granted
  /\ mqtt_topics_we_subscribed_ \subseteq Granted

(* Nothing behind a bot's request undoes it. *)
BotsPacketIsLast ==
  \A i \in DOMAIN wire :
    wire[i].sub /\ wire[i].by = Bot =>
      /\ bot = "subscribing" /\ wire[i].topics = Topics
      /\ \A j \in DOMAIN wire : j > i => wire[j].sub /\ wire[j].by # Bot

NothingUndone == bot \in {"adding", "running"} => \A i \in DOMAIN wire : wire[i].sub

(* A handler that sent a packet is no longer about to start. *)
SendersStarted ==
  \A i \in DOMAIN wire :
    wire[i].by # Bot => wire[i].by \in Connections /\ handler[wire[i].by] # "started"

(* The topics are subscribed, or will be when the handler of the last      *)
(* connection runs or the broker answers it.                               *)
Served ==
  \/ Granted \subseteq subscribed
  \/ handler[connections] = "started"
  \/ \E i \in DOMAIN wire : wire[i].sub /\ Granted \subseteq wire[i].topics

RunningIsServed ==
  bot \in {"adding", "running"} /\ connected /\ stale # "missed" => Served

(* Until a connection is lost the grant of the broker stands. *)
GrantStands ==
  bot = "adding" /\ stale = "no" => connected /\ Granted \subseteq subscribed

(* A connection that is lost takes its packets with it. *)
WireNeedsConnection == ~connected => wire = <<>>

StaleType == stale \in {"no", "granted", "missed"}

SubsInv ==
  /\ WireIsSeq /\ LastIsAConnection /\ CallbacksAttached /\ RememberedByBot
  /\ BotsPacketIsLast /\ NothingUndone /\ SendersStarted
  /\ RunningIsServed /\ GrantStands /\ StaleType /\ WireNeedsConnection
-----------------------------------------------------------------------------
LEMMA Sequences ==
  /\ \A s, p : s \in Seq(Packets) /\ p \in Packets =>
       /\ Append(s, p) \in Seq(Packets)
       /\ DOMAIN Append(s, p) = 1 .. Len(s) + 1
       /\ DOMAIN s = 1 .. Len(s) /\ Len(s) \in Nat
       /\ Append(s, p)[Len(s) + 1] = p
       /\ \A i \in 1 .. Len(s) : Append(s, p)[i] = s[i]
  /\ \A s : s \in Seq(Packets) /\ s # <<>> =>
       /\ Tail(s) \in Seq(Packets) /\ Head(s) = s[1]
       /\ DOMAIN s = 1 .. Len(s) /\ Len(s) \in Nat /\ 1 \in DOMAIN s
       /\ DOMAIN Tail(s) = 1 .. Len(s) - 1
       /\ \A i \in 1 .. Len(s) - 1 : Tail(s)[i] = s[i + 1]
OBVIOUS

LEMMA SubsInitInv == SubsInit => SubsInv
BY SubsAssumption
   DEF SubsInit, SubsInv, WireIsSeq, LastIsAConnection, CallbacksAttached, RememberedByBot,
       BotsPacketIsLast, NothingUndone, SendersStarted, RunningIsServed, GrantStands,
       StaleType, WireNeedsConnection, NoHandlers, Connections

LEMMA ExitInv == Exit => SubsInv'
BY SubsAssumption
   DEF Exit, SubsInv, WireIsSeq, LastIsAConnection, CallbacksAttached, RememberedByBot,
       BotsPacketIsLast, NothingUndone, SendersStarted, RunningIsServed, GrantStands,
       StaleType, WireNeedsConnection, NoHandlers, Connections

(* A packet joins the wire: a request of the bot when nothing but the end  *)
(* of the queue is behind it, or any packet of a handler that has started. *)
LEMMA Sent ==
  ASSUME SubsInv, NEW p \in Packets, wire' = Append(wire, p),
         p.sub \/ bot' \notin {"adding", "running"},
         bot' = bot \/ (p.by = Bot /\ p.sub /\ bot = "idle" /\ bot' = "subscribing")
                    \/ (p.by = Bot /\ ~p.sub /\ bot = "running"),
         p.sub /\ p.by = Bot => bot = "idle" /\ bot' = "subscribing" /\ p.topics = Topics,
         ~p.sub => bot' # "subscribing",
         p.by # Bot => p.by \in Connections /\ handler'[p.by] # "started",
         \A k \in Connections : handler[k] # "started" => handler'[k] # "started"
  PROVE  WireIsSeq' /\ BotsPacketIsLast' /\ NothingUndone' /\ SendersStarted'
<1>1. WireIsSeq'
  BY Sequences DEF SubsInv, WireIsSeq
<1>2. /\ DOMAIN wire' = 1 .. Len(wire) + 1 /\ DOMAIN wire = 1 .. Len(wire)
      /\ Len(wire) \in Nat
      /\ wire'[Len(wire) + 1] = p /\ \A i \in 1 .. Len(wire) : wire'[i] = wire[i]
  BY Sequences DEF SubsInv, WireIsSeq
<1>3. \A i \in DOMAIN wire' : i \in DOMAIN wire \/ i = Len(wire) + 1
  BY <1>2
<1>4. BotsPacketIsLast'
  <2> SUFFICES ASSUME NEW i \in DOMAIN wire', wire'[i].sub, wire'[i].by = Bot
               PROVE  /\ bot' = "subscribing" /\ wire'[i].topics = Topics
                      /\ \A j \in DOMAIN wire' : j > i => wire'[j].sub /\ wire'[j].by # Bot
    BY DEF BotsPacketIsLast
  <2>1. CASE i = Len(wire) + 1
    <3>1. \A j \in DOMAIN wire' : ~(j > i)
      BY <1>2, <2>1
    <3> QED
      BY <1>2, <2>1, <3>1
  <2>2. CASE i \in DOMAIN wire
    <3>1. wire[i].sub /\ wire[i].by = Bot
      BY <1>2, <2>2
    <3>2. /\ bot = "subscribing" /\ wire[i].topics = Topics
          /\ \A j \in DOMAIN wire : j > i => wire[j].sub /\ wire[j].by # Bot
      BY <2>2, <3>1 DEF SubsInv, BotsPacketIsLast
    <3>3. bot' = bot
      BY <3>2
    <3>4. p.sub /\ p.by # Bot
      BY <3>2, <3>3, <2>2, <3>1
    <3> QED
      BY <1>2, <1>3, <2>2, <3>2, <3>3, <3>4
  <2> QED
    BY <1>3, <2>1, <2>2
<1>5. NothingUndone'
  <2> SUFFICES ASSUME bot' \in {"adding", "running"}, NEW i \in DOMAIN wire'
               PROVE  wire'[i].sub
    BY DEF NothingUndone
  <2>1. bot' = bot /\ p.sub
    OBVIOUS
  <2> QED
    BY <1>2, <1>3, <2>1 DEF SubsInv, NothingUndone
<1>6. SendersStarted'
  BY <1>2, <1>3 DEF SubsInv, SendersStarted
<1> QED
  BY <1>1, <1>4, <1>5, <1>6

(* A step that leaves the wire alone. *)
LEMMA WireRests ==
  ASSUME SubsInv, wire' = wire,
         bot' # bot => bot # "subscribing" /\ bot' # "adding" /\ (bot' = "running" => bot = "adding"),
         \A k \in Connections : handler[k] # "started" => handler'[k] # "started"
  PROVE  WireIsSeq' /\ BotsPacketIsLast' /\ NothingUndone' /\ SendersStarted'
BY DEF SubsInv, WireIsSeq, BotsPacketIsLast, NothingUndone, SendersStarted

LEMMA BotStepInv ==
  SubsInv /\ RunXMPPBotForever => SubsInv'
<1> SUFFICES ASSUME SubsInv, RunXMPPBotForever PROVE SubsInv'
  OBVIOUS
<1> USE DEF connectionVars
<1>1. CASE ConnectMQTTBroker
  <2>1. WireIsSeq' /\ BotsPacketIsLast' /\ NothingUndone' /\ SendersStarted'
    BY <1>1, WireRests DEF ConnectMQTTBroker
  <2> QED
    BY <1>1, <2>1
       DEF ConnectMQTTBroker, SubsInv, LastIsAConnection, CallbacksAttached, RememberedByBot,
           RunningIsServed, GrantStands, StaleType, WireNeedsConnection
<1>2. CASE SubscribeMultiple
  <2>1. CASE ~connected
    BY <1>2, <2>1, ExitInv DEF SubscribeMultiple
  <2>2. CASE connected
    <3> DEFINE p == [sub |-> TRUE, topics |-> Topics, by |-> Bot]
    <3>1. p \in Packets /\ p.sub /\ p.topics = Topics /\ p.by = Bot
      BY DEF Packets
    <3>2. wire' = Append(wire, p) /\ bot = "idle" /\ bot' = "subscribing"
      BY <1>2, <2>2 DEF SubscribeMultiple
    <3>3. WireIsSeq' /\ BotsPacketIsLast' /\ NothingUndone' /\ SendersStarted'
      <4> HIDE DEF p
      <4>1. UNCHANGED handler
        BY <1>2, <2>2 DEF SubscribeMultiple
      <4> QED
        BY <3>1, <3>2, <4>1, Sent
    <3> QED
      BY <1>2, <2>2, <3>3
         DEF SubscribeMultiple, SubsInv, LastIsAConnection, CallbacksAttached,
             RememberedByBot, RunningIsServed, GrantStands, StaleType, WireNeedsConnection
  <2> QED
    BY <2>1, <2>2
<1>3. CASE addSubscribedTopics
  <2>1. WireIsSeq' /\ BotsPacketIsLast' /\ NothingUndone' /\ SendersStarted'
    BY <1>3, WireRests DEF addSubscribedTopics
  <2> QED
    BY <1>3, <2>1
       DEF addSubscribedTopics, SubsInv, LastIsAConnection, CallbacksAttached,
           RememberedByBot, RunningIsServed, GrantStands, StaleType, Served,
           WireNeedsConnection
<1>4. CASE UnsubscribeMultiple
  <2>1. WireIsSeq' /\ BotsPacketIsLast' /\ NothingUndone' /\ SendersStarted'
    <3>1. CASE ~connected
      BY <1>4, <3>1, WireRests DEF UnsubscribeMultiple
    <3>2. CASE connected
      <4> DEFINE p == [sub |-> FALSE, topics |-> Topics, by |-> Bot]
      <4>1. p \in Packets /\ ~p.sub /\ p.by = Bot
        BY DEF Packets
      <4>2. wire' = Append(wire, p) /\ bot = "running" /\ bot' = "removing" /\ UNCHANGED handler
        BY <1>4, <3>2 DEF UnsubscribeMultiple
      <4> HIDE DEF p
      <4> QED
        BY <4>1, <4>2, Sent
    <3> QED
      BY <3>1, <3>2
  <2> QED
    BY <1>4, <2>1
       DEF UnsubscribeMultiple, SubsInv, LastIsAConnection, CallbacksAttached,
           RememberedByBot, RunningIsServed, GrantStands, StaleType, WireNeedsConnection
<1>5. CASE removeSubscribedTopic
  <2>1. WireIsSeq' /\ BotsPacketIsLast' /\ NothingUndone' /\ SendersStarted'
    BY <1>5, WireRests DEF removeSubscribedTopic
  <2> QED
    BY <1>5, <2>1
       DEF removeSubscribedTopic, SubsInv, LastIsAConnection, CallbacksAttached,
           RememberedByBot, RunningIsServed, GrantStands, StaleType, WireNeedsConnection
<1>6. CASE BotRests
  <2>1. WireIsSeq' /\ BotsPacketIsLast' /\ NothingUndone' /\ SendersStarted'
    BY <1>6, WireRests DEF BotRests
  <2> QED
    BY <1>6, <2>1
       DEF BotRests, SubsInv, LastIsAConnection, CallbacksAttached,
           RememberedByBot, RunningIsServed, GrantStands, StaleType, WireNeedsConnection
<1> QED
  BY <1>1, <1>2, <1>3, <1>4, <1>5, <1>6 DEF RunXMPPBotForever

LEMMA HandlerStepInv ==
  ASSUME SubsInv, NEW k \in Connections, Resubscribes(k)
  PROVE  SubsInv'
<1> USE DEF connectionVars
<1>1. CASE mqtt_topics_we_subscribed_ = {}
  <2>1. WireIsSeq' /\ BotsPacketIsLast' /\ NothingUndone' /\ SendersStarted'
    BY <1>1, WireRests DEF Resubscribes, SubsInv, LastIsAConnection
  <2>2. RunningIsServed'
    <3> SUFFICES ASSUME bot' \in {"adding", "running"}, connected', stale' # "missed"
                 PROVE  Served'
      BY DEF RunningIsServed
    <3>1. bot' = bot /\ stale = "no"
      BY <1>1 DEF Resubscribes, SubsInv, StaleType
    <3>2. Granted \subseteq subscribed
      BY <1>1, <3>1 DEF SubsInv, GrantStands, RememberedByBot
    <3> QED
      BY <1>1, <3>2 DEF Resubscribes, Served
  <2> QED
    BY <1>1, <2>1, <2>2
       DEF Resubscribes, SubsInv, LastIsAConnection, CallbacksAttached, RememberedByBot,
           GrantStands, StaleType, WireNeedsConnection
<1>2. CASE mqtt_topics_we_subscribed_ # {} /\ connected
  <2> DEFINE p == [sub |-> TRUE, topics |-> mqtt_topics_we_subscribed_, by |-> k]
  <2>1. /\ handler' = [handler EXCEPT ![k] = "waiting"] /\ wire' = Append(wire, p)
        /\ UNCHANGED <<mqtt_topics_we_subscribed_, bot, connections, connected, subscribed,
                       routes, stale>>
    BY <1>2 DEF Resubscribes
  <2>2. bot \notin {"connect", "idle", "subscribing", "adding"}
    BY <1>2 DEF SubsInv, RememberedByBot
  <2>3. p \in Packets /\ p.sub /\ p.by = k /\ p.topics = mqtt_topics_we_subscribed_
    <3>1. mqtt_topics_we_subscribed_ \subseteq Topics
      BY SubsAssumption DEF SubsInv, RememberedByBot
    <3> QED
      BY <3>1 DEF Packets
  <2>4. k # Bot
    BY DEF Connections, Bot
  <2> HIDE DEF p
  <2>5. WireIsSeq' /\ BotsPacketIsLast' /\ NothingUndone' /\ SendersStarted'
    BY <2>1, <2>3, <2>4, Sent DEF SubsInv, LastIsAConnection
  <2>6. RunningIsServed'
    <3> SUFFICES ASSUME bot' \in {"adding", "running"} PROVE Served'
      BY DEF RunningIsServed
    <3>1. mqtt_topics_we_subscribed_ = Granted
      BY <2>1, <2>2 DEF SubsInv, RememberedByBot
    <3>2. Len(wire) + 1 \in DOMAIN wire' /\ wire'[Len(wire) + 1] = p
      BY <2>1, <2>3, Sequences DEF SubsInv, WireIsSeq
    <3> QED
      BY <2>3, <3>1, <3>2 DEF Served
  <2> QED
    BY <1>2, <2>1, <2>5, <2>6
       DEF SubsInv, LastIsAConnection, CallbacksAttached, RememberedByBot,
           GrantStands, StaleType, WireNeedsConnection
<1>3. CASE mqtt_topics_we_subscribed_ # {} /\ ~connected
  BY <1>3, ExitInv DEF Resubscribes
<1> QED
  BY <1>1, <1>2, <1>3

LEMMA AnswerInv == SubsInv /\ BrokerAnswers => SubsInv'
<1> SUFFICES ASSUME SubsInv, BrokerAnswers PROVE SubsInv'
  OBVIOUS
<1> USE DEF connectionVars
<1> DEFINE packet == wire[1]
<1>1. /\ Head(wire) = packet /\ wire' = Tail(wire) /\ wire' \in Seq(Packets)
      /\ DOMAIN wire = 1 .. Len(wire) /\ Len(wire) \in Nat /\ 1 \in DOMAIN wire
      /\ DOMAIN wire' = 1 .. Len(wire) - 1
      /\ \A i \in DOMAIN wire' : wire'[i] = wire[i + 1] /\ i + 1 \in DOMAIN wire
  BY Sequences DEF BrokerAnswers, SubsInv, WireIsSeq
<1>2. /\ subscribed' = IF packet.sub THEN subscribed \cup (packet.topics \cap Granted)
                       ELSE subscribed \ packet.topics
      /\ bot' = IF packet.sub /\ packet.by = Bot THEN "adding" ELSE bot
      /\ handler' = IF packet.by = Bot THEN handler
                    ELSE [handler EXCEPT ![packet.by] = "done"]
      /\ UNCHANGED <<mqtt_topics_we_subscribed_, connections, connected, routes, stale>>
      /\ connected
  BY <1>1 DEF BrokerAnswers
<1> HIDE DEF packet
<1>3. packet.sub /\ packet.by = Bot =>
        /\ bot = "subscribing" /\ packet.topics = Topics
        /\ \A i \in DOMAIN wire' : wire'[i].sub /\ wire'[i].by # Bot
  <2>1. \A i \in DOMAIN wire' : i + 1 > 1
    BY <1>1
  <2> QED
    BY <1>1, <2>1 DEF SubsInv, BotsPacketIsLast, packet
<1>4. BotsPacketIsLast'
  <2> SUFFICES ASSUME NEW i \in DOMAIN wire', wire'[i].sub, wire'[i].by = Bot
               PROVE  /\ bot' = "subscribing" /\ wire'[i].topics = Topics
                      /\ \A j \in DOMAIN wire' : j > i => wire'[j].sub /\ wire'[j].by # Bot
    BY DEF BotsPacketIsLast
  <2>1. /\ bot = "subscribing" /\ wire[i + 1].topics = Topics
        /\ \A j \in DOMAIN wire : j > i + 1 => wire[j].sub /\ wire[j].by # Bot
    BY <1>1 DEF SubsInv, BotsPacketIsLast
  <2>2. bot' = bot
    BY <1>2, <1>3
  <2>3. \A j \in DOMAIN wire' : j > i => j + 1 > i + 1
    BY <1>1
  <2> QED
    BY <1>1, <2>1, <2>2, <2>3
<1>5. NothingUndone'
  BY <1>1, <1>2, <1>3 DEF SubsInv, NothingUndone
<1>6. packet.by # Bot => packet.by \in Connections /\ handler[packet.by] # "started"
  BY <1>1 DEF SubsInv, SendersStarted, packet
<1>7. SendersStarted'
  BY <1>1, <1>2, <1>6 DEF SubsInv, SendersStarted, LastIsAConnection
<1>8. LastIsAConnection'
  BY <1>2 DEF SubsInv, LastIsAConnection
<1>9. bot' = "adding" /\ bot' # bot => Granted \subseteq subscribed'
  BY <1>2, <1>3, SubsAssumption
<1>10. RunningIsServed'
  <2> SUFFICES ASSUME bot' \in {"adding", "running"}, bot' = bot, stale # "missed"
               PROVE  Served'
    BY <1>2, <1>9 DEF RunningIsServed, Served
  <2>1. packet.sub
    BY <1>1 DEF SubsInv, NothingUndone, packet
  <2>2. Served
    BY <1>2 DEF SubsInv, RunningIsServed
  <2>3. CASE Granted \subseteq subscribed
    BY <1>2, <2>1, <2>3 DEF Served
  <2>4. CASE handler[connections] = "started"
    BY <1>2, <1>6, <2>4 DEF Served, SubsInv, LastIsAConnection
  <2>5. ASSUME NEW i \in DOMAIN wire, wire[i].sub, Granted \subseteq wire[i].topics
        PROVE  Served'
    <3>1. CASE i = 1
      BY <1>2, <2>1, <2>5, <3>1 DEF Served, packet
    <3>2. CASE i # 1
      <4>1. i - 1 \in DOMAIN wire' /\ (i - 1) + 1 = i
        BY <1>1, <3>2
      <4> QED
        BY <1>1, <2>5, <4>1 DEF Served
    <3> QED
      BY <3>1, <3>2
  <2> QED
    BY <2>2, <2>3, <2>4, <2>5 DEF Served
<1>11. GrantStands'
  <2>1. CASE bot' = bot
    <3>1. bot = "adding" => packet.sub
      BY <1>1 DEF SubsInv, NothingUndone, packet
    <3> QED
      BY <1>2, <2>1, <3>1 DEF SubsInv, GrantStands
  <2>2. CASE bot' # bot
    BY <1>2, <1>9, <2>2 DEF GrantStands
  <2> QED
    BY <2>1, <2>2
<1> QED
  BY <1>1, <1>2, <1>3, <1>4, <1>5, <1>7, <1>8, <1>10, <1>11
     DEF SubsInv, WireIsSeq, CallbacksAttached, RememberedByBot, StaleType,
         WireNeedsConnection

LEMMA ConnectionStepInv == SubsInv /\ (ConnectionLost \/ Connected) => SubsInv'
<1> SUFFICES ASSUME SubsInv, ConnectionLost \/ Connected PROVE SubsInv'
  OBVIOUS
<1>1. CASE ConnectionLost
  <2>1. CASE \E i \in DOMAIN wire : wire[i].sub
    BY <1>1, <2>1, ExitInv DEF ConnectionLost
  <2>2. CASE ~\E i \in DOMAIN wire : wire[i].sub
    BY <1>1, <2>2
       DEF ConnectionLost, SubsInv, WireIsSeq, LastIsAConnection, CallbacksAttached,
           RememberedByBot, BotsPacketIsLast, NothingUndone, SendersStarted,
           RunningIsServed, GrantStands, StaleType, WireNeedsConnection
  <2> QED
    BY <2>1, <2>2
<1>2. CASE Connected
  <2>1. connections + 1 \in Connections /\ connections' = connections + 1
    BY <1>2, SubsAssumption DEF Connected, SubsInv, LastIsAConnection, Connections
  <2>2. LastIsAConnection'
    BY <1>2, <2>1 DEF Connected, SubsInv, LastIsAConnection, Connections
  <2>3. handler'[connections'] = "started"
    BY <1>2, <2>1 DEF Connected, SubsInv, LastIsAConnection
  <2>4. wire = <<>>
    BY <1>2 DEF Connected, SubsInv, WireNeedsConnection
  <2>5. DOMAIN wire' = {}
    BY <1>2, <2>4 DEF Connected
  <2> QED
    BY <1>2, <2>2, <2>3, <2>4, <2>5
       DEF Connected, SubsInv, WireIsSeq, CallbacksAttached, RememberedByBot,
           BotsPacketIsLast, NothingUndone, SendersStarted, RunningIsServed, Served,
           GrantStands, StaleType, WireNeedsConnection
<1> QED
  BY <1>1, <1>2

LEMMA SubsNextInv == SubsInv /\ [SubsNext]_subsVars => SubsInv'
<1>1. SubsInv /\ UNCHANGED subsVars => SubsInv'
  BY DEF subsVars, SubsInv, WireIsSeq, LastIsAConnection, CallbacksAttached,
         RememberedByBot, BotsPacketIsLast, NothingUndone, SendersStarted,
         RunningIsServed, Served, GrantStands, StaleType, WireNeedsConnection
<1> QED
  BY <1>1, BotStepInv, HandlerStepInv, AnswerInv, ConnectionStepInv, ExitInv DEF SubsNext

(* Whoever reconnects, however often and however late the handlers run, a  *)
(* bot that runs gets its messages, but for the named case.                *)
THEOREM SubscriptionsAlwaysSurvive == SubsSpec => []SubscriptionsSurvive
<1>1. SubsInv => SubscriptionsSurvive
  <2> SUFFICES ASSUME SubsInv, Settled, stale # "missed"
               PROVE  Granted \subseteq subscribed \cap routes
    BY DEF SubscriptionsSurvive
  <2>1. Served
    BY DEF SubsInv, RunningIsServed, Settled
  <2>2. Granted \subseteq subscribed
    BY <2>1 DEF Served, Settled, SubsInv, LastIsAConnection
  <2>3. Granted \subseteq routes
    BY SubsAssumption DEF SubsInv, CallbacksAttached, Settled
  <2> QED
    BY <2>2, <2>3
<1> QED
  BY <1>1, SubsInitInv, SubsNextInv, PTL DEF SubsSpec
-----------------------------------------------------------------------------
(* The ssh sessions *)

LEMMA Numbers ==
  /\ \A a \in Attempts : a \in Int /\ a # 0 /\ RequestOf(a) \in Requests
  /\ \A a \in Attempts : ~IsLast(a) => a + 1 \in Attempts
  /\ \A s \in {0} \cup Attempts : RequestOf(s) < MaxRequests =>
       2 * RequestOf(s) + 1 \in Attempts /\ 2 * RequestOf(s) + 1 > s
BY SessionsAssumption DEF Attempts, Requests, RequestOf, IsLast

(* The types, but for the bound of timeouts, which needs the next. *)
SessionsShape ==
  /\ request \in {"none", "asked", "session", "nil"}
  /\ attempt \in {0} \cup Attempts
  /\ started \in {0} \cup Attempts
  /\ ssh_webstatus_client \in {NoClient} \cup Attempts
  /\ err \in [Requests -> BOOLEAN]
  /\ at \in [Attempts -> Places]
  /\ outcome \in {"none", "session", "error", "nilError"}
  /\ on \in {NoClient} \cup Attempts
  /\ open \subseteq Attempts
  /\ timeouts \in Nat
  /\ crashed \in BOOLEAN

(* The attempt that is waited for is the last one, and a request waits. *)
WaitsForTheLast ==
  /\ attempt # 0 => attempt = started /\ request = "asked"
  /\ timeouts <= started
  /\ attempt # 0 => timeouts < started

Counted == SessionsShape /\ WaitsForTheLast
-----------------------------------------------------------------------------
LEMMA CountedInit == SessionsInit => Counted
<1> SUFFICES ASSUME SessionsInit PROVE Counted
  OBVIOUS
<1>1. at \in [Attempts -> Places] /\ err \in [Requests -> BOOLEAN]
  BY DEF SessionsInit, Places
<1>2. WaitsForTheLast
  BY DEF SessionsInit, WaitsForTheLast
<1> QED
  BY <1>1, <1>2 DEF SessionsInit, Counted, SessionsShape, NoClient

LEMMA CallerCounted == Counted /\ Caller => Counted'
BY DEF Caller, getWebStatusSSHSession, CloseSession, attemptVars, Counted, SessionsShape,
       WaitsForTheLast

(* What starting the next attempt, or answering none, leaves of the types. *)
LEMMA NextAttemptCounted ==
  ASSUME Counted, attempt # 0, NextAttempt
  PROVE  /\ request' \in {"asked", "nil"} /\ attempt' \in {0} \cup Attempts
         /\ started' \in {0} \cup Attempts /\ at' \in [Attempts -> Places]
         /\ outcome' \in {"none", "session", "error", "nilError"}
         /\ attempt' # 0 => attempt' = started' /\ request' = "asked"
         /\ started <= started'
         /\ attempt' # 0 => started < started'
<1>1. attempt \in Attempts /\ attempt = started /\ request = "asked"
  BY DEF Counted, SessionsShape, WaitsForTheLast
<1>2. CASE IsLast(attempt)
  BY <1>1, <1>2, Numbers DEF NextAttempt, Counted, SessionsShape
<1>3. CASE ~IsLast(attempt)
  <2>1. attempt + 1 \in Attempts /\ attempt \in Int
    BY <1>1, <1>3, Numbers
  <2>2. /\ attempt' = attempt + 1 /\ started' = attempt + 1 /\ outcome' = "none"
        /\ at' = [at EXCEPT ![attempt + 1] = "check"] /\ request' = request
    BY <1>3 DEF NextAttempt, StartAttempt
  <2>3. at' \in [Attempts -> Places]
    BY <2>2 DEF Counted, SessionsShape, Places
  <2> QED
    BY <1>1, <2>1, <2>2, <2>3
<1> QED
  BY <1>2, <1>3

LEMMA WaiterCounted == Counted /\ Waiter => Counted'
<1> SUFFICES ASSUME Counted, Waiter PROVE Counted'
  OBVIOUS
<1> USE DEF Counted, SessionsShape, WaitsForTheLast, attemptVars
<1>0. started \in Int
  BY Numbers
<1>1. CASE TakeRequest
  <2> DEFINE a == 2 * RequestOf(started) + 1
  <2>1. a \in Attempts /\ a > started /\ a \in Int /\ a # 0
    BY <1>1, Numbers DEF TakeRequest
  <2>2. attempt' = a /\ started' = a /\ outcome' = "none" /\ at' = [at EXCEPT ![a] = "check"]
    BY <1>1 DEF TakeRequest, StartAttempt
  <2> HIDE DEF a
  <2>3. at' \in [Attempts -> Places]
    BY <2>2 DEF Places
  <2>4. timeouts' < started'
    BY <1>0, <1>1, <2>1, <2>2 DEF TakeRequest
  <2> QED
    BY <1>0, <1>1, <2>1, <2>2, <2>3, <2>4 DEF TakeRequest
<1>2. CASE AttemptTimesOut
  <2>1. attempt # 0 /\ NextAttempt
    BY <1>2 DEF AttemptTimesOut
  <2>2. started' \in Int /\ timeouts' = timeouts + 1 /\ timeouts < started
    BY <1>2, <2>1, NextAttemptCounted, Numbers DEF AttemptTimesOut
  <2>3. /\ attempt' # 0 => attempt' = started' /\ request' = "asked"
        /\ started <= started'
        /\ attempt' # 0 => started < started'
    BY <2>1, NextAttemptCounted
  <2>4. WaitsForTheLast'
    BY <1>0, <2>2, <2>3
  <2>5. SessionsShape'
    BY <1>2, <2>1, <2>2, NextAttemptCounted DEF AttemptTimesOut, NoClient
  <2> QED
    BY <2>4, <2>5
<1>3. CASE AttemptFails
  <2>1. attempt # 0 /\ NextAttempt
    BY <1>3 DEF AttemptFails
  <2>2. started' \in Int
    BY <2>1, NextAttemptCounted, Numbers
  <2>3. err' \in [Requests -> BOOLEAN]
    BY <1>3 DEF AttemptFails
  <2>4. /\ attempt' # 0 => attempt' = started' /\ request' = "asked"
        /\ started <= started'
        /\ attempt' # 0 => started < started'
    BY <2>1, NextAttemptCounted
  <2>5. WaitsForTheLast'
    BY <1>0, <1>3, <2>2, <2>4 DEF AttemptFails
  <2>6. SessionsShape'
    BY <1>3, <2>1, <2>3, NextAttemptCounted DEF AttemptFails, NoClient
  <2> QED
    BY <2>5, <2>6
<1>4. CASE NilErrorPanics
  BY <1>4 DEF NilErrorPanics
<1>5. CASE AttemptSucceeds
  BY <1>5 DEF AttemptSucceeds
<1> QED
  BY <1>1, <1>2, <1>3, <1>4, <1>5 DEF Waiter

LEMMA RunsCounted ==
  ASSUME Counted, NEW a \in Attempts, AttemptRuns(a)
  PROVE  Counted' /\ UNCHANGED <<request, attempt, started, timeouts, crashed>>
<1> USE DEF Counted, SessionsShape, WaitsForTheLast, waiterVars, NoClient
<1>1. CASE NeedsClient(a)
  BY <1>1 DEF NeedsClient, GoesTo, Places
<1>2. CASE DialSucceeds(a)
  BY <1>2 DEF DialSucceeds, GoesTo, Places
<1>3. CASE DialFails(a)
  BY <1>3 DEF DialFails, GoesTo, Places
<1>4. CASE Dialled(a)
  BY <1>4 DEF Dialled, GoesTo, Sends, Places
<1>5. CASE Report(a)
  BY <1>5 DEF Report, Sends, Places
<1>6. CASE OpensSession(a)
  BY <1>6 DEF OpensSession, Sends, Places
<1>7. CASE SessionFails(a)
  BY <1>7 DEF SessionFails, GoesTo, Places
<1>8. CASE ClosesClient(a)
  BY <1>8 DEF ClosesClient, Sends, Places
<1> QED
  BY <1>1, <1>2, <1>3, <1>4, <1>5, <1>6, <1>7, <1>8 DEF AttemptRuns
-----------------------------------------------------------------------------
(* While no attempt was given up there is only one at a time, and what it  *)
(* knows of the client is true.                                            *)
OneAtATime == \A a \in Attempts : a # attempt => at[a] \in {"none", "done"}

OutcomeFits ==
  attempt # 0 =>
    /\ at[attempt] # "none"
    /\ at[attempt] # "done" => outcome = "none"
    /\ at[attempt] = "done" => outcome \in {"session", "error"}
    /\ outcome = "error" => open = {}
    /\ outcome = "session" => on = ssh_webstatus_client

ClientKnown ==
  attempt # 0 =>
    /\ at[attempt] = "dial" => open = {}
    /\ at[attempt] = "dialled" =>
         (err[RequestOf(attempt)] <=> ssh_webstatus_client = NoClient)
    /\ at[attempt] = "report" => err[RequestOf(attempt)] /\ open = {}

Tidy ==
  /\ OneAtATime /\ OutcomeFits /\ ClientKnown
  /\ open \subseteq {ssh_webstatus_client}
  /\ request = "session" => on = ssh_webstatus_client
  /\ ~crashed

TidyInv == Counted /\ (timeouts = 0 => Tidy)

LEMMA NoClientIsNone == NoClient \notin Attempts
BY DEF NoClient, Attempts

LEMMA TidyInit == SessionsInit => TidyInv
BY CountedInit
   DEF SessionsInit, TidyInv, Tidy, OneAtATime, OutcomeFits, ClientKnown

LEMMA CallerTidy == TidyInv /\ Caller => TidyInv'
<1> SUFFICES ASSUME TidyInv, Caller PROVE TidyInv'
  OBVIOUS
<1>1. Counted'
  BY CallerCounted DEF TidyInv
<1>2. UNCHANGED <<attempt, timeouts, crashed, ssh_webstatus_client, err, at, outcome, on, open>>
  BY DEF Caller, getWebStatusSSHSession, CloseSession, attemptVars
<1>3. request' # "session"
  BY DEF Caller, getWebStatusSSHSession, CloseSession
<1> QED
  BY <1>1, <1>2, <1>3 DEF TidyInv, Tidy, OneAtATime, OutcomeFits, ClientKnown

(* A new attempt finds all others idle. *)
LEMMA StartTidy ==
  ASSUME Counted, NEW a \in Attempts, StartAttempt(a),
         \A b \in Attempts : at[b] \in {"none", "done"}
  PROVE  OneAtATime' /\ OutcomeFits' /\ ClientKnown'
<1>1. attempt' = a /\ at' = [at EXCEPT ![a] = "check"] /\ outcome' = "none"
  BY DEF StartAttempt
<1>2. at'[a] = "check" /\ \A b \in Attempts : b # a => at'[b] = at[b]
  BY <1>1 DEF Counted, SessionsShape
<1> QED
  BY <1>1, <1>2 DEF OneAtATime, OutcomeFits, ClientKnown

LEMMA WaiterTidy == TidyInv /\ Waiter => TidyInv'
<1> SUFFICES ASSUME TidyInv, Waiter, timeouts' = 0 PROVE Tidy'
  BY WaiterCounted DEF TidyInv
<1>0. Counted
  BY DEF TidyInv
<1>1. ~AttemptTimesOut
  BY <1>0 DEF AttemptTimesOut, Counted, SessionsShape
<1>2. timeouts' = timeouts
  BY <1>1 DEF Waiter, TakeRequest, AttemptFails, NilErrorPanics, AttemptSucceeds
<1>3. Tidy
  BY <1>2 DEF TidyInv
<1>4. attempt # 0 => attempt \in Attempts /\ request = "asked"
  BY <1>0 DEF Counted, SessionsShape, WaitsForTheLast
<1>5. CASE TakeRequest
  <2> DEFINE a == 2 * RequestOf(started) + 1
  <2>1. a \in Attempts
    BY <1>0, <1>5, Numbers DEF TakeRequest, Counted, SessionsShape
  <2>2. /\ attempt = 0 /\ StartAttempt(a)
        /\ UNCHANGED <<request, crashed, ssh_webstatus_client, on, open>>
    BY <1>5 DEF TakeRequest
  <2> HIDE DEF a
  <2>3. \A b \in Attempts : at[b] \in {"none", "done"}
    BY <1>3, <2>2, Numbers DEF Tidy, OneAtATime
  <2> QED
    BY <1>0, <1>3, <2>1, <2>2, <2>3, StartTidy DEF Tidy
<1>6. CASE AttemptFails
  <2>1. /\ attempt # 0 /\ outcome = "error" /\ NextAttempt
        /\ ssh_webstatus_client' = NoClient /\ UNCHANGED <<crashed, on, open>>
    BY <1>6 DEF AttemptFails
  <2>2. open = {} /\ at[attempt] = "done"
    BY <1>3, <2>1 DEF Tidy, OutcomeFits
  <2>3. \A b \in Attempts : at[b] \in {"none", "done"}
    BY <1>3, <2>2 DEF Tidy, OneAtATime
  <2>4. CASE IsLast(attempt)
    BY <1>3, <2>1, <2>2, <2>3, <2>4
       DEF NextAttempt, Tidy, OneAtATime, OutcomeFits, ClientKnown
  <2>5. CASE ~IsLast(attempt)
    <3>1. attempt + 1 \in Attempts /\ StartAttempt(attempt + 1) /\ UNCHANGED request
      BY <1>4, <2>1, <2>5, Numbers DEF NextAttempt
    <3>2. OneAtATime' /\ OutcomeFits' /\ ClientKnown'
      BY <1>0, <2>3, <3>1, StartTidy
    <3> QED
      BY <1>3, <1>4, <2>1, <2>2, <3>1, <3>2 DEF Tidy
  <2> QED
    BY <2>4, <2>5
<1>7. CASE NilErrorPanics
  BY <1>3, <1>7 DEF NilErrorPanics, Tidy, OutcomeFits
<1>8. CASE AttemptSucceeds
  <2>1. at[attempt] = "done" /\ on = ssh_webstatus_client /\ attempt' = 0
    BY <1>3, <1>8 DEF AttemptSucceeds, Tidy, OutcomeFits
  <2> QED
    BY <1>3, <1>8, <2>1
       DEF AttemptSucceeds, attemptVars, Tidy, OneAtATime, OutcomeFits, ClientKnown
<1> QED
  BY <1>1, <1>5, <1>6, <1>7, <1>8 DEF Waiter

LEMMA RunsTidy ==
  ASSUME TidyInv, NEW a \in Attempts, AttemptRuns(a)
  PROVE  TidyInv'
<1>0. Counted /\ Counted' /\ UNCHANGED <<request, attempt, started, timeouts, crashed>>
  BY RunsCounted DEF TidyInv
<1> SUFFICES ASSUME Tidy PROVE Tidy'
  BY <1>0 DEF TidyInv
<1>1. at[a] \notin {"none", "done"}
  BY DEF AttemptRuns, NeedsClient, DialSucceeds, DialFails, Dialled, Report, OpensSession,
         SessionFails, ClosesClient
<1>2. a = attempt /\ attempt # 0
  BY <1>1, Numbers DEF Tidy, OneAtATime
<1>3. request = "asked" /\ RequestOf(a) \in Requests
  BY <1>0, <1>2, Numbers DEF Counted, WaitsForTheLast
<1>4. /\ at' = [at EXCEPT ![a] = at'[a]] /\ at'[a] # "none"
  BY <1>0 DEF AttemptRuns, NeedsClient, DialSucceeds, DialFails, Dialled, Report,
         OpensSession, SessionFails, ClosesClient, Sends, GoesTo, Counted, SessionsShape
<1>5. OneAtATime'
  BY <1>0, <1>2, <1>4 DEF Tidy, OneAtATime, Counted, SessionsShape
<1> SUFFICES OutcomeFits' /\ ClientKnown' /\ open' \subseteq {ssh_webstatus_client'}
  BY <1>0, <1>3, <1>5 DEF Tidy
<1> USE DEF Tidy, OutcomeFits, ClientKnown
<1>6. outcome = "none"
  BY <1>1, <1>2
<1>7. at \in [Attempts -> Places] /\ err \in [Requests -> BOOLEAN] /\ open \subseteq Attempts
  BY <1>0 DEF Counted, SessionsShape
<1>8. CASE NeedsClient(a)
  BY <1>0, <1>2, <1>6, <1>7, <1>8, NoClientIsNone DEF NeedsClient, GoesTo
<1>9. CASE DialSucceeds(a)
  BY <1>0, <1>2, <1>3, <1>6, <1>7, <1>9, NoClientIsNone DEF DialSucceeds, GoesTo
<1>10. CASE DialFails(a)
  BY <1>0, <1>2, <1>3, <1>6, <1>7, <1>10 DEF DialFails, GoesTo
<1>11. CASE Dialled(a)
  BY <1>0, <1>2, <1>6, <1>7, <1>11, NoClientIsNone DEF Dialled, GoesTo, Sends
<1>12. CASE Report(a)
  BY <1>0, <1>2, <1>6, <1>7, <1>12 DEF Report, Sends
<1>13. CASE OpensSession(a)
  BY <1>0, <1>2, <1>6, <1>7, <1>13, NoClientIsNone DEF OpensSession, Sends
<1>14. CASE SessionFails(a)
  BY <1>0, <1>2, <1>6, <1>7, <1>14 DEF SessionFails, GoesTo
<1>15. CASE ClosesClient(a)
  BY <1>0, <1>2, <1>6, <1>7, <1>15 DEF ClosesClient, Sends
<1> QED
  BY <1>8, <1>9, <1>10, <1>11, <1>12, <1>13, <1>14, <1>15 DEF AttemptRuns
-----------------------------------------------------------------------------
LEMMA SessionsNextInv == TidyInv /\ [SessionsNext]_sessionVars => TidyInv'
<1>1. TidyInv /\ UNCHANGED sessionVars => TidyInv'
  BY DEF sessionVars, TidyInv, Tidy, OneAtATime, OutcomeFits, ClientKnown, Counted,
         SessionsShape, WaitsForTheLast
<1> QED
  BY <1>1, CallerTidy, WaiterTidy, RunsTidy DEF SessionsNext, Quiet

LEMMA AlwaysTidyInv == SessionsSpec => []TidyInv
BY TidyInit, SessionsNextInv, PTL DEF SessionsSpec

LEMMA CountedIsTyped == Counted => SessionsTypeOK
<1> SUFFICES ASSUME Counted PROVE SessionsTypeOK
  OBVIOUS
<1>1. timeouts \in Nat /\ timeouts <= started /\ started \in {0} \cup Attempts
  BY DEF Counted, SessionsShape, WaitsForTheLast
<1>2. timeouts \in 0 .. 2 * MaxRequests
  BY <1>1, SessionsAssumption DEF Attempts
<1> QED
  BY <1>2 DEF Counted, SessionsShape, SessionsTypeOK

(* The sessions are well typed; the attempts given up are no more than     *)
(* those started.                                                          *)
THEOREM SessionsTypeCorrect == SessionsSpec => []SessionsTypeOK
<1>1. TidyInv => SessionsTypeOK
  BY CountedIsTyped DEF TidyInv
<1> QED
  BY <1>1, AlwaysTidyInv, PTL

(* Nothing leaks, no session is on a forgotten client and nothing crashes  *)
(* before an attempt was given up, for every number of requests.           *)
THEOREM AlwaysTidyUntilTimeout == SessionsSpec => []TidyUntilTimeout
<1>1. TidyInv => TidyUntilTimeout
  BY DEF TidyInv, Tidy, TidyUntilTimeout
<1> QED
  BY <1>1, AlwaysTidyInv, PTL

(* Asking, answering, giving back and, in a panic, losing it is all that   *)
(* happens to a request: the safety part of RequestsAreAnswered.           *)
Asked == Sessions!Ask \/ Sessions!Answer \/ Sessions!Lose \/ Sessions!GiveBack

RequestSeen == IF crashed THEN "lost" ELSE request

THEOREM RequestsInOrder ==
  SessionsSpec => Sessions!ReqInit /\ [][Asked]_RequestSeen
<1>1. SessionsInit => Sessions!ReqInit
  BY DEF SessionsInit, Sessions!ReqInit
<1>2. TidyInv /\ [SessionsNext]_sessionVars => [Asked]_RequestSeen
  <2> SUFFICES ASSUME TidyInv, [SessionsNext]_sessionVars PROVE [Asked]_RequestSeen
    OBVIOUS
  <2>0. Counted
    BY DEF TidyInv
  <2> USE DEF Asked, RequestSeen, Sessions!Ask, Sessions!Answer, Sessions!Lose,
            Sessions!GiveBack
  <2>1. CASE UNCHANGED sessionVars
    BY <2>1 DEF sessionVars
  <2>2. CASE ~crashed /\ Caller
    BY <2>2 DEF Caller, getWebStatusSSHSession, CloseSession
  <2>3. CASE ~crashed /\ Waiter
    <3>1. attempt # 0 => request = "asked"
      BY <2>0 DEF Counted, WaitsForTheLast
    <3>2. CASE TakeRequest
      BY <3>2 DEF TakeRequest
    <3>3. CASE AttemptTimesOut \/ AttemptFails
      <4>1. attempt # 0 /\ NextAttempt /\ UNCHANGED crashed
        BY <3>3 DEF AttemptTimesOut, AttemptFails
      <4>2. request' = request \/ request' = "nil"
        BY <4>1 DEF NextAttempt
      <4> QED
        BY <2>3, <3>1, <4>1, <4>2
    <3>4. CASE NilErrorPanics
      BY <2>3, <3>1, <3>4 DEF NilErrorPanics
    <3>5. CASE AttemptSucceeds
      BY <2>3, <3>1, <3>5 DEF AttemptSucceeds
    <3> QED
      BY <2>3, <3>2, <3>3, <3>4, <3>5 DEF Waiter
  <2>4. CASE \E a \in Attempts : AttemptRuns(a)
    BY <2>0, <2>4, RunsCounted
  <2> QED
    BY <2>1, <2>2, <2>3, <2>4 DEF SessionsNext, Quiet
<1> QED
  BY <1>1, <1>2, AlwaysTidyInv, PTL DEF SessionsSpec
-----------------------------------------------------------------------------
(* What late attempts lose *)

(* The connections that are lost, the late attempts that may yet dial, and *)
(* those that may yet forget a client.                                     *)
Leaked    == open \ {ssh_webstatus_client}
MayDial   == {b \in Attempts \ {attempt} : at[b] \in {"check", "dial"}}
MayForget == {b \in Attempts \ {attempt} : at[b] \in {"check", "dial", "dialled", "report"}}

(* The attempt that is waited for may forget the client, which it has not  *)
(* seen: a late attempt has dialled since.                                 *)
Doomed ==
  /\ ssh_webstatus_client \in open /\ attempt # 0
  /\ \/ at[attempt] \in {"dial", "report"}
     \/ at[attempt] = "dialled" /\ err[RequestOf(attempt)]
     \/ outcome = "error"

Spare == IF Doomed THEN 1 ELSE 0

(* Three connections for each attempt given up pay for what is lost, for   *)
(* what late attempts can still lose, and for the client that is doomed.   *)
(* (A late attempt that found a client to forget has used its share; one   *)
(* that found none leaves it to the client it dialled.)                    *)
Budget ==
  Cardinality(Leaked) + Cardinality(MayDial) + Cardinality(MayForget) + Spare <= 3 * timeouts

OutcomeAtTheEnd == attempt # 0 /\ outcome # "none" => at[attempt] = "done"

LeakInv == Counted /\ OutcomeAtTheEnd /\ Budget

LEMMA AttemptsFinite == \A S \in SUBSET Attempts : IsFiniteSet(S) /\ Cardinality(S) \in Nat
<1>1. IsFiniteSet(Attempts)
  BY SessionsAssumption, FS_Interval DEF Attempts
<1> QED
  BY <1>1, FS_Subset, FS_CardinalityType

(* Sets of attempts that grow by at most one, or lose one. *)
LEMMA NoMore ==
  ASSUME NEW A \in SUBSET Attempts, NEW B \in SUBSET A
  PROVE  Cardinality(B) <= Cardinality(A)
BY AttemptsFinite, FS_Subset

LEMMA OneMore ==
  ASSUME NEW A \in SUBSET Attempts, NEW x, NEW B, B \subseteq A \cup {x}
  PROVE  Cardinality(B) <= Cardinality(A) + 1
<1>1. IsFiniteSet(A \cup {x}) /\ Cardinality(A \cup {x}) <= Cardinality(A) + 1
  BY AttemptsFinite, FS_AddElement
<1>2. Cardinality(B) <= Cardinality(A \cup {x})
  BY <1>1, FS_Subset
<1>3. Cardinality(B) \in Nat /\ Cardinality(A \cup {x}) \in Nat /\ Cardinality(A) \in Nat
  BY <1>1, AttemptsFinite, FS_Subset, FS_CardinalityType
<1> QED
  BY <1>1, <1>2, <1>3

LEMMA OneLess ==
  ASSUME NEW A \in SUBSET Attempts, NEW x \in A, NEW B \in SUBSET (A \ {x})
  PROVE  Cardinality(B) <= Cardinality(A) - 1
<1>1. Cardinality(A \ {x}) = Cardinality(A) - 1
  BY AttemptsFinite, FS_RemoveElement
<1> QED
  BY <1>1, NoMore, AttemptsFinite

LEMMA BudgetTyped ==
  Counted => /\ Leaked \in SUBSET Attempts /\ MayDial \in SUBSET Attempts
             /\ MayForget \in SUBSET Attempts
             /\ Cardinality(Leaked) \in Nat /\ Cardinality(MayDial) \in Nat
             /\ Cardinality(MayForget) \in Nat /\ Spare \in {0, 1} /\ timeouts \in Nat
BY AttemptsFinite DEF Counted, SessionsShape, Leaked, MayDial, MayForget, Spare

(* A client that is forgotten is lost if it was open. *)
LEMMA Forgotten ==
  ASSUME Counted, NEW L \in SUBSET open
  PROVE  Cardinality(L) <= Cardinality(Leaked) +
           (IF ssh_webstatus_client \in open THEN 1 ELSE 0)
<1>1. CASE ssh_webstatus_client \in open
  BY <1>1, OneMore, BudgetTyped DEF Leaked
<1>2. CASE ssh_webstatus_client \notin open
  <2>1. L \in SUBSET Leaked
    BY <1>2 DEF Leaked
  <2>2. Cardinality(L) <= Cardinality(Leaked)
    BY <2>1, NoMore, BudgetTyped
  <2>3. Cardinality(L) \in Nat
    BY AttemptsFinite DEF Counted, SessionsShape
  <2> QED
    BY <1>2, <2>2, <2>3, BudgetTyped
<1> QED
  BY <1>1, <1>2

LEMMA LeakInit == SessionsInit => LeakInv
<1> SUFFICES ASSUME SessionsInit PROVE LeakInv
  OBVIOUS
<1>1. Leaked = {} /\ MayDial = {} /\ MayForget = {} /\ Spare = 0
  BY DEF SessionsInit, Leaked, MayDial, MayForget, Spare, Doomed
<1>2. Cardinality(Leaked) = 0 /\ Cardinality(MayDial) = 0 /\ Cardinality(MayForget) = 0
  BY <1>1, FS_EmptySet
<1> QED
  BY <1>1, <1>2, CountedInit DEF LeakInv, OutcomeAtTheEnd, Budget, SessionsInit

(* The attempt waited for is replaced by none or by the next, which looks  *)
(* for a client; who is not at the end is late then.                       *)
LEMMA WaiterBudget == LeakInv /\ Waiter => OutcomeAtTheEnd' /\ Budget'
<1> SUFFICES ASSUME LeakInv, Waiter PROVE OutcomeAtTheEnd' /\ Budget'
  OBVIOUS
<1>0. Counted /\ Counted' /\ Budget
  BY WaiterCounted DEF LeakInv
<1>t. /\ Leaked \in SUBSET Attempts /\ MayDial \in SUBSET Attempts
      /\ MayForget \in SUBSET Attempts
      /\ Cardinality(Leaked) \in Nat /\ Cardinality(MayDial) \in Nat
      /\ Cardinality(MayForget) \in Nat /\ Spare \in {0, 1} /\ timeouts \in Nat
  BY <1>0, BudgetTyped
<1>p. /\ Leaked' \in SUBSET Attempts /\ MayDial' \in SUBSET Attempts
      /\ MayForget' \in SUBSET Attempts
      /\ Cardinality(Leaked') \in Nat /\ Cardinality(MayDial') \in Nat
      /\ Cardinality(MayForget') \in Nat /\ Spare' \in {0, 1}
  BY <1>0, AttemptsFinite DEF Counted, SessionsShape, Leaked, MayDial, MayForget, Spare
<1>a. at \in [Attempts -> Places] /\ (attempt # 0 => attempt \in Attempts) /\ 0 \notin Attempts
  BY <1>0 DEF Counted, SessionsShape, Attempts
<1>b. ASSUME NEW a \in Attempts, StartAttempt(a)
      PROVE  /\ attempt' = a /\ at'[a] = "check" /\ outcome' = "none"
             /\ \A b \in Attempts \ {a} : at'[b] = at[b]
  BY <1>a, <1>b DEF StartAttempt
<1>c. ASSUME attempt # 0, NextAttempt
      PROVE  /\ attempt' # 0 => at'[attempt'] = "check" /\ outcome' = "none"
             /\ \A b \in Attempts \ {attempt'} : at'[b] = at[b]
  <2>1. CASE IsLast(attempt)
    BY <1>a, <1>c, <2>1 DEF NextAttempt
  <2>2. CASE ~IsLast(attempt)
    <3>1. attempt + 1 \in Attempts /\ StartAttempt(attempt + 1)
      BY <1>a, <1>c, <2>2, Numbers DEF NextAttempt
    <3> QED
      BY <1>b, <3>1
  <2> QED
    BY <2>1, <2>2
<1>1. CASE TakeRequest
  <2> DEFINE a == 2 * RequestOf(started) + 1
  <2>1. a \in Attempts
    BY <1>0, <1>1, Numbers DEF TakeRequest, Counted, SessionsShape
  <2>2. /\ attempt = 0 /\ StartAttempt(a)
        /\ UNCHANGED <<timeouts, ssh_webstatus_client, open>>
    BY <1>1 DEF TakeRequest
  <2> HIDE DEF a
  <2>3. MayDial' \in SUBSET MayDial /\ MayForget' \in SUBSET MayForget
    BY <1>a, <1>b, <2>1, <2>2 DEF MayDial, MayForget
  <2>4. Leaked' = Leaked /\ Spare' = 0
    BY <1>b, <2>1, <2>2 DEF Leaked, Spare, Doomed
  <2>5. Cardinality(MayDial') <= Cardinality(MayDial)
        /\ Cardinality(MayForget') <= Cardinality(MayForget)
    BY <1>t, <2>3, NoMore
  <2> QED
    BY <1>0, <1>b, <1>t, <1>p, <2>1, <2>2, <2>4, <2>5 DEF OutcomeAtTheEnd, Budget
<1>2. CASE AttemptTimesOut
  <2>1. /\ attempt # 0 /\ NextAttempt /\ timeouts' = timeouts + 1
        /\ ssh_webstatus_client' = NoClient /\ UNCHANGED open
    BY <1>2 DEF AttemptTimesOut
  <2>2. MayDial' \subseteq MayDial \cup {attempt} /\ MayForget' \subseteq MayForget \cup {attempt}
    BY <1>c, <2>1 DEF MayDial, MayForget
  <2>3. /\ Cardinality(MayDial') <= Cardinality(MayDial) + 1
        /\ Cardinality(MayForget') <= Cardinality(MayForget) + 1
    BY <1>t, <2>2, OneMore
  <2>4. Leaked' \subseteq Leaked \cup {ssh_webstatus_client}
    BY <2>1 DEF Leaked
  <2>5. Cardinality(Leaked') <= Cardinality(Leaked) + 1
    BY <1>t, <2>4, OneMore
  <2>6. Spare' = 0
    BY <1>0, <2>1, NoClientIsNone DEF Counted, SessionsShape, Spare, Doomed
  <2>7. Budget'
    BY <1>0, <1>t, <1>p, <2>1, <2>3, <2>5, <2>6 DEF Budget
  <2> QED
    BY <1>c, <2>1, <2>7 DEF OutcomeAtTheEnd
<1>3. CASE AttemptFails
  <2>1. /\ attempt # 0 /\ outcome = "error" /\ NextAttempt
        /\ ssh_webstatus_client' = NoClient /\ UNCHANGED <<open, timeouts>>
    BY <1>3 DEF AttemptFails
  <2>2. at[attempt] = "done"
    BY <2>1 DEF LeakInv, OutcomeAtTheEnd
  <2>3. MayDial' \in SUBSET MayDial /\ MayForget' \in SUBSET MayForget
    BY <1>c, <2>1, <2>2 DEF MayDial, MayForget
  <2>4. /\ Cardinality(MayDial') <= Cardinality(MayDial)
        /\ Cardinality(MayForget') <= Cardinality(MayForget)
    BY <1>t, <2>3, NoMore
  <2>5. Leaked' \in SUBSET open /\ Spare = IF ssh_webstatus_client \in open THEN 1 ELSE 0
    BY <2>1 DEF Leaked, Spare, Doomed
  <2>6. Cardinality(Leaked') <= Cardinality(Leaked) + Spare
    BY <1>0, <2>5, Forgotten
  <2>7. Spare' = 0
    BY <1>0, <2>1, NoClientIsNone DEF Counted, SessionsShape, Spare, Doomed
  <2>8. Budget'
    BY <1>0, <1>t, <1>p, <2>1, <2>4, <2>6, <2>7 DEF Budget
  <2> QED
    BY <1>c, <2>1, <2>8 DEF OutcomeAtTheEnd
<1>4. CASE NilErrorPanics
  <2>1. UNCHANGED <<attempt, timeouts, ssh_webstatus_client, err, at, outcome, open>>
    BY <1>4 DEF NilErrorPanics, attemptVars
  <2> QED
    BY <2>1 DEF LeakInv, OutcomeAtTheEnd, Budget, Leaked, MayDial, MayForget, Spare, Doomed
<1>5. CASE AttemptSucceeds
  <2>1. /\ attempt # 0 /\ at[attempt] = "done" /\ attempt' = 0
        /\ UNCHANGED <<timeouts, ssh_webstatus_client, at, open>>
    BY <1>5 DEF AttemptSucceeds, attemptVars, LeakInv, OutcomeAtTheEnd
  <2>2. MayDial' \in SUBSET MayDial /\ MayForget' \in SUBSET MayForget
    BY <2>1 DEF MayDial, MayForget
  <2>3. /\ Cardinality(MayDial') <= Cardinality(MayDial)
        /\ Cardinality(MayForget') <= Cardinality(MayForget)
    BY <1>t, <2>2, NoMore
  <2>4. Leaked' = Leaked /\ Spare' = 0
    BY <2>1 DEF Leaked, Spare, Doomed
  <2> QED
    BY <1>0, <1>t, <1>p, <2>1, <2>3, <2>4 DEF OutcomeAtTheEnd, Budget
<1> QED
  BY <1>1, <1>2, <1>3, <1>4, <1>5 DEF Waiter

(* Nothing an attempt does changes what the sets say of the others. *)
LEMMA OwnStep ==
  ASSUME LeakInv, attempt \in Attempts, attempt' = attempt, NEW p,
         at' = [at EXCEPT ![attempt] = p]
  PROVE  MayDial' = MayDial /\ MayForget' = MayForget /\ at'[attempt'] = p
BY DEF LeakInv, Counted, SessionsShape, MayDial, MayForget

(* What an attempt does that is waited for: the client it forgets was      *)
(* doomed.                                                                 *)
LEMMA OwnBudget ==
  ASSUME LeakInv, attempt # 0, AttemptRuns(attempt)
  PROVE  OutcomeAtTheEnd' /\ Budget'
<1>0. /\ Counted /\ Counted' /\ Budget /\ attempt \in Attempts
      /\ UNCHANGED <<attempt, timeouts>>
  BY RunsCounted DEF LeakInv, Counted, SessionsShape
<1>t. /\ Cardinality(Leaked) \in Nat /\ Cardinality(MayDial) \in Nat
      /\ Cardinality(MayForget) \in Nat /\ Spare \in {0, 1} /\ timeouts \in Nat
  BY <1>0, BudgetTyped
<1>p. Cardinality(Leaked') \in Nat /\ NoClient \notin open /\ NoClient \notin open'
  BY <1>0, AttemptsFinite, NoClientIsNone DEF Counted, SessionsShape, Leaked
<1>1. at[attempt] # "done"
  BY DEF AttemptRuns, NeedsClient, DialSucceeds, DialFails, Dialled, Report, OpensSession,
         SessionFails, ClosesClient
<1>2. outcome = "none"
  BY <1>0, <1>1 DEF LeakInv, OutcomeAtTheEnd
<1>3. /\ at' = [at EXCEPT ![attempt] = at'[attempt]]
      /\ outcome' # "none" => at'[attempt] = "done"
  BY <1>0, <1>2 DEF AttemptRuns, NeedsClient, DialSucceeds, DialFails, Dialled, Report,
         OpensSession, SessionFails, ClosesClient, Sends, GoesTo, Counted, SessionsShape
<1>4. MayDial' = MayDial /\ MayForget' = MayForget /\ OutcomeAtTheEnd'
  <2> DEFINE p == at'[attempt]
  <2>1. at' = [at EXCEPT ![attempt] = p]
    BY <1>3
  <2> HIDE DEF p
  <2>2. MayDial' = MayDial /\ MayForget' = MayForget
    BY <1>0, <2>1, OwnStep
  <2> QED
    BY <1>0, <1>3, <2>2 DEF OutcomeAtTheEnd
<1> SUFFICES Cardinality(Leaked') + Spare' <= Cardinality(Leaked) + Spare
  BY <1>0, <1>t, <1>p, <1>4 DEF Budget, Spare
<1>5. ASSUME Leaked' = Leaked, Doomed' => Doomed
      PROVE  Cardinality(Leaked') + Spare' <= Cardinality(Leaked) + Spare
  BY <1>5, <1>t DEF Spare
<1>6. ASSUME Leaked' \in SUBSET open, ssh_webstatus_client \in open => Doomed, ~Doomed'
      PROVE  Cardinality(Leaked') + Spare' <= Cardinality(Leaked) + Spare
  <2>1. Cardinality(Leaked') <=
          Cardinality(Leaked) + (IF ssh_webstatus_client \in open THEN 1 ELSE 0)
    BY <1>0, <1>6, Forgotten
  <2> QED
    BY <1>6, <1>t, <1>p, <2>1 DEF Spare
<1> USE DEF Leaked, Doomed, waiterVars
<1> HIDE DEF Spare
<1>7. at \in [Attempts -> Places] /\ err \in [Requests -> BOOLEAN] /\ RequestOf(attempt) \in Requests
  BY <1>0, Numbers DEF Counted, SessionsShape
<1>8. CASE NeedsClient(attempt)
  BY <1>0, <1>2, <1>5, <1>7, <1>8, <1>p DEF NeedsClient, GoesTo
<1>9. CASE DialSucceeds(attempt)
  BY <1>0, <1>2, <1>6, <1>7, <1>9, <1>p DEF DialSucceeds, GoesTo
<1>10. CASE DialFails(attempt)
  BY <1>0, <1>2, <1>6, <1>7, <1>10, <1>p DEF DialFails, GoesTo
<1>11. CASE Dialled(attempt)
  BY <1>0, <1>2, <1>5, <1>7, <1>11, <1>p DEF Dialled, GoesTo, Sends
<1>12. CASE Report(attempt)
  BY <1>0, <1>2, <1>5, <1>6, <1>7, <1>12, <1>p DEF Report, Sends
<1>13. CASE OpensSession(attempt)
  BY <1>0, <1>2, <1>5, <1>7, <1>13, <1>p DEF OpensSession, Sends
<1>14. CASE SessionFails(attempt)
  BY <1>0, <1>2, <1>5, <1>7, <1>14, <1>p DEF SessionFails, GoesTo
<1>15. CASE ClosesClient(attempt)
  BY <1>0, <1>2, <1>5, <1>7, <1>15, <1>p DEF ClosesClient, Sends
<1> QED
  BY <1>8, <1>9, <1>10, <1>11, <1>12, <1>13, <1>14, <1>15 DEF AttemptRuns

(* What a late attempt does: it pays for the client that it forgets, and   *)
(* leaves its share to the client it dials when there was none.            *)
LEMMA LateBudget ==
  ASSUME LeakInv, NEW a \in Attempts, a # attempt, AttemptRuns(a)
  PROVE  OutcomeAtTheEnd' /\ Budget'
<1>0. /\ Counted /\ Counted' /\ Budget /\ attempt \in {0} \cup Attempts
      /\ UNCHANGED <<attempt, timeouts>>
  BY RunsCounted DEF LeakInv, Counted, SessionsShape
<1>t. /\ Leaked \in SUBSET Attempts /\ MayDial \in SUBSET Attempts
      /\ MayForget \in SUBSET Attempts
      /\ Cardinality(Leaked) \in Nat /\ Cardinality(MayDial) \in Nat
      /\ Cardinality(MayForget) \in Nat /\ Spare \in {0, 1} /\ timeouts \in Nat
  BY <1>0, BudgetTyped
<1>p. /\ MayDial' \in SUBSET Attempts /\ MayForget' \in SUBSET Attempts
      /\ Cardinality(Leaked') \in Nat /\ Cardinality(MayDial') \in Nat
      /\ Cardinality(MayForget') \in Nat /\ Spare' \in {0, 1}
      /\ NoClient \notin open /\ NoClient \notin open'
  BY <1>0, AttemptsFinite, NoClientIsNone
     DEF Counted, SessionsShape, Leaked, MayDial, MayForget, Spare
<1>7. at \in [Attempts -> Places] /\ err \in [Requests -> BOOLEAN] /\ RequestOf(a) \in Requests
  BY <1>0, Numbers DEF Counted, SessionsShape
<1>1. outcome' = outcome /\ \A b \in Attempts : b # a => at'[b] = at[b]
  BY <1>0, <1>7 DEF AttemptRuns, NeedsClient, DialSucceeds, DialFails, Dialled, Report,
         OpensSession, SessionFails, ClosesClient, Sends, GoesTo
<1>2. OutcomeAtTheEnd'
  BY <1>0, <1>1 DEF LeakInv, OutcomeAtTheEnd
<1> SUFFICES Budget'
  BY <1>2
<1>3. MayDial' \subseteq MayDial \cup {a} /\ MayForget' \subseteq MayForget \cup {a}
  BY <1>0, <1>1 DEF MayDial, MayForget
<1>4. ASSUME a \in MayDial \/ at'[a] \notin {"check", "dial"},
             a \in MayForget \/ at'[a] \notin {"check", "dial", "dialled", "report"}
      PROVE  /\ Cardinality(MayDial') <= Cardinality(MayDial)
             /\ Cardinality(MayForget') <= Cardinality(MayForget)
  <2>1. MayDial' \in SUBSET MayDial /\ MayForget' \in SUBSET MayForget
    BY <1>3, <1>4 DEF MayDial, MayForget
  <2> QED
    BY <1>t, <2>1, NoMore
(* Steps that forget no client. *)
<1>5. ASSUME Leaked' = Leaked, Doomed' => Doomed,
             a \in MayDial \/ at'[a] \notin {"check", "dial"},
             a \in MayForget \/ at'[a] \notin {"check", "dial", "dialled", "report"}
      PROVE  Budget'
  <2>1. Cardinality(Leaked') = Cardinality(Leaked) /\ Spare' <= Spare
    BY <1>5 DEF Spare
  <2> QED
    BY <1>0, <1>t, <1>p, <1>4, <1>5, <2>1 DEF Budget
(* The dial, which one of MayDial does. *)
<1>6. ASSUME a \in MayDial, at'[a] = "dialled", Leaked' \in SUBSET open,
             Doomed' /\ ssh_webstatus_client \in open => Doomed
      PROVE  Budget'
  <2>1. MayDial' \in SUBSET (MayDial \ {a})
    BY <1>3, <1>6 DEF MayDial
  <2>2. Cardinality(MayDial') <= Cardinality(MayDial) - 1
    BY <1>6, <1>t, <2>1, OneLess
  <2>3. a \in MayForget
    BY <1>6 DEF MayDial, MayForget
  <2>4. Cardinality(MayForget') <= Cardinality(MayForget)
    BY <1>4, <1>6, <2>3
  <2>5. Cardinality(Leaked') <=
          Cardinality(Leaked) + (IF ssh_webstatus_client \in open THEN 1 ELSE 0)
    BY <1>0, <1>6, Forgotten
  <2>6. ssh_webstatus_client \in open => Spare' <= Spare
    BY <1>6 DEF Spare
  <2>7. Cardinality(Leaked') + Spare' <= Cardinality(Leaked) + Spare + 1
    BY <1>t, <1>p, <2>5, <2>6
  <2> QED
    BY <1>0, <1>t, <1>p, <2>2, <2>4, <2>7 DEF Budget
<1>8. CASE NeedsClient(a)
  BY <1>0, <1>1, <1>5, <1>7, <1>8 DEF NeedsClient, GoesTo, Leaked, Doomed, MayDial, MayForget
<1>9. CASE DialSucceeds(a)
  <2>1. /\ at[a] = "dial" /\ at'[a] = "dialled" /\ open' = open \cup {a}
        /\ ssh_webstatus_client' = a /\ err' = [err EXCEPT ![RequestOf(a)] = FALSE]
    BY <1>7, <1>9 DEF DialSucceeds, GoesTo
  <2>2. a \in MayDial /\ Leaked' \in SUBSET open
    BY <2>1 DEF MayDial, Leaked
  <2>3. Doomed' /\ ssh_webstatus_client \in open => Doomed
    BY <1>0, <1>1, <1>7, <2>1 DEF Doomed
  <2> QED
    BY <1>6, <2>1, <2>2, <2>3
<1>10. CASE DialFails(a)
  <2>1. /\ at[a] = "dial" /\ at'[a] = "dialled" /\ open' = open
        /\ ssh_webstatus_client' = NoClient
    BY <1>7, <1>10 DEF DialFails, GoesTo
  <2>2. a \in MayDial /\ Leaked' \in SUBSET open /\ ~Doomed'
    BY <1>p, <2>1 DEF MayDial, Leaked, Doomed
  <2> QED
    BY <1>6, <2>1, <2>2
<1>11. CASE Dialled(a)
  BY <1>0, <1>1, <1>5, <1>7, <1>11
     DEF Dialled, GoesTo, Sends, Leaked, Doomed, MayDial, MayForget, waiterVars
<1>12. ASSUME Report(a), ssh_webstatus_client' = NoClient
       PROVE  Budget'
  <2>1. at[a] = "report" /\ at'[a] = "done" /\ open' = open
    BY <1>7, <1>12 DEF Report, Sends
  <2>2. a \in MayForget /\ Leaked' \in SUBSET open /\ ~Doomed'
    BY <1>p, <1>12, <2>1 DEF MayForget, Leaked, Doomed
  <2>3. MayForget' \in SUBSET (MayForget \ {a})
    BY <1>3, <2>1 DEF MayForget
  <2>4. Cardinality(MayForget') <= Cardinality(MayForget) - 1
    BY <1>t, <2>2, <2>3, OneLess
  <2>5. Cardinality(MayDial') <= Cardinality(MayDial)
    BY <1>4, <2>1
  <2>6. Cardinality(Leaked') <= Cardinality(Leaked) + 1
    BY <1>0, <1>t, <1>p, <2>2, Forgotten
  <2>7. Spare' = 0
    BY <2>2 DEF Spare
  <2> QED
    BY <1>0, <1>t, <1>p, <2>4, <2>5, <2>6, <2>7 DEF Budget
<1>16. ASSUME Report(a), UNCHANGED ssh_webstatus_client
       PROVE  Budget'
  BY <1>0, <1>1, <1>5, <1>7, <1>16
     DEF Report, Sends, Leaked, Doomed, MayDial, MayForget, waiterVars
<1>17. CASE Report(a)
  BY <1>12, <1>16, <1>17 DEF Report
<1>13. CASE OpensSession(a)
  BY <1>0, <1>1, <1>5, <1>7, <1>13
     DEF OpensSession, Sends, Leaked, Doomed, MayDial, MayForget, waiterVars
<1>14. CASE SessionFails(a)
  BY <1>0, <1>1, <1>5, <1>7, <1>14
     DEF SessionFails, GoesTo, Leaked, Doomed, MayDial, MayForget, waiterVars
<1>15. CASE ClosesClient(a)
  BY <1>0, <1>1, <1>5, <1>7, <1>15
     DEF ClosesClient, Sends, Leaked, Doomed, MayDial, MayForget, waiterVars
<1> QED
  BY <1>8, <1>9, <1>10, <1>11, <1>13, <1>14, <1>15, <1>17 DEF AttemptRuns

LEMMA LeakNextInv == LeakInv /\ [SessionsNext]_sessionVars => LeakInv'
<1> SUFFICES ASSUME LeakInv, [SessionsNext]_sessionVars PROVE LeakInv'
  OBVIOUS
<1>1. CASE UNCHANGED <<attempt, timeouts, ssh_webstatus_client, err, at, outcome, open>>
           /\ Counted'
  BY <1>1 DEF LeakInv, OutcomeAtTheEnd, Budget, Leaked, MayDial, MayForget, Spare, Doomed
<1>2. CASE UNCHANGED sessionVars
  BY <1>1, <1>2 DEF sessionVars, LeakInv, Counted, SessionsShape, WaitsForTheLast
<1>3. CASE Caller
  <2>1. Counted'
    BY <1>3, CallerCounted DEF LeakInv
  <2> QED
    BY <1>1, <1>3, <2>1 DEF Caller, getWebStatusSSHSession, CloseSession, attemptVars
<1>4. CASE Waiter
  BY <1>4, WaiterCounted, WaiterBudget DEF LeakInv
<1>5. ASSUME NEW a \in Attempts, AttemptRuns(a) PROVE LeakInv'
  <2>1. Counted' /\ (attempt = a => attempt # 0)
    BY <1>5, RunsCounted, Numbers DEF LeakInv
  <2> QED
    BY <1>5, <2>1, OwnBudget, LateBudget DEF LeakInv
<1> QED
  BY <1>2, <1>3, <1>4, <1>5 DEF SessionsNext, Quiet

(* However many attempts overlap, none that was given up costs more than   *)
(* three connections, for every number of requests.                        *)
THEOREM AlwaysThreeLeaksPerTimeout == SessionsSpec => []ThreeLeaksPerTimeout
<1>1. LeakInv => ThreeLeaksPerTimeout
  BY BudgetTyped DEF LeakInv, Budget, Leaked, ThreeLeaksPerTimeout
<1> QED
  BY <1>1, LeakInit, LeakNextInv, PTL DEF SessionsSpec
-----------------------------------------------------------------------------
(* The programming of the keys *)

(* The slots that can come of the lines. *)
KeyLines == {line \in Lines : IsKey(line)}
Slots    == {SlotOf(line) : line \in KeyLines}

(* A slot of the EEPROM is one of them, a filling, or as it was before. *)
Contents == Slots \cup {InvalidKey, OldSlot}

UpdateShape ==
  /\ lines \in 0 .. MaxLines /\ closed \in BOOLEAN
  /\ keys \in Seq(KeyLines) /\ new_keys_chan \in Seq(Slots) /\ Len(new_keys_chan) <= ChanCap
  /\ writer \in {"handshake", "write", "fill", "done", "panic"}
  /\ num_keys_written \in 0 .. NUM_KEYSLOTS + 1
  /\ eeprom \in [1 .. NUM_KEYSLOTS -> Contents] /\ stored \in 0 .. NUM_KEYSLOTS
  /\ unheard \subseteq {"key", "filling"}

(* What is in the channel is the end of what was read, and unless the      *)
(* program has ended the rest was written.                                 *)
ChanIsTheEnd ==
  /\ Len(new_keys_chan) <= Len(keys)
  /\ \A i \in 1 .. Len(new_keys_chan) :
       new_keys_chan[i] = SlotOf(keys[Len(keys) - Len(new_keys_chan) + i])

KeysCounted ==
  /\ writer = "handshake" => num_keys_written = 0
  /\ writer \in {"handshake", "write"} =>
       num_keys_written = Len(keys) - Len(new_keys_chan)
  /\ writer \in {"fill", "done"} =>
       /\ new_keys_chan = <<>> /\ closed /\ Len(keys) <= num_keys_written
  /\ writer # "panic" => num_keys_written <= NUM_KEYSLOTS
  /\ writer = "done" => num_keys_written = NUM_KEYSLOTS

(* If every key was confirmed, the firmware has stored them, and fillings  *)
(* behind them, all of them if none was refused.                           *)
StoredInOrder ==
  writer # "panic" /\ "key" \notin unheard =>
    /\ writer \in {"handshake", "write"} \/ unheard = {} => stored = num_keys_written
    /\ writer \in {"fill", "done"} => Len(keys) <= stored
    /\ \A i \in 1 .. stored :
         eeprom[i] = IF i <= Len(keys) THEN SlotOf(keys[i]) ELSE InvalidKey

UpdateInv == UpdateShape /\ ChanIsTheEnd /\ KeysCounted /\ StoredInOrder

LEMMA SlotsHaveEight == \A slot \in Contents : DOMAIN slot = 1 .. KEYSLOT_LEN /\ Len(slot) = KEYSLOT_LEN
<1>1. \A slot : DOMAIN slot = 1 .. KEYSLOT_LEN => Len(slot) = KEYSLOT_LEN
  BY DEF KEYSLOT_LEN
<1> QED
  BY <1>1, UpdateAssumption DEF Contents, Slots, SlotOf, InvalidKey

LEMMA UpdateInitInv == UpdateInit => UpdateInv
<1> SUFFICES ASSUME UpdateInit PROVE UpdateInv
  OBVIOUS
<1>1. eeprom \in [1 .. NUM_KEYSLOTS -> Contents]
  BY DEF UpdateInit, Contents
<1>2. UpdateShape
  <2>1. <<>> \in Seq(Slots) /\ Len(<<>>) = 0
    OBVIOUS
  <2>2. closed \in BOOLEAN /\ unheard = {}
    BY DEF UpdateInit
  <2>3. 0 \in 0 .. MaxLines /\ 0 \in 0 .. NUM_KEYSLOTS + 1 /\ 0 \in 0 .. NUM_KEYSLOTS /\ 0 <= ChanCap
    BY UpdateAssumption
  <2> QED
    BY <1>1, <2>1, <2>2, <2>3 DEF UpdateInit, UpdateShape
<1> QED
  BY <1>2, UpdateAssumption DEF UpdateInit, UpdateInv, ChanIsTheEnd, KeysCounted, StoredInOrder

(* The firmware stores the next slot. *)
LEMMA StoresNext ==
  ASSUME UpdateShape, NEW slot \in Contents, Stores(slot)
  PROVE  /\ eeprom' \in [1 .. NUM_KEYSLOTS -> Contents] /\ stored' \in 0 .. NUM_KEYSLOTS
         /\ stored' = stored + 1 /\ eeprom'[stored + 1] = slot
         /\ \A i \in 1 .. stored : eeprom'[i] = eeprom[i]
BY UpdateAssumption DEF UpdateShape, Stores

LEMMA ReadLineInv == UpdateInv /\ writer \notin {"done", "panic"} /\ ReadLine => UpdateInv'
<1> SUFFICES ASSUME UpdateInv, writer \notin {"done", "panic"}, ReadLine PROVE UpdateInv'
  OBVIOUS
<1> USE UpdateAssumption DEF UpdateInv, firmwareVars
<1>1. /\ ~closed /\ lines' \in 0 .. MaxLines /\ writer # "fill"
      /\ UNCHANGED <<closed, writer, num_keys_written, eeprom, stored, unheard>>
  BY DEF ReadLine, UpdateShape, KeysCounted
<1>2. CASE UNCHANGED <<new_keys_chan, keys>>
  BY <1>1, <1>2 DEF UpdateShape, ChanIsTheEnd, KeysCounted, StoredInOrder
<1>3. CASE ~UNCHANGED <<new_keys_chan, keys>>
  <2>0. PICK line \in KeyLines :
          /\ Len(new_keys_chan) < ChanCap
          /\ new_keys_chan' = Append(new_keys_chan, SlotOf(line)) /\ keys' = Append(keys, line)
    BY <1>3 DEF ReadLine, KeyLines
  <2> DEFINE slot == SlotOf(line)
  <2>1. slot \in Slots
    BY DEF Slots
  <2> HIDE DEF slot
  <2>2. /\ Len(new_keys_chan) \in Nat /\ Len(keys) \in Nat
        /\ new_keys_chan' \in Seq(Slots) /\ keys' \in Seq(KeyLines)
        /\ Len(new_keys_chan') = Len(new_keys_chan) + 1 /\ Len(keys') = Len(keys) + 1
        /\ new_keys_chan'[Len(new_keys_chan) + 1] = SlotOf(keys'[Len(keys) + 1])
        /\ \A i \in 1 .. Len(new_keys_chan) : new_keys_chan'[i] = new_keys_chan[i]
        /\ \A i \in 1 .. Len(keys) : keys'[i] = keys[i]
    BY <2>0, <2>1 DEF UpdateShape, slot
  <2>3. UpdateShape'
    BY <1>1, <2>0, <2>2 DEF UpdateShape
  <2>4. ChanIsTheEnd'
    <3>0. Len(keys') - Len(new_keys_chan') = Len(keys) - Len(new_keys_chan)
      BY <2>2
    <3> SUFFICES ASSUME NEW i \in 1 .. Len(new_keys_chan) + 1
                 PROVE  new_keys_chan'[i] = SlotOf(keys'[Len(keys) - Len(new_keys_chan) + i])
      <4>1. Len(new_keys_chan') <= Len(keys')
        BY <2>2 DEF ChanIsTheEnd
      <4> QED
        BY <2>2, <3>0, <4>1 DEF ChanIsTheEnd
    <3>1. CASE i = Len(new_keys_chan) + 1
      BY <2>2, <3>1
    <3>2. CASE i \in 1 .. Len(new_keys_chan)
      <4>1. /\ new_keys_chan[i] = SlotOf(keys[Len(keys) - Len(new_keys_chan) + i])
            /\ Len(new_keys_chan) <= Len(keys)
        BY <3>2 DEF ChanIsTheEnd
      <4>2. Len(keys) - Len(new_keys_chan) + i \in 1 .. Len(keys)
        BY <2>2, <3>2, <4>1
      <4> QED
        BY <2>2, <3>2, <4>1, <4>2
    <3> QED
      BY <2>2, <3>1, <3>2
  <2>5. KeysCounted'
    <3>1. writer' \in {"handshake", "write"} /\ num_keys_written' = num_keys_written
      BY <1>1 DEF UpdateShape
    <3>2. /\ num_keys_written = Len(keys) - Len(new_keys_chan)
          /\ writer' = "handshake" => num_keys_written = 0
          /\ num_keys_written <= NUM_KEYSLOTS
      BY <1>1, <3>1 DEF KeysCounted
    <3>3. Len(keys') - Len(new_keys_chan') = Len(keys) - Len(new_keys_chan)
      BY <2>2
    <3> HIDE DEF UpdateInv, firmwareVars
    <3> QED
      BY <3>1, <3>2, <3>3 DEF KeysCounted
  <2>6. StoredInOrder'
    <3>1. writer # "panic" /\ "key" \notin unheard => stored <= Len(keys) /\ stored \in Nat
      BY <1>1, <2>2 DEF StoredInOrder, UpdateShape, KeysCounted
    <3> QED
      BY <1>1, <2>2, <3>1 DEF StoredInOrder
  <2> QED
    BY <2>3, <2>4, <2>5, <2>6
<1> QED
  BY <1>2, <1>3

LEMMA SendKeyInv == UpdateInv /\ SendKey => UpdateInv'
<1> SUFFICES ASSUME UpdateInv, SendKey PROVE UpdateInv'
  OBVIOUS
<1> DEFINE slot == Head(new_keys_chan)
<1>1. /\ Len(new_keys_chan) \in Nat \ {0} /\ Len(keys) \in Nat /\ slot \in Slots
      /\ new_keys_chan' \in Seq(Slots) /\ keys' = keys
      /\ Len(new_keys_chan') = Len(new_keys_chan) - 1
      /\ slot = new_keys_chan[1]
      /\ \A i \in 1 .. Len(new_keys_chan) - 1 : new_keys_chan'[i] = new_keys_chan[i + 1]
  BY DEF SendKey, UpdateInv, UpdateShape, readerVars
<1>2. UNCHANGED <<lines, closed>> /\ writer = "write"
  BY DEF SendKey, readerVars
<1>3. slot = SlotOf(keys[num_keys_written + 1]) /\ num_keys_written = Len(keys) - Len(new_keys_chan)
  BY <1>1, <1>2 DEF UpdateInv, ChanIsTheEnd, KeysCounted
<1>4. ChanIsTheEnd'
  BY <1>1 DEF UpdateInv, ChanIsTheEnd
<1>5. \/ writer' = "panic" /\ UNCHANGED num_keys_written
      \/ /\ num_keys_written' = num_keys_written + 1
         /\ writer' = IF num_keys_written + 1 > NUM_KEYSLOTS THEN "panic" ELSE "write"
  BY DEF SendKey, AfterKey
<1>6. KeysCounted' /\ num_keys_written' \in 0 .. NUM_KEYSLOTS + 1
  BY <1>1, <1>2, <1>3, <1>5, UpdateAssumption DEF UpdateInv, KeysCounted, UpdateShape
<1>7. Stores(slot) \/ UNCHANGED <<eeprom, stored>>
  BY DEF SendKey, firmwareVars
<1>8. /\ eeprom' \in [1 .. NUM_KEYSLOTS -> Contents] /\ stored' \in 0 .. NUM_KEYSLOTS
      /\ Stores(slot) =>
           /\ stored' = stored + 1 /\ eeprom'[stored + 1] = slot
           /\ \A i \in 1 .. stored : eeprom'[i] = eeprom[i]
  BY <1>1, <1>7, StoresNext DEF UpdateInv, UpdateShape, Contents
<1>9. UpdateShape'
  <2>1. unheard' \subseteq {"key", "filling"}
    BY DEF SendKey, firmwareVars, UpdateInv, UpdateShape
  <2>2. Len(new_keys_chan') <= ChanCap
    BY <1>1, UpdateAssumption DEF UpdateInv, UpdateShape
  <2> QED
    BY <1>1, <1>2, <1>5, <1>6, <1>8, <2>1, <2>2 DEF UpdateInv, UpdateShape
<1>10. StoredInOrder'
  <2> SUFFICES ASSUME writer' # "panic", "key" \notin unheard'
               PROVE  /\ stored' = num_keys_written'
                      /\ \A i \in 1 .. stored' :
                           eeprom'[i] = IF i <= Len(keys) THEN SlotOf(keys[i]) ELSE InvalidKey
    BY <1>1, <1>5 DEF StoredInOrder
  <2>1. "key" \notin unheard /\ num_keys_written' = num_keys_written + 1 /\ num_keys_written < NUM_KEYSLOTS
    BY <1>5, UpdateAssumption DEF SendKey, UpdateInv, UpdateShape
  <2>2. /\ stored = num_keys_written
        /\ \A i \in 1 .. stored : eeprom[i] = IF i <= Len(keys) THEN SlotOf(keys[i])
                                                          ELSE InvalidKey
    BY <1>2, <2>1 DEF UpdateInv, StoredInOrder
  <2>3. stored # NUM_KEYSLOTS
    BY <2>1, <2>2, UpdateAssumption DEF UpdateInv, UpdateShape
  <2>4. Stores(slot)
    BY <2>3 DEF SendKey
  <2>5. stored + 1 <= Len(keys) /\ stored \in Nat
    BY <1>1, <1>3, <2>2 DEF UpdateInv, UpdateShape
  <2> HIDE DEF slot
  <2> QED
    BY <1>3, <1>8, <2>1, <2>2, <2>4, <2>5
<1> QED
  BY <1>4, <1>6, <1>9, <1>10 DEF UpdateInv

LEMMA FillInv == UpdateInv /\ Fill => UpdateInv'
<1> SUFFICES ASSUME UpdateInv, Fill PROVE UpdateInv'
  OBVIOUS
<1>1. UNCHANGED <<lines, keys, new_keys_chan, closed>> /\ writer = "fill"
  BY DEF Fill, readerVars
<1>2. Len(keys) \in Nat /\ Len(keys) <= num_keys_written /\ num_keys_written <= NUM_KEYSLOTS
  BY <1>1 DEF UpdateInv, UpdateShape, KeysCounted
<1>3. CASE num_keys_written < NUM_KEYSLOTS
  <2>1. writer' = writer /\ num_keys_written' = num_keys_written + 1
    BY <1>3 DEF Fill, FillSlot
  <2>2. CASE Stores(InvalidKey) /\ UNCHANGED unheard
    <3>1. /\ eeprom' \in [1 .. NUM_KEYSLOTS -> Contents] /\ stored' \in 0 .. NUM_KEYSLOTS
          /\ stored' = stored + 1 /\ eeprom'[stored + 1] = InvalidKey
          /\ \A i \in 1 .. stored : eeprom'[i] = eeprom[i]
      BY <2>2, StoresNext DEF UpdateInv, Contents
    <3>2. StoredInOrder'
      BY <1>1, <1>2, <2>1, <2>2, <3>1 DEF UpdateInv, StoredInOrder, UpdateShape
    <3> QED
      BY <1>1, <1>2, <1>3, <2>1, <2>2, <3>1, <3>2, UpdateAssumption
         DEF UpdateInv, UpdateShape, ChanIsTheEnd, KeysCounted
  <2>3. CASE unheard' = unheard \cup {"filling"} /\ UNCHANGED <<eeprom, stored>>
    BY <1>1, <1>2, <1>3, <2>1, <2>3, UpdateAssumption
       DEF UpdateInv, UpdateShape, ChanIsTheEnd, KeysCounted, StoredInOrder
  <2> QED
    BY <1>3, <2>2, <2>3 DEF Fill, FillSlot
<1>4. CASE ~(num_keys_written < NUM_KEYSLOTS)
  <2>1. writer' = "done" /\ UNCHANGED <<num_keys_written, eeprom, stored, unheard>>
    BY <1>4 DEF Fill, Filled, firmwareVars
  <2>2. num_keys_written = NUM_KEYSLOTS
    BY <1>2, <1>4, UpdateAssumption DEF UpdateInv, UpdateShape
  <2> QED
    BY <1>1, <2>1, <2>2 DEF UpdateInv, UpdateShape, ChanIsTheEnd, KeysCounted, StoredInOrder
<1> QED
  BY <1>3, <1>4

LEMMA UpdateNextInv == UpdateInv /\ [UpdateNext]_updateVars => UpdateInv'
<1> SUFFICES ASSUME UpdateInv, [UpdateNext]_updateVars PROVE UpdateInv'
  OBVIOUS
<1> USE DEF readerVars, firmwareVars, UpdateInv, UpdateShape, ChanIsTheEnd, KeysCounted,
            StoredInOrder
<1>1. CASE writer \notin {"done", "panic"} /\ FileEnds
  BY <1>1 DEF FileEnds
<1>3. CASE Handshake
  BY <1>3 DEF Handshake
<1>4. CASE KeysSent
  BY <1>4, UpdateAssumption DEF KeysSent
<1>2. CASE UNCHANGED updateVars
  BY <1>2 DEF updateVars
<1> HIDE DEF UpdateInv
<1> QED
  BY <1>1, <1>2, <1>3, <1>4, ReadLineInv, SendKeyInv, FillInv DEF UpdateNext, Updating, Ended

LEMMA AlwaysUpdateInv == UpdateSpec => []UpdateInv
BY UpdateInitInv, UpdateNextInv, PTL DEF UpdateSpec

LEMMA UpdateIsTyped == UpdateInv => UpdateTypeOK
BY SlotsHaveEight DEF UpdateInv, UpdateShape, UpdateTypeOK

(* A filling does not pass for a key: its checksum is 200. *)
LEMMA FillingIsNotValid == ~IsValid(InvalidKey)
<1> DEFINE Step(f, x) == IF x = 0 THEN <<15, 15>>
                         ELSE LET sum1 == (f[x - 1][1] + InvalidKey[x]) % 256
                              IN  <<sum1, (f[x - 1][2] + sum1) % 256>>
           known == <<15, 29, 42, 54, 65, 75, 84, 92>>
           g == [x \in 0 .. 7 |-> <<15 - x, known[x + 1]>>]
           sums == CHOOSE f : f = [x \in 0 .. 7 |-> Step(f, x)]
<1>1. g = [x \in 0 .. 7 |-> Step(g, x)]
  <2>1. ASSUME NEW x \in 0 .. 7 PROVE g[x] = Step(g, x)
    <3>1. x \in {0, 1, 2, 3, 4, 5, 6, 7}
      OBVIOUS
    <3>2. x # 0 => g[x - 1][1] = 16 - x /\ g[x - 1][2] = known[x] /\ InvalidKey[x] = 255
      BY <3>1 DEF InvalidKey, KEYSLOT_LEN
    <3>3. x # 0 => (16 - x + 255) % 256 = 15 - x
      BY <3>1
    <3>4. x # 0 => (known[x] + (15 - x)) % 256 = known[x + 1]
      BY <3>1
    <3> QED
      BY <3>1, <3>2, <3>3, <3>4
  <2> QED
    BY <2>1
<1>2. sums = [x \in 0 .. 7 |-> Step(sums, x)]
  BY <1>1
<1>3. sums[7] = <<8, 92>>
  <2> HIDE DEF sums
  <2>1. \A x \in 1 .. 7 : InvalidKey[x] = 255
    BY DEF InvalidKey, KEYSLOT_LEN
  <2>2. sums[0] = <<15, 15>>
    BY <1>2
  <2>3. ASSUME NEW x \in 1 .. 7 PROVE sums[x] = Step(sums, x)
    <3>1. x \in 0 .. 7
      OBVIOUS
    <3> HIDE DEF Step
    <3> QED
      BY <1>2, <3>1
  <2>4. sums[1] = <<14, 29>>
    BY <2>1, <2>2, <2>3
  <2>5. sums[2] = <<13, 42>>
    BY <2>1, <2>4, <2>3
  <2>6. sums[3] = <<12, 54>>
    BY <2>1, <2>5, <2>3
  <2>7. sums[4] = <<11, 65>>
    BY <2>1, <2>6, <2>3
  <2>8. sums[5] = <<10, 75>>
    BY <2>1, <2>7, <2>3
  <2>9. sums[6] = <<9, 84>>
    BY <2>1, <2>8, <2>3
  <2> QED
    BY <2>1, <2>9, <2>3
<1>4. generateFletcher8Checksum(InvalidKey) = Or((sums[7][2] * 16) % 256, sums[7][1])
  BY DEF generateFletcher8Checksum, KEYSLOT_LEN
<1> HIDE DEF sums
<1>5. (sums[7][2] * 16) % 256 = 192 /\ sums[7][1] = 8
  BY <1>3
<1>6. Or(192, 8) = 200
  BY DEF Or, Bits, Has
<1>7. InvalidKey[KEYSLOT_LEN] = 255
  BY DEF InvalidKey, KEYSLOT_LEN
<1> QED
  BY <1>4, <1>5, <1>6, <1>7 DEF IsValid

(* The checksum is that of the first seven bytes. *)
Sums(slot) ==
  CHOOSE f : f = [x \in 0 .. KEYSLOT_LEN - 1 |->
                    IF x = 0 THEN <<15, 15>>
                    ELSE LET sum1 == (f[x - 1][1] + slot[x]) % 256
                         IN  <<sum1, (f[x - 1][2] + sum1) % 256>>]

LEMMA ChecksumOfSeven ==
  ASSUME NEW s, NEW t, \A b \in 1 .. KEYSLOT_LEN - 1 : s[b] = t[b]
  PROVE  generateFletcher8Checksum(s) = generateFletcher8Checksum(t)
<1> DEFINE F(slot, f) == f = [x \in 0 .. KEYSLOT_LEN - 1 |->
                                IF x = 0 THEN <<15, 15>>
                                ELSE LET sum1 == (f[x - 1][1] + slot[x]) % 256
                                     IN  <<sum1, (f[x - 1][2] + sum1) % 256>>]
<1>1. \A f : F(s, f) <=> F(t, f)
  BY DEF KEYSLOT_LEN
<1>2. Sums(s) = Sums(t)
  <2> HIDE DEF F
  <2>1. (CHOOSE f : F(s, f)) = (CHOOSE f : F(t, f))
    BY <1>1, Zenon
  <2> QED
    BY <2>1 DEF Sums, F
<1>3. \A slot : generateFletcher8Checksum(slot) = Or((Sums(slot)[7][2] * 16) % 256, Sums(slot)[7][1])
  BY DEF generateFletcher8Checksum, Sums, KEYSLOT_LEN
<1> QED
  BY <1>2, <1>3

(* The slot made of a key holds it. *)
LEMMA SlotHolds ==
  ASSUME NEW key
  PROVE  HasKey(SlotOf(key), key)
<1> DEFINE bytes == [i \in 1 .. KEYSLOT_LEN |-> IF i <= Len(key) THEN key[i] ELSE 0]
<1>1. SlotOf(key) = [bytes EXCEPT ![KEYSLOT_LEN] = generateFletcher8Checksum(bytes)]
  BY DEF SlotOf
<1>2. \A b \in 1 .. KEYSLOT_LEN - 1 : SlotOf(key)[b] = bytes[b]
  BY <1>1 DEF KEYSLOT_LEN
<1>3. generateFletcher8Checksum(SlotOf(key)) = generateFletcher8Checksum(bytes)
  <2> HIDE DEF bytes
  <2> QED
    BY <1>2, ChecksumOfSeven
<1>4. SlotOf(key)[KEYSLOT_LEN] = generateFletcher8Checksum(bytes)
  BY <1>1 DEF KEYSLOT_LEN
<1>5. \A b \in 1 .. KEYSLOT_LEN - 1 : bytes[b] = IF b <= Len(key) THEN key[b] ELSE 0
  BY DEF KEYSLOT_LEN
<1> HIDE DEF bytes
<1> QED
  BY <1>2, <1>3, <1>4, <1>5 DEF HasKey, IsValid

(* An EEPROM whose keys were all confirmed holds the keys of the file, and *)
(* no others if no filling was refused, for every file and every number of *)
(* slots.                                                                  *)
THEOREM AlwaysDoneIsProgrammed == UpdateSpec => []DoneIsProgrammed
<1>1. UpdateInv => DoneIsProgrammed
  <2> SUFFICES ASSUME UpdateInv, writer = "done", "key" \notin unheard
               PROVE  /\ Len(keys) <= NUM_KEYSLOTS
                      /\ \A i \in 1 .. Len(keys) : HasKey(eeprom[i], keys[i])
                      /\ unheard = {} => \A i \in Len(keys) + 1 .. NUM_KEYSLOTS :
                                          ~IsValid(eeprom[i])
    BY DEF DoneIsProgrammed
  <2>1. /\ stored \in Nat /\ Len(keys) \in Nat /\ Len(keys) <= stored
        /\ stored <= NUM_KEYSLOTS /\ NUM_KEYSLOTS \in Nat
        /\ unheard = {} => stored = NUM_KEYSLOTS
    BY UpdateAssumption DEF UpdateInv, UpdateShape, KeysCounted, StoredInOrder
  <2>2. \A i \in 1 .. stored :
          eeprom[i] = IF i <= Len(keys) THEN SlotOf(keys[i]) ELSE InvalidKey
    BY DEF UpdateInv, StoredInOrder
  <2>3. \A i \in 1 .. Len(keys) : HasKey(eeprom[i], keys[i])
    BY <2>1, <2>2, SlotHolds
  <2>4. ASSUME unheard = {}, NEW i \in Len(keys) + 1 .. NUM_KEYSLOTS
        PROVE  ~IsValid(eeprom[i])
    <3>1. eeprom[i] = InvalidKey
      BY <2>1, <2>2, <2>4
    <3> QED
      BY <3>1, FillingIsNotValid
  <2> QED
    BY <2>1, <2>3, <2>4
<1> QED
  BY <1>1, AlwaysUpdateInv, PTL
-----------------------------------------------------------------------------
(* The types of all of them *)

LEMMA SubsTypeStep == SubsTypeOK /\ [SubsNext]_subsVars => SubsTypeOK'
<1> SUFFICES ASSUME SubsTypeOK, [SubsNext]_subsVars PROVE SubsTypeOK'
  OBVIOUS
<1> USE SubsAssumption DEF SubsTypeOK, connectionVars
<1>1. CASE Exit
  <2>1. <<>> \in Seq(Packets) /\ 0 \in 0 .. MaxConnections
    OBVIOUS
  <2>2. connected' \in BOOLEAN
    BY <1>1 DEF Exit
  <2> QED
    BY <1>1, <2>1, <2>2 DEF Exit, NoHandlers
<1>2. CASE ConnectMQTTBroker
  BY <1>2 DEF ConnectMQTTBroker
<1>3. CASE SubscribeMultiple /\ connected
  <2>1. [sub |-> TRUE, topics |-> Topics, by |-> Bot] \in Packets
    BY DEF Packets
  <2>2. wire' \in Seq(Packets)
    BY <1>3, <2>1 DEF SubscribeMultiple
  <2> QED
    BY <1>3, <2>2 DEF SubscribeMultiple
<1>4. CASE addSubscribedTopics
  BY <1>4 DEF addSubscribedTopics
<1>5. CASE UnsubscribeMultiple
  <2>1. [sub |-> FALSE, topics |-> Topics, by |-> Bot] \in Packets
    BY DEF Packets
  <2>2. wire' \in Seq(Packets)
    BY <1>5, <2>1 DEF UnsubscribeMultiple
  <2>3. routes' \subseteq Topics
    BY <1>5 DEF UnsubscribeMultiple
  <2> QED
    BY <1>5, <2>2, <2>3 DEF UnsubscribeMultiple
<1>6. CASE removeSubscribedTopic \/ BotRests
  BY <1>6 DEF removeSubscribedTopic, BotRests
<1>7. ASSUME NEW k \in Connections, Resubscribes(k), ~Exit PROVE SubsTypeOK'
  <2>1. [sub |-> TRUE, topics |-> mqtt_topics_we_subscribed_, by |-> k] \in Packets
    BY DEF Packets
  <2>2. wire' \in Seq(Packets)
    BY <1>7, <2>1 DEF Resubscribes
  <2>3. handler' \in [Connections -> {"none", "started", "waiting", "done"}]
    BY <1>7 DEF Resubscribes
  <2> QED
    BY <1>7, <2>2, <2>3 DEF Resubscribes
<1>8. CASE BrokerAnswers
  <2>1. Head(wire) \in Packets /\ wire' \in Seq(Packets)
    BY <1>8 DEF BrokerAnswers
  <2>2. handler' \in [Connections -> {"none", "started", "waiting", "done"}]
    BY <1>8 DEF BrokerAnswers
  <2>3. bot' \in {"connect", "idle", "subscribing", "adding", "running", "removing"}
        /\ subscribed' \subseteq Granted
    BY <1>8 DEF BrokerAnswers
  <2> QED
    BY <1>8, <2>1, <2>2, <2>3 DEF BrokerAnswers
<1>9. CASE ConnectionLost /\ ~Exit
  <2>1. <<>> \in Seq(Packets)
    OBVIOUS
  <2> QED
    BY <1>9, <2>1 DEF ConnectionLost
<1>10. CASE Connected
  <2>1. connected' \in BOOLEAN /\ connections' \in 0 .. MaxConnections
    BY <1>10 DEF Connected
  <2>2. handler' \in [Connections -> {"none", "started", "waiting", "done"}]
    BY <1>10 DEF Connected
  <2> QED
    BY <1>10, <2>1, <2>2 DEF Connected
<1>11. CASE UNCHANGED subsVars
  BY <1>11 DEF subsVars
<1> HIDE DEF SubsTypeOK
<1>12. SubscribeMultiple => connected \/ Exit
  BY DEF SubscribeMultiple
<1> QED
  BY <1>1, <1>2, <1>3, <1>4, <1>5, <1>6, <1>7, <1>8, <1>9, <1>10, <1>11, <1>12
     DEF SubsNext, RunXMPPBotForever

LEMMA NodeTypeStep == NodeTypeOK /\ [NodeNext]_nodeVars => NodeTypeOK'
<1> SUFFICES ASSUME NodeTypeOK, [NodeNext]_nodeVars PROVE NodeTypeOK'
  OBVIOUS
<1> USE NodeAssumption DEF NodeTypeOK, boardVars
<1>1. CASE OpensDevice
  <2>1. <<>> \in Seq(BoardSays) /\ Len(<<>>) <= LinesCap
    OBVIOUS
  <2>2. notified' \in BOOLEAN
    BY <1>1 DEF OpensDevice
  <2> QED
    BY <1>1, <2>1, <2>2 DEF OpensDevice
<1>2. CASE CannotOpen
  BY <1>2 DEF CannotOpen, Returns
<1>3. CASE TakeLine
  <2>1. /\ Head(serial_rd) \in BoardSays /\ Tail(serial_rd) \in Seq(BoardSays)
        /\ Len(Tail(serial_rd)) <= LinesCap
    BY <1>3 DEF TakeLine
  <2>2. notified' \in BOOLEAN
    BY <1>3 DEF TakeLine
  <2>3. CASE Head(serial_rd) = "short"
    BY <1>3, <2>2, <2>3 DEF TakeLine, Returns
  <2>4. CASE Head(serial_rd) # "short"
    BY <1>3, <2>1, <2>2, <2>4 DEF TakeLine
  <2> QED
    BY <2>3, <2>4
<1>4. CASE DeviceGone
  BY <1>4 DEF DeviceGone, Returns
<1>5. CASE TakeTrigger \/ AsksBoard
  BY <1>5 DEF TakeTrigger, AsksBoard
<1>6. CASE BacksOff
  BY <1>6 DEF BacksOff
<1>7. CASE serialWriter
  BY <1>7 DEF serialWriter
<1>8. CASE serialReader
  <2>1. serial_rd' \in Seq(BoardSays) /\ Len(serial_rd') <= LinesCap
    BY <1>8 DEF serialReader
  <2> QED
    BY <1>8, <2>1 DEF serialReader
<1>9. CASE StatusIsRequested
  <2>1. inbound' = Append(inbound, "request")
    BY <1>9 DEF StatusIsRequested
  <2>2. UNCHANGED <<node, boardVars, triggers, backoff_exp, notified>>
    BY <1>9 DEF StatusIsRequested
  <2> QED
    BY <2>1, <2>2
<1>10. CASE BrokerAnswersNode
  BY <1>10 DEF BrokerAnswersNode
<1>11. CASE HandOver
  BY <1>11 DEF HandOver
<1>12. CASE IntervalEnds
  BY <1>12 DEF IntervalEnds
<1>13. CASE StaysJammed \/ UNCHANGED nodeVars
  BY <1>13 DEF StaysJammed, nodeVars
<1> HIDE DEF NodeTypeOK
<1> QED
  BY <1>1, <1>2, <1>3, <1>4, <1>5, <1>6, <1>7, <1>8, <1>9, <1>10, <1>11, <1>12, <1>13
     DEF NodeNext

LEMMA CountedNext == Counted /\ [SessionsNext]_sessionVars => Counted'
<1>1. Counted /\ UNCHANGED sessionVars => Counted'
  BY DEF sessionVars, Counted, SessionsShape, WaitsForTheLast
<1> QED
  BY <1>1, CallerCounted, WaiterCounted, RunsCounted DEF SessionsNext, Quiet

DevicesInv == SubsTypeOK /\ NodeTypeOK /\ KeysTypeOK /\ UpdateInv /\ Counted

(* Every part keeps its types, for every value of the constants.           *)
THEOREM DevicesTypeCorrect == DevicesSpec => []TypesOK
<1>1. DevicesInit => DevicesInv
  <2>1. SubsInit => SubsTypeOK
    <3>1. SubsInit => wire \in Seq(Packets)
      BY DEF SubsInit
    <3>2. SubsInit => handler \in [Connections -> {"none", "started", "waiting", "done"}]
      BY DEF SubsInit, NoHandlers
    <3>3. SubsInit => connected \in BOOLEAN
      BY DEF SubsInit
    <3>4. 0 \in 0 .. MaxConnections
      BY SubsAssumption
    <3> QED
      BY <3>1, <3>2, <3>3, <3>4, SubsAssumption DEF SubsInit, SubsTypeOK
  <2>2. NodeInit => NodeTypeOK
    <3>1. <<>> \in Seq(BoardSays) /\ Len(<<>>) <= LinesCap
          /\ <<>> \in Seq({"request", "answer"})
      BY NodeAssumption
    <3>2. 0 \in 0 .. 2 /\ 0 \in 0 .. TriggerCap /\ 0 \in 0 .. MaxBackoff
      BY NodeAssumption
    <3>3. NodeInit => notified \in BOOLEAN
      BY DEF NodeInit
    <3> QED
      BY <3>1, <3>2, <3>3 DEF NodeInit, NodeTypeOK
  <2>3. KeysInit => KeysTypeOK
    BY KeysInitInv DEF KeysInv
  <2> QED
    BY <2>1, <2>2, <2>3, UpdateInitInv, CountedInit DEF DevicesInit, DevicesInv
<1>2. DevicesInv /\ [DevicesNext]_devicesVars => DevicesInv'
  <2> SUFFICES ASSUME DevicesInv, [DevicesNext]_devicesVars PROVE DevicesInv'
    OBVIOUS
  <2>1. [SubsNext]_subsVars /\ [NodeNext]_nodeVars /\ [KeysNext]_keysVars
        /\ [UpdateNext]_updateVars /\ [SessionsNext]_sessionVars
    BY DEF DevicesNext, devicesVars, Of
  <2> QED
    BY <2>1, SubsTypeStep, NodeTypeStep, KeysTypeStep, UpdateNextInv, CountedNext DEF DevicesInv
<1>3. DevicesInv => TypesOK
  BY CountedIsTyped, UpdateIsTyped DEF DevicesInv, TypesOK
<1> QED
  BY <1>1, <1>2, <1>3, PTL DEF DevicesSpec
=============================================================================
