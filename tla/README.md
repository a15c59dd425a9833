# Formal models of door_and_sensors

The door, sensor and presence system of realraum is a set of small programs that talk through an MQTT broker.
This directory holds TLA+ models of its programs, configurations that check them with TLC and proofs that TLAPS checks.
Paths are relative to the root of the repository.

## The system

| part | state | operations | talks to |
|---|---|---|---|
| `door_daemon` | calls waiting for an answer, one timer, five channels, memory of the workaround, MQTT connection | SendCmd (RPC), lines of the firmware, status triggers, timeout, connect, exit | clients (RPC), firmware (serial), broker |
| `r3-metaevt-maker/presence.go` | locks and contacts of three doors, last command, last manual lock handling, last decision | one handler per event type, each followed by the decision | broker |
| `r3-metaevt-maker/metamovement.go` | ring of counts, time of the last movement and which ages were announced | movement event, tick | broker |
| `r3-metaevt-maker/sensorlost.go`, `movementsum.go` | intervals of each topic; counts of each topic | message, tick | broker |
| `r3-metaevt-maker/duskordawn.go`, `metatimetoclean.go` | none | timer | broker |
| `goutils/mqtt_subs.go` | remembered topics | subscribe, unsubscribe, reconnect | broker |
| `door_daemon/keys_file.go` | map of keys, modification time | load if needed, lookup | file |
| `backdoorcx_sensor_node` | time of the last short message, backoff | serial lines, reopen, trigger | firmware, broker |
| `r3-xmppbot` | users and their settings, last status, watchdog | events, stanzas, ping, start and stop | broker, XMPP server |
| `r3-spaceapistatus` | presence, button, sensors, status document, ssh session | events, tick, publication | broker, web, ssh |
| `update-keys` | count of keys written | read, checksum, write | firmware |
| `sming_w2frontdoor` | contacts, timers, connection | interrupts, timers | broker |
| `scripts` | lights, sound, freezer temperatures | events, timers | broker |

What flows between them: a card, a hand or a call moves the front door; its firmware says so on the serial line;
`door_daemon` publishes retained `lock` and `ajar` messages; together with the messages of the other two doors, the
button and the movement sensors they make `presence.go` publish the retained `realraum/metaevt/presence`, which lights,
sound, web status and XMPP bot follow.

What is hard, and what makes each part correct:

* **door_daemon**: five goroutines and as many bounded channels. Lines may be unsolicited, late or lost, answers carry
  no identification, one timer serves all calls, and before the broker is reachable everything published is thrown away.
  Correct is: every call returns, none is lost or answered twice, main never stays blocked, and the retained messages
  end up telling the state of the door.
* **presence**: events of three hosts with clocks of their own, handlers that end early, restarts that forget all.
  Correct is: the decision is never behind the doors, a command alone empties nothing, the topic never behind the decision.
* **movement**: a ring whose slots are cleared by hand, four cascaded ages. Correct is: each age announced once and on time.
* **main of the meta events, movement sum, sensor lost**: one goroutine feeds all routines and waits for the slowest.
  Correct is: no movement is lost or told twice, and a lost sensor is announced (it is not, see below).
* **subscriptions**: the broker forgets them with the connection, and a handler with a goroutine of its own makes them
  again from what another goroutine remembers. Correct is: a program that has subscribed gets its messages.
* **key file**: looked at twice and read once while somebody edits it. Correct is: a lookup goes by what is in the file.
* **backdoor node**: a device that disappears, lines that make the program panic, and a callback that waits for the
  goroutine that waits for the broker. Correct is: the device is tried again.
* **xmpp bot**: three goroutines share a bot that two of them may stop, behind channels of one place and a server that
  may go silent; three timers end the whole process. Users come with several resources, log in for two hours, and keep
  their settings in a file. Correct is: a bot that is lost is followed by another, nothing stays open on a bot that is
  gone, who never gave the password is sent no message, and what a user asked for holds until it asks for something else.
* **space api status**: a handler that waits for the web while messages queue up, goroutines that install documents in any
  order, lists that are cut while an index runs through them, numbers that JSON does not know, and ssh attempts that go on
  after they were given up. Correct is: the last presence is never lost and ends up on the web, and requests are answered.
* **update-keys**: what the firmware answers is read for the keys but not for the filling. Correct is: a program that ends
  well has left the keys of the file and no other in the EEPROM.

The full list of what can go wrong, with the line where it would, is under `hazards` in `PROJECT.json`.

## Modules

| module | what it models |
|---|---|
| `DataLemmas` | induction over the natural numbers, occurrences in a sequence, loops; used by the proofs of several components |
| `PresenceBoard` | abstract: what the consumers of the presence topic may rely on |
| `Presence` | `MetaEventRoutine_Presence`, one action per event type |
| `PresenceProofs` | theorems about `Presence` |
| `MetaMovement` | `MetaEventRoutine_Movement`: `MovementSensorUpdate` and `Tick`, the two cases of its select |
| `MetaMovementProofs` | theorems about `MetaMovement` and `MetaEvents` |
| `FrontdoorCalls` | abstract: what the daemon promises to the callers of `SendCmd` |
| `DoorDaemon` | the goroutines of `door_daemon` and the channels between them |
| `DoorDaemonProofs` | theorems about `DoorDaemon` |
| `XmppBot` | `r3-xmppbot`: the goroutines of a bot from its start to its stop and the next start |
| `XmppBotProofs` | theorems about `XmppBot` |
| `XmppUsers` | `r3-xmppbot`: logins, settings and presence of the users, who is told, the settings file |
| `XmppUsersProofs` | theorems about `XmppUsers` |
| `MetaEvents` | main of `r3-metaevt-maker`, its pubsub, `MetaEventRoutine_MovementSum` and `MetaEventRoutine_SensorLost` |
| `R3Events` | `UnmarshalTopicByte2Event`: which messages become events |
| `SpaceDocument` | the lists of the status document and what cleans them |
| `SpaceStatus` | `r3-spaceapistatus`: main, `EventToWeb`, publication |
| `SpaceStatusProofs` | theorems about `SpaceDocument` and `SpaceStatus` |
| `SessionRequests` | abstract: what `getWebStatusSSHSession` promises |
| `StatusSessions` | `goCreateSSHSessions`: one goroutine, its attempts and the client they share |
| `MqttSubs` | `goutils/mqtt_subs.go`, as `r3-xmppbot` uses it |
| `KeyNickStore` | `door_daemon/keys_file.go` |
| `BackdoorNode` | `backdoorcx_sensor_node` |
| `UpdateKeys` | `update-keys` |
| `DevicesProofs` | theorems about the five small components: `MqttSubs`, `KeyNickStore`, `BackdoorNode`, `UpdateKeys`, `StatusSessions` |
| `MCMetaMovement`, `MCDoorDaemon`, `MCXmppBot`, `MCXmppUsers`, `MCSpaceStatus`, `MCDevices` | values of the constants for TLC |

`MCMetaMovement` (with `Presence`) and `MCDevices` check components that do not interact: a behaviour is one of a
`subject`, and the others rest, so the states of the parts add up and do not multiply. The ssh sessions are in both: in
`MCDevices` with all timeouts and liveness, in `MCMetaMovement`, whose behaviours are cut off, with more requests and one
timeout. In the same way a behaviour of `MCDoorDaemon` is one of a `scenario` (calls, jam, board) and one of `MCXmppUsers`
is `about` telling or about wishes.

`PROJECT.json` maps every definition to the lines it stands for.

**Presence.** The variables have the names of the Go variables. An action sets what the case of the type switch sets
and then takes the decision (`Decide`: `W1Decision`, `W2Decision`, `Publish`), or ends with `Continue` where the code
continues. Every stamp an event carries is arbitrary: messages are retained, may come late, and are stamped by three
clocks. A restart resets the process and leaves the message in the broker.

**MetaMovement.** A ticker drops ticks nobody takes, so handled ticks are any of `Gaps` seconds apart. A slot that was
never counted in is 0. The history variable `recent` remembers what each of the last intervals counted; the code has
no such memory, and what the code does with its ring is compared with it.

**DoorDaemon.** A step ends where a goroutine can block: main has the positions `select`, `write` (to the firmware),
`publish command`, `work around` and `publish line`. Channels are sequences with their capacities as constants.
`send_me_cmds` is one queue with the senders blocked on it, because blocked senders are served in order. Time is
abstract: the timer may expire whenever it runs, and the 30 and 90 seconds of the workaround may or may not have
passed. Every command that is written resets the one timer (main.go:153), so that clients without end could
postpone the timeout of the first for ever. `Callers` is finite, and `CallReturns` is claimed for
clients who stop coming, not for such a stream. The program is built with the timers of Go 1.23, whose `Reset` takes
back an expiry nobody has received, so `Reset` always leaves a running timer. The firmware is not in the repository
and is external: it answers each character, is stuck, or is silent, and speaks of its own accord. `missed` is a
history variable: a line was lost since the last `Status:` line; `BoardShowsDoor` makes no claim then, since the
daemon cannot know what it was not told.

Card lines, lines that are too short and `ProgramKeys` (a stub) are left out. The client library's own reconnecting is
not modelled: `Connect` happens once per process.

**XmppBot.** `main`, `events` and `stanzas` are where the goroutines of `RunXMPPBotForever`, `handleEventsforXMPP` and
`handleIncomingXMPPStanzas` (with the loop around it) stand. `StopBot` is three steps that main and the stanza handler
may interleave. What is sent is abstract: an event makes none, one or two sends, a stanza one of the sequences `Work`.
`Out` has no queue of its own: a send is possible while the server takes stanzas, and panics when `Out` is closed. A
panic of a timer, or outside of what recovers, ends the process (`cause` says which), and systemd starts it again. The
connection is external: it is up, mute (takes and answers nothing) or dead (does not even take).
Two bounds: the next bot starts when the stanza handler of the one before is gone, and the event handler of a stopped
bot, which drains its queue for ever and is never collected, is forgotten with that bot. The sleeps have no length: the
connect timeout may expire at any time after a failed start, in the code it does so within the sleep that follows.

**XmppUsers.** One action per command, presence stanza and event; `Says` and `Tell` are the updates that travel through
`jabber_events`. Logins belong to a JID, settings to the user. Messages are abstract but for their level, and the
filters for kinds of messages are left out. Beside messages there is the bot's own presence, which says whether somebody
is there (`TakeStatus`): the server, which is external, shows it to any of those who subscribed, and subscriptions are
accepted without a password (`Subscribe`). `Stop` stands for every way the event handler can end; from then on it
only drains its queue. `saveTo` may fail: the file is as before or cannot be read again, the map has the wish all the
same, and the error is only logged. `NewBot` is a start in the same process or in the next, without the users who have
left the roster, and possibly with a settings file that was cut off while it was written.
Six history variables say who was sent a message (`told`), who was shown the bot's presence (`shown`), who has given the
password (`proven`), whose subscription was accepted (`subscribed`), what each user asked for last (`asked`), and whether
the last save failed (`unsaved`). `asked` is given up in these cases only, in which a wish may be lost: the update that
carries it is drained, or was underway at a restart; the file is lost; the user left; or the last save before a restart
failed, and the file it left does not have the wish.

**MetaEvents.** `in_hand` says whether main has still to hand its message to the first or to the second channel;
`dispatched` and `summed` are histories of what came in and what was announced. `SensorLost` is modelled with its defect:
`SeeTopic` changes nothing but the history `witnessed`, which says what the record should be. Averages and variance are
left out: only the text of the message has them.

**SpaceStatus, SpaceDocument, R3Events.** `forwarding` holds the events main has made of the message in hand (two for
the couch sensor), `handler.at` where `EventToWeb` or the fallback stands. There is one topic of each kind that a
consumer tells apart, and what a message says is a set of facts: a temperature that is "old", a number that is "nan".
What becomes too old does so at any moment. `installing` are the goroutines that wait for the lock of the web server's
bytes. The ssh session is the step `GotSession`, which may take as long as it likes: what it does is `StatusSessions`,
whose promise `RequestsAreAnswered` (an answer, unless the process ends) is what makes that step fair. Bounds:
`MaxInstalls` goroutines that have not been scheduled yet (a publication waits for one to finish), `MaxSpaceEvents`
events.

**StatusSessions.** Attempts are numbered, two a request; the goroutine of one that timed out goes on (`at`), and
`ssh_webstatus_client` and `err` are shared as in the code: `Dialled` and `Report` look at them again, so that another
attempt may have changed them; `Report` has three outcomes, as a late attempt may take the error away before it is
logged, before it is sent, or not at all. An error that is nil when the answering goroutine logs it ends the process
(`crashed`): the request is then "lost", not answered. A connection has the number of the attempt that dialled it;
`open` are those nobody closed.

**MqttSubs.** A packet is sent in one step and answered in another. Handler and program hold the lock of the remembered
topics as the code does (`ReadLocked`). A request that fails ends the process. `stale` marks the one case in which a
topic may be missing: the connection that granted it was lost before it was remembered, and a handler looked in between.

**KeyNickStore.** Looking at the time, opening and reading are three steps between which the file may be written, removed
or replaced; every content is a `version`. A read may stop early, at an error nobody asks for (`ReadingStops`), and leaves a
part of the keys (`CutOff`). `LookupIsCurrent` names four cases in which a lookup does not go by the file: the file is older
than the one remembered, it changed within the same second, it had gone when it was to be opened, or it was not read to
its end. `touched` says which of the last three has happened; the first is a comparison of times.

**BackdoorNode.** `inbound` are the messages of the broker in their order: the answer to a publication may be behind a
request whose callback waits. `notified` is `gasleak_last_time`, local to an opening of the device. How often short messages
are sent is a comparison of times (main.go:113), which the model has not, and no property speaks of it.

**UpdateKeys.** Lines are byte strings, and the keys of the file are kept as read (`keys`), so that what a slot holds
is compared with the key and not with what the program made of it: a slot has the first seven bytes of its key
(`HasKey`). The checksum is computed; `Or` is its bitwise or, bit by bit. The firmware is external: it stores or
refuses a key or a filling, and it may answer a key with something else. `unheard` says which answers nobody acted on:
after one to a key the program may end well without that key (line 103), after a refused filling the slots behind the
keys may still hold old ones.

## Runs

| run | question | bounds |
|---|---|---|
| `movement` | are decision, doors and presence topic in step in every order of events? is a movement announced at each age once, and only when there were movements enough? is every movement counted once, and how many connections does an attempt leave open that was given up? | three stamps, timeouts of 1: equal, older and newer stamps inside and outside each timeout; four slots, gaps of 1 and 2, ages 2, 4, 6, 8, 15 seconds (`MaxTs`), two counts an interval (`MaxCount`); two sensors with two messages each, channels of one place, four seconds; three requests, one attempt given up |
| `board` | does the broker end up with the state of the door? | no callers, all lines on lock and door, any state at the start |
| `returns` | is each call in one place, with a deadline, as `FrontdoorCalls` promises, and does it return? does main always come back? | two callers who ask for the status, `Status:` lines for them and for triggers; or one caller and the lines the workaround acts upon; every channel full after one message |
| `bot` | does a lost bot end, cleanly, and is another one started? | channels of one place (their real size), two errors in a series, two pings |
| `users` | who is told, and whose wish holds, also when saves fail? | two users with a resource each, one of whom subscribes at most, a channel of one place (its real size), three of the five wishes (`Commands`), users symmetric; saves fail in the behaviours about wishes |
| `status` | does the web end up with the last presence, and what does cleaning take away? | messages of two kinds in a behaviour (`MCScenarios`: each kind once with one that it meets in the document or the channel), a channel of one place, two installing goroutines, two events |
| `devices` | subscriptions, back door node, key file, keys and ssh sessions, each alone | three connections and three topics, one of them refused; two lines, two triggers, two requests; three seconds and three versions; four lines for two slots; two requests, four attempts |

Capacities of one are the hardest case for blocking: every channel is full after one message, and every goroutine that
sends twice blocks. With two callers both queues of the daemon have an order. The lines of a run are those its
question depends on; the other runs have the rest. Three connections are the first with a handler later than
another's; two slots and four lines are fewer, as many and more keys than slots, among them two keys that differ in
their eighth byte; four attempts are two requests that both have a late one. Three requests are the first in which one
late attempt leaves three connections: with two it leaves two at most, which does not hold in general.

Each of these properties is broken by a plausible bug, listed under `mutants`: an operator beside the original in the
module, marked "Mutant".

### Where code and documentation disagree

Each of these runs ends in a counterexample.

| run | statement | what happens |
|---|---|---|
| `lostSensorIsAnnounced` | main.go: these topics are monitored for sensors that disappear | what was seen is noted in a copy of the record (sensorlost.go:50), and nothing is ever announced |
| `wholeWindowIsJudged` | metamovement.go:16: a threshold of movements within gran_duration*granularity seconds | the slot cleared is that of the interval before (metamovement.go:44), so that each tick judges one interval alone, and movements in two intervals never count together |
| `failedAttemptIsSurvived` | webstatus_ssh.go:68, :95: an attempt that panics is recovered from, one that fails is logged and followed by the next | a late attempt sets the error they share to nil after the second attempt has logged it and before it sends it (:74, :76); the nil is asked for its text outside of any recover (:95), and the process ends with the request unanswered |
| `fallbackStatusIsUnknown` | main.go, webstatus.go: without a broker the status sent is "unknown" | it is "closed": the state is computed anew before it is sent (webstatus.go:79) |
| `connectTimeoutMeansNoAnswer` | r3xmppbot.go: the connect timeout means that neither an error nor a reply came | it also ends the process after an error, because the error returns leave it running |

Some statements are contradicted in ways that need no run to see: `presence.txt` has a button press indicate presence
and movement keep it, but in an occupied space with locked doors either ends it (presence.go:161, :73), and has a lock
turned by hand indicate presence, which it does not before the process has seen a command (presence.go:148); the
comment at presence.go:108 has the front door count as locked only if it was locked after the back door, which is not
so when the back door was unlocked later; the comment at metamovement.go:17 has the
absence of movement announced as false, where all four announcements say true (metamovement.go:64); the help text at
r3xmppbot.go:356 has a user notified while it is online, but one flag stands for all resources, so that one that
leaves takes the others with it (r3xmppbot.go:527; `OnlineUserIsOnline` holds for users with one resource); the
comment at update-keys.go:18 has seven bytes as the longest key, and eight are accepted, the eighth giving way to the
checksum (update-keys.go:48); the interval between short messages has the default "45" (main.go:35 of the backdoor
node), which has no unit, so that it is 30 minutes; spaceapi's main.go:122 drops events when its channel is nearly
full, but only before the loop it never leaves; duskordawn.go:80 says 30 seconds and waits a minute; and the comment
at r3xmppmessages.go:63 has the watchdog look for hanging loops, but seven minutes without an event end a process that
is waiting for one, as the ticks do not reset it.

Two texts of the daemon are a little too strong: the comment on the gobbler says that it
discards "for as long as mqtt is not connected", but it may take one more line after that (mqtt.go:131), which the
status asked for on connecting makes up for (`BoardShowsDoor`); and "No reply from firmware" (main.go:120) is also said
when the reply lies in `serial_rd` and `select` takes the timer first.

## Fairness

The runs `returns`, `bot`, `status` and `devices` assume fairness. In `DoorDaemon`, weak fairness: each
goroutine runs, and a send or receive that stays possible happens. Strong fairness where Go gives more: `select`
chooses among its ready cases at random, so a case that is ready again and again is taken (`ReceiveLine`,
`TimeoutReached`, `TakeTrigger`, `TakeCommand`); and goroutines blocked on one channel are served in order, so main
and the workaround both get to write (`WriteCommand`, `WorkaroundSends`). The timer expires unless it is reset again:
the two names of a running timer keep one `Expire` from being owed after a `Reset`. The writer hands over characters,
because writing to the tty returns. Nothing is assumed of callers, triggers, unsolicited lines and the connection to
the broker.

In `XmppBot`, each goroutine runs and each timer expires unless it is reset (again with two names of a running
watchdog); the cases of a `select` that are ready again and again are taken (`Tick`, `TakePresence`, `TakeJabber`).
Nothing is assumed of events, stanzas, replies and the connection: with a mute server it is the pings that end the bot,
with a dead one a send that blocks until the watchdog ends the process.

In `SpaceStatus`, the goroutines run, a publication ends (a session is given or refused in the end, which is what
`StatusSessions` promises unless the process ends, and is sent within four seconds), and the
select takes an event and a tick in the end. A number that was no number becomes too old. In `StatusSessions`, the
answering goroutine and its timer run and sessions are closed; nothing is assumed of the server or of an attempt. In
`BackdoorNode`, the goroutines run, the select takes lines and the end of them, the broker answers, and the library
hands over what it can; nothing is assumed of the board and of requests, and the node may stay jammed. Nothing is
assumed in `MqttSubs`, `KeyNickStore`, `UpdateKeys` and `MetaEvents`.

## Proofs

All theorems hold for every value of the constants that the named assumptions allow.

* **Presence** (`PresenceAssumption`). `TypeCorrect`; then `Agreement`, the inductive invariant that
  `W1UseIsReported` and `W2FollowsItsDoor` follow from. Every step either ends in a decision, which establishes the
  agreement from nothing (`W1Decision` and `W2Decision` are functions of the new evidence), or in a continue, where the
  evidence that the decision depends on is shown unchanged. `CommandsNeverEmpty` is proved action by action.
  `PresenceImplementsBoard` maps each step to `Announce`, `Forget` or a stutter.
* **MetaMovement** (`MovementAssumption`, `GapAssumption`: ticks are not further apart than two announced ages, which is
  what makes one announcement per tick enough). `AgesAlwaysAnnouncedOnTime` strengthens the property with the types of
  the times (no movement lies in the future); `AgesAlwaysToldOnce` follows, because under that invariant an age is due
  in a tick exactly when the movement exceeds it in that tick.
  `AlwaysJudgedOnMovements` compares the ring with the history of the window: of its slots only two can be other than 0
  (`RingTyped`, by cases on the slot the tick clears), and they hold what the history says of those intervals (`RingInv`),
  so that the sum over the ring is that of one interval (`RingAddsUp`), which the sum of the window is not less than
  (`TotalAtLeast`). That it is often more is the finding `wholeWindowIsJudged`. `TypeCorrect` follows.
* **MetaEvents** (`EventsAssumption`). `MovementsAlwaysConserved` counts the occurrences of a topic in the queue
  (`Occurrences` in `DataLemmas`) and shows that each step moves a movement from one place to the next.
  `NoSensorIsEverLost` is the finding `lostSensorIsAnnounced` for all constants: the records never change.
* **DoorDaemon** (`DaemonAssumption`). `TypeCorrect`; `EveryCallHeldOnce` needs `HandOK` (where main stands tells what it
  has in hand) beside the types; it is inductive with them. `WaitingAlwaysHasDeadline` is proved from the types alone.
  `BoardAlwaysShowsDoor` reads the queues from the firmware to the broker: unless a line was missed, the first thing
  that tells of a field tells what the firmware knows, and if nothing tells, the broker retains it or a status is still
  to be asked for (`BoardInv`). When all is quiet only the broker is left.
  `DaemonImplementsCalls` maps what is in main's hand and what is on its way to `made`, and uses the invariant to show
  that a new call is not held already.

* **XmppBot** (`XmppBotAssumption`). `TypeCorrect` in four parts (places, counts, queues, flags). `StopInvariant` says
  how far a bot is closed at each step of each stopper; it is inductive with the types. `ClearedAlwaysClosed` and
  `StopPanicsOnlyForTwo` follow.
* **XmppUsers** (`XmppUsersAssumption`). `OnlyByPassword` needs to know of everything that can enable a user or make it
  told: map, file, updates underway and logins (`PasswordInvariant`), whatever a save leaves in the file; the bot's presence
  is shown to subscribers, which is all that can be said of it. `WishesHold` follows the last wish of each user:
  it is the last update of that user underway, or it stands in the map (`WishKept`), and unless the last save failed the
  file says what the map says (`FileAgrees`); while the queue is only drained less can be said. `OnlineUsersCount` has the
  same form: who is online has an update underway that says so and none behind it that says otherwise, or is counted
  (`OnlineInvariant`). All hold for a queue of any length.
* **MqttSubs** (`SubsAssumption`). `SubscriptionsAlwaysSurvive` needs to know where each topic is: on its way to the
  broker, granted and about to be remembered, or remembered and then subscribed or on its way in a packet of the handler
  of the connection that is up. `SubsInv` says so for every place of the program and of the handlers, beside the types.
* **KeyNickStore** (`KeysAssumption`). `LookupsAreCurrent` from what each place of `LoadKeysFileIfNeeded` knows of the file
  (`KeysInv`). Of **BackdoorNode** (`NodeAssumption`) only the types are proved; what matters of it is liveness.
* **StatusSessions** (`SessionsAssumption`). `SessionsTypeCorrect`; `AlwaysTidyUntilTimeout` needs that without a timeout
  only the attempt that is waited for runs, and what it knows of client, connection and error at each of its places
  (`TidyInv`); `RequestsInOrder` is the refinement of `SessionRequests` without its fairness; the crash of
  `failedAttemptIsSurvived` maps to `Lose`.
  `AlwaysThreeLeaksPerTimeout` is a budget: every timeout pays for three connections, and what is lost, the late attempts
  that may still dial, those that may still forget a client, and the client that is about to be forgotten by the attempt
  in progress never cost more (`Budget`). A bound of two, which holds for two requests, has no such budget: the attempt
  to prove it led to the bounds in `movement`.
* **UpdateKeys** (`UpdateAssumption`). `AlwaysDoneIsProgrammed` from where the keys are (`ChanIsTheEnd`, `KeysCounted`) and
  what the firmware has stored (`StoredInOrder`). That the slot made of a key has its first seven bytes and a checksum that
  is right is `SlotHolds`. That no other slot passes for a key rests on the checksum of the
  filling, which is computed in the proof (`FillingIsNotValid`).
* **The five small components.** `DevicesTypeCorrect` gathers their types under the specification of the run `devices`.
* **SpaceDocument, SpaceStatus** (`SpaceStatusAssumption`). Each loop of the cleaning has an invariant of its round:
  what was passed is sorted out, what is ahead is untouched, and a map says from where each entry came
  (`CleaningSensors`, `CleaningEvents`, `MergedLists`). `CleaningAlwaysKeepsTheRest` follows for lists of any length;
  it says that the map meets exactly the entries that are not too old, so that none is lost or doubled.
  `StatusTypeCorrect` needs a bound for space events that are still on their way (`RoomForEvents`).
  `PresenceIsNeverLost` needs that the last presence message is the last one in the hand of main or, with none there,
  the last one in the channel or, with none there either, what the status goes by (`PresenceInv`).

Induction is stated in `DataLemmas` for a set of numbers instead of a predicate, so that the provers can use it: it rests
on the least element of a nonempty set. `LoopInvariant` does the induction over the rounds of a loop once: a loop that is
written as a recursive function of the number of its rounds, each of which takes a set of states to the next, ends
in the last set.

Only model-checked: liveness (`CallReturns`, `MainComesBack`, `BotComesBack`, `StatusSettles`, `DeviceTriedAgain`, the
fairness of `RequestsAreAnswered`), which needs ENABLED. Every invariant and every action property that a run checks
has a theorem. The five statements that the code does not keep are refuted by TLC only, but for `NoSensorIsEverLost`.

Hazards that no property covers are in `PROJECT.json` with the reason: for most, what would go wrong is what the code does,
and the property that is checked names it as its exception. They are the stale 'present' after a restart of
the presence routine, clients who postpone a timeout for ever, the callback of the daemon's library, the channel of a
single ping, a key file that cannot be opened or read to its end, short messages after a panic of the node and the jam of
that node, and users with several resources.

## Plan

What the models could still take in, in this order: the daemon's broker messages as the input of the presence routine
(`FrontdoorToPresence`); a broker between `SpaceStatus` and its subscriptions, so that a restart gets the retained
presence; the filters for kinds of messages in `XmppUsers`. What could still be proved: that `SpaceStatus` and
`DoorDaemon` cannot get stuck where a goroutine waits (the safety core of `StatusSettles`, `CallReturns` and
`MainComesBack`), and what the last document installed can be.

## Not modelled

| part | why |
|---|---|
| `door_client` | one synchronous call, the action `SendCmd` |
| `metacontact.go` | main does not start it |
| `duskordawn.go`, `metatimetoclean.go` | a timer on the wall clock and an astronomical library; nothing is kept between two rounds |
| `webserver.go` of `r3-spaceapistatus` | reads the bytes `Install` has put there |
| fields and names of `r3events` | formats; one topic of each kind that consumers tell apart is in `R3Events` |
| `sming_w2frontdoor` | callbacks of a framework whose timers, interrupts and MQTT client are not in the repository |
| firmware of the front door | not in the repository; external in `DoorDaemon` and `UpdateKeys` |
| `scripts` | each consumes events; none feeds back into the programs modelled |
| `smallbrain.go` | the old transport |
| `esphome`, `initscripts`, `udev.rules` | configuration; the restarts systemd makes are the actions `Restart`, `RestartStatus` and `Exit` |
