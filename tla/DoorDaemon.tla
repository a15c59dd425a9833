----------------------------- MODULE DoorDaemon -----------------------------
(***************************************************************************)
(* door_daemon: the process between the RPC clients, the firmware of the   *)
(* front door on a serial line, and the MQTT broker.  Its goroutines and   *)
(* the channels between them:                                              *)
(*                                                                         *)
(*   SendCmd --send_me_cmds--> main --serial_wr--> serialWriter -> tty     *)
(*   tty -> serialReader --serial_rd--> main --> WorkaroundFirmware        *)
(*   WorkaroundFirmware --serial_wr--> serialWriter                        *)
(*   main --publish_chan--> gobbler or publisher -> broker                 *)
(*   broker, gobbler --trigger--> main                                     *)
(*                                                                         *)
(* A step ends where a goroutine can block on a channel.  A goroutine      *)
(* blocked on a full channel is an action that is not enabled.  An answer  *)
(* to a client is part of the step that sends it: its SendCmd waits in a   *)
(* select for it.  Senders blocked on send_me_cmds are served in order, so *)
(* its capacity does not show: it is one queue with its blocked senders.   *)
(*                                                                         *)
(* Time is abstracted: the three second timer may expire whenever it runs, *)
(* the 30 and 90 seconds of the workaround may or may not have passed.     *)
(***************************************************************************)
EXTENDS Integers, Sequences

CONSTANTS
  Callers,            \* the SendCmd calls there can be at a time
  Commands,           \* what they ask for
  Idle,               \* no call
  Nobody,             \* a command that no caller waits for
  NoMessage,          \* the broker retains nothing on the topic
  Spoken,             \* the lines the firmware says
  DoorAtStart,        \* what lock and door may be at the start
  SerialRdCap,        \* lines serial_rd holds (20)
  WorkaroundCap,      \* lines the workaround's channel holds (5)
  PublishCap,         \* lines publish_chan holds (50)
  TriggerCap          \* triggers held (10)

SerialWrCap == 1

FirmwareChar == [open |-> "o", close |-> "c", toggle |-> "t", status |-> "s"]

Chars  == {"o", "c", "t", "s"}
Status == [locked : BOOLEAN, shut : BOOLEAN]

(* A line of the firmware: a Status: line with what it says of lock and    *)
(* door, a State: line, or an Info(ajar): line.  "other" stands for the    *)
(* states that neither main, the workaround nor the publisher tells apart  *)
(* (opening, closing, manual_movement, error), "closed" for "reset" too.   *)
States == {"opened", "closed", "timeout_after_open", "timeout_after_close", "other"}
Lines  == [kind : {"Status:"}, says : Status]
            \cup [kind : {"State:"}, says : States]
            \cup [kind : {"Info(ajar):"}, says : {"ajar", "shut"}]
Command == [kind |-> "command", says |-> "command"]    \* published, never received

ASSUME DaemonAssumption ==
  /\ Commands \subseteq DOMAIN FirmwareChar \cup {"log", "invalid"}
  /\ Idle \notin DOMAIN FirmwareChar \cup {"log", "invalid"}
  /\ Nobody \notin Callers
  /\ NoMessage \notin BOOLEAN
  /\ Spoken \subseteq Lines
  /\ DoorAtStart \subseteq Status
  /\ SerialRdCap \in Nat \ {0}
  /\ WorkaroundCap \in Nat \ {0}
  /\ PublishCap \in Nat \ {0}
  /\ TriggerCap \in Nat \ {0}

VARIABLES
  call,               \* for each caller the command of its call, or Idle
  send_me_cmds,       \* the calls on their way to main
  waiting_for_reply,  \* the calls whose command went to the firmware
  main,               \* where main is, the line and the caller it has in hand
  timeout_timer,      \* "off", running ("even" or "odd", see Reset) or "due"
  trigger,            \* number of pending requests for the status
  serial_wr, serial_rd, workaround_in, publish_chan,
  workaround,         \* WorkaroundFirmware's memory and whether it wants to send
  connected,          \* Connect has succeeded
  gobbler,            \* "gobbling", "triggering" or "gone"
  door,               \* external: what the firmware knows of lock and door
  retained,           \* external: the lock and ajar messages the broker retains
  missed              \* history: a line was lost since the last Status: line

vars == <<call, send_me_cmds, waiting_for_reply, main, timeout_timer, trigger,
          serial_wr, serial_rd, workaround_in, publish_chan, workaround,
          connected, gobbler, door, retained, missed>>

clientVars   == <<call, send_me_cmds, waiting_for_reply, timeout_timer>>
brokerVars   == <<connected, gobbler, retained>>
firmwareVars == <<door, missed>>

NoLine == [kind |-> "none", says |-> "none"]
Select == [at |-> "select", line |-> NoLine, caller |-> Nobody]

MainStates ==
  [at : {"select", "write", "publish command", "work around", "publish line"},
   line : Lines \cup {NoLine}, caller : Callers \cup {Nobody}]

(* The workaround starts with no state, no error and nothing to send. *)
Unworried == [state |-> "none", closeFailed |-> FALSE, sending |-> FALSE]

TypeOK ==
  /\ call \in [Callers -> Commands \cup {Idle}]
  /\ send_me_cmds \in Seq(Callers)
  /\ waiting_for_reply \in Seq(Callers)
  /\ main \in MainStates
  /\ timeout_timer \in {"off", "even", "odd", "due"}
  /\ trigger \in 0 .. TriggerCap
  /\ serial_wr \in Seq(Chars) /\ Len(serial_wr) <= SerialWrCap
  /\ serial_rd \in Seq(Lines) /\ Len(serial_rd) <= SerialRdCap
  /\ workaround_in \in Seq(Lines) /\ Len(workaround_in) <= WorkaroundCap
  /\ publish_chan \in Seq(Lines \cup {Command}) /\ Len(publish_chan) <= PublishCap
  /\ workaround \in [state : States \cup {"none"}, closeFailed : BOOLEAN, sending : BOOLEAN]
  /\ connected \in BOOLEAN
  /\ gobbler \in {"gobbling", "triggering", "gone"}
  /\ door \in Status
  /\ retained \in [locked : BOOLEAN \cup {NoMessage}, shut : BOOLEAN \cup {NoMessage}]
  /\ missed \in BOOLEAN

Init ==
  /\ call = [c \in Callers |-> Idle]
  /\ send_me_cmds = <<>>
  /\ waiting_for_reply = <<>>
  /\ main = Select
  /\ timeout_timer = "off"
  /\ trigger = 0
  /\ serial_wr = <<>>
  /\ serial_rd = <<>>
  /\ workaround_in = <<>>
  /\ publish_chan = <<>>
  /\ workaround = Unworried
  /\ connected = FALSE
  /\ gobbler = "gobbling"
  /\ door \in DoorAtStart
  /\ retained = [locked |-> NoMessage, shut |-> NoMessage]
  /\ missed = FALSE
-----------------------------------------------------------------------------
(* The callers and main's select *)

Held(s) == {s[i] : i \in DOMAIN s}

(* The call is on its way, and waits until main answers or refuses it. *)
SendCmd(c, cmd) ==
  /\ call[c] = Idle
  /\ call' = [call EXCEPT ![c] = cmd]
  /\ send_me_cmds' = Append(send_me_cmds, c)
  /\ UNCHANGED <<waiting_for_reply, main, timeout_timer, trigger, serial_wr, serial_rd,
                 workaround_in, publish_chan, workaround, brokerVars, firmwareVars>>

Return(callers) == call' = [c \in Callers |-> IF c \in callers THEN Idle ELSE call[c]]

(* Mutant: the oldest call is answered and not removed from the queue. *)
AnswerOldestPeek ==
  IF waiting_for_reply = <<>>
  THEN UNCHANGED <<call, waiting_for_reply>>
  ELSE Return({Head(waiting_for_reply)}) /\ UNCHANGED waiting_for_reply

(* Mutant: the newest call is answered. *)
AnswerNewest ==
  IF waiting_for_reply = <<>>
  THEN UNCHANGED <<call, waiting_for_reply>>
  ELSE LET n == Len(waiting_for_reply)
       IN  /\ Return({waiting_for_reply[n]})
           /\ waiting_for_reply' = SubSeq(waiting_for_reply, 1, n - 1)

(* Any line, asked for or not, answers the oldest call. *)
AnswerOldest ==
  IF waiting_for_reply = <<>>
  THEN UNCHANGED <<call, waiting_for_reply>>
  ELSE /\ Return({Head(waiting_for_reply)})
       /\ waiting_for_reply' = Tail(waiting_for_reply)

ReceiveLine ==
  /\ main.at = "select"
  /\ serial_rd # <<>>
  /\ AnswerOldest
  /\ serial_rd' = Tail(serial_rd)
  /\ main' = [at |-> "work around", line |-> Head(serial_rd), caller |-> Nobody]
  /\ UNCHANGED <<send_me_cmds, timeout_timer, trigger, serial_wr, workaround_in,
                 publish_chan, workaround, brokerVars, firmwareVars>>

(* Mutant: only the oldest call is refused. *)
RefuseOldest ==
  /\ waiting_for_reply # <<>>
  /\ Return({Head(waiting_for_reply)})
  /\ waiting_for_reply' = Tail(waiting_for_reply)

RefuseWaiting ==
  /\ Return(Held(waiting_for_reply))
  /\ waiting_for_reply' = <<>>

TimeoutReached ==
  /\ main.at = "select"
  /\ timeout_timer = "due"
  /\ RefuseWaiting
  /\ timeout_timer' = "off"
  /\ UNCHANGED <<send_me_cmds, main, trigger, serial_wr, serial_rd, workaround_in,
                 publish_chan, workaround, brokerVars, firmwareVars>>

TakeTrigger ==
  /\ main.at = "select"
  /\ trigger > 0
  /\ trigger' = trigger - 1
  /\ main' = [Select EXCEPT !.at = "write"]
  /\ UNCHANGED <<clientVars, serial_wr, serial_rd, workaround_in, publish_chan,
                 workaround, brokerVars, firmwareVars>>

(* "log" and what HandleCommand refuses is settled here. *)
TakeCommand ==
  /\ main.at = "select"
  /\ send_me_cmds # <<>>
  /\ send_me_cmds' = Tail(send_me_cmds)
  /\ LET c == Head(send_me_cmds)
     IN  IF call[c] \in DOMAIN FirmwareChar
         THEN /\ main' = [Select EXCEPT !.at = "write", !.caller = c]
              /\ UNCHANGED call
         ELSE /\ Return({c})
              /\ UNCHANGED main
  /\ UNCHANGED <<waiting_for_reply, timeout_timer, trigger, serial_wr, serial_rd,
                 workaround_in, publish_chan, workaround, brokerVars, firmwareVars>>
-----------------------------------------------------------------------------
(* The rest of main's handlers, from one blocking channel operation to the *)
(* next                                                                    *)

(* HandleCommand: the firmware gets the character of the command; nobody   *)
(* waits for the status a trigger asks for.                                *)
WriteCommand ==
  /\ main.at = "write"
  /\ Len(serial_wr) < SerialWrCap
  /\ IF main.caller = Nobody
     THEN /\ serial_wr' = Append(serial_wr, FirmwareChar.status)
          /\ main' = Select
     ELSE /\ serial_wr' = Append(serial_wr, FirmwareChar[call[main.caller]])
          /\ main' = [main EXCEPT !.at = "publish command"]
  /\ UNCHANGED <<clientVars, trigger, serial_rd, workaround_in, publish_chan,
                 workaround, brokerVars, firmwareVars>>

(* Mutant: the timer is not started. *)
ResetForgotten == UNCHANGED timeout_timer

(* Reset starts the three seconds anew.  The two names of a running timer  *)
(* alternate, so that a timer that is reset for ever need never expire.    *)
Reset == timeout_timer' = IF timeout_timer = "even" THEN "odd" ELSE "even"

(* The command is published, then its caller waits. *)
PublishCommand ==
  /\ main.at = "publish command"
  /\ Len(publish_chan) < PublishCap
  /\ publish_chan' = Append(publish_chan, Command)
  /\ waiting_for_reply' = Append(waiting_for_reply, main.caller)
  /\ Reset
  /\ main' = Select
  /\ UNCHANGED <<call, send_me_cmds, trigger, serial_wr, serial_rd, workaround_in,
                 workaround, brokerVars, firmwareVars>>

(* Mutant: the line is handed over whether the workaround keeps up or not. *)
WorkAroundLineUnbounded ==
  /\ main.at = "work around"
  /\ workaround_in' = Append(workaround_in, main.line)
  /\ main' = [main EXCEPT !.at = "publish line"]
  /\ UNCHANGED <<clientVars, trigger, serial_wr, serial_rd, publish_chan,
                 workaround, brokerVars, firmwareVars>>

WorkAroundLine ==
  /\ main.at = "work around"
  /\ Len(workaround_in) < WorkaroundCap
  /\ workaround_in' = Append(workaround_in, main.line)
  /\ main' = [main EXCEPT !.at = "publish line"]
  /\ UNCHANGED <<clientVars, trigger, serial_wr, serial_rd, publish_chan,
                 workaround, brokerVars, firmwareVars>>

PublishLine ==
  /\ main.at = "publish line"
  /\ Len(publish_chan) < PublishCap
  /\ publish_chan' = Append(publish_chan, main.line)
  /\ main' = Select
  /\ UNCHANGED <<clientVars, trigger, serial_wr, serial_rd, workaround_in,
                 workaround, brokerVars, firmwareVars>>

(* Three seconds after the last Reset; a Reset before that takes them back *)
(* even when they have passed and main has not looked yet.                 *)
Expire(running) ==
  /\ timeout_timer = running
  /\ timeout_timer' = "due"
  /\ UNCHANGED <<call, send_me_cmds, waiting_for_reply, main, trigger, serial_wr,
                 serial_rd, workaround_in, publish_chan, workaround, brokerVars,
                 firmwareVars>>
-----------------------------------------------------------------------------
(* WorkaroundFirmware *)

(* The door is opened again after a failed closing (longAgo: the one before*)
(* is more than 90 seconds old) and when it is ajar after a failed opening *)
(* (recent: the last state is less than 30 seconds old).                   *)
WorkaroundTakes(longAgo, recent) ==
  LET line        == Head(workaround_in)
      isState     == line.kind = "State:"
      failedClose == isState /\ line.says = "timeout_after_close"
      ajarAfterFailedOpen ==
        /\ line = [kind |-> "Info(ajar):", says |-> "ajar"]
        /\ workaround.state = "timeout_after_open"
        /\ recent
  IN  /\ ~workaround.sending
      /\ workaround_in # <<>>
      /\ workaround_in' = Tail(workaround_in)
      /\ workaround' =
           [state       |-> IF isState THEN line.says ELSE workaround.state,
            closeFailed |-> workaround.closeFailed \/ failedClose,
            sending     |-> \/ failedClose /\ (workaround.closeFailed => longAgo)
                            \/ ajarAfterFailedOpen]
      /\ UNCHANGED <<clientVars, main, trigger, serial_wr, serial_rd, publish_chan,
                     brokerVars, firmwareVars>>

WorkaroundSends ==
  /\ workaround.sending
  /\ Len(serial_wr) < SerialWrCap
  /\ serial_wr' = Append(serial_wr, FirmwareChar.open)
  /\ workaround' = [workaround EXCEPT !.sending = FALSE]
  /\ UNCHANGED <<clientVars, main, trigger, serial_rd, workaround_in, publish_chan,
                 brokerVars, firmwareVars>>
-----------------------------------------------------------------------------
(* ConnectChannelToMQTT *)

(* Connect succeeds, however long it took; the gobbler is told to stop. *)
Connect ==
  /\ ~connected
  /\ connected' = TRUE
  /\ UNCHANGED <<clientVars, main, trigger, serial_wr, serial_rd, workaround_in,
                 publish_chan, workaround, gobbler, retained, firmwareVars>>

(* Mutant: the gobbler starts to discard when there is a connection. *)
GobblerDiscardsConnected ==
  /\ gobbler = "gobbling"
  /\ connected
  /\ publish_chan # <<>>
  /\ publish_chan' = Tail(publish_chan)
  /\ UNCHANGED <<clientVars, main, trigger, serial_wr, serial_rd, workaround_in,
                 workaround, brokerVars, firmwareVars>>

(* The gobbler keeps the channel clean; when it has been told to stop and  *)
(* there is a line too, its select takes either.                           *)
GobblerDiscards ==
  /\ gobbler = "gobbling"
  /\ publish_chan # <<>>
  /\ publish_chan' = Tail(publish_chan)
  /\ UNCHANGED <<clientVars, main, trigger, serial_wr, serial_rd, workaround_in,
                 workaround, brokerVars, firmwareVars>>

(* Mutant: connecting asks for no status. *)
GobblerStopsQuietly ==
  /\ gobbler = "gobbling"
  /\ connected
  /\ gobbler' = "gone"
  /\ UNCHANGED <<clientVars, main, trigger, serial_wr, serial_rd, workaround_in,
                 publish_chan, workaround, connected, retained, firmwareVars>>

(* The gobbler stops, and subscribes to the requests for the status. *)
GobblerStops ==
  /\ gobbler = "gobbling"
  /\ connected
  /\ gobbler' = "triggering"
  /\ UNCHANGED <<clientVars, main, trigger, serial_wr, serial_rd, workaround_in,
                 publish_chan, workaround, connected, retained, firmwareVars>>

AddTrigger ==
  /\ trigger < TriggerCap
  /\ trigger' = trigger + 1
  /\ UNCHANGED <<clientVars, main, serial_wr, serial_rd, workaround_in, publish_chan,
                 workaround, connected, retained, firmwareVars>>

(* The gobbler's last deed: the status is asked for once. *)
GobblerTriggers ==
  /\ gobbler = "triggering"
  /\ gobbler' = "gone"
  /\ AddTrigger

(* Somebody published on the topic that asks for the status. *)
StatusRequested ==
  /\ gobbler \in {"triggering", "gone"}
  /\ UNCHANGED gobbler
  /\ AddTrigger

(* Mutant: only the lock part of a Status: line is published. *)
RetainedAfterLockOnly(line) ==
  IF line.kind = "Status:" THEN [retained EXCEPT !.locked = line.says.locked]
  ELSE IF line.kind = "State:" /\ line.says \in {"opened", "closed"}
       THEN [retained EXCEPT !.locked = line.says = "closed"]
       ELSE IF line.kind = "Info(ajar):"
            THEN [retained EXCEPT !.shut = line.says = "shut"]
            ELSE retained

(* What the broker retains when a line has been published. *)
RetainedAfter(line) ==
  IF line.kind = "Status:" THEN line.says
  ELSE IF line.kind = "State:" /\ line.says \in {"opened", "closed"}
       THEN [retained EXCEPT !.locked = line.says = "closed"]
       ELSE IF line.kind = "Info(ajar):"
            THEN [retained EXCEPT !.shut = line.says = "shut"]
            ELSE retained

Publish ==
  /\ connected
  /\ publish_chan # <<>>
  /\ publish_chan' = Tail(publish_chan)
  /\ retained' = RetainedAfter(Head(publish_chan))
  /\ UNCHANGED <<clientVars, main, trigger, serial_wr, serial_rd, workaround_in,
                 workaround, connected, gobbler, firmwareVars>>
-----------------------------------------------------------------------------
(* The firmware (external) at the other end of serialWriter and            *)
(* serialReader                                                            *)

(* serialReader drops a line when serial_rd is full. *)
Say(line) ==
  /\ line \in Spoken
  /\ IF Len(serial_rd) < SerialRdCap
     THEN /\ serial_rd' = Append(serial_rd, line)
          /\ missed' = (missed /\ line.kind # "Status:")
     ELSE /\ UNCHANGED serial_rd
          /\ missed' = TRUE

SayState(state)  == Say([kind |-> "State:", says |-> state])
SayStatus        == Say([kind |-> "Status:", says |-> door]) /\ UNCHANGED door
SayAjar(shut)    == Say([kind |-> "Info(ajar):", says |-> IF shut THEN "shut" ELSE "ajar"])

(* The bolt is turned and ends there, or is stuck. *)
TurnLock(locked) ==
  \/ /\ door' = [door EXCEPT !.locked = locked]
     /\ SayState(IF locked THEN "closed" ELSE "opened")
  \/ /\ SayState(IF locked THEN "timeout_after_close" ELSE "timeout_after_open")
     /\ UNCHANGED door

Silence == missed' = TRUE /\ UNCHANGED <<door, serial_rd>>

(* serialWriter hands the firmware a character; it obeys or is silent. *)
SerialWriter ==
  /\ serial_wr # <<>>
  /\ serial_wr' = Tail(serial_wr)
  /\ \/ Head(serial_wr) = "s" /\ SayStatus
     \/ Head(serial_wr) = "o" /\ TurnLock(FALSE)
     \/ Head(serial_wr) = "c" /\ TurnLock(TRUE)
     \/ Head(serial_wr) = "t" /\ TurnLock(~door.locked)
     \/ Silence
  /\ UNCHANGED <<clientVars, main, trigger, workaround_in, publish_chan, workaround,
                 brokerVars>>

(* A card was read, the lock was turned by hand, the door was moved. *)
FirmwareSpeaks ==
  /\ \/ TurnLock(~door.locked)
     \/ SayState("other") /\ UNCHANGED door
     \/ SayAjar(~door.shut) /\ door' = [door EXCEPT !.shut = ~@]
  /\ UNCHANGED <<clientVars, main, trigger, serial_wr, workaround_in, publish_chan,
                 workaround, brokerVars>>

(* The serial device disappears, or the process panics: it exits and is    *)
(* started again.  The connections of its clients break.                   *)
Restart ==
  /\ call' = [c \in Callers |-> Idle]
  /\ send_me_cmds' = <<>>
  /\ waiting_for_reply' = <<>>
  /\ main' = Select
  /\ timeout_timer' = "off"
  /\ trigger' = 0
  /\ serial_wr' = <<>>
  /\ serial_rd' = <<>>
  /\ workaround_in' = <<>>
  /\ publish_chan' = <<>>
  /\ workaround' = Unworried
  /\ connected' = FALSE
  /\ gobbler' = "gobbling"
  /\ missed' = TRUE
  /\ UNCHANGED <<door, retained>>
-----------------------------------------------------------------------------
Main ==
  \/ ReceiveLine \/ TimeoutReached \/ TakeTrigger \/ TakeCommand
  \/ WriteCommand \/ PublishCommand \/ WorkAroundLine \/ PublishLine

Workaround ==
  \/ \E longAgo, recent \in BOOLEAN : WorkaroundTakes(longAgo, recent)
  \/ WorkaroundSends

Mqtt == Connect \/ GobblerDiscards \/ GobblerStops \/ GobblerTriggers \/ Publish

World ==
  \/ \E c \in Callers, cmd \in Commands : SendCmd(c, cmd)
  \/ \E running \in {"even", "odd"} : Expire(running)
  \/ StatusRequested
  \/ SerialWriter
  \/ FirmwareSpeaks
  \/ Restart

Next == Main \/ Workaround \/ Mqtt \/ World

Spec == Init /\ [][Next]_vars

(* Go's select takes each of its ready cases again and again, and Go       *)
(* serves the goroutines blocked on a channel in order; all goroutines     *)
(* run.  Nothing is assumed of the callers, the firmware's initiative, the *)
(* requests for the status and the connection to the broker.               *)
Fairness ==
  /\ SF_vars(ReceiveLine) /\ SF_vars(TimeoutReached)
  /\ SF_vars(TakeTrigger) /\ SF_vars(TakeCommand)
  /\ SF_vars(WriteCommand) /\ SF_vars(WorkaroundSends)
  /\ WF_vars(PublishCommand) /\ WF_vars(WorkAroundLine) /\ WF_vars(PublishLine)
  /\ WF_vars(\E longAgo, recent \in BOOLEAN : WorkaroundTakes(longAgo, recent))
  /\ WF_vars(GobblerDiscards \/ GobblerStops) /\ WF_vars(Publish)
  /\ WF_vars(SerialWriter)
  /\ WF_vars(Expire("even")) /\ WF_vars(Expire("odd"))

FairSpec == Spec /\ Fairness
-----------------------------------------------------------------------------
InHand == IF main.caller = Nobody THEN <<>> ELSE <<main.caller>>

Distinct(s) == \A i, j \in DOMAIN s : s[i] = s[j] => i = j

(* A blocked SendCmd is known to main in exactly one place: on its way, in *)
(* main's hand, or waiting for the firmware.  No call is lost between two  *)
(* channel operations or in a timeout, and none is answered twice: the     *)
(* second answer would block main for ever.                                *)
EachCallHeldOnce ==
  /\ Distinct(send_me_cmds) /\ Distinct(waiting_for_reply)
  /\ Held(send_me_cmds) \cap Held(waiting_for_reply) = {}
  /\ main.caller \notin Held(send_me_cmds) \cup Held(waiting_for_reply)
  /\ Held(InHand) \cup Held(send_me_cmds) \cup Held(waiting_for_reply)
        = {c \in Callers : call[c] # Idle}

(* While a call waits for the firmware the timer that refuses it is        *)
(* running or due, although one timer serves all calls, every answer       *)
(* leaves it running and every timeout stops it.                           *)
WaitingHasDeadline == waiting_for_reply # <<>> => timeout_timer # "off"

(* When nothing is under way, and no line was lost since the firmware last *)
(* told its status, the broker retains what the firmware knows: connecting *)
(* late, lines the gobbler discarded, restarts and reorderings between the *)
(* goroutines leave no wrong lock or door message behind.                  *)
AllQuiet ==
  /\ main = Select /\ trigger = 0 /\ gobbler = "gone"
  /\ serial_wr = <<>> /\ serial_rd = <<>> /\ publish_chan = <<>>

BoardShowsDoor == AllQuiet /\ ~missed => retained = door

(* The callers are served in order, answered one by one or refused         *)
(* together: the daemon keeps the promise to its callers.                  *)
Calls == INSTANCE FrontdoorCalls
           WITH made <- InHand \o send_me_cmds, accepted <- waiting_for_reply

ImplementsCalls == Calls!Spec

(* Every SendCmd returns, whether the firmware answers or is silent, and   *)
(* the broker is reachable or not.  Each call resets the timer and so puts *)
(* off the timeout of those before it (main.go:153), but a client waits    *)
(* for its own call before it makes the next: finitely many clients of a   *)
(* silent firmware all wait in the end.  Of clients that never stop        *)
(* coming, each with its first call, nothing is said.                      *)
CallReturns == \A c \in Callers : call[c] # Idle ~> call[c] = Idle

(* Main always comes back to its select: no full channel blocks it for     *)
(* ever, though it feeds the workaround and competes with it for the       *)
(* serial line.                                                            *)
MainComesBack == []<>(main.at = "select")
=============================================================================
