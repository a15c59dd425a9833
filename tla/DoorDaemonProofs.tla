-------------------------- MODULE DoorDaemonProofs --------------------------
(***************************************************************************)
(* Proofs about the door daemon for any number of callers and any channel  *)
(* capacities.                                                             *)
(***************************************************************************)
EXTENDS DoorDaemon, SequenceTheorems, TLAPS

(* Sequences of calls: what a queue holds after a send and a receive. *)
LEMMA QueueSend ==
  ASSUME NEW S, NEW q \in Seq(S), NEW e \in S
  PROVE  /\ Append(q, e) \in Seq(S)
         /\ Len(Append(q, e)) = Len(q) + 1
         /\ Held(Append(q, e)) = Held(q) \cup {e}
         /\ Distinct(q) /\ e \notin Held(q) => Distinct(Append(q, e))
<1>1. /\ Append(q, e) \in Seq(S)
      /\ Len(Append(q, e)) = Len(q) + 1
      /\ \A i \in 1 .. Len(q) : Append(q, e)[i] = q[i]
      /\ Append(q, e)[Len(q) + 1] = e
  BY AppendProperties
<1>2. DOMAIN q = 1 .. Len(q) /\ DOMAIN Append(q, e) = 1 .. Len(q) + 1 /\ Len(q) \in Nat
  BY <1>1
<1>3. \A i \in 1 .. Len(q) + 1 : i \in 1 .. Len(q) \/ i = Len(q) + 1
  BY <1>2
<1>4. \A i \in 1 .. Len(q) : i \in 1 .. Len(q) + 1
  BY <1>2
<1>5. Len(q) + 1 \in 1 .. Len(q) + 1
  BY <1>2
<1>6. Held(Append(q, e)) = Held(q) \cup {e}
  BY <1>1, <1>2, <1>3, <1>4, <1>5 DEF Held
<1>7. Distinct(q) /\ e \notin Held(q) => Distinct(Append(q, e))
  BY <1>1, <1>2, <1>3 DEF Held, Distinct
<1> QED
  BY <1>1, <1>6, <1>7

LEMMA QueueReceive ==
  ASSUME NEW S, NEW q \in Seq(S), q # <<>>
  PROVE  /\ Head(q) \in S /\ Tail(q) \in Seq(S)
         /\ Len(Tail(q)) = Len(q) - 1 /\ Len(q) \in Nat
         /\ Held(q) = Held(Tail(q)) \cup {Head(q)}
         /\ Distinct(q) => Distinct(Tail(q)) /\ Head(q) \notin Held(Tail(q))
<1>1. /\ Head(q) \in S /\ Tail(q) \in Seq(S)
      /\ Len(Tail(q)) = Len(q) - 1 /\ Len(q) \in Nat /\ Len(q) > 0
      /\ \A i \in 1 .. Len(Tail(q)) : Tail(q)[i] = q[i + 1]
      /\ Head(q) = q[1]
  BY HeadTailProperties
<1>2. DOMAIN q = 1 .. Len(q) /\ DOMAIN Tail(q) = 1 .. Len(q) - 1
  BY <1>1
<1>3. \A i \in 1 .. Len(q) : i = 1 \/ (i - 1 \in 1 .. Len(q) - 1 /\ i = (i - 1) + 1)
  BY <1>1
<1>4. \A i \in 1 .. Len(q) - 1 : i + 1 \in 1 .. Len(q) /\ i + 1 # 1
  BY <1>1
<1>5. 1 \in 1 .. Len(q)
  BY <1>1
<1>6. Held(q) = Held(Tail(q)) \cup {Head(q)}
  <2>1. ASSUME NEW x \in Held(q)
        PROVE  x \in Held(Tail(q)) \cup {Head(q)}
    <3>1. PICK i \in 1 .. Len(q) : x = q[i]
      BY <1>2 DEF Held
    <3>2. CASE i = 1
      BY <1>1, <3>1, <3>2
    <3>3. CASE i # 1
      <4>1. i - 1 \in DOMAIN Tail(q) /\ Tail(q)[i - 1] = x
        BY <1>1, <1>2, <1>3, <3>1, <3>3
      <4> QED
        BY <4>1 DEF Held
    <3> QED
      BY <3>2, <3>3
  <2>2. ASSUME NEW x \in Held(Tail(q)) \cup {Head(q)}
        PROVE  x \in Held(q)
    BY <1>1, <1>2, <1>4, <1>5 DEF Held
  <2> QED
    BY <2>1, <2>2
<1>7. ASSUME Distinct(q)
      PROVE  Distinct(Tail(q)) /\ Head(q) \notin Held(Tail(q))
  <2>1. ASSUME NEW i \in DOMAIN Tail(q), NEW j \in DOMAIN Tail(q), Tail(q)[i] = Tail(q)[j]
        PROVE  i = j
    <3>1. i + 1 \in DOMAIN q /\ j + 1 \in DOMAIN q /\ q[i + 1] = q[j + 1]
      BY <1>1, <1>2, <1>4, <2>1
    <3>2. i + 1 = j + 1
      BY <1>7, <3>1 DEF Distinct
    <3> QED
      BY <1>1, <1>2, <3>2
  <2>2. ASSUME NEW i \in DOMAIN Tail(q), Tail(q)[i] = Head(q)
        PROVE  FALSE
    <3>1. i + 1 \in DOMAIN q /\ 1 \in DOMAIN q /\ q[i + 1] = q[1] /\ i + 1 # 1
      BY <1>1, <1>2, <1>4, <1>5, <2>2
    <3> QED
      BY <1>7, <3>1 DEF Distinct
  <2> QED
    BY <2>1, <2>2 DEF Distinct, Held
<1> QED
  BY <1>1, <1>6, <1>7

(* An empty queue holds nothing. *)
LEMMA QueueEmpty ==
  /\ Held(<<>>) = {} /\ Distinct(<<>>)
  /\ \A S : <<>> \in Seq(S) /\ Len(<<>>) = 0
BY DEF Held, Distinct
(* A channel with room takes one more, a channel that is not empty gives one. *)
LEMMA ChannelSend ==
  ASSUME NEW S, NEW q \in Seq(S), NEW e \in S, NEW cap \in Nat, Len(q) < cap
  PROVE  Append(q, e) \in Seq(S) /\ Len(Append(q, e)) <= cap
<1>1. Append(q, e) \in Seq(S) /\ Len(Append(q, e)) = Len(q) + 1 /\ Len(q) \in Nat
  BY QueueSend
<1> QED
  BY <1>1

LEMMA ChannelReceive ==
  ASSUME NEW S, NEW q \in Seq(S), q # <<>>, NEW cap \in Nat, Len(q) <= cap
  PROVE  Head(q) \in S /\ Tail(q) \in Seq(S) /\ Len(Tail(q)) <= cap
<1>1. /\ Head(q) \in S /\ Tail(q) \in Seq(S)
      /\ Len(Tail(q)) = Len(q) - 1 /\ Len(q) \in Nat
  BY QueueReceive
<1> QED
  BY <1>1

LEMMA Capacities ==
  /\ SerialWrCap \in Nat /\ SerialRdCap \in Nat /\ WorkaroundCap \in Nat
  /\ PublishCap \in Nat /\ TriggerCap \in Nat
BY DaemonAssumption DEF SerialWrCap
-----------------------------------------------------------------------------
(* What main has in hand fits the place where it is. *)
HandOK ==
  /\ main.caller # Nobody =>
       /\ main.at \in {"write", "publish command"}
       /\ call[main.caller] \in DOMAIN FirmwareChar
  /\ main.at = "publish command" => main.caller # Nobody
  /\ main.at \in {"work around", "publish line"} => main.line \in Lines

TypeInv == TypeOK /\ HandOK

LEMMA Characters ==
  /\ DOMAIN FirmwareChar = {"open", "close", "toggle", "status"}
  /\ \A x \in DOMAIN FirmwareChar : FirmwareChar[x] \in Chars
  /\ FirmwareChar.open \in Chars /\ FirmwareChar.status \in Chars
BY DEF FirmwareChar, Chars

LEMMA SelectType ==
  /\ Select \in MainStates
  /\ Select.at = "select" /\ Select.line = NoLine /\ Select.caller = Nobody
BY DEF Select, MainStates

(* Whoever returns, the others' calls stay as they are. *)
LEMMA ReturnType ==
  ASSUME NEW S, Return(S), call \in [Callers -> Commands \cup {Idle}]
  PROVE  /\ call' \in [Callers -> Commands \cup {Idle}]
         /\ \A c \in Callers : call'[c] = IF c \in S THEN Idle ELSE call[c]
BY DEF Return

(* A line that is said ends in serial_rd or is lost. *)
LEMMA SayType ==
  ASSUME NEW line, Say(line), TypeOK
  PROVE  /\ serial_rd' \in Seq(Lines) /\ Len(serial_rd') <= SerialRdCap
         /\ missed' \in BOOLEAN
<1>1. line \in Lines
  BY DaemonAssumption DEF Say
<1>2. serial_rd \in Seq(Lines) /\ Len(serial_rd) <= SerialRdCap /\ missed \in BOOLEAN
  BY DEF TypeOK
<1>3. CASE Len(serial_rd) < SerialRdCap
  <2>1. /\ serial_rd' = Append(serial_rd, line)
        /\ missed' = (missed /\ line.kind # "Status:")
    BY <1>3 DEF Say
  <2> QED
    BY <1>1, <1>2, <1>3, <2>1, ChannelSend, Capacities
<1>4. CASE ~(Len(serial_rd) < SerialRdCap)
  <2>1. serial_rd' = serial_rd /\ missed' = TRUE
    BY <1>4 DEF Say
  <2> QED
    BY <1>2, <2>1
<1> QED
  BY <1>3, <1>4

LEMMA TurnLockType ==
  ASSUME NEW locked \in BOOLEAN, TurnLock(locked), TypeOK
  PROVE  /\ serial_rd' \in Seq(Lines) /\ Len(serial_rd') <= SerialRdCap
         /\ missed' \in BOOLEAN
         /\ door' \in Status
<1>1. door' \in Status
  BY DEF TurnLock, TypeOK, Status
<1>2. PICK line : Say(line)
  BY DEF TurnLock, SayState
<1> QED
  BY <1>1, <1>2, SayType

LEMMA InitTypeInv == Init => TypeInv
<1> SUFFICES ASSUME Init PROVE TypeInv
  OBVIOUS
<1>1. main = Select
  BY DEF Init
<1>2. /\ 0 \in 0 .. TriggerCap
      /\ 0 <= SerialWrCap /\ 0 <= SerialRdCap /\ 0 <= WorkaroundCap /\ 0 <= PublishCap
  BY Capacities
<1>3. workaround \in [state : States \cup {"none"}, closeFailed : BOOLEAN, sending : BOOLEAN]
  BY DEF Init, Unworried
<1>4. door \in Status
  BY DaemonAssumption DEF Init
<1>5. TypeOK
  BY <1>1, <1>2, <1>3, <1>4, QueueEmpty, SelectType DEF Init, TypeOK
<1> QED
  BY <1>1, <1>5, SelectType DEF HandOK, TypeInv

LEMMA NextTypeInv ==
  ASSUME TypeInv, [Next]_vars
  PROVE  TypeInv'
<1> USE DEF TypeInv
<1>1. ASSUME NEW c \in Callers, NEW cmd \in Commands, SendCmd(c, cmd)
      PROVE  TypeInv'
  <2>1. send_me_cmds' \in Seq(Callers) /\ call' \in [Callers -> Commands \cup {Idle}]
    BY <1>1, QueueSend DEF SendCmd, TypeOK
  <2>2. main.caller # Nobody => call'[main.caller] = call[main.caller]
    <3>1. call' = [call EXCEPT ![c] = cmd] /\ call[c] = Idle
      BY <1>1 DEF SendCmd
    <3>2. main.caller # Nobody => main.caller \in Callers /\ call[main.caller] # Idle
      BY DaemonAssumption DEF HandOK, TypeOK, MainStates
    <3> QED
      BY <3>1, <3>2 DEF TypeOK
  <2>3. UNCHANGED <<waiting_for_reply, main, timeout_timer, trigger, serial_wr, serial_rd,
                    workaround_in, publish_chan, workaround, connected, gobbler, retained,
                    door, missed>>
    BY <1>1 DEF SendCmd, brokerVars, firmwareVars
  <2>8. TypeOK'
    BY <2>1, <2>2, <2>3 DEF TypeOK
  <2>9. HandOK'
    BY <2>1, <2>2, <2>3 DEF HandOK
  <2> QED
    BY <2>8, <2>9
<1>2. CASE ReceiveLine
  <2>1. /\ Head(serial_rd) \in Lines /\ serial_rd' \in Seq(Lines)
        /\ Len(serial_rd') <= SerialRdCap
    BY <1>2, ChannelReceive, Capacities DEF ReceiveLine, TypeOK
  <2>2. call' \in [Callers -> Commands \cup {Idle}] /\ waiting_for_reply' \in Seq(Callers)
    <3>1. CASE waiting_for_reply = <<>>
      BY <1>2, <3>1 DEF ReceiveLine, AnswerOldest, TypeOK
    <3>2. CASE waiting_for_reply # <<>>
      <4>1. /\ Return({Head(waiting_for_reply)})
            /\ waiting_for_reply' = Tail(waiting_for_reply)
        BY <1>2, <3>2 DEF ReceiveLine, AnswerOldest
      <4> QED
        BY <3>2, <4>1, ReturnType, QueueReceive DEF TypeOK
    <3> QED
      BY <3>1, <3>2
  <2>3. /\ main'.at = "work around" /\ main'.line \in Lines /\ main'.caller = Nobody
        /\ main' \in MainStates
    <3>1. main' = [at |-> "work around", line |-> Head(serial_rd), caller |-> Nobody]
      BY <1>2 DEF ReceiveLine
    <3> QED
      BY <2>1, <3>1 DEF MainStates
  <2>4. UNCHANGED <<send_me_cmds, timeout_timer, trigger, serial_wr, workaround_in,
                    publish_chan, workaround, connected, gobbler, retained, door, missed>>
    BY <1>2 DEF ReceiveLine, brokerVars, firmwareVars
  <2>7. main' \in MainStates
    BY <2>3
  <2>8. TypeOK'
    BY <2>1, <2>2, <2>4, <2>7 DEF TypeOK
  <2>9. HandOK'
    BY <2>1, <2>2, <2>3, <2>4 DEF HandOK
  <2> QED
    BY <2>8, <2>9
<1>3. CASE TimeoutReached
  <2>1. main.caller = Nobody /\ timeout_timer' = "off"
    BY <1>3 DEF TimeoutReached, HandOK
  <2>2. call' \in [Callers -> Commands \cup {Idle}] /\ waiting_for_reply' \in Seq(Callers)
    BY <1>3, ReturnType, QueueEmpty DEF TimeoutReached, RefuseWaiting, TypeOK
  <2>3. UNCHANGED <<send_me_cmds, main, trigger, serial_wr, serial_rd, workaround_in,
                    publish_chan, workaround, connected, gobbler, retained, door, missed>>
    BY <1>3 DEF TimeoutReached, brokerVars, firmwareVars
  <2>8. TypeOK'
    BY <2>1, <2>2, <2>3 DEF TypeOK
  <2>9. HandOK'
    BY <2>1, <2>2, <2>3 DEF HandOK
  <2> QED
    BY <2>8, <2>9
<1>4. CASE TakeTrigger
  <2>1. main'.at = "write" /\ main'.caller = Nobody /\ main' \in MainStates
    BY <1>4, SelectType DEF TakeTrigger, MainStates
  <2>2. trigger' \in 0 .. TriggerCap
    <3>1. trigger \in 0 .. TriggerCap /\ trigger > 0 /\ trigger' = trigger - 1
      BY <1>4 DEF TakeTrigger, TypeOK
    <3> QED
      BY <3>1, Capacities
  <2>3. UNCHANGED <<call, send_me_cmds, waiting_for_reply, timeout_timer, serial_wr,
                    serial_rd, workaround_in, publish_chan, workaround, connected,
                    gobbler, retained, door, missed>>
    BY <1>4 DEF TakeTrigger, clientVars, brokerVars, firmwareVars
  <2>8. TypeOK'
    BY <2>1, <2>2, <2>3 DEF TypeOK
  <2>9. HandOK'
    BY <2>1, <2>2, <2>3 DEF HandOK
  <2> QED
    BY <2>8, <2>9
<1>5. CASE TakeCommand
  <2> DEFINE c == Head(send_me_cmds)
  <2>1. c \in Callers /\ send_me_cmds' \in Seq(Callers) /\ c # Nobody
    BY <1>5, QueueReceive, DaemonAssumption DEF TakeCommand, TypeOK
  <2>2. UNCHANGED <<waiting_for_reply, timeout_timer, trigger, serial_wr, serial_rd,
                    workaround_in, publish_chan, workaround, connected, gobbler, retained,
                    door, missed>>
    BY <1>5 DEF TakeCommand, brokerVars, firmwareVars
  <2>3. CASE call[c] \in DOMAIN FirmwareChar
    <3>1. main' = [Select EXCEPT !.at = "write", !.caller = c] /\ call' = call
      BY <1>5, <2>3 DEF TakeCommand
    <3> HIDE DEF c
    <3>2. main'.at = "write" /\ main'.caller = c /\ main' \in MainStates
      BY <2>1, <3>1, SelectType DEF MainStates
    <3>8. TypeOK'
      BY <2>1, <2>2, <2>3, <3>1, <3>2 DEF TypeOK
    <3>9. HandOK'
      BY <2>1, <2>2, <2>3, <3>1, <3>2 DEF HandOK
    <3> QED
      BY <3>8, <3>9
  <2>4. CASE call[c] \notin DOMAIN FirmwareChar
    <3>1. Return({c}) /\ main' = main /\ main.at = "select"
      BY <1>5, <2>4 DEF TakeCommand
    <3>2. call' \in [Callers -> Commands \cup {Idle}]
      BY <3>1, ReturnType DEF TypeOK
    <3>3. main.caller = Nobody
      BY <3>1 DEF HandOK
    <3>8. TypeOK'
      BY <2>1, <2>2, <3>1, <3>2, <3>3 DEF TypeOK
    <3>9. HandOK'
      BY <2>1, <2>2, <3>1, <3>2, <3>3 DEF HandOK
    <3> QED
      BY <3>8, <3>9
  <2> QED
    BY <2>3, <2>4
<1>6. CASE WriteCommand
  <2>1. Len(serial_wr) < SerialWrCap /\ SerialWrCap \in Nat /\ serial_wr \in Seq(Chars)
    BY <1>6, Capacities DEF WriteCommand, TypeOK
  <2>2. UNCHANGED <<call, send_me_cmds, waiting_for_reply, timeout_timer, trigger, serial_rd,
                    workaround_in, publish_chan, workaround, connected, gobbler, retained,
                    door, missed>>
    BY <1>6 DEF WriteCommand, clientVars, brokerVars, firmwareVars
  <2>3. CASE main.caller = Nobody
    <3>1. serial_wr' = Append(serial_wr, FirmwareChar.status) /\ main' = Select
      BY <1>6, <2>3 DEF WriteCommand
    <3>2. serial_wr' \in Seq(Chars) /\ Len(serial_wr') <= SerialWrCap
      BY <2>1, <3>1, ChannelSend, Characters
    <3>8. TypeOK'
      BY <2>2, <3>1, <3>2, SelectType DEF TypeOK
    <3>9. HandOK'
      BY <2>2, <3>1, <3>2, SelectType DEF HandOK
    <3> QED
      BY <3>8, <3>9
  <2>4. CASE main.caller # Nobody
    <3>1. /\ serial_wr' = Append(serial_wr, FirmwareChar[call[main.caller]])
          /\ main' = [main EXCEPT !.at = "publish command"]
      BY <1>6, <2>4 DEF WriteCommand
    <3>2. FirmwareChar[call[main.caller]] \in Chars
      BY <2>4, Characters DEF HandOK
    <3>3. serial_wr' \in Seq(Chars) /\ Len(serial_wr') <= SerialWrCap
      BY <2>1, <3>1, <3>2, ChannelSend
    <3>4. /\ main' \in MainStates /\ main'.at = "publish command"
          /\ main'.caller = main.caller
      BY <3>1 DEF TypeOK, MainStates
    <3>7. main' \in MainStates
      BY <3>4
    <3>8. TypeOK'
      BY <2>2, <3>3, <3>7 DEF TypeOK
    <3>9. HandOK'
      BY <2>2, <2>4, <3>3, <3>4 DEF HandOK
    <3> QED
      BY <3>8, <3>9
  <2> QED
    BY <2>3, <2>4
<1>7. CASE PublishCommand
  <2>1. main.caller \in Callers
    BY <1>7 DEF PublishCommand, TypeOK, HandOK, MainStates
  <2>2. waiting_for_reply' \in Seq(Callers)
    BY <1>7, <2>1, QueueSend DEF PublishCommand, TypeOK
  <2>3. publish_chan' \in Seq(Lines \cup {Command}) /\ Len(publish_chan') <= PublishCap
    BY <1>7, ChannelSend, Capacities DEF PublishCommand, TypeOK
  <2>4. timeout_timer' \in {"off", "even", "odd", "due"} /\ main' = Select
    BY <1>7 DEF PublishCommand, Reset
  <2>5. UNCHANGED <<call, send_me_cmds, trigger, serial_wr, serial_rd, workaround_in,
                    workaround, connected, gobbler, retained, door, missed>>
    BY <1>7 DEF PublishCommand, brokerVars, firmwareVars
  <2>8. TypeOK'
    BY <2>2, <2>3, <2>4, <2>5, SelectType DEF TypeOK
  <2>9. HandOK'
    BY <2>2, <2>3, <2>4, <2>5, SelectType DEF HandOK
  <2> QED
    BY <2>8, <2>9
<1>8. CASE WorkAroundLine
  <2>1. workaround_in' \in Seq(Lines) /\ Len(workaround_in') <= WorkaroundCap
    BY <1>8, ChannelSend, Capacities DEF WorkAroundLine, TypeOK, HandOK
  <2>2. /\ main' \in MainStates /\ main'.at = "publish line"
        /\ main'.line = main.line /\ main'.caller = main.caller /\ main.at = "work around"
    BY <1>8 DEF WorkAroundLine, TypeOK, MainStates
  <2>3. UNCHANGED <<call, send_me_cmds, waiting_for_reply, timeout_timer, trigger, serial_wr,
                    serial_rd, publish_chan, workaround, connected, gobbler, retained,
                    door, missed>>
    BY <1>8 DEF WorkAroundLine, clientVars, brokerVars, firmwareVars
  <2>7. main' \in MainStates
    BY <2>2
  <2>8. TypeOK'
    BY <2>1, <2>3, <2>7 DEF TypeOK
  <2>9. HandOK'
    BY <2>1, <2>2, <2>3 DEF HandOK
  <2> QED
    BY <2>8, <2>9
<1>9. CASE PublishLine
  <2>1. publish_chan' \in Seq(Lines \cup {Command}) /\ Len(publish_chan') <= PublishCap
    <3>1. main.line \in Lines \cup {Command}
      BY <1>9 DEF PublishLine, HandOK
    <3> QED
      BY <1>9, <3>1, ChannelSend, Capacities DEF PublishLine, TypeOK
  <2>2. main' = Select
    BY <1>9 DEF PublishLine
  <2>3. UNCHANGED <<call, send_me_cmds, waiting_for_reply, timeout_timer, trigger, serial_wr,
                    serial_rd, workaround_in, workaround, connected, gobbler, retained,
                    door, missed>>
    BY <1>9 DEF PublishLine, clientVars, brokerVars, firmwareVars
  <2>8. TypeOK'
    BY <2>1, <2>2, <2>3, SelectType DEF TypeOK
  <2>9. HandOK'
    BY <2>1, <2>2, <2>3, SelectType DEF HandOK
  <2> QED
    BY <2>8, <2>9
<1>10. ASSUME NEW longAgo \in BOOLEAN, NEW recent \in BOOLEAN, WorkaroundTakes(longAgo, recent)
       PROVE  TypeInv'
  <2>1. /\ Head(workaround_in) \in Lines /\ workaround_in' \in Seq(Lines)
        /\ Len(workaround_in') <= WorkaroundCap
    <3>1. workaround_in # <<>> /\ workaround_in' = Tail(workaround_in)
      BY <1>10 DEF WorkaroundTakes
    <3> QED
      BY <3>1, ChannelReceive, Capacities DEF TypeOK
  <2>2. Head(workaround_in).kind = "State:" => Head(workaround_in).says \in States
    BY <2>1 DEF Lines
  <2>3. workaround' \in [state : States \cup {"none"}, closeFailed : BOOLEAN, sending : BOOLEAN]
    BY <1>10, <2>2 DEF WorkaroundTakes, TypeOK
  <2>4. UNCHANGED <<call, send_me_cmds, waiting_for_reply, timeout_timer, main, trigger,
                    serial_wr, serial_rd, publish_chan, connected, gobbler, retained,
                    door, missed>>
    BY <1>10 DEF WorkaroundTakes, clientVars, brokerVars, firmwareVars
  <2>8. TypeOK'
    BY <2>1, <2>3, <2>4 DEF TypeOK
  <2>9. HandOK'
    BY <2>1, <2>3, <2>4 DEF HandOK
  <2> QED
    BY <2>8, <2>9
<1>11. CASE WorkaroundSends
  <2>1. serial_wr' \in Seq(Chars) /\ Len(serial_wr') <= SerialWrCap
    BY <1>11, ChannelSend, Characters, Capacities DEF WorkaroundSends, TypeOK
  <2>2. workaround' \in [state : States \cup {"none"}, closeFailed : BOOLEAN, sending : BOOLEAN]
    BY <1>11 DEF WorkaroundSends, TypeOK
  <2>3. UNCHANGED <<call, send_me_cmds, waiting_for_reply, timeout_timer, main, trigger,
                    serial_rd, workaround_in, publish_chan, connected, gobbler, retained,
                    door, missed>>
    BY <1>11 DEF WorkaroundSends, clientVars, brokerVars, firmwareVars
  <2>8. TypeOK'
    BY <2>1, <2>2, <2>3 DEF TypeOK
  <2>9. HandOK'
    BY <2>1, <2>2, <2>3 DEF HandOK
  <2> QED
    BY <2>8, <2>9
<1>12. CASE Connect \/ GobblerStops
  <2>1. connected' \in BOOLEAN /\ gobbler' \in {"gobbling", "triggering", "gone"}
    BY <1>12 DEF Connect, GobblerStops, TypeOK
  <2>2. UNCHANGED <<call, send_me_cmds, waiting_for_reply, timeout_timer, main, trigger,
                    serial_wr, serial_rd, workaround_in, publish_chan, workaround, retained,
                    door, missed>>
    BY <1>12 DEF Connect, GobblerStops, clientVars, firmwareVars
  <2>8. TypeOK'
    BY <2>1, <2>2 DEF TypeOK
  <2>9. HandOK'
    BY <2>2 DEF HandOK
  <2> QED
    BY <2>8, <2>9
<1>13. CASE GobblerDiscards \/ Publish
  <2>1. /\ Head(publish_chan) \in Lines \cup {Command}
        /\ publish_chan' \in Seq(Lines \cup {Command}) /\ Len(publish_chan') <= PublishCap
    <3>1. publish_chan # <<>> /\ publish_chan' = Tail(publish_chan)
      BY <1>13 DEF GobblerDiscards, Publish
    <3>2. publish_chan \in Seq(Lines \cup {Command}) /\ Len(publish_chan) <= PublishCap
      BY DEF TypeOK
    <3> QED
      BY <3>1, <3>2, ChannelReceive, Capacities
  <2>2. RetainedAfter(Head(publish_chan))
          \in [locked : BOOLEAN \cup {NoMessage}, shut : BOOLEAN \cup {NoMessage}]
    <3>1. /\ Head(publish_chan).kind = "Status:" => Head(publish_chan).says \in Status
      BY <2>1 DEF Lines, Command
    <3> QED
      BY <3>1 DEF RetainedAfter, TypeOK, Status
  <2>3. retained' \in [locked : BOOLEAN \cup {NoMessage}, shut : BOOLEAN \cup {NoMessage}]
    <3>1. retained' = retained \/ retained' = RetainedAfter(Head(publish_chan))
      BY <1>13 DEF GobblerDiscards, Publish, brokerVars
    <3> QED
      BY <2>2, <3>1 DEF TypeOK
  <2>4. UNCHANGED <<call, send_me_cmds, waiting_for_reply, timeout_timer, main, trigger,
                    serial_wr, serial_rd, workaround_in, workaround, connected, gobbler,
                    door, missed>>
    BY <1>13 DEF GobblerDiscards, Publish, clientVars, brokerVars, firmwareVars
  <2>8. TypeOK'
    BY <2>1, <2>3, <2>4 DEF TypeOK
  <2>9. HandOK'
    BY <2>1, <2>3, <2>4 DEF HandOK
  <2> QED
    BY <2>8, <2>9
<1>14. CASE GobblerTriggers \/ StatusRequested
  <2>1. trigger' \in 0 .. TriggerCap
    <3>1. trigger \in 0 .. TriggerCap /\ trigger < TriggerCap /\ trigger' = trigger + 1
      BY <1>14 DEF GobblerTriggers, StatusRequested, AddTrigger, TypeOK
    <3> QED
      BY <3>1, Capacities
  <2>2. gobbler' \in {"gobbling", "triggering", "gone"}
    BY <1>14 DEF GobblerTriggers, StatusRequested, TypeOK
  <2>3. UNCHANGED <<call, send_me_cmds, waiting_for_reply, timeout_timer, main, serial_wr,
                    serial_rd, workaround_in, publish_chan, workaround, connected, retained,
                    door, missed>>
    BY <1>14 DEF GobblerTriggers, StatusRequested, AddTrigger, clientVars, firmwareVars
  <2>8. TypeOK'
    BY <2>1, <2>2, <2>3 DEF TypeOK
  <2>9. HandOK'
    BY <2>1, <2>2, <2>3 DEF HandOK
  <2> QED
    BY <2>8, <2>9
<1>15. ASSUME NEW running \in {"even", "odd"}, Expire(running)
       PROVE  TypeInv'
  <2>8. TypeOK'
    BY <1>15 DEF Expire, TypeOK, brokerVars, firmwareVars
  <2>9. HandOK'
    BY <1>15 DEF Expire, HandOK
  <2> QED
    BY <2>8, <2>9
<1>16. CASE SerialWriter
  <2>1. serial_wr' \in Seq(Chars) /\ Len(serial_wr') <= SerialWrCap
    <3>1. serial_wr # <<>> /\ serial_wr' = Tail(serial_wr)
      BY <1>16 DEF SerialWriter
    <3> QED
      BY <3>1, ChannelReceive, Capacities DEF TypeOK
  <2>2. /\ serial_rd' \in Seq(Lines) /\ Len(serial_rd') <= SerialRdCap
        /\ missed' \in BOOLEAN /\ door' \in Status
    <3>1. CASE SayStatus
      BY <3>1, SayType DEF SayStatus, TypeOK
    <3>2. CASE \E locked \in BOOLEAN : TurnLock(locked)
      BY <3>2, TurnLockType
    <3>3. CASE Silence
      BY <3>3 DEF Silence, TypeOK
    <3>4. door.locked \in BOOLEAN
      BY DEF TypeOK, Status
    <3>5. (~door.locked) \in BOOLEAN
      BY <3>4
    <3>6. SayStatus \/ Silence \/ \E locked \in BOOLEAN : TurnLock(locked)
      BY <1>16, <3>5 DEF SerialWriter
    <3> QED
      BY <3>1, <3>2, <3>3, <3>6
  <2>3. UNCHANGED <<call, send_me_cmds, waiting_for_reply, timeout_timer, main, trigger,
                    workaround_in, publish_chan, workaround, connected, gobbler, retained>>
    BY <1>16 DEF SerialWriter, clientVars, brokerVars
  <2>8. TypeOK'
    BY <2>1, <2>2, <2>3 DEF TypeOK
  <2>9. HandOK'
    BY <2>1, <2>2, <2>3 DEF HandOK
  <2> QED
    BY <2>8, <2>9
<1>17. CASE FirmwareSpeaks
  <2>1. /\ serial_rd' \in Seq(Lines) /\ Len(serial_rd') <= SerialRdCap
        /\ missed' \in BOOLEAN /\ door' \in Status
    <3>1. CASE TurnLock(~door.locked)
      <4>1. door.locked \in BOOLEAN
        BY DEF TypeOK, Status
      <4>2. (~door.locked) \in BOOLEAN
        BY <4>1
      <4> QED
        BY <3>1, <4>2, TurnLockType
    <3>2. CASE SayState("other") /\ UNCHANGED door
      BY <3>2, SayType DEF SayState, TypeOK
    <3>3. CASE SayAjar(~door.shut) /\ door' = [door EXCEPT !.shut = ~@]
      BY <3>3, SayType DEF SayAjar, TypeOK, Status
    <3> QED
      BY <1>17, <3>1, <3>2, <3>3 DEF FirmwareSpeaks
  <2>2. UNCHANGED <<call, send_me_cmds, waiting_for_reply, timeout_timer, main, trigger,
                    serial_wr, workaround_in, publish_chan, workaround, connected, gobbler,
                    retained>>
    BY <1>17 DEF FirmwareSpeaks, clientVars, brokerVars
  <2>8. TypeOK'
    BY <2>1, <2>2 DEF TypeOK
  <2>9. HandOK'
    BY <2>1, <2>2 DEF HandOK
  <2> QED
    BY <2>8, <2>9
<1>18. CASE Restart
  <2>1. main' = Select
    BY <1>18 DEF Restart
  <2>2. /\ 0 \in 0 .. TriggerCap
        /\ 0 <= SerialWrCap /\ 0 <= SerialRdCap /\ 0 <= WorkaroundCap /\ 0 <= PublishCap
    BY Capacities
  <2>3. workaround' \in [state : States \cup {"none"}, closeFailed : BOOLEAN, sending : BOOLEAN]
    BY <1>18 DEF Restart, Unworried
  <2>4. TypeOK'
    BY <1>18, <2>1, <2>2, <2>3, QueueEmpty, SelectType DEF Restart, TypeOK
  <2> QED
    BY <2>1, <2>4, SelectType DEF HandOK
<1>19. CASE UNCHANGED vars
  <2>8. TypeOK'
    BY <1>19 DEF vars, TypeOK
  <2>9. HandOK'
    BY <1>19 DEF vars, HandOK
  <2> QED
    BY <2>8, <2>9
<1> QED
  BY <1>1, <1>2, <1>3, <1>4, <1>5, <1>6, <1>7, <1>8, <1>9, <1>10, <1>11, <1>12,
     <1>13, <1>14, <1>15, <1>16, <1>17, <1>18, <1>19
     DEF Next, Main, Workaround, Mqtt, World

(* Every variable has its type and no channel exceeds its capacity, in     *)
(* every interleaving of the goroutines.                                   *)
THEOREM TypeCorrect == Spec => []TypeOK
<1>1. Init => TypeInv
  BY InitTypeInv
<1>2. TypeInv /\ [Next]_vars => TypeInv'
  BY NextTypeInv
<1>3. TypeInv => TypeOK
  BY DEF TypeInv
<1> QED
  BY <1>1, <1>2, <1>3, PTL DEF Spec
-----------------------------------------------------------------------------
Calling == {c \in Callers : call[c] # Idle}

(* What EachCallHeldOnce says, with main's hand as the caller in it. *)
HeldOnce ==
  /\ Distinct(send_me_cmds) /\ Distinct(waiting_for_reply)
  /\ Held(send_me_cmds) \cap Held(waiting_for_reply) = {}
  /\ main.caller \notin Held(send_me_cmds) \cup Held(waiting_for_reply)
  /\ ({main.caller} \ {Nobody}) \cup Held(send_me_cmds) \cup Held(waiting_for_reply) = Calling

LEMMA HandHolds == Held(InHand) = {main.caller} \ {Nobody}
<1>1. CASE main.caller = Nobody
  BY <1>1, QueueEmpty DEF InHand
<1>2. CASE main.caller # Nobody
  <2>1. InHand = <<main.caller>>
    BY <1>2 DEF InHand
  <2>2. DOMAIN <<main.caller>> = {1} /\ <<main.caller>>[1] = main.caller
    OBVIOUS
  <2>3. Held(<<main.caller>>) = {main.caller}
    BY <2>2 DEF Held
  <2> QED
    BY <1>2, <2>1, <2>3
<1> QED
  BY <1>1, <1>2

LEMMA HeldOnceIsEachCallHeldOnce == HeldOnce <=> EachCallHeldOnce
BY HandHolds DEF HeldOnce, EachCallHeldOnce, Calling

(* The callers that return are no longer calling, the others still are. *)
LEMMA ReturnCalling ==
  ASSUME TypeOK, NEW S, Return(S)
  PROVE  Calling' = Calling \ S
<1>1. /\ call' \in [Callers -> Commands \cup {Idle}]
      /\ \A c \in Callers : call'[c] = IF c \in S THEN Idle ELSE call[c]
  BY ReturnType DEF TypeOK
<1> QED
  BY <1>1 DEF Calling

(* In these steps the hand stays empty, or full with the same call. *)
LEMMA CallerStays ==
  ASSUME TypeInv, TakeTrigger \/ WriteCommand \/ WorkAroundLine \/ PublishLine
  PROVE  main'.caller = main.caller
<1>1. CASE TakeTrigger \/ PublishLine
  <2>1. main.caller = Nobody
    BY <1>1 DEF TakeTrigger, PublishLine, TypeInv, HandOK
  <2>2. main' = Select \/ main' = [Select EXCEPT !.at = "write"]
    BY <1>1 DEF TakeTrigger, PublishLine
  <2> QED
    BY <2>1, <2>2 DEF Select
<1>2. CASE WriteCommand \/ WorkAroundLine
  <2>1. main \in MainStates
    BY DEF TypeInv, TypeOK
  <2>2. \/ main' = Select /\ main.caller = Nobody
        \/ main' = [main EXCEPT !.at = "publish command"]
        \/ main' = [main EXCEPT !.at = "publish line"]
    BY <1>2 DEF WriteCommand, WorkAroundLine
  <2>3. CASE main' = Select /\ main.caller = Nobody
    BY <2>3, SelectType
  <2>4. CASE main' # Select
    BY <2>1, <2>2, <2>4 DEF MainStates
  <2>5. CASE main' = Select /\ main.caller # Nobody
    BY <2>1, <2>2, <2>5, SelectType DEF MainStates
  <2> QED
    BY <2>3, <2>4, <2>5
<1> QED
  BY <1>1, <1>2

LEMMA InitHeldOnce == Init => HeldOnce
<1> SUFFICES ASSUME Init PROVE HeldOnce
  OBVIOUS
<1>1. /\ call = [c \in Callers |-> Idle] /\ main.caller = Nobody
      /\ send_me_cmds = <<>> /\ waiting_for_reply = <<>>
  BY DEF Init, Select
<1>2. Calling = {}
  BY <1>1 DEF Calling
<1> QED
  BY <1>1, <1>2, QueueEmpty DEF HeldOnce

LEMMA NextHeldOnce ==
  ASSUME TypeInv, HeldOnce, [Next]_vars
  PROVE  HeldOnce'
<1>1. /\ send_me_cmds \in Seq(Callers) /\ waiting_for_reply \in Seq(Callers)
      /\ call \in [Callers -> Commands \cup {Idle}]
      /\ main.caller \in Callers \cup {Nobody}
      /\ Nobody \notin Callers
  BY DaemonAssumption DEF TypeInv, TypeOK, MainStates
<1>2. /\ main.at = "select" => main.caller = Nobody
      /\ main.at \in {"work around", "publish line"} => main.caller = Nobody
  BY DEF TypeInv, HandOK
<1>3. ASSUME NEW c \in Callers, NEW cmd \in Commands, SendCmd(c, cmd)
      PROVE  HeldOnce'
  <2>1. /\ call[c] = Idle /\ call' = [call EXCEPT ![c] = cmd] /\ cmd # Idle
        /\ send_me_cmds' = Append(send_me_cmds, c)
        /\ UNCHANGED <<waiting_for_reply, main>>
    BY <1>3, DaemonAssumption, Characters DEF SendCmd
  <2>2. Calling' = Calling \cup {c} /\ c \notin Calling
    BY <1>1, <2>1 DEF Calling
  <2>3. /\ Held(send_me_cmds') = Held(send_me_cmds) \cup {c}
        /\ c \notin Held(send_me_cmds) => Distinct(send_me_cmds')
    BY <1>1, <2>1, QueueSend DEF HeldOnce
  <2> QED
    BY <1>1, <2>1, <2>2, <2>3 DEF HeldOnce
<1>4. CASE ReceiveLine
  <2>1. main.caller = Nobody /\ main'.caller = Nobody /\ send_me_cmds' = send_me_cmds
    BY <1>2, <1>4 DEF ReceiveLine
  <2>2. CASE waiting_for_reply = <<>>
    <3>1. UNCHANGED <<call, waiting_for_reply>>
      BY <1>4, <2>2 DEF ReceiveLine, AnswerOldest
    <3> QED
      BY <2>1, <3>1 DEF HeldOnce, Calling
  <2>3. CASE waiting_for_reply # <<>>
    <3> DEFINE c == Head(waiting_for_reply)
    <3>1. Return({c}) /\ waiting_for_reply' = Tail(waiting_for_reply)
      BY <1>4, <2>3 DEF ReceiveLine, AnswerOldest
    <3>2. Calling' = Calling \ {c}
      BY <3>1, ReturnCalling DEF TypeInv
    <3>3. /\ Held(waiting_for_reply) = Held(waiting_for_reply') \cup {c}
          /\ Distinct(waiting_for_reply') /\ c \notin Held(waiting_for_reply')
      BY <1>1, <2>3, <3>1, QueueReceive DEF HeldOnce
    <3> HIDE DEF c
    <3> QED
      BY <2>1, <3>2, <3>3 DEF HeldOnce
  <2> QED
    BY <2>2, <2>3
<1>5. CASE TimeoutReached
  <2>1. Calling' = Calling \ Held(waiting_for_reply)
    BY <1>5, ReturnCalling DEF TimeoutReached, RefuseWaiting, TypeInv
  <2>2. waiting_for_reply' = <<>> /\ UNCHANGED <<send_me_cmds, main>> /\ main.caller = Nobody
    BY <1>2, <1>5 DEF TimeoutReached, RefuseWaiting
  <2>3. Held(waiting_for_reply') = {} /\ Distinct(waiting_for_reply')
    BY <2>2, QueueEmpty
  <2> QED
    BY <2>1, <2>2, <2>3 DEF HeldOnce
<1>6. CASE TakeCommand
  <2> DEFINE c == Head(send_me_cmds)
  <2>1. /\ c \in Callers /\ send_me_cmds' = Tail(send_me_cmds)
        /\ Held(send_me_cmds) = Held(send_me_cmds') \cup {c}
        /\ Distinct(send_me_cmds') /\ c \notin Held(send_me_cmds')
        /\ waiting_for_reply' = waiting_for_reply /\ main.caller = Nobody
    BY <1>1, <1>2, <1>6, QueueReceive DEF TakeCommand, HeldOnce
  <2>2. CASE call[c] \in DOMAIN FirmwareChar
    <3>1. main' = [Select EXCEPT !.at = "write", !.caller = c] /\ call' = call
      BY <1>6, <2>2 DEF TakeCommand
    <3> HIDE DEF c
    <3>2. main'.caller = c /\ Calling' = Calling
      BY <3>1 DEF Select, Calling
    <3> QED
      BY <1>1, <2>1, <3>2 DEF HeldOnce
  <2>3. CASE call[c] \notin DOMAIN FirmwareChar
    <3>1. Return({c}) /\ main' = main
      BY <1>6, <2>3 DEF TakeCommand
    <3>2. Calling' = Calling \ {c}
      BY <3>1, ReturnCalling DEF TypeInv
    <3> HIDE DEF c
    <3> QED
      BY <1>1, <2>1, <3>1, <3>2 DEF HeldOnce
  <2> QED
    BY <2>2, <2>3
<1>7. CASE PublishCommand
  <2>1. /\ main.caller \in Callers /\ main'.caller = Nobody
        /\ waiting_for_reply' = Append(waiting_for_reply, main.caller)
        /\ UNCHANGED <<call, send_me_cmds>>
    BY <1>1, <1>7 DEF PublishCommand, TypeInv, HandOK, Select
  <2>2. /\ Held(waiting_for_reply') = Held(waiting_for_reply) \cup {main.caller}
        /\ Distinct(waiting_for_reply')
    BY <1>1, <2>1, QueueSend DEF HeldOnce
  <2>3. Calling' = Calling /\ Nobody \notin Held(send_me_cmds) \cup Held(waiting_for_reply')
    BY <1>1, <2>1, <2>2 DEF HeldOnce, Calling
  <2> QED
    BY <1>1, <2>1, <2>2, <2>3 DEF HeldOnce
(* The hand stays empty, or full with the same call. *)
<1>8. CASE \/ TakeTrigger \/ WriteCommand \/ WorkAroundLine \/ PublishLine
  <2>1. UNCHANGED <<call, send_me_cmds, waiting_for_reply>>
    BY <1>8 DEF TakeTrigger, WriteCommand, WorkAroundLine, PublishLine, clientVars
  <2>2. main'.caller = main.caller
    BY <1>8, CallerStays
  <2> QED
    BY <2>1, <2>2 DEF HeldOnce, Calling
<1>9. CASE Restart
  <2>1. /\ call' = [c \in Callers |-> Idle] /\ main'.caller = Nobody
        /\ send_me_cmds' = <<>> /\ waiting_for_reply' = <<>>
    BY <1>9 DEF Restart, Select
  <2>2. Calling' = {}
    BY <2>1 DEF Calling
  <2> QED
    BY <2>1, <2>2, QueueEmpty DEF HeldOnce
(* Nobody else touches the calls. *)
<1>10. CASE UNCHANGED <<call, send_me_cmds, waiting_for_reply, main>>
  BY <1>10 DEF HeldOnce, Calling
<1>11. CASE Workaround \/ Mqtt
  BY <1>10, <1>11
     DEF Workaround, WorkaroundTakes, WorkaroundSends, Mqtt, Connect, GobblerDiscards,
         GobblerStops, GobblerTriggers, AddTrigger, Publish, clientVars
<1>12. CASE \/ \E running \in {"even", "odd"} : Expire(running)
            \/ StatusRequested \/ SerialWriter \/ FirmwareSpeaks
  BY <1>10, <1>12
     DEF Expire, StatusRequested, AddTrigger, SerialWriter, FirmwareSpeaks, clientVars
<1>13. CASE UNCHANGED vars
  BY <1>10, <1>13 DEF vars
<1> QED
  BY <1>3, <1>4, <1>5, <1>6, <1>7, <1>8, <1>9, <1>11, <1>12, <1>13
     DEF Next, Main, World

(* Every blocked SendCmd is known to main in exactly one place, for any    *)
(* number of callers: none is forgotten, none is answered twice.           *)
THEOREM EveryCallHeldOnce == Spec => []EachCallHeldOnce
<1>1. Init => TypeInv /\ HeldOnce
  BY InitTypeInv, InitHeldOnce
<1>2. TypeInv /\ HeldOnce /\ [Next]_vars => TypeInv' /\ HeldOnce'
  BY NextTypeInv, NextHeldOnce
<1>3. HeldOnce => EachCallHeldOnce
  BY HeldOnceIsEachCallHeldOnce
<1> QED
  BY <1>1, <1>2, <1>3, PTL DEF Spec
-----------------------------------------------------------------------------
(* No call ever waits for the firmware without a timer that runs or is due *)
(* to refuse it, for any number of callers.                                *)
THEOREM WaitingAlwaysHasDeadline == Spec => []WaitingHasDeadline
<1>1. Init => WaitingHasDeadline
  BY DEF Init, WaitingHasDeadline
<1>2. WaitingHasDeadline /\ [Next]_vars => WaitingHasDeadline'
  <2> SUFFICES ASSUME WaitingHasDeadline, [Next]_vars
               PROVE  WaitingHasDeadline'
    OBVIOUS
  <2>1. CASE UNCHANGED <<waiting_for_reply, timeout_timer>>
    BY <2>1 DEF WaitingHasDeadline
  <2>2. CASE ReceiveLine
    <3>1. waiting_for_reply = <<>> => waiting_for_reply' = <<>>
      BY <2>2 DEF ReceiveLine, AnswerOldest
    <3>2. timeout_timer' = timeout_timer
      BY <2>2 DEF ReceiveLine
    <3> QED
      BY <3>1, <3>2 DEF WaitingHasDeadline
  <2>3. CASE TimeoutReached \/ Restart
    BY <2>3 DEF TimeoutReached, RefuseWaiting, Restart, WaitingHasDeadline
  <2>4. CASE PublishCommand
    BY <2>4 DEF PublishCommand, Reset, WaitingHasDeadline
  <2>5. CASE \E running \in {"even", "odd"} : Expire(running)
    BY <2>5 DEF Expire, WaitingHasDeadline
  <2>6. CASE TakeTrigger \/ TakeCommand \/ WriteCommand \/ WorkAroundLine \/ PublishLine
    BY <2>1, <2>6
       DEF TakeTrigger, TakeCommand, WriteCommand, WorkAroundLine, PublishLine, clientVars
  <2>7. CASE Workaround \/ Mqtt
    BY <2>1, <2>7
       DEF Workaround, WorkaroundTakes, WorkaroundSends, Mqtt, Connect, GobblerDiscards,
           GobblerStops, GobblerTriggers, AddTrigger, Publish, clientVars
  <2>8. CASE \/ \E c \in Callers, cmd \in Commands : SendCmd(c, cmd)
             \/ StatusRequested \/ SerialWriter \/ FirmwareSpeaks
    BY <2>1, <2>8
       DEF SendCmd, StatusRequested, AddTrigger, SerialWriter, FirmwareSpeaks, clientVars
  <2>9. CASE UNCHANGED vars
    BY <2>1, <2>9 DEF vars
  <2> QED
    BY <2>2, <2>3, <2>4, <2>5, <2>6, <2>7, <2>8, <2>9 DEF Next, Main, World
<1> QED
  BY <1>1, <1>2, PTL DEF Spec
-----------------------------------------------------------------------------
(* Queues with one call in front. *)
LEMMA InFront ==
  ASSUME NEW S, NEW q \in Seq(S), NEW e \in S
  PROVE  <<e>> \o q # <<>> /\ Head(<<e>> \o q) = e /\ Tail(<<e>> \o q) = q
<1> DEFINE r == <<e>> \o q
<1>1. <<e>> \in Seq(S) /\ Len(<<e>>) = 1 /\ Len(q) \in Nat
  OBVIOUS
<1>2. /\ r \in Seq(S) /\ Len(r) = 1 + Len(q)
      /\ \A i \in 1 .. 1 + Len(q) : r[i] = IF i <= 1 THEN <<e>>[i] ELSE q[i - 1]
  BY <1>1, ConcatProperties
<1> HIDE DEF r
<1>3. r # <<>>
  BY <1>1, <1>2
<1>4. 1 \in 1 .. 1 + Len(q) /\ r[1] = e
  BY <1>1, <1>2
<1>5. Head(r) = e
  BY <1>2, <1>3, <1>4
<1>6. /\ Tail(r) \in Seq(S) /\ Len(Tail(r)) = Len(q)
      /\ \A i \in 1 .. Len(Tail(r)) : Tail(r)[i] = r[i + 1]
  BY <1>1, <1>2, <1>3, HeadTailProperties
<1>7. \A i \in 1 .. Len(q) : Tail(r)[i] = q[i]
  BY <1>1, <1>2, <1>6
<1>8. Tail(r) = q
  BY <1>6, <1>7, SeqEqual
<1> QED
  BY <1>3, <1>5, <1>8 DEF r

LEMMA BackInFront ==
  ASSUME NEW S, NEW q \in Seq(S), q # <<>>
  PROVE  <<Head(q)>> \o Tail(q) = q
<1> DEFINE r == <<Head(q)>> \o Tail(q)
<1>1. /\ Head(q) \in S /\ Tail(q) \in Seq(S) /\ Len(Tail(q)) = Len(q) - 1
      /\ \A i \in 1 .. Len(Tail(q)) : Tail(q)[i] = q[i + 1]
      /\ Len(q) \in Nat /\ Len(q) > 0 /\ Head(q) = q[1]
  BY HeadTailProperties
<1>2. <<Head(q)>> \in Seq(S) /\ Len(<<Head(q)>>) = 1
  BY <1>1
<1>3. /\ r \in Seq(S) /\ Len(r) = 1 + (Len(q) - 1)
      /\ \A i \in 1 .. 1 + (Len(q) - 1) :
           r[i] = IF i <= 1 THEN <<Head(q)>>[i] ELSE Tail(q)[i - 1]
  BY <1>1, <1>2, ConcatProperties
<1> HIDE DEF r
<1>4. Len(r) = Len(q)
  BY <1>1, <1>3
<1>5. ASSUME NEW i \in 1 .. Len(q) PROVE r[i] = q[i]
  <2>1. CASE i = 1
    BY <1>1, <1>3, <2>1
  <2>2. CASE i # 1
    <3>1. i - 1 \in 1 .. Len(Tail(q)) /\ (i - 1) + 1 = i /\ i \in 1 .. 1 + (Len(q) - 1)
      BY <1>1, <2>2
    <3>2. r[i] = Tail(q)[i - 1]
      BY <1>3, <2>2, <3>1
    <3> QED
      BY <1>1, <3>1, <3>2
  <2> QED
    BY <2>1, <2>2
<1>6. r = q
  BY <1>3, <1>4, <1>5, SeqEqual
<1> QED
  BY <1>6 DEF r

LEMMA HeldConcat ==
  ASSUME NEW S, NEW p \in Seq(S), NEW q \in Seq(S)
  PROVE  Held(p \o q) \subseteq Held(p) \cup Held(q)
<1> DEFINE r == p \o q
<1>1. /\ r \in Seq(S) /\ Len(r) = Len(p) + Len(q) /\ Len(p) \in Nat /\ Len(q) \in Nat
      /\ \A i \in 1 .. Len(p) + Len(q) :
           r[i] = IF i <= Len(p) THEN p[i] ELSE q[i - Len(p)]
  BY ConcatProperties
<1> HIDE DEF r
<1>2. ASSUME NEW x \in Held(r)
      PROVE  x \in Held(p) \cup Held(q)
  <2>1. PICK i \in 1 .. Len(p) + Len(q) : x = r[i]
    BY <1>1, <1>2 DEF Held
  <2>2. CASE i <= Len(p)
    <3>1. i \in DOMAIN p /\ x = p[i]
      BY <1>1, <2>1, <2>2
    <3> QED
      BY <3>1 DEF Held
  <2>3. CASE ~(i <= Len(p))
    <3>1. i - Len(p) \in DOMAIN q /\ x = q[i - Len(p)]
      BY <1>1, <2>1, <2>3
    <3> QED
      BY <3>1 DEF Held
  <2> QED
    BY <2>2, <2>3
<1> QED
  BY <1>2 DEF r

Made == InHand \o send_me_cmds

(* One step of the daemon is a step of the promise to its callers or none. *)
LEMMA CallsStep ==
  ASSUME TypeInv, HeldOnce, [Next]_vars
  PROVE  [Calls!Next]_(Calls!vars)
<1>1. /\ send_me_cmds \in Seq(Callers) /\ waiting_for_reply \in Seq(Callers)
      /\ main.caller \in Callers \cup {Nobody}
  BY DEF TypeInv, TypeOK, MainStates
<1>2. InHand \in Seq(Callers)
  BY <1>1, QueueEmpty DEF InHand
<1>3. /\ main.at = "select" => main.caller = Nobody
      /\ main.at \in {"work around", "publish line"} => main.caller = Nobody
  BY DEF TypeInv, HandOK
<1>4. main.caller = Nobody => Made = send_me_cmds
  BY <1>1, ConcatEmptySeq DEF Made, InHand
<1>5. ASSUME UNCHANGED <<send_me_cmds, waiting_for_reply>>, main'.caller = main.caller
      PROVE  UNCHANGED Calls!vars
  BY <1>5 DEF Calls!vars, InHand
<1>6. ASSUME NEW c \in Callers, NEW cmd \in Commands, SendCmd(c, cmd)
      PROVE  Calls!Make(c)
  <2>1. /\ call[c] = Idle /\ send_me_cmds' = Append(send_me_cmds, c)
        /\ UNCHANGED <<waiting_for_reply, main>>
    BY <1>6 DEF SendCmd
  <2>2. Made' = Append(Made, c)
    <3>1. InHand' = InHand
      BY <2>1 DEF InHand
    <3>2. <<c>> \in Seq(Callers) /\ Append(send_me_cmds, c) = send_me_cmds \o <<c>>
      BY <1>1, AppendIsConcat
    <3>3. Made \in Seq(Callers)
      BY <1>1, <1>2, ConcatProperties DEF Made
    <3>4. Append(Made, c) = Made \o <<c>>
      BY <3>3, AppendIsConcat
    <3>5. (InHand \o send_me_cmds) \o <<c>> = InHand \o (send_me_cmds \o <<c>>)
      BY <1>1, <1>2, <3>2, ConcatAssociative
    <3> QED
      BY <2>1, <3>1, <3>2, <3>4, <3>5 DEF Made
  <2>3. c \notin Calling
    BY <2>1 DEF Calling
  <2>4. c \notin Held(Made) /\ c \notin Held(waiting_for_reply)
    BY <1>1, <1>2, <2>3, HeldConcat, HandHolds DEF HeldOnce, Made
  <2> QED
    BY <2>1, <2>2, <2>4 DEF Calls!Make, Calls!Held, Held, Made
<1>7. CASE ReceiveLine
  <2>1. main.caller = Nobody /\ main'.caller = Nobody /\ send_me_cmds' = send_me_cmds
    BY <1>3, <1>7 DEF ReceiveLine
  <2>2. CASE waiting_for_reply = <<>>
    BY <1>5, <1>7, <2>1, <2>2 DEF ReceiveLine, AnswerOldest
  <2>3. CASE waiting_for_reply # <<>>
    <3>1. waiting_for_reply' = Tail(waiting_for_reply)
      BY <1>7, <2>3 DEF ReceiveLine, AnswerOldest
    <3> QED
      BY <2>1, <2>3, <3>1 DEF Calls!Next, Calls!Answer, InHand
  <2> QED
    BY <2>2, <2>3
<1>8. CASE TimeoutReached
  <2>1. waiting_for_reply' = <<>> /\ UNCHANGED <<main, send_me_cmds>>
    BY <1>8 DEF TimeoutReached, RefuseWaiting
  <2> QED
    BY <2>1 DEF Calls!Next, Calls!RefuseAll, InHand
<1>9. CASE TakeCommand
  <2> DEFINE c == Head(send_me_cmds)
  <2>1. /\ send_me_cmds # <<>> /\ c \in Callers /\ c # Nobody
        /\ send_me_cmds' = Tail(send_me_cmds) /\ Tail(send_me_cmds) \in Seq(Callers)
        /\ waiting_for_reply' = waiting_for_reply /\ main.caller = Nobody
    BY <1>1, <1>3, <1>9, QueueReceive, DaemonAssumption DEF TakeCommand
  <2>2. CASE call[c] \in DOMAIN FirmwareChar
    <3>1. main' = [Select EXCEPT !.at = "write", !.caller = c]
      BY <1>9, <2>2 DEF TakeCommand
    <3>2. <<c>> \o Tail(send_me_cmds) = send_me_cmds
      BY <1>1, <2>1, BackInFront
    <3> HIDE DEF c
    <3>3. main'.caller = c
      BY <3>1 DEF Select
    <3>4. Made' = send_me_cmds
      BY <2>1, <3>2, <3>3 DEF Made, InHand
    <3> QED
      BY <1>4, <2>1, <3>4 DEF Made, Calls!vars
  <2>3. CASE call[c] \notin DOMAIN FirmwareChar
    <3>1. main' = main
      BY <1>9, <2>3 DEF TakeCommand
    <3>2. Made = send_me_cmds /\ Made' = Tail(send_me_cmds)
      BY <1>4, <2>1, <3>1, ConcatEmptySeq DEF Made, InHand
    <3> QED
      BY <2>1, <3>2 DEF Made, Calls!Next, Calls!Settle
  <2> QED
    BY <2>2, <2>3
<1>10. CASE PublishCommand
  <2>1. /\ main.caller \in Callers /\ main.caller # Nobody /\ main'.caller = Nobody
        /\ waiting_for_reply' = Append(waiting_for_reply, main.caller)
        /\ send_me_cmds' = send_me_cmds
    BY <1>1, <1>10 DEF PublishCommand, TypeInv, HandOK, Select
  <2>2. Made = <<main.caller>> \o send_me_cmds
    BY <2>1 DEF Made, InHand
  <2>3. Made # <<>> /\ Head(Made) = main.caller /\ Tail(Made) = send_me_cmds
    BY <1>1, <2>1, <2>2, InFront
  <2>4. Made' = send_me_cmds
    BY <1>1, <2>1, ConcatEmptySeq DEF Made, InHand
  <2> QED
    BY <2>1, <2>3, <2>4 DEF Made, Calls!Next, Calls!Accept
<1>11. CASE TakeTrigger \/ WriteCommand \/ WorkAroundLine \/ PublishLine
  <2>1. UNCHANGED <<send_me_cmds, waiting_for_reply>>
    BY <1>11 DEF TakeTrigger, WriteCommand, WorkAroundLine, PublishLine, clientVars
  <2> QED
    BY <1>5, <1>11, <2>1, CallerStays
<1>12. CASE Restart
  <2>1. send_me_cmds' = <<>> /\ waiting_for_reply' = <<>> /\ main'.caller = Nobody
    BY <1>12 DEF Restart, Select
  <2>2. Made' = <<>>
    BY <2>1, QueueEmpty, ConcatEmptySeq DEF Made, InHand
  <2> QED
    BY <2>1, <2>2 DEF Made, Calls!Next, Calls!Exit
<1>13. CASE UNCHANGED <<send_me_cmds, waiting_for_reply, main>>
  BY <1>5, <1>13
<1>14. CASE Workaround \/ Mqtt
  BY <1>13, <1>14
     DEF Workaround, WorkaroundTakes, WorkaroundSends, Mqtt, Connect, GobblerDiscards,
         GobblerStops, GobblerTriggers, AddTrigger, Publish, clientVars
<1>15. CASE \/ \E running \in {"even", "odd"} : Expire(running)
            \/ StatusRequested \/ SerialWriter \/ FirmwareSpeaks
  BY <1>13, <1>15
     DEF Expire, StatusRequested, AddTrigger, SerialWriter, FirmwareSpeaks, clientVars
<1>16. CASE UNCHANGED vars
  BY <1>13, <1>16 DEF vars
<1>17. CASE \E c \in Callers, cmd \in Commands : SendCmd(c, cmd)
  BY <1>6, <1>17 DEF Calls!Next
<1> QED
  BY <1>7, <1>8, <1>9, <1>10, <1>11, <1>12, <1>14, <1>15, <1>16, <1>17
     DEF Next, Main, World

(* For any number of callers: the daemon takes the calls in order, answers *)
(* the accepted ones oldest first or refuses them together, and does       *)
(* nothing else with them.                                                 *)
THEOREM DaemonImplementsCalls == Spec => ImplementsCalls
<1>1. Init => TypeInv /\ HeldOnce /\ Calls!Init
  <2> SUFFICES ASSUME Init PROVE HeldOnce /\ Calls!Init
    BY InitTypeInv
  <2>1. send_me_cmds = <<>> /\ waiting_for_reply = <<>> /\ main.caller = Nobody
    BY DEF Init, Select
  <2>2. InHand \o send_me_cmds = <<>>
    BY <2>1, QueueEmpty, ConcatEmptySeq DEF InHand
  <2> QED
    BY <2>1, <2>2, InitHeldOnce DEF Calls!Init
<1>2. TypeInv /\ HeldOnce /\ [Next]_vars => TypeInv' /\ HeldOnce' /\ [Calls!Next]_(Calls!vars)
  BY NextTypeInv, NextHeldOnce, CallsStep
<1> QED
  BY <1>1, <1>2, PTL DEF Spec, ImplementsCalls, Calls!Spec
-----------------------------------------------------------------------------
(* What a line tells of the lock and of the door. *)
Fields == {"locked", "shut"}

Tells(line, f) ==
  \/ line.kind = "Status:"
  \/ f = "locked" /\ line.kind = "State:" /\ line.says \in {"opened", "closed"}
  \/ f = "shut" /\ line.kind = "Info(ajar):"

Told(line, f) ==
  IF line.kind = "Status:" THEN line.says[f]
  ELSE IF f = "locked" THEN line.says = "closed" ELSE line.says = "shut"

(* The last line of a queue that tells of the field tells v, or none tells.*)
TellsLast(s, f, v) ==
  \E i \in DOMAIN s :
    /\ Tells(s[i], f) /\ Told(s[i], f) = v
    /\ \A j \in DOMAIN s : j > i => ~Tells(s[j], f)

Silent(s, f) == \A i \in DOMAIN s : ~Tells(s[i], f)

LineInHand == main.at \in {"work around", "publish line"}
HandTells(f) == LineInHand /\ Tells(main.line, f)

(* The firmware has been asked for its status since the gobbler stopped,   *)
(* or will be.                                                             *)
StatusDue ==
  \/ gobbler \in {"gobbling", "triggering"} \/ trigger > 0
  \/ main.at = "write" /\ main.caller = Nobody
  \/ \E i \in DOMAIN serial_wr : serial_wr[i] = "s"

(* Read from the firmware to the broker, the first that tells of the field *)
(* tells what the firmware knows; if nothing tells, the broker retains it, *)
(* or a Status: line is still to come.                                     *)
Arrives(f) ==
  \/ TellsLast(serial_rd, f, door[f])
  \/ Silent(serial_rd, f) /\ HandTells(f) /\ Told(main.line, f) = door[f]
  \/ /\ Silent(serial_rd, f) /\ ~HandTells(f)
     /\ \/ TellsLast(publish_chan, f, door[f])
        \/ Silent(publish_chan, f) /\ (StatusDue \/ retained[f] = door[f])

BoardInv == ~missed => \A f \in Fields : Arrives(f)

LEMMA AppendTells ==
  ASSUME NEW S, NEW s \in Seq(S), NEW e \in S, NEW f, NEW v
  PROVE  /\ Tells(e, f) /\ Told(e, f) = v => TellsLast(Append(s, e), f, v)
         /\ ~Tells(e, f) /\ TellsLast(s, f, v) => TellsLast(Append(s, e), f, v)
         /\ ~Tells(e, f) /\ Silent(s, f) => Silent(Append(s, e), f)
<1>1. /\ DOMAIN s = 1 .. Len(s) /\ Len(s) \in Nat
      /\ DOMAIN Append(s, e) = 1 .. Len(s) + 1
      /\ \A i \in 1 .. Len(s) : Append(s, e)[i] = s[i]
      /\ Append(s, e)[Len(s) + 1] = e
  BY AppendProperties
<1> DEFINE t == Append(s, e)
<1> HIDE DEF t
<1>2. ASSUME Tells(e, f), Told(e, f) = v PROVE TellsLast(t, f, v)
  <2>1. Len(s) + 1 \in DOMAIN t /\ t[Len(s) + 1] = e
    BY <1>1 DEF t
  <2>2. \A j \in DOMAIN t : ~(j > Len(s) + 1)
    BY <1>1 DEF t
  <2> QED
    BY <1>2, <2>1, <2>2 DEF TellsLast
<1>3. ASSUME ~Tells(e, f), TellsLast(s, f, v) PROVE TellsLast(t, f, v)
  <2>1. PICK i \in DOMAIN s : /\ Tells(s[i], f) /\ Told(s[i], f) = v
                              /\ \A j \in DOMAIN s : j > i => ~Tells(s[j], f)
    BY <1>3 DEF TellsLast
  <2>2. i \in DOMAIN t /\ t[i] = s[i]
    BY <1>1, <2>1 DEF t
  <2>3. ASSUME NEW j \in DOMAIN t, j > i PROVE ~Tells(t[j], f)
    <3>1. j = Len(s) + 1 \/ j \in DOMAIN s
      BY <1>1 DEF t
    <3> QED
      BY <1>1, <1>3, <2>1, <2>3, <3>1 DEF t
  <2> QED
    BY <2>1, <2>2, <2>3 DEF TellsLast
<1>4. ASSUME ~Tells(e, f), Silent(s, f) PROVE Silent(t, f)
  <2>1. ASSUME NEW j \in DOMAIN t PROVE ~Tells(t[j], f)
    <3>1. j = Len(s) + 1 \/ j \in DOMAIN s
      BY <1>1 DEF t
    <3> QED
      BY <1>1, <1>4, <3>1 DEF t, Silent
  <2> QED
    BY <2>1 DEF Silent
<1> QED
  BY <1>2, <1>3, <1>4 DEF t

LEMMA TailTells ==
  ASSUME NEW S, NEW s \in Seq(S), s # <<>>, NEW f, NEW v
  PROVE  /\ TellsLast(s, f, v) =>
              \/ TellsLast(Tail(s), f, v)
              \/ Silent(Tail(s), f) /\ Tells(Head(s), f) /\ Told(Head(s), f) = v
         /\ Silent(s, f) => Silent(Tail(s), f) /\ ~Tells(Head(s), f)
<1>1. /\ DOMAIN s = 1 .. Len(s) /\ Len(s) \in Nat \ {0} /\ Head(s) = s[1]
      /\ DOMAIN Tail(s) = 1 .. Len(s) - 1
      /\ \A i \in 1 .. Len(s) - 1 : Tail(s)[i] = s[i + 1]
  BY HeadTailProperties
<1> DEFINE t == Tail(s)
<1> HIDE DEF t
<1>2. ASSUME TellsLast(s, f, v), ~TellsLast(t, f, v)
      PROVE  Silent(t, f) /\ Tells(Head(s), f) /\ Told(Head(s), f) = v
  <2>1. PICK i \in DOMAIN s : /\ Tells(s[i], f) /\ Told(s[i], f) = v
                              /\ \A j \in DOMAIN s : j > i => ~Tells(s[j], f)
    BY <1>2 DEF TellsLast
  <2>2. CASE i = 1
    <3>1. ASSUME NEW j \in DOMAIN t PROVE ~Tells(t[j], f)
      <4>1. j + 1 \in DOMAIN s /\ j + 1 > 1 /\ t[j] = s[j + 1]
        BY <1>1 DEF t
      <4> QED
        BY <2>1, <2>2, <4>1
    <3> QED
      BY <1>1, <2>1, <2>2, <3>1 DEF Silent
  <2>3. CASE i # 1
    <3>1. i - 1 \in DOMAIN t /\ t[i - 1] = s[i]
      BY <1>1, <2>3 DEF t
    <3>2. ASSUME NEW j \in DOMAIN t, j > i - 1 PROVE ~Tells(t[j], f)
      <4>1. j + 1 \in DOMAIN s /\ j + 1 > i /\ t[j] = s[j + 1]
        BY <1>1, <3>2 DEF t
      <4> QED
        BY <2>1, <4>1
    <3> QED
      BY <1>2, <2>1, <3>1, <3>2 DEF TellsLast
  <2> QED
    BY <2>2, <2>3
<1>3. ASSUME Silent(s, f) PROVE Silent(t, f) /\ ~Tells(Head(s), f)
  <2>1. ASSUME NEW j \in DOMAIN t PROVE ~Tells(t[j], f)
    <3>1. j + 1 \in DOMAIN s /\ t[j] = s[j + 1]
      BY <1>1 DEF t
    <3> QED
      BY <1>3, <3>1 DEF Silent
  <2>2. 1 \in DOMAIN s
    BY <1>1
  <2> QED
    BY <1>1, <1>3, <2>1, <2>2 DEF Silent
<1> QED
  BY <1>2, <1>3 DEF t

LEMMA EmptyTells == \A f, v : ~TellsLast(<<>>, f, v) /\ Silent(<<>>, f)
BY DEF TellsLast, Silent

LEMMA InitBoardInv == Init => BoardInv
BY EmptyTells DEF Init, BoardInv, Arrives, HandTells, LineInHand, StatusDue, Select

(* Lines, retained messages and the door rest. *)
LEMMA BoardRests ==
  ASSUME BoardInv, UNCHANGED <<serial_rd, publish_chan, retained, door, missed>>,
         LineInHand' <=> LineInHand, LineInHand => main'.line = main.line,
         StatusDue => StatusDue'
  PROVE  BoardInv'
BY DEF BoardInv, Arrives, HandTells, TellsLast, Silent, Tells, Told

(* The firmware says a line that tells the truth, and what it does not     *)
(* tell has not changed; only a Status: line is an answer.                 *)
LEMMA SayBoard ==
  ASSUME TypeOK, BoardInv, NEW line, Say(line),
         \A f \in Fields : IF Tells(line, f) THEN Told(line, f) = door'[f]
                                             ELSE door'[f] = door[f],
         UNCHANGED <<main, publish_chan, retained>>,
         line.kind = "Status:" \/ (StatusDue => StatusDue')
  PROVE  BoardInv'
<1>1. line \in Lines /\ serial_rd \in Seq(Lines)
  BY DaemonAssumption DEF Say, TypeOK
<1> SUFFICES ASSUME ~missed', NEW f \in Fields PROVE Arrives(f)'
  BY DEF BoardInv
<1>2. serial_rd' = Append(serial_rd, line) /\ (missed => line.kind = "Status:")
  BY DEF Say, TypeOK
<1>3. CASE Tells(line, f)
  <2>1. TellsLast(Append(serial_rd, line), f, door'[f])
    BY <1>1, <1>3, AppendTells
  <2> QED
    BY <1>2, <2>1 DEF Arrives, TellsLast
<1>4. CASE ~Tells(line, f)
  <2>1. line.kind # "Status:"
    BY <1>4 DEF Tells
  <2>2. Arrives(f) /\ (StatusDue => StatusDue') /\ door'[f] = door[f]
    BY <1>2, <1>4, <2>1 DEF BoardInv
  <2>3. /\ TellsLast(serial_rd, f, door[f]) => TellsLast(serial_rd', f, door'[f])
        /\ Silent(serial_rd, f) => Silent(serial_rd', f)
    BY <1>1, <1>2, <1>4, <2>2, AppendTells
  <2>4. HandTells(f)' = HandTells(f) /\ Told(main'.line, f) = Told(main.line, f)
    BY DEF HandTells, LineInHand, Tells, Told
  <2>5. /\ TellsLast(publish_chan', f, door'[f]) <=> TellsLast(publish_chan, f, door[f])
        /\ Silent(publish_chan', f) <=> Silent(publish_chan, f)
    BY <2>2
  <2> QED
    BY <2>2, <2>3, <2>4, <2>5 DEF Arrives
<1> QED
  BY <1>3, <1>4

LEMMA TurnLockBoard ==
  ASSUME TypeOK, BoardInv, NEW locked \in BOOLEAN, TurnLock(locked),
         UNCHANGED <<main, publish_chan, retained>>, StatusDue => StatusDue'
  PROVE  BoardInv'
<1>1. door \in Status
  BY DEF TypeOK
<1>2. CASE /\ door' = [door EXCEPT !.locked = locked]
           /\ SayState(IF locked THEN "closed" ELSE "opened")
  <2> DEFINE line == [kind |-> "State:", says |-> IF locked THEN "closed" ELSE "opened"]
  <2>1. Say(line)
    BY <1>2 DEF SayState
  <2>2. door'["locked"] = locked /\ door'["shut"] = door["shut"]
    BY <1>1, <1>2 DEF Status
  <2>3. \A f \in Fields : IF Tells(line, f) THEN Told(line, f) = door'[f] ELSE door'[f] = door[f]
    BY <2>2 DEF Fields, Tells, Told
  <2> HIDE DEF line
  <2> QED
    BY <2>1, <2>3, SayBoard
<1>3. CASE /\ SayState(IF locked THEN "timeout_after_close" ELSE "timeout_after_open")
           /\ UNCHANGED door
  <2> DEFINE line == [kind |-> "State:",
                      says |-> IF locked THEN "timeout_after_close" ELSE "timeout_after_open"]
  <2>1. Say(line)
    BY <1>3 DEF SayState
  <2>2. \A f \in Fields : ~Tells(line, f)
    BY DEF Tells
  <2> HIDE DEF line
  <2> QED
    BY <1>3, <2>1, <2>2, SayBoard
<1> QED
  BY <1>2, <1>3 DEF TurnLock

(* A character other than "s" leaves serial_wr with every "s" in it. *)
LEMMA WriterKeepsDue ==
  ASSUME TypeOK, serial_wr # <<>>, Head(serial_wr) # "s", serial_wr' = Tail(serial_wr),
         UNCHANGED <<main, trigger, gobbler>>, StatusDue
  PROVE  StatusDue'
<1>1. /\ DOMAIN serial_wr = 1 .. Len(serial_wr) /\ Len(serial_wr) \in Nat \ {0}
      /\ Head(serial_wr) = serial_wr[1] /\ DOMAIN serial_wr' = 1 .. Len(serial_wr) - 1
      /\ \A i \in 1 .. Len(serial_wr) - 1 : serial_wr'[i] = serial_wr[i + 1]
  BY HeadTailProperties DEF TypeOK
<1>2. ASSUME NEW i \in DOMAIN serial_wr, serial_wr[i] = "s"
      PROVE  \E j \in DOMAIN serial_wr' : serial_wr'[j] = "s"
  <2>1. i # 1
    BY <1>1, <1>2
  <2>2. i - 1 \in DOMAIN serial_wr' /\ serial_wr'[i - 1] = serial_wr[i]
    BY <1>1, <2>1
  <2> QED
    BY <1>2, <2>2
<1> QED
  BY <1>2 DEF StatusDue

(* A character is added to those in serial_wr. *)
LEMMA SendKeepsDue ==
  ASSUME TypeOK, NEW c \in Chars, serial_wr' = Append(serial_wr, c)
  PROVE  /\ \A i \in DOMAIN serial_wr : i \in DOMAIN serial_wr' /\ serial_wr'[i] = serial_wr[i]
         /\ \E i \in DOMAIN serial_wr' : serial_wr'[i] = c
<1>1. serial_wr \in Seq(Chars)
  BY DEF TypeOK
<1>2. /\ DOMAIN serial_wr = 1 .. Len(serial_wr) /\ Len(serial_wr) \in Nat
      /\ DOMAIN serial_wr' = 1 .. Len(serial_wr) + 1
      /\ \A i \in 1 .. Len(serial_wr) : serial_wr'[i] = serial_wr[i]
      /\ serial_wr'[Len(serial_wr) + 1] = c
  BY <1>1, AppendProperties
<1>3. Len(serial_wr) + 1 \in DOMAIN serial_wr'
  BY <1>2
<1>4. \A i \in DOMAIN serial_wr : i \in DOMAIN serial_wr'
  BY <1>2
<1> QED
  BY <1>2, <1>3, <1>4

LEMMA WriterBoard == TypeOK /\ BoardInv /\ SerialWriter => BoardInv'
<1> SUFFICES ASSUME TypeOK, BoardInv, SerialWriter PROVE BoardInv'
  OBVIOUS
<1>1. /\ serial_wr # <<>> /\ serial_wr' = Tail(serial_wr)
      /\ UNCHANGED <<main, trigger, publish_chan, gobbler, retained>>
  BY DEF SerialWriter, brokerVars
<1>2. CASE SayStatus
  <2> DEFINE line == [kind |-> "Status:", says |-> door]
  <2>1. Say(line) /\ UNCHANGED door
    BY <1>2 DEF SayStatus
  <2>2. \A f \in Fields : Tells(line, f) /\ Told(line, f) = door[f]
    BY DEF Tells, Told
  <2>3. line.kind = "Status:"
    OBVIOUS
  <2> HIDE DEF line
  <2> QED
    BY <1>1, <2>1, <2>2, <2>3, SayBoard
<1>3. ASSUME NEW locked \in BOOLEAN, Head(serial_wr) # "s", TurnLock(locked)
      PROVE  BoardInv'
  <2>1. StatusDue => StatusDue'
    BY <1>1, <1>3, WriterKeepsDue
  <2> QED
    BY <1>1, <1>3, <2>1, TurnLockBoard
<1>4. CASE Silence
  BY <1>4 DEF Silence, BoardInv
<1>5. (~door.locked) \in BOOLEAN
  BY Zenon
<1> QED
  BY <1>2, <1>3, <1>4, <1>5 DEF SerialWriter

LEMMA SpeaksBoard == TypeOK /\ BoardInv /\ FirmwareSpeaks => BoardInv'
<1> SUFFICES ASSUME TypeOK, BoardInv, FirmwareSpeaks PROVE BoardInv'
  OBVIOUS
<1>1. UNCHANGED <<main, trigger, serial_wr, publish_chan, gobbler, retained>>
  BY DEF FirmwareSpeaks, brokerVars
<1>2. StatusDue => StatusDue'
  BY <1>1 DEF StatusDue
<1>3. CASE TurnLock(~door.locked)
  <2>1. (~door.locked) \in BOOLEAN
    BY Zenon
  <2> QED
    BY <1>1, <1>2, <1>3, <2>1, TurnLockBoard
<1>4. CASE SayState("other") /\ UNCHANGED door
  <2> DEFINE line == [kind |-> "State:", says |-> "other"]
  <2>1. Say(line)
    BY <1>4 DEF SayState
  <2>2. \A f \in Fields : ~Tells(line, f)
    BY DEF Tells
  <2> HIDE DEF line
  <2> QED
    BY <1>1, <1>2, <1>4, <2>1, <2>2, SayBoard
<1>5. CASE SayAjar(~door.shut) /\ door' = [door EXCEPT !.shut = ~@]
  <2> DEFINE line == [kind |-> "Info(ajar):", says |-> IF ~door.shut THEN "shut" ELSE "ajar"]
  <2>1. Say(line)
    BY <1>5 DEF SayAjar
  <2>2. door'["shut"] = ~door.shut /\ door'["locked"] = door["locked"]
    BY <1>5 DEF TypeOK, Status
  <2>3. Told(line, "shut") = ~door.shut
    BY DEF Told
  <2>4. \A f \in Fields : IF Tells(line, f) THEN Told(line, f) = door'[f] ELSE door'[f] = door[f]
    BY <2>2, <2>3 DEF Fields, Tells
  <2> HIDE DEF line
  <2> QED
    BY <1>1, <1>2, <2>1, <2>4, SayBoard
<1> QED
  BY <1>3, <1>4, <1>5 DEF FirmwareSpeaks

LEMMA ReceiveBoard == TypeOK /\ BoardInv /\ ReceiveLine => BoardInv'
<1> SUFFICES ASSUME TypeOK, BoardInv, ReceiveLine, ~missed', NEW f \in Fields
             PROVE  Arrives(f)'
  BY DEF BoardInv
<1>1. /\ serial_rd # <<>> /\ serial_rd' = Tail(serial_rd) /\ serial_rd \in Seq(Lines)
      /\ main.at = "select" /\ main'.at = "work around" /\ main'.line = Head(serial_rd)
      /\ UNCHANGED <<trigger, serial_wr, publish_chan, gobbler, retained, door, missed>>
  BY DEF ReceiveLine, brokerVars, firmwareVars, TypeOK
<1>2. Arrives(f) /\ ~HandTells(f) /\ (StatusDue => StatusDue')
  BY <1>1 DEF BoardInv, HandTells, LineInHand, StatusDue
<1>3. HandTells(f)' <=> Tells(Head(serial_rd), f)
  BY <1>1 DEF HandTells, LineInHand, Tells
<1>4. /\ TellsLast(serial_rd, f, door[f]) =>
           \/ TellsLast(serial_rd', f, door[f])
           \/ /\ Silent(serial_rd', f) /\ Tells(Head(serial_rd), f)
              /\ Told(Head(serial_rd), f) = door[f]
      /\ Silent(serial_rd, f) => Silent(serial_rd', f) /\ ~Tells(Head(serial_rd), f)
  BY <1>1, TailTells
<1>5. Told(main'.line, f) = Told(Head(serial_rd), f)
  BY <1>1
<1>6. /\ TellsLast(publish_chan, f, door[f]) <=> TellsLast(publish_chan', f, door'[f])
      /\ TellsLast(serial_rd', f, door'[f]) <=> TellsLast(serial_rd', f, door[f])
      /\ Silent(publish_chan, f) <=> Silent(publish_chan', f)
  BY <1>1
<1> QED
  BY <1>1, <1>2, <1>3, <1>4, <1>5, <1>6 DEF Arrives

LEMMA PublishLineBoard == TypeInv /\ BoardInv /\ PublishLine => BoardInv'
<1> SUFFICES ASSUME TypeInv, BoardInv, PublishLine, ~missed', NEW f \in Fields
             PROVE  Arrives(f)'
  BY DEF BoardInv
<1>1. /\ publish_chan' = Append(publish_chan, main.line) /\ main.at = "publish line"
      /\ main' = Select
      /\ UNCHANGED <<trigger, serial_wr, serial_rd, gobbler, retained, door, missed>>
  BY DEF PublishLine, brokerVars, firmwareVars
<1>2. main.line \in Lines \cup {Command} /\ publish_chan \in Seq(Lines \cup {Command})
  BY <1>1 DEF TypeInv, TypeOK, HandOK
<1>3. Arrives(f) /\ (StatusDue => StatusDue') /\ ~HandTells(f)'
      /\ (HandTells(f) <=> Tells(main.line, f))
  BY <1>1 DEF BoardInv, HandTells, LineInHand, StatusDue, Select
<1>4. /\ Tells(main.line, f) /\ Told(main.line, f) = door[f] => TellsLast(publish_chan', f, door[f])
      /\ ~Tells(main.line, f) /\ TellsLast(publish_chan, f, door[f])
           => TellsLast(publish_chan', f, door[f])
      /\ ~Tells(main.line, f) /\ Silent(publish_chan, f) => Silent(publish_chan', f)
  BY <1>1, <1>2, AppendTells
<1>5. /\ TellsLast(serial_rd, f, door[f]) <=> TellsLast(serial_rd', f, door'[f])
      /\ TellsLast(publish_chan', f, door'[f]) <=> TellsLast(publish_chan', f, door[f])
      /\ Silent(serial_rd, f) <=> Silent(serial_rd', f)
  BY <1>1
<1> QED
  BY <1>1, <1>3, <1>4, <1>5 DEF Arrives

LEMMA PublishCommandBoard == TypeOK /\ BoardInv /\ PublishCommand => BoardInv'
<1> SUFFICES ASSUME TypeOK, BoardInv, PublishCommand, ~missed', NEW f \in Fields
             PROVE  Arrives(f)'
  BY DEF BoardInv
<1>1. /\ publish_chan' = Append(publish_chan, Command) /\ main.at = "publish command"
      /\ main' = Select /\ publish_chan \in Seq(Lines \cup {Command})
      /\ UNCHANGED <<trigger, serial_wr, serial_rd, gobbler, retained, door, missed>>
  BY DEF PublishCommand, brokerVars, firmwareVars, TypeOK
<1>2. ~Tells(Command, f)
  BY DEF Tells, Command
<1>3. Arrives(f) /\ (StatusDue => StatusDue') /\ ~HandTells(f)' /\ ~HandTells(f)
  BY <1>1 DEF BoardInv, HandTells, LineInHand, StatusDue, Select
<1>4. /\ TellsLast(publish_chan, f, door[f]) => TellsLast(publish_chan', f, door[f])
      /\ Silent(publish_chan, f) => Silent(publish_chan', f)
  BY <1>1, <1>2, AppendTells
<1>5. /\ TellsLast(serial_rd, f, door[f]) <=> TellsLast(serial_rd', f, door'[f])
      /\ TellsLast(publish_chan', f, door'[f]) <=> TellsLast(publish_chan', f, door[f])
      /\ Silent(serial_rd, f) <=> Silent(serial_rd', f)
  BY <1>1
<1> QED
  BY <1>1, <1>3, <1>4, <1>5 DEF Arrives

(* The first line of publish_chan goes: the broker retains what it tells,  *)
(* or the gobbler discards it and a Status: line is due.                   *)
LEMMA TakenBoard ==
  ASSUME TypeOK, BoardInv, publish_chan # <<>>, publish_chan' = Tail(publish_chan),
         UNCHANGED <<main, trigger, serial_wr, serial_rd, gobbler, door, missed>>,
         \/ retained' = RetainedAfter(Head(publish_chan))
         \/ gobbler = "gobbling" /\ UNCHANGED retained
  PROVE  BoardInv'
<1> SUFFICES ASSUME ~missed', NEW f \in Fields PROVE Arrives(f)'
  BY DEF BoardInv
<1>1. Arrives(f) /\ (StatusDue <=> StatusDue') /\ (HandTells(f) <=> HandTells(f)')
  BY DEF BoardInv, HandTells, LineInHand, StatusDue
<1>2. publish_chan \in Seq(Lines \cup {Command})
  BY DEF TypeOK
<1>3. /\ TellsLast(publish_chan, f, door[f]) =>
           \/ TellsLast(publish_chan', f, door[f])
           \/ /\ Silent(publish_chan', f) /\ Tells(Head(publish_chan), f)
              /\ Told(Head(publish_chan), f) = door[f]
      /\ Silent(publish_chan, f) => Silent(publish_chan', f) /\ ~Tells(Head(publish_chan), f)
  BY <1>2, TailTells
<1>4. \/ StatusDue
      \/ retained'[f] = IF Tells(Head(publish_chan), f) THEN Told(Head(publish_chan), f)
                                                        ELSE retained[f]
  <2>1. CASE gobbler = "gobbling"
    BY <2>1 DEF StatusDue
  <2>2. CASE retained' = RetainedAfter(Head(publish_chan))
    BY <2>2 DEF RetainedAfter, Tells, Told, Fields, TypeOK
  <2> QED
    BY <2>1, <2>2
<1>5. /\ TellsLast(serial_rd, f, door[f]) <=> TellsLast(serial_rd', f, door'[f])
      /\ TellsLast(publish_chan', f, door'[f]) <=> TellsLast(publish_chan', f, door[f])
      /\ Silent(serial_rd, f) <=> Silent(serial_rd', f)
      /\ Told(main'.line, f) = Told(main.line, f)
  OBVIOUS
<1> QED
  BY <1>1, <1>3, <1>4, <1>5 DEF Arrives

LEMMA NextBoardInv == TypeInv /\ BoardInv /\ [Next]_vars => BoardInv'
<1> SUFFICES ASSUME TypeInv, BoardInv, [Next]_vars PROVE BoardInv'
  OBVIOUS
<1>0. TypeOK
  BY DEF TypeInv
<1> USE DEF clientVars, brokerVars, firmwareVars
<1>1. CASE UNCHANGED <<serial_rd, publish_chan, retained, door, missed, main, trigger, gobbler,
                       serial_wr>>
  BY <1>1, BoardRests DEF LineInHand, StatusDue
<1>2. CASE TimeoutReached \/ (\E c \in Callers, cmd \in Commands : SendCmd(c, cmd))
             \/ (\E running \in {"even", "odd"} : Expire(running)) \/ Connect
             \/ (\E longAgo, recent \in BOOLEAN : WorkaroundTakes(longAgo, recent))
             \/ UNCHANGED vars
  BY <1>1, <1>2 DEF TimeoutReached, SendCmd, Expire, Connect, WorkaroundTakes, vars
<1>3. CASE TakeTrigger
  <2>1. StatusDue' /\ ~LineInHand /\ ~LineInHand'
    BY <1>3 DEF TakeTrigger, StatusDue, LineInHand, Select
  <2> QED
    BY <1>3, <2>1, BoardRests DEF TakeTrigger
<1>4. CASE TakeCommand
  <2>1. ~LineInHand /\ ~LineInHand'
    BY <1>4 DEF TakeCommand, LineInHand, Select
  <2>2. main.at = "select" /\ UNCHANGED <<trigger, gobbler, serial_wr>>
    BY <1>4 DEF TakeCommand
  <2>3. StatusDue => StatusDue'
    BY <2>2 DEF StatusDue
  <2> QED
    BY <1>4, <2>1, <2>3, BoardRests DEF TakeCommand
<1>5. CASE WriteCommand
  <2>1. ~LineInHand /\ ~LineInHand'
    <3>1. main \in MainStates
      BY <1>0 DEF TypeOK
    <3>2. \/ main' = Select
          \/ main' = [main EXCEPT !.at = "publish command"]
      BY <1>5 DEF WriteCommand
    <3>3. main'.at \in {"select", "publish command"}
      <4>1. CASE main' = Select
        BY <4>1 DEF Select
      <4>2. CASE main' = [main EXCEPT !.at = "publish command"]
        <5>1. main'.at = "publish command"
          BY <3>1, <4>2 DEF MainStates
        <5> QED
          BY <5>1
      <4> QED
        BY <3>2, <4>1, <4>2
    <3> QED
      BY <1>5, <3>3 DEF WriteCommand, LineInHand
  <2>2. PICK c \in Chars : /\ serial_wr' = Append(serial_wr, c)
                           /\ main.caller = Nobody => c = "s"
    <3>1. CASE main.caller = Nobody
      BY <1>5, <3>1, Characters DEF WriteCommand, FirmwareChar
    <3>2. CASE main.caller # Nobody
      BY <1>5, <3>2, Characters DEF WriteCommand, TypeInv, HandOK
    <3> QED
      BY <3>1, <3>2
  <2>3. UNCHANGED <<trigger, gobbler>>
    BY <1>5 DEF WriteCommand
  <2>4. StatusDue => StatusDue'
    BY <1>0, <2>2, <2>3, SendKeepsDue DEF StatusDue
  <2> QED
    BY <1>5, <2>1, <2>4, BoardRests DEF WriteCommand
<1>6. CASE WorkAroundLine
  <2>1. main'.line = main.line /\ main'.at = "publish line" /\ main.at = "work around"
    BY <1>0, <1>6 DEF WorkAroundLine, TypeOK, MainStates
  <2>2. StatusDue => StatusDue'
    BY <1>6, <2>1 DEF WorkAroundLine, StatusDue
  <2> QED
    BY <1>6, <2>1, <2>2, BoardRests DEF WorkAroundLine, LineInHand
<1>7. CASE WorkaroundSends
  <2>1. FirmwareChar.open \in Chars /\ serial_wr' = Append(serial_wr, FirmwareChar.open)
    BY <1>7, Characters DEF WorkaroundSends
  <2>2. UNCHANGED <<main, trigger, gobbler>>
    BY <1>7 DEF WorkaroundSends
  <2>3. StatusDue => StatusDue'
    BY <1>0, <2>1, <2>2, SendKeepsDue DEF StatusDue
  <2> QED
    BY <1>7, <2>2, <2>3, BoardRests DEF WorkaroundSends, LineInHand
<1>8. CASE GobblerStops \/ GobblerTriggers \/ StatusRequested
  <2>1. UNCHANGED <<main, serial_wr, serial_rd, publish_chan, retained, door, missed>>
    BY <1>8 DEF GobblerStops, GobblerTriggers, StatusRequested, AddTrigger
  <2>2. StatusDue => StatusDue'
    <3>1. CASE GobblerStops
      BY <3>1 DEF GobblerStops, StatusDue
    <3>2. CASE GobblerTriggers \/ StatusRequested
      <4>1. trigger' > 0
        BY <1>0, <3>2 DEF GobblerTriggers, StatusRequested, AddTrigger, TypeOK
      <4> QED
        BY <4>1 DEF StatusDue
    <3> QED
      BY <1>8, <3>1, <3>2
  <2> QED
    BY <2>1, <2>2, BoardRests DEF LineInHand
<1>9. CASE GobblerDiscards \/ Publish
  BY <1>0, <1>9, TakenBoard DEF GobblerDiscards, Publish
<1>10. CASE Restart
  BY <1>10 DEF Restart, BoardInv
<1> QED
  BY <1>0, <1>2, <1>3, <1>4, <1>5, <1>6, <1>7, <1>8, <1>9, <1>10, ReceiveBoard,
     PublishLineBoard, PublishCommandBoard, WriterBoard, SpeaksBoard
     DEF Next, Main, Workaround, Mqtt, World

(* Whatever is discarded, reordered or started again, the broker retains   *)
(* what the firmware knows when all is quiet and no line was lost since    *)
(* the last Status: line.                                                  *)
THEOREM BoardAlwaysShowsDoor == Spec => []BoardShowsDoor
<1>1. TypeInv /\ BoardInv => BoardShowsDoor
  <2> SUFFICES ASSUME TypeOK, BoardInv, AllQuiet, ~missed PROVE retained = door
    BY DEF TypeInv, BoardShowsDoor
  <2>1. ~StatusDue /\ ~LineInHand
    <3>1. serial_wr = <<>> /\ trigger = 0 /\ gobbler = "gone" /\ main.at = "select"
      BY DEF AllQuiet, Select
    <3> QED
      BY <3>1 DEF StatusDue, LineInHand
  <2>2. ASSUME NEW f \in Fields PROVE retained[f] = door[f]
    <3>1. Arrives(f)
      BY DEF BoardInv
    <3>2. ~TellsLast(serial_rd, f, door[f]) /\ ~TellsLast(publish_chan, f, door[f])
      BY EmptyTells DEF AllQuiet
    <3> QED
      BY <2>1, <3>1, <3>2 DEF Arrives, HandTells
  <2>3. retained["locked"] = door["locked"] /\ retained["shut"] = door["shut"]
    BY <2>2 DEF Fields
  <2> QED
    BY <2>3 DEF TypeOK, Status
<1>2. Init => TypeInv /\ BoardInv
  BY InitTypeInv, InitBoardInv
<1>3. TypeInv /\ BoardInv /\ [Next]_vars => TypeInv' /\ BoardInv'
  BY NextTypeInv, NextBoardInv
<1> QED
  BY <1>1, <1>2, <1>3, PTL DEF Spec
=============================================================================
