---------------------------- MODULE BackdoorNode ----------------------------
(***************************************************************************)
(* backdoorcx_sensor_node: lines of the sensor board at the back door      *)
(* become messages, requests for the status become characters for it.      *)
(*                                                                         *)
(*   tty -> serialReader --serial_rd--> ConnectSerialToMQTT --> broker     *)
(*   broker --trigger--> ConnectSerialToMQTT --serial_wr--> serialWriter   *)
(*                                                                         *)
(* main opens the device again whenever ConnectSerialToMQTT returns.  The  *)
(* client library (external) hands over what the broker sends in its       *)
(* order, and waits for a callback: an answer to a message of the node can *)
(* be behind a request whose callback waits for room in the channel.  A    *)
(* lost connection delays answers.  Requests and lines come at any moment; *)
(* the 120 second timer only logs.                                         *)
(***************************************************************************)
EXTENDS Integers, Sequences

CONSTANTS
  LinesCap,         \* lines serial_rd holds (20)
  TriggerCap,       \* requests the channel holds (10)
  InboundCap,       \* bound: requests on their way from the broker
  MaxBackoff        \* the largest exponent (12)

ASSUME NodeAssumption ==
  /\ LinesCap \in Nat \ {0} /\ TriggerCap \in Nat \ {0}
  /\ InboundCap \in Nat /\ MaxBackoff \in Nat

(* A temperature, or a line nobody knows; ajar or unlocked; gas; a line    *)
(* without the argument it should have.                                    *)
BoardSays == {"value", "door", "gas", "short"}

VARIABLES
  node,             \* where ConnectSerialToMQTT stands, or main between two calls
  port,             \* the device: "none", "open" or "gone"
  serial_rd, serial_wr,
  triggers,         \* trigger_request_current_status: the number in it
  inbound,          \* external: what the broker has sent
  backoff_exp,
  notified          \* an SMS was sent less than gasleak_min_interval ago, as
                    \* gasleak_last_time has it

nodeVars == <<node, port, serial_rd, serial_wr, triggers, inbound, backoff_exp, notified>>

boardVars == <<port, serial_rd, serial_wr>>

NodeTypeOK ==
  /\ node \in {"open", "select", "publish", "write", "sleep"}
  /\ port \in {"none", "open", "gone"}
  /\ serial_rd \in Seq(BoardSays) /\ Len(serial_rd) <= LinesCap
  /\ serial_wr \in 0 .. 1
  /\ triggers \in 0 .. TriggerCap
  /\ inbound \in Seq({"request", "answer"})
  /\ backoff_exp \in 0 .. MaxBackoff
  /\ notified \in BOOLEAN

NodeInit ==
  /\ node = "open" /\ port = "none"
  /\ serial_rd = <<>> /\ serial_wr = 0
  /\ triggers = 0 /\ inbound = <<>> /\ backoff_exp = 0
  /\ notified = FALSE
-----------------------------------------------------------------------------
(* ConnectSerialToMQTT and main's loop *)

(* Every opening starts with an SMS allowed. *)
OpensDevice ==
  /\ node = "open"
  /\ node' = "select" /\ port' = "open"
  /\ serial_rd' = <<>> /\ serial_wr' = 0
  /\ notified' = FALSE
  /\ UNCHANGED <<triggers, inbound, backoff_exp>>

(* It returns, or panics and recovers; the writer closes the device. *)
Returns ==
  /\ node' = "sleep" /\ port' = "none"
  /\ serial_rd' = <<>> /\ serial_wr' = 0

CannotOpen ==
  /\ node = "open"
  /\ Returns
  /\ UNCHANGED <<triggers, inbound, backoff_exp, notified>>

(* All but temperatures are published with a handshake, which is waited    *)
(* for; without an argument there is an index out of range.  Gas is told   *)
(* in an SMS, at most one an interval.                                     *)
TakeLine ==
  /\ node = "select" /\ serial_rd # <<>>
  /\ LET line == Head(serial_rd)
     IN  IF line = "short"
         THEN Returns /\ UNCHANGED notified
         ELSE /\ serial_rd' = Tail(serial_rd)
              /\ node' = IF line = "value" THEN "select" ELSE "publish"
              /\ notified' = (notified \/ line = "gas")
              /\ UNCHANGED <<port, serial_wr>>
  /\ UNCHANGED <<triggers, inbound, backoff_exp>>

(* Mutant: that the channel is closed is not looked at. *)
DeviceGoneIgnored ==
  /\ node = "select" /\ serial_rd = <<>> /\ port = "gone"
  /\ UNCHANGED nodeVars

(* serialReader has closed the channel, and it is empty. *)
DeviceGone ==
  /\ node = "select" /\ serial_rd = <<>> /\ port = "gone"
  /\ Returns
  /\ UNCHANGED <<triggers, inbound, backoff_exp, notified>>

TakeTrigger ==
  /\ node = "select" /\ triggers > 0
  /\ triggers' = triggers - 1
  /\ node' = "write"
  /\ UNCHANGED <<boardVars, inbound, backoff_exp, notified>>

AsksBoard ==
  /\ node = "write" /\ serial_wr = 0
  /\ serial_wr' = 1
  /\ node' = "select"
  /\ UNCHANGED <<port, serial_rd, triggers, inbound, backoff_exp, notified>>

(* 150 ms times two to the backoff_exp, which a run of more than four      *)
(* seconds had set to 0.                                                   *)
BacksOff ==
  /\ node = "sleep"
  /\ node' = "open"
  /\ \E exp \in {0, backoff_exp} :
       backoff_exp' = IF exp < MaxBackoff THEN exp + 1 ELSE exp
  /\ UNCHANGED <<boardVars, triggers, inbound, notified>>
-----------------------------------------------------------------------------
(* The goroutines of the serial line *)

serialWriter ==
  /\ serial_wr = 1 /\ serial_wr' = 0
  /\ UNCHANGED <<node, port, serial_rd, triggers, inbound, backoff_exp, notified>>

serialReader ==
  /\ port = "open"
  /\ \/ /\ Len(serial_rd) < LinesCap
        /\ \E line \in BoardSays : serial_rd' = Append(serial_rd, line)
        /\ UNCHANGED port
     \/ port' = "gone" /\ UNCHANGED serial_rd
  /\ UNCHANGED <<node, serial_wr, triggers, inbound, backoff_exp, notified>>
-----------------------------------------------------------------------------
(* The broker and the client library *)

Holds(what) == \E i \in DOMAIN inbound : inbound[i] = what

StatusIsRequested ==
  /\ Len(SelectSeq(inbound, LAMBDA m : m = "request")) < InboundCap
  /\ inbound' = Append(inbound, "request")
  /\ UNCHANGED <<node, boardVars, triggers, backoff_exp, notified>>

BrokerAnswersNode ==
  /\ node = "publish" /\ ~Holds("answer")
  /\ inbound' = Append(inbound, "answer")
  /\ UNCHANGED <<node, boardVars, triggers, backoff_exp, notified>>

(* Mutant: the callback does not wait for room. *)
HandOverUnbounded ==
  /\ inbound # <<>>
  /\ inbound' = Tail(inbound)
  /\ IF Head(inbound) = "request" THEN triggers' = triggers + 1 /\ UNCHANGED node
                                  ELSE node' = "select" /\ UNCHANGED triggers
  /\ UNCHANGED <<boardVars, backoff_exp, notified>>

HandOver ==
  /\ inbound # <<>>
  /\ inbound' = Tail(inbound)
  /\ IF Head(inbound) = "request"
     THEN triggers < TriggerCap /\ triggers' = triggers + 1 /\ UNCHANGED node
     ELSE node' = "select" /\ UNCHANGED triggers
  /\ UNCHANGED <<boardVars, backoff_exp, notified>>

(* The answer the node waits for is behind a request that finds the        *)
(* channel full, which only the node empties.                              *)
Jammed ==
  /\ node = "publish" /\ triggers = TriggerCap
  /\ inbound # <<>> /\ Head(inbound) = "request"

StaysJammed == Jammed /\ UNCHANGED nodeVars

(* gasleak_min_interval has passed since the last SMS. *)
IntervalEnds ==
  /\ notified
  /\ notified' = FALSE
  /\ UNCHANGED <<node, boardVars, triggers, inbound, backoff_exp>>
-----------------------------------------------------------------------------
NodeNext ==
  \/ OpensDevice \/ CannotOpen \/ TakeLine \/ DeviceGone \/ TakeTrigger \/ AsksBoard
  \/ BacksOff \/ serialWriter \/ serialReader
  \/ StatusIsRequested \/ BrokerAnswersNode \/ HandOver \/ IntervalEnds
  \/ StaysJammed

(* The goroutines run and the select takes each of its ready cases again   *)
(* and again; the broker answers in the end, and the library hands over    *)
(* what it can.                                                            *)
NodeFairness ==
  /\ SF_nodeVars(DeviceGone) /\ SF_nodeVars(TakeLine)
  /\ WF_nodeVars(AsksBoard \/ BacksOff \/ OpensDevice)
  /\ WF_nodeVars(serialWriter) /\ WF_nodeVars(BrokerAnswersNode) /\ WF_nodeVars(HandOver)

NodeSpec == NodeInit /\ [][NodeNext]_nodeVars /\ NodeFairness
-----------------------------------------------------------------------------
(* A device that is gone is tried again, whatever lines it left behind and *)
(* however many requests come, unless the node is jammed: with more        *)
(* requests than the channel holds it waits for the broker for ever.       *)
DeviceTriedAgain == port = "gone" ~> node = "open" \/ Jammed
=============================================================================
