---------------------------- MODULE MCDoorDaemon ----------------------------
(* Short channels: each is full after one or two messages.  What is said   *)
(* and asked for is the scenario's:                                        *)
(*   calls  two callers want the status, and every Status: line answers a  *)
(*          call, also the one a trigger asked for;                        *)
(*   jam    one caller wants the log, and the firmware says what the       *)
(*          workaround acts upon;                                          *)
(*   board  no callers, and all that is said of lock and door when nothing *)
(*          is stuck.                                                      *)
EXTENDS DoorDaemon

CONSTANTS c1, c2, Scenarios

VARIABLE scenario

TwoCallers == {c1, c2}

LockedAndShut == {[locked |-> TRUE, shut |-> TRUE]}

SayLines(states, positions) ==
  [kind : {"State:"}, says : states] \cup [kind : {"Info(ajar):"}, says : positions]

StatusLine == [kind : {"Status:"}, says : LockedAndShut]

BoardLines ==
  SayLines({"opened", "closed"}, {"ajar", "shut"}) \cup [kind : {"Status:"}, says : Status]

JamLines == SayLines({"timeout_after_open", "timeout_after_close"}, {"ajar"})

CallsAndJamLines == StatusLine \cup JamLines

Asks(callers, cmd) ==
  \A c \in Callers : call[c] # Idle => c \in callers /\ call[c] = cmd

InScenario ==
  \/ /\ scenario = "calls"
     /\ Asks(TwoCallers, "status") /\ Held(serial_rd) \subseteq StatusLine
     /\ door \in LockedAndShut
  \/ /\ scenario = "jam"
     /\ Asks({c1}, "log") /\ Held(serial_rd) \subseteq JamLines
     /\ door \in LockedAndShut
  \/ scenario = "board"

MCInit == Init /\ scenario \in Scenarios

(* The firmware can always be silent and nobody has to call: a scenario    *)
(* stands in the way of no action that fairness is assumed of.             *)
MCNext == Next /\ UNCHANGED scenario /\ InScenario'

MCSpec == MCInit /\ [][MCNext]_<<vars, scenario>>

MCFairSpec == MCSpec /\ Fairness
=============================================================================
