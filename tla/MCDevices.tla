------------------------------ MODULE MCDevices ------------------------------
(* The programs and parts of programs that have little state of their own, *)
(* side by side: a behaviour is one of its subject, all others rest.       *)
EXTENDS MqttSubs, BackdoorNode, KeyNickStore, UpdateKeys, StatusSessions

VARIABLE subject

devicesVars == <<subsVars, nodeVars, keysVars, updateVars, sessionVars, subject>>

(* A key of four bytes, two of eight that differ in their last byte only,  *)
(* and a line without a key.  There was another key in every slot.         *)
MCLines == {<<>>, <<1, 2, 3, 4>>, <<1, 2, 3, 4, 5, 6, 7, 8>>, <<1, 2, 3, 4, 5, 6, 7, 9>>}
MCOldSlot == SlotOf(<<9>>)

(* All that is of its type. *)
TypesOK == SubsTypeOK /\ NodeTypeOK /\ KeysTypeOK /\ UpdateTypeOK /\ SessionsTypeOK

DevicesInit ==
  /\ SubsInit /\ NodeInit /\ KeysInit /\ UpdateInit /\ SessionsInit
  /\ subject \in {"subscriptions", "node", "key file", "key programming", "sessions"}
  /\ subject # "key file" => file.there /\ now = 1

Of(s, next) == subject = s /\ next /\ UNCHANGED subject

DevicesNext ==
  \/ /\ Of("subscriptions", SubsNext)
     /\ UNCHANGED <<nodeVars, keysVars, updateVars, sessionVars>>
  \/ /\ Of("node", NodeNext)
     /\ UNCHANGED <<subsVars, keysVars, updateVars, sessionVars>>
  \/ /\ Of("key file", KeysNext)
     /\ UNCHANGED <<subsVars, nodeVars, updateVars, sessionVars>>
  \/ /\ Of("key programming", UpdateNext)
     /\ UNCHANGED <<subsVars, nodeVars, keysVars, sessionVars>>
  \/ /\ Of("sessions", SessionsNext)
     /\ UNCHANGED <<subsVars, nodeVars, keysVars, updateVars>>

(* NodeFairness and SessionsFairness, for those that do not rest. *)
Works(s, action) == subject = s /\ action

DevicesFairness ==
  /\ SF_nodeVars(Works("node", DeviceGone)) /\ SF_nodeVars(Works("node", TakeLine))
  /\ WF_nodeVars(Works("node", AsksBoard \/ BacksOff \/ OpensDevice))
  /\ WF_nodeVars(Works("node", serialWriter))
  /\ WF_nodeVars(Works("node", BrokerAnswersNode))
  /\ WF_nodeVars(Works("node", HandOver))
  /\ WF_sessionVars(Works("sessions", ~crashed /\ Waiter))
  /\ WF_sessionVars(Works("sessions", ~crashed /\ CloseSession))

DevicesSpec == DevicesInit /\ [][DevicesNext]_devicesVars /\ DevicesFairness
=============================================================================
