---------------------------- MODULE SpaceDocument ----------------------------
(***************************************************************************)
(* The lists of the status document of r3-spaceapistatus and what          *)
(* spaceapi.go does to them.  A list of sensors has records with a name,   *)
(* and those that carry a timestamp say whether it is older than allowed;  *)
(* a list that is not there is empty.                                      *)
(***************************************************************************)
EXTENDS Integers, SequencesExt

(* The sensor takes the place of those with its name, or is added. *)
MergeInSensor(list, sensor) ==
  IF \E i \in DOMAIN list : list[i].name = sensor.name
  THEN [i \in DOMAIN list |-> IF list[i].name = sensor.name THEN sensor ELSE list[i]]
  ELSE Append(list, sensor)

(* Mutant: the list is cleaned from its front, and the index is not held   *)
(* back when a sensor goes.                                                *)
CleanForwards(list) ==
  LET cleaned[i \in 0 .. Len(list)] ==
        IF i = 0 THEN list
        ELSE IF i <= Len(cleaned[i - 1]) /\ cleaned[i - 1][i].old
             THEN RemoveAt(cleaned[i - 1], i)
             ELSE cleaned[i - 1]
  IN  cleaned[Len(list)]

(* From the last to the first, each that is too old is cut out. *)
CleanOutdatedSensorData(list) ==
  LET cleaned[n \in 0 .. Len(list)] ==
        IF n = 0 THEN list
        ELSE LET before == cleaned[n - 1]
                 i      == Len(list) - n + 1
             IN  IF before[i].old THEN RemoveAt(before, i) ELSE before
  IN  cleaned[Len(list)]

(* Mutant: the last event is dropped without taking the other's place. *)
CleanEventsCut(events) ==
  LET cleaned[n \in 0 .. Len(events)] ==
        IF n = 0 THEN events
        ELSE LET before == cleaned[n - 1]
                 i      == Len(events) - n + 1
             IN  IF before[i].old THEN Front(before) ELSE before
  IN  cleaned[Len(events)]

(* From the last to the first, each that is over is replaced by the last.  *)
CleanOutdatedSpaceEvents(events) ==
  LET cleaned[n \in 0 .. Len(events)] ==
        IF n = 0 THEN events
        ELSE LET before == cleaned[n - 1]
                 i      == Len(events) - n + 1
             IN  IF before[i].old
                 THEN Front([before EXCEPT ![i] = before[Len(before)]])
                 ELSE before
  IN  cleaned[Len(events)]

(* json.Marshal refuses a number that is none. *)
CanMakeJSON(list) == \A i \in DOMAIN list : ~list[i].nan
=============================================================================
