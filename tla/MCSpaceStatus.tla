---------------------------- MODULE MCSpaceStatus ----------------------------
(* A behaviour has messages of two kinds: every kind once with another     *)
(* that meets it in the document or in the channel.                        *)
EXTENDS SpaceStatus

MCScenarios ==
  {{"presence", "button"}, {"presence", "lock"}, {"button", "alert"},
   {"ajar", "zigbee window"}, {"temperature", "couchred"},
   {"temperature", "esphome temperature"}}
=============================================================================
