--------------------------- MODULE MCMetaMovement ---------------------------
(* What r3-metaevt-maker judges, one subject a behaviour:                  *)
(* the movement judgement (four slots, ticks one or two seconds apart, and *)
(* time for a story to be told once and begin again), main and the         *)
(* routines for the movement counts and the lost sensors, and the          *)
(* presence.  The ssh sessions, with one attempt given up, are here too    *)
(* because their behaviours are cut off like those of the judgement.       *)
EXTENDS MetaMovement, Presence, MetaEvents, StatusSessions

CONSTANTS MaxCount, MaxTs

VARIABLE subject

MCFadeAfter == <<2, 4, 6, 8>>

(* Equal, older and newer stamps, within every timeout and beyond it.  All *)
(* of them exceed the timeouts, as Unix times do.                          *)
MCStamps == 2 .. 4

Bounds ==
  /\ ts <= MaxTs
  /\ recent[1] <= MaxCount
  /\ timeouts <= 1

MCInit ==
  /\ Init /\ EventsInit /\ SessionsInit /\ PresenceInit
  /\ subject \in {"judgement", "dispatch", "sessions", "presence"}

MCNext ==
  /\ \/ /\ subject = "judgement" /\ Next
        /\ UNCHANGED <<eventsVars, sessionVars, presenceVars>>
     \/ /\ subject = "dispatch" /\ EventsNext
        /\ UNCHANGED <<vars, sessionVars, presenceVars>>
     \/ /\ subject = "sessions" /\ SessionsNext
        /\ UNCHANGED <<vars, eventsVars, presenceVars>>
     \/ /\ subject = "presence" /\ PresenceNext
        /\ UNCHANGED <<vars, eventsVars, sessionVars>>
  /\ UNCHANGED subject

MCSpec == MCInit /\ [][MCNext]_<<vars, eventsVars, sessionVars, presenceVars, subject>>
=============================================================================
