---------------------------- MODULE MCXmppUsers ----------------------------
(* Two users with a resource each.  A behaviour is about who is told what, *)
(* and then no save fails and nobody waits to count as online, or about    *)
(* the wishes, and then nothing happens that they could be told.  One of   *)
(* the two users subscribes at most.                                       *)
EXTENDS XmppUsers, FiniteSets, TLC

CONSTANTS u1, u2, j1, j2

VARIABLE about

OwnResources == j1 :> u1 @@ j2 :> u2

(* The two users can be swapped, together with their resources. *)
Swap == {u1 :> u1 @@ u2 :> u2 @@ j1 :> j1 @@ j2 :> j2,
         u1 :> u2 @@ u2 :> u1 @@ j1 :> j2 @@ j2 :> j1}

InScenario ==
  \/ /\ about = "telling"
     /\ ~unsaved /\ online = {} /\ Cardinality(subscribed) <= 1
  \/ /\ about = "wishes"
     /\ ~has_status /\ ~settled /\ told \cup subscribed = {}

MCInit == Init /\ about \in {"telling", "wishes"}

MCNext == Next /\ UNCHANGED about /\ InScenario'

MCSpec == MCInit /\ [][MCNext]_<<vars, about>>
=============================================================================
