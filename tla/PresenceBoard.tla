--------------------------- MODULE PresenceBoard ---------------------------
(***************************************************************************)
(* What the presence routine of r3-metaevt-maker promises to the consumers *)
(* of the retained topic realraum/metaevt/presence (light switch, sound,   *)
(* web status, xmpp bot): every change of the decision is put on the topic *)
(* in the step that makes it, nothing else ever is, and a restart of the   *)
(* process forgets the decision but leaves the retained message standing.  *)
(***************************************************************************)
CONSTANT NoMessage      \* the topic holds no retained message yet

VARIABLES
  presences_last,       \* the decision: is there somebody in space W1, in W2
  retained              \* the message retained by the broker

vars == <<presences_last, retained>>

Presences == [W1 : BOOLEAN, W2 : BOOLEAN]
Nobody    == [W1 |-> FALSE, W2 |-> FALSE]

(* The message for a decision; the topic's "Present" is the overall answer. *)
PresenceUpdate(p) ==
  [Present |-> p.W1 \/ p.W2, InSpace1 |-> p.W1, InSpace2 |-> p.W2]

Messages == [Present : BOOLEAN, InSpace1 : BOOLEAN, InSpace2 : BOOLEAN]

Init ==
  /\ presences_last = Nobody
  /\ retained = NoMessage

Announce(p) ==
  /\ p # presences_last
  /\ presences_last' = p
  /\ retained' = PresenceUpdate(p)

Forget ==
  /\ presences_last' = Nobody
  /\ UNCHANGED retained

Next == Forget \/ \E p \in Presences : Announce(p)

Spec == Init /\ [][Next]_vars
=============================================================================
