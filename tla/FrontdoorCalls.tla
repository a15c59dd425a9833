--------------------------- MODULE FrontdoorCalls ---------------------------
(***************************************************************************)
(* What the door daemon promises to the callers of Frontdoor.SendCmd: the  *)
(* calls are taken in the order in which they were made; each is settled   *)
(* on the spot or accepted; the accepted calls are answered oldest first   *)
(* or all refused together; and a call is over when it has been settled,   *)
(* answered or refused, or when the daemon exits.                          *)
(***************************************************************************)
EXTENDS Sequences

CONSTANT Callers        \* the SendCmd calls there can be at a time

VARIABLES
  made,                 \* the calls not yet settled or accepted, oldest first
  accepted              \* the calls waiting for an answer, oldest first

vars == <<made, accepted>>

Held(s) == {s[i] : i \in DOMAIN s}

Init == made = <<>> /\ accepted = <<>>

Make(c) ==
  /\ c \notin Held(made) \cup Held(accepted)
  /\ made' = Append(made, c)
  /\ UNCHANGED accepted

Settle ==
  /\ made # <<>>
  /\ made' = Tail(made)
  /\ UNCHANGED accepted

Accept ==
  /\ made # <<>>
  /\ made' = Tail(made)
  /\ accepted' = Append(accepted, Head(made))

Answer ==
  /\ accepted # <<>>
  /\ accepted' = Tail(accepted)
  /\ UNCHANGED made

RefuseAll ==
  /\ accepted' = <<>>
  /\ UNCHANGED made

Exit == made' = <<>> /\ accepted' = <<>>

Next == (\E c \in Callers : Make(c)) \/ Settle \/ Accept \/ Answer \/ RefuseAll \/ Exit

Spec == Init /\ [][Next]_vars
=============================================================================
