--------------------------- MODULE SessionRequests ---------------------------
(* What getWebStatusSSHSession promises to the routine that publishes the  *)
(* status: it asks, and in the end it gets a session or none, or the       *)
(* process has ended while a session was looked for.                       *)
VARIABLE request       \* "none", "asked", "session", "nil" or "lost"

ReqInit == request = "none"

Ask == request = "none" /\ request' = "asked"

Answer == request = "asked" /\ request' \in {"session", "nil"}

(* Nobody is left to answer. *)
Lose == request = "asked" /\ request' = "lost"

(* A session is closed when the status was sent or the send timed out. *)
GiveBack == request \in {"session", "nil"} /\ request' = "none"

ReqSpec ==
  ReqInit /\ [][Ask \/ Answer \/ Lose \/ GiveBack]_request /\ WF_request(Answer)
=============================================================================
