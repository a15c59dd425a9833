--------------------------- MODULE StatusSessions ---------------------------
(***************************************************************************)
(* goCreateSSHSessions of r3-spaceapistatus: one goroutine answers the     *)
(* requests for ssh sessions.  It gives each request two attempts, each in *)
(* a goroutine of its own, and waits six seconds for one; the goroutine of *)
(* an attempt it has given up goes on.  All attempts share the client, the *)
(* two of a request share err.                                             *)
(*                                                                         *)
(* The attempts are numbered, two for each request, and a connection has   *)
(* the number of the attempt that dialled it.  A step ends where another   *)
(* goroutine may come in between.  The channels of an attempt are its own  *)
(* and hold what it sends; nobody receives from those of a late one.       *)
(***************************************************************************)
EXTENDS Integers, FiniteSets

CONSTANT MaxRequests      \* bound: requests in a life of the process

ASSUME SessionsAssumption == MaxRequests \in Nat \ {0}

Requests == 1 .. MaxRequests
Attempts == 1 .. 2 * MaxRequests
NoClient == 0

RequestOf(a) == (a + 1) \div 2
IsLast(a)    == a = 2 * RequestOf(a)

VARIABLES
  request,                \* what the publishing routine stands at
  attempt,                \* the attempt the goroutine waits for, 0 for none
  started,                \* the last attempt that was started
  ssh_webstatus_client,   \* shared by all attempts
  err,                    \* of each request: is it an error?
  at,                     \* where each attempt stands
  outcome,                \* what the attempt that is waited for has sent
  on,                     \* the connection of the session that was opened last
  open,                   \* external: the connections nobody has closed
  timeouts,               \* history: how many attempts were given up
  crashed                 \* the process has ended in a panic

sessionVars == <<request, attempt, started, ssh_webstatus_client, err, at, outcome, on,
                 open, timeouts, crashed>>

waiterVars  == <<request, attempt, started, timeouts, crashed>>
attemptVars == <<at, outcome, on>>

Places == {"none", "check", "dial", "dialled", "report", "session", "close", "done"}

SessionsTypeOK ==
  /\ request \in {"none", "asked", "session", "nil"}
  /\ attempt \in {0} \cup Attempts
  /\ started \in {0} \cup Attempts
  /\ ssh_webstatus_client \in {NoClient} \cup Attempts
  /\ err \in [Requests -> BOOLEAN]
  /\ at \in [Attempts -> Places]
  /\ outcome \in {"none", "session", "error", "nilError"}
  /\ on \in {NoClient} \cup Attempts
  /\ open \subseteq Attempts
  /\ timeouts \in 0 .. 2 * MaxRequests
  /\ crashed \in BOOLEAN

SessionsInit ==
  /\ request = "none" /\ attempt = 0 /\ started = 0
  /\ ssh_webstatus_client = NoClient
  /\ err = [r \in Requests |-> FALSE]
  /\ at = [a \in Attempts |-> "none"]
  /\ outcome = "none" /\ on = NoClient
  /\ open = {} /\ timeouts = 0 /\ crashed = FALSE
-----------------------------------------------------------------------------
(* The routine that publishes: it asks, and closes the session it got. *)

getWebStatusSSHSession ==
  /\ request = "none" /\ RequestOf(started) < MaxRequests
  /\ request' = "asked"
  /\ UNCHANGED <<attempt, started, timeouts, crashed, ssh_webstatus_client, err,
                 attemptVars, open>>

CloseSession ==
  /\ request \in {"session", "nil"}
  /\ request' = "none"
  /\ UNCHANGED <<attempt, started, timeouts, crashed, ssh_webstatus_client, err,
                 attemptVars, open>>
-----------------------------------------------------------------------------
(* The goroutine that answers the requests. *)

StartAttempt(a) ==
  /\ attempt' = a /\ started' = a
  /\ at' = [at EXCEPT ![a] = "check"] /\ outcome' = "none"

TakeRequest ==
  /\ request = "asked" /\ attempt = 0 /\ RequestOf(started) < MaxRequests
  /\ StartAttempt(2 * RequestOf(started) + 1)
  /\ UNCHANGED <<request, timeouts, crashed, ssh_webstatus_client, err, on, open>>

(* Mutant: the last attempt that fails answers nobody. *)
NextAttemptOrSilence ==
  IF IsLast(attempt)
  THEN attempt' = 0 /\ UNCHANGED <<request, started, at, outcome>>
  ELSE StartAttempt(attempt + 1) /\ UNCHANGED request

NextAttempt ==
  IF IsLast(attempt)
  THEN request' = "nil" /\ attempt' = 0 /\ UNCHANGED <<started, at, outcome>>
  ELSE StartAttempt(attempt + 1) /\ UNCHANGED request

(* The client is forgotten, not closed. *)
AttemptTimesOut ==
  /\ attempt # 0
  /\ ssh_webstatus_client' = NoClient
  /\ timeouts' = timeouts + 1
  /\ NextAttempt
  /\ UNCHANGED <<crashed, err, on, open>>

AttemptFails ==
  /\ attempt # 0 /\ outcome = "error"
  /\ ssh_webstatus_client' = NoClient
  /\ err' = [err EXCEPT ![RequestOf(attempt)] = TRUE]
  /\ NextAttempt
  /\ UNCHANGED <<timeouts, crashed, on, open>>

(* An error that is nil cannot be logged, and nothing recovers here. *)
NilErrorPanics ==
  /\ attempt # 0 /\ outcome = "nilError"
  /\ crashed' = TRUE
  /\ UNCHANGED <<request, attempt, started, timeouts, ssh_webstatus_client, err,
                 attemptVars, open>>

AttemptSucceeds ==
  /\ attempt # 0 /\ outcome = "session"
  /\ request' = "session" /\ attempt' = 0
  /\ UNCHANGED <<started, timeouts, crashed, ssh_webstatus_client, err, attemptVars, open>>
-----------------------------------------------------------------------------
(* The goroutine of attempt a.  What panics in it is recovered and sent as *)
(* an error.                                                               *)

Sends(a, what) ==
  /\ at' = [at EXCEPT ![a] = "done"]
  /\ outcome' = IF a = attempt THEN what ELSE outcome

GoesTo(a, place) ==
  /\ at' = [at EXCEPT ![a] = place]
  /\ UNCHANGED outcome

NeedsClient(a) ==
  /\ at[a] = "check"
  /\ GoesTo(a, IF ssh_webstatus_client = NoClient THEN "dial" ELSE "session")
  /\ UNCHANGED <<waiterVars, ssh_webstatus_client, err, on, open>>

(* Client and error are assigned as one. *)
DialSucceeds(a) ==
  /\ at[a] = "dial"
  /\ ssh_webstatus_client' = a /\ err' = [err EXCEPT ![RequestOf(a)] = FALSE]
  /\ open' = open \cup {a}
  /\ GoesTo(a, "dialled")
  /\ UNCHANGED <<waiterVars, on>>

DialFails(a) ==
  /\ at[a] = "dial"
  /\ ssh_webstatus_client' = NoClient /\ err' = [err EXCEPT ![RequestOf(a)] = TRUE]
  /\ GoesTo(a, "dialled")
  /\ UNCHANGED <<waiterVars, on, open>>

(* The variables are looked at again; logging a nil error panics. *)
Dialled(a) ==
  /\ at[a] = "dialled"
  /\ IF err[RequestOf(a)] THEN GoesTo(a, "report")
     ELSE IF ssh_webstatus_client = NoClient THEN Sends(a, "error")
     ELSE GoesTo(a, "session")
  /\ UNCHANGED <<waiterVars, ssh_webstatus_client, err, on, open>>

(* The error is logged, the client forgotten and the error sent.  A late   *)
(* attempt may have put nil for it: if before it is logged, that panics    *)
(* and what was recovered is sent; if after, the nil is sent.              *)
Report(a) ==
  /\ at[a] = "report"
  /\ \/ /\ err[RequestOf(a)]
        /\ ssh_webstatus_client' = NoClient /\ Sends(a, "error")
     \/ /\ ~err[RequestOf(a)]
        /\ ssh_webstatus_client' = NoClient /\ Sends(a, "nilError")
     \/ /\ ~err[RequestOf(a)]
        /\ UNCHANGED ssh_webstatus_client /\ Sends(a, "error")
  /\ UNCHANGED <<waiterVars, err, on, open>>

(* Using a client that is gone panics. *)
OpensSession(a) ==
  /\ at[a] = "session"
  /\ IF ssh_webstatus_client = NoClient
     THEN Sends(a, "error") /\ UNCHANGED on
     ELSE /\ ssh_webstatus_client \in open
          /\ Sends(a, "session")
          /\ on' = IF a = attempt THEN ssh_webstatus_client ELSE on
  /\ UNCHANGED <<waiterVars, ssh_webstatus_client, err, open>>

(* The client is closed, or its connection broken, or the server refuses. *)
SessionFails(a) ==
  /\ at[a] = "session" /\ ssh_webstatus_client # NoClient
  /\ GoesTo(a, "close")
  /\ UNCHANGED <<waiterVars, ssh_webstatus_client, err, on, open>>

(* Mutant: the client whose session failed is not closed. *)
ClosesClientForgotten(a) ==
  /\ at[a] = "close"
  /\ Sends(a, "error")
  /\ UNCHANGED <<waiterVars, ssh_webstatus_client, err, on, open>>

ClosesClient(a) ==
  /\ at[a] = "close"
  /\ open' = open \ {ssh_webstatus_client}
  /\ Sends(a, "error")
  /\ UNCHANGED <<waiterVars, ssh_webstatus_client, err, on>>
-----------------------------------------------------------------------------
Caller == getWebStatusSSHSession \/ CloseSession

Waiter == TakeRequest \/ AttemptTimesOut \/ AttemptFails \/ NilErrorPanics \/ AttemptSucceeds

AttemptRuns(a) ==
  \/ NeedsClient(a) \/ DialSucceeds(a) \/ DialFails(a) \/ Dialled(a) \/ Report(a)
  \/ OpensSession(a) \/ SessionFails(a) \/ ClosesClient(a)

(* Nothing is left to do: no more requests, or the process has ended. *)
Quiet ==
  /\ crashed \/ (request = "none" /\ RequestOf(started) = MaxRequests)
  /\ UNCHANGED sessionVars

SessionsNext ==
  \/ ~crashed /\ (Caller \/ Waiter \/ \E a \in Attempts : AttemptRuns(a))
  \/ Quiet

(* The goroutine and its timer run.  The caller closes its session after   *)
(* four seconds.  Nothing is assumed of the server, and so of an attempt.  *)
SessionsFairness ==
  /\ WF_sessionVars(~crashed /\ Waiter)
  /\ WF_sessionVars(~crashed /\ CloseSession)

SessionsSpec == SessionsInit /\ [][SessionsNext]_sessionVars /\ SessionsFairness
-----------------------------------------------------------------------------
Sessions == INSTANCE SessionRequests WITH
              request <- IF crashed THEN "lost" ELSE request

(* Every request is answered, whatever the server does and however late    *)
(* the attempts are, unless the process ends in a panic meanwhile: that it *)
(* does not is FailedAttemptIsSurvived, which the code violates.           *)
RequestsAreAnswered == Sessions!ReqSpec

(* What goes wrong in an attempt is recovered ("recovered from", line 68), *)
(* sent as an error and logged ("Failed to create ssh session:", line 95), *)
(* and the request goes on: no attempt ends the process.                   *)
FailedAttemptIsSurvived == ~crashed

(* As long as no attempt was given up, the only connection left open is    *)
(* the client's, the session handed out is on it, and nothing crashes.     *)
TidyUntilTimeout ==
  timeouts = 0 =>
    /\ open \subseteq {ssh_webstatus_client}
    /\ request = "session" => on = ssh_webstatus_client
    /\ ~crashed

(* What is lost later is bounded: an attempt given up leaves at most three *)
(* connections that nobody closes.  Its timeout forgets the client, and    *)
(* when it has become late its dial and its report can forget one each.    *)
ThreeLeaksPerTimeout ==
  Cardinality(open \ {ssh_webstatus_client}) <= 3 * timeouts
=============================================================================
