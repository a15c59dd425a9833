------------------------------ MODULE XmppBot ------------------------------
(***************************************************************************)
(* r3-xmppbot: how a bot is started, watched, stopped and started again.   *)
(* Its goroutines and the channels between them:                           *)
(*                                                                         *)
(*   RunXMPPBotForever / EventToXMPP (main)                                *)
(*        --presence_events--> handleEventsforXMPP (events)                *)
(*   handleIncomingXMPPStanzas (stanzas) --jabber_events--> events         *)
(*   main, events, stanzas --Out--> XMPP server --In--> stanzas            *)
(*                                                                         *)
(* main pings the server and stops the bot when it does not answer;        *)
(* stanzas stops it after too many errors; a watchdog ends the process     *)
(* when main hangs.  Sending on a closed channel and closing it again      *)
(* panic: stanzas, events and EventToXMPP recover, RunXMPPBotForever does  *)
(* not, and then the process ends and is started again.                    *)
(*                                                                         *)
(* A step ends where a goroutine can block or where StopBot can be         *)
(* interrupted by another StopBot.  Time is abstracted: timers may expire  *)
(* whenever they run.  What is said to whom is left to XmppUsers.          *)
(***************************************************************************)
EXTENDS Integers, Sequences

CONSTANTS
  PresenceCap,   \* what presence_events holds (1)
  JabberCap,     \* what jabber_events holds (1)
  MaxErrors,     \* errors in series that are suffered (15)
  PingTries      \* pings in series that may fail (4)

ASSUME XmppBotAssumption ==
  /\ PresenceCap \in Nat \ {0}
  /\ JabberCap \in Nat \ {0}
  /\ MaxErrors \in Nat
  /\ PingTries \in Nat \ {0}

VARIABLES
  main,            \* where main is
  sends,           \* what it has yet to send to presence_events
  failed,          \* pings of this tick that failed
  watchdog,        \* "off" or running ("even" or "odd", see ResetWatchdog)
  tick,            \* the ticker has fired
  stale_timeout,   \* the connect timeout of a failed start is running
  cause,           \* why the process went down
  events,          \* where handleEventsforXMPP is
  stanzas,         \* where handleIncomingXMPPStanzas is
  todo,            \* the sends it has yet to make for the stanza in hand
  error_count,
  presence_events, presence_open, jabber_events,
  out_open,        \* Out is not closed
  xmppclient,      \* xmppclient_ is not nil
  bailed,          \* history: stanzas has called StopBot
  server           \* external: "up", "mute" (takes stanzas, sends none) or "dead"

vars == <<main, sends, failed, watchdog, tick, stale_timeout, cause, events, stanzas,
          todo, error_count, presence_events, presence_open, jabber_events, out_open,
          xmppclient, bailed, server>>

mainVars   == <<main, sends, failed, watchdog, tick, stale_timeout, cause>>
stanzaVars == <<stanzas, todo, error_count, bailed>>
botVars    == <<presence_open, out_open, xmppclient>>

StopSteps == {"closing", "telling", "clearing"}

(* What one stanza makes the handler send, to jabber_events ("tell") and   *)
(* to Out ("send"): commands and their confirmations, subscriptions, pings.*)
Work == {<<>>, <<"send">>, <<"tell">>, <<"tell", "send">>, <<"send", "tell">>,
         <<"send", "tell", "send">>}

TypeOK ==
  /\ main \in {"start", "select", "report", "refresh", "ping", "pong", "sleep", "down"}
                 \cup StopSteps
  /\ sends \in 0 .. 2
  /\ failed \in 0 .. PingTries
  /\ watchdog \in {"off", "even", "odd"}
  /\ tick \in BOOLEAN /\ stale_timeout \in BOOLEAN
  /\ cause \in {"none", "watchdog", "connect", "stop", "handler"}
  /\ events \in {"select", "send", "drain", "gone"}
  /\ stanzas \in {"range", "pause", "enter", "gone"} \cup StopSteps
  /\ todo \in Seq({"tell", "send"})
  /\ error_count \in 0 .. MaxErrors + 1
  /\ presence_events \in Seq({"show", "quit"}) /\ Len(presence_events) <= PresenceCap
  /\ jabber_events \in 0 .. JabberCap
  /\ presence_open \in BOOLEAN /\ out_open \in BOOLEAN /\ xmppclient \in BOOLEAN
  /\ bailed \in BOOLEAN
  /\ server \in {"up", "mute", "dead"}

Init ==
  /\ main = "start" /\ sends = 0 /\ failed = 0
  /\ watchdog = "off" /\ tick = FALSE /\ stale_timeout = FALSE /\ cause = "none"
  /\ events = "gone" /\ stanzas = "gone" /\ todo = <<>> /\ error_count = 0
  /\ presence_events = <<>> /\ presence_open = FALSE /\ jabber_events = 0
  /\ out_open = FALSE /\ xmppclient = FALSE /\ bailed = FALSE
  /\ server = "up"

Running == main # "down"

(* A panic nobody recovers, or the panic of a timer. *)
ProcessEnds(why) ==
  /\ main' = "down" /\ cause' = why
  /\ UNCHANGED <<sends, failed, watchdog, tick, stale_timeout>>
-----------------------------------------------------------------------------
(* Mutant: the client is forgotten before its channel is closed. *)
StopStepForgetsFirst(at, next) ==
  \/ /\ at = "closing" /\ next = "telling"
     /\ xmppclient' = FALSE
     /\ UNCHANGED <<presence_events, presence_open, out_open>>
  \/ /\ at = "telling" /\ next = "stopped"
     /\ presence_open
     /\ presence_open' = FALSE
     /\ out_open' = (out_open /\ ~xmppclient)
     /\ UNCHANGED <<presence_events, xmppclient>>

(* Mutant: presence_events is closed before the final value is sent. *)
StopStepClosesFirst(at, next) ==
  \/ /\ at = "closing" /\ next = "telling"
     /\ xmppclient => out_open
     /\ out_open' = (out_open /\ ~xmppclient)
     /\ presence_open' = FALSE
     /\ UNCHANGED <<presence_events, xmppclient>>
  \/ /\ at = "clearing" /\ next = "stopped"
     /\ xmppclient' = FALSE
     /\ UNCHANGED <<presence_events, presence_open, out_open>>

(* StopBot: closing Out, telling events to quit (unless its channel is     *)
(* full) and closing that channel, clearing the bot.  A goroutine at one   *)
(* of these steps takes it, or panics.                                     *)
StopStep(at, next) ==
  \/ /\ at = "closing" /\ next = "telling"
     /\ xmppclient => out_open
     /\ out_open' = (out_open /\ ~xmppclient)
     /\ UNCHANGED <<presence_events, presence_open, xmppclient>>
  \/ /\ at = "telling" /\ next = "clearing"
     /\ presence_open
     /\ presence_events' = IF Len(presence_events) < PresenceCap
                             THEN Append(presence_events, "quit") ELSE presence_events
     /\ presence_open' = FALSE
     /\ UNCHANGED <<out_open, xmppclient>>
  \/ /\ at = "clearing" /\ next = "stopped"
     /\ xmppclient' = FALSE
     /\ UNCHANGED <<presence_events, presence_open, out_open>>

StopPanics(at) ==
  \/ at = "closing" /\ xmppclient /\ ~out_open
  \/ at = "telling" /\ ~presence_open
-----------------------------------------------------------------------------
(* main *)

(* A start connects, or fails and leaves its connect timeout running. *)
NewStartedBot ==
  /\ main = "start"
  /\ \/ /\ main' = "report" /\ sends' = 1 /\ watchdog' = "even"
        /\ events' = "select" /\ stanzas' = "range"
        /\ todo' = <<>> /\ error_count' = 0 /\ bailed' = FALSE
        /\ presence_events' = <<>> /\ presence_open' = TRUE /\ jabber_events' = 0
        /\ out_open' = TRUE /\ xmppclient' = TRUE /\ server' = "up"
        /\ UNCHANGED stale_timeout
     \/ /\ main' = "sleep" /\ stale_timeout' = TRUE
        /\ UNCHANGED <<sends, watchdog, events, stanzas, todo, error_count, bailed,
                       presence_events, presence_open, jabber_events, out_open,
                       xmppclient, server>>
  /\ failed' = 0 /\ tick' = FALSE /\ UNCHANGED cause

ConnectTimeout ==
  /\ Running /\ (main = "start" \/ stale_timeout)
  /\ ProcessEnds("connect")
  /\ UNCHANGED <<events, stanzaVars, presence_events, jabber_events, botVars, server>>

(* Two names for a running watchdog, so that one of them being owed an     *)
(* expiry ends with a reset.                                               *)
ResetWatchdog == watchdog' = IF watchdog = "even" THEN "odd" ELSE "even"

(* An event makes no, one or two (the button) sends. *)
ReceiveEvent ==
  /\ main = "select"
  /\ sends' \in 0 .. 2
  /\ main' = IF sends' = 0 THEN "select" ELSE "report"
  /\ ResetWatchdog
  /\ UNCHANGED <<failed, tick, stale_timeout, cause, events, stanzaVars,
                 presence_events, jabber_events, botVars, server>>

Tick ==
  /\ main = "select" /\ tick
  /\ tick' = FALSE /\ main' = "refresh" /\ sends' = 1 /\ failed' = 0
  /\ UNCHANGED <<watchdog, stale_timeout, cause, events, stanzaVars, presence_events,
                 jabber_events, botVars, server>>

(* What main does after the sends of an event, of a tick. *)
AfterSends == IF main = "report" THEN "select" ELSE "ping"

SendPresence ==
  /\ main \in {"report", "refresh"}
  /\ presence_open /\ Len(presence_events) < PresenceCap
  /\ presence_events' = Append(presence_events, "show")
  /\ sends' = sends - 1
  /\ main' = IF sends > 1 THEN main ELSE AfterSends
  /\ UNCHANGED <<failed, watchdog, tick, stale_timeout, cause, events, stanzaVars,
                 jabber_events, botVars, server>>

Ping ==
  /\ main = "ping" /\ xmppclient /\ out_open /\ server # "dead"
  /\ main' = "pong"
  /\ UNCHANGED <<sends, failed, watchdog, tick, stale_timeout, cause, events,
                 stanzaVars, presence_events, jabber_events, botVars, server>>

(* The pong comes, or the timeout: a pong that comes later is dropped.     *)
(* The last of the tries ends EventToXMPP, which stops its watchdog.       *)
PingAnswered ==
  /\ main = "pong"
  /\ \/ server = "up" /\ main' = "select" /\ UNCHANGED <<failed, watchdog>>
     \/ /\ failed' = failed + 1
        /\ IF failed' < PingTries
             THEN main' = "ping" /\ UNCHANGED watchdog
             ELSE main' = "closing" /\ watchdog' = "off"
  /\ UNCHANGED <<sends, tick, stale_timeout, cause, events, stanzaVars,
                 presence_events, jabber_events, botVars, server>>

(* EventToXMPP recovers from a closed channel or a bot without client, and *)
(* returns.                                                                *)
EventToXMPPPanics ==
  /\ \/ main \in {"report", "refresh"} /\ ~presence_open
     \/ main = "ping" /\ ~(xmppclient /\ out_open)
  /\ main' = "closing" /\ watchdog' = "off"
  /\ UNCHANGED <<sends, failed, tick, stale_timeout, cause, events, stanzaVars,
                 presence_events, jabber_events, botVars, server>>

MainStops ==
  /\ \E next \in StopSteps \cup {"stopped"} :
       /\ StopStep(main, next)
       /\ main' = IF next = "stopped" THEN "sleep" ELSE next
  /\ UNCHANGED <<sends, failed, watchdog, tick, stale_timeout, cause, events,
                 stanzaVars, jabber_events, server>>

MainStopPanics ==
  /\ StopPanics(main)
  /\ ProcessEnds("stop")
  /\ UNCHANGED <<events, stanzaVars, presence_events, jabber_events, botVars, server>>

(* Bound: the next bot starts when the stanza handler of the one before is *)
(* gone.  They share nothing, and that it goes is checked.                 *)
StartAgain ==
  /\ main = "sleep" /\ stanzas = "gone" /\ main' = "start"
  /\ UNCHANGED <<sends, failed, watchdog, tick, stale_timeout, cause, events,
                 stanzaVars, presence_events, jabber_events, botVars, server>>

WatchdogExpires(running) ==
  /\ Running /\ watchdog = running
  /\ ProcessEnds("watchdog")
  /\ UNCHANGED <<events, stanzaVars, presence_events, jabber_events, botVars, server>>

Ticker ==
  /\ Running /\ ~tick /\ watchdog # "off" /\ tick' = TRUE
  /\ UNCHANGED <<main, sends, failed, watchdog, stale_timeout, cause, events,
                 stanzaVars, presence_events, jabber_events, botVars, server>>
-----------------------------------------------------------------------------
(* events *)

(* A value makes it send to users or not; the final value, a closed        *)
(* channel and a value for a bot whose users are gone make it clean up.    *)
TakePresence ==
  /\ Running /\ events = "select"
  /\ \/ /\ presence_events # <<>>
        /\ presence_events' = Tail(presence_events)
        /\ events' \in IF Head(presence_events) = "quit" THEN {"drain"} ELSE {"select", "send"}
     \/ /\ presence_events = <<>> /\ ~presence_open
        /\ events' = "drain" /\ UNCHANGED presence_events
  /\ UNCHANGED <<mainVars, stanzaVars, jabber_events, botVars, server>>

TakeJabber ==
  /\ Running /\ events = "select"
  /\ jabber_events > 0 /\ jabber_events' = jabber_events - 1
  /\ events' \in IF xmppclient THEN {"select", "send"} ELSE {"select", "send", "drain"}
  /\ UNCHANGED <<mainVars, stanzaVars, presence_events, botVars, server>>

(* One send stands for those to all users. *)
EventsSend ==
  /\ Running /\ events = "send"
  /\ \/ ~out_open /\ events' = "drain"
     \/ out_open /\ server # "dead" /\ events' = "select"
  /\ UNCHANGED <<mainVars, stanzaVars, presence_events, jabber_events, botVars, server>>

(* Mutant: the handler returns without cleaning up. *)
DrainForgotten ==
  /\ Running /\ events = "drain"
  /\ events' = "gone"
  /\ UNCHANGED <<mainVars, stanzaVars, presence_events, jabber_events, botVars, server>>

(* The deferred loop takes jabber_events for ever: nobody closes it. *)
Drain ==
  /\ Running /\ events = "drain"
  /\ jabber_events > 0 /\ jabber_events' = jabber_events - 1
  /\ UNCHANGED <<mainVars, events, stanzaVars, presence_events, botVars, server>>
-----------------------------------------------------------------------------
(* stanzas *)

(* Mutant: the count is compared before it is increased. *)
ReceiveStanzaLate ==
  /\ Running /\ server = "up" /\ out_open
  /\ stanzas = "range" /\ todo = <<>>
  /\ error_count' = error_count + 1
  /\ IF error_count > MaxErrors
       THEN stanzas' = "closing" /\ bailed' = TRUE
       ELSE UNCHANGED <<stanzas, bailed>>
  /\ UNCHANGED <<mainVars, events, todo, presence_events, jabber_events, botVars, server>>

(* A good stanza ends the series of errors; a message that could not be    *)
(* delivered does not count; a malformed one panics.                       *)
ReceiveStanza ==
  /\ Running /\ server = "up" /\ out_open
  /\ stanzas = "range" /\ todo = <<>>
  /\ \/ /\ todo' \in Work /\ error_count' = 0
        /\ UNCHANGED <<stanzas, bailed>>
     \/ /\ todo' = <<"tell">>
        /\ UNCHANGED <<stanzas, error_count, bailed>>
     \/ /\ error_count' = error_count + 1
        /\ IF error_count' > MaxErrors
             THEN stanzas' = "closing" /\ bailed' = TRUE
             ELSE UNCHANGED <<stanzas, bailed>>
        /\ UNCHANGED todo
     \/ stanzas' = "pause" /\ UNCHANGED <<todo, error_count, bailed>>
  /\ UNCHANGED <<mainVars, events, presence_events, jabber_events, botVars, server>>

Tell ==
  /\ Running /\ stanzas = "range" /\ todo # <<>> /\ Head(todo) = "tell"
  /\ jabber_events < JabberCap /\ jabber_events' = jabber_events + 1
  /\ todo' = Tail(todo)
  /\ UNCHANGED <<mainVars, events, stanzas, error_count, bailed, presence_events,
                 botVars, server>>

StanzasSend ==
  /\ Running /\ stanzas = "range" /\ todo # <<>> /\ Head(todo) = "send"
  /\ \/ out_open /\ server # "dead" /\ todo' = Tail(todo) /\ UNCHANGED stanzas
     \/ ~out_open /\ todo' = <<>> /\ stanzas' = "pause"
  /\ UNCHANGED <<mainVars, events, error_count, bailed, presence_events, jabber_events,
                 botVars, server>>

(* In is closed when the connection ends: Out was closed, or it broke. *)
InputEnds ==
  /\ Running /\ stanzas = "range" /\ todo = <<>>
  /\ ~out_open \/ server # "up"
  /\ stanzas' = "pause"
  /\ UNCHANGED <<mainVars, events, todo, error_count, bailed, presence_events,
                 jabber_events, botVars, server>>

StanzasStop ==
  /\ Running
  /\ \/ \E next \in StopSteps \cup {"stopped"} :
          /\ StopStep(stanzas, next)
          /\ stanzas' = IF next = "stopped" THEN "pause" ELSE next
     \/ /\ StopPanics(stanzas) /\ stanzas' = "pause"
        /\ UNCHANGED <<presence_events, botVars>>
  /\ UNCHANGED <<mainVars, events, todo, error_count, bailed, jabber_events, server>>

(* The loop around the handler: it looks for the client, and reads its     *)
(* channels from it, outside of what recovers.                             *)
Reenter ==
  /\ Running /\ stanzas = "pause"
  /\ stanzas' = IF xmppclient THEN "enter" ELSE "gone"
  /\ UNCHANGED <<mainVars, events, todo, error_count, bailed, presence_events,
                 jabber_events, botVars, server>>

Enter ==
  /\ Running /\ stanzas = "enter"
  /\ \/ /\ xmppclient /\ stanzas' = "range" /\ error_count' = 0
        /\ UNCHANGED mainVars
     \/ /\ ~xmppclient /\ ProcessEnds("handler")
        /\ UNCHANGED <<stanzas, error_count>>
  /\ UNCHANGED <<events, todo, bailed, presence_events, jabber_events, botVars, server>>
-----------------------------------------------------------------------------
ConnectionBreaks ==
  /\ Running /\ out_open
  /\ \/ server = "up" /\ server' \in {"mute", "dead"}
     \/ server = "mute" /\ server' = "dead"
  /\ UNCHANGED <<mainVars, events, stanzaVars, presence_events, jabber_events, botVars>>

(* The service manager starts the process again. *)
Restart ==
  /\ main = "down"
  /\ main' = "start" /\ sends' = 0 /\ failed' = 0
  /\ watchdog' = "off" /\ tick' = FALSE /\ stale_timeout' = FALSE /\ cause' = "none"
  /\ events' = "gone" /\ stanzas' = "gone" /\ todo' = <<>> /\ error_count' = 0
  /\ presence_events' = <<>> /\ presence_open' = FALSE /\ jabber_events' = 0
  /\ out_open' = FALSE /\ xmppclient' = FALSE /\ bailed' = FALSE
  /\ UNCHANGED server

Main ==
  \/ NewStartedBot \/ ReceiveEvent \/ Tick \/ SendPresence \/ Ping \/ PingAnswered
  \/ EventToXMPPPanics \/ MainStops \/ MainStopPanics \/ StartAgain

Timers == ConnectTimeout \/ Ticker \/ \E w \in {"even", "odd"} : WatchdogExpires(w)

Events == TakePresence \/ TakeJabber \/ EventsSend \/ Drain

Stanzas ==
  ReceiveStanza \/ Tell \/ StanzasSend \/ InputEnds \/ StanzasStop \/ Reenter \/ Enter

Next == Main \/ Timers \/ Events \/ Stanzas \/ ConnectionBreaks \/ Restart

Spec == Init /\ [][Next]_vars

(* All goroutines run and timers expire.  Go's select takes each of its    *)
(* ready cases again and again.  Nothing is assumed of events, of stanzas  *)
(* and of the server except that it takes stanzas unless it is dead.       *)
Fairness ==
  /\ SF_vars(Tick) /\ WF_vars(Ticker)
  /\ WF_vars(SendPresence) /\ WF_vars(Ping) /\ WF_vars(PingAnswered)
  /\ WF_vars(EventToXMPPPanics) /\ WF_vars(MainStops) /\ WF_vars(MainStopPanics)
  /\ WF_vars(StartAgain) /\ WF_vars(ConnectTimeout)
  /\ WF_vars(WatchdogExpires("even")) /\ WF_vars(WatchdogExpires("odd"))
  /\ SF_vars(TakePresence) /\ SF_vars(TakeJabber) /\ WF_vars(EventsSend) /\ WF_vars(Drain)
  /\ WF_vars(Tell) /\ WF_vars(StanzasSend) /\ WF_vars(InputEnds)
  /\ WF_vars(StanzasStop) /\ WF_vars(Reenter) /\ WF_vars(Enter)
  /\ WF_vars(Restart)

FairSpec == Spec /\ Fairness
-----------------------------------------------------------------------------
(* A bot that was cleared has both its channels closed, whichever of the   *)
(* two stoppers got how far: nobody stays blocked on a bot that is gone.   *)
ClearedMeansClosed == ~xmppclient => ~out_open /\ ~presence_open

(* Stopping the bot because the server does not answer never panics; the   *)
(* process goes down in StopBot only if the stanza handler stopped the bot *)
(* as well.                                                                *)
StopPanicsOnlyAfterBailing == cause = "stop" => bailed

(* The server does not answer, or a channel of the bot is closed.          *)
Lost == server # "up" \/ ~out_open \/ events = "drain"

(* Whoever stops, whatever hangs: a bot that is lost is followed by        *)
(* another one, in this process or in the next, and its stanza handler is  *)
(* gone by then.                                                           *)
BotComesBack == Lost ~> main = "start"

(* Contradicted: "connection timeout reached, no error or reply".  The     *)
(* timeout ends the process only while a start is under way.               *)
ConnectTimeoutMeansNoAnswer == [][ConnectTimeout => main = "start"]_vars
=============================================================================
