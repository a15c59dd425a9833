--------------------------- MODULE XmppBotProofs ---------------------------
(***************************************************************************)
(* Proofs about the life of the XMPP bot for every capacity of its         *)
(* channels and every number of errors and pings it suffers.               *)
(***************************************************************************)
EXTENDS XmppBot, TLAPS

(* The type invariant in four parts. *)
Places ==
  /\ main \in {"start", "select", "report", "refresh", "ping", "pong", "sleep", "down"}
                 \cup StopSteps
  /\ watchdog \in {"off", "even", "odd"}
  /\ cause \in {"none", "watchdog", "connect", "stop", "handler"}
  /\ events \in {"select", "send", "drain", "gone"}
  /\ stanzas \in {"range", "pause", "enter", "gone"} \cup StopSteps

Counts ==
  /\ sends \in 0 .. 2
  /\ failed \in 0 .. PingTries
  /\ error_count \in 0 .. MaxErrors + 1
  /\ jabber_events \in 0 .. JabberCap

Queues ==
  /\ todo \in Seq({"tell", "send"})
  /\ presence_events \in Seq({"show", "quit"})
  /\ Len(presence_events) <= PresenceCap

Flags ==
  /\ tick \in BOOLEAN /\ stale_timeout \in BOOLEAN
  /\ presence_open \in BOOLEAN /\ out_open \in BOOLEAN /\ xmppclient \in BOOLEAN
  /\ bailed \in BOOLEAN
  /\ server \in {"up", "mute", "dead"}

(* What the counters may still count. *)
CountsLeft ==
  /\ main \in {"report", "refresh"} => sends > 0
  /\ main \in {"refresh", "ping", "pong"} => failed < PingTries
  /\ stanzas = "range" => error_count <= MaxErrors

LEMMA TypeParts == TypeOK <=> Places /\ Counts /\ Queues /\ Flags
BY DEF TypeOK, Places, Counts, Queues, Flags

LEMMA Ranges ==
  /\ 0 \in 0 .. 2 /\ 1 \in 0 .. 2
  /\ 0 \in 0 .. PingTries
  /\ 0 \in 0 .. MaxErrors + 1
  /\ 0 \in 0 .. JabberCap
  /\ PingTries \in Nat /\ MaxErrors \in Nat /\ JabberCap \in Nat
BY XmppBotAssumption

LEMMA Empty ==
  /\ \A S : <<>> \in Seq(S)
  /\ Len(<<>>) <= PresenceCap /\ PresenceCap \in Nat
BY XmppBotAssumption

LEMMA TailTyped ==
  ASSUME NEW S, NEW s \in Seq(S), s # <<>>
  PROVE  Tail(s) \in Seq(S) /\ Len(Tail(s)) <= Len(s)
OBVIOUS

LEMMA WorkTyped == Work \subseteq Seq({"tell", "send"}) /\ <<"tell">> \in Seq({"tell", "send"})
BY DEF Work

(* The state of the bot is well typed, and its channels hold no more than  *)
(* their capacity.                                                         *)
THEOREM TypeCorrect == Spec => []TypeOK
<1> DEFINE IInv == Places /\ Counts /\ Queues /\ Flags /\ CountsLeft
<1>1. Init => IInv
  BY Ranges, Empty DEF Init, Places, Counts, Queues, Flags, CountsLeft, CountsLeft
<1>2. IInv /\ [Next]_vars => IInv'
  <2> SUFFICES ASSUME IInv, [Next]_vars
               PROVE  IInv'
    OBVIOUS
  <2>1. CASE NewStartedBot
    <3> USE <2>1 DEF NewStartedBot, mainVars, stanzaVars, botVars
    <3>1. Places'
      BY DEF Places, StopSteps
    <3>2. Counts'
      BY Ranges DEF Counts, CountsLeft
    <3>3. Queues'
      BY Empty DEF Queues
    <3>4. Flags'
      BY DEF Flags
    <3>5. CountsLeft'
      BY Ranges DEF CountsLeft, Counts
    <3> QED
      BY <3>1, <3>2, <3>3, <3>4, <3>5
  <2>2. CASE ReceiveEvent
    BY <2>2, Ranges DEF ReceiveEvent, ResetWatchdog, Places, Counts, Queues,
           Flags, CountsLeft, mainVars, stanzaVars, botVars
  <2>3. CASE Tick
    <3> USE <2>3 DEF Tick, mainVars, stanzaVars, botVars
    <3>1. Places'
      BY DEF Places, StopSteps
    <3>2. Counts'
      BY Ranges DEF Counts, CountsLeft
    <3>3. Queues'
      BY Empty DEF Queues
    <3>4. Flags'
      BY DEF Flags
    <3>5. CountsLeft'
      BY Ranges, XmppBotAssumption DEF CountsLeft
    <3> QED
      BY <3>1, <3>2, <3>3, <3>4, <3>5
  <2>4. CASE SendPresence
    <3> USE <2>4 DEF SendPresence, AfterSends, mainVars, stanzaVars, botVars
    <3>1. Places'
      BY DEF Places, StopSteps
    <3>2. Counts'
      BY Ranges DEF Counts, CountsLeft
    <3>3. Queues'
      BY Empty DEF Queues
    <3>4. Flags'
      BY DEF Flags
    <3>5. CountsLeft'
      BY Ranges DEF CountsLeft, Counts
    <3> QED
      BY <3>1, <3>2, <3>3, <3>4, <3>5
  <2>5. CASE Ping
    BY <2>5, Ranges DEF Ping, Places, Counts, Queues, Flags, CountsLeft, mainVars,
           stanzaVars, botVars
  <2>6. CASE PingAnswered
    <3> USE <2>6 DEF PingAnswered, mainVars, stanzaVars, botVars
    <3>1. Places'
      BY DEF Places, StopSteps
    <3>2. Counts'
      BY Ranges DEF Counts, CountsLeft
    <3>3. Queues'
      BY Empty DEF Queues
    <3>4. Flags'
      BY DEF Flags
    <3>5. CountsLeft'
      BY Ranges DEF CountsLeft, Counts
    <3> QED
      BY <3>1, <3>2, <3>3, <3>4, <3>5
  <2>7. CASE EventToXMPPPanics
    BY <2>7, Ranges DEF EventToXMPPPanics, Places, StopSteps, Counts, Queues, Flags, CountsLeft,
           mainVars, stanzaVars, botVars
  <2>8. CASE MainStops
    <3> USE <2>8 DEF MainStops, StopStep, mainVars, stanzaVars, botVars
    <3>1. Places'
      BY DEF Places, StopSteps
    <3>2. Counts'
      BY Ranges DEF Counts, CountsLeft
    <3>3. Queues'
      BY Empty DEF Queues
    <3>4. Flags'
      BY DEF Flags
    <3>5. CountsLeft'
      BY Ranges DEF CountsLeft, Counts
    <3> QED
      BY <3>1, <3>2, <3>3, <3>4, <3>5
  <2>9. CASE MainStopPanics
    BY <2>9, Ranges DEF MainStopPanics, ProcessEnds, StopPanics, Places,
           Counts, Queues, Flags, CountsLeft, mainVars, stanzaVars, botVars
  <2>10. CASE StartAgain
    BY <2>10, Ranges DEF StartAgain, Places, Counts, Queues, Flags, CountsLeft, mainVars,
           stanzaVars, botVars
  <2>11. CASE ConnectTimeout
    BY <2>11, Ranges DEF ConnectTimeout, ProcessEnds, Places, Counts, Queues,
           Flags, CountsLeft, mainVars, stanzaVars, botVars
  <2>12. CASE Ticker
    BY <2>12, Ranges DEF Ticker, Places, Counts, Queues, Flags, CountsLeft, mainVars,
           stanzaVars, botVars
  <2>13. CASE TakePresence
    <3> USE <2>13 DEF TakePresence, mainVars, stanzaVars, botVars
    <3>1. Places'
      BY DEF Places
    <3>2. Counts'
      BY DEF Counts
    <3>3. Queues'
      BY TailTyped, Empty DEF Queues
    <3>4. Flags'
      BY DEF Flags
    <3>5. CountsLeft'
      BY DEF CountsLeft
    <3> QED
      BY <3>1, <3>2, <3>3, <3>4, <3>5
  <2>14. CASE TakeJabber
    BY <2>14, Ranges DEF TakeJabber, Places, Counts, Queues, Flags, CountsLeft, mainVars,
           stanzaVars, botVars
  <2>15. CASE EventsSend
    BY <2>15, Ranges DEF EventsSend, Places, Counts, Queues, Flags, CountsLeft, mainVars,
           stanzaVars, botVars
  <2>16. CASE Drain
    BY <2>16, Ranges DEF Drain, Places, Counts, Queues, Flags, CountsLeft, mainVars,
           stanzaVars, botVars
  <2>17. CASE ReceiveStanza
    <3> USE <2>17 DEF ReceiveStanza, mainVars, stanzaVars, botVars
    <3>1. Places'
      BY DEF Places, StopSteps
    <3>2. Counts'
      BY Ranges DEF Counts, CountsLeft
    <3>3. Queues'
      BY WorkTyped DEF Queues
    <3>4. Flags'
      BY DEF Flags
    <3>5. CountsLeft'
      BY Ranges DEF CountsLeft, Counts
    <3> QED
      BY <3>1, <3>2, <3>3, <3>4, <3>5
  <2>18. CASE Tell
    BY <2>18, Ranges DEF Tell, Places, Counts, Queues, Flags, CountsLeft, mainVars,
           stanzaVars, botVars
  <2>19. CASE StanzasSend
    <3> USE <2>19 DEF StanzasSend, mainVars, stanzaVars, botVars
    <3>1. Places'
      BY DEF Places, StopSteps
    <3>2. Counts'
      BY Ranges DEF Counts, CountsLeft
    <3>3. Queues'
      BY TailTyped, Empty DEF Queues
    <3>4. Flags'
      BY DEF Flags
    <3>5. CountsLeft'
      BY Ranges DEF CountsLeft, Counts
    <3> QED
      BY <3>1, <3>2, <3>3, <3>4, <3>5
  <2>20. CASE InputEnds
    BY <2>20, Ranges DEF InputEnds, Places, Counts, Queues, Flags, CountsLeft, mainVars,
           stanzaVars, botVars
  <2>21. CASE StanzasStop
    <3> USE <2>21 DEF StanzasStop, StopStep, StopPanics, mainVars, stanzaVars,
                botVars
    <3>1. Places'
      BY DEF Places, StopSteps
    <3>2. Counts'
      BY Ranges DEF Counts, CountsLeft
    <3>3. Queues'
      BY Empty DEF Queues
    <3>4. Flags'
      BY DEF Flags
    <3>5. CountsLeft'
      BY Ranges DEF CountsLeft, Counts
    <3> QED
      BY <3>1, <3>2, <3>3, <3>4, <3>5
  <2>22. CASE Reenter
    BY <2>22, Ranges DEF Reenter, Places, Counts, Queues, Flags, CountsLeft, mainVars,
           stanzaVars, botVars
  <2>23. CASE Enter
    BY <2>23, Ranges DEF Enter, ProcessEnds, Places, Counts, Queues, Flags, CountsLeft,
           mainVars, stanzaVars, botVars
  <2>24. CASE ConnectionBreaks
    BY <2>24, Ranges DEF ConnectionBreaks, Places, Counts, Queues, Flags, CountsLeft,
           mainVars, stanzaVars, botVars
  <2>25. CASE Restart
    <3> USE <2>25 DEF Restart, mainVars, stanzaVars, botVars
    <3>1. Places'
      BY DEF Places, StopSteps
    <3>2. Counts'
      BY Ranges DEF Counts, CountsLeft
    <3>3. Queues'
      BY Empty DEF Queues
    <3>4. Flags'
      BY DEF Flags
    <3>5. CountsLeft'
      BY Ranges DEF CountsLeft, Counts
    <3> QED
      BY <3>1, <3>2, <3>3, <3>4, <3>5
  <2>26. CASE \E w \in {"even", "odd"} : WatchdogExpires(w)
    BY <2>26 DEF WatchdogExpires, ProcessEnds, Places, Counts, Queues, Flags, CountsLeft,
                 stanzaVars, botVars
  <2>27. CASE UNCHANGED vars
    BY <2>27 DEF vars, Places, Counts, Queues, Flags, CountsLeft
  <2> QED
    BY <2>1, <2>2, <2>3, <2>4, <2>5, <2>6, <2>7, <2>8, <2>9, <2>10, <2>11,
       <2>12, <2>13, <2>14, <2>15, <2>16, <2>17, <2>18, <2>19, <2>20, <2>21,
       <2>22, <2>23, <2>24, <2>25, <2>26, <2>27
       DEF Next, Main, Timers, Events, Stanzas
<1>3. IInv => TypeOK
  BY TypeParts
<1> QED
  BY <1>1, <1>2, <1>3, PTL DEF Spec
-----------------------------------------------------------------------------
(* How far a stopper got tells what is closed.                             *)
StoppersClose ==
  \A at \in {main, stanzas} :
    /\ at = "telling" => ~out_open
    /\ at = "clearing" => ~out_open /\ ~presence_open

(* While only main stops the bot, it is whole until main gets there. *)
WholeUntilStopped ==
  ~bailed =>
    /\ main \in {"select", "report", "refresh", "ping", "pong", "closing"}
          => out_open /\ presence_open /\ xmppclient
    /\ main = "telling" => presence_open

StopInvariant ==
  /\ ClearedMeansClosed
  /\ StoppersClose
  /\ WholeUntilStopped
  /\ main = "start" => stanzas = "gone"
  /\ stanzas \in StopSteps => bailed
  /\ cause # "none" => main = "down"
  /\ StopPanicsOnlyAfterBailing

LEMMA StopInvariantHolds == Spec => []StopInvariant
<1>1. Init => StopInvariant
  BY DEF Init, StopInvariant, ClearedMeansClosed, StoppersClose, WholeUntilStopped,
         StopSteps, StopPanicsOnlyAfterBailing
<1>2. StopInvariant /\ [Next]_vars => StopInvariant'
  <2> SUFFICES ASSUME StopInvariant, [Next]_vars
               PROVE  StopInvariant'
    OBVIOUS
  <2> USE DEF StopInvariant, ClearedMeansClosed, StoppersClose, WholeUntilStopped,
              StopSteps, StopPanicsOnlyAfterBailing
  <2>1. CASE NewStartedBot
    BY <2>1 DEF NewStartedBot, mainVars, stanzaVars, botVars
  <2>2. CASE ReceiveEvent
    BY <2>2 DEF ReceiveEvent, ResetWatchdog, mainVars, stanzaVars, botVars
  <2>3. CASE Tick
    BY <2>3 DEF Tick, mainVars, stanzaVars, botVars
  <2>4. CASE SendPresence
    BY <2>4 DEF SendPresence, AfterSends, mainVars, stanzaVars, botVars
  <2>5. CASE Ping
    BY <2>5 DEF Ping, mainVars, stanzaVars, botVars
  <2>6. CASE PingAnswered
    BY <2>6 DEF PingAnswered, mainVars, stanzaVars, botVars
  <2>7. CASE EventToXMPPPanics
    BY <2>7 DEF EventToXMPPPanics, mainVars, stanzaVars, botVars
  <2>8. CASE MainStops
    <3> PICK next \in StopSteps \cup {"stopped"} :
               StopStep(main, next) /\ main' = IF next = "stopped" THEN "sleep" ELSE next
      BY <2>8 DEF MainStops
    <3> USE <2>8 DEF MainStops, stanzaVars
    <3>1. CASE main = "closing" /\ next = "telling"
      <4>1. ~out_open' /\ UNCHANGED <<presence_open, xmppclient>> /\ main' = "telling"
        BY <3>1 DEF StopStep
      <4> QED
        BY <3>1, <4>1
    <3>2. CASE main = "telling" /\ next = "clearing"
      BY <3>2 DEF StopStep
    <3>3. CASE main = "clearing" /\ next = "stopped"
      BY <3>3 DEF StopStep
    <3> QED
      BY <3>1, <3>2, <3>3 DEF StopStep
  <2>9. CASE MainStopPanics
    BY <2>9 DEF MainStopPanics, ProcessEnds, StopPanics, mainVars, stanzaVars, botVars
  <2>10. CASE StartAgain
    BY <2>10 DEF StartAgain, mainVars, stanzaVars, botVars
  <2>11. CASE ConnectTimeout
    BY <2>11 DEF ConnectTimeout, ProcessEnds, mainVars, stanzaVars, botVars
  <2>12. CASE Ticker
    BY <2>12 DEF Ticker, mainVars, stanzaVars, botVars
  <2>13. CASE TakePresence
    BY <2>13 DEF TakePresence, mainVars, stanzaVars, botVars
  <2>14. CASE TakeJabber
    BY <2>14 DEF TakeJabber, mainVars, stanzaVars, botVars
  <2>15. CASE EventsSend
    BY <2>15 DEF EventsSend, mainVars, stanzaVars, botVars
  <2>16. CASE Drain
    BY <2>16 DEF Drain, mainVars, stanzaVars, botVars
  <2>17. CASE ReceiveStanza
    BY <2>17 DEF ReceiveStanza, Work, mainVars, stanzaVars, botVars
  <2>18. CASE Tell
    BY <2>18 DEF Tell, mainVars, stanzaVars, botVars
  <2>19. CASE StanzasSend
    BY <2>19 DEF StanzasSend, mainVars, stanzaVars, botVars
  <2>20. CASE InputEnds
    BY <2>20 DEF InputEnds, mainVars, stanzaVars, botVars
  <2>21. CASE StanzasStop
    <3> USE <2>21 DEF StanzasStop, mainVars
    <3>1. ASSUME NEW next \in StopSteps \cup {"stopped"}, StopStep(stanzas, next),
                 stanzas' = IF next = "stopped" THEN "pause" ELSE next
          PROVE  StopInvariant'
      <4>1. CASE stanzas = "closing" /\ next = "telling"
        <5>1. ~out_open' /\ UNCHANGED <<presence_open, xmppclient>> /\ stanzas' = "telling"
          BY <3>1, <4>1 DEF StopStep
        <5> QED
          BY <4>1, <5>1
      <4>2. CASE stanzas = "telling" /\ next = "clearing"
        BY <3>1, <4>2 DEF StopStep
      <4>3. CASE stanzas = "clearing" /\ next = "stopped"
        BY <3>1, <4>3 DEF StopStep
      <4> QED
        BY <3>1, <4>1, <4>2, <4>3 DEF StopStep
    <3>2. CASE StopPanics(stanzas) /\ stanzas' = "pause" /\ UNCHANGED <<presence_events, botVars>>
      BY <3>2 DEF StopPanics, botVars
    <3> QED
      BY <3>1, <3>2
  <2>22. CASE Reenter
    BY <2>22 DEF Reenter, mainVars, stanzaVars, botVars
  <2>23. CASE Enter
    BY <2>23 DEF Enter, ProcessEnds, mainVars, stanzaVars, botVars
  <2>24. CASE ConnectionBreaks
    BY <2>24 DEF ConnectionBreaks, mainVars, stanzaVars, botVars
  <2>25. CASE Restart
    BY <2>25 DEF Restart, mainVars, stanzaVars, botVars
  <2>26. CASE \E w \in {"even", "odd"} : WatchdogExpires(w)
    BY <2>26 DEF WatchdogExpires, ProcessEnds, mainVars, stanzaVars, botVars
  <2>27. CASE UNCHANGED vars
    BY <2>27 DEF vars, mainVars, stanzaVars, botVars
  <2> QED
    BY <2>1, <2>2, <2>3, <2>4, <2>5, <2>6, <2>7, <2>8, <2>9, <2>10, <2>11, <2>12, <2>13, <2>14, <2>15, <2>16, <2>17, <2>18, <2>19, <2>20, <2>21, <2>22, <2>23, <2>24, <2>25, <2>26, <2>27
       DEF Next, Main, Timers, Events, Stanzas
<1> QED
  BY <1>1, <1>2, PTL DEF Spec

(* A bot that was cleared has both channels closed, however the steps of   *)
(* the two who may stop it interleave: no send to it blocks for ever.      *)
THEOREM ClearedAlwaysClosed == Spec => []ClearedMeansClosed
<1>1. StopInvariant => ClearedMeansClosed
  BY DEF StopInvariant
<1> QED
  BY <1>1, StopInvariantHolds, PTL

(* Stopping the bot for its unanswered pings never ends the process: that  *)
(* takes a stanza handler that stopped the bot too.                        *)
THEOREM StopPanicsOnlyForTwo == Spec => []StopPanicsOnlyAfterBailing
<1>1. StopInvariant => StopPanicsOnlyAfterBailing
  BY DEF StopInvariant
<1> QED
  BY <1>1, StopInvariantHolds, PTL
=============================================================================
