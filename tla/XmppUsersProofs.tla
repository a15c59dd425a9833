-------------------------- MODULE XmppUsersProofs --------------------------
(***************************************************************************)
(* Proofs about the users of the XMPP bot for every number of users, JIDs  *)
(* and places in the channel.                                              *)
(***************************************************************************)
EXTENDS XmppUsers, TLAPS

(* What is saved, what is underway and who is logged in all need the       *)
(* password once.                                                          *)
EnabledIn(wishes) == \A u \in Users : wishes[u] \in Enabled => u \in proven

UpdatesProven ==
  \A i \in 1 .. Len(jabber_events) :
    \/ Bare[jabber_events[i].jid] \in proven
    \/ jabber_events[i].wants \notin Enabled /\ ~jabber_events[i].statusNow

LoginsProven == \A j \in lastauthtime : Bare[j] \in proven

PasswordInvariant ==
  /\ TypeOK
  /\ EnabledIn(WhatTheyWant(realraum_jids))
  /\ EnabledIn(config_file)
  /\ UpdatesProven
  /\ LoginsProven
  /\ ToldOnlyByPassword
-----------------------------------------------------------------------------
USE XmppUsersAssumption DEF loginVars, fileVars

(* What Tell appends is an update. *)
LEMMA TellAppends ==
  ASSUME TypeOK, NEW update \in Updates, Tell(update)
  PROVE  /\ jabber_events' \in Seq(Updates)
         /\ Len(jabber_events') <= JabberCap
         /\ Len(jabber_events') = Len(jabber_events) + 1
         /\ \A i \in 1 .. Len(jabber_events) : jabber_events'[i] = jabber_events[i]
         /\ jabber_events'[Len(jabber_events) + 1] = update
  BY DEF TypeOK, Tell

(* What the stanza handler tells is an update. *)
LEMMA SaysUpdates ==
  ASSUME NEW j \in Jids, NEW b \in BOOLEAN, NEW w \in Wants, NEW s \in BOOLEAN
  PROVE  /\ Says(j, b) \in Updates
         /\ [Says(j, b) EXCEPT !.wants = w] \in Updates
         /\ [Says(j, b) EXCEPT !.statusNow = s] \in Updates
         /\ Says(j, b).jid = j /\ ~Says(j, b).statusNow /\ Says(j, b).wants = "same"
         /\ [Says(j, b) EXCEPT !.wants = w].jid = j
         /\ [Says(j, b) EXCEPT !.wants = w].wants = w
         /\ ~[Says(j, b) EXCEPT !.wants = w].statusNow
         /\ [Says(j, b) EXCEPT !.statusNow = s].jid = j
         /\ [Says(j, b) EXCEPT !.statusNow = s].wants = "same"
  BY DEF Says, Updates

(* Taking the first update leaves the others. *)
LEMMA TailLeaves ==
  ASSUME TypeOK, jabber_events # <<>>, jabber_events' = Tail(jabber_events)
  PROVE  /\ jabber_events' \in Seq(Updates)
         /\ Len(jabber_events') <= JabberCap
         /\ Head(jabber_events) \in Updates
         /\ Head(jabber_events) = jabber_events[1]
         /\ Len(jabber_events) >= 1
         /\ Len(jabber_events') = Len(jabber_events) - 1
         /\ \A i \in 1 .. Len(jabber_events') : jabber_events'[i] = jabber_events[i + 1]
  BY DEF TypeOK
-----------------------------------------------------------------------------
(* What is loaded wants what the file says, and has no other users. *)
LEMMA LoadedType ==
  ASSUME NEW file \in [Users -> Wants \cup {NoUser}], NEW gone \in SUBSET Users
  PROVE  /\ Loaded(file, gone) \in [Users -> Settings \cup {NoUser}]
         /\ \A u \in Users :
              /\ WhatTheyWant(Loaded(file, gone))[u] =
                   IF u \in gone THEN NoUser ELSE file[u]
              /\ Loaded(file, gone)[u] = NoUser <=> file[u] = NoUser \/ u \in gone
<1>1. \A u \in Users : file[u] # NoUser => [online |-> FALSE, wants |-> file[u]] \in Settings
  BY DEF Settings
<1> QED
  BY <1>1 DEF Loaded, WhatTheyWant

LEMMA WhatTheyWantType ==
  ASSUME NEW map \in [Users -> Settings \cup {NoUser}]
  PROVE  WhatTheyWant(map) \in [Users -> Wants \cup {NoUser}]
  BY DEF WhatTheyWant, Settings

(* A save that fails leaves what was there or nothing. *)
LEMMA SaveType ==
  ASSUME TypeOK, NEW map \in [Users -> Settings \cup {NoUser}], saveTo(map)
  PROVE  config_file' \in [Users -> Wants \cup {NoUser}] /\ unsaved' \in BOOLEAN
<1>1. NoSettings \in [Users -> Wants \cup {NoUser}]
  BY DEF NoSettings
<1>2. unsaved' \in BOOLEAN
  BY DEF saveTo
<1>3. config_file' \in {WhatTheyWant(map), config_file, NoSettings}
  BY DEF saveTo
<1> QED
  BY <1>1, <1>2, <1>3, WhatTheyWantType DEF TypeOK

(* Every step keeps the types of what it changes. *)
LEMMA TypeStep == TypeOK /\ [Next]_vars => TypeOK'
<1> SUFFICES ASSUME TypeOK, [Next]_vars PROVE TypeOK'
  OBVIOUS
<1>1. CASE TakeMessage
  BY <1>1 DEF TypeOK, TakeMessage, askVars
<1>1s. CASE TakeStatus
  BY <1>1s DEF TypeOK, TakeStatus, askVars
<1>2. CASE SettlePeriodEnds
  BY <1>2 DEF TypeOK, SettlePeriodEnds, askVars
<1>3. CASE TakeUpdate
  <2> DEFINE update == Head(jabber_events)
             u      == Bare[update.jid]
             known  == realraum_jids[u] # NoUser
             user   == updateJidData(IF known THEN realraum_jids[u] ELSE NewUser, update)
  <2>1. update \in Updates /\ jabber_events' \in Seq(Updates)
          /\ Len(jabber_events') <= JabberCap
    BY <1>3, TailLeaves DEF TakeUpdate
  <2>2. u \in Users
    BY <2>1 DEF Updates
  <2>3. user \in Settings
    BY <2>1, <2>2 DEF TypeOK, Updates, updateJidData, NewUser, Settings, Wants
  <2>4. /\ realraum_jids' \in [Users -> Settings \cup {NoUser}]
        /\ config_file' \in [Users -> Wants \cup {NoUser}] /\ unsaved' \in BOOLEAN
    <3>1. CASE realraum_jids' = [realraum_jids EXCEPT ![u] = user]
                 /\ saveTo(realraum_jids')
      <4>1. realraum_jids' \in [Users -> Settings \cup {NoUser}]
        BY <3>1, <2>2, <2>3 DEF TypeOK
      <4> QED
        BY <3>1, <4>1, SaveType
    <3>2. CASE UNCHANGED <<realraum_jids, fileVars>>
      BY <3>2 DEF TypeOK
    <3> QED  BY <1>3, <3>1, <3>2 DEF TakeUpdate
  <2>5. told' \subseteq Users
    BY <1>3, <2>2 DEF TakeUpdate, TypeOK
  <2> QED  BY <1>3, <2>1, <2>4, <2>5 DEF TakeUpdate, TypeOK, askVars
<1>4. CASE Stop
  BY <1>4 DEF TypeOK, Stop, askVars
<1>5. CASE Drain
  <2>1. /\ jabber_events' \in Seq(Updates)
        /\ Len(jabber_events') <= JabberCap
        /\ Bare[Head(jabber_events).jid] \in Users
    BY <1>5, TailLeaves DEF Drain, Updates
  <2>2. WhatTheyWant(realraum_jids) \in [Users -> Wants \cup {NoUser}]
    BY WhatTheyWantType DEF TypeOK
  <2> QED  BY <1>5, <2>1, <2>2 DEF TypeOK, Drain, handlerVars
<1>6. ASSUME NEW j \in Jids, NEW wanted \in Commands, WantsCommand(j, wanted)
      PROVE  TypeOK'
  <2>1. [Says(j, TRUE) EXCEPT !.wants = wanted] \in Updates
    BY SaysUpdates
  <2>2. jabber_events' \in Seq(Updates) /\ Len(jabber_events') <= JabberCap
    BY <1>6, <2>1, TellAppends DEF WantsCommand
  <2> QED  BY <1>6, <2>2 DEF TypeOK, WantsCommand, handlerVars
<1>7. ASSUME NEW j \in Jids, OtherCommand(j)
      PROVE  TypeOK'
  <2>1. PICK s \in BOOLEAN : Tell([Says(j, TRUE) EXCEPT !.statusNow = s])
    BY <1>7 DEF OtherCommand
  <2>2. [Says(j, TRUE) EXCEPT !.statusNow = s] \in Updates
    BY SaysUpdates DEF Wants
  <2>3. jabber_events' \in Seq(Updates) /\ Len(jabber_events') <= JabberCap
    BY <2>1, <2>2, TellAppends
  <2> QED  BY <1>7, <2>3 DEF TypeOK, OtherCommand, handlerVars, askVars
<1>8. ASSUME NEW j \in Jids, Auth(j) \/ LoginEnds(j)
      PROVE  TypeOK'
  BY <1>8 DEF TypeOK, Auth, LoginEnds, handlerVars
<1>9. ASSUME NEW j \in Jids,
             \/ Available(j) \/ Unavailable(j) \/ Undeliverable(j)
             \/ Subscribe(j) \/ Unsubscribe(j)
      PROVE  TypeOK'
  <2>1. PICK update \in Updates : Tell(update)
    <3>1. /\ Says(j, TRUE) \in Updates /\ Says(j, FALSE) \in Updates
          /\ [Says(j, FALSE) EXCEPT !.wants = "never"] \in Updates
      BY SaysUpdates DEF Wants
    <3> QED  BY <1>9, <3>1 DEF Available, Unavailable, Undeliverable, Subscribe,
                     Unsubscribe
  <2>2. jabber_events' \in Seq(Updates) /\ Len(jabber_events') <= JabberCap
    BY <2>1, TellAppends
  <2>3. online' \subseteq Jids
    BY <1>9 DEF TypeOK, Available, Unavailable, Undeliverable, Subscribe,
                     Unsubscribe
  <2>4. lastauthtime' \subseteq Jids
    BY <1>9 DEF TypeOK, Available, Unavailable, Undeliverable, Subscribe,
                     Unsubscribe
  <2>5. asked' \in [Users -> Wants \cup {NoUser}]
    <3>1. asked' = asked \/ asked' = [asked EXCEPT ![Bare[j]] = "never"]
      BY <1>9 DEF Available, Unavailable, Undeliverable, Subscribe,
                     Unsubscribe
    <3> QED  BY <3>1 DEF TypeOK, Wants
  <2>7. subscribed' \subseteq Users
    <3>1. subscribed' = subscribed \/ subscribed' = subscribed \cup {Bare[j]}
      BY <1>9 DEF Available, Unavailable, Undeliverable, Subscribe, Unsubscribe
    <3> QED
      BY <3>1 DEF TypeOK
  <2>6. UNCHANGED handlerVars /\ UNCHANGED proven
    BY <1>9 DEF Available, Unavailable, Undeliverable, Subscribe,
                     Unsubscribe
  <2> QED  BY <2>2, <2>3, <2>4, <2>5, <2>6, <2>7 DEF TypeOK, handlerVars
<1>10. CASE NewBot
  <2>1. PICK gone \in SUBSET Users, lost \in BOOLEAN :
          /\ config_file' = IF lost THEN NoSettings ELSE config_file
          /\ realraum_jids' = Loaded(config_file', gone)
    BY <1>10 DEF NewBot
  <2>2. config_file' \in [Users -> Wants \cup {NoUser}]
    BY <2>1 DEF TypeOK, NoSettings
  <2>3. realraum_jids' \in [Users -> Settings \cup {NoUser}]
    BY <2>1, <2>2, LoadedType
  <2>4. WhatTheyWant(realraum_jids') \in [Users -> Wants \cup {NoUser}]
    BY <2>3, WhatTheyWantType
  <2>5. asked' \in [Users -> Wants \cup {NoUser}]
    BY <1>10, <2>4 DEF NewBot, TypeOK
  <2>6. jabber_events' \in Seq(Updates) /\ Len(jabber_events') <= JabberCap
    BY <1>10 DEF NewBot
  <2> QED  BY <1>10, <2>2, <2>3, <2>5, <2>6 DEF NewBot, TypeOK
<1>11. CASE UNCHANGED vars
  BY <1>11 DEF TypeOK, vars
<1> QED
  BY <1>1, <1>1s, <1>2, <1>3, <1>4, <1>5, <1>6, <1>7, <1>8, <1>9, <1>10, <1>11
     DEF Next, HandleEvents, HandleStanzas

LEMMA InitTypes == Init => TypeOK
<1> SUFFICES ASSUME Init PROVE TypeOK
  OBVIOUS
<1>1. jabber_events \in Seq(Updates) /\ Len(jabber_events) <= JabberCap
  BY DEF Init
<1>2. NoSettings \in [Users -> {NoUser}]
  BY DEF NoSettings
<1> QED  BY <1>1, <1>2 DEF Init, TypeOK

(* The settings, the queue, the logins and the file hold what they should. *)
THEOREM TypeCorrect == Spec => []TypeOK
  BY InitTypes, TypeStep, PTL DEF Spec
-----------------------------------------------------------------------------
LEMMA NoUserIsNoWish == NoUser \notin Enabled
  BY DEF Enabled

LEMMA HearsEnabled ==
  ASSUME NEW user \in Settings, NEW level, Hears(user, level)
  PROVE  user.wants \in Enabled
  BY DEF Hears, Settings, Enabled, Wants

(* An update of a user who has given the password, or one that needs none. *)
LEMMA TellKeepsProven ==
  ASSUME TypeOK, UpdatesProven, NEW update \in Updates, Tell(update),
         proven \subseteq proven',
         Bare[update.jid] \in proven' \/ (update.wants \notin Enabled /\ ~update.statusNow)
  PROVE  UpdatesProven'
<1> SUFFICES ASSUME NEW i \in 1 .. Len(jabber_events')
             PROVE  \/ Bare[jabber_events'[i].jid] \in proven'
                    \/ jabber_events'[i].wants \notin Enabled /\ ~jabber_events'[i].statusNow
  BY DEF UpdatesProven
<1>1. CASE i = Len(jabber_events) + 1
  BY <1>1, TellAppends
<1>2. CASE i # Len(jabber_events) + 1
  <2>1. i \in 1 .. Len(jabber_events) /\ jabber_events'[i] = jabber_events[i]
    BY <1>2, TellAppends DEF TypeOK
  <2> QED  BY <2>1 DEF UpdatesProven
<1> QED  BY <1>1, <1>2

LEMMA TailKeepsProven ==
  ASSUME TypeOK, UpdatesProven, jabber_events # <<>>,
         jabber_events' = Tail(jabber_events), proven' = proven
  PROVE  UpdatesProven'
<1> SUFFICES ASSUME NEW i \in 1 .. Len(jabber_events')
             PROVE  \/ Bare[jabber_events'[i].jid] \in proven'
                    \/ jabber_events'[i].wants \notin Enabled /\ ~jabber_events'[i].statusNow
  BY DEF UpdatesProven
<1>1. i + 1 \in 1 .. Len(jabber_events) /\ jabber_events'[i] = jabber_events[i + 1]
  BY TailLeaves DEF TypeOK
<1> QED  BY <1>1 DEF UpdatesProven

LEMMA PasswordStep == PasswordInvariant /\ [Next]_vars => PasswordInvariant'
<1> SUFFICES ASSUME PasswordInvariant, [Next]_vars PROVE PasswordInvariant'
  OBVIOUS
<1>t. TypeOK /\ TypeOK'
  BY TypeStep DEF PasswordInvariant
<1> USE DEF PasswordInvariant
<1>1. CASE TakeMessage
  <2>1. told' \subseteq proven
    <3> SUFFICES ASSUME NEW u \in told', u \notin told PROVE u \in proven
      BY DEF ToldOnlyByPassword
    <3>1. PICK level : /\ u \in Users /\ realraum_jids[u] # NoUser
                       /\ Hears(realraum_jids[u], level)
      BY <1>1 DEF TakeMessage
    <3>2. realraum_jids[u] \in Settings
      BY <1>t, <3>1 DEF TypeOK
    <3> QED  BY <3>1, <3>2, HearsEnabled DEF EnabledIn, WhatTheyWant
  <2> QED
    BY <1>1, <1>t, <2>1 DEF TakeMessage, askVars, EnabledIn, UpdatesProven, LoginsProven,
                            ToldOnlyByPassword
<1>1s. CASE TakeStatus
  <2>1. shown' \subseteq subscribed
    BY <1>1s DEF TakeStatus, ToldOnlyByPassword
  <2> QED
    BY <1>1s, <1>t, <2>1 DEF TakeStatus, askVars, EnabledIn, UpdatesProven, LoginsProven,
                             ToldOnlyByPassword
<1>2. CASE SettlePeriodEnds
  BY <1>2, <1>t DEF SettlePeriodEnds, askVars, EnabledIn, UpdatesProven, LoginsProven,
                    ToldOnlyByPassword
<1>3. CASE TakeUpdate
  <2> DEFINE update == Head(jabber_events)
             u      == Bare[update.jid]
             known  == realraum_jids[u] # NoUser
             user   == updateJidData(IF known THEN realraum_jids[u] ELSE NewUser, update)
             recap  == /\ known /\ settled /\ ~realraum_jids[u].online
                       /\ user.online /\ user.wants = "recap"
  <2>1. /\ update \in Updates /\ u \in Users
        /\ u \in proven \/ (update.wants \notin Enabled /\ ~update.statusNow)
    <3>1. update \in Updates /\ update = jabber_events[1] /\ 1 \in 1 .. Len(jabber_events)
      BY <1>3, <1>t, TailLeaves DEF TakeUpdate, TypeOK
    <3> QED  BY <3>1 DEF UpdatesProven, Updates
  <2>2. user.wants \in Enabled => u \in proven
    <3>1. CASE update.wants = "same" /\ known
      BY <3>1, <2>1 DEF updateJidData, EnabledIn, WhatTheyWant
    <3>2. CASE update.wants = "same" /\ ~known
      BY <3>2 DEF updateJidData, NewUser, Enabled
    <3>3. CASE update.wants # "same"
      BY <3>3, <2>1 DEF updateJidData
    <3> QED  BY <3>1, <3>2, <3>3
  <2>3. /\ proven' = proven /\ lastauthtime' = lastauthtime
        /\ shown' = shown /\ subscribed' = subscribed
    BY <1>3 DEF TakeUpdate, askVars
  <2>4. EnabledIn(WhatTheyWant(realraum_jids))' /\ EnabledIn(config_file)'
    <3>1. CASE realraum_jids' = [realraum_jids EXCEPT ![u] = user]
                 /\ saveTo(realraum_jids')
      <4>1. EnabledIn(WhatTheyWant(realraum_jids))'
        <5> SUFFICES ASSUME NEW v \in Users, realraum_jids'[v] # NoUser,
                            realraum_jids'[v].wants \in Enabled
                     PROVE  v \in proven
          BY <2>3, NoUserIsNoWish DEF EnabledIn, WhatTheyWant
        <5>1. CASE v = u
          <6>1. realraum_jids'[v] = user
            BY <3>1, <1>t, <2>1, <5>1 DEF TypeOK
          <6> QED
            BY <2>2, <5>1, <6>1
        <5>2. CASE v # u
          <6>1. realraum_jids'[v] = realraum_jids[v]
            BY <3>1, <1>t, <5>2 DEF TypeOK
          <6> QED
            BY <6>1 DEF EnabledIn, WhatTheyWant
        <5> QED
          BY <5>1, <5>2
      <4>2. config_file' \in {WhatTheyWant(realraum_jids'), config_file, NoSettings}
        BY <3>1 DEF saveTo
      <4>3. EnabledIn(NoSettings)
        BY NoUserIsNoWish DEF EnabledIn, NoSettings
      <4> QED
        BY <2>3, <4>1, <4>2, <4>3 DEF EnabledIn
    <3>2. CASE UNCHANGED <<realraum_jids, fileVars>>
      BY <3>2, <2>3 DEF EnabledIn, WhatTheyWant
    <3> QED  BY <1>3, <3>1, <3>2 DEF TakeUpdate
  <2>5. UpdatesProven'
    BY <1>3, <1>t, <2>3, TailKeepsProven DEF TakeUpdate
  <2>6. ToldOnlyByPassword'
    <3>1. recap => u \in proven
      BY <2>2 DEF Enabled, Wants
    <3>2. told' = told \/ (told' = told \cup {u} /\ (update.statusNow \/ recap))
      BY <1>3 DEF TakeUpdate
    <3> QED  BY <2>1, <2>3, <3>1, <3>2 DEF ToldOnlyByPassword
  <2> QED  BY <1>t, <2>3, <2>4, <2>5, <2>6 DEF LoginsProven
<1>4. CASE Stop
  BY <1>4, <1>t DEF Stop, askVars, EnabledIn, UpdatesProven, LoginsProven,
                    ToldOnlyByPassword
<1>5. CASE Drain
  <2>1. UpdatesProven'
    BY <1>5, <1>t, TailKeepsProven DEF Drain
  <2> QED
    BY <1>5, <1>t, <2>1 DEF Drain, handlerVars, EnabledIn, LoginsProven,
                            ToldOnlyByPassword
<1>6. ASSUME NEW j \in Jids, NEW wanted \in Commands, WantsCommand(j, wanted)
      PROVE  PasswordInvariant'
  <2>1. [Says(j, TRUE) EXCEPT !.wants = wanted] \in Updates
          /\ [Says(j, TRUE) EXCEPT !.wants = wanted].jid = j
    BY SaysUpdates
  <2>2. Bare[j] \in proven /\ proven' = proven
    BY <1>6 DEF WantsCommand, LoginsProven
  <2>3. UpdatesProven'
    BY <1>6, <1>t, <2>1, <2>2, TellKeepsProven DEF WantsCommand
  <2> QED
    BY <1>6, <1>t, <2>3 DEF WantsCommand, handlerVars, EnabledIn, LoginsProven,
                            ToldOnlyByPassword
<1>7. ASSUME NEW j \in Jids, OtherCommand(j)
      PROVE  PasswordInvariant'
  <2>1. PICK s \in BOOLEAN : Tell([Says(j, TRUE) EXCEPT !.statusNow = s])
    BY <1>7 DEF OtherCommand
  <2>2. PICK update \in Updates : Tell(update) /\ update.jid = j
    <3>1. [Says(j, TRUE) EXCEPT !.statusNow = s] \in Updates
            /\ [Says(j, TRUE) EXCEPT !.statusNow = s].jid = j
      BY DEF Says, Updates
    <3> QED  BY <2>1, <3>1
  <2>3. Bare[j] \in proven /\ proven' = proven
    BY <1>7 DEF OtherCommand, LoginsProven, askVars
  <2>4. UpdatesProven'
    BY <1>t, <2>1, <2>2, <2>3, TellKeepsProven
  <2> QED
    BY <1>7, <1>t, <2>4 DEF OtherCommand, handlerVars, askVars, EnabledIn, LoginsProven,
                            ToldOnlyByPassword
<1>8. ASSUME NEW j \in Jids, Auth(j) \/ LoginEnds(j)
      PROVE  PasswordInvariant'
  <2>1. proven \subseteq proven' /\ UNCHANGED <<handlerVars, jabber_events, subscribed>>
    BY <1>8 DEF Auth, LoginEnds
  <2>2. LoginsProven'
    BY <1>8 DEF Auth, LoginEnds, LoginsProven
  <2> QED
    BY <1>t, <2>1, <2>2 DEF handlerVars, EnabledIn, UpdatesProven, ToldOnlyByPassword
<1>9. ASSUME NEW j \in Jids,
             \/ Available(j) \/ Unavailable(j) \/ Undeliverable(j)
             \/ Subscribe(j) \/ Unsubscribe(j)
      PROVE  PasswordInvariant'
  <2>1. PICK update \in Updates :
          Tell(update) /\ update.wants \notin Enabled /\ ~update.statusNow
    <3>1. /\ Says(j, TRUE) \in Updates /\ Says(j, FALSE) \in Updates
          /\ [Says(j, FALSE) EXCEPT !.wants = "never"] \in Updates
      BY SaysUpdates DEF Wants
    <3>2. /\ Says(j, TRUE).wants = "same" /\ Says(j, FALSE).wants = "same"
          /\ [Says(j, FALSE) EXCEPT !.wants = "never"].wants = "never"
          /\ ~Says(j, TRUE).statusNow /\ ~Says(j, FALSE).statusNow
          /\ ~[Says(j, FALSE) EXCEPT !.wants = "never"].statusNow
      BY DEF Says
    <3>3. "same" \notin Enabled /\ "never" \notin Enabled
      BY DEF Enabled, Wants
    <3> QED
      BY <1>9, <3>1, <3>2, <3>3
         DEF Available, Unavailable, Undeliverable, Subscribe, Unsubscribe
  <2>2. /\ proven' = proven /\ UNCHANGED handlerVars /\ lastauthtime' \subseteq lastauthtime
        /\ subscribed \subseteq subscribed'
    BY <1>9 DEF Available, Unavailable, Undeliverable, Subscribe, Unsubscribe
  <2>3. UpdatesProven'
    BY <1>t, <2>1, <2>2, TellKeepsProven
  <2> QED
    BY <1>t, <2>2, <2>3 DEF handlerVars, EnabledIn, LoginsProven, ToldOnlyByPassword
<1>10. CASE NewBot
  <2>1. PICK gone \in SUBSET Users, lost \in BOOLEAN :
          /\ config_file' = IF lost THEN NoSettings ELSE config_file
          /\ realraum_jids' = Loaded(config_file', gone)
    BY <1>10 DEF NewBot
  <2>2. /\ proven' = proven /\ told' = told /\ jabber_events' = <<>> /\ lastauthtime' = {}
        /\ shown' = shown /\ subscribed' = subscribed
    BY <1>10 DEF NewBot
  <2>3. EnabledIn(config_file)'
    BY <2>1, <2>2, NoUserIsNoWish DEF EnabledIn, NoSettings
  <2>4. EnabledIn(WhatTheyWant(realraum_jids))'
    <3> SUFFICES ASSUME NEW u \in Users, WhatTheyWant(realraum_jids')[u] \in Enabled
                 PROVE  u \in proven
      BY <2>2 DEF EnabledIn
    <3>1. config_file' \in [Users -> Wants \cup {NoUser}]
      BY <1>t DEF TypeOK
    <3>2. config_file'[u] = WhatTheyWant(realraum_jids')[u]
      BY <2>1, <3>1, LoadedType, NoUserIsNoWish
    <3> QED
      BY <2>2, <2>3, <3>2 DEF EnabledIn
  <2> QED
    BY <1>t, <2>2, <2>3, <2>4 DEF UpdatesProven, LoginsProven, ToldOnlyByPassword
<1>11. CASE UNCHANGED vars
  BY <1>11, <1>t DEF vars, EnabledIn, WhatTheyWant, UpdatesProven, LoginsProven, ToldOnlyByPassword
<1> QED
  BY <1>1, <1>1s, <1>2, <1>3, <1>4, <1>5, <1>6, <1>7, <1>8, <1>9, <1>10, <1>11
     DEF Next, HandleEvents, HandleStanzas

(* No user is sent a message who has not given the password in some life   *)
(* of the bot, and the bot's presence is shown to subscribers only: no     *)
(* password is asked of these.                                             *)
THEOREM OnlyByPassword == Spec => []ToldOnlyByPassword
<1>1. Init => PasswordInvariant
  <2> SUFFICES ASSUME Init PROVE PasswordInvariant
    OBVIOUS
  <2>1. TypeOK
    BY InitTypes
  <2>2. UpdatesProven
    BY DEF Init, UpdatesProven
  <2> QED
    BY <2>1, <2>2, NoUserIsNoWish DEF Init, PasswordInvariant, EnabledIn, WhatTheyWant,
                      NoSettings, LoginsProven, ToldOnlyByPassword
<1>2. PasswordInvariant => ToldOnlyByPassword
  BY DEF PasswordInvariant
<1> QED  BY <1>1, <1>2, PasswordStep, PTL DEF Spec
-----------------------------------------------------------------------------
(* When the last save succeeded the file says what the map says, of those  *)
(* who are in the map.                                                     *)
FileAgrees ==
  ~unsaved => \A u \in Users : realraum_jids[u] # NoUser =>
                config_file[u] = realraum_jids[u].wants

Of(u, i)      == Bare[jabber_events[i].jid] = u
Underway(u)   == \E i \in 1 .. Len(jabber_events) : Of(u, i)
WishStands(u) == asked[u] = WhatTheyWant(realraum_jids)[u]

(* The last wish of a user that is underway is what it asked for. *)
WishUnderway(u) ==
  \E i \in 1 .. Len(jabber_events) :
    /\ Of(u, i) /\ jabber_events[i].wants = asked[u] /\ asked[u] \in Wants
    /\ \A k \in 1 .. Len(jabber_events) :
         k > i /\ Of(u, k) => jabber_events[k].wants = "same"

NoWishUnderway(u) ==
  \A i \in 1 .. Len(jabber_events) : Of(u, i) => jabber_events[i].wants = "same"

(* While updates are taken a wish stands or is underway; while they are    *)
(* drained it stands when there is no update of its user.                  *)
WishKept(u) ==
  IF stopped THEN Underway(u) \/ WishStands(u)
             ELSE WishUnderway(u) \/ (NoWishUnderway(u) /\ WishStands(u))

WishInvariant == TypeOK /\ FileAgrees /\ \A u \in Users : WishKept(u)
-----------------------------------------------------------------------------
LEMMA WantsOf ==
  ASSUME NEW map, NEW u \in Users
  PROVE  WhatTheyWant(map)[u] = IF map[u] = NoUser THEN NoUser ELSE map[u].wants
  BY DEF WhatTheyWant

LEMMA SameIsNoWish == "same" \notin Wants
  BY DEF Wants

(* An update with a wish, of the user who asks for it. *)
LEMMA TellsWish ==
  ASSUME WishInvariant, NEW update \in Updates, Tell(update), update.wants \in Wants,
         asked' = [asked EXCEPT ![Bare[update.jid]] = update.wants],
         UNCHANGED handlerVars
  PROVE  \A u \in Users : WishKept(u)'
<1> SUFFICES ASSUME NEW u \in Users PROVE WishKept(u)'
  OBVIOUS
<1>t. TypeOK
  BY DEF WishInvariant
<1>k. WishKept(u)
  BY DEF WishInvariant
<1>q. /\ Len(jabber_events) \in Nat
      /\ Len(jabber_events') = Len(jabber_events) + 1
      /\ \A i \in 1 .. Len(jabber_events) : jabber_events'[i] = jabber_events[i]
      /\ jabber_events'[Len(jabber_events) + 1] = update
  BY <1>t, TellAppends DEF TypeOK
<1>n. PICK n \in Nat : n = Len(jabber_events) + 1
  BY <1>q
<1>1. CASE u = Bare[update.jid]
  <2>1. asked'[u] = update.wants
    BY <1>1, <1>t DEF TypeOK
  <2>2. n \in 1 .. Len(jabber_events') /\ Of(u, n)'
    BY <1>1, <1>q, <1>n DEF Of
  <2>3. Underway(u)'
    BY <2>2 DEF Underway
  <2>4. WishUnderway(u)'
    BY <1>q, <1>n, <2>1, <2>2 DEF WishUnderway
  <2> QED  BY <2>3, <2>4 DEF WishKept
<1>2. CASE u # Bare[update.jid]
  <2>1. asked'[u] = asked[u]
    BY <1>2, <1>t DEF TypeOK
  <2>2. ~Of(u, n)' /\ \A i \in 1 .. Len(jabber_events) : Of(u, i)' <=> Of(u, i)
    BY <1>2, <1>q, <1>n DEF Of
  <2>3. Underway(u) => Underway(u)'
    BY <1>q, <2>2 DEF Underway
  <2>4. WishStands(u)' <=> WishStands(u)
    BY <2>1 DEF WishStands, handlerVars
  <2>5. WishUnderway(u) => WishUnderway(u)'
    BY <1>q, <1>n, <2>1, <2>2 DEF WishUnderway
  <2>6. NoWishUnderway(u) => NoWishUnderway(u)'
    BY <1>q, <1>n, <2>2 DEF NoWishUnderway
  <2> QED  BY <1>k, <2>3, <2>4, <2>5, <2>6 DEF WishKept, handlerVars
<1> QED  BY <1>1, <1>2

(* An update without a wish changes nobody's. *)
LEMMA TellsNoWish ==
  ASSUME WishInvariant, NEW update \in Updates, Tell(update), update.wants = "same",
         UNCHANGED asked, UNCHANGED handlerVars
  PROVE  \A u \in Users : WishKept(u)'
<1> SUFFICES ASSUME NEW u \in Users PROVE WishKept(u)'
  OBVIOUS
<1>t. TypeOK
  BY DEF WishInvariant
<1>k. WishKept(u)
  BY DEF WishInvariant
<1>q. /\ Len(jabber_events) \in Nat
      /\ Len(jabber_events') = Len(jabber_events) + 1
      /\ \A i \in 1 .. Len(jabber_events) : jabber_events'[i] = jabber_events[i]
      /\ jabber_events'[Len(jabber_events) + 1] = update
  BY <1>t, TellAppends DEF TypeOK
<1>1. \A i \in 1 .. Len(jabber_events) : Of(u, i)' <=> Of(u, i)
  BY <1>q DEF Of
<1>2. Underway(u) => Underway(u)'
  BY <1>q, <1>1 DEF Underway
<1>3. WishStands(u)' <=> WishStands(u)
  BY DEF WishStands, handlerVars
<1>4. WishUnderway(u) => WishUnderway(u)'
  BY <1>q, <1>1 DEF WishUnderway
<1>5. NoWishUnderway(u) => NoWishUnderway(u)'
  BY <1>q, <1>1 DEF NoWishUnderway
<1> QED  BY <1>k, <1>2, <1>3, <1>4, <1>5 DEF WishKept, handlerVars

LEMMA TakeUpdateKeepsWishes ==
  ASSUME WishInvariant, TakeUpdate
  PROVE  FileAgrees' /\ \A u \in Users : WishKept(u)'
<1>t. TypeOK
  BY DEF WishInvariant
<1> DEFINE update == Head(jabber_events)
           uu     == Bare[update.jid]
           known  == realraum_jids[uu] # NoUser
           user   == updateJidData(IF known THEN realraum_jids[uu] ELSE NewUser, update)
<1>q. /\ update \in Updates /\ update = jabber_events[1]
      /\ Len(jabber_events) \in Nat /\ Len(jabber_events) >= 1
      /\ Len(jabber_events') = Len(jabber_events) - 1
      /\ \A i \in 1 .. Len(jabber_events') : jabber_events'[i] = jabber_events[i + 1]
  BY <1>t, TailLeaves DEF TakeUpdate, TypeOK
<1>u. uu \in Users
  BY <1>q DEF Updates
<1>s. ~stopped /\ ~stopped' /\ asked' = asked
  BY DEF TakeUpdate, askVars
<1>m. \/ /\ known \/ update.wants # "same"
         /\ realraum_jids' = [realraum_jids EXCEPT ![uu] = user]
         /\ saveTo(realraum_jids')
      \/ ~known /\ update.wants = "same" /\ UNCHANGED <<realraum_jids, fileVars>>
  BY DEF TakeUpdate
<1>w. user \in Settings /\ user # NoUser
        /\ user.wants = IF update.wants = "same"
                          THEN IF known THEN realraum_jids[uu].wants ELSE "never"
                          ELSE update.wants
  BY <1>t, <1>q, <1>u DEF TypeOK, Updates, updateJidData, NewUser, Settings, Wants
<1>f. FileAgrees'
  <2>1. CASE saveTo(realraum_jids')
    BY <2>1, WantsOf DEF saveTo, FileAgrees
  <2>2. CASE UNCHANGED <<realraum_jids, fileVars>>
    BY <2>2 DEF WishInvariant, FileAgrees
  <2> QED
    BY <1>m, <2>1, <2>2
<1>1. ASSUME NEW u \in Users, u # uu
      PROVE  realraum_jids'[u] = realraum_jids[u]
  BY <1>1, <1>m, <1>t, <1>u DEF TypeOK
<1>2. update.wants = "same" => WhatTheyWant(realraum_jids')[uu] = WhatTheyWant(realraum_jids)[uu]
  BY <1>m, <1>w, <1>u, <1>t, WantsOf DEF TypeOK
<1>3. update.wants # "same" => WhatTheyWant(realraum_jids')[uu] = update.wants
  BY <1>m, <1>w, <1>u, <1>t, WantsOf DEF TypeOK
<1> SUFFICES ASSUME NEW u \in Users PROVE WishKept(u)'
  BY <1>f
<1>k. WishUnderway(u) \/ (NoWishUnderway(u) /\ WishStands(u))
  BY <1>s DEF WishInvariant, WishKept
<1>o. \A i \in 1 .. Len(jabber_events') : Of(u, i)' <=> Of(u, i + 1)
  BY <1>q DEF Of
<1>4. CASE NoWishUnderway(u) /\ WishStands(u)
  <2>1. NoWishUnderway(u)'
    BY <1>4, <1>q, <1>o DEF NoWishUnderway
  <2>2. u = uu => update.wants = "same"
    BY <1>4, <1>q DEF NoWishUnderway, Of
  <2>3. WhatTheyWant(realraum_jids')[u] = WhatTheyWant(realraum_jids)[u]
    BY <1>1, <1>2, <2>2, WantsOf
  <2>4. WishStands(u)'
    BY <1>4, <2>3, <1>s DEF WishStands
  <2> QED  BY <1>s, <2>1, <2>4 DEF WishKept
<1>5. CASE WishUnderway(u)
  <2>1. PICK i \in 1 .. Len(jabber_events) :
          /\ Of(u, i) /\ jabber_events[i].wants = asked[u] /\ asked[u] \in Wants
          /\ \A k \in 1 .. Len(jabber_events) :
               k > i /\ Of(u, k) => jabber_events[k].wants = "same"
    BY <1>5 DEF WishUnderway
  <2>2. CASE i = 1
    <3>1. NoWishUnderway(u)'
      BY <2>1, <2>2, <1>q, <1>o DEF NoWishUnderway
    <3>2. u = uu /\ update.wants = asked[u] /\ update.wants # "same"
      BY <2>1, <2>2, <1>q, SameIsNoWish DEF Of
    <3>3. WishStands(u)'
      BY <3>2, <1>3, <1>s DEF WishStands
    <3> QED  BY <1>s, <3>1, <3>3 DEF WishKept
  <2>3. CASE i # 1
    <3>1. i - 1 \in 1 .. Len(jabber_events') /\ Of(u, i - 1)'
            /\ jabber_events'[i - 1].wants = asked'[u]
      BY <2>1, <2>3, <1>q, <1>o, <1>s
    <3>2. ASSUME NEW k \in 1 .. Len(jabber_events'), k > i - 1, Of(u, k)'
          PROVE  jabber_events'[k].wants = "same"
      BY <2>1, <3>2, <1>q, <1>o
    <3>3. WishUnderway(u)'
      BY <2>1, <3>1, <3>2, <1>s DEF WishUnderway
    <3> QED  BY <1>s, <3>3 DEF WishKept
  <2> QED  BY <2>2, <2>3
<1> QED  BY <1>k, <1>4, <1>5

LEMMA DrainKeepsWishes ==
  ASSUME WishInvariant, Drain
  PROVE  \A u \in Users : WishKept(u)'
<1> SUFFICES ASSUME NEW u \in Users PROVE WishKept(u)'
  OBVIOUS
<1>t. TypeOK
  BY DEF WishInvariant
<1> DEFINE uu == Bare[Head(jabber_events).jid]
<1>q. /\ uu \in Users /\ uu = Bare[jabber_events[1].jid]
      /\ Len(jabber_events) \in Nat /\ Len(jabber_events) >= 1
      /\ Len(jabber_events') = Len(jabber_events) - 1
      /\ \A i \in 1 .. Len(jabber_events') : jabber_events'[i] = jabber_events[i + 1]
  BY <1>t, TailLeaves DEF Drain, TypeOK, Updates
<1>s. stopped /\ stopped' /\ realraum_jids' = realraum_jids
        /\ asked' = [asked EXCEPT ![uu] = WhatTheyWant(realraum_jids)[uu]]
  BY DEF Drain, handlerVars
<1>k. Underway(u) \/ WishStands(u)
  BY <1>s DEF WishInvariant, WishKept
<1>1. CASE u = uu
  <2>1. WishStands(u)'
    BY <1>1, <1>s, <1>t, <1>q DEF WishStands, TypeOK
  <2> QED  BY <2>1, <1>s DEF WishKept
<1>2. CASE u # uu
  <2>1. WishStands(u) => WishStands(u)'
    BY <1>2, <1>s, <1>t, <1>q DEF WishStands, TypeOK
  <2>2. ASSUME Underway(u) PROVE Underway(u)'
    <3>1. PICK i \in 1 .. Len(jabber_events) : Of(u, i)
      BY <2>2 DEF Underway
    <3>2. i # 1
      BY <3>1, <1>2, <1>q DEF Of
    <3>3. i - 1 \in 1 .. Len(jabber_events') /\ jabber_events'[i - 1] = jabber_events[i]
      BY <3>2, <1>q
    <3>4. Of(u, i - 1)'
      BY <3>1, <3>3 DEF Of
    <3> QED  BY <3>3, <3>4 DEF Underway
  <2> QED  BY <1>k, <1>s, <2>1, <2>2 DEF WishKept
<1> QED  BY <1>1, <1>2

LEMMA NewBotKeepsWishes ==
  ASSUME WishInvariant, NewBot
  PROVE  FileAgrees' /\ \A u \in Users : WishKept(u)'
<1>t. TypeOK
  BY DEF WishInvariant
<1>1. PICK gone \in SUBSET Users, lost \in BOOLEAN :
        LET underway == {Bare[jabber_events[i].jid] : i \in DOMAIN jabber_events}
            behind   == {u \in Users :
                           unsaved /\ config_file[u] # WhatTheyWant(realraum_jids)[u]}
            anew     == {u \in Users : lost \/ u \in gone \cup underway \cup behind
                                            \/ realraum_jids[u] = NoUser}
        IN  /\ config_file' = IF lost THEN NoSettings ELSE config_file
            /\ realraum_jids' = Loaded(config_file', gone)
            /\ asked' = [u \in Users |-> IF u \in anew
                                           THEN WhatTheyWant(realraum_jids')[u]
                                           ELSE asked[u]]
  BY DEF NewBot
<1>2. config_file' \in [Users -> Wants \cup {NoUser}]
  BY <1>1, <1>t DEF TypeOK, NoSettings
<1>l. \A u \in Users :
        /\ WhatTheyWant(realraum_jids')[u] = IF u \in gone THEN NoUser ELSE config_file'[u]
        /\ realraum_jids'[u] = NoUser <=> config_file'[u] = NoUser \/ u \in gone
  BY <1>1, <1>2, LoadedType
<1>3. FileAgrees'
  BY <1>l, WantsOf DEF FileAgrees
<1> SUFFICES ASSUME NEW u \in Users PROVE WishKept(u)'
  BY <1>3
<1>q. jabber_events' = <<>> /\ ~stopped'
  BY DEF NewBot
<1>4. NoWishUnderway(u)'
  BY <1>q DEF NoWishUnderway
<1>5. WishStands(u)'
  <2> DEFINE isBehind == unsaved /\ config_file[u] # WhatTheyWant(realraum_jids)[u]
  <2>1. CASE \/ lost \/ u \in gone \/ realraum_jids[u] = NoUser \/ isBehind
             \/ u \in {Bare[jabber_events[i].jid] : i \in DOMAIN jabber_events}
    BY <1>1, <2>1 DEF WishStands
  <2>2. CASE /\ ~lost /\ u \notin gone /\ realraum_jids[u] # NoUser /\ ~isBehind
             /\ u \notin {Bare[jabber_events[i].jid] : i \in DOMAIN jabber_events}
    <3>1. asked'[u] = asked[u]
      BY <1>1, <2>2
    <3>2. ~Underway(u) /\ ~WishUnderway(u)
      BY <2>2, <1>t DEF Underway, WishUnderway, Of, TypeOK
    <3>3. asked[u] = realraum_jids[u].wants
      BY <3>2, <2>2, WantsOf DEF WishInvariant, WishKept, WishStands
    <3>4. config_file'[u] = realraum_jids[u].wants
      <4>1. config_file' = config_file
        BY <1>1, <2>2
      <4>2. CASE unsaved
        BY <2>2, <4>1, <4>2, WantsOf
      <4>3. CASE ~unsaved
        BY <2>2, <4>1, <4>3 DEF WishInvariant, FileAgrees
      <4> QED
        BY <4>2, <4>3
    <3>5. WhatTheyWant(realraum_jids')[u] = config_file'[u]
      BY <1>l, <2>2
    <3> QED  BY <3>1, <3>3, <3>4, <3>5 DEF WishStands
  <2> QED  BY <2>1, <2>2
<1> QED  BY <1>q, <1>4, <1>5 DEF WishKept

LEMMA WishStep == WishInvariant /\ [Next]_vars => WishInvariant'
<1> SUFFICES ASSUME WishInvariant, [Next]_vars PROVE WishInvariant'
  OBVIOUS
<1>t. TypeOK /\ TypeOK'
  BY TypeStep DEF WishInvariant
<1>f. UNCHANGED <<realraum_jids, fileVars>> => FileAgrees'
  BY DEF WishInvariant, FileAgrees
<1>k. ASSUME UNCHANGED <<jabber_events, realraum_jids, asked, stopped>>
      PROVE  \A u \in Users : WishKept(u)'
  BY <1>k DEF WishInvariant, WishKept, Underway, WishStands, WishUnderway,
              NoWishUnderway, Of
<1>1. CASE TakeMessage \/ TakeStatus \/ SettlePeriodEnds
  BY <1>1, <1>t, <1>f, <1>k DEF TakeMessage, TakeStatus, SettlePeriodEnds, askVars,
                                WishInvariant
<1>2. CASE TakeUpdate
  BY <1>2, <1>t, TakeUpdateKeepsWishes DEF WishInvariant
<1>3. CASE Stop
  <2>1. ASSUME NEW u \in Users PROVE WishKept(u)'
    <3>1. WishUnderway(u) \/ WishStands(u)
      BY <1>3 DEF WishInvariant, WishKept, Stop
    <3>2. Underway(u)' \/ WishStands(u)'
      BY <1>3, <3>1 DEF Underway, WishUnderway, WishStands, Stop, Of, askVars
    <3> QED  BY <1>3, <3>2 DEF WishKept, Stop
  <2> QED  BY <1>3, <1>t, <1>f, <2>1 DEF Stop, WishInvariant
<1>4. CASE Drain
  BY <1>4, <1>t, <1>f, DrainKeepsWishes DEF Drain, handlerVars, WishInvariant
<1>5. ASSUME NEW j \in Jids, NEW wanted \in Commands, WantsCommand(j, wanted)
      PROVE  WishInvariant'
  <2>1. PICK update \in Updates :
          Tell(update) /\ update.jid = j /\ update.wants = wanted
    <3>1. /\ [Says(j, TRUE) EXCEPT !.wants = wanted] \in Updates
          /\ [Says(j, TRUE) EXCEPT !.wants = wanted].jid = j
          /\ [Says(j, TRUE) EXCEPT !.wants = wanted].wants = wanted
      BY DEF Says, Updates
    <3> QED  BY <1>5, <3>1 DEF WantsCommand
  <2>2. \A u \in Users : WishKept(u)'
    BY <1>5, <2>1, TellsWish DEF WantsCommand
  <2> QED  BY <1>5, <1>t, <1>f, <2>2 DEF WantsCommand, handlerVars, WishInvariant
<1>6. ASSUME NEW j \in Jids, Unsubscribe(j)
      PROVE  WishInvariant'
  <2>1. PICK update \in Updates :
          Tell(update) /\ update.jid = j /\ update.wants = "never"
    <3>1. /\ [Says(j, FALSE) EXCEPT !.wants = "never"] \in Updates
          /\ [Says(j, FALSE) EXCEPT !.wants = "never"].jid = j
          /\ [Says(j, FALSE) EXCEPT !.wants = "never"].wants = "never"
      BY DEF Says, Updates, Wants
    <3> QED  BY <1>6, <3>1 DEF Unsubscribe
  <2>2. \A u \in Users : WishKept(u)'
    BY <1>6, <2>1, TellsWish DEF Unsubscribe, Wants
  <2> QED  BY <1>6, <1>t, <1>f, <2>2 DEF Unsubscribe, handlerVars, WishInvariant
<1>7. ASSUME NEW j \in Jids,
             \/ OtherCommand(j) \/ Available(j) \/ Unavailable(j) \/ Undeliverable(j)
             \/ Subscribe(j)
      PROVE  WishInvariant'
  <2>1. PICK update \in Updates : Tell(update) /\ update.wants = "same"
    <3>1. \A s \in BOOLEAN : /\ [Says(j, TRUE) EXCEPT !.statusNow = s] \in Updates
                             /\ [Says(j, TRUE) EXCEPT !.statusNow = s].wants = "same"
      BY DEF Says, Updates
    <3>2. \A b \in BOOLEAN : Says(j, b) \in Updates /\ Says(j, b).wants = "same"
      BY DEF Says, Updates
    <3> QED
      BY <1>7, <3>1, <3>2 DEF OtherCommand, Available, Unavailable, Undeliverable, Subscribe
  <2>2. UNCHANGED asked /\ UNCHANGED handlerVars
    BY <1>7 DEF OtherCommand, Available, Unavailable, Undeliverable, Subscribe, askVars
  <2>3. \A u \in Users : WishKept(u)'
    BY <2>1, <2>2, TellsNoWish
  <2> QED  BY <1>t, <1>f, <2>2, <2>3 DEF handlerVars, WishInvariant
<1>8. ASSUME NEW j \in Jids, Auth(j) \/ LoginEnds(j)
      PROVE  WishInvariant'
  BY <1>8, <1>t, <1>f, <1>k DEF Auth, LoginEnds, handlerVars, WishInvariant
<1>9. CASE NewBot
  BY <1>9, <1>t, NewBotKeepsWishes DEF WishInvariant
<1>10. CASE UNCHANGED vars
  BY <1>10, <1>t, <1>f, <1>k DEF vars, WishInvariant
<1> QED
  BY <1>1, <1>2, <1>3, <1>4, <1>5, <1>6, <1>7, <1>8, <1>9, <1>10
     DEF Next, HandleEvents, HandleStanzas

(* A user's last wish holds when the updates are taken: whatever stanzas   *)
(* come in between, however many updates wait and wherever a restart       *)
(* falls.  Of failed saves only the last before a restart can take wishes  *)
(* away, and only those that its file does not hold.                       *)
THEOREM WishesHold == Spec => []LastWishHolds
<1>1. Init => WishInvariant
  <2> SUFFICES ASSUME Init PROVE WishInvariant
    OBVIOUS
  <2>1. TypeOK /\ FileAgrees
    BY InitTypes DEF Init, FileAgrees, NoSettings
  <2>2. \A u \in Users : NoWishUnderway(u)
    BY DEF Init, NoWishUnderway
  <2>3. \A u \in Users : WishStands(u)
    BY WantsOf DEF Init, WishStands, NoSettings
  <2> QED  BY <2>1, <2>2, <2>3 DEF Init, WishInvariant, WishKept
<1>2. WishInvariant => LastWishHolds
  <2> SUFFICES ASSUME WishInvariant, jabber_events = <<>>
               PROVE  WhatTheyWant(realraum_jids) = asked
    BY DEF LastWishHolds
  <2>1. \A u \in Users : ~Underway(u) /\ ~WishUnderway(u)
    BY DEF Underway, WishUnderway
  <2>2. \A u \in Users : WhatTheyWant(realraum_jids)[u] = asked[u]
    BY <2>1 DEF WishInvariant, WishKept, WishStands
  <2>3. asked \in [Users -> Wants \cup {NoUser}]
    BY DEF WishInvariant, TypeOK
  <2> QED  BY <2>2, <2>3 DEF WhatTheyWant
<1> QED  BY <1>1, <1>2, WishStep, PTL DEF Spec
-----------------------------------------------------------------------------
(* Who is online has said so last: in an update that waits, or in one that *)
(* was taken.                                                              *)
Single(j) == \A k \in Jids : Bare[k] = Bare[j] => k = j

CountsOnline(u) == realraum_jids[u] = NoUser \/ realraum_jids[u].online

OnlineAfter(j, i) ==
  \A k \in 1 .. Len(jabber_events) :
    k > i /\ jabber_events[k].jid = j => jabber_events[k].online

SaysOnline(j) ==
  \E i \in 1 .. Len(jabber_events) :
    jabber_events[i].jid = j /\ jabber_events[i].online /\ OnlineAfter(j, i)

KnownOnline(j) ==
  SaysOnline(j) \/ (OnlineAfter(j, 0) /\ CountsOnline(Bare[j]))

OnlineInvariant ==
  /\ TypeOK
  /\ ~stopped => \A j \in online : Single(j) => KnownOnline(j)

LEMMA QueueTold ==
  ASSUME TypeOK, NEW update \in Updates, Tell(update)
  PROVE  /\ Len(jabber_events) \in Nat
         /\ Len(jabber_events') = Len(jabber_events) + 1
         /\ \A i \in 1 .. Len(jabber_events) : jabber_events'[i] = jabber_events[i]
         /\ jabber_events'[Len(jabber_events) + 1] = update
  BY TellAppends DEF TypeOK

(* Who says it is online is, once the updates are taken. *)
LEMMA SaysItNow ==
  ASSUME TypeOK, NEW update \in Updates, Tell(update), update.online
  PROVE  KnownOnline(update.jid)'
<1>1. PICK n \in Nat : n = Len(jabber_events) + 1
  BY DEF TypeOK
<1>2. /\ n \in 1 .. Len(jabber_events') /\ jabber_events'[n] = update
      /\ \A k \in 1 .. Len(jabber_events') : ~(k > n)
  BY <1>1, QueueTold
<1>3. OnlineAfter(update.jid, n)'
  BY <1>2 DEF OnlineAfter
<1> QED
  BY <1>2, <1>3 DEF SaysOnline, KnownOnline

(* An update of another JID, or one that says online, takes nothing back.  *)
LEMMA SaysNothingElse ==
  ASSUME TypeOK, NEW update \in Updates, Tell(update), UNCHANGED realraum_jids,
         NEW j \in Jids, j # update.jid \/ update.online, KnownOnline(j)
  PROVE  KnownOnline(j)'
<1>q. /\ Len(jabber_events) \in Nat
      /\ Len(jabber_events') = Len(jabber_events) + 1
      /\ \A i \in 1 .. Len(jabber_events) : jabber_events'[i] = jabber_events[i]
      /\ jabber_events'[Len(jabber_events) + 1] = update
  BY QueueTold
<1>1. ASSUME NEW i \in Nat, OnlineAfter(j, i) PROVE OnlineAfter(j, i)'
  <2> SUFFICES ASSUME NEW k \in 1 .. Len(jabber_events'), k > i, jabber_events'[k].jid = j
               PROVE  jabber_events'[k].online
    BY DEF OnlineAfter
  <2>1. CASE k = Len(jabber_events) + 1
    BY <2>1, <1>q
  <2>2. CASE k # Len(jabber_events) + 1
    <3>1. k \in 1 .. Len(jabber_events) /\ jabber_events'[k] = jabber_events[k]
      BY <2>2, <1>q
    <3> QED
      BY <1>1, <3>1 DEF OnlineAfter
  <2> QED
    BY <2>1, <2>2
<1>2. CASE SaysOnline(j)
  <2>1. PICK i \in 1 .. Len(jabber_events) :
          jabber_events[i].jid = j /\ jabber_events[i].online /\ OnlineAfter(j, i)
    BY <1>2 DEF SaysOnline
  <2>2. i \in 1 .. Len(jabber_events') /\ jabber_events'[i] = jabber_events[i]
    BY <1>q, <2>1
  <2>3. OnlineAfter(j, i)'
    BY <1>1, <2>1
  <2> QED
    BY <2>1, <2>2, <2>3 DEF SaysOnline, KnownOnline
<1>3. CASE OnlineAfter(j, 0) /\ CountsOnline(Bare[j])
  <2>1. OnlineAfter(j, 0)'
    BY <1>1, <1>3
  <2> QED
    BY <1>3, <2>1 DEF KnownOnline, CountsOnline
<1> QED
  BY <1>2, <1>3 DEF KnownOnline

(* The update that is taken counts from now on. *)
LEMMA TakenCounts ==
  ASSUME TypeOK, TakeUpdate, NEW j \in Jids, Single(j), KnownOnline(j)
  PROVE  KnownOnline(j)'
<1> DEFINE update == Head(jabber_events)
           uu     == Bare[update.jid]
           known  == realraum_jids[uu] # NoUser
           user   == updateJidData(IF known THEN realraum_jids[uu] ELSE NewUser, update)
<1>q. /\ update \in Updates /\ update = jabber_events[1]
      /\ Len(jabber_events) \in Nat /\ Len(jabber_events) >= 1
      /\ Len(jabber_events') = Len(jabber_events) - 1
      /\ \A i \in 1 .. Len(jabber_events') : jabber_events'[i] = jabber_events[i + 1]
  BY TailLeaves DEF TakeUpdate, TypeOK
<1>u. uu \in Users /\ Bare[j] \in Users /\ update.jid \in Jids
  BY <1>q, XmppUsersAssumption DEF Updates
<1>r. PICK r \in Users : r = uu
  BY <1>u
<1>m. \/ realraum_jids' = [realraum_jids EXCEPT ![uu] = user]
      \/ ~known /\ UNCHANGED realraum_jids
  BY DEF TakeUpdate
<1>1. user.online = update.online
  BY DEF updateJidData
<1>2. update.online => CountsOnline(r)'
  <2>1. realraum_jids'[r] = user \/ realraum_jids'[r] = NoUser
    <3> HIDE DEF user
    <3> QED
      BY <1>m, <1>u, <1>r DEF TypeOK
  <2>2. realraum_jids'[r].online = user.online \/ realraum_jids'[r] = NoUser
    BY <2>1
  <2> QED
    BY <1>1, <2>2 DEF CountsOnline
<1>3. update.jid # j /\ CountsOnline(Bare[j]) => CountsOnline(Bare[j])'
  <2>1. update.jid # j => Bare[j] # uu
    BY <1>u DEF Single
  <2> HIDE DEF user
  <2> QED
    BY <1>m, <1>u, <2>1 DEF CountsOnline, TypeOK
<1>4. ASSUME NEW i \in Nat, OnlineAfter(j, i + 1) PROVE OnlineAfter(j, i)'
  <2> SUFFICES ASSUME NEW k \in 1 .. Len(jabber_events'), k > i, jabber_events'[k].jid = j
               PROVE  jabber_events'[k].online
    BY DEF OnlineAfter
  <2>1. k + 1 \in 1 .. Len(jabber_events) /\ k + 1 > i + 1
          /\ jabber_events'[k] = jabber_events[k + 1]
    BY <1>q
  <2> QED
    BY <1>4, <2>1 DEF OnlineAfter
<1>5. ASSUME OnlineAfter(j, 0) PROVE OnlineAfter(j, 1)
  BY <1>5 DEF OnlineAfter
<1>6. ASSUME OnlineAfter(j, 1), update.jid = j => update.online,
             update.jid # j => CountsOnline(Bare[j])
      PROVE  KnownOnline(j)'
  <2>1. OnlineAfter(j, 0)'
    BY <1>4, <1>6
  <2>2. CountsOnline(Bare[j])'
    <3>1. update.jid = j => CountsOnline(Bare[j])'
      BY <1>2, <1>6, <1>r
    <3> QED
      BY <1>3, <1>6, <3>1
  <2> QED
    BY <2>1, <2>2 DEF KnownOnline
<1>7. CASE SaysOnline(j)
  <2>1. PICK i \in 1 .. Len(jabber_events) :
          jabber_events[i].jid = j /\ jabber_events[i].online /\ OnlineAfter(j, i)
    BY <1>7 DEF SaysOnline
  <2>2. CASE i = 1
    BY <1>6, <1>q, <2>1, <2>2
  <2>3. CASE i # 1
    <3>1. /\ i - 1 \in 1 .. Len(jabber_events') /\ i - 1 \in Nat /\ (i - 1) + 1 = i
          /\ jabber_events'[i - 1] = jabber_events[i]
      BY <1>q, <2>1, <2>3
    <3>2. OnlineAfter(j, i - 1)'
      BY <1>4, <2>1, <3>1
    <3> QED
      BY <2>1, <3>1, <3>2 DEF SaysOnline, KnownOnline
  <2> QED
    BY <2>2, <2>3
<1>8. CASE OnlineAfter(j, 0) /\ CountsOnline(Bare[j])
  <2>1. update.jid = j => update.online
    BY <1>8, <1>q DEF OnlineAfter
  <2> QED
    BY <1>5, <1>6, <1>8, <2>1
<1> QED
  BY <1>7, <1>8 DEF KnownOnline

LEMMA OnlineStep == OnlineInvariant /\ [Next]_vars => OnlineInvariant'
<1> SUFFICES ASSUME OnlineInvariant, [Next]_vars PROVE OnlineInvariant'
  OBVIOUS
<1>t. TypeOK /\ TypeOK'
  BY TypeStep DEF OnlineInvariant
<1>j. online \subseteq Jids
  BY <1>t DEF TypeOK
<1>o. ~stopped => \A j \in online : Single(j) => KnownOnline(j)
  BY DEF OnlineInvariant
<1> SUFFICES ~stopped' => \A j \in online' : Single(j) => KnownOnline(j)'
  BY <1>t DEF OnlineInvariant, Single
<1>1. CASE UNCHANGED <<jabber_events, realraum_jids, online, stopped>>
  BY <1>1, <1>o DEF KnownOnline, SaysOnline, OnlineAfter, CountsOnline
<1>2. CASE \/ TakeMessage \/ TakeStatus \/ SettlePeriodEnds \/ UNCHANGED vars
           \/ \E j \in Jids : Auth(j) \/ LoginEnds(j)
  BY <1>1, <1>2 DEF TakeMessage, TakeStatus, SettlePeriodEnds, vars, Auth, LoginEnds, askVars,
                    handlerVars
<1>3. CASE TakeUpdate
  BY <1>3, <1>t, <1>j, <1>o, TakenCounts DEF TakeUpdate, askVars
<1>4. CASE Stop \/ Drain
  BY <1>4 DEF Stop, Drain, handlerVars
<1>5. CASE NewBot
  BY <1>5 DEF NewBot
<1>6. ASSUME NEW update \in Updates, Tell(update), UNCHANGED handlerVars,
             online' \subseteq IF update.online THEN online \cup {update.jid}
                                                ELSE online \ {update.jid}
      PROVE  ~stopped' => \A j \in online' : Single(j) => KnownOnline(j)'
  <2> SUFFICES ASSUME ~stopped', NEW j \in online', Single(j) PROVE KnownOnline(j)'
    OBVIOUS
  <2>1. ~stopped /\ UNCHANGED realraum_jids /\ update.jid \in Jids
    BY <1>6 DEF handlerVars, Updates
  <2>2. CASE j = update.jid /\ update.online
    BY <1>6, <1>t, <2>2, SaysItNow
  <2>3. CASE j # update.jid \/ ~update.online
    <3>1. j \in online /\ j \in Jids /\ j # update.jid
      BY <1>6, <1>j, <2>3
    <3> QED
      BY <1>6, <1>t, <1>o, <2>1, <3>1, SaysNothingElse
  <2> QED
    BY <2>2, <2>3
<1>7. ASSUME NEW j \in Jids,
             \/ OtherCommand(j) \/ Available(j) \/ Unavailable(j) \/ Unsubscribe(j)
             \/ Undeliverable(j) \/ Subscribe(j)
             \/ \E wanted \in Commands : WantsCommand(j, wanted)
      PROVE  \E update \in Updates :
               /\ Tell(update) /\ UNCHANGED handlerVars
               /\ online' \subseteq IF update.online THEN online \cup {update.jid}
                                                     ELSE online \ {update.jid}
  <2>1. ASSUME NEW wanted \in Commands, WantsCommand(j, wanted)
        PROVE  \E update \in Updates :
                 /\ Tell(update) /\ UNCHANGED handlerVars
                 /\ update.online /\ online' = online
    <3>1. [Says(j, TRUE) EXCEPT !.wants = wanted] \in Updates
      BY SaysUpdates
    <3>2. [Says(j, TRUE) EXCEPT !.wants = wanted].online
      BY DEF Says
    <3> QED
      BY <2>1, <3>1, <3>2 DEF WantsCommand
  <2>2. ASSUME OtherCommand(j)
        PROVE  \E update \in Updates :
                 /\ Tell(update) /\ UNCHANGED handlerVars
                 /\ update.online /\ online' = online
    <3>1. PICK s \in BOOLEAN : Tell([Says(j, TRUE) EXCEPT !.statusNow = s])
      BY <2>2 DEF OtherCommand
    <3>2. [Says(j, TRUE) EXCEPT !.statusNow = s] \in Updates
      BY DEF Says, Updates
    <3>3. [Says(j, TRUE) EXCEPT !.statusNow = s].online
      BY DEF Says
    <3> QED
      BY <2>2, <3>1, <3>2, <3>3 DEF OtherCommand, askVars
  <2>3. ASSUME Available(j) \/ Subscribe(j)
        PROVE  \E update \in Updates :
                 /\ Tell(update) /\ UNCHANGED handlerVars
                 /\ update.online /\ update.jid = j /\ online' \subseteq online \cup {j}
    <3>1. Says(j, TRUE) \in Updates /\ Says(j, TRUE).online /\ Says(j, TRUE).jid = j
      BY DEF Says, Updates
    <3> QED
      BY <2>3, <3>1 DEF Available, Subscribe
  <2>4. ASSUME Unavailable(j) \/ Unsubscribe(j) \/ Undeliverable(j)
        PROVE  \E update \in Updates :
                 /\ Tell(update) /\ UNCHANGED handlerVars
                 /\ ~update.online /\ update.jid = j /\ online' \subseteq online \ {j}
    <3>1. /\ Says(j, FALSE) \in Updates /\ ~Says(j, FALSE).online
          /\ Says(j, FALSE).jid = j
      BY DEF Says, Updates
    <3>2. /\ [Says(j, FALSE) EXCEPT !.wants = "never"] \in Updates
          /\ ~[Says(j, FALSE) EXCEPT !.wants = "never"].online
          /\ [Says(j, FALSE) EXCEPT !.wants = "never"].jid = j
      BY DEF Says, Updates, Wants
    <3> QED
      BY <2>4, <3>1, <3>2 DEF Unavailable, Unsubscribe, Undeliverable
  <2> QED
    BY <1>7, <2>1, <2>2, <2>3, <2>4
<1> QED
  BY <1>2, <1>3, <1>4, <1>5, <1>6, <1>7 DEF Next, HandleEvents, HandleStanzas

(* Who has one resource and is online counts as online when the updates    *)
(* are taken, however many waited and whatever was drained or loaded.      *)
THEOREM OnlineUsersCount == Spec => []OnlineUserIsOnline
<1>1. Init => OnlineInvariant
  BY InitTypes DEF Init, OnlineInvariant
<1>2. OnlineInvariant => OnlineUserIsOnline
  <2> SUFFICES ASSUME OnlineInvariant, jabber_events = <<>>, ~stopped,
                      NEW j \in online, Single(j)
               PROVE  CountsOnline(Bare[j])
    BY DEF OnlineUserIsOnline, Single, CountsOnline
  <2>1. ~SaysOnline(j)
    BY DEF SaysOnline
  <2> QED
    BY <2>1 DEF OnlineInvariant, KnownOnline
<1> QED
  BY <1>1, <1>2, OnlineStep, PTL DEF Spec
=============================================================================
