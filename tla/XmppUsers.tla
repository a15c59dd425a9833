----------------------------- MODULE XmppUsers -----------------------------
(***************************************************************************)
(* r3-xmppbot: what its users have set, and who is sent messages.          *)
(*                                                                         *)
(*   handleIncomingXMPPStanzas --jabber_events--> handleEventsforXMPP      *)
(*                                                                         *)
(* A user has JIDs, one for each resource.  Logins belong to a JID,        *)
(* settings to the user.  A step takes one event, stanza or message and    *)
(* makes its sends; it is not enabled while the channel it sends to is     *)
(* full.  Of the events' messages only their distribute level counts, and  *)
(* whether they are remembered as the status.  The bot's own presence says *)
(* whether somebody is there; the server (external) shows it to who        *)
(* subscribed.  The filters for kinds of messages are left out, replies go *)
(* to who asked and are left out, and the steps of stopping a bot are left *)
(* to XmppBot.                                                             *)
(***************************************************************************)
EXTENDS Integers, Sequences

CONSTANTS
  Users,         \* bare JIDs
  Jids,          \* full JIDs
  Bare,          \* the user of a JID (removeResourceFromJIDString)
  NoUser,        \* not in the map
  Commands,      \* bound: the wishes that are asked for
  JabberCap

Wants    == {"never", "online", "recap", "always", "debug"}
Enabled  == Wants \ {"never"}
Settings == [online : BOOLEAN, wants : Wants]

(* A JidDataUpdate; "same" stands for a field it does not have. *)
Updates == [jid : Jids, online : BOOLEAN, wants : Wants \cup {"same"},
            statusNow : BOOLEAN]

ASSUME XmppUsersAssumption ==
  /\ Bare \in [Jids -> Users]
  /\ NoUser \notin Settings \cup Wants
  /\ Commands \subseteq Wants
  /\ JabberCap \in Nat \ {0}

VARIABLES
  jabber_events,
  realraum_jids, has_status, settled,   \* handleEventsforXMPP
  stopped,         \* handleEventsforXMPP has returned and only drains its queue
  config_file,     \* what the users want, as it was saved
  unsaved,         \* history: a save failed, and none since
  lastauthtime,    \* the JIDs whose login has not timed out
  online,          \* external: the JIDs that said they are online, since the start
  told,            \* history: the users who were sent a message
  shown,           \* history: the users who were shown the presence of the bot
  proven,          \* history: the users who have given the password
  subscribed,      \* history: the users whose subscription was accepted
  asked            \* history: what each user asked for last, or NoUser

vars == <<jabber_events, realraum_jids, has_status, settled, stopped, config_file,
          unsaved, lastauthtime, online, told, shown, proven, subscribed, asked>>

fileVars    == <<config_file, unsaved>>
handlerVars == <<realraum_jids, has_status, settled, stopped, fileVars, told, shown>>
loginVars   == <<lastauthtime, proven>>
askVars     == <<loginVars, online, subscribed, asked>>

TypeOK ==
  /\ jabber_events \in Seq(Updates) /\ Len(jabber_events) <= JabberCap
  /\ realraum_jids \in [Users -> Settings \cup {NoUser}]
  /\ has_status \in BOOLEAN
  /\ settled \in BOOLEAN /\ stopped \in BOOLEAN
  /\ config_file \in [Users -> Wants \cup {NoUser}]
  /\ unsaved \in BOOLEAN
  /\ lastauthtime \subseteq Jids
  /\ online \subseteq Jids
  /\ told \subseteq Users /\ shown \subseteq Users
  /\ proven \subseteq Users /\ subscribed \subseteq Users
  /\ asked \in [Users -> Wants \cup {NoUser}]
-----------------------------------------------------------------------------
(* handleEventsforXMPP *)

(* Messages for "never" go to the same users as those for "online". *)
Hears(user, level) ==
  \/ user.wants = "debug"
  \/ /\ level # "debug"
     /\ user.wants = "always" \/ (user.wants # "never" /\ user.online)

(* A message with a level, remembered as the status or not. *)
TakeMessage ==
  /\ ~stopped
  /\ \E level \in {"never", "online", "debug"} :
       told' = told \cup {u \in Users : realraum_jids[u] # NoUser
                                          /\ Hears(realraum_jids[u], level)}
  /\ has_status' \in {has_status, TRUE}
  /\ UNCHANGED <<jabber_events, realraum_jids, settled, stopped, fileVars, shown, askVars>>

(* Whether somebody is there goes to the server as the bot's presence, and *)
(* from there to those of the subscribers who still are and can see it.    *)
TakeStatus ==
  /\ ~stopped
  /\ \E to \in SUBSET subscribed : shown' = shown \cup to
  /\ UNCHANGED <<jabber_events, realraum_jids, has_status, settled, stopped, fileVars,
                 told, askVars>>

SettlePeriodEnds ==
  /\ ~stopped /\ ~settled /\ settled' = TRUE
  /\ UNCHANGED <<jabber_events, realraum_jids, has_status, stopped, fileVars, told, shown,
                 askVars>>

(* Mutant: a wish does not tell that its user is online. *)
updateJidDataWish(user, update) ==
  IF update.wants = "same" THEN [user EXCEPT !.online = update.online]
                           ELSE [user EXCEPT !.wants = update.wants]

updateJidData(user, update) ==
  [online |-> update.online,
   wants  |-> IF update.wants = "same" THEN user.wants ELSE update.wants]

NewUser == [online |-> FALSE, wants |-> "never"]

NoSettings == [u \in Users |-> NoUser]

WhatTheyWant(map) ==
  [u \in Users |-> IF map[u] = NoUser THEN NoUser ELSE map[u].wants]

(* The file is written, is left as it was because it cannot be opened, or  *)
(* is left with what cannot be read again because writing it fails; both   *)
(* errors are only logged.                                                 *)
saveTo(map) ==
  \/ config_file' = WhatTheyWant(map) /\ unsaved' = FALSE
  \/ config_file' \in {config_file, NoSettings} /\ unsaved' = TRUE

(* Mutant: only new users are saved. *)
TakeUpdateSavesNew ==
  /\ ~stopped /\ jabber_events # <<>>
  /\ jabber_events' = Tail(jabber_events)
  /\ LET update == Head(jabber_events)
         u      == Bare[update.jid]
         known  == realraum_jids[u] # NoUser
         user   == updateJidData(IF known THEN realraum_jids[u] ELSE NewUser, update)
     IN  IF known \/ update.wants # "same"
         THEN /\ realraum_jids' = [realraum_jids EXCEPT ![u] = user]
              /\ IF known THEN UNCHANGED fileVars ELSE saveTo(realraum_jids')
         ELSE UNCHANGED <<realraum_jids, fileVars>>
  /\ UNCHANGED <<has_status, settled, stopped, told, shown, askVars>>

(* A known user, or a new one who says what it wants, is updated and       *)
(* saved.  The status goes to who asks for it, and to who comes online and *)
(* wants the recap.                                                        *)
TakeUpdate ==
  /\ ~stopped /\ jabber_events # <<>>
  /\ jabber_events' = Tail(jabber_events)
  /\ LET update == Head(jabber_events)
         u      == Bare[update.jid]
         known  == realraum_jids[u] # NoUser
         user   == updateJidData(IF known THEN realraum_jids[u] ELSE NewUser, update)
         recap  == /\ known /\ settled /\ ~realraum_jids[u].online
                   /\ user.online /\ user.wants = "recap"
     IN  /\ IF known \/ update.wants # "same"
              THEN /\ realraum_jids' = [realraum_jids EXCEPT ![u] = user]
                   /\ saveTo(realraum_jids')
              ELSE UNCHANGED <<realraum_jids, fileVars>>
         /\ told' = IF has_status /\ (update.statusNow \/ recap)
                      THEN told \cup {u} ELSE told
  /\ UNCHANGED <<has_status, settled, stopped, shown, askVars>>

Stop ==
  /\ ~stopped /\ stopped' = TRUE
  /\ UNCHANGED <<jabber_events, realraum_jids, has_status, settled, fileVars, told, shown,
                 askVars>>

(* A wish that is drained is lost: what counts is what held before. *)
Drain ==
  /\ stopped /\ jabber_events # <<>>
  /\ jabber_events' = Tail(jabber_events)
  /\ LET u == Bare[Head(jabber_events).jid]
     IN  asked' = [asked EXCEPT ![u] = WhatTheyWant(realraum_jids)[u]]
  /\ UNCHANGED <<handlerVars, loginVars, online, subscribed>>
-----------------------------------------------------------------------------
(* handleIncomingXMPPStanzas *)

(* Mutant: the queue has no bound. *)
TellQueued(update) ==
  jabber_events' = Append(jabber_events, update)

Tell(update) ==
  /\ Len(jabber_events) < JabberCap
  /\ jabber_events' = Append(jabber_events, update)

Says(j, isOnline) ==
  [jid |-> j, online |-> isOnline, wants |-> "same", statusNow |-> FALSE]

(* Mutant: the login is not asked for. *)
WantsCommandOpen(j, wanted) ==
  /\ Tell([Says(j, TRUE) EXCEPT !.wants = wanted])
  /\ asked' = [asked EXCEPT ![Bare[j]] = wanted]
  /\ UNCHANGED <<handlerVars, loginVars, online, subscribed>>

(* on, off, on_with_recap, on_while_offline, debug *)
WantsCommand(j, wanted) ==
  /\ j \in lastauthtime
  /\ Tell([Says(j, TRUE) EXCEPT !.wants = wanted])
  /\ asked' = [asked EXCEPT ![Bare[j]] = wanted]
  /\ UNCHANGED <<handlerVars, loginVars, online, subscribed>>

(* status; settings and the filter commands *)
OtherCommand(j) ==
  /\ j \in lastauthtime
  /\ \E statusNow \in BOOLEAN : Tell([Says(j, TRUE) EXCEPT !.statusNow = statusNow])
  /\ UNCHANGED <<handlerVars, askVars>>

(* auth with the password, bye, two hours *)
Auth(j) ==
  /\ j \notin lastauthtime
  /\ lastauthtime' = lastauthtime \cup {j}
  /\ proven' = proven \cup {Bare[j]}
  /\ UNCHANGED <<handlerVars, jabber_events, online, subscribed, asked>>

LoginEnds(j) ==
  /\ j \in lastauthtime
  /\ lastauthtime' = lastauthtime \ {j}
  /\ UNCHANGED <<handlerVars, jabber_events, online, proven, subscribed, asked>>

(* Any presence that is none of the following makes its user online.       *)
Available(j) ==
  /\ Tell(Says(j, TRUE))
  /\ online' \in {online, online \cup {j}}
  /\ UNCHANGED <<handlerVars, loginVars, subscribed, asked>>

(* So does the wish to subscribe, which is granted without a password.     *)
Subscribe(j) ==
  /\ Tell(Says(j, TRUE))
  /\ subscribed' = subscribed \cup {Bare[j]}
  /\ UNCHANGED <<handlerVars, loginVars, online, asked>>

Unavailable(j) ==
  /\ Tell(Says(j, FALSE))
  /\ lastauthtime' = lastauthtime \ {j}
  /\ online' = online \ {j}
  /\ UNCHANGED <<handlerVars, proven, subscribed, asked>>

Unsubscribe(j) ==
  /\ Tell([Says(j, FALSE) EXCEPT !.wants = "never"])
  /\ lastauthtime' = lastauthtime \ {j}
  /\ online' = {k \in online : Bare[k] # Bare[j]}
  /\ asked' = [asked EXCEPT ![Bare[j]] = "never"]
  /\ UNCHANGED <<handlerVars, proven, subscribed>>

(* A message came back: its receiver cannot be reached. *)
Undeliverable(j) ==
  /\ Tell(Says(j, FALSE))
  /\ online' = {k \in online : Bare[k] # Bare[j]}
  /\ UNCHANGED <<handlerVars, loginVars, subscribed, asked>>
-----------------------------------------------------------------------------
Loaded(file, gone) ==
  [u \in Users |-> IF file[u] = NoUser \/ u \in gone
                   THEN NoUser ELSE [online |-> FALSE, wants |-> file[u]]]

(* A new bot, in this process or the next, loads what was saved, without   *)
(* the users who left its roster.  A process that ends while it saves      *)
(* leaves a file that cannot be read.  A user keeps its wish unless it     *)
(* left, the file is lost, the last save failed before its wish was in the *)
(* file, or an update of it was still on its way.                          *)
NewBot ==
  \E gone \in SUBSET Users, lost \in BOOLEAN :
    LET underway == {Bare[jabber_events[i].jid] : i \in DOMAIN jabber_events}
        behind   == {u \in Users :
                       unsaved /\ config_file[u] # WhatTheyWant(realraum_jids)[u]}
        anew     == {u \in Users : lost \/ u \in gone \cup underway \cup behind
                                        \/ realraum_jids[u] = NoUser}
    IN  /\ lost => jabber_events # <<>>
        /\ config_file' = IF lost THEN NoSettings ELSE config_file
        /\ unsaved' = FALSE
        /\ realraum_jids' = Loaded(config_file', gone)
        /\ asked' = [u \in Users |-> IF u \in anew THEN WhatTheyWant(realraum_jids')[u]
                                                   ELSE asked[u]]
        /\ jabber_events' = <<>> /\ has_status' = FALSE
        /\ settled' = FALSE /\ stopped' = FALSE
        /\ lastauthtime' = {} /\ online' = {}
        /\ UNCHANGED <<told, shown, proven, subscribed>>

Init ==
  /\ jabber_events = <<>>
  /\ realraum_jids = NoSettings /\ config_file = NoSettings /\ asked = NoSettings
  /\ has_status = FALSE /\ settled = FALSE /\ stopped = FALSE
  /\ unsaved = FALSE
  /\ lastauthtime = {} /\ online = {}
  /\ told = {} /\ shown = {} /\ proven = {} /\ subscribed = {}

HandleEvents == TakeMessage \/ TakeStatus \/ SettlePeriodEnds \/ TakeUpdate \/ Stop \/ Drain

HandleStanzas ==
  \E j \in Jids :
    \/ \E wanted \in Commands : WantsCommand(j, wanted)
    \/ OtherCommand(j) \/ Auth(j) \/ LoginEnds(j)
    \/ Available(j) \/ Unavailable(j) \/ Undeliverable(j)
    \/ Subscribe(j) \/ Unsubscribe(j)

Next == HandleEvents \/ HandleStanzas \/ NewBot

Spec == Init /\ [][Next]_vars
-----------------------------------------------------------------------------
(* Nobody is sent a message, in this life of the bot or a later one, who   *)
(* has not given the password: not through a presence or a subscription,   *)
(* not after a restart, not for somebody else's login.  What a stranger    *)
(* can learn without it is the bot's presence, which says whether somebody *)
(* is there, and that only by subscribing.                                 *)
ToldOnlyByPassword == told \subseteq proven /\ shown \subseteq subscribed

(* When all updates are taken, what a user asked for last holds: presence  *)
(* stanzas, other commands, failed saves and a restart in between do not   *)
(* change it.  A failed save takes wishes away when it is the last before  *)
(* a restart, and no others than those that are not in the file it leaves. *)
LastWishHolds == jabber_events = <<>> => WhatTheyWant(realraum_jids) = asked

(* "You will be notified of r3 status changes while you are online" (the  *)
(* help text): who has a single resource, and is known, counts as online   *)
(* while it is, whatever was drained, saved or loaded in between.          *)
OnlineUserIsOnline ==
  jabber_events = <<>> /\ ~stopped =>
    \A j \in online :
      (\A k \in Jids : Bare[k] = Bare[j] => k = j)
        => realraum_jids[Bare[j]] = NoUser \/ realraum_jids[Bare[j]].online
=============================================================================
