----------------------------- MODULE MCXmppBot -----------------------------
(* Channels of one as in the code; two errors in series stop the bot, and  *)
(* two pings that fail.                                                    *)
EXTENDS XmppBot
=============================================================================
