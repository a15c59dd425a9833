---------------------------- MODULE KeyNickStore ----------------------------
(***************************************************************************)
(* door_daemon/keys_file.go: the nicks of the keys, read from a file anew  *)
(* when its modification time, in whole seconds, is later than the one     *)
(* remembered.  Between the statements of LoadKeysFileIfNeeded the file    *)
(* may change, disappear or come back (external).  Every content of the    *)
(* file is a version of its own.                                           *)
(***************************************************************************)
EXTENDS Integers

CONSTANTS
  Now,              \* the seconds there are
  MaxVersion        \* bound: contents of the file

ASSUME KeysAssumption == Now \subseteq Nat \ {0} /\ MaxVersion \in Nat

NoKeys == 0                    \* the empty map, an empty file
Versions == 0 .. MaxVersion
CutOff == -1                   \* a map that lacks the end of the file
Maps == Versions \cup {CutOff}

VARIABLES
  file,             \* external: the file's version and mtime; can it be opened?
  now,              \* external: the second
  key_nick_map,     \* the version the map was read from, or CutOff
  file_mtime,
  loading,          \* where LoadKeysFileIfNeeded stands, and the file it has seen
  answered,         \* how it ended: "map", "error", or "overtaken" by a change of
                    \* the file; "none" while it runs
  touched           \* history: since the map was last due to be read, the file
                    \* was not opened, was not read to its end, or changed
                    \* within the second remembered

keysVars == <<file, now, key_nick_map, file_mtime, loading, answered, touched>>

fileVars == <<file, now>>

KeysTypeOK ==
  /\ file \in [version : Versions, mtime : Now, there : BOOLEAN]
  /\ now \in Now
  /\ key_nick_map \in Maps
  /\ file_mtime \in {0} \cup Now
  /\ loading \in [at : {"idle", "stat", "open", "read"}, mtime : {0} \cup Now,
                 version : Versions]
  /\ answered \in {"none", "map", "error", "overtaken"}
  /\ touched \in SUBSET {"unopened", "cut", "changed"}

Loading(at, mtime, version) == [at |-> at, mtime |-> mtime, version |-> version]

Stat == Loading("stat", 0, NoKeys)
Idle == Loading("idle", 0, NoKeys)

KeysInit ==
  /\ now \in Now
  /\ file \in [version : {NoKeys}, mtime : {now}, there : BOOLEAN]
  /\ key_nick_map = NoKeys /\ file_mtime = 0
  /\ loading = Stat
  /\ answered = "none" /\ touched = {}
-----------------------------------------------------------------------------
(* LoadKeysFileIfNeeded *)

LookupHexKeyNick ==
  /\ loading.at = "idle"
  /\ loading' = Stat
  /\ answered' = "none"
  /\ UNCHANGED <<fileVars, key_nick_map, file_mtime, touched>>

Ends(how) ==
  /\ loading' = Idle
  /\ answered' = IF answered = "overtaken" THEN answered ELSE how

(* Mutant: a file that is a second younger is not read either.             *)
getFileMTimeCoarse ==
  /\ loading.at = "stat"
  /\ IF ~file.there THEN Ends("error")
     ELSE IF file.mtime <= file_mtime + 1 THEN Ends("map")
     ELSE /\ loading' = Loading("open", file.mtime, NoKeys)
          /\ UNCHANGED answered
  /\ UNCHANGED <<fileVars, key_nick_map, file_mtime, touched>>

(* A file that cannot be opened has no modification time either. *)
getFileMTime ==
  /\ loading.at = "stat"
  /\ IF ~file.there THEN Ends("error")
     ELSE IF file.mtime <= file_mtime THEN Ends("map")
     ELSE /\ loading' = Loading("open", file.mtime, NoKeys)
          /\ UNCHANGED answered
  /\ UNCHANGED <<fileVars, key_nick_map, file_mtime, touched>>

(* The time is remembered before the file is open. *)
OpenFile ==
  /\ loading.at = "open"
  /\ file_mtime' = loading.mtime
  /\ IF file.there
     THEN /\ loading' = Loading("read", loading.mtime, file.version)
          /\ touched' = {} /\ UNCHANGED answered
     ELSE Ends("error") /\ touched' = {"unopened"}
  /\ UNCHANGED <<fileVars, key_nick_map>>

(* A file that was changed since is read as it is now, one that was        *)
(* replaced or removed as it was when it was opened.                       *)
ReadKeys ==
  /\ loading.at = "read"
  /\ key_nick_map' \in {loading.version, file.version}
  /\ Ends("map")
  /\ UNCHANGED <<fileVars, file_mtime, touched>>

(* The scanner stops before the end of the file, at an error of the device *)
(* or at a line that is too long, and nobody asks it for its error.        *)
ReadingStops ==
  /\ loading.at = "read"
  /\ key_nick_map' = CutOff /\ touched' = touched \cup {"cut"}
  /\ Ends("map")
  /\ UNCHANGED <<fileVars, file_mtime>>
-----------------------------------------------------------------------------
(* The file *)

Remembered == IF loading.at = "open" THEN loading.mtime ELSE file_mtime

(* It is written now, or replaced by one with an older time. *)
FileChanges ==
  /\ \E version \in Versions, mtime \in Now :
       /\ version > file.version /\ mtime <= now
       /\ file' = [version |-> version, mtime |-> mtime, there |-> TRUE]
       /\ touched' = IF mtime = Remembered THEN touched \cup {"changed"} ELSE touched
  /\ answered' = "overtaken"
  /\ UNCHANGED <<now, key_nick_map, file_mtime, loading>>

FileComesAndGoes ==
  /\ file' = [file EXCEPT !.there = ~@]
  /\ UNCHANGED <<now, key_nick_map, file_mtime, loading, answered, touched>>

TimePasses ==
  /\ now + 1 \in Now /\ now' = now + 1
  /\ UNCHANGED <<file, key_nick_map, file_mtime, loading, answered, touched>>

(* The daemon starts again. *)
NewKeyNickStore ==
  /\ loading.at = "idle"
  /\ key_nick_map' = NoKeys /\ file_mtime' = 0
  /\ loading' = Stat /\ answered' = "none" /\ touched' = {}
  /\ UNCHANGED fileVars
-----------------------------------------------------------------------------
KeysNext ==
  \/ LookupHexKeyNick \/ getFileMTime \/ OpenFile \/ ReadKeys \/ ReadingStops
  \/ NewKeyNickStore \/ FileChanges \/ FileComesAndGoes \/ TimePasses

KeysSpec == KeysInit /\ [][KeysNext]_keysVars
-----------------------------------------------------------------------------
(* A lookup while the file does not change goes by all that is in it, but  *)
(* for four cases: the file is older than the one remembered, it changed   *)
(* within the same second, it had gone when it was to be opened, or it was *)
(* not read to its end.  Nobody is told of any of the four.                *)
LookupIsCurrent ==
  answered = "map" =>
    \/ key_nick_map = file.version
    \/ file.mtime < file_mtime
    \/ touched # {}
=============================================================================
