----------------------------- MODULE UpdateKeys -----------------------------
(***************************************************************************)
(* update-keys: the keys of a file are written into the EEPROM of the door *)
(* firmware, eight bytes a slot.  One goroutine makes slots of the lines   *)
(* it reads, main sends them to the firmware (external), which stores each *)
(* in the next slot and answers; what is left is filled with keys that are *)
(* not valid, and nobody waits for the answers.  A panic ends the program. *)
(***************************************************************************)
EXTENDS Integers, Sequences

CONSTANTS
  Lines,            \* the byte strings the lines can say, <<>> for no key
  MaxLines,         \* bound: lines of the file
  NUM_KEYSLOTS,     \* slots of the EEPROM (128)
  ChanCap,          \* keys new_keys_chan holds (40)
  OldSlot           \* what every slot held before

KEYSLOT_LEN == 8

ASSUME UpdateAssumption ==
  /\ \A line \in Lines : line \in Seq(0 .. 255)
  /\ NUM_KEYSLOTS \in Nat /\ ChanCap \in Nat \ {0} /\ MaxLines \in Nat
  /\ DOMAIN OldSlot = 1 .. KEYSLOT_LEN

VARIABLES
  lines,            \* how many lines have been read
  keys,             \* history: the keys they said
  new_keys_chan, closed,
  writer,           \* where main stands
  num_keys_written,
  eeprom, stored,   \* external: the slots, and how many were stored
  unheard           \* history: "key" when the answer to a key was neither "." nor
                    \* "0", "filling" when a filling was refused: nobody reads it

updateVars == <<lines, keys, new_keys_chan, closed, writer, num_keys_written, eeprom, stored,
                unheard>>

readerVars   == <<lines, keys>>
firmwareVars == <<eeprom, stored, unheard>>

UpdateTypeOK ==
  /\ lines \in 0 .. MaxLines /\ closed \in BOOLEAN
  /\ Len(new_keys_chan) <= ChanCap
  /\ writer \in {"handshake", "write", "fill", "done", "panic"}
  /\ num_keys_written \in 0 .. NUM_KEYSLOTS + 1
  /\ DOMAIN eeprom = 1 .. NUM_KEYSLOTS
  /\ \A i \in DOMAIN eeprom : Len(eeprom[i]) = KEYSLOT_LEN
  /\ stored \in 0 .. NUM_KEYSLOTS
  /\ unheard \subseteq {"key", "filling"}

UpdateInit ==
  /\ lines = 0 /\ keys = <<>> /\ new_keys_chan = <<>> /\ closed = FALSE
  /\ writer = "handshake" /\ num_keys_written = 0
  /\ eeprom = [i \in 1 .. NUM_KEYSLOTS |-> OldSlot] /\ stored = 0 /\ unheard = {}
-----------------------------------------------------------------------------
(* Slots *)

(* The bytes a and b, bit by bit. *)
Bits     == {1, 2, 4, 8, 16, 32, 64, 128}
Has(a,p) == (a \div p) % 2 = 1
Or(a, b) ==
  LET bit == [p \in Bits |-> IF Has(a, p) \/ Has(b, p) THEN p ELSE 0]
  IN  bit[1] + bit[2] + bit[4] + bit[8] + bit[16] + bit[32] + bit[64] + bit[128]

(* Two sums of bytes; the upper half of the first is mixed into the second.*)
generateFletcher8Checksum(slot) ==
  LET sums[x \in 0 .. KEYSLOT_LEN - 1] ==
        IF x = 0 THEN <<15, 15>>
        ELSE LET sum1 == (sums[x - 1][1] + slot[x]) % 256
             IN  <<sum1, (sums[x - 1][2] + sum1) % 256>>
      last == sums[KEYSLOT_LEN - 1]
  IN  Or((last[2] * 16) % 256, last[1])

(* The bytes, zeros behind them, and the checksum in place of the eighth,  *)
(* also when the key has one.                                              *)
SlotOf(bytes) ==
  LET slot == [i \in 1 .. KEYSLOT_LEN |-> IF i <= Len(bytes) THEN bytes[i] ELSE 0]
  IN  [slot EXCEPT ![KEYSLOT_LEN] = generateFletcher8Checksum(slot)]

InvalidKey == [i \in 1 .. KEYSLOT_LEN |-> 255]

IsKey(bytes) == Len(bytes) \in 1 .. KEYSLOT_LEN
-----------------------------------------------------------------------------
(* readStdinAndFilterLines *)

ReadLine ==
  /\ ~closed /\ lines < MaxLines
  /\ lines' = lines + 1
  /\ \E line \in Lines :
       IF IsKey(line)
       THEN /\ Len(new_keys_chan) < ChanCap
            /\ new_keys_chan' = Append(new_keys_chan, SlotOf(line))
            /\ keys' = Append(keys, line)
       ELSE UNCHANGED <<new_keys_chan, keys>>
  /\ UNCHANGED <<closed, writer, num_keys_written, firmwareVars>>

(* The file ends, or cannot be read on. *)
FileEnds ==
  /\ ~closed
  /\ \/ closed' = TRUE /\ UNCHANGED writer
     \/ writer' = "panic" /\ UNCHANGED closed
  /\ UNCHANGED <<readerVars, new_keys_chan, num_keys_written, firmwareVars>>
-----------------------------------------------------------------------------
(* writeKeysToSerial, and what the firmware does *)

(* The answer to "e" is the one expected, or another or not all of it.     *)
Handshake ==
  /\ writer = "handshake"
  /\ writer' \in {"write", "panic"}
  /\ UNCHANGED <<readerVars, new_keys_chan, closed, num_keys_written, firmwareVars>>

Stores(slot) ==
  /\ stored < NUM_KEYSLOTS
  /\ stored' = stored + 1
  /\ eeprom' = [eeprom EXCEPT ![stored + 1] = slot]

(* Mutant: the program stops when the slots are full, as if that were all. *)
FullIsDone(n) == IF n > NUM_KEYSLOTS THEN "done" ELSE "write"

AfterKey(n) == IF n > NUM_KEYSLOTS THEN "panic" ELSE "write"

(* The number of keys is looked at when the key has been sent. *)
SendKey ==
  /\ writer = "write" /\ new_keys_chan # <<>>
  /\ new_keys_chan' = Tail(new_keys_chan)
  /\ \/ /\ \/ Stores(Head(new_keys_chan))
           \/ stored = NUM_KEYSLOTS /\ UNCHANGED <<eeprom, stored>>
        /\ UNCHANGED unheard
        /\ num_keys_written' = num_keys_written + 1
        /\ writer' = AfterKey(num_keys_written')
     \/ /\ writer' = "panic" /\ UNCHANGED <<firmwareVars, num_keys_written>>
     \/ /\ Stores(Head(new_keys_chan)) \/ UNCHANGED <<eeprom, stored>>
        /\ unheard' = unheard \cup {"key"}
        /\ num_keys_written' = num_keys_written + 1
        /\ writer' = AfterKey(num_keys_written')
  /\ UNCHANGED <<readerVars, closed>>

KeysSent ==
  /\ writer = "write" /\ new_keys_chan = <<>> /\ closed
  /\ writer' = "fill"
  /\ UNCHANGED <<readerVars, new_keys_chan, closed, num_keys_written, firmwareVars>>

(* The filling is stored, or refused and nobody knows. *)
FillSlot ==
  /\ num_keys_written' = num_keys_written + 1
  /\ \/ Stores(InvalidKey) /\ UNCHANGED unheard
     \/ unheard' = unheard \cup {"filling"} /\ UNCHANGED <<eeprom, stored>>
  /\ UNCHANGED writer

Filled == writer' = "done" /\ UNCHANGED <<num_keys_written, firmwareVars>>

(* Mutant: one slot is left unfilled. *)
FillShort ==
  /\ writer = "fill"
  /\ IF num_keys_written + 1 < NUM_KEYSLOTS THEN FillSlot ELSE Filled
  /\ UNCHANGED <<readerVars, new_keys_chan, closed>>

Fill ==
  /\ writer = "fill"
  /\ IF num_keys_written < NUM_KEYSLOTS THEN FillSlot ELSE Filled
  /\ UNCHANGED <<readerVars, new_keys_chan, closed>>

Ended == writer \in {"done", "panic"} /\ UNCHANGED updateVars
-----------------------------------------------------------------------------
Updating == ReadLine \/ FileEnds \/ Handshake \/ SendKey \/ KeysSent \/ Fill

UpdateNext == (writer \notin {"done", "panic"} /\ Updating) \/ Ended

UpdateSpec == UpdateInit /\ [][UpdateNext]_updateVars
-----------------------------------------------------------------------------
IsValid(slot) == slot[KEYSLOT_LEN] = generateFletcher8Checksum(slot)

(* A slot holds a key when its bytes are the key's, zeros follow, and the  *)
(* checksum is right.  The seven bytes the format has room for (line 18)   *)
(* are all of a shorter key.  The program takes keys of eight bytes too:   *)
(* two that differ in the eighth are the same to the firmware.             *)
HasKey(slot, key) ==
  /\ \A b \in 1 .. KEYSLOT_LEN - 1 : slot[b] = IF b <= Len(key) THEN key[b] ELSE 0
  /\ IsValid(slot)

(* When the program ends well and every answer it read was ".", the slots  *)
(* hold the keys of the file in their order, none is missing, also when    *)
(* fillings were refused; when none was, no other slot, of the keys before *)
(* or of the filling, passes for a key.  After an answer it does not know  *)
(* the program goes on and may end well without the key (line 103).        *)
DoneIsProgrammed ==
  writer = "done" /\ "key" \notin unheard =>
    /\ Len(keys) <= NUM_KEYSLOTS
    /\ \A i \in 1 .. Len(keys) : HasKey(eeprom[i], keys[i])
    /\ unheard = {} => \A i \in Len(keys) + 1 .. NUM_KEYSLOTS : ~IsValid(eeprom[i])
=============================================================================
