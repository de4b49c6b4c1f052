------------------------------- MODULE Backup -------------------------------
(***************************************************************************)
(* The chip a cartridge saves in (gba-core/src/save.rs), as the game       *)
(* drives it over the bus (memory.rs): an SRAM or a flash chip written     *)
(* byte by byte, or an EEPROM a bit at a time, its commands and answers    *)
(* carried by DMA transfers whose length tells what they are.  A save      *)
(* state may be taken and loaded between any two accesses.                 *)
(*                                                                         *)
(* Sizes are scaled: an offset is one of Offs, two of them the ones the    *)
(* flash's commands are written to, the first two where it answers its     *)
(* identity; a block of the EEPROM is BlockBits bits, of the 64.           *)
(***************************************************************************)
EXTENDS Naturals, Sequences

CONSTANTS
  Offs, SectorSize,    \* offsets 0 .. of a bank; the offsets a sector holds
  KeyOne, KeyTwo,       \* 0x5555 and 0x2AAA
  Writes,              \* what the game writes: pairs of an offset and a byte
  Narrow, Wide,        \* address bits, 6 and 14
  BlockBits, BlockCount,
  Asked, Contents,     \* the blocks a game asks for and stores, and with what
  MaxChanges, MaxPolls, MaxLoads, MaxApart
    \* bounds: commands, stray bits, loads, accesses from a save to its load

ASSUME BackupAssumption ==
  /\ Writes \subseteq Offs \X Nat
  \* Lengths that tell what a transfer is: 9, 17, 73, 81 and 68 in the code.
  /\ Narrow \in Nat /\ Wide \in Nat /\ BlockBits \in Nat
  /\ 2 <= Narrow /\ Narrow < Wide /\ Wide <= BlockBits
  /\ BlockCount \in Nat \ {0} /\ Asked \subseteq 0..(BlockCount - 1)
  /\ Contents \subseteq [1..BlockBits -> {0, 1}]
  \* A read-out broken off is not followed by as many stray bits as it had.
  /\ MaxPolls \in Nat /\ MaxPolls <= 2 + BlockBits
  /\ 2 ^ 0 = 1 /\ \A i \in 1..Wide : 2 ^ (i - 1) \in Nat \ {0} /\ 2 ^ i = 2 * 2 ^ (i - 1)

VARIABLES
  kind,
  save,      \* the chip
  got,       \* what the last access answered
  kept,      \* the save state: the chip and its history, and the accesses since
  told,      \* history: what the chip was told
  changes, polls, loads
backupvars == <<kind, save, got, kept, told, changes, polls, loads>>

\* Command bytes.
xFF == 255  xAA == 170  x55 == 85  x90 == 144  x80 == 128  xA0 == 160  xB0 == 176  x10 == 16  x30 == 48  xF0 == 240

Banks == 0..1
Cells(k) == IF k = "flash128" THEN Banks \X Offs ELSE {0} \X Offs
Blocks == 0..BlockCount - 1
Erased == [k \in 1..BlockBits |-> 1]

-----------------------------------------------------------------------------
(* SRAM and flash *)

Read(s, off) ==
  CASE kind = "sram" -> s.data[<<0, off>>]
    [] kind \in {"flash64", "flash128"} /\ s.idMode ->
         IF off = 0 THEN (IF kind = "flash128" THEN 98 ELSE 50)
         ELSE IF off = 1 THEN (IF kind = "flash128" THEN 19 ELSE 27) ELSE 0
    [] kind \in {"flash64", "flash128"} /\ ~s.idMode ->
         IF <<s.bank, off>> \in DOMAIN s.data THEN s.data[<<s.bank, off>>] ELSE xFF
    [] OTHER -> xFF

Put(data, cell, val) == IF cell \in DOMAIN data THEN [data EXCEPT ![cell] = val] ELSE data
EraseChip(data) == [c \in DOMAIN data |-> xFF]
Sector(off) == off \div SectorSize
EraseSector(data, bank, off) ==
  [c \in DOMAIN data |-> IF c[1] = bank /\ Sector(c[2]) = Sector(off) THEN xFF ELSE data[c]]

\* A write in phase 2: the third of a command, or a sector's address.
Command(s, off, val) ==
  LET t == [s EXCEPT !.phase = 0]
  IN  IF off = KeyOne
      THEN CASE val = x90 -> [t EXCEPT !.idMode = TRUE]
             [] val = x80 -> [t EXCEPT !.erasePrep = TRUE]
             [] val = xA0 -> [t EXCEPT !.writePending = TRUE]
             [] val = xB0 -> [t EXCEPT !.bankPending = TRUE]
             [] val = x10 /\ s.erasePrep -> [t EXCEPT !.data = EraseChip(@), !.erasePrep = FALSE]
             [] OTHER -> t
      ELSE IF val = x30 /\ s.erasePrep
      THEN [t EXCEPT !.data = EraseSector(s.data, s.bank, off), !.erasePrep = FALSE]
      ELSE t

\* mutant: the reset is looked for before the byte that is awaited
FlashWriteResetFirst(s, off, val) ==
  CASE val = xF0 -> [s EXCEPT !.idMode = FALSE, !.phase = 0]
    [] s.writePending -> [s EXCEPT !.data = Put(@, <<s.bank, off>>, val), !.writePending = FALSE]
    [] s.bankPending -> [s EXCEPT !.bank = val % 2, !.bankPending = FALSE]
    [] s.phase = 0 /\ off = KeyOne /\ val = xAA -> [s EXCEPT !.phase = 1]
    [] s.phase = 1 /\ off = KeyTwo /\ val = x55 -> [s EXCEPT !.phase = 2]
    [] s.phase = 2 -> Command(s, off, val)
    [] OTHER -> [s EXCEPT !.phase = 0]
FlashWrite(s, off, val) ==
  CASE s.writePending -> [s EXCEPT !.data = Put(@, <<s.bank, off>>, val), !.writePending = FALSE]
    [] ~s.writePending /\ s.bankPending -> [s EXCEPT !.bank = val % 2, !.bankPending = FALSE]
    [] ~s.writePending /\ ~s.bankPending /\ val = xF0 -> [s EXCEPT !.idMode = FALSE, !.phase = 0]
    [] ~s.writePending /\ ~s.bankPending /\ val # xF0 ->
         CASE s.phase = 0 /\ off = KeyOne /\ val = xAA -> [s EXCEPT !.phase = 1]
           [] s.phase = 1 /\ off = KeyTwo /\ val = x55 -> [s EXCEPT !.phase = 2]
           [] s.phase = 2 -> Command(s, off, val)
           [] OTHER -> [s EXCEPT !.phase = 0]
WriteByte(s, off, val) ==
  CASE kind = "sram" -> [s EXCEPT !.data = Put(@, <<0, off>>, val)]
    [] kind \in {"flash64", "flash128"} -> FlashWrite(s, off, val)
    [] OTHER -> s

-----------------------------------------------------------------------------
(* EEPROM *)

\* Bits of a command: two, the address, the block and a stop bit, or the stop bit.
Asks(w)   == 2 + w + 1
Stores(w) == 2 + w + BlockBits + 1
ReadOut   == 4 + BlockBits

SetDmaLen(s, len) ==
  LET t == [s EXCEPT !.addrBits = CASE len \in {Asks(Narrow), Stores(Narrow)} -> Narrow
                                    [] len \in {Asks(Wide), Stores(Wide)} -> Wide
                                    [] OTHER -> @]
  IN  IF len = ReadOut THEN t ELSE [t EXCEPT !.expect = len, !.rx = <<>>]

Value(bits) ==
  LET from[k \in 0..Len(bits)] == IF k = 0 THEN 0 ELSE 2 * from[k - 1] + bits[k] IN from[Len(bits)]
\* mutant: an answer is read on from where the last was left
FinishReadingOn(s) ==
  LET n     == Len(s.rx)
      cmd   == SubSeq(s.rx, 1, 2)
      block == Value(SubSeq(s.rx, 3, 2 + s.addrBits)) % BlockCount
  IN  CASE cmd = <<1, 1>> -> [s EXCEPT !.queue = <<0, 0, 0, 0>> \o s.data[block]]
        [] cmd = <<1, 0>> -> [s EXCEPT !.data[block] = SubSeq(s.rx, n - BlockBits, n - 1)]
        [] OTHER -> s
Finish(s) ==
  LET n     == Len(s.rx)
      cmd   == SubSeq(s.rx, 1, 2)
      block == Value(SubSeq(s.rx, 3, 2 + s.addrBits)) % BlockCount
  IN  CASE cmd = <<1, 1>> -> [s EXCEPT !.queue = <<0, 0, 0, 0>> \o s.data[block], !.pos = 0]
        [] cmd = <<1, 0>> -> [s EXCEPT !.data[block] = SubSeq(s.rx, n - BlockBits, n - 1)]
        [] OTHER -> s
WriteBit(s, bit) ==
  LET t == [s EXCEPT !.rx = Append(@, bit)]
  IN  IF t.expect # 0 /\ Len(t.rx) >= t.expect THEN [Finish(t) EXCEPT !.expect = 0, !.rx = <<>>] ELSE t
WriteBits(s, bits) ==
  LET after[k \in 0..Len(bits)] == IF k = 0 THEN s ELSE WriteBit(after[k - 1], bits[k]) IN after[Len(bits)]

\* One bit, 1 when there is nothing to answer; and as many as a transfer reads.
ReadBit(s) == IF s.pos < Len(s.queue) THEN s.queue[s.pos + 1] ELSE 1
AfterRead(s) == IF s.pos < Len(s.queue) THEN [s EXCEPT !.pos = @ + 1] ELSE s
ReadBits(s, n) ==
  LET after[k \in 0..n] == IF k = 0 THEN s ELSE AfterRead(after[k - 1])
  IN  [bits |-> [k \in 1..n |-> ReadBit(after[k - 1])], chip |-> after[n]]

-----------------------------------------------------------------------------
(* History: the commands as the strings of writes a game means them by. *)

Unlock == << <<KeyOne, xAA>>, <<KeyTwo, x55>> >>
Third(w) == Unlock \o <<w>>
Begins(h) == h \in {SubSeq(Unlock, 1, n) : n \in 1..2} \cup {Third(<<KeyOne, x>>) : x \in {xA0, xB0}}
Sectors(h) == h \in {Third(<<o, x30>>) : o \in Offs \ {KeyOne}}
Forget(t) == [t EXCEPT !.heard = <<>>]
Made(t, h, off, val) ==
  CASE Len(h) = 4 /\ h[3] = <<KeyOne, xA0>> -> Forget([t EXCEPT !.image = Put(@, <<t.bank, off>>, val)])
    [] Len(h) = 4 /\ h[3] = <<KeyOne, xB0>> -> Forget([t EXCEPT !.bank = val % 2])
    [] Len(h) # 4 /\ val = xF0 -> Forget([t EXCEPT !.id = FALSE])
    [] Begins(h) -> [t EXCEPT !.heard = h]
    [] h = Third(<<KeyOne, x90>>) -> Forget([t EXCEPT !.id = TRUE])
    [] h = Third(<<KeyOne, x80>>) -> Forget([t EXCEPT !.prepared = TRUE])
    [] h = Third(<<KeyOne, x10>>) /\ t.prepared ->
         Forget([t EXCEPT !.image = EraseChip(@), !.prepared = FALSE])
    [] Sectors(h) /\ t.prepared ->
         Forget([t EXCEPT !.image = EraseSector(@, t.bank, off), !.prepared = FALSE])
    [] OTHER -> Forget(t)
Heard(t, w) == Made(t, Append(t.heard, w), w[1], w[2])
ToldWrite(t, w) == IF kind = "sram" THEN [t EXCEPT !.image = Put(@, <<0, w[1]>>, w[2])] ELSE Heard(t, w)

-----------------------------------------------------------------------------
(* Accesses *)

Nothing == [due |-> <<>>, bits |-> <<>>]
Fresh(k) == [data |-> IF k = "eeprom" THEN [b \in Blocks |-> Erased] ELSE [c \in Cells(k) |-> xFF],
             phase |-> 0, idMode |-> FALSE, erasePrep |-> FALSE, writePending |-> FALSE, bankPending |-> FALSE, bank |-> 0,
             addrBits |-> Narrow, expect |-> 0, rx |-> <<>>, queue |-> <<>>, pos |-> 0]
BackupInit ==
  /\ kind \in {"sram", "flash64", "flash128", "eeprom"}
  /\ save = Fresh(kind)
  /\ got = Nothing /\ kept = <<>>
  /\ told = [image |-> save.data, bank |-> 0, id |-> FALSE, heard |-> <<>>, prepared |-> FALSE, asked |-> {}]
  /\ changes = 0 /\ polls = 0 /\ loads = 0

Changes == IF save'.data = save.data THEN UNCHANGED changes ELSE changes < MaxChanges /\ changes' = changes + 1
Ages ==
  \/ kept = <<>> /\ UNCHANGED kept
  \/ kept # <<>> /\ kept[3] < MaxApart /\ kept' = [kept EXCEPT ![3] = @ + 1]

Write == \E w \in Writes :
  /\ kind # "eeprom"
  /\ save' = WriteByte(save, w[1], w[2])
  /\ told' = ToldWrite(told, w)
  /\ Changes
  /\ got' = Nothing
  /\ UNCHANGED <<kind, polls, loads>> /\ Ages

AddressBits(b, w) == [k \in 1..w |-> (b \div 2^(w - k)) % 2]
Send(bits) == save' = WriteBits(SetDmaLen(save, Len(bits)), bits) /\ Changes
AskBlock == \E w \in {Narrow, Wide}, b \in Asked :
  /\ kind = "eeprom" /\ b < 2^w
  /\ Send(<<1, 1>> \o AddressBits(b, w) \o <<0>>)
  /\ told' = [told EXCEPT !.asked = {b}]
  /\ got' = Nothing
  /\ UNCHANGED <<kind, polls, loads>> /\ Ages
StoreBlock == \E w \in {Narrow, Wide}, b \in Asked, c \in Contents :
  /\ kind = "eeprom" /\ b < 2^w
  /\ Send(<<1, 0>> \o AddressBits(b, w) \o c \o <<0>>)
  /\ told' = [told EXCEPT !.image[b] = c, !.asked = {}]
  /\ got' = Nothing
  /\ UNCHANGED <<kind, polls, loads>> /\ Ages
\* A read-out, or one broken off; what it must have brought if nothing was read since the command.
ReadBlock == \E n \in {ReadOut, ReadOut - 2} :
  LET read == ReadBits(SetDmaLen(save, n), n)
  IN  /\ kind = "eeprom"
      /\ n # ReadOut => polls < MaxPolls
      /\ polls' = IF n = ReadOut THEN polls ELSE polls + 1
      /\ save' = read.chip
      /\ got' = [bits |-> read.bits,
                 due |-> IF told.asked = {} THEN <<>>
                         ELSE SubSeq(<<0, 0, 0, 0>> \o told.image[CHOOSE b \in told.asked : TRUE], 1, n)]
      /\ told' = [told EXCEPT !.asked = {}]
      /\ UNCHANGED <<kind, changes, loads>> /\ Ages
\* The CPU reads or writes the chip's address itself.
PollBit ==
  /\ kind = "eeprom" /\ polls < MaxPolls /\ polls' = polls + 1
  /\ save' = AfterRead(save) /\ got' = [Nothing EXCEPT !.bits = <<ReadBit(save)>>]
  /\ told' = [told EXCEPT !.asked = {}]
  /\ UNCHANGED <<kind, changes, loads>> /\ Ages
StrayBit == \E b \in {0, 1} :
  /\ kind = "eeprom" /\ polls < MaxPolls /\ polls' = polls + 1
  /\ save' = WriteBit(save, b)
  /\ Changes
  /\ got' = Nothing
  /\ UNCHANGED <<kind, told, loads>> /\ Ages

Serialize ==
  /\ loads < MaxLoads /\ kept = <<>>
  /\ kept' = <<save, told, 0>> /\ got' = Nothing
  /\ UNCHANGED <<kind, save, told, changes, polls, loads>>
Deserialize ==
  /\ kept # <<>> /\ loads < MaxLoads /\ loads' = loads + 1
  /\ save' = kept[1] /\ told' = kept[2] /\ kept' = <<>> /\ got' = Nothing
  /\ UNCHANGED <<kind, changes, polls>>

BackupNext == Write \/ AskBlock \/ StoreBlock \/ ReadBlock \/ PollBit \/ StrayBit \/ Serialize \/ Deserialize
BackupSpec == BackupInit /\ [][BackupNext]_backupvars

-----------------------------------------------------------------------------
(* Properties *)

\* Every byte of a flash chip reads as the commands the game completed have made
\* it, in the bank it selected, and as the chip's identity only between the
\* command that asks for it and a reset, whatever comes between the writes of a
\* command and whenever a state is loaded; a byte to program and a bank are taken
\* for nothing else, a reset included (save.rs 188-210).
ReadsAsCommanded ==
  kind \in {"flash64", "flash128"} =>
    \A off \in Offs :
      Read(save, off) =
        IF told.id THEN (CASE off = 0 -> IF kind = "flash128" THEN 98 ELSE 50
                           [] off = 1 -> IF kind = "flash128" THEN 19 ELSE 27
                           [] OTHER -> 0)
        ELSE IF <<told.bank, off>> \in DOMAIN told.image THEN told.image[<<told.bank, off>>] ELSE xFF

\* A read-out brings four zeros and the block that was asked for as the game last
\* stored it, although transfers of either width, read-outs broken off, stray
\* accesses and a loaded state went before (save.rs 255-268).
BlocksReadBack == got.due # <<>> => got.bits = got.due

\* Both: a game reads from a flash chip or an EEPROM what it was last told to keep.
\* Of a static RAM, which takes no commands, nothing is said.
SavesReadBack == ReadsAsCommanded /\ BlocksReadBack
=============================================================================
