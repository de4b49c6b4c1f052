-------------------------- MODULE ProcessorProofs --------------------------
(***************************************************************************)
(* What is proved of Processor, for every program of decoded instructions  *)
(* and every width of a word: the state is well typed, what another mode   *)
(* banks is reached by a user transfer or an exception only, and the       *)
(* results and flags of every instruction are those of exact arithmetic on *)
(* what the barrel shifter would make of its operand one bit at a time,    *)
(* and a Thumb instruction does what its ARM form does.  Of IdleLoop: a    *)
(* game that keeps to its routine loses nothing by what the watch skips.   *)
(***************************************************************************)
EXTENDS IdleLoop, FiniteSetTheorems, SequenceTheorems, TLAPS

-----------------------------------------------------------------------------
(* The processor *)

\* A list of registers, lowest first.
LEMMA OrderedIsSequence ==
  ASSUME NEW list \in SUBSET (0..15)
  PROVE  Cardinality(list) \in Nat /\ DOMAIN Ordered(list) = 1..Cardinality(list)
<1>1. IsFiniteSet(list)
  BY FS_Interval, FS_Subset, 0 \in Int, 15 \in Int
<1>2. Cardinality(list) \in Nat
  BY <1>1, FS_CardinalityType
<1>. QED  BY <1>2 DEF Ordered

\* From x to y nothing is changed but what the mode sees, the memory, the flags and
\* the saved status registers.
Within(x, y) ==
  /\ IsMachine(y)
  /\ y.r8_12 = x.r8_12 /\ y.r13_14 = x.r13_14 /\ y.cpsr.mode = x.cpsr.mode

LEMMA WithinSelf == ASSUME NEW x, IsMachine(x) PROVE Within(x, x)
  BY DEF Within

LEMMA WithinRegister ==
  ASSUME NEW x, NEW y, Within(x, y), NEW k, NEW v
  PROVE  Within(x, SetReg(y, k, v))
  BY DEF Within, SetReg, IsMachine
LEMMA WithinTicks ==
  ASSUME NEW x, NEW y, Within(x, y), NEW v
  PROVE  Within(x, Ticks(y, v))
  BY DEF Within, Ticks, IsMachine
LEMMA WithinFlags ==
  ASSUME NEW x, NEW y, Within(x, y), NEW r, NEW c, NEW v, NEW logical
  PROVE  /\ Within(x, SetNz(y, r)) /\ SetNz(y, r).r = y.r
         /\ Within(x, SetNzc(y, r, c)) /\ SetNzc(y, r, c).r = y.r
         /\ Within(x, SetNzcv(y, r, c, v)) /\ SetNzcv(y, r, c, v).r = y.r
         /\ Within(x, SetFlags(y, r, c, v, logical)) /\ SetFlags(y, r, c, v, logical).r = y.r
<1>1. ASSUME NEW z, Within(x, z), NEW p, IsPsr(p), p.mode = z.cpsr.mode
      PROVE  Within(x, [z EXCEPT !.cpsr = p]) /\ [z EXCEPT !.cpsr = p].r = z.r
  BY <1>1 DEF Within, IsMachine
<1>2. ASSUME NEW p, IsPsr(p), NEW b
      PROVE  /\ IsPsr([p EXCEPT !.n = b]) /\ [p EXCEPT !.n = b].mode = p.mode
             /\ IsPsr([p EXCEPT !.z = b]) /\ [p EXCEPT !.z = b].mode = p.mode
             /\ IsPsr([p EXCEPT !.c = b]) /\ [p EXCEPT !.c = b].mode = p.mode
             /\ IsPsr([p EXCEPT !.v = b]) /\ [p EXCEPT !.v = b].mode = p.mode
  BY <1>2 DEF IsPsr, PsrFields
<1>3. ASSUME NEW z, Within(x, z) PROVE IsPsr(z.cpsr) /\ "cpsr" \in DOMAIN z
  BY <1>3 DEF Within, IsMachine
<1>4. ASSUME NEW z, Within(x, z) PROVE Within(x, SetNz(z, r)) /\ SetNz(z, r).r = z.r
  <2> DEFINE p == [z.cpsr EXCEPT !.n = Top(r)]
             q == [p EXCEPT !.z = (r = 0)]
  <2>1. IsPsr(p) /\ p.mode = z.cpsr.mode
    BY <1>2, <1>3, <1>4
  <2>2. IsPsr(q) /\ q.mode = z.cpsr.mode
    <3> HIDE DEF p
    <3>. QED  BY <1>2, <2>1
  <2>3. SetNz(z, r) = [z EXCEPT !.cpsr = q]
    <3>1. \A u, w : [[z EXCEPT !.cpsr = u] EXCEPT !.cpsr = w] = [z EXCEPT !.cpsr = w]
      OBVIOUS
    <3>2. SetNz(z, r) = [[z EXCEPT !.cpsr = p] EXCEPT !.cpsr = [[z EXCEPT !.cpsr = p].cpsr EXCEPT !.z = (r = 0)]]
      BY DEF SetNz
    <3>3. [z EXCEPT !.cpsr = p].cpsr = p
      BY <1>3, <1>4
    <3> HIDE DEF p
    <3>. QED  BY <3>1, <3>2, <3>3
  <2> HIDE DEF q
  <2>. QED  BY <1>1, <1>4, <2>2, <2>3
<1>5. ASSUME NEW z, Within(x, z)
      PROVE  /\ Within(x, [z EXCEPT !.cpsr.c = c]) /\ [z EXCEPT !.cpsr.c = c].r = z.r
             /\ Within(x, [z EXCEPT !.cpsr.v = v]) /\ [z EXCEPT !.cpsr.v = v].r = z.r
  <2> DEFINE p == [z.cpsr EXCEPT !.c = c]
             q == [z.cpsr EXCEPT !.v = v]
  <2>1. /\ IsPsr(p) /\ p.mode = z.cpsr.mode
        /\ IsPsr(q) /\ q.mode = z.cpsr.mode
    BY <1>2, <1>3, <1>5
  <2>2. [z EXCEPT !.cpsr.c = c] = [z EXCEPT !.cpsr = p] /\ [z EXCEPT !.cpsr.v = v] = [z EXCEPT !.cpsr = q]
    OBVIOUS
  <2> HIDE DEF p, q
  <2>. QED  BY <1>1, <1>5, <2>1, <2>2
<1>6. Within(x, SetNzc(y, r, c)) /\ SetNzc(y, r, c).r = y.r
  BY <1>4, <1>5 DEF SetNzc
<1>7. Within(x, SetNzcv(y, r, c, v)) /\ SetNzcv(y, r, c, v).r = y.r
  BY <1>5, <1>6 DEF SetNzcv
<1>. QED  BY <1>4, <1>6, <1>7 DEF SetFlags
LEMMA WithinMemory ==
  ASSUME NEW x, NEW y, Within(x, y), NEW a, NEW v
  PROVE  Within(x, WriteWord(y, a, v)) /\ Within(x, WriteHalf(y, a, v)) /\ Within(x, WriteByte(y, a, v))
<1>1. \A n, w : Within(x, Put(y, a, v, n, w))
  BY DEF Within, Put, IsMachine
<1>. QED  BY <1>1 DEF WriteWord, WriteHalf, WriteByte

-----------------------------------------------------------------------------
\* From x to y no mode's registers are changed, though the mode may be.
SeenAlike(x, y) ==
  /\ IsMachine(y)
  /\ \A mode \in Mode, k \in 8..14 : Seen(y, mode, k) = Seen(x, mode, k)

LEMMA SwitchIsSeenAlike ==
  ASSUME NEW x, IsMachine(x), NEW p, IsPsr(p)
  PROVE  SeenAlike(x, WriteCpsr(x, p)) /\ WriteCpsr(x, p).cpsr = p
<1>1. CASE p.mode = x.cpsr.mode
  <2>1. WriteCpsr(x, p) = [x EXCEPT !.cpsr = p]
    BY <1>1 DEF WriteCpsr
  <2>2. IsMachine([x EXCEPT !.cpsr = p]) /\ [x EXCEPT !.cpsr = p].cpsr = p
    BY DEF IsMachine
  <2>3. /\ [x EXCEPT !.cpsr = p].r = x.r /\ [x EXCEPT !.cpsr = p].r8_12 = x.r8_12
        /\ [x EXCEPT !.cpsr = p].r13_14 = x.r13_14
    BY DEF IsMachine
  <2>. QED  BY <1>1, <2>1, <2>2, <2>3 DEF SeenAlike, Seen
<1>2. CASE p.mode # x.cpsr.mode
  <2> DEFINE y == SaveBank(x, x.cpsr.mode)
             z == [y EXCEPT !.cpsr = p]
             w == LoadBank(z, p.mode)
  <2>1. WriteCpsr(x, p) = w
    BY <1>2 DEF WriteCpsr
  <2>2. \A mode : FiqGroup(mode) \in 0..1 /\ BankClass(mode) \in 0..5
    BY DEF FiqGroup, BankClass
  <2>3. /\ IsMachine(y) /\ y.r = x.r
        /\ \A g \in 0..1 : y.r8_12[g] = IF g = FiqGroup(x.cpsr.mode) THEN [k \in 0..4 |-> x.r[8 + k]] ELSE x.r8_12[g]
        /\ \A c \in 0..5 : y.r13_14[c] = IF c = BankClass(x.cpsr.mode) THEN [k \in 0..1 |-> x.r[13 + k]]
                                         ELSE x.r13_14[c]
    BY <2>2 DEF SaveBank, IsMachine
  <2> HIDE DEF y
  <2>4. IsMachine(z) /\ z.r = y.r /\ z.r8_12 = y.r8_12 /\ z.r13_14 = y.r13_14 /\ z.cpsr = p
    BY <2>3 DEF IsMachine
  <2> HIDE DEF z
  <2>5. /\ IsMachine(w) /\ w.r8_12 = z.r8_12 /\ w.r13_14 = z.r13_14 /\ w.cpsr = p
        /\ \A k \in 0..15 : w.r[k] = IF k \in 8..12 THEN z.r8_12[FiqGroup(p.mode)][k - 8]
                                     ELSE IF k \in 13..14 THEN z.r13_14[BankClass(p.mode)][k - 13] ELSE z.r[k]
    BY <2>4 DEF LoadBank, IsMachine
  <2> HIDE DEF w
  <2>6. ASSUME NEW mode \in Mode, NEW k \in 8..14 PROVE Seen(w, mode, k) = Seen(x, mode, k)
    <3>1. CASE k \in 8..12
      <4>1. k - 8 \in 0..4 /\ 8 + (k - 8) = k /\ k \in 0..15
        BY <3>1
      <4>. QED  BY <2>2, <2>3, <2>4, <2>5, <3>1, <4>1 DEF Seen
    <3>2. CASE k \in 13..14
      <4>1. k - 13 \in 0..1 /\ 13 + (k - 13) = k /\ k \in 0..15 /\ k \notin 8..12
        BY <3>2
      <4>. QED  BY <2>2, <2>3, <2>4, <2>5, <3>2, <4>1 DEF Seen
    <3>. QED  BY <3>1, <3>2
  <2>. QED  BY <2>1, <2>5, <2>6 DEF SeenAlike
<1>. QED  BY <1>1, <1>2

-----------------------------------------------------------------------------
\* The operations that reach no register of another mode.
LEMMA WithinWriteBack ==
  ASSUME NEW x, NEW y, Within(x, y), NEW k, NEW v
  PROVE  Within(x, WriteBack(y, k, v))
  BY WithinRegister DEF WriteBack
LEMMA WithinBits ==
  ASSUME NEW x, NEW y, Within(x, y), NEW b
  PROVE  Within(x, [y EXCEPT !.cpsr.t = b]) /\ Within(x, [y EXCEPT !.flush = b])
<1> DEFINE p == [y.cpsr EXCEPT !.t = b]
<1>1. IsPsr(p) /\ p.mode = y.cpsr.mode
  BY DEF Within, IsMachine, IsPsr, PsrFields
<1>2. [y EXCEPT !.cpsr.t = b] = [y EXCEPT !.cpsr = p]
  OBVIOUS
<1> HIDE DEF p
<1>3. Within(x, [y EXCEPT !.cpsr = p])
  BY <1>1 DEF Within, IsMachine
<1>4. Within(x, [y EXCEPT !.flush = b])
  BY DEF Within, IsMachine
<1>. QED  BY <1>2, <1>3, <1>4

LEMMA MultipliesWithin ==
  ASSUME NEW x, IsMachine(x), NEW i
  PROVE  Within(x, Multiply(x, i)) /\ Within(x, MultiplyLong(x, i))
<1>1. Within(x, Multiply(x, i))
  BY WithinSelf, WithinRegister, WithinTicks, WithinFlags DEF Multiply
<1>2. Within(x, MultiplyLong(x, i))
  <2> DEFINE Val(k) == IF i.signed THEN Signed(Late(x, k), Width) ELSE Late(x, k)
             acc == IF i.acc THEN Late(x, i.rdhi) * 2^Width + Late(x, i.rdlo) ELSE 0
             res == Wrapped(Val(i.rm) * Val(i.rs) + acc, 2 * Width)
             y   == SetReg(SetReg(Ticks(x, MultiplyM(Late(x, i.rs)) + IF i.acc THEN 2 ELSE 1),
                                  i.rdlo, Wrap(res)), i.rdhi, res \div 2^Width)
  <2>1. MultiplyLong(x, i) = IF i.s THEN [y EXCEPT !.cpsr.n = Top(res \div 2^Width), !.cpsr.z = (res = 0)] ELSE y
    BY DEF MultiplyLong
  <2> HIDE DEF res
  <2>2. Within(x, y)
    BY WithinSelf, WithinRegister, WithinTicks
  <2> HIDE DEF y
  <2> DEFINE p == [[y.cpsr EXCEPT !.n = Top(res \div 2^Width)] EXCEPT !.z = (res = 0)]
  <2>3. IsPsr(p) /\ p.mode = y.cpsr.mode
    BY <2>2 DEF Within, IsMachine, IsPsr, PsrFields
  <2>4. [y EXCEPT !.cpsr.n = Top(res \div 2^Width), !.cpsr.z = (res = 0)] = [y EXCEPT !.cpsr = p]
    <3>1. [y EXCEPT !.cpsr.n = Top(res \div 2^Width)].cpsr = [y.cpsr EXCEPT !.n = Top(res \div 2^Width)]
      BY <2>2 DEF Within, IsMachine
    <3>2. \A u, w : [[y EXCEPT !.cpsr = u] EXCEPT !.cpsr = w] = [y EXCEPT !.cpsr = w]
      OBVIOUS
    <3>. QED  BY <3>1, <3>2
  <2> HIDE DEF p
  <2>5. Within(x, [y EXCEPT !.cpsr = p])
    BY <2>2, <2>3 DEF Within, IsMachine
  <2>. QED  BY <2>1, <2>2, <2>4, <2>5
<1>. QED  BY <1>1, <1>2

LEMMA TransfersWithin ==
  ASSUME NEW x, IsMachine(x), NEW i
  PROVE  /\ Within(x, SingleDataTransfer(x, i)) /\ Within(x, HalfwordSignedTransfer(x, i))
         /\ Within(x, Swap(x, i)) /\ Within(x, Mrs(x, i))
<1>1. Within(x, SingleDataTransfer(x, i))
  BY WithinSelf, WithinRegister, WithinTicks, WithinMemory, WithinWriteBack DEF SingleDataTransfer
<1>2. Within(x, HalfwordSignedTransfer(x, i))
  <2>1. PICK there, addr, read, stored :
          HalfwordSignedTransfer(x, i) =
            LET Base(y) == IF ~i.pre \/ i.wb THEN WriteBack(y, i.rn, there) ELSE y
            IN  IF i.load THEN SetReg(Base(Ticks(x, 1)), i.rd, read) ELSE Base(WriteHalf(x, addr, stored))
    BY DEF HalfwordSignedTransfer
  <2>. QED  BY <2>1, WithinSelf, WithinRegister, WithinTicks, WithinMemory, WithinWriteBack
<1>3. Within(x, Swap(x, i))
  BY WithinSelf, WithinRegister, WithinTicks, WithinMemory DEF Swap
<1>4. Within(x, Mrs(x, i))
  BY DEF Mrs, Within, IsMachine
<1>. QED  BY <1>1, <1>2, <1>3, <1>4

LEMMA BranchesWithin ==
  ASSUME NEW x, IsMachine(x), NEW i, NEW k
  PROVE  /\ Within(x, Branch(x, i)) /\ Within(x, BranchExchange(x, k))
         /\ Within(x, ConditionalBranch(x, i)) /\ Within(x, UnconditionalBranch(x, i))
         /\ Within(x, LongBranchLink(x, i))
  BY WithinSelf, WithinRegister, WithinBits
     DEF Branch, BranchExchange, ConditionalBranch, UnconditionalBranch, LongBranchLink

LEMMA ThumbNumbersWithin ==
  ASSUME NEW x, IsMachine(x), NEW i
  PROVE  /\ Within(x, MoveShifted(x, i)) /\ Within(x, AddSubtract(x, i)) /\ Within(x, Immediate(x, i))
         /\ i.alu \in ThumbAlus => Within(x, ThumbAlu(x, i))
         /\ i.alu \in {"add", "cmp", "mov", "bx"} => Within(x, HiRegister(x, i))
<1>1. Within(x, MoveShifted(x, i)) /\ Within(x, AddSubtract(x, i))
  BY WithinSelf, WithinRegister, WithinFlags DEF MoveShifted, AddSubtract
<1>2. Within(x, Immediate(x, i))
  BY WithinSelf, WithinRegister, WithinFlags DEF Immediate
<1>3. ASSUME i.alu \in ThumbAlus PROVE Within(x, ThumbAlu(x, i))
  BY <1>3, WithinSelf, WithinRegister, WithinFlags, WithinTicks DEF ThumbAlu, ThumbAlus
<1>4. ASSUME i.alu \in {"add", "cmp", "mov", "bx"} PROVE Within(x, HiRegister(x, i))
  BY <1>4, WithinSelf, WithinRegister, WithinFlags, BranchesWithin DEF HiRegister
<1>. QED  BY <1>1, <1>2, <1>3, <1>4

LEMMA ThumbTransfersWithin ==
  ASSUME NEW x, IsMachine(x), NEW i
  PROVE  /\ Within(x, PcRelativeLoad(x, i)) /\ Within(x, LoadStoreReg(x, i))
         /\ Within(x, LoadStoreSignExtended(x, i)) /\ Within(x, LoadStoreImm(x, i))
         /\ Within(x, LoadStoreHalfword(x, i)) /\ Within(x, SpRelative(x, i))
         /\ Within(x, LoadAddress(x, i)) /\ Within(x, AddToSp(x, i))
<1>1. \A addr, rd, load, byte : Within(x, Transfer(x, addr, rd, load, byte))
  BY WithinSelf, WithinRegister, WithinTicks, WithinMemory DEF Transfer
<1>2. Within(x, LoadStoreSignExtended(x, i))
  <2>1. PICK addr, read : LoadStoreSignExtended(x, i) = IF ~i.load THEN WriteHalf(x, addr, x.r[i.rd])
                                                          ELSE SetReg(Ticks(x, 1), i.rd, read)
    BY DEF LoadStoreSignExtended
  <2>. QED  BY <2>1, WithinSelf, WithinRegister, WithinTicks, WithinMemory
<1>3. /\ Within(x, PcRelativeLoad(x, i)) /\ Within(x, LoadStoreHalfword(x, i))
      /\ Within(x, LoadAddress(x, i)) /\ Within(x, AddToSp(x, i))
  BY WithinSelf, WithinRegister, WithinTicks, WithinMemory
     DEF PcRelativeLoad, LoadStoreHalfword, LoadAddress, AddToSp
<1>4. Within(x, LoadStoreReg(x, i)) /\ Within(x, LoadStoreImm(x, i)) /\ Within(x, SpRelative(x, i))
  BY <1>1 DEF LoadStoreReg, LoadStoreImm, SpRelative
<1>. QED  BY <1>2, <1>3, <1>4

-----------------------------------------------------------------------------
\* The registers another mode sees are left alone.
Stays(x, y) ==
  /\ IsMachine(y)
  /\ \A mode \in Mode, k \in 8..14 : Apart(mode, x.cpsr.mode, k) => Seen(y, mode, k) = Seen(x, mode, k)

LEMMA WithinStays == ASSUME NEW x, NEW y, Within(x, y) PROVE Stays(x, y)
<1>1. ASSUME NEW mode \in Mode, NEW k \in 8..14, Apart(mode, x.cpsr.mode, k)
      PROVE  Seen(y, mode, k) = Seen(x, mode, k)
  BY <1>1 DEF Within, Seen, Apart
<1>. QED  BY <1>1 DEF Within, Stays
LEMMA SeenAlikeStays == ASSUME NEW x, NEW y, SeenAlike(x, y) PROVE Stays(x, y)
  BY DEF SeenAlike, Stays
LEMMA StaysOn == ASSUME NEW x, NEW y, NEW z, Stays(x, y), SeenAlike(y, z) PROVE Stays(x, z)
  BY DEF SeenAlike, Stays
LEMMA SeenAlikeOn == ASSUME NEW x, NEW y, NEW z, SeenAlike(x, y), SeenAlike(y, z) PROVE SeenAlike(x, z)
  BY DEF SeenAlike
LEMMA SteadySeenAlike ==
  ASSUME NEW x, NEW y, Within(x, y), \A k \in 8..14 : y.r[k] = x.r[k]
  PROVE  SeenAlike(x, y)
  BY DEF SeenAlike, Within, Seen
LEMMA PcSeenAlike ==
  ASSUME NEW x, IsMachine(x), NEW v
  PROVE  SeenAlike(x, SetReg(x, PC, v))
<1>1. \A k \in 8..14 : SetReg(x, PC, v).r[k] = x.r[k]
  BY DEF SetReg, IsMachine, PC
<1>. QED  BY <1>1, WithinSelf, WithinRegister, SteadySeenAlike
LEMMA FlagsSeenAlike ==
  ASSUME NEW x, IsMachine(x), NEW r, NEW c, NEW v, NEW logical
  PROVE  SeenAlike(x, SetFlags(x, r, c, v, logical))
  BY WithinSelf, WithinFlags, SteadySeenAlike

LEMMA SavedIsPsr == ASSUME NEW x, IsMachine(x) PROVE IsPsr(CurrentSpsr(x))
  <1>1. BankClass(x.cpsr.mode) = 0 \/ BankClass(x.cpsr.mode) \in 1..5
    BY DEF BankClass
  <1>2. IsPsr(NoPsr)
    BY DEF IsPsr, PsrFields, NoPsr, Mode
  <1>. QED  BY <1>1, <1>2 DEF CurrentSpsr, IsMachine
LEMMA SaveSeenAlike ==
  ASSUME NEW x, IsMachine(x), NEW p, IsPsr(p)
  PROVE  SeenAlike(x, SetCurrentSpsr(x, p)) /\ SetCurrentSpsr(x, p).cpsr = x.cpsr
<1>1. Within(x, SetCurrentSpsr(x, p)) /\ SetCurrentSpsr(x, p).r = x.r /\ SetCurrentSpsr(x, p).cpsr = x.cpsr
  BY DEF Within, SetCurrentSpsr, IsMachine
<1>. QED  BY <1>1, SteadySeenAlike
LEMMA RestoreSeenAlike ==
  ASSUME NEW x, IsMachine(x), NEW r, NEW c, NEW v, NEW logical
  PROVE  SeenAlike(x, RestoreOrSetFlags(x, r, c, v, logical))
  BY SavedIsPsr, SwitchIsSeenAlike, FlagsSeenAlike DEF RestoreOrSetFlags

LEMMA DataStays ==
  ASSUME NEW x, IsMachine(x), NEW i
  PROVE  /\ Stays(x, DataProcessing(x, i))
         /\ i.alu \in Tests => SeenAlike(x, DataProcessing(x, i))
<1>1. PICK n, a, c, v, l :
        DataProcessing(x, i) =
          LET y == Ticks(x, n)
          IN  IF i.alu \in Tests
              THEN IF i.rd = PC THEN RestoreOrSetFlags(y, a, c, v, l) ELSE SetFlags(y, a, c, v, l)
              ELSE IF i.rd = PC
              THEN SetReg(IF i.s THEN RestoreOrSetFlags(y, a, c, v, l) ELSE y, PC, a)
              ELSE SetReg(IF i.s THEN SetFlags(y, a, c, v, l) ELSE y, i.rd, a)
  BY DEF DataProcessing
<1> DEFINE y == Ticks(x, n)
<1>2. Within(x, y) /\ SeenAlike(x, y) /\ IsMachine(y)
  <2>1. y.r = x.r /\ IsMachine(y)
    BY DEF Ticks, IsMachine
  <2>. QED  BY <2>1, WithinSelf, WithinTicks, SteadySeenAlike
<1> HIDE DEF y
<1>3. SeenAlike(x, RestoreOrSetFlags(y, a, c, v, l)) /\ SeenAlike(x, SetFlags(y, a, c, v, l))
  BY <1>2, RestoreSeenAlike, FlagsSeenAlike, SeenAlikeOn
<1>4. CASE i.alu \in Tests
  BY <1>1, <1>3, <1>4, SeenAlikeStays DEF y
<1>5. CASE i.alu \notin Tests /\ i.rd = PC
  <2> DEFINE z == IF i.s THEN RestoreOrSetFlags(y, a, c, v, l) ELSE y
  <2>1. SeenAlike(x, z) /\ IsMachine(z)
    BY <1>2, <1>3 DEF SeenAlike
  <2>2. DataProcessing(x, i) = SetReg(z, PC, a)
    BY <1>1, <1>5 DEF y
  <2>3. SeenAlike(x, SetReg(z, PC, a))
    BY <2>1, PcSeenAlike, SeenAlikeOn
  <2>. QED  BY <1>5, <2>2, <2>3, SeenAlikeStays
<1>6. CASE i.alu \notin Tests /\ i.rd # PC
  <2> DEFINE z == IF i.s THEN SetFlags(y, a, c, v, l) ELSE y
  <2>1. Within(x, z)
    BY <1>2, WithinFlags
  <2>2. DataProcessing(x, i) = SetReg(z, i.rd, a)
    BY <1>1, <1>6 DEF y
  <2>3. Within(x, SetReg(z, i.rd, a))
    BY <2>1, WithinRegister
  <2>. QED  BY <1>6, <2>2, <2>3, WithinStays
<1>. QED  BY <1>4, <1>5, <1>6

\* A store to a status register leaves the machine, switches or saves.
LEMMA MsrIs ==
  ASSUME NEW x, IsMachine(x), NEW i
  PROVE  \/ Msr(x, i) = x
         \/ \E p : IsPsr(p) /\ (Msr(x, i) = WriteCpsr(x, p) \/ Msr(x, i) = SetCurrentSpsr(x, p))
<1> DEFINE from == PsrOfWord(IF i.src.by = "imm" THEN RotateImmediate(i.src.imm, i.src.rot, x.cpsr.c)[1]
                             ELSE x.r[i.src.rm])
           Masked(p, lanes) ==
             LET q == IF "flags" \in lanes
                      THEN [p EXCEPT !.n = from.n, !.z = from.z, !.c = from.c, !.v = from.v] ELSE p
             IN  IF "control" \in lanes THEN [q EXCEPT !.i = from.i, !.t = from.t, !.mode = from.mode] ELSE q
           lanes == IF x.cpsr.mode = "User" THEN i.lanes \cap {"flags"} ELSE i.lanes
<1>1. Msr(x, i) = IF ~i.spsr THEN WriteCpsr(x, Masked(x.cpsr, lanes))
                  ELSE IF HasSpsr(x) THEN SetCurrentSpsr(x, Masked(CurrentSpsr(x), lanes)) ELSE x
  BY DEF Msr
<1>2. from.mode \in Mode
  <2>1. \A b : ModeOf(b) \in Mode
    BY DEF ModeOf, Mode
  <2>. QED  BY <2>1 DEF PsrOfWord
<1> HIDE DEF from
<1>3. ASSUME NEW p, IsPsr(p), NEW s PROVE IsPsr(Masked(p, s))
  <2> DEFINE q == IF "flags" \in s THEN [p EXCEPT !.n = from.n, !.z = from.z, !.c = from.c, !.v = from.v] ELSE p
  <2>1. IsPsr(q)
    BY <1>3 DEF IsPsr, PsrFields
  <2>2. Masked(p, s) = IF "control" \in s THEN [q EXCEPT !.i = from.i, !.t = from.t, !.mode = from.mode] ELSE q
    OBVIOUS
  <2> HIDE DEF q
  <2>3. IsPsr([q EXCEPT !.i = from.i, !.t = from.t, !.mode = from.mode])
    BY <1>2, <2>1 DEF IsPsr, PsrFields
  <2>. QED  BY <2>1, <2>2, <2>3
<1>4. IsPsr(Masked(x.cpsr, lanes)) /\ IsPsr(Masked(CurrentSpsr(x), lanes))
  BY <1>3, SavedIsPsr DEF IsMachine
<1> HIDE DEF Masked, lanes
<1>. QED  BY <1>1, <1>4

LEMMA MsrSeenAlike ==
  ASSUME NEW x, IsMachine(x), NEW i
  PROVE  SeenAlike(x, Msr(x, i))
<1>1. SeenAlike(x, x)
  BY WithinSelf, SteadySeenAlike
<1>. QED  BY <1>1, MsrIs, SwitchIsSeenAlike, SaveSeenAlike

-----------------------------------------------------------------------------
\* A block, a register at a time.  From x to y nothing is changed but what the
\* mode sees and the User bank.
UserWithin(x, y) ==
  /\ IsMachine(y) /\ y.cpsr.mode = x.cpsr.mode
  /\ y.r8_12[1] = x.r8_12[1] /\ \A c \in 1..5 : y.r13_14[c] = x.r13_14[c]
ForOthers(user, x, y) == IF user THEN UserWithin(x, y) ELSE Within(x, y)

LEMMA WithinForOthers ==
  ASSUME NEW user, NEW x, NEW y, Within(x, y)
  PROVE  ForOthers(user, x, y)
  BY DEF Within, UserWithin, ForOthers
LEMMA UserRegisterWithin ==
  ASSUME NEW x, NEW y, UserWithin(x, y), NEW k, NEW v
  PROVE  UserWithin(x, SetUserReg(y, k, v)) /\ UserWithin(x, SetReg(y, k, v))
  BY DEF UserWithin, SetUserReg, SetReg, IsMachine

UserSet(e) == e.i.user /\ PC \notin e.i.list
SpanOf(e) == BlockSpan(e.x.r[e.i.rn], Cardinality(e.i.list), e.i.pre, e.i.up)
LoadStep(e, y, k) ==
  IF UserSet(e) THEN SetUserReg(y, k, ReadWord(e.x, Wrap(SpanOf(e)[1] + 4 * Before(e.i.list, k))))
  ELSE SetReg(y, k, ReadWord(e.x, Wrap(SpanOf(e)[1] + 4 * Before(e.i.list, k))))
LoadedHolds(e, y) == ForOthers(UserSet(e), e.x, y)
LoadFold == INSTANCE FoldProofs WITH Op <- LoadStep, Holds <- LoadedHolds

StoreStep(e, y, k) ==
  WriteWord(y, Wrap(SpanOf(e)[1] + 4 * Before(e.i.list, k)),
            IF k = e.i.rn /\ e.i.wb /\ k # Lowest(e.i.list) THEN SpanOf(e)[2]
            ELSE IF k = PC THEN Late(e.x, PC)
            ELSE IF e.i.user THEN UserReg(e.x, k) ELSE e.x.r[k])
WithinHolds(e, y) == Within(e.x, y)
StoreFold == INSTANCE FoldProofs WITH Op <- StoreStep, Holds <- WithinHolds

LEMMA LoadBlockStays ==
  ASSUME NEW e, IsMachine(e.x), e.i.list \subseteq 0..15
  PROVE  \E z : /\ ForOthers(e.i.user, e.x, z)
                /\ LoadBlock(e.x, e.i) = z \/ SeenAlike(z, LoadBlock(e.x, e.i))
<1> DEFINE n == Cardinality(e.i.list)
           y == LoadFold!Folded(e, Ticks(e.x, 1), Ordered(e.i.list))
           span == SpanOf(e)
           Set(u, k, v) == IF UserSet(e) THEN SetUserReg(u, k, v) ELSE SetReg(u, k, v)
           z == IF ~e.i.wb \/ e.i.rn \in e.i.list THEN y
                ELSE IF e.i.rn = PC THEN SetReg(y, PC, span[2]) ELSE Set(y, e.i.rn, span[2])
<1>1. ForOthers(UserSet(e), e.x, y)
  <2>1. n \in Nat /\ DOMAIN Ordered(e.i.list) = 1..n
    BY OrderedIsSequence
  <2>2. LoadedHolds(e, Ticks(e.x, 1))
    BY WithinSelf, WithinTicks, WithinForOthers DEF LoadedHolds
  <2>3. \A a, k : LoadedHolds(e, a) => LoadedHolds(e, LoadStep(e, a, k))
    BY WithinRegister, UserRegisterWithin DEF LoadedHolds, LoadStep, ForOthers
  <2> HIDE DEF n
  <2>4. LoadedHolds(e, y)
    BY <2>1, <2>2, <2>3, LoadFold!FoldKeeps
  <2>. QED  BY <2>4 DEF LoadedHolds
<1>2. LoadBlock(e.x, e.i) = IF e.i.user /\ PC \in e.i.list /\ HasSpsr(z) THEN WriteCpsr(z, CurrentSpsr(z)) ELSE z
  BY DEF LoadBlock, LoadStep, UserSet, SpanOf, LoadFold!Folded, FoldLeft,
         LoadFold!MapThenFoldSet, MapThenFoldSet, LoadFold!Greatest, Max
<1> HIDE DEF y
<1>3. ForOthers(UserSet(e), e.x, z)
  BY <1>1, WithinRegister, UserRegisterWithin DEF ForOthers
<1> HIDE DEF z
<1>4. ForOthers(e.i.user, e.x, z) /\ IsMachine(z)
  BY <1>3 DEF ForOthers, UserSet, UserWithin, Within
<1>5. SeenAlike(z, WriteCpsr(z, CurrentSpsr(z)))
  BY <1>4, SavedIsPsr, SwitchIsSeenAlike
<1>. QED  BY <1>2, <1>4, <1>5

LEMMA StoreBlockStays ==
  ASSUME NEW e, IsMachine(e.x), e.i.list \subseteq 0..15
  PROVE  ForOthers(e.i.user, e.x, StoreBlock(e.x, e.i))
<1> DEFINE n == Cardinality(e.i.list)
           y == StoreFold!Folded(e, e.x, Ordered(e.i.list))
           span == SpanOf(e)
<1>1. Within(e.x, y)
  <2>1. n \in Nat /\ DOMAIN Ordered(e.i.list) = 1..n
    BY OrderedIsSequence
  <2>2. WithinHolds(e, e.x)
    BY WithinSelf DEF WithinHolds
  <2>3. \A a, k : WithinHolds(e, a) => WithinHolds(e, StoreStep(e, a, k))
    BY WithinMemory DEF WithinHolds, StoreStep
  <2> HIDE DEF n
  <2>4. WithinHolds(e, y)
    BY <2>1, <2>2, <2>3, StoreFold!FoldKeeps
  <2>. QED  BY <2>4 DEF WithinHolds
<1>2. StoreBlock(e.x, e.i) = IF ~e.i.wb THEN y
                             ELSE IF e.i.user /\ e.i.rn # PC THEN SetUserReg(y, e.i.rn, span[2])
                             ELSE SetReg(y, e.i.rn, span[2])
  BY DEF StoreBlock, StoreStep, SpanOf, StoreFold!Folded, FoldLeft,
         StoreFold!MapThenFoldSet, MapThenFoldSet, StoreFold!Greatest, Max
<1> HIDE DEF y
<1>. QED  BY <1>1, <1>2, WithinForOthers, WithinRegister, UserRegisterWithin DEF ForOthers

LEMMA EmptyBlockWithin ==
  ASSUME NEW x, IsMachine(x), NEW i
  PROVE  Within(x, EmptyBlock(x, i))
  BY WithinSelf, WithinRegister, WithinTicks, WithinMemory, WithinBits DEF EmptyBlock

LEMMA BlockStays ==
  ASSUME NEW x, IsMachine(x), NEW i, i.list \subseteq 0..15
  PROVE  \E z : /\ ForOthers(i.user, x, z)
                /\ BlockDataTransfer(x, i) = z \/ SeenAlike(z, BlockDataTransfer(x, i))
<1> DEFINE e == [x |-> x, i |-> i]
<1>1. e.x = x /\ e.i = i
  OBVIOUS
<1> HIDE DEF e
<1>2. \E z : ForOthers(i.user, x, z) /\ (LoadBlock(x, i) = z \/ SeenAlike(z, LoadBlock(x, i)))
  BY <1>1, LoadBlockStays
<1>3. ForOthers(i.user, x, StoreBlock(x, i))
  BY <1>1, StoreBlockStays
<1>4. ForOthers(i.user, x, EmptyBlock(x, i))
  BY EmptyBlockWithin, WithinForOthers
<1>. QED  BY <1>2, <1>3, <1>4 DEF BlockDataTransfer

PoppedStart(e) == IF e.i.load THEN e.x.r[SP] ELSE Wrap(e.x.r[SP] - 4 * (Cardinality(e.i.list) + Flag(e.i.extra, 0)))
PopInto(e, y, k) == SetReg(y, k, ReadWord(e.x, Wrap(PoppedStart(e) + 4 * Before(e.i.list, k))))
PushFrom(e, y, k) == WriteWord(y, Wrap(PoppedStart(e) + 4 * Before(e.i.list, k)), e.x.r[k])
PopFold == INSTANCE FoldProofs WITH Op <- PopInto, Holds <- WithinHolds
PushFold == INSTANCE FoldProofs WITH Op <- PushFrom, Holds <- WithinHolds

TakeStep(e, y, k) == SetReg(y, k, ReadWord(e.x, Wrap(e.x.r[e.i.rb] + 4 * Before(e.i.list, k))))
GiveStep(e, y, k) ==
  WriteWord(y, Wrap(e.x.r[e.i.rb] + 4 * Before(e.i.list, k)),
            IF k = e.i.rb /\ k # Lowest(e.i.list)
            THEN Wrap(e.x.r[e.i.rb] + 4 * Cardinality(e.i.list)) ELSE e.x.r[k])
TakeFold == INSTANCE FoldProofs WITH Op <- TakeStep, Holds <- WithinHolds
GiveFold == INSTANCE FoldProofs WITH Op <- GiveStep, Holds <- WithinHolds

LEMMA StackWithin ==
  ASSUME NEW e, IsMachine(e.x), e.i.list \subseteq 0..15
  PROVE  Within(e.x, PushPop(e.x, e.i))
<1> DEFINE x == e.x
           i == e.i
           c == Cardinality(i.list)
           n == c + Flag(i.extra, 0)
           start == IF i.load THEN x.r[SP] ELSE Wrap(x.r[SP] - 4 * n)
           last  == Wrap(start + 4 * c)
           popped == PopFold!Folded(e, Ticks(x, 1), Ordered(i.list))
           moved == SetReg(popped, SP, Wrap(x.r[SP] + 4 * n))
           pushed == PushFold!Folded(e, x, Ordered(i.list))
           below == Wrap(x.r[SP] - 64)
<1>1. c \in Nat /\ DOMAIN Ordered(i.list) = 1..c
  BY OrderedIsSequence
<1>2. /\ WithinHolds(e, x) /\ WithinHolds(e, Ticks(x, 1))
      /\ \A a, k : WithinHolds(e, a) => WithinHolds(e, PopInto(e, a, k)) /\ WithinHolds(e, PushFrom(e, a, k))
  BY WithinSelf, WithinTicks, WithinRegister, WithinMemory DEF WithinHolds, PopInto, PushFrom
<1>3. WithinHolds(e, popped)
  <2> HIDE DEF x, c
  <2>. QED  BY <1>1, <1>2, PopFold!FoldKeeps
<1>4. WithinHolds(e, pushed)
  <2> HIDE DEF c
  <2>. QED  BY <1>1, <1>2, PushFold!FoldKeeps
<1>5. PushPop(x, i) =
        CASE n = 0 /\ i.load -> SetReg(SetReg(x, PC, ReadWord(x, x.r[SP])), SP, Wrap(x.r[SP] + 64))
          [] n = 0 /\ ~i.load -> SetReg(WriteWord(x, below, Wrap(x.r[PC] + 2)), SP, below)
          [] n > 0 /\ i.load ->
               IF i.extra THEN SetReg(moved, PC, ReadWord(x, last) - (ReadWord(x, last) % 2)) ELSE moved
          [] OTHER -> SetReg(IF i.extra THEN WriteWord(pushed, last, x.r[LR]) ELSE pushed, SP, start)
  BY DEF PushPop, PopInto, PushFrom, PoppedStart, PopFold!Folded, FoldLeft,
         PopFold!MapThenFoldSet, MapThenFoldSet, PopFold!Greatest, Max,
         PushFold!Folded,  PushFold!MapThenFoldSet, PushFold!Greatest
<1> HIDE DEF popped, pushed, n, last, below, start
<1>6. Within(x, x) /\ Within(x, popped) /\ Within(x, pushed)
  BY <1>2, <1>3, <1>4 DEF WithinHolds
<1>. QED  BY <1>5, <1>6, WithinRegister, WithinMemory

LEMMA BlockTransferWithin ==
  ASSUME NEW e, IsMachine(e.x), e.i.list \subseteq 0..15
  PROVE  Within(e.x, BlockTransfer(e.x, e.i))
<1> DEFINE x == e.x
           i == e.i
           c == Cardinality(i.list)
           low == x.r[i.rb]
           wb == Wrap(low + 4 * c)
           taken == TakeFold!Folded(e, Ticks(x, 1), Ordered(i.list))
           given == GiveFold!Folded(e, x, Ordered(i.list))
           moved == IF i.load THEN taken ELSE given
           none == SetReg(x, i.rb, Wrap(low + 64))
<1>1. c \in Nat /\ DOMAIN Ordered(i.list) = 1..c
  BY OrderedIsSequence
<1>2. /\ WithinHolds(e, x) /\ WithinHolds(e, Ticks(x, 1))
      /\ \A a, k : WithinHolds(e, a) => WithinHolds(e, TakeStep(e, a, k)) /\ WithinHolds(e, GiveStep(e, a, k))
  BY WithinSelf, WithinTicks, WithinRegister, WithinMemory DEF WithinHolds, TakeStep, GiveStep
<1>3. WithinHolds(e, taken)
  <2> HIDE DEF x, c
  <2>. QED  BY <1>1, <1>2, TakeFold!FoldKeeps
<1>4. WithinHolds(e, given)
  <2> HIDE DEF c
  <2>. QED  BY <1>1, <1>2, GiveFold!FoldKeeps
<1>5. BlockTransfer(x, i) =
        IF i.list = {}
        THEN IF i.load THEN SetReg(none, PC, ReadWord(x, low))
             ELSE WriteWord(none, low, Wrap(x.r[PC] + 2))
        ELSE IF i.load /\ i.rb \in i.list THEN moved ELSE SetReg(moved, i.rb, wb)
  BY DEF BlockTransfer, TakeStep, GiveStep, TakeFold!Folded, FoldLeft,
         TakeFold!MapThenFoldSet, MapThenFoldSet, TakeFold!Greatest, Max,
         GiveFold!Folded,  GiveFold!MapThenFoldSet, GiveFold!Greatest
<1> HIDE DEF taken, given, wb
<1>6. Within(x, x) /\ Within(x, moved)
  BY <1>2, <1>3, <1>4 DEF WithinHolds
<1> HIDE DEF moved
<1>. QED  BY <1>5, <1>6, WithinRegister, WithinMemory

LEMMA ThumbBlocksWithin ==
  ASSUME NEW x, IsMachine(x), NEW i, i.list \subseteq 0..15
  PROVE  Within(x, PushPop(x, i)) /\ Within(x, BlockTransfer(x, i))
<1> DEFINE e == [x |-> x, i |-> i]
<1>1. e.x = x /\ e.i = i
  OBVIOUS
<1> HIDE DEF e
<1>. QED  BY <1>1, StackWithin, BlockTransferWithin

-----------------------------------------------------------------------------
(* Exceptions *)

\* An entry changes the LR of the mode it enters alone.
EntersOnly(x, y) ==
  /\ IsMachine(y)
  /\ \A mode \in Mode, k \in 8..14 :
       ~(k = LR /\ BankClass(mode) = BankClass(y.cpsr.mode)) => Seen(y, mode, k) = Seen(x, mode, k)

LEMMA EnteredOnly ==
  ASSUME NEW x, IsMachine(x), NEW mode \in Mode, NEW return, NEW vector
  PROVE  EntersOnly(x, Entered(x, mode, return, vector))
<1> DEFINE p == [x.cpsr EXCEPT !.mode = mode, !.t = FALSE, !.i = TRUE]
           y == WriteCpsr(x, p)
           z == SetCurrentSpsr(y, x.cpsr)
           w == SetReg(z, LR, return)
<1>1. IsPsr(p) /\ p.mode = mode
  BY DEF IsMachine, IsPsr, PsrFields
<1> HIDE DEF p
<1>2. SeenAlike(x, y)
  BY <1>1, SwitchIsSeenAlike
<1>3. SeenAlike(x, z) /\ IsMachine(z)
  <2>1. IsMachine(y) /\ IsPsr(x.cpsr)
    BY <1>2 DEF SeenAlike, IsMachine
  <2> HIDE DEF y
  <2>2. SeenAlike(y, z)
    BY <2>1, SaveSeenAlike
  <2>. QED  BY <1>2, <2>2, SeenAlikeOn DEF SeenAlike
<1> HIDE DEF z
<1>4. /\ IsMachine(w) /\ w.r8_12 = z.r8_12 /\ w.r13_14 = z.r13_14 /\ w.cpsr = z.cpsr
      /\ \A k \in 8..13 : w.r[k] = z.r[k]
  BY <1>3 DEF SetReg, IsMachine, LR
<1> HIDE DEF w
<1>5. EntersOnly(x, w)
  <2>1. ASSUME NEW o \in Mode, NEW k \in 8..14, ~(k = LR /\ BankClass(o) = BankClass(w.cpsr.mode))
        PROVE  Seen(w, o, k) = Seen(z, o, k)
    BY <1>4, <2>1 DEF Seen, LR
  <2>2. \A o \in Mode, k \in 8..14 : Seen(z, o, k) = Seen(x, o, k)
    BY <1>3 DEF SeenAlike
  <2>. QED  BY <1>4, <2>1, <2>2 DEF EntersOnly
<1>6. SeenAlike(w, SetReg(w, PC, vector)) /\ SetReg(w, PC, vector).cpsr = w.cpsr
  BY <1>4, PcSeenAlike DEF SetReg, IsMachine
<1>7. Entered(x, mode, return, vector) = SetReg(w, PC, vector)
  BY DEF Entered, w, z, p
<1>. QED  BY <1>5, <1>6, <1>7 DEF EntersOnly, SeenAlike

-----------------------------------------------------------------------------
(* An instruction, and all of them *)

Kept(i, x, y) ==
  \A mode \in Mode, k \in 8..14 :
    \/ Switches(i)
    \/ /\ Apart(mode, x.cpsr.mode, k)
       /\ ~(ForUser(i) /\ InUserBank(mode, k))
       /\ ~(Enters(i) /\ k = LR /\ BankClass(mode) = BankClass(y.cpsr.mode))
    => Seen(y, mode, k) = Seen(x, mode, k)

LEMMA WithinKept ==
  ASSUME NEW i, NEW x, NEW y, Within(x, y), ~Switches(i)
  PROVE  IsMachine(y) /\ Kept(i, x, y)
  BY WithinStays DEF Stays, Kept
LEMMA SeenAlikeKept ==
  ASSUME NEW i, NEW x, NEW y, SeenAlike(x, y)
  PROVE  IsMachine(y) /\ Kept(i, x, y)
  BY DEF SeenAlike, Kept
LEMMA KeptOn ==
  ASSUME NEW i, NEW x, NEW y, NEW z, Kept(i, x, y), SeenAlike(y, z), z.cpsr.mode = y.cpsr.mode
  PROVE  IsMachine(z) /\ Kept(i, x, z)
  BY DEF SeenAlike, Kept

LEMMA EnteredKept ==
  ASSUME NEW x, IsMachine(x), NEW mode \in Mode, NEW return, NEW vector, NEW i, Enters(i)
  PROVE  IsMachine(Entered(x, mode, return, vector)) /\ Kept(i, x, Entered(x, mode, return, vector))
<1>1. ~Switches(i)
  BY DEF Enters, Switches
<1>. QED  BY <1>1, EnteredOnly DEF EntersOnly, Kept

LEMMA BlockKept ==
  ASSUME NEW x, IsMachine(x), NEW i, i.op = "block", i.list \subseteq 0..15
  PROVE  IsMachine(BlockDataTransfer(x, i)) /\ Kept(i, x, BlockDataTransfer(x, i))
<1>1. ~Switches(i) /\ ~Enters(i) /\ (ForUser(i) <=> i.user)
  BY DEF Switches, Enters, ForUser
<1>2. PICK z : /\ ForOthers(i.user, x, z)
               /\ BlockDataTransfer(x, i) = z \/ SeenAlike(z, BlockDataTransfer(x, i))
  BY BlockStays
<1>3. IsMachine(z)
  BY <1>2 DEF ForOthers, UserWithin, Within
<1>4. ASSUME NEW mode \in Mode, NEW k \in 8..14, Apart(mode, x.cpsr.mode, k),
             ~(ForUser(i) /\ InUserBank(mode, k))
      PROVE  Seen(z, mode, k) = Seen(x, mode, k)
  <2>1. CASE ~i.user
    BY <1>2, <1>4, <2>1, WithinStays DEF ForOthers, Stays
  <2>2. CASE i.user
    <3>1. UserWithin(x, z) /\ ~InUserBank(mode, k)
      BY <1>1, <1>2, <1>4, <2>2 DEF ForOthers
    <3>2. BankClass(mode) = 0 \/ BankClass(mode) \in 1..5
      BY DEF BankClass
    <3>3. CASE k \in 8..12
      BY <1>4, <3>1, <3>3 DEF UserWithin, Seen, Apart, InUserBank, FiqGroup
    <3>4. CASE k \in 13..14
      BY <1>4, <3>1, <3>2, <3>4 DEF UserWithin, Seen, Apart, InUserBank
    <3>. QED  BY <3>3, <3>4
  <2>. QED  BY <2>1, <2>2
<1>5. \A mode \in Mode, k \in 8..14 : Seen(BlockDataTransfer(x, i), mode, k) = Seen(z, mode, k)
  BY <1>2 DEF SeenAlike
<1>6. IsMachine(BlockDataTransfer(x, i))
  BY <1>2, <1>3 DEF SeenAlike
<1>. QED  BY <1>1, <1>4, <1>5, <1>6 DEF Kept

\* What the decoded operations and lists of registers are.
LEMMA DecodedParts ==
  ASSUME NEW i, Decoded(i)
  PROVE  /\ i.op = "t4" => i.alu \in ThumbAlus
         /\ i.op = "t5" => i.alu \in {"add", "cmp", "mov", "bx"}
         /\ i.op \in {"block", "t14", "t15"} => i.list \subseteq 0..15
<1>1. (i.op = "t4" => i.alu \in ThumbAlus) /\ (i.op = "t5" => i.alu \in {"add", "cmp", "mov", "bx"})
  BY DEF Decoded, DecodedThumb
<1>2. i.op = "block" => i.list \subseteq 0..15
  BY DEF Decoded, DecodedArm, Register
<1>3. i.op \in {"t14", "t15"} => i.list \subseteq 0..15
  <2>1. i.op \in {"t14", "t15"} => i.list \subseteq Low
    BY DEF Decoded, DecodedThumb
  <2>2. Low \subseteq 0..15
    BY DEF Low
  <2>. QED  BY <2>1, <2>2
<1>. QED  BY <1>1, <1>2, <1>3

LEMMA ArmKept ==
  ASSUME NEW x, IsMachine(x), NEW i, Decoded(i), i.op \in ArmOps
  PROVE  IsMachine(ArmExecute(x, i)) /\ Kept(i, x, ArmExecute(x, i))
<1>1. CASE i.op = "dp"
  <2>1. ArmExecute(x, i) = DataProcessing(x, i)
    BY <1>1 DEF ArmExecute
  <2>2. CASE i.alu \in Tests
    BY <2>1, <2>2, DataStays, SeenAlikeKept
  <2>3. CASE i.alu \notin Tests
    <3>1. ~Switches(i)
      BY <1>1, <2>3 DEF Switches
    <3>. QED  BY <2>1, <3>1, DataStays DEF Stays, Kept
  <2>. QED  BY <2>2, <2>3
<1>2. CASE i.op \in {"mul", "mull", "ldr", "ldrh", "swp", "mrs", "b", "bx", "undefined"}
  <2>1. Within(x, ArmExecute(x, i))
    BY <1>2, WithinSelf, MultipliesWithin, TransfersWithin, BranchesWithin DEF ArmExecute
  <2>. QED  BY <1>2, <2>1, WithinKept DEF Switches
<1>3. CASE i.op = "msr"
  <2>1. ArmExecute(x, i) = Msr(x, i)
    BY <1>3 DEF ArmExecute
  <2>. QED  BY <2>1, MsrSeenAlike, SeenAlikeKept
<1>4. CASE i.op = "block"
  <2>1. ArmExecute(x, i) = BlockDataTransfer(x, i) /\ i.list \subseteq 0..15
    BY <1>4, DecodedParts DEF ArmExecute
  <2>. QED  BY <1>4, <2>1, BlockKept
<1>5. CASE i.op = "swi"
  <2>1. ArmExecute(x, i) = Entered(x, "Supervisor", Wrap(x.r[PC] - 4), 8)
    BY <1>5 DEF ArmExecute, SoftwareInterrupt
  <2>. QED  BY <1>5, <2>1, EnteredKept DEF Enters, Mode
<1>. QED  BY <1>1, <1>2, <1>3, <1>4, <1>5 DEF ArmOps

LEMMA ThumbKept ==
  ASSUME NEW x, IsMachine(x), NEW i, Decoded(i), i.op \in ThumbOps
  PROVE  IsMachine(ThumbExecute(x, i)) /\ Kept(i, x, ThumbExecute(x, i))
<1>1. CASE i.op = "t17"
  <2>1. ThumbExecute(x, i) = Entered(x, "Supervisor", Wrap(x.r[PC] - 2), 8)
    BY <1>1 DEF ThumbExecute, ThumbSoftwareInterrupt
  <2>. QED  BY <1>1, <2>1, EnteredKept DEF Enters, Mode
<1>2. CASE i.op # "t17"
  <2>1. CASE i.op \in {"t1", "t2", "t3", "t4", "t5"}
    BY <2>1, DecodedParts, ThumbNumbersWithin, WithinKept DEF ThumbExecute, Switches
  <2>2. CASE i.op \in {"t6", "t7", "t8", "t9", "t10", "t11", "t12", "t13"}
    BY <2>2, ThumbTransfersWithin, WithinKept DEF ThumbExecute, Switches
  <2>3. CASE i.op \in {"t14", "t15"}
    BY <2>3, DecodedParts, ThumbBlocksWithin, WithinKept DEF ThumbExecute, Switches
  <2>4. CASE i.op \in {"t16", "t18", "t19"}
    BY <2>4, BranchesWithin, WithinKept DEF ThumbExecute, Switches
  <2>. QED  BY <1>2, <2>1, <2>2, <2>3, <2>4 DEF ThumbOps
<1>. QED  BY <1>1, <1>2

LEMMA RefillSeenAlike ==
  ASSUME NEW x, NEW y, IsMachine(y)
  PROVE  /\ SeenAlike(y, Refill(y)) /\ Refill(y).cpsr = y.cpsr
         /\ SeenAlike(y, Advanced(x, y)) /\ Advanced(x, y).cpsr = y.cpsr
<1>1. ASSUME NEW pipeline, NEW pc, NEW flush
      PROVE  LET z == [y EXCEPT !.pipeline = pipeline, !.r[PC] = pc, !.flush = flush]
             IN  SeenAlike(y, z) /\ z.cpsr = y.cpsr
  <2> DEFINE z == [y EXCEPT !.pipeline = pipeline, !.r[PC] = pc, !.flush = flush]
  <2>1. Within(y, z) /\ z.cpsr = y.cpsr /\ \A k \in 8..14 : z.r[k] = y.r[k]
    BY DEF Within, IsMachine, PC
  <2> HIDE DEF z
  <2>2. SeenAlike(y, z)
    BY <2>1, SteadySeenAlike
  <2>. QED  BY <2>1, <2>2 DEF z
<1>2. ASSUME NEW pipeline, NEW pc
      PROVE  LET z == [y EXCEPT !.pipeline = pipeline, !.r[PC] = pc]
             IN  SeenAlike(y, z) /\ z.cpsr = y.cpsr
  <2> DEFINE z == [y EXCEPT !.pipeline = pipeline, !.r[PC] = pc]
  <2>1. Within(y, z) /\ z.cpsr = y.cpsr /\ \A k \in 8..14 : z.r[k] = y.r[k]
    BY DEF Within, IsMachine, PC
  <2> HIDE DEF z
  <2>2. SeenAlike(y, z)
    BY <2>1, SteadySeenAlike
  <2>. QED  BY <2>1, <2>2 DEF z
<1>3. SeenAlike(y, Refill(y)) /\ Refill(y).cpsr = y.cpsr
  BY <1>1 DEF Refill
<1>4. ASSUME ~y.flush PROVE SeenAlike(y, Advanced(x, y)) /\ Advanced(x, y).cpsr = y.cpsr
  <2>1. PICK pipeline, pc : Advanced(x, y) = [y EXCEPT !.pipeline = pipeline, !.r[PC] = pc]
    BY <1>4 DEF Advanced
  <2> DEFINE z == [y EXCEPT !.pipeline = pipeline, !.r[PC] = pc]
  <2>2. SeenAlike(y, z) /\ z.cpsr = y.cpsr
    BY <1>2
  <2> HIDE DEF z
  <2>. QED  BY <2>1, <2>2 DEF z
<1>. QED  BY <1>3, <1>4 DEF Advanced

LEMMA TicksAlike ==
  ASSUME NEW x, IsMachine(x)
  PROVE  /\ IsMachine([x EXCEPT !.ticks = 0]) /\ [x EXCEPT !.ticks = 0].cpsr = x.cpsr
         /\ \A i, y : Kept(i, [x EXCEPT !.ticks = 0], y) => Kept(i, x, y)
<1> DEFINE z == [x EXCEPT !.ticks = 0]
<1>1. IsMachine(z) /\ z.cpsr = x.cpsr /\ z.r = x.r /\ z.r8_12 = x.r8_12 /\ z.r13_14 = x.r13_14
  BY DEF IsMachine
<1> HIDE DEF z
<1>2. \A mode, k : Seen(z, mode, k) = Seen(x, mode, k)
  BY <1>1 DEF Seen
<1>3. \A i, y : Kept(i, z, y) => Kept(i, x, y)
  BY <1>1, <1>2 DEF Kept
<1>. QED  BY <1>1, <1>3 DEF z

LEMMA StepKept ==
  ASSUME NEW x, IsMachine(x), NEW i, Decoded(i), i.op # "irq", x.cpsr.t <=> i.op \in ThumbOps
  PROVE  IsMachine(Stepped(x, i)) /\ Kept(i, x, Stepped(x, i))
<1> DEFINE z == [x EXCEPT !.ticks = 0]
           y == Executed(z, i)
<1>1. IsMachine(z) /\ z.cpsr = x.cpsr /\ \A o : Kept(i, z, o) => Kept(i, x, o)
  BY TicksAlike
<1> HIDE DEF z
<1>2. IsMachine(y) /\ Kept(i, z, y)
  <2>1. CASE i.op \in ThumbOps
    BY <1>1, <2>1, ThumbKept DEF Executed
  <2>2. CASE i.op \notin ThumbOps
    <3>1. i.op \in ArmOps
      BY <2>2 DEF Decoded
    <3>2. IsMachine(z) /\ Kept(i, z, z)
      BY <1>1 DEF Kept
    <3>3. y = ArmExecute(z, i) \/ y = z
      BY <1>1, <2>2 DEF Executed
    <3>. QED  BY <1>1, <3>1, <3>2, <3>3, ArmKept
  <2>. QED  BY <2>1, <2>2
<1> HIDE DEF y
<1>3. SeenAlike(y, Advanced(x, y)) /\ Advanced(x, y).cpsr = y.cpsr
  BY <1>2, RefillSeenAlike
<1>4. IsMachine(Advanced(x, y)) /\ Kept(i, z, Advanced(x, y))
  BY <1>2, <1>3, KeptOn
<1>. QED  BY <1>1, <1>4 DEF Stepped, y, z

LEMMA IrqKept ==
  ASSUME NEW x, IsMachine(x), NEW i, i.op = "irq"
  PROVE  IsMachine(IrqTaken(x)) /\ Kept(i, x, IrqTaken(x))
<1> DEFINE z == [x EXCEPT !.ticks = 0]
           y == Entered(z, "Irq", Wrap(x.r[PC] - 2 * InstructionSize(x) + 4), 24)
<1>1. IsMachine(z) /\ z.cpsr = x.cpsr /\ \A o : Kept(i, z, o) => Kept(i, x, o)
  BY TicksAlike
<1> HIDE DEF z
<1>2. IsMachine(y) /\ Kept(i, z, y)
  BY <1>1, EnteredKept DEF Enters, Mode
<1> HIDE DEF y
<1>3. IsMachine(Refill(y)) /\ Kept(i, z, Refill(y))
  BY <1>2, RefillSeenAlike, KeptOn
<1>. QED  BY <1>1, <1>3 DEF IrqTaken, y, z

\* Between instructions the machine is whole, and so is the program's place.
Whole == IsMachine(m) /\ program \in DOMAIN Programs /\ done \in Nat

LEMMA WholeAtFirst == ProcessorInit => Whole
<1> SUFFICES ASSUME ProcessorInit PROVE Whole
  OBVIOUS
<1>1. PICK x \in Starts[program] : m = Refill(x)
  BY DEF ProcessorInit
<1>2. program \in DOMAIN Programs /\ done = 0
  BY DEF ProcessorInit
<1>3. IsMachine(x)
  BY <1>2, ProgramsAssumption
<1>. QED  BY <1>1, <1>2, <1>3, RefillSeenAlike DEF Whole, SeenAlike

LEMMA OfferedDecoded ==
  ASSUME Whole, NEW i \in Offered
  PROVE  Decoded(i)
<1>1. done < Len(Programs[program]) /\ i \in Programs[program][done + 1]
  BY DEF Offered
<1>2. Len(Programs[program]) \in Nat /\ program \in DOMAIN Programs /\ done \in Nat
  BY ProgramsAssumption DEF Whole
<1>3. done + 1 \in 1..Len(Programs[program])
  BY <1>1, <1>2
<1>. QED  BY <1>1, <1>2, <1>3, ProgramsAssumption

LEMMA NextKept ==
  ASSUME Whole, [ProcessorNext]_vars
  PROVE  Whole' /\ (Kept(ir', m, m') \/ UNCHANGED vars)
<1>1. ASSUME NEW i \in Offered, Step, i.op # "irq", m.cpsr.t <=> i.op \in ThumbOps, Does(i, Stepped(m, i))
      PROVE  Whole' /\ Kept(ir', m, m')
  BY <1>1, OfferedDecoded, StepKept DEF Does, Whole
<1>2. ASSUME NEW i \in Offered, i.op = "irq", Does(i, IrqTaken(m))
      PROVE  Whole' /\ Kept(ir', m, m')
  BY <1>2, IrqKept DEF Does, Whole
<1>3. ASSUME UNCHANGED vars PROVE Whole' /\ UNCHANGED vars
  BY <1>3 DEF Whole, vars
<1>4. CASE Step
  BY <1>1, <1>4 DEF Step
<1>5. CASE TakeIrq
  BY <1>2, <1>5 DEF TakeIrq
<1>6. CASE Ends
  BY <1>3, <1>6 DEF Ends
<1>. QED  BY <1>3, <1>4, <1>5, <1>6 DEF ProcessorNext

\* No instruction of any program touches a register banked to another mode.
THEOREM BanksAreKept == ProcessorSpec => BanksKept
<1>1. Whole /\ [ProcessorNext]_vars => Whole'
  BY NextKept
<1>2. Whole /\ [ProcessorNext]_vars =>
        [\A mode \in Mode, k \in 8..14 :
           \/ Switches(ir')
           \/ /\ Apart(mode, m.cpsr.mode, k)
              /\ ~(ForUser(ir') /\ InUserBank(mode, k))
              /\ ~(Enters(ir') /\ k = LR /\ BankClass(mode) = BankClass(m'.cpsr.mode))
           => Seen(m', mode, k) = Seen(m, mode, k)]_vars
  BY NextKept DEF Kept
<1>. QED  BY <1>1, <1>2, WholeAtFirst, PTL DEF ProcessorSpec, BanksKept

-----------------------------------------------------------------------------
(* Words of Width bits *)

LEMMA WidthType == Width \in Nat /\ Width >= 12 /\ Width % 4 = 0 /\ AmountSpan \in Nat /\ AmountSpan > Width
  BY ProcessorAssumption

LEMMA Powers == \A n \in 0..(2 * Width + 1) : 2^n \in Nat /\ 2^n > 0
<1> DEFINE S == {n \in 0..(2 * Width + 1) : 2^n > 0}
<1>1. 2 * Width + 1 \in Nat /\ 0 \in 0..(2 * Width + 1)
  BY WidthType
<1>2. 0 \in S
  BY <1>1
<1>3. ASSUME NEW k \in 0..((2 * Width + 1) - 1), k \in S PROVE k + 1 \in S
  <2>1. k + 1 \in 0..(2 * Width + 1) /\ k \in 0..(2 * Width)
    BY WidthType
  <2>. QED  BY <1>3, <2>1, PowersAssumption
<1>4. \A k \in 0..(2 * Width + 1) : k \in S
  <2> HIDE DEF S
  <2>. QED  BY <1>1, <1>2, <1>3, LoadFold!Induct
<1>. QED  BY <1>4, WidthType

LEMMA PowerOfSum ==
  ASSUME NEW a \in Nat, NEW b \in Nat, a + b <= 2 * Width
  PROVE  2^(a + b) = 2^a * 2^b
<1> DEFINE S == {n \in 0..b : 2^(a + n) = 2^a * 2^n}
<1>1. \A n \in 0..b : 2^n \in Nat /\ 2^(a + n) \in Nat /\ 2^a \in Nat
  BY Powers, WidthType
<1>2. 0 \in S
  BY <1>1
<1>3. ASSUME NEW k \in 0..(b - 1), k \in S PROVE k + 1 \in S
  <2>1. k + 1 \in 0..b /\ k \in 0..b /\ k \in 0..(2 * Width) /\ a + k \in 0..(2 * Width) /\ (a + k) + 1 = a + (k + 1)
    BY WidthType
  <2>2. 2^(k + 1) = 2 * 2^k /\ 2^(a + (k + 1)) = 2 * 2^(a + k) /\ 2^(a + k) = 2^a * 2^k
    BY <1>3, <2>1, PowersAssumption
  <2>. QED  BY <1>1, <2>1, <2>2
<1>4. \A k \in 0..b : k \in S
  <2> HIDE DEF S
  <2>. QED  BY <1>2, <1>3, LoadFold!Induct
<1>. QED  BY <1>4

\* Division with a remainder, and that it is the only one.
LEMMA Divided ==
  ASSUME NEW v \in Int, NEW d \in Nat, d > 0
  PROVE  /\ v \div d \in Int /\ v % d \in 0..(d - 1) /\ v = d * (v \div d) + (v % d)
         /\ v >= 0 => v \div d >= 0
  OBVIOUS
LEMMA DividedOnce ==
  ASSUME NEW d \in Nat, d > 0, NEW q \in Int, NEW r \in 0..(d - 1)
  PROVE  (d * q + r) \div d = q /\ (d * q + r) % d = r
  OBVIOUS

\* Half a word's numbers, and all.
Half == 2^(Width - 1)
Full == 2^Width
LEMMA HalfFull == Half \in Nat /\ Half > 0 /\ Full = 2 * Half /\ Word = 0..(Full - 1)
<1>1. Width - 1 \in 0..(2 * Width) /\ (Width - 1) + 1 = Width
  BY WidthType
<1>. QED  BY <1>1, Powers, PowersAssumption DEF Half, Full, Word, WordsOf

LEMMA WordsAreNat == Word \subseteq Nat /\ 0 \in Word
  BY HalfFull
LEMMA WrapWord == ASSUME NEW v \in Int PROVE Wrap(v) \in Word /\ \E q \in Int : v = Full * q + Wrap(v)
<1>1. Wrap(v) = v % Full
  BY DEF Wrap, Wrapped, Full
<1>2. v \div Full \in Int /\ v % Full \in 0..(Full - 1) /\ v = Full * (v \div Full) + (v % Full)
  BY HalfFull, Divided
<1>. QED  BY <1>1, <1>2, HalfFull
LEMMA WrapIs == ASSUME NEW v \in Int, NEW q \in Int, NEW r \in Word, v = Full * q + r PROVE Wrap(v) = r
<1>1. Wrap(v) = v % Full
  BY DEF Wrap, Wrapped, Full
<1>. QED  BY <1>1, HalfFull, DividedOnce
LEMMA WrapNear ==
  ASSUME NEW v \in Int
  PROVE  /\ v \in 0..(Full - 1) => Wrap(v) = v
         /\ v \in Full..(2 * Full - 1) => Wrap(v) = v - Full
         /\ v \in (-Full)..(-1) => Wrap(v) = v + Full
<1>1. v = Full * 0 + v /\ v = Full * 1 + (v - Full) /\ v = Full * (-1) + (v + Full)
  BY HalfFull
<1>2. v \in 0..(Full - 1) => Wrap(v) = v
  <2>1. ASSUME v \in 0..(Full - 1) PROVE v \in Word
    BY <2>1, HalfFull
  <2>. QED  BY <1>1, <2>1, WrapIs
<1>3. v \in Full..(2 * Full - 1) => Wrap(v) = v - Full
  <2>1. ASSUME v \in Full..(2 * Full - 1) PROVE v - Full \in Word
    BY <2>1, HalfFull
  <2>. QED  BY <1>1, <2>1, WrapIs
<1>4. v \in (-Full)..(-1) => Wrap(v) = v + Full
  <2>1. ASSUME v \in (-Full)..(-1) PROVE v + Full \in Word
    BY <2>1, HalfFull
  <2>. QED  BY <1>1, <2>1, WrapIs
<1>. QED  BY <1>2, <1>3, <1>4

LEMMA TopIs == ASSUME NEW v \in Word PROVE Top(v) <=> v >= Half
<1>1. Top(v) <=> (v \div Half) % 2 = 1
  BY DEF Top, Bit, Half
<1>2. CASE v >= Half
  <2>1. v = Half * 1 + (v - Half) /\ v - Half \in 0..(Half - 1)
    BY <1>2, HalfFull
  <2>2. v \div Half = 1
    BY <2>1, HalfFull, DividedOnce
  <2>. QED  BY <1>1, <1>2, <2>2
<1>3. CASE v < Half
  <2>1. v = Half * 0 + v /\ v \in 0..(Half - 1)
    BY <1>3, HalfFull
  <2>2. v \div Half = 0
    BY <2>1, HalfFull, DividedOnce
  <2>. QED  BY <1>1, <1>3, <2>2, HalfFull
<1>. QED  BY <1>2, <1>3, HalfFull
LEMMA SignedIs ==
  ASSUME NEW v \in Word
  PROVE  /\ Signed(v, Width) = IF v >= Half THEN v - Full ELSE v
         /\ Signed(v, Width) \in (-Half)..(Half - 1)
<1>1. Signed(v, Width) = IF Top(v) THEN v - Full ELSE v
  BY DEF Signed, Top, Full
<1>. QED  BY <1>1, TopIs, HalfFull
LEMMA NotIs == ASSUME NEW v \in Word PROVE Not(v, Width) = Full - 1 - v /\ Not(v, Width) \in Word
  BY HalfFull DEF Not, Full

\* A word's bits from k on, and those below.
LEMMA Parts ==
  ASSUME NEW k \in 0..Width
  PROVE  /\ 2^k \in Nat /\ 2^k > 0 /\ 2^(Width - k) \in Nat /\ 2^(Width - k) > 0
         /\ 2^k * 2^(Width - k) = Full
         /\ \A v \in Word : /\ v \div 2^k \in 0..(2^(Width - k) - 1) /\ v % 2^k \in 0..(2^k - 1)
                           /\ v = 2^k * (v \div 2^k) + (v % 2^k)
<1>1. k \in Nat /\ Width - k \in Nat /\ k + (Width - k) = Width /\ Width <= 2 * Width
  BY WidthType
<1>2. 2^k \in Nat /\ 2^k > 0 /\ 2^(Width - k) \in Nat /\ 2^(Width - k) > 0
  BY <1>1, Powers
<1>3. 2^k * 2^(Width - k) = Full
  BY <1>1, PowerOfSum DEF Full
<1>4. ASSUME NEW v \in Word
      PROVE  /\ v \div 2^k \in 0..(2^(Width - k) - 1) /\ v % 2^k \in 0..(2^k - 1)
             /\ v = 2^k * (v \div 2^k) + (v % 2^k)
  <2> DEFINE a == 2^k
             b == 2^(Width - k)
             q == v \div a
             r == v % a
  <2>1. v \in Nat /\ v < a * b
    BY <1>3, HalfFull
  <2>2. a \in Nat /\ a > 0 /\ b \in Nat /\ b > 0
    BY <1>2
  <2> HIDE DEF a, b
  <2>3. q \in Int /\ r \in 0..(a - 1) /\ v = a * q + r /\ q >= 0
    BY <2>1, <2>2, Divided
  <2> HIDE DEF q, r
  <2>4. q < b
    <3>1. SUFFICES ASSUME q >= b PROVE FALSE
      BY <2>2, <2>3
    <3>2. a * q >= a * b
      BY <2>2, <2>3, <3>1
    <3>. QED  BY <2>1, <2>2, <2>3, <3>2
  <2>5. q \in 0..(b - 1)
    BY <2>2, <2>3, <2>4
  <2>. QED  BY <2>3, <2>5 DEF q, r, a, b
<1>. QED  BY <1>2, <1>3, <1>4

\* Two parts put together.
LEMMA Joined ==
  ASSUME NEW a \in Nat, NEW b \in Nat, a > 0, b > 0, NEW q \in 0..(b - 1), NEW r \in 0..(a - 1)
  PROVE  a * q + r \in 0..(a * b - 1)
<1>1. q + 1 <= b /\ q + 1 \in Nat
  OBVIOUS
<1>2. a * (q + 1) <= a * b
  BY <1>1
<1>3. a * (q + 1) = a * q + a /\ a * q \in Nat
  OBVIOUS
<1>. QED  BY <1>2, <1>3

\* Rotation: the two parts change places.
LEMMA RotatedIs ==
  ASSUME NEW v \in Word, NEW n \in Nat
  PROVE  LET k == n % Width IN
         /\ k \in 0..(Width - 1)
         /\ RotatedRight(v, n, Width) = 2^(Width - k) * (v % 2^k) + (v \div 2^k)
         /\ RotatedRight(v, n, Width) \in Word
<1> DEFINE k == n % Width
           a == 2^k
           b == 2^(Width - k)
           q == v \div a
           r == v % a
<1>1. k \in 0..(Width - 1) /\ k \in 0..Width
  BY WidthType
<1>2. RotatedRight(v, n, Width) = q + Wrap(v * b)
  BY DEF RotatedRight, Wrap
<1>3. /\ a \in Nat /\ a > 0 /\ b \in Nat /\ b > 0 /\ a * b = Full
      /\ q \in 0..(b - 1) /\ r \in 0..(a - 1) /\ v = a * q + r
  <2> HIDE DEF k
  <2>. QED  BY <1>1, Parts
<1> HIDE DEF k, a, b, q, r
<1>4. b * r + 0 \in 0..(b * a - 1) /\ b * r + q \in 0..(b * a - 1)
  BY <1>3, Joined
<1>5. v * b = Full * q + b * r
  BY <1>3
<1>6. b * r \in Word /\ b * r + q \in Word /\ v * b \in Int
  BY <1>3, <1>4, HalfFull
<1>7. Wrap(v * b) = b * r
  BY <1>3, <1>5, <1>6, WrapIs
<1>8. RotatedRight(v, n, Width) = b * r + q
  BY <1>2, <1>3, <1>6, <1>7
<1>. QED  BY <1>1, <1>6, <1>8 DEF k, a, b, q, r

-----------------------------------------------------------------------------
(* The parts of a word in memory *)

LEMMA ByteType == Byte \in Nat /\ Byte >= 3 /\ 4 * Byte = Width
<1>1. Width = 4 * (Width \div 4) + (Width % 4) /\ Width \div 4 \in Int
  BY WidthType
<1>. QED  BY <1>1, WidthType DEF Byte

\* w bits of a word from bit n on.
LEMMA FieldIs ==
  ASSUME NEW n \in Nat, NEW w \in Nat, n + w <= Width, NEW v \in Word
  PROVE  LET h == v \div 2^(n + w)
             f == Field(v, n, w)
             l == v % 2^n
         IN  /\ f \in 0..(2^w - 1) /\ h \in 0..(2^(Width - (n + w)) - 1) /\ l \in 0..(2^n - 1)
             /\ v = 2^n * (2^w * h + f) + l
<1> DEFINE q == v \div 2^n
           l == v % 2^n
           f == Field(v, n, w)
<1>1. /\ n \in 0..Width /\ n + w \in 0..Width /\ w \in 0..Width /\ Width - (n + w) \in Nat
      /\ w + (Width - (n + w)) = Width - n /\ Width - n <= 2 * Width
  BY WidthType
<1>2. /\ 2^n \in Nat /\ 2^n > 0 /\ 2^w \in Nat /\ 2^w > 0 /\ 2^(Width - (n + w)) \in Nat /\ 2^(Width - (n + w)) > 0
      /\ 2^(n + w) \in Nat /\ 2^(n + w) > 0
      /\ q \in 0..(2^(Width - n) - 1) /\ l \in 0..(2^n - 1) /\ v = 2^n * q + l
      /\ v \div 2^(n + w) \in 0..(2^(Width - (n + w)) - 1)
  BY <1>1, Parts
<1>3. 2^(n + w) = 2^n * 2^w
  BY <1>1, PowerOfSum, WidthType
<1> HIDE DEF q, l
<1>4. f = q % 2^w
  BY DEF Field, q
<1>5. f \in 0..(2^w - 1) /\ q = 2^w * (q \div 2^w) + f /\ q \div 2^w \in Int
  BY <1>2, <1>4, Divided
<1> HIDE DEF f
<1>6. v = 2^n * (2^w * (q \div 2^w) + f) + l
  BY <1>2, <1>5
<1>7. v \div 2^(n + w) = q \div 2^w
  <2> DEFINE a == 2^n
             b == 2^w
             h == q \div b
  <2>1. /\ a \in Nat /\ a > 0 /\ b \in Nat /\ b > 0 /\ h \in Int /\ f \in 0..(b - 1) /\ l \in 0..(a - 1)
        /\ v = a * (b * h + f) + l
    BY <1>2, <1>5, <1>6
  <2> HIDE DEF a, b, h
  <2>2. a * f + l \in 0..(a * b - 1)
    BY <2>1, Joined
  <2>3. v = (a * b) * h + (a * f + l) /\ a * b \in Nat /\ a * b > 0
    BY <2>1
  <2>4. v \div (a * b) = h
    BY <2>1, <2>2, <2>3, DividedOnce
  <2>. QED  BY <1>3, <2>4 DEF a, b, h
<1>. QED  BY <1>2, <1>5, <1>6, <1>7 DEF f, l

\* The same, changed: what Put stores.
LEMMA FieldPut ==
  ASSUME NEW n \in Nat, NEW w \in Nat, n + w <= Width, NEW old \in Word, NEW f \in 0..(2^w - 1)
  PROVE  old + (f - Field(old, n, w)) * 2^n \in Word
<1> DEFINE a == 2^n
           b == 2^w
           c == 2^(Width - (n + w))
           h == old \div 2^(n + w)
           g == Field(old, n, w)
           l == old % 2^n
<1>1. g \in 0..(b - 1) /\ h \in 0..(c - 1) /\ l \in 0..(a - 1) /\ old = a * (b * h + g) + l
  BY FieldIs
<1>2. n + w \in 0..Width /\ n \in 0..Width /\ w \in 0..Width /\ n + w <= 2 * Width
  BY WidthType
<1>3. a \in Nat /\ a > 0 /\ b \in Nat /\ b > 0 /\ c \in Nat /\ c > 0 /\ (a * b) * c = Full
  BY <1>2, Parts, PowerOfSum
<1> HIDE DEF a, b, c, h, g, l
<1>4. b * h + f \in 0..(b * c - 1) /\ b * c \in Nat /\ b * c > 0
  BY <1>1, <1>3, Joined DEF b
<1>5. a * (b * h + f) + l \in 0..(a * (b * c) - 1)
  BY <1>1, <1>3, <1>4, Joined
<1>6. old + (f - g) * a = a * (b * h + f) + l
  BY <1>1, <1>3 DEF b
<1>7. a * (b * c) = (a * b) * c
  BY <1>3
<1>8. old + (f - g) * a \in Word
  BY <1>3, <1>5, <1>6, <1>7, HalfFull
<1>. QED  BY <1>8 DEF a, g

LEMMA FieldSmall ==
  ASSUME NEW n \in Nat, NEW w \in Nat, n + w <= Width, NEW v \in Word
  PROVE  Field(v, n, w) \in 0..(2^w - 1) /\ Field(v, n, w) \in Word /\ 2^w \in Nat /\ 2^w > 0
<1>1. Field(v, n, w) \in 0..(2^w - 1)
  BY FieldIs
<1>4. w \in 0..Width
  BY WidthType
<1>2. /\ 2^w \in Nat /\ 2^w > 0 /\ 2^(Width - w) \in Nat /\ 2^(Width - w) > 0
      /\ 2^w * 2^(Width - w) = Full
  BY <1>4, Parts
<1>3. 2^w <= 2^w * 2^(Width - w)
  BY <1>2
<1>. QED  BY <1>1, <1>2, <1>3, HalfFull

\* Any field of any integer is small.
LEMMA FieldOfInt ==
  ASSUME NEW v \in Int, NEW w \in 0..Width
  PROVE  Field(v, 0, w) \in 0..(2^w - 1)
<1>1. 2^w \in Nat /\ 2^w > 0 /\ 2^0 = 1
  BY Parts
<1>2. v \div 2^0 \in Int
  BY <1>1
<1>. QED  BY <1>1, <1>2, Divided DEF Field

-----------------------------------------------------------------------------
\* A machine whose words are words, and what keeps it one.
Proper(x) == IsMachine(x) /\ HoldsWords(x)

LEMMA ProperReads ==
  ASSUME NEW x, Proper(x)
  PROVE  /\ \A k \in Register : x.r[k] \in Word /\ Late(x, k) \in Word
         /\ \A a : ReadWord(x, a) \in Word
         /\ \A k \in 8..14 : UserReg(x, k) \in Word
<1>1. \A k \in Register : x.r[k] \in Word
  BY DEF Proper, HoldsWords, Register
<1>2. ASSUME NEW k \in Register PROVE Late(x, k) \in Word
  <2>1. x.r[k] \in Word /\ x.r[15] \in Word
    <3>1. 15 \in Register
      BY DEF Register
    <3>. QED  BY <1>1, <3>1
  <2>2. Wrap(x.r[15] + 4) \in Word
    BY <2>1, WrapWord, WordsAreNat
  <2>. QED  BY <2>1, <2>2 DEF Late, PC
<1>3. ASSUME NEW a PROVE ReadWord(x, a) \in Word
  <2>1. \A b \in Ram : x.mem[b] \in Word
    BY DEF Proper, HoldsWords
  <2>. QED  BY <2>1, WordsAreNat DEF ReadWord
<1>4. ASSUME NEW k \in 8..14 PROVE UserReg(x, k) \in Word
  <2>1. k \in Register /\ (k \in 8..12 => k - 8 \in 0..4) /\ (k \in 13..14 => k - 13 \in 0..1) /\ (k \notin 8..12 => k \in 13..14)
    BY DEF Register
  <2>2. x.r8_12 \in [0..1 -> [0..4 -> Word]] /\ x.r13_14 \in [0..5 -> [0..1 -> Word]]
    BY DEF Proper, HoldsWords
  <2>3. (k \in 8..12 => x.r8_12[0][k - 8] \in Word) /\ (k \in 13..14 => x.r13_14[0][k - 13] \in Word)
    BY <2>1, <2>2
  <2>. QED  BY <1>1, <2>1, <2>3 DEF UserReg, Shadowed
<1>. QED  BY <1>1, <1>2, <1>3, <1>4

LEMMA ProperAddresses ==
  ASSUME NEW a \in Int
  PROVE  a % 4 \in 0..3 /\ a % 2 \in 0..1 /\ (a % 4) - (a % 2) \in {0, 2}
<1>1. a % 4 \in 0..3 /\ a % 2 \in 0..1 /\ a \div 4 \in Int /\ a \div 2 \in Int
      /\ a = 4 * (a \div 4) + (a % 4) /\ a = 2 * (a \div 2) + (a % 2)
  BY Divided
<1>. QED  BY <1>1

LEMMA ProperLoads ==
  ASSUME NEW x, Proper(x), NEW a \in Int
  PROVE  /\ ReadWord(x, a) \in Word /\ ReadHalf(x, a) \in Word /\ ReadByte(x, a) \in Word
         /\ LoadWord(x, a) \in Word /\ LoadHalf(x, a) \in Word
         /\ LoadSByte(x, a) \in Word /\ LoadSHalf(x, a) \in Word
<1> DEFINE v == ReadWord(x, a)
<1>1. v \in Word
  BY ProperReads
<1>2. a % 4 \in 0..3 /\ a % 2 \in 0..1 /\ (a % 4) - (a % 2) \in {0, 2} /\ Byte \in Nat /\ 4 * Byte = Width
  BY ProperAddresses, ByteType
<1>3. ReadHalf(x, a) \in Word
  <2>1. ((a % 4) - (a % 2)) * Byte \in Nat /\ 2 * Byte \in Nat /\ ((a % 4) - (a % 2)) * Byte + 2 * Byte <= Width
    BY <1>2
  <2>. QED  BY <1>1, <2>1, FieldSmall DEF ReadHalf
<1>4. ReadByte(x, a) \in Word
  <2>1. (a % 4) * Byte \in Nat /\ (a % 4) * Byte + Byte <= Width
    BY <1>2
  <2>. QED  BY <1>1, <1>2, <2>1, FieldSmall DEF ReadByte
<1>5. LoadWord(x, a) \in Word
  <2>1. (a % 4) * Byte \in Nat
    BY <1>2
  <2>. QED  BY <1>1, <2>1, RotatedIs DEF LoadWord
<1>6. LoadHalf(x, a) \in Word
  <2>1. (a % 2) * Byte \in Nat
    BY <1>2
  <2>. QED  BY <1>3, <2>1, RotatedIs DEF LoadHalf
<1>7. ASSUME NEW u \in Int, NEW w \in Nat PROVE Wrap(Signed(u, w)) \in Word
  <2>1. 2^w \in Int
    BY <1>7
  <2>2. Signed(u, w) \in Int
    BY <2>1 DEF Signed
  <2>. QED  BY <2>2, WrapWord
<1>8. LoadSByte(x, a) \in Word
  <2>1. ReadByte(x, a) \in Int
    BY <1>4, HalfFull
  <2>. QED  BY <1>2, <1>7, <2>1 DEF LoadSByte
<1>9. LoadSHalf(x, a) \in Word
  <2>1. ReadHalf(x, a) \in Int /\ 2 * Byte \in Nat
    BY <1>2, <1>3, HalfFull
  <2>2. 2^Byte \in Nat /\ 2^Byte > 0
    BY <1>2, Powers
  <2>3. ReadHalf(x, a) \div 2^Byte \in Int
    BY <2>1, <2>2
  <2>. QED  BY <1>2, <1>7, <2>1, <2>3 DEF LoadSHalf
<1>. QED  BY <1>1, <1>3, <1>4, <1>5, <1>6, <1>8, <1>9

LEMMA ProperRegister ==
  ASSUME NEW x, Proper(x), NEW k, NEW v \in Word
  PROVE  Proper(SetReg(x, k, v)) /\ Proper([x EXCEPT !.r[k] = v])
<1>1. IsMachine(SetReg(x, k, v)) /\ IsMachine([x EXCEPT !.r[k] = v])
  BY DEF Proper, IsMachine, SetReg
<1>2. [x.r EXCEPT ![k] = v] \in [0..15 -> Word]
  BY DEF Proper, HoldsWords
<1>. QED  BY <1>1, <1>2 DEF Proper, IsMachine, HoldsWords, SetReg
LEMMA ProperBack ==
  ASSUME NEW x, Proper(x), NEW k, NEW v \in Word
  PROVE  Proper(WriteBack(x, k, v))
<1>1. v \in Int /\ v + 4 \in Int
  BY HalfFull
<1>2. Wrap(v + 4) \in Word
  BY <1>1, WrapWord
<1>. QED  BY <1>2, ProperRegister DEF WriteBack
LEMMA ProperTicks == ASSUME NEW x, Proper(x), NEW n PROVE Proper(Ticks(x, n)) /\ Ticks(x, n).r = x.r
  BY DEF Proper, IsMachine, HoldsWords, Ticks
LEMMA ProperAlike ==
  ASSUME NEW x, Proper(x), NEW y, IsMachine(y), y.r = x.r, y.mem = x.mem, y.r8_12 = x.r8_12, y.r13_14 = x.r13_14
  PROVE  Proper(y)
  BY DEF Proper, HoldsWords

LEMMA ProperPut ==
  ASSUME NEW x, Proper(x), NEW a, NEW v \in Int, NEW n \in Nat, NEW w \in Nat, n + w <= Width
  PROVE  Proper(Put(x, a, v, n, w))
<1> DEFINE old == ReadWord(x, a)
           new == old + (Field(v, 0, w) - Field(old, n, w)) * 2^n
<1>1. new \in Word
  <2>1. old \in Word /\ w \in 0..Width
    BY ProperReads, WidthType
  <2>2. Field(v, 0, w) \in 0..(2^w - 1)
    BY <2>1, FieldOfInt
  <2> HIDE DEF old
  <2>. QED  BY <2>1, <2>2, FieldPut
<1>2. Put(x, a, v, n, w) = IF a - (a % 4) \in Ram THEN [x EXCEPT !.mem[a - (a % 4)] = new] ELSE x
  BY DEF Put
<1> HIDE DEF new
<1>3. ASSUME NEW b PROVE Proper([x EXCEPT !.mem[b] = new])
  <2>1. IsMachine([x EXCEPT !.mem[b] = new])
    BY DEF Proper, IsMachine
  <2>2. [x.mem EXCEPT ![b] = new] \in [Ram -> Word]
    BY <1>1 DEF Proper, HoldsWords
  <2>. QED  BY <2>1, <2>2 DEF Proper, IsMachine, HoldsWords
<1>. QED  BY <1>2, <1>3

LEMMA ProperMemory ==
  ASSUME NEW x, Proper(x), NEW a \in Int, NEW v \in Word
  PROVE  Proper(WriteWord(x, a, v)) /\ Proper(WriteHalf(x, a, v)) /\ Proper(WriteByte(x, a, v))
<1>1. a % 4 \in 0..3 /\ (a % 4) - (a % 2) \in {0, 2} /\ Byte \in Nat /\ 4 * Byte = Width /\ v \in Int /\ Width \in Nat
  BY ProperAddresses, ByteType, WordsAreNat, WidthType
<1>2. /\ ((a % 4) - (a % 2)) * Byte \in Nat /\ 2 * Byte \in Nat /\ ((a % 4) - (a % 2)) * Byte + 2 * Byte <= Width
      /\ (a % 4) * Byte \in Nat /\ (a % 4) * Byte + Byte <= Width
      /\ 0 + Width <= Width
  BY <1>1
<1>3. Proper(WriteWord(x, a, v))
  BY <1>1, <1>2, ProperPut DEF WriteWord
<1>4. Proper(WriteHalf(x, a, v))
  BY <1>1, <1>2, ProperPut DEF WriteHalf
<1>5. Proper(WriteByte(x, a, v))
  BY <1>1, <1>2, ProperPut DEF WriteByte
<1>. QED  BY <1>3, <1>4, <1>5


LEMMA ProperFlags ==
  ASSUME NEW x, Proper(x), NEW r, NEW c, NEW v, NEW logical
  PROVE  /\ Proper(SetNz(x, r)) /\ Proper(SetNzc(x, r, c)) /\ Proper(SetNzcv(x, r, c, v))
         /\ Proper(SetFlags(x, r, c, v, logical))
<1>1. ASSUME NEW y, Proper(y), NEW p, IsPsr(p) PROVE Proper([y EXCEPT !.cpsr = p])
  BY <1>1 DEF Proper, IsMachine, HoldsWords
<1>2. ASSUME NEW p, IsPsr(p), NEW b
      PROVE  IsPsr([p EXCEPT !.n = b]) /\ IsPsr([p EXCEPT !.z = b]) /\ IsPsr([p EXCEPT !.c = b]) /\ IsPsr([p EXCEPT !.v = b])
  BY <1>2 DEF IsPsr, PsrFields
<1>3. ASSUME NEW y, Proper(y) PROVE IsPsr(y.cpsr)
  BY <1>3 DEF Proper, IsMachine
<1>4. ASSUME NEW y, Proper(y), NEW b
      PROVE  /\ Proper([y EXCEPT !.cpsr.n = b]) /\ Proper([y EXCEPT !.cpsr.z = b])
             /\ Proper([y EXCEPT !.cpsr.c = b]) /\ Proper([y EXCEPT !.cpsr.v = b])
  <2>1. /\ [y EXCEPT !.cpsr.n = b] = [y EXCEPT !.cpsr = [y.cpsr EXCEPT !.n = b]]
        /\ [y EXCEPT !.cpsr.z = b] = [y EXCEPT !.cpsr = [y.cpsr EXCEPT !.z = b]]
        /\ [y EXCEPT !.cpsr.c = b] = [y EXCEPT !.cpsr = [y.cpsr EXCEPT !.c = b]]
        /\ [y EXCEPT !.cpsr.v = b] = [y EXCEPT !.cpsr = [y.cpsr EXCEPT !.v = b]]
    OBVIOUS
  <2>. QED  BY <1>1, <1>2, <1>3, <1>4, <2>1
<1>5. ASSUME NEW y, Proper(y) PROVE Proper(SetNz(y, r))
  <2>1. SetNz(y, r) = [[y EXCEPT !.cpsr.n = Top(r)] EXCEPT !.cpsr.z = (r = 0)]
    BY DEF SetNz
  <2> DEFINE z == [y EXCEPT !.cpsr.n = Top(r)]
  <2>2. Proper(z)
    BY <1>4, <1>5, Zenon
  <2> HIDE DEF z
  <2>3. Proper([z EXCEPT !.cpsr.z = (r = 0)])
    BY <1>4, <2>2, Zenon
  <2>. QED  BY <2>1, <2>3 DEF z
<1>6. Proper(SetNzc(x, r, c))
  BY <1>4, <1>5 DEF SetNzc
<1>7. Proper(SetNzcv(x, r, c, v))
  BY <1>4, <1>6 DEF SetNzcv
<1>. QED  BY <1>5, <1>6, <1>7 DEF SetFlags

LEMMA ProperBits ==
  ASSUME NEW x, Proper(x), NEW b
  PROVE  Proper([x EXCEPT !.cpsr.t = b]) /\ Proper([x EXCEPT !.flush = b]) /\ Proper([x EXCEPT !.ticks = b])
<1>1. IsPsr([x.cpsr EXCEPT !.t = b])
  BY DEF Proper, IsMachine, IsPsr, PsrFields
<1>2. [x EXCEPT !.cpsr.t = b] = [x EXCEPT !.cpsr = [x.cpsr EXCEPT !.t = b]]
  OBVIOUS
<1>3. Proper([x EXCEPT !.flush = b]) /\ Proper([x EXCEPT !.ticks = b])
  BY DEF Proper, IsMachine, HoldsWords
<1>4. ASSUME NEW p, IsPsr(p) PROVE Proper([x EXCEPT !.cpsr = p])
  BY <1>4 DEF Proper, IsMachine, HoldsWords
<1>. QED  BY <1>1, <1>2, <1>3, <1>4

LEMMA ProperUser ==
  ASSUME NEW x, Proper(x), NEW k \in Register, NEW v \in Word
  PROVE  Proper(SetUserReg(x, k, v))
<1>1. Shadowed(x, k) => (k < 13 => k - 8 \in 0..4) /\ (~(k < 13) => k - 13 \in 0..1)
  BY DEF Shadowed, Register
<1>2. ASSUME NEW j \in 0..4 PROVE Proper([x EXCEPT !.r8_12[0][j] = v])
  <2>1. [x.r8_12 EXCEPT ![0][j] = v] \in [0..1 -> [0..4 -> Word]]
    BY DEF Proper, HoldsWords
  <2>2. IsMachine([x EXCEPT !.r8_12[0][j] = v])
    BY DEF Proper, IsMachine
  <2>. QED  BY <2>1, <2>2 DEF Proper, IsMachine, HoldsWords
<1>3. ASSUME NEW j \in 0..1 PROVE Proper([x EXCEPT !.r13_14[0][j] = v])
  <2>1. [x.r13_14 EXCEPT ![0][j] = v] \in [0..5 -> [0..1 -> Word]]
    BY DEF Proper, HoldsWords
  <2>2. IsMachine([x EXCEPT !.r13_14[0][j] = v])
    BY DEF Proper, IsMachine
  <2>. QED  BY <2>1, <2>2 DEF Proper, IsMachine, HoldsWords
<1>. QED  BY <1>1, <1>2, <1>3, ProperRegister DEF SetUserReg

LEMMA ProperSwitch ==
  ASSUME NEW x, Proper(x), NEW p, IsPsr(p)
  PROVE  Proper(WriteCpsr(x, p))
<1>1. IsMachine(WriteCpsr(x, p))
  BY SwitchIsSeenAlike DEF Proper, SeenAlike
<1>2. \A mode : FiqGroup(mode) \in 0..1 /\ BankClass(mode) \in 0..5
  BY DEF FiqGroup, BankClass
<1>3. ASSUME NEW y, Proper(y), NEW mode PROVE Proper(SaveBank(y, mode)) /\ Proper(LoadBank(y, mode))
  <2>1. y.r \in [0..15 -> Word] /\ y.r8_12 \in [0..1 -> [0..4 -> Word]] /\ y.r13_14 \in [0..5 -> [0..1 -> Word]]
    BY <1>3 DEF Proper, HoldsWords
  <2> DEFINE low == [k \in 0..4 |-> y.r[8 + k]]
             high == [k \in 0..1 |-> y.r[13 + k]]
             all == [k \in 0..15 |-> IF k \in 8..12 THEN y.r8_12[FiqGroup(mode)][k - 8]
                                     ELSE IF k \in 13..14 THEN y.r13_14[BankClass(mode)][k - 13] ELSE y.r[k]]
  <2>2. low \in [0..4 -> Word] /\ high \in [0..1 -> Word]
    BY <2>1
  <2>3. all \in [0..15 -> Word]
    <3>1. ASSUME NEW k \in 0..15 PROVE all[k] \in Word
      <4>1. (k \in 8..12 => k - 8 \in 0..4) /\ (k \in 13..14 => k - 13 \in 0..1)
        OBVIOUS
      <4>. QED  BY <1>2, <2>1, <4>1
    <3>. QED  BY <3>1
  <2>4. /\ SaveBank(y, mode) = [[y EXCEPT !.r8_12[FiqGroup(mode)] = low] EXCEPT !.r13_14[BankClass(mode)] = high]
        /\ LoadBank(y, mode) = [y EXCEPT !.r = all]
    BY DEF SaveBank, LoadBank
  <2> HIDE DEF low, high, all
  <2>5. Proper([y EXCEPT !.r = all])
    BY <1>3, <2>3 DEF Proper, IsMachine, HoldsWords
  <2>6. ASSUME NEW g PROVE Proper([y EXCEPT !.r8_12[g] = low])
    <3>1. [y.r8_12 EXCEPT ![g] = low] \in [0..1 -> [0..4 -> Word]]
      BY <2>1, <2>2
    <3>. QED  BY <1>3, <3>1 DEF Proper, IsMachine, HoldsWords
  <2>7. ASSUME NEW z, Proper(z), NEW c PROVE Proper([z EXCEPT !.r13_14[c] = high])
    <3>1. [z.r13_14 EXCEPT ![c] = high] \in [0..5 -> [0..1 -> Word]]
      BY <2>2, <2>7 DEF Proper, HoldsWords
    <3>. QED  BY <2>7, <3>1 DEF Proper, IsMachine, HoldsWords
  <2>8. Proper([y EXCEPT !.r8_12[FiqGroup(mode)] = low])
    BY <2>6
  <2>9. Proper([[y EXCEPT !.r8_12[FiqGroup(mode)] = low] EXCEPT !.r13_14[BankClass(mode)] = high])
    BY <2>7, <2>8, Zenon
  <2>. QED  BY <2>4, <2>5, <2>9, Zenon
<1>4. ASSUME NEW y, Proper(y) PROVE Proper([y EXCEPT !.cpsr = p])
  BY <1>4 DEF Proper, IsMachine, HoldsWords
<1>. QED  BY <1>3, <1>4 DEF WriteCpsr

-----------------------------------------------------------------------------
(* Words from their bits *)

LEMMA HalfBit ==
  ASSUME NEW y \in Nat, NEW s \in 0..1, NEW j \in 0..(2 * Width)
  PROVE  (Bit(s + 2 * y, j + 1) <=> Bit(y, j)) /\ (Bit(s + 2 * y, 0) <=> s = 1)
<1> DEFINE p == 2^j
<1>1. p \in Nat /\ p > 0 /\ 2^(j + 1) = 2 * p
  BY Powers, PowersAssumption, WidthType
<1>2. Bit(s + 2 * y, j + 1) <=> ((s + 2 * y) \div (2 * p)) % 2 = 1
  BY <1>1 DEF Bit
<1>3. Bit(y, j) <=> (y \div p) % 2 = 1
  BY DEF Bit
<1> HIDE DEF p
<1>4. (s + 2 * y) \div (2 * p) = y \div p
  <2>1. y = p * (y \div p) + (y % p) /\ y \div p \in Int /\ y % p \in 0..(p - 1)
    BY <1>1, Divided
  <2>2. s + 2 * y = (2 * p) * (y \div p) + (2 * (y % p) + s) /\ 2 * (y % p) + s \in 0..(2 * p - 1)
    BY <1>1, <2>1
  <2>. QED  BY <1>1, <2>1, <2>2, DividedOnce
<1>5. Bit(s + 2 * y, 0) <=> s = 1
  <2>1. Bit(s + 2 * y, 0) <=> ((s + 2 * y) \div 1) % 2 = 1
    BY DEF Bit
  <2>2. (s + 2 * y) \div 1 = s + 2 * y /\ (s + 2 * y) % 2 = s
    OBVIOUS
  <2>. QED  BY <2>1, <2>2
<1>. QED  BY <1>2, <1>3, <1>4, <1>5

\* f adds up the digits of s from the last, the number from each place on.
Adds(f, s, w) == f = [n \in 0..w |-> IF n = w THEN 0 ELSE s[n] + 2 * f[n + 1]]

LEMMA AddsSome == ASSUME NEW w \in Nat, NEW s PROVE \E f : Adds(f, s, w)
<1> DEFINE On(f, k) == f = [n \in (w - k)..w |-> IF n = w THEN 0 ELSE s[n] + 2 * f[n + 1]]
           S == {k \in 0..w : \E f : On(f, k)}
<1>1. 0 \in S
  <2> DEFINE f == [n \in (w - 0)..w |-> 0]
  <2>2. \A n \in (w - 0)..w : n = w
    OBVIOUS
  <2>1. On(f, 0)
    BY <2>2
  <2> HIDE DEF f, On
  <2>. QED  BY <2>1
<1>2. ASSUME NEW k \in 0..(w - 1), k \in S PROVE k + 1 \in S
  <2>1. PICK f : On(f, k)
    BY <1>2
  <2> DEFINE g == [n \in (w - (k + 1))..w |-> IF n = w - (k + 1) THEN s[n] + 2 * f[n + 1] ELSE f[n]]
  <2>2. ASSUME NEW n \in (w - (k + 1))..w PROVE g[n] = IF n = w THEN 0 ELSE s[n] + 2 * g[n + 1]
    <3>1. CASE n = w - (k + 1)
      <4>1. n # w /\ n + 1 \in (w - (k + 1))..w /\ n + 1 # w - (k + 1)
        BY <3>1
      <4>2. g[n + 1] = f[n + 1]
        BY <4>1
      <4>. QED  BY <3>1, <4>1, <4>2
    <3>2. CASE n # w - (k + 1)
      <4>1. n \in (w - k)..w /\ (n # w => n + 1 \in (w - k)..w /\ n + 1 # w - (k + 1) /\ n + 1 \in (w - (k + 1))..w)
        BY <3>2
      <4>2. g[n] = f[n] /\ (n # w => g[n + 1] = f[n + 1])
        BY <3>2, <4>1
      <4>3. f[n] = IF n = w THEN 0 ELSE s[n] + 2 * f[n + 1]
        BY <2>1, <4>1
      <4>. QED  BY <4>2, <4>3
    <3>. QED  BY <3>1, <3>2
  <2>3. g = [n \in (w - (k + 1))..w |-> g[n]]
    OBVIOUS
  <2> HIDE DEF g
  <2>4. On(g, k + 1)
    BY <2>2, <2>3
  <2>. QED  BY <2>4
<1> HIDE DEF On
<1>3. w \in S
  <2> HIDE DEF S
  <2>. QED  BY <1>1, <1>2, LoadFold!Induct
<1>4. PICK f : On(f, w)
  BY <1>3
<1>5. Adds(f, s, w)
  <2>1. w - w = 0
    OBVIOUS
  <2>. QED  BY <1>4, <2>1 DEF On, Adds
<1>. QED  BY <1>5

LEMMA AddsBits ==
  ASSUME NEW s \in [0..(Width - 1) -> 0..1], NEW f, Adds(f, s, Width)
  PROVE  f[0] \in Word /\ \A j \in 0..(Width - 1) : Bit(f[0], j) <=> s[j] = 1
<1> DEFINE Right(k) == /\ f[Width - k] \in 0..(2^k - 1)
                       /\ \A j \in 0..(k - 1) : Bit(f[Width - k], j) <=> s[(Width - k) + j] = 1
           S == {k \in 0..Width : Right(k)}
<1>1. 0 \in S
  <2>1. f[Width] = 0 /\ Width - 0 = Width /\ 2^0 = 1
    BY WidthType DEF Adds
  <2>. QED  BY <2>1, WidthType
<1>2. ASSUME NEW k \in 0..(Width - 1), k \in S PROVE k + 1 \in S
  <2> DEFINE y == f[Width - k]
             d == s[Width - (k + 1)]
             x == f[Width - (k + 1)]
  <2>1. /\ y \in 0..(2^k - 1) /\ \A j \in 0..(k - 1) : Bit(y, j) <=> s[(Width - k) + j] = 1
        /\ k + 1 \in 0..Width /\ Width - (k + 1) \in 0..(Width - 1) /\ (Width - (k + 1)) + 1 = Width - k
    BY <1>2, WidthType
  <2>2. d \in 0..1 /\ x = d + 2 * y
    BY <2>1, WidthType DEF Adds
  <2>3. 2^k \in Nat /\ 2^(k + 1) = 2 * 2^k
    BY Powers, PowersAssumption, WidthType
  <2> HIDE DEF x, y, d
  <2>4. x \in 0..(2^(k + 1) - 1) /\ y \in Nat
    BY <2>1, <2>2, <2>3
  <2>5. ASSUME NEW j \in 0..((k + 1) - 1) PROVE Bit(x, j) <=> s[(Width - (k + 1)) + j] = 1
    <3>1. CASE j = 0
      <4>1. (Width - (k + 1)) + 0 = Width - (k + 1) /\ 0 \in 0..(2 * Width)
        BY WidthType
      <4>. QED  BY <2>2, <2>4, <3>1, <4>1, HalfBit DEF d
    <3>2. CASE j # 0
      <4>1. j - 1 \in 0..(k - 1) /\ j - 1 \in 0..(2 * Width) /\ (j - 1) + 1 = j
            /\ (Width - k) + (j - 1) = (Width - (k + 1)) + j
        BY <3>2, WidthType
      <4>3. Bit(d + 2 * y, (j - 1) + 1) <=> Bit(y, j - 1)
        BY <2>2, <2>4, <4>1, HalfBit
      <4>2. Bit(x, j) <=> Bit(y, j - 1)
        BY <2>2, <4>1, <4>3
      <4>. QED  BY <2>1, <4>1, <4>2
    <3>. QED  BY <3>1, <3>2
  <2>. QED  BY <2>1, <2>4, <2>5 DEF x
<1> HIDE DEF Right
<1>3. Width \in S
  <2> HIDE DEF S
  <2>. QED  BY <1>1, <1>2, WidthType, LoadFold!Induct
<1>4. Right(Width) /\ Width - Width = 0 /\ \A j \in 0..(Width - 1) : 0 + j = j
  BY <1>3, WidthType
<1>. QED  BY <1>4, HalfFull DEF Right, Full

LEMMA BitsOfWords ==
  ASSUME NEW a, NEW b
  PROVE  /\ And(a, b, Width) \in Word /\ \A j \in 0..(Width - 1) : Bit(And(a, b, Width), j) <=> Bit(a, j) /\ Bit(b, j)
         /\ Or(a, b, Width) \in Word /\ \A j \in 0..(Width - 1) : Bit(Or(a, b, Width), j) <=> Bit(a, j) \/ Bit(b, j)
         /\ Xor(a, b, Width) \in Word /\ \A j \in 0..(Width - 1) : Bit(Xor(a, b, Width), j) <=> (Bit(a, j) # Bit(b, j))
<1>1. /\ And(a, b, Width) \in Word
      /\ \A j \in 0..(Width - 1) : Bit(And(a, b, Width), j) <=> Bit(a, j) /\ Bit(b, j)
  <2> DEFINE s == [n \in 0..(Width - 1) |-> IF Bit(a, n) /\ Bit(b, n) THEN 1 ELSE 0]
             Is(f) == f = [n \in 0..Width |-> IF n = Width THEN 0
                                              ELSE (IF Bit(a, n) /\ Bit(b, n) THEN 1 ELSE 0) + 2 * f[n + 1]]
             from == CHOOSE f : Is(f)
  <2>1. And(a, b, Width) = from[0]
    BY DEF And, ByBits
  <2>2. ASSUME NEW f PROVE Is(f) <=> Adds(f, s, Width)
    <3>1. \A n \in 0..Width : n # Width => n \in 0..(Width - 1)
      BY WidthType
    <3>. QED  BY <3>1 DEF Adds
  <2>3. Is(from)
    BY <2>2, AddsSome, WidthType
  <2> HIDE DEF Is, from
  <2>4. s \in [0..(Width - 1) -> 0..1] /\ Adds(from, s, Width)
    BY <2>2, <2>3
  <2>5. from[0] \in Word /\ \A j \in 0..(Width - 1) : Bit(from[0], j) <=> s[j] = 1
    BY <2>4, AddsBits
  <2>6. \A j \in 0..(Width - 1) : s[j] = 1 <=> Bit(a, j) /\ Bit(b, j)
    OBVIOUS
  <2> HIDE DEF s
  <2>. QED  BY <2>1, <2>5, <2>6
<1>2. /\ Or(a, b, Width) \in Word
      /\ \A j \in 0..(Width - 1) : Bit(Or(a, b, Width), j) <=> Bit(a, j) \/ Bit(b, j)
  <2> DEFINE s == [n \in 0..(Width - 1) |-> IF Bit(a, n) \/ Bit(b, n) THEN 1 ELSE 0]
             Is(f) == f = [n \in 0..Width |-> IF n = Width THEN 0
                                              ELSE (IF Bit(a, n) \/ Bit(b, n) THEN 1 ELSE 0) + 2 * f[n + 1]]
             from == CHOOSE f : Is(f)
  <2>1. Or(a, b, Width) = from[0]
    BY DEF Or, ByBits
  <2>2. ASSUME NEW f PROVE Is(f) <=> Adds(f, s, Width)
    <3>1. \A n \in 0..Width : n # Width => n \in 0..(Width - 1)
      BY WidthType
    <3>. QED  BY <3>1 DEF Adds
  <2>3. Is(from)
    BY <2>2, AddsSome, WidthType
  <2> HIDE DEF Is, from
  <2>4. s \in [0..(Width - 1) -> 0..1] /\ Adds(from, s, Width)
    BY <2>2, <2>3
  <2>5. from[0] \in Word /\ \A j \in 0..(Width - 1) : Bit(from[0], j) <=> s[j] = 1
    BY <2>4, AddsBits
  <2>6. \A j \in 0..(Width - 1) : s[j] = 1 <=> Bit(a, j) \/ Bit(b, j)
    OBVIOUS
  <2> HIDE DEF s
  <2>. QED  BY <2>1, <2>5, <2>6
<1>3. /\ Xor(a, b, Width) \in Word
      /\ \A j \in 0..(Width - 1) : Bit(Xor(a, b, Width), j) <=> (Bit(a, j) # Bit(b, j))
  <2> DEFINE s == [n \in 0..(Width - 1) |-> IF Bit(a, n) # Bit(b, n) THEN 1 ELSE 0]
             Is(f) == f = [n \in 0..Width |-> IF n = Width THEN 0
                                              ELSE (IF Bit(a, n) # Bit(b, n) THEN 1 ELSE 0) + 2 * f[n + 1]]
             from == CHOOSE f : Is(f)
  <2>1. Xor(a, b, Width) = from[0]
    BY DEF Xor, ByBits
  <2>2. ASSUME NEW f PROVE Is(f) <=> Adds(f, s, Width)
    <3>1. \A n \in 0..Width : n # Width => n \in 0..(Width - 1)
      BY WidthType
    <3>. QED  BY <3>1 DEF Adds
  <2>3. Is(from)
    BY <2>2, AddsSome, WidthType
  <2> HIDE DEF Is, from
  <2>4. s \in [0..(Width - 1) -> 0..1] /\ Adds(from, s, Width)
    BY <2>2, <2>3
  <2>5. from[0] \in Word /\ \A j \in 0..(Width - 1) : Bit(from[0], j) <=> s[j] = 1
    BY <2>4, AddsBits
  <2>6. \A j \in 0..(Width - 1) : s[j] = 1 <=> (Bit(a, j) # Bit(b, j))
    OBVIOUS
  <2> HIDE DEF s
  <2>. QED  BY <2>1, <2>5, <2>6
<1>. QED  BY <1>1, <1>2, <1>3

-----------------------------------------------------------------------------
(* A shift is so many shifts by one bit *)

LEMMA WrapTurn == ASSUME NEW v \in Int, NEW q \in Int PROVE Wrap(v + Full * q) = Wrap(v)
<1>1. PICK p \in Int : v = Full * p + Wrap(v)
  BY WrapWord
<1>2. Wrap(v) \in Word /\ Full \in Nat /\ Wrap(v) \in Nat
  <2>1. Wrap(v) \in Word
    BY WrapWord
  <2>. QED  BY <2>1, HalfFull, WordsAreNat
<1>3. v + Full * q = Full * (p + q) + Wrap(v) /\ v + Full * q \in Int /\ p + q \in Int
  BY <1>1, <1>2
<1>. QED  BY <1>2, <1>3, WrapIs

LEMMA Quotients ==
  ASSUME NEW v \in Int, NEW d \in Nat, d > 0
  PROVE  (v \div d) \div 2 = v \div (2 * d)
<1> DEFINE q == v \div d
           r == v % d
           h == q \div 2
           b == q % 2
<1>1. q \in Int /\ r \in 0..(d - 1) /\ v = d * q + r
  BY Divided
<1> HIDE DEF q, r
<1>2. h \in Int /\ b \in 0..1 /\ q = 2 * h + b
  BY <1>1, Divided
<1> HIDE DEF h, b
<1>3. v = (2 * d) * h + (d * b + r) /\ d * b + r \in 0..(2 * d - 1)
  <2>1. v = d * (2 * h + b) + r
    BY <1>1, <1>2
  <2>2. d * (2 * h + b) = (2 * d) * h + d * b
    BY <1>2
  <2>3. (b = 0 => d * b = 0) /\ (b = 1 => d * b = d) /\ (b = 0 \/ b = 1)
    BY <1>2
  <2>. QED  BY <1>1, <1>2, <2>1, <2>2, <2>3
<1>4. v \div (2 * d) = h
  BY <1>2, <1>3, DividedOnce
<1>. QED  BY <1>4 DEF q, h

\* The bit below the top of what is left, in two ways.
LEMMA BitBelow ==
  ASSUME NEW k \in 0..(Width - 1), NEW v \in Word
  PROVE  LET r == v % 2^(Width - k) IN
         /\ Wrap(v * 2^k) = 2^k * r
         /\ Bit(v, Width - (k + 1)) <=> Top(Wrap(v * 2^k))
<1> DEFINE a == 2^k
           b == 2^(Width - (k + 1))
           q == v \div 2^(Width - k)
           r == v % 2^(Width - k)
<1>1. /\ Width - k \in 0..Width /\ Width - (k + 1) \in 0..Width /\ Width - (Width - k) = k
      /\ (Width - (k + 1)) + 1 = Width - k /\ Width - (k + 1) \in 0..(2 * Width)
      /\ k + (Width - (k + 1)) = Width - 1 /\ k \in Nat /\ Width - (k + 1) \in Nat /\ Width - 1 <= 2 * Width
  BY WidthType
<1>2. /\ a \in Nat /\ a > 0 /\ b \in Nat /\ b > 0 /\ 2^(Width - k) = 2 * b /\ a * b = Half
  BY <1>1, Powers, PowersAssumption, PowerOfSum, WidthType DEF Half
<1>3. q \in Int /\ r \in 0..(2 * b - 1) /\ v = (2 * b) * q + r
  BY <1>1, <1>2, Parts
<1>4. Bit(v, Width - (k + 1)) <=> (v \div b) % 2 = 1
  BY DEF Bit
<1>9. r = v % 2^(Width - k)
  OBVIOUS
<1>10. Wrap(v * 2^k) = Wrap(v * a)
  OBVIOUS
<1> HIDE DEF a, b, q, r
<1>5. v * a = Full * q + a * r /\ v * a \in Int
  BY <1>2, <1>3, HalfFull
<1>6. a * r \in Word
  <2>1. a * r <= a * (2 * b - 1) /\ a * r \in Nat /\ a * (2 * b - 1) = 2 * (a * b) - a
    BY <1>2, <1>3
  <2>. QED  BY <1>2, <2>1, HalfFull
<1>7. Wrap(v * a) = a * r
  BY <1>3, <1>5, <1>6, WrapIs
<1>8. (v \div b) % 2 = 1 <=> a * r >= Half
  <2>1. CASE r >= b
    <3>1. v = b * (2 * q + 1) + (r - b) /\ r - b \in 0..(b - 1) /\ 2 * q + 1 \in Int
      BY <1>2, <1>3, <2>1
    <3>2. v \div b = 2 * q + 1
      BY <1>2, <3>1, DividedOnce
    <3>3. (2 * q + 1) % 2 = 1
      BY <1>3, DividedOnce
    <3>4. a * r >= a * b
      BY <1>2, <1>3, <2>1
    <3>. QED  BY <1>2, <3>2, <3>3, <3>4
  <2>2. CASE r < b
    <3>1. v = b * (2 * q) + r /\ r \in 0..(b - 1) /\ 2 * q \in Int
      BY <1>2, <1>3, <2>2
    <3>2. v \div b = 2 * q
      BY <1>2, <3>1, DividedOnce
    <3>3. (2 * q + 0) % 2 = 0
      BY <1>3, DividedOnce
    <3>4. a * r < a * b
      BY <1>2, <1>3, <2>2
    <3>. QED  BY <1>2, <1>3, <3>2, <3>3, <3>4, HalfFull
  <2>. QED  BY <1>2, <1>3, <2>1, <2>2
<1>. QED  BY <1>4, <1>6, <1>7, <1>8, <1>9, <1>10, TopIs DEF a

\* One shift more.
Alike(s, t) == s[1] = t[1] /\ (s[2] <=> t[2])

LEMMA LslOn ==
  ASSUME NEW v \in Word, NEW k \in Nat, NEW c
  PROVE  Lsl(v, k, c)[1] \in Word /\ Alike(OneBit("lsl", Lsl(v, k, c)), Lsl(v, k + 1, c))
<1>1. v \in Nat /\ 0 \in Word
  BY WordsAreNat
<1>2. CASE k < Width
  <2> DEFINE y == Wrap(v * 2^k)
  <2>1. k \in 0..(Width - 1) /\ k \in 0..Width /\ k \in 0..(2 * Width)
    BY <1>2, WidthType
  <2>2. 2^k \in Nat /\ 2^(k + 1) = 2 * 2^k /\ v * 2^k \in Int /\ v * 2^(k + 1) = 2 * (v * 2^k)
    BY <1>1, <2>1, Powers, PowersAssumption, WidthType
  <2>3. Lsl(v, k, c)[1] = y
    <3>1. CASE k = 0
      <4>1. v * 2^0 = v /\ Wrap(v) = v
        BY <1>1, WrapNear, HalfFull
      <4>2. 0 # Width /\ 0 \notin 1..(Width - 1)
        BY WidthType
      <4>3. Lsl(v, 0, c)[1] = v
        BY <4>2 DEF Lsl
      <4>. QED  BY <3>1, <4>1, <4>3
    <3>2. CASE k # 0
      <4>1. k \in 1..(Width - 1)
        BY <1>2, <3>2, WidthType
      <4>. QED  BY <3>2, <4>1 DEF Lsl
    <3>. QED  BY <3>1, <3>2
  <2>4. y \in Word /\ (Bit(v, Width - (k + 1)) <=> Top(y))
    BY <2>1, <2>2, WrapWord, BitBelow
  <2>5. Wrap(2 * y) = Wrap(v * 2^(k + 1))
    <3>1. PICK q \in Int : v * 2^k = Full * q + y
      BY <2>2, WrapWord
    <3>2. y \in Nat /\ Full \in Nat
      BY <2>4, WordsAreNat, HalfFull
    <3>3. v * 2^(k + 1) = 2 * y + Full * (2 * q) /\ 2 * y \in Int /\ 2 * q \in Int
      BY <2>2, <3>1, <3>2
    <3>. QED  BY <3>3, WrapTurn
  <2> HIDE DEF y
  <2>6. OneBit("lsl", Lsl(v, k, c))[1] = Wrap(2 * y) /\ (OneBit("lsl", Lsl(v, k, c))[2] <=> Top(y))
    BY <2>3 DEF OneBit
  <2>7. CASE k + 1 < Width
    <3>1. k + 1 \in 1..(Width - 1) /\ k + 1 # 0
      BY <2>7, WidthType
    <3>2. Lsl(v, k + 1, c)[1] = Wrap(v * 2^(k + 1)) /\ (Lsl(v, k + 1, c)[2] <=> Bit(v, Width - (k + 1)))
      BY <3>1 DEF Lsl
    <3>. QED  BY <2>3, <2>4, <2>5, <2>6, <3>2 DEF Alike
  <2>8. CASE k + 1 = Width
    <3>1. k + 1 \notin 1..(Width - 1) /\ k + 1 # 0 /\ Width - (k + 1) = 0
      BY <2>8, WidthType
    <3>2. Lsl(v, k + 1, c)[1] = 0 /\ (Lsl(v, k + 1, c)[2] <=> Bit(v, 0))
      BY <2>8, <3>1 DEF Lsl
    <3>3. Wrap(v * 2^(k + 1)) = 0
      <4>1. v * 2^(k + 1) = 0 + Full * v /\ Wrap(0) = 0
        BY <1>1, <2>8, WrapNear, HalfFull DEF Full
      <4>. QED  BY <1>1, <4>1, WrapTurn
    <3>. QED  BY <2>3, <2>4, <2>5, <2>6, <3>1, <3>2, <3>3 DEF Alike
  <2>. QED  BY <2>1, <2>7, <2>8, WidthType
<1>3. CASE k >= Width
  <2>1. k \notin 1..(Width - 1) /\ k # 0 /\ k + 1 \notin 1..(Width - 1) /\ k + 1 # 0 /\ k + 1 # Width
    BY <1>3, WidthType
  <2>2. Lsl(v, k, c)[1] = 0 /\ Lsl(v, k + 1, c)[1] = 0 /\ ~Lsl(v, k + 1, c)[2]
    BY <2>1 DEF Lsl
  <2>3. Wrap(2 * 0) = 0 /\ ~Top(0)
    BY <1>1, WrapNear, TopIs, HalfFull
  <2>. QED  BY <1>1, <2>2, <2>3 DEF OneBit, Alike
<1>. QED  BY <1>2, <1>3, WidthType

\* The value of bit k, and of bit 0.
LEMMA BitFirst == ASSUME NEW v \in Int PROVE Bit(v, 0) <=> v % 2 = 1
<1>1. 2^0 = 1 /\ v \div 1 = v
  OBVIOUS
<1>. QED  BY <1>1 DEF Bit
LEMMA BitOfZero == ASSUME NEW k \in 0..Width PROVE ~Bit(0, k)
<1>1. 2^k \in Nat /\ 2^k > 0
  BY Parts
<1>2. (0 \div 2^k) = 0
  <2> DEFINE p == 2^k
  <2>1. p \in Nat /\ p > 0
    BY <1>1
  <2> HIDE DEF p
  <2>2. 0 = p * 0 + 0 /\ 0 \in 0..(p - 1)
    BY <2>1
  <2>3. 0 \div p = 0
    BY <2>1, <2>2, DividedOnce
  <2>. QED  BY <2>3 DEF p
<1>3. 0 % 2 = 0 /\ 0 # 1
  OBVIOUS
<1>4. Bit(0, k) <=> (0 \div 2^k) % 2 = 1
  BY DEF Bit
<1>. QED  BY <1>2, <1>3, <1>4

LEMMA LsrOn ==
  ASSUME NEW v \in Word, NEW k \in Nat, NEW c
  PROVE  Lsr(v, k, c, FALSE)[1] \in Word /\ Alike(OneBit("lsr", Lsr(v, k, c, FALSE)), Lsr(v, k + 1, c, FALSE))
<1>1. v \in Nat /\ 0 \in Word
  BY WordsAreNat
<1>2. CASE k < Width
  <2> DEFINE y == v \div 2^k
  <2>1. k \in 0..(Width - 1) /\ k \in 0..Width /\ k \in 0..(2 * Width)
    BY <1>2, WidthType
  <2>2. 2^k \in Nat /\ 2^k > 0 /\ 2^(k + 1) = 2 * 2^k
    BY <2>1, Parts, PowersAssumption, WidthType
  <2>3. y \in Nat /\ y <= v /\ y \in Word
    <3>1. y \in Nat /\ 2^k * y <= v
      BY <1>1, <2>2
    <3>2. y <= 2^k * y
      BY <2>2, <3>1
    <3>. QED  BY <1>1, <2>2, <3>1, <3>2, HalfFull
  <2>4. Lsr(v, k, c, FALSE)[1] = y
    <3>1. CASE k = 0
      <4>1. v \div 2^0 = v
        BY <1>1
      <4>2. 0 # Width /\ 0 \notin 1..(Width - 1)
        BY WidthType
      <4>3. Lsr(v, 0, c, FALSE)[1] = v
        BY <4>2 DEF Lsr
      <4>. QED  BY <3>1, <4>1, <4>3
    <3>2. CASE k # 0
      <4>1. k \in 1..(Width - 1)
        BY <1>2, <3>2, WidthType
      <4>. QED  BY <3>2, <4>1 DEF Lsr
    <3>. QED  BY <3>1, <3>2
  <2>5. y \div 2 = v \div 2^(k + 1)
    <3> DEFINE p == 2^k
    <3>1. p \in Nat /\ p > 0 /\ 2^(k + 1) = 2 * p /\ y = v \div p /\ v \in Int
      BY <1>1, <2>2
    <3> HIDE DEF p, y
    <3>2. (v \div p) \div 2 = v \div (2 * p)
      BY <3>1, Quotients
    <3>. QED  BY <3>1, <3>2
  <2>6. Bit(y, 0) <=> Bit(v, k)
    BY <2>3, BitFirst DEF Bit
  <2>7. OneBit("lsr", Lsr(v, k, c, FALSE))[1] = y \div 2 /\ (OneBit("lsr", Lsr(v, k, c, FALSE))[2] <=> Bit(y, 0))
    <3> HIDE DEF y
    <3>. QED  BY <2>4 DEF OneBit
  <2>8. CASE k + 1 < Width
    <3>1. k + 1 \in 1..(Width - 1) /\ k + 1 # 0 /\ (k + 1) - 1 = k
      BY <2>8, WidthType
    <3>2. Lsr(v, k + 1, c, FALSE)[1] = v \div 2^(k + 1) /\ (Lsr(v, k + 1, c, FALSE)[2] <=> Bit(v, k))
      BY <3>1 DEF Lsr
    <3>. QED  BY <2>3, <2>4, <2>5, <2>6, <2>7, <3>2 DEF Alike
  <2>9. CASE k + 1 = Width
    <3>1. k + 1 \notin 1..(Width - 1) /\ k + 1 # 0 /\ Width - 1 = k
      BY <2>9, WidthType
    <3>2. Lsr(v, k + 1, c, FALSE)[1] = 0 /\ (Lsr(v, k + 1, c, FALSE)[2] <=> Bit(v, k))
      BY <2>9, <3>1 DEF Lsr, Top
    <3>3. v \div 2^(k + 1) = 0
      <4>1. v = Full * 0 + v /\ v \in 0..(Full - 1)
        BY HalfFull
      <4>2. v \div Full = 0
        BY <4>1, HalfFull, DividedOnce
      <4>. QED  BY <2>9, <4>2 DEF Full
    <3>. QED  BY <2>3, <2>4, <2>5, <2>6, <2>7, <3>2, <3>3 DEF Alike
  <2>10. k + 1 < Width \/ k + 1 = Width
    BY <2>1, WidthType
  <2>. QED  BY <2>10, <2>8, <2>9, Zenon
<1>3. CASE k >= Width
  <2>1. k \notin 1..(Width - 1) /\ k # 0 /\ k + 1 \notin 1..(Width - 1) /\ k + 1 # 0 /\ k + 1 # Width
    BY <1>3, WidthType
  <2>2. Lsr(v, k, c, FALSE)[1] = 0 /\ Lsr(v, k + 1, c, FALSE)[1] = 0 /\ ~Lsr(v, k + 1, c, FALSE)[2]
    BY <2>1 DEF Lsr
  <2>3. 0 \div 2 = 0 /\ ~Bit(0, 0)
    BY BitOfZero, WidthType
  <2>. QED  BY <1>1, <2>2, <2>3 DEF OneBit, Alike
<1>4. k < Width \/ k >= Width
  BY WidthType
<1>. QED  BY <1>2, <1>3, <1>4, Zenon

\* The sign spreads.
LEMMA AsrOn ==
  ASSUME NEW v \in Word, NEW k \in Nat, NEW c
  PROVE  Asr(v, k, c, FALSE)[1] \in Word /\ Alike(OneBit("asr", Asr(v, k, c, FALSE)), Asr(v, k + 1, c, FALSE))
<1> DEFINE s == Signed(v, Width)
<1>1. /\ v \in Nat /\ 0 \in Word /\ s \in Int /\ s \in (-Half)..(Half - 1)
      /\ s = (IF v >= Half THEN v - Full ELSE v) /\ (Top(v) <=> v >= Half)
  BY WordsAreNat, SignedIs, TopIs, HalfFull
<1>2. ASSUME NEW t \in (-Half)..(Half - 1)
      PROVE  LET y == Wrap(t) IN
             /\ y \in Word /\ y \div 2 + Flag(Top(y), Width - 1) = Wrap(t \div 2) /\ (Bit(y, 0) <=> t % 2 = 1)
             /\ t \div 2 \in (-Half)..(Half - 1)
  <2> DEFINE y == Wrap(t)
             h == t \div 2
             b == t % 2
  <2>1. t \in Int /\ h \in Int /\ b \in 0..1 /\ t = 2 * h + b
    BY HalfFull, Divided
  <2>2. y = IF t >= 0 THEN t ELSE t + Full
    BY <2>1, WrapNear, HalfFull
  <2>3. y \in Word
    BY <2>1, WrapWord
  <2>4. Top(y) <=> t < 0
    BY <2>1, <2>2, <2>3, TopIs, HalfFull
  <2>5. Flag(Top(y), Width - 1) = IF t < 0 THEN Half ELSE 0
    BY <2>4 DEF Flag, Half
  <2> HIDE DEF y, h, b
  <2>6. y = 2 * (IF t >= 0 THEN h ELSE h + Half) + b
    BY <2>1, <2>2, HalfFull
  <2>7. y \div 2 = (IF t >= 0 THEN h ELSE h + Half) /\ y % 2 = b
    BY <2>1, <2>6, DividedOnce, HalfFull
  <2>8. h \in (-Half)..(Half - 1) /\ Wrap(h) = IF t >= 0 THEN h ELSE h + Full
    <3>1. h \in (-Half)..(Half - 1) /\ (h >= 0 <=> t >= 0)
      BY <2>1, HalfFull
    <3>. QED  BY <2>1, <3>1, WrapNear, HalfFull
  <2>9. Bit(y, 0) <=> b = 1
    BY <2>3, <2>7, BitFirst, WordsAreNat
  <2>10. y \div 2 + Flag(Top(y), Width - 1) = Wrap(h)
    BY <2>1, <2>5, <2>7, <2>8, HalfFull
  <2>. QED  BY <2>3, <2>8, <2>9, <2>10 DEF y, h, b
<1> HIDE DEF s
<1>3. ASSUME NEW t \in (-Half)..(Half - 1), Asr(v, k, c, FALSE)[1] = Wrap(t)
      PROVE  /\ Asr(v, k, c, FALSE)[1] \in Word /\ OneBit("asr", Asr(v, k, c, FALSE))[1] = Wrap(t \div 2)
             /\ OneBit("asr", Asr(v, k, c, FALSE))[2] <=> t % 2 = 1
  <2> DEFINE y == Wrap(t)
  <2>1. y \in Word /\ y \div 2 + Flag(Top(y), Width - 1) = Wrap(t \div 2) /\ (Bit(y, 0) <=> t % 2 = 1)
    BY <1>2
  <2> HIDE DEF y
  <2>2. Asr(v, k, c, FALSE)[1] = y
    BY <1>3 DEF y
  <2>. QED  BY <2>1, <2>2 DEF OneBit
<1>4. Wrap(IF Top(v) THEN -1 ELSE 0) = SignFill(v)
  BY WrapNear, HalfFull DEF SignFill, Full
<1>5. CASE k < Width
  <2> DEFINE t == s \div 2^k
  <2>1. k \in 0..(Width - 1) /\ k \in 0..Width /\ k \in 0..(2 * Width) /\ Width - k \in 1..Width
        /\ (Width - (k + 1)) + 1 = Width - k /\ Width - (k + 1) \in 0..(2 * Width)
    BY <1>5, WidthType
  <2>2. /\ 2^k \in Nat /\ 2^k > 0 /\ 2^(k + 1) = 2 * 2^k /\ 2^k * 2^(Width - k) = Full
        /\ 2^(Width - k) = 2 * 2^(Width - (k + 1)) /\ 2^(Width - (k + 1)) \in Nat /\ 2^(Width - (k + 1)) > 0
    BY <2>1, Parts, PowersAssumption, Powers, WidthType
  <2>3. t \in (-Half)..(Half - 1)
    <3>1. t \in Int /\ s = 2^k * t + (s % 2^k) /\ s % 2^k \in 0..(2^k - 1)
      BY <1>1, <2>2, Divided
    <3> DEFINE p == 2^k
               r == s % p
    <3>2. p \in Nat /\ p > 0 /\ r \in 0..(p - 1) /\ s = p * t + r
      BY <2>2, <3>1
    <3> HIDE DEF t, p, r
    <3>3. t >= 0 => p * t >= t
      BY <3>1, <3>2
    <3>4. t < 0 => s < 0 /\ s <= t
      <4>1. SUFFICES ASSUME t < 0 PROVE s < 0 /\ s <= t
        OBVIOUS
      <4>2. t + 1 <= 0 /\ p * (t + 1) <= t + 1
        BY <3>1, <3>2, <4>1
      <4>3. p * (t + 1) = p * t + p
        BY <3>1, <3>2
      <4>. QED  BY <3>1, <3>2, <4>1, <4>2, <4>3
    <3>. QED  BY <1>1, <3>1, <3>2, <3>3, <3>4, HalfFull
  <2>4. Asr(v, k, c, FALSE)[1] = Wrap(t)
    <3>1. CASE k = 0
      <4>1. s \div 2^0 = s /\ Wrap(s) = v
        BY <1>1, WrapNear, HalfFull
      <4>2. 0 # Width /\ 0 \notin 1..(Width - 1)
        BY WidthType
      <4>3. Asr(v, 0, c, FALSE)[1] = v
        BY <4>2 DEF Asr
      <4>. QED  BY <3>1, <4>1, <4>3
    <3>2. CASE k # 0
      <4>1. k \in 1..(Width - 1)
        BY <1>5, <3>2, WidthType
      <4>. QED  BY <3>2, <4>1 DEF Asr, s
    <3>. QED  BY <3>1, <3>2
  <2>5. t \div 2 = s \div 2^(k + 1)
    BY <1>1, <2>2, Quotients
  <2>6. Bit(v, k) <=> t % 2 = 1
    <3> DEFINE p == 2^k
               b == 2^(Width - (k + 1))
               r == s % p
    <3>1. /\ p \in Nat /\ p > 0 /\ b \in Nat /\ b > 0 /\ Full = p * (2 * b)
          /\ t \in Int /\ s = p * t + r /\ r \in 0..(p - 1)
      BY <1>1, <2>2, Divided
    <3>2. Bit(v, k) <=> (v \div p) % 2 = 1
      BY DEF Bit
    <3> HIDE DEF p, b, r, t
    <3>3. CASE v >= Half
      <4>1. v = p * (t + 2 * b) + r /\ t + 2 * b \in Int
        <5>1. p * (t + 2 * b) = p * t + p * (2 * b)
          BY <3>1
        <5>. QED  BY <1>1, <3>1, <3>3, <5>1, HalfFull
      <4>2. v \div p = t + 2 * b
        BY <3>1, <4>1, DividedOnce
      <4>3. t = 2 * (t \div 2) + (t % 2) /\ t \div 2 \in Int /\ t % 2 \in 0..1
        BY <3>1, Divided
      <4>4. t + 2 * b = 2 * (t \div 2 + b) + (t % 2) /\ t \div 2 + b \in Int
        BY <3>1, <4>3
      <4>5. (t + 2 * b) % 2 = t % 2
        BY <4>3, <4>4, DividedOnce
      <4>. QED  BY <3>2, <4>2, <4>5
    <3>4. CASE v < Half
      <4>1. v \div p = t
        <5>1. v = p * t + r
          BY <1>1, <3>1, <3>4, HalfFull
        <5>. QED  BY <3>1, <5>1, DividedOnce
      <4>. QED  BY <3>2, <4>1
    <3>. QED  BY <1>1, <3>3, <3>4, HalfFull
  <2> HIDE DEF t
  <2>7. CASE k + 1 < Width
    <3>1. k + 1 \in 1..(Width - 1) /\ k + 1 # 0 /\ (k + 1) - 1 = k
      BY <2>7, WidthType
    <3>2. Asr(v, k + 1, c, FALSE)[1] = Wrap(s \div 2^(k + 1)) /\ (Asr(v, k + 1, c, FALSE)[2] <=> Bit(v, k))
      BY <3>1 DEF Asr, s
    <3>. QED  BY <1>3, <2>3, <2>4, <2>5, <2>6, <3>2 DEF Alike
  <2>8. CASE k + 1 = Width
    <3>1. k + 1 \notin 1..(Width - 1) /\ k + 1 # 0 /\ Width - 1 = k
      BY <2>8, WidthType
    <3>2. Asr(v, k + 1, c, FALSE)[1] = SignFill(v) /\ (Asr(v, k + 1, c, FALSE)[2] <=> Bit(v, k))
      BY <2>8, <3>1 DEF Asr, Top
    <3>3. s \div 2^(k + 1) = IF Top(v) THEN -1 ELSE 0
      <4>1. CASE v >= Half
        <5>1. s = Full * (-1) + v
          BY <1>1, <4>1, HalfFull
        <5>2. s \div Full = -1
          BY <5>1, HalfFull, DividedOnce
        <5>. QED  BY <1>1, <2>8, <4>1, <5>2 DEF Full
      <4>2. CASE v < Half
        <5>1. s = Full * 0 + v
          BY <1>1, <4>2, HalfFull
        <5>2. s \div Full = 0
          BY <5>1, HalfFull, DividedOnce
        <5>. QED  BY <1>1, <2>8, <4>2, <5>2, HalfFull DEF Full
      <4>. QED  BY <1>1, <4>1, <4>2, HalfFull
    <3>. QED  BY <1>3, <1>4, <2>3, <2>4, <2>5, <2>6, <3>2, <3>3 DEF Alike
  <2>9. k + 1 < Width \/ k + 1 = Width
    BY <2>1, WidthType
  <2>. QED  BY <2>9, <2>7, <2>8, Zenon
<1>6. CASE k >= Width
  <2> DEFINE t == IF Top(v) THEN -1 ELSE 0
  <2>1. k \notin 1..(Width - 1) /\ k # 0 /\ k + 1 \notin 1..(Width - 1) /\ k + 1 # 0
    BY <1>6, WidthType
  <2>2. Asr(v, k, c, FALSE)[1] = SignFill(v) /\ Asr(v, k + 1, c, FALSE)[1] = SignFill(v)
        /\ (Asr(v, k + 1, c, FALSE)[2] <=> Top(v))
    BY <2>1 DEF Asr
  <2>3. t \in (-Half)..(Half - 1) /\ t \div 2 = t /\ (t % 2 = 1 <=> Top(v))
    BY HalfFull
  <2>. QED  BY <1>3, <1>4, <2>2, <2>3 DEF Alike
<1>7. k < Width \/ k >= Width
  BY WidthType
<1>. QED  BY <1>5, <1>6, <1>7, Zenon

\* The place a rotation has reached.
LEMMA TurnOn ==
  ASSUME NEW k \in Nat
  PROVE  LET j == k % Width IN
         /\ j \in 0..(Width - 1)
         /\ (k + 1) % Width = IF j + 1 = Width THEN 0 ELSE j + 1
<1> DEFINE j == k % Width
           t == k \div Width
<1>1. Width \in Nat /\ Width > 0
  BY WidthType
<1>2. j \in 0..(Width - 1) /\ t \in Int /\ k = Width * t + j
  BY <1>1, Divided
<1> HIDE DEF j, t
<1>3. CASE j + 1 = Width
  <2>1. k + 1 = Width * (t + 1) + 0 /\ t + 1 \in Int /\ 0 \in 0..(Width - 1)
    BY <1>1, <1>2, <1>3
  <2>2. (k + 1) % Width = 0
    BY <1>1, <2>1, DividedOnce
  <2>. QED  BY <1>2, <1>3, <2>2 DEF j
<1>4. CASE j + 1 # Width
  <2>1. k + 1 = Width * t + (j + 1) /\ j + 1 \in 0..(Width - 1)
    BY <1>1, <1>2, <1>4
  <2>2. (k + 1) % Width = j + 1
    BY <1>1, <1>2, <2>1, DividedOnce
  <2>. QED  BY <1>2, <1>4, <2>2 DEF j
<1>. QED  BY <1>3, <1>4

LEMMA RorIs ==
  ASSUME NEW v \in Word, NEW k \in Nat, NEW c
  PROVE  LET j == k % Width IN
         /\ Ror(v, k, c, FALSE)[1] = 2^(Width - j) * (v % 2^j) + (v \div 2^j)
         /\ Ror(v, k, c, FALSE)[1] \in Word
         /\ k > 0 => (Ror(v, k, c, FALSE)[2] <=> Bit(v, IF j = 0 THEN Width - 1 ELSE j - 1))
<1> DEFINE j == k % Width
           w == RotatedRight(v, k, Width)
<1>1. j \in 0..(Width - 1) /\ w = 2^(Width - j) * (v % 2^j) + (v \div 2^j) /\ w \in Word
  BY RotatedIs
<1>2. v \in Nat
  BY WordsAreNat
<1>3. j = 0 => w = v
  <2>1. ASSUME j = 0 PROVE w = v
    <3> HIDE DEF j
    <3>0. 2^0 = 1 /\ Width - 0 = Width
      BY WidthType
    <3>1. Width - j = Width /\ 2^j = 1 /\ 2^(Width - j) = Full
      BY <2>1, <3>0 DEF Full
    <3>2. w = Full * (v % 1) + (v \div 1)
      BY <1>1, <3>1
    <3>3. v % 1 = 0 /\ v \div 1 = v /\ Full * 0 = 0
      BY <1>2, HalfFull
    <3>. QED  BY <1>2, <3>2, <3>3
  <2>. QED  BY <2>1
<1> DEFINE o == Ror(v, k, c, FALSE)
<1>4. j = 0 => o[1] = v /\ (k > 0 => (o[2] <=> Top(v)))
  <2>1. ASSUME k = 0 PROVE o[1] = v
    BY <2>1 DEF Ror
  <2>2. ASSUME k > 0, j = 0 PROVE o = <<v, Top(v)>>
    BY <2>2 DEF Ror
  <2> HIDE DEF o
  <2>3. k = 0 \/ k > 0
    OBVIOUS
  <2>. QED  BY <2>1, <2>2, <2>3
<1>5. j # 0 => o = <<w, Bit(v, j - 1)>>
  <2>1. k = 0 => j = 0
    BY WidthType
  <2>. QED  BY <2>1 DEF Ror
<1> HIDE DEF w, o, j
<1>6. o[1] = w
  BY <1>3, <1>4, <1>5
<1>7. k > 0 => (o[2] <=> Bit(v, IF j = 0 THEN Width - 1 ELSE j - 1))
  <2>1. CASE j = 0
    BY <1>4, <2>1 DEF Top
  <2>2. CASE j # 0
    BY <1>5, <2>2
  <2>. QED  BY <2>1, <2>2
<1>. QED  BY <1>1, <1>6, <1>7 DEF o, j

\* A number's low k + 1 bits are its bit k above its low k.
LEMMA NextBit ==
  ASSUME NEW v \in Nat, NEW d \in Nat, d > 0
  PROVE  LET b == (v \div d) % 2 IN
         /\ b \in 0..1 /\ v \div d \in Nat
         /\ v % (2 * d) = d * b + (v % d) /\ (v \div d) = 2 * (v \div (2 * d)) + b
         /\ v \div (2 * d) \in Nat /\ v % d \in 0..(d - 1)
<1> DEFINE q == v \div d
           r == v % d
           h == q \div 2
           b == q % 2
<1>1. q \in Nat /\ r \in 0..(d - 1) /\ v = d * q + r
  BY Divided
<1> HIDE DEF q, r
<1>2. h \in Nat /\ b \in 0..1 /\ q = 2 * h + b
  BY <1>1, Divided
<1> HIDE DEF h, b
<1>3. v = (2 * d) * h + (d * b + r) /\ d * b + r \in 0..(2 * d - 1) /\ 2 * d \in Nat /\ 2 * d > 0
  <2>1. v = d * (2 * h + b) + r
    BY <1>1, <1>2
  <2>2. d * (2 * h + b) = (2 * d) * h + d * b
    BY <1>2
  <2>3. (b = 0 => d * b = 0) /\ (b = 1 => d * b = d) /\ (b = 0 \/ b = 1)
    BY <1>2
  <2>. QED  BY <1>1, <1>2, <2>1, <2>2, <2>3
<1>4. v \div (2 * d) = h /\ v % (2 * d) = d * b + r
  BY <1>2, <1>3, DividedOnce
<1>. QED  BY <1>1, <1>2, <1>4 DEF q, r, b

LEMMA RorOn ==
  ASSUME NEW v \in Word, NEW k \in Nat, NEW c
  PROVE  Ror(v, k, c, FALSE)[1] \in Word /\ Alike(OneBit("ror", Ror(v, k, c, FALSE)), Ror(v, k + 1, c, FALSE))
<1> DEFINE j == k % Width
           p == 2^j
           d == 2^(Width - (j + 1))
           q == v \div p
           r == v % p
           b == q % 2
           y == Ror(v, k, c, FALSE)[1]
<1>1. j \in 0..(Width - 1) /\ (k + 1) % Width = (IF j + 1 = Width THEN 0 ELSE j + 1) /\ k + 1 \in Nat /\ k + 1 > 0
  BY TurnOn
<1> HIDE DEF j
<1>2. /\ Width - j \in 0..Width /\ j \in 0..Width /\ j \in 0..(2 * Width) /\ Width - (j + 1) \in 0..(2 * Width)
      /\ (Width - (j + 1)) + 1 = Width - j /\ j \in Nat /\ Width - (j + 1) \in Nat /\ j + (Width - (j + 1)) = Width - 1
      /\ Width - 1 <= 2 * Width
  BY <1>1, WidthType
<1>3. /\ p \in Nat /\ p > 0 /\ d \in Nat /\ d > 0 /\ 2^(Width - j) = 2 * d /\ 2^(j + 1) = 2 * p /\ p * d = Half
  BY <1>2, Parts, Powers, PowersAssumption, PowerOfSum, WidthType DEF Half
<1>4. v \in Nat
  BY WordsAreNat
<1>5. y = (2 * d) * r + q /\ y \in Word
  BY <1>3, RorIs DEF j
<1>6. /\ b \in 0..1 /\ q \in Nat /\ r \in 0..(p - 1)
      /\ v % (2 * p) = p * b + r /\ q = 2 * (v \div (2 * p)) + b /\ v \div (2 * p) \in Nat
  BY <1>3, <1>4, NextBit
<1>7. Bit(v, j) <=> b = 1
  BY DEF Bit
<1>8. OneBit("ror", Ror(v, k, c, FALSE))[1] = y \div 2 + Flag(Bit(y, 0), Width - 1)
      /\ (OneBit("ror", Ror(v, k, c, FALSE))[2] <=> Bit(y, 0))
  BY DEF OneBit
<1>9. Ror(v, k + 1, c, FALSE)[1] = d * (v % (2 * p)) + (v \div (2 * p))
  <2>1. CASE j + 1 = Width
    <3>1. (k + 1) % Width = 0 /\ d = 1 /\ Width - 0 = Width /\ 2 * p = Full
      <4>1. Width - (j + 1) = 0 /\ 2^0 = 1 /\ Width - 0 = Width /\ 2^(j + 1) = Full
        BY <1>1, <2>1, WidthType DEF Full
      <4>. QED  BY <1>1, <1>3, <2>1, <4>1
    <3>2. Ror(v, k + 1, c, FALSE)[1] = 2^(Width - 0) * (v % 2^0) + (v \div 2^0)
      <4>1. ASSUME NEW n \in Nat, n % Width = 0
            PROVE  Ror(v, n, c, FALSE)[1] = 2^(Width - 0) * (v % 2^0) + (v \div 2^0)
        BY <4>1, RorIs, Zenon
      <4>2. k + 1 \in Nat
        OBVIOUS
      <4>. QED  BY <3>1, <4>1, <4>2, Zenon
    <3>3. 2^0 = 1 /\ v % 1 = 0 /\ v \div 1 = v
      BY <1>4
    <3>4. v % (2 * p) = v /\ v \div (2 * p) = 0
      <4>1. v = Full * 0 + v /\ v \in 0..(Full - 1)
        BY <1>4, HalfFull
      <4>2. v \div Full = 0 /\ v % Full = v
        BY <4>1, HalfFull, DividedOnce
      <4>. QED  BY <3>1, <4>2
    <3>5. 2^(Width - 0) * 0 = 0
      BY <3>1, HalfFull DEF Full
    <3>6. Ror(v, k + 1, c, FALSE)[1] = 0 + v
      BY <3>2, <3>3, <3>5
    <3>7. d * (v % (2 * p)) + (v \div (2 * p)) = v
      <4>1. d * (v % (2 * p)) + (v \div (2 * p)) = 1 * v + 0
        BY <3>1, <3>4
      <4>. QED  BY <1>4, <4>1
    <3>8. 0 + v = v
      BY <1>4
    <3>. QED  BY <3>6, <3>7, <3>8, Zenon
  <2>2. CASE j + 1 # Width
    <3>1. (k + 1) % Width = j + 1
      BY <1>1, <2>2
    <3>2. Ror(v, k + 1, c, FALSE)[1] = 2^(Width - (j + 1)) * (v % 2^(j + 1)) + (v \div 2^(j + 1))
      BY <1>1, <3>1, RorIs
    <3>. QED  BY <1>3, <3>2
  <2>. QED  BY <2>1, <2>2
<1>10. Ror(v, k + 1, c, FALSE)[2] <=> Bit(v, j)
  <2>1. Ror(v, k + 1, c, FALSE)[2] <=> Bit(v, IF (k + 1) % Width = 0 THEN Width - 1 ELSE ((k + 1) % Width) - 1)
    BY <1>1, RorIs
  <2>2. (IF (k + 1) % Width = 0 THEN Width - 1 ELSE ((k + 1) % Width) - 1) = j
    BY <1>1, WidthType
  <2>. QED  BY <2>1, <2>2
<1> DEFINE h == v \div (2 * p)
<1>11. h \in Nat /\ q = 2 * h + b /\ Ror(v, k + 1, c, FALSE)[1] = d * (p * b + r) + h
  BY <1>6, <1>9
<1> HIDE DEF y, b, q, r, p, d, h
<1>12. y \div 2 = d * r + h /\ y % 2 = b
  <2>1. y = 2 * (d * r + h) + b /\ d * r + h \in Int
    BY <1>3, <1>5, <1>6, <1>11
  <2>. QED  BY <1>6, <2>1, DividedOnce
<1>13. Bit(y, 0) <=> b = 1
  BY <1>5, <1>12, WordsAreNat, BitFirst
<1>14. Flag(Bit(y, 0), Width - 1) = Half * b
  BY <1>6, <1>13, HalfFull DEF Flag, Half
<1>15. d * (p * b + r) + h = (d * r + h) + Half * b
  <2>1. d * (p * b + r) = (p * d) * b + d * r
    BY <1>3, <1>6
  <2>. QED  BY <1>3, <1>6, <1>11, <2>1
<1>16. OneBit("ror", Ror(v, k, c, FALSE))[1] = Ror(v, k + 1, c, FALSE)[1]
  BY <1>8, <1>11, <1>12, <1>14, <1>15
<1>17. OneBit("ror", Ror(v, k, c, FALSE))[2] <=> Ror(v, k + 1, c, FALSE)[2]
  BY <1>7, <1>8, <1>10, <1>13
<1>. QED  BY <1>5, <1>16, <1>17 DEF Alike, y

\* f holds what n shifts by one bit make of s, one after the other.
Follows(f, type, s, n) == f = [k \in 0..n |-> IF k = 0 THEN s ELSE OneBit(type, f[k - 1])]

LEMMA FollowsSome == ASSUME NEW n \in Nat, NEW type, NEW s PROVE \E f : Follows(f, type, s, n)
<1> DEFINE S == {k \in 0..n : \E f : Follows(f, type, s, k)}
<1>1. 0 \in S
  <2> DEFINE f == [k \in 0..0 |-> s]
  <2>1. \A k \in 0..0 : k = 0
    OBVIOUS
  <2>2. Follows(f, type, s, 0)
    BY <2>1 DEF Follows
  <2> HIDE DEF f
  <2>. QED  BY <2>2
<1>2. ASSUME NEW k \in 0..(n - 1), k \in S PROVE k + 1 \in S
  <2>1. PICK f : Follows(f, type, s, k)
    BY <1>2
  <2> DEFINE g == [j \in 0..(k + 1) |-> IF j = k + 1 THEN OneBit(type, f[k]) ELSE f[j]]
  <2>2. ASSUME NEW j \in 0..(k + 1) PROVE g[j] = IF j = 0 THEN s ELSE OneBit(type, g[j - 1])
    <3>1. CASE j = k + 1
      <4>1. j # 0 /\ j - 1 = k /\ j - 1 # k + 1 /\ j - 1 \in 0..(k + 1)
        BY <3>1
      <4>2. g[j - 1] = f[k] /\ g[j] = OneBit(type, f[k])
        BY <3>1, <4>1
      <4>. QED  BY <4>1, <4>2
    <3>2. CASE j # k + 1
      <4>1. j \in 0..k /\ (j # 0 => j - 1 \in 0..k /\ j - 1 # k + 1 /\ j - 1 \in 0..(k + 1))
        BY <3>2
      <4>2. g[j] = f[j] /\ (j # 0 => g[j - 1] = f[j - 1])
        BY <3>2, <4>1
      <4>3. f[j] = IF j = 0 THEN s ELSE OneBit(type, f[j - 1])
        BY <2>1, <4>1 DEF Follows
      <4>. QED  BY <4>2, <4>3
    <3>. QED  BY <3>1, <3>2
  <2>3. g = [j \in 0..(k + 1) |-> g[j]]
    OBVIOUS
  <2> HIDE DEF g
  <2>4. Follows(g, type, s, k + 1)
    BY <2>2, <2>3, Zenon DEF Follows
  <2>5. k + 1 \in 0..n
    OBVIOUS
  <2>. QED  BY <2>4, <2>5
<1>3. n \in S
  <2> HIDE DEF S
  <2>. QED  BY <1>1, <1>2, LoadFold!Induct
<1>. QED  BY <1>3

\* One more of any type.
LEMMA ShiftOn ==
  ASSUME NEW type \in Shifts, NEW v \in Word, NEW k \in Nat, NEW c
  PROVE  /\ Shift(type, v, k, c, FALSE)[1] \in Word
         /\ Alike(OneBit(type, Shift(type, v, k, c, FALSE)), Shift(type, v, k + 1, c, FALSE))
<1>1. CASE type = "lsl"
  <2>1. \A n : Shift("lsl", v, n, c, FALSE) = Lsl(v, n, c)
    BY DEF Shift
  <2>. QED  BY <1>1, <2>1, LslOn
<1>2. CASE type = "lsr"
  <2>1. \A n : Shift("lsr", v, n, c, FALSE) = Lsr(v, n, c, FALSE)
    BY DEF Shift
  <2>. QED  BY <1>2, <2>1, LsrOn
<1>3. CASE type = "asr"
  <2>1. \A n : Shift("asr", v, n, c, FALSE) = Asr(v, n, c, FALSE)
    BY DEF Shift
  <2>. QED  BY <1>3, <2>1, AsrOn
<1>4. CASE type = "ror"
  <2>1. \A n : Shift("ror", v, n, c, FALSE) = Ror(v, n, c, FALSE)
    BY DEF Shift
  <2>. QED  BY <1>4, <2>1, RorOn
<1>. QED  BY <1>1, <1>2, <1>3, <1>4 DEF Shifts

LEMMA OneBitOfValue ==
  ASSUME NEW type \in Shifts, NEW s, NEW t, s[1] = t[1]
  PROVE  OneBit(type, s) = OneBit(type, t)
  BY DEF OneBit, Shifts

LEMMA ShiftOfNone ==
  ASSUME NEW type \in Shifts, NEW v, NEW c
  PROVE  Shift(type, v, 0, c, FALSE) = <<v, c>>
<1>1. 0 # Width /\ 0 \notin 1..(Width - 1)
  BY WidthType
<1>2. /\ Lsl(v, 0, c) = <<v, c>> /\ Lsr(v, 0, c, FALSE) = <<v, c>>
      /\ Asr(v, 0, c, FALSE) = <<v, c>> /\ Ror(v, 0, c, FALSE) = <<v, c>>
  BY <1>1 DEF Lsl, Lsr, Asr, Ror
<1>. QED  BY <1>2 DEF Shift, Shifts

\* The shifter in one go does what as many shifts by one bit do.
LEMMA ShiftIsBitByBit ==
  ASSUME NEW type \in Shifts, NEW v \in Word, NEW n \in Nat, NEW c
  PROVE  /\ Alike(BitByBit(type, v, n, c), Shift(type, v, n, c, FALSE))
         /\ Shift(type, v, n, c, FALSE)[1] \in Word
<1> DEFINE f == CHOOSE f : Follows(f, type, <<v, c>>, n)
<1>1. BitByBit(type, v, n, c) = f[n]
  BY Zenon DEF BitByBit, Follows
<1>2. Follows(f, type, <<v, c>>, n)
  BY FollowsSome
<1> HIDE DEF f
<1> DEFINE S == {k \in 0..n : Alike(f[k], Shift(type, v, k, c, FALSE))}
<1>3. 0 \in S
  <2>1. f[0] = <<v, c>>
    BY <1>2 DEF Follows
  <2>2. f[0] = Shift(type, v, 0, c, FALSE)
    BY <2>1, ShiftOfNone, Zenon
  <2>3. Alike(f[0], Shift(type, v, 0, c, FALSE))
    BY <2>2, Zenon DEF Alike
  <2>4. 0 \in 0..n
    OBVIOUS
  <2>. QED  BY <2>3, <2>4
<1>4. ASSUME NEW k \in 0..(n - 1), k \in S PROVE k + 1 \in S
  <2>1. k + 1 \in 0..n /\ k + 1 # 0 /\ (k + 1) - 1 = k /\ k \in Nat
    OBVIOUS
  <2>2. f[k + 1] = OneBit(type, f[k])
    BY <1>2, <2>1 DEF Follows
  <2>3. OneBit(type, f[k]) = OneBit(type, Shift(type, v, k, c, FALSE))
    BY <1>4, OneBitOfValue DEF Alike
  <2>4. Alike(f[k + 1], Shift(type, v, k + 1, c, FALSE))
    BY <2>1, <2>2, <2>3, ShiftOn
  <2>. QED  BY <2>1, <2>4
<1>5. n \in S
  <2> HIDE DEF S
  <2>. QED  BY <1>3, <1>4, LoadFold!Induct
<1>. QED  BY <1>1, <1>5, ShiftOn

\* Half a word and a top bit.
LEMMA TopSet ==
  ASSUME NEW y \in Word, NEW b
  PROVE  LET z == y \div 2 + Flag(b, Width - 1) IN z \in Word /\ (Top(z) <=> b)
<1> DEFINE z == y \div 2 + Flag(b, Width - 1)
           h == y \div 2
<1>1. h \in 0..(Half - 1)
  <2>1. y \in 0..(2 * Half - 1) /\ Half \in Nat
    BY HalfFull
  <2>. QED  BY <2>1
<1>2. Flag(b, Width - 1) = IF b THEN Half ELSE 0
  BY DEF Flag, Half
<1> HIDE DEF h
<1>3. z = h + IF b THEN Half ELSE 0
  BY <1>2 DEF h
<1> HIDE DEF z
<1>4. z \in Word /\ (z >= Half <=> b)
  <2>1. CASE b
    BY <1>1, <1>3, <2>1, HalfFull
  <2>2. CASE ~b
    BY <1>1, <1>3, <2>2, HalfFull
  <2>. QED  BY <2>1, <2>2
<1>. QED  BY <1>4, TopIs DEF z, h

LEMMA RotatedTop ==
  ASSUME NEW v \in Word, NEW n \in 1..(Width - 1), NEW c
  PROVE  /\ Ror(v, n, c, FALSE)[1] = RotatedRight(v, n, Width)
         /\ Ror(v, n, c, FALSE)[2] <=> Top(RotatedRight(v, n, Width))
<1>1. n - 1 \in Nat /\ (n - 1) + 1 = n /\ n % Width = n /\ n # 0
  BY WidthType
<1>2. Ror(v, n, c, FALSE)[1] = RotatedRight(v, n, Width)
  BY <1>1 DEF Ror
<1> DEFINE y == Ror(v, n - 1, c, FALSE)[1]
<1>3. y \in Word /\ Alike(OneBit("ror", Ror(v, n - 1, c, FALSE)), Ror(v, n, c, FALSE))
  BY <1>1, RorOn
<1>4. /\ OneBit("ror", Ror(v, n - 1, c, FALSE))[1] = y \div 2 + Flag(Bit(y, 0), Width - 1)
      /\ OneBit("ror", Ror(v, n - 1, c, FALSE))[2] <=> Bit(y, 0)
  BY DEF OneBit
<1> HIDE DEF y
<1>5. RotatedRight(v, n, Width) = y \div 2 + Flag(Bit(y, 0), Width - 1) /\ (Ror(v, n, c, FALSE)[2] <=> Bit(y, 0))
  BY <1>2, <1>3, <1>4 DEF Alike
<1>6. Top(RotatedRight(v, n, Width)) <=> Bit(y, 0)
  BY <1>3, <1>5, TopSet
<1>. QED  BY <1>2, <1>5, <1>6

\* Apart from an amount of 0 a constant shifts as a register does.
LEMMA ConstantShift ==
  ASSUME NEW type \in Shifts, NEW v, NEW n \in Nat, n > 0, NEW c
  PROVE  Shift(type, v, n, c, TRUE) = Shift(type, v, n, c, FALSE)
<1>1. /\ Lsr(v, n, c, TRUE) = Lsr(v, n, c, FALSE) /\ Asr(v, n, c, TRUE) = Asr(v, n, c, FALSE)
      /\ Ror(v, n, c, TRUE) = Ror(v, n, c, FALSE)
  <2>1. n # 0
    OBVIOUS
  <2>2. Lsr(v, n, c, TRUE) = Lsr(v, n, c, FALSE)
    BY <2>1 DEF Lsr
  <2>3. Asr(v, n, c, TRUE) = Asr(v, n, c, FALSE)
    BY <2>1 DEF Asr
  <2>4. Ror(v, n, c, TRUE) = Ror(v, n, c, FALSE)
    BY <2>1 DEF Ror
  <2>. QED  BY <2>2, <2>3, <2>4
<1>. QED  BY <1>1 DEF Shift, Shifts

LEMMA ShiftByNone ==
  ASSUME NEW v \in Word, NEW c
  PROVE  /\ Shift("lsl", v, 0, c, TRUE) = <<v, c>>
         /\ Shift("lsr", v, 0, c, TRUE) = Shift("lsr", v, Width, c, FALSE)
         /\ Shift("asr", v, 0, c, TRUE) = Shift("asr", v, Width, c, FALSE)
         /\ Shift("ror", v, 0, c, TRUE) = OneBit("rrx", <<v, c>>)
<1>1. Width # 0 /\ 0 # Width /\ Width \notin 1..(Width - 1) /\ 0 \notin 1..(Width - 1)
  BY WidthType
<1>2. Lsl(v, 0, c) = <<v, c>>
  BY <1>1 DEF Lsl
<1>3. Lsr(v, 0, c, TRUE) = <<0, Top(v)>> /\ Lsr(v, Width, c, FALSE) = <<0, Top(v)>>
  BY <1>1 DEF Lsr
<1>4. Asr(v, 0, c, TRUE) = <<SignFill(v), Top(v)>> /\ Asr(v, Width, c, FALSE) = <<SignFill(v), Top(v)>>
  BY <1>1 DEF Asr
<1>5. Ror(v, 0, c, TRUE) = <<v \div 2 + Flag(c, Width - 1), Bit(v, 0)>>
  BY DEF Ror
<1>. QED  BY <1>2, <1>3, <1>4, <1>5 DEF Shift, OneBit

\* The operand of an instruction, by the shifter and a bit at a time.
LEMMA OperandIs ==
  ASSUME NEW x, Proper(x), NEW src \in Constant \cup ByAmount \cup ByRegister
  PROVE  Operand2(x, src)[1] \in Word /\ Alike(ShifterOperand(x, src), Operand2(x, src))
<1> DEFINE c == x.cpsr.c
<1>1. CASE src \in Constant
  <2>1. src.by = "imm" /\ src.imm \in Word /\ src.rot \in 0..(Width - 1) /\ src.rot \in Nat
    BY <1>1, WidthType DEF Constant, Amount
  <2>2. Operand2(x, src) = RotateImmediate(src.imm, src.rot, c) /\ ShifterOperand(x, src) = BitByBit("ror", src.imm, src.rot, c)
    BY <2>1 DEF Operand2, ShifterOperand
  <2>3. Alike(BitByBit("ror", src.imm, src.rot, c), Ror(src.imm, src.rot, c, FALSE)) /\ Ror(src.imm, src.rot, c, FALSE)[1] \in Word
    <3>1. "ror" \in Shifts
      BY DEF Shifts
    <3>2. Shift("ror", src.imm, src.rot, c, FALSE) = Ror(src.imm, src.rot, c, FALSE)
      BY DEF Shift
    <3>. QED  BY <2>1, <3>1, <3>2, ShiftIsBitByBit
  <2>4. Alike(Ror(src.imm, src.rot, c, FALSE), RotateImmediate(src.imm, src.rot, c))
    <3>1. CASE src.rot = 0
      BY <3>1 DEF Ror, RotateImmediate, Alike
    <3>2. CASE src.rot # 0
      <4>1. src.rot \in 1..(Width - 1)
        BY <2>1, <3>2
      <4>2. /\ RotateImmediate(src.imm, src.rot, c)[1] = RotatedRight(src.imm, src.rot, Width)
            /\ RotateImmediate(src.imm, src.rot, c)[2] <=> Top(RotatedRight(src.imm, src.rot, Width))
        BY <3>2 DEF RotateImmediate
      <4>. QED  BY <2>1, <4>1, <4>2, RotatedTop DEF Alike
    <3>. QED  BY <3>1, <3>2
  <2>. QED  BY <2>2, <2>3, <2>4 DEF Alike
<1>2. CASE src \in ByAmount
  <2> DEFINE v == x.r[src.rm]
  <2>1. src.by = "amount" /\ src.shift \in Shifts /\ src.n \in Nat /\ v \in Word
    BY <1>2, ProperReads, WidthType DEF ByAmount, Amount
  <2>2. Operand2(x, src) = Shift(src.shift, v, src.n, c, TRUE)
    BY <2>1 DEF Operand2
  <2>3. CASE src.n > 0
    <3>1. ShifterOperand(x, src) = BitByBit(src.shift, v, src.n, c)
      BY <2>1, <2>3 DEF ShifterOperand
    <3>2. Operand2(x, src) = Shift(src.shift, v, src.n, c, FALSE)
      BY <2>1, <2>2, <2>3, ConstantShift
    <3>. QED  BY <2>1, <3>1, <3>2, ShiftIsBitByBit
  <2>4. CASE src.n = 0 /\ src.shift \in {"lsr", "asr"}
    <3>1. ShifterOperand(x, src) = BitByBit(src.shift, v, Width, c)
      BY <2>1, <2>4 DEF ShifterOperand
    <3>2. Operand2(x, src) = Shift(src.shift, v, Width, c, FALSE)
      BY <2>1, <2>2, <2>4, ShiftByNone
    <3>. QED  BY <2>1, <3>1, <3>2, ShiftIsBitByBit, WidthType
  <2>5. CASE src.n = 0 /\ src.shift = "ror"
    <3>1. ShifterOperand(x, src) = OneBit("rrx", <<v, c>>)
      BY <2>1, <2>5 DEF ShifterOperand
    <3>2. Operand2(x, src) = OneBit("rrx", <<v, c>>)
      BY <2>1, <2>2, <2>5, ShiftByNone
    <3>3. OneBit("rrx", <<v, c>>)[1] = v \div 2 + Flag(c, Width - 1)
      BY DEF OneBit
    <3>. QED  BY <2>1, <3>1, <3>2, <3>3, TopSet DEF Alike
  <2>6. CASE src.n = 0 /\ src.shift = "lsl"
    <3>1. ShifterOperand(x, src) = BitByBit("lsl", v, 0, c)
      BY <2>1, <2>6 DEF ShifterOperand
    <3>0. "lsl" \in Shifts
      BY DEF Shifts
    <3>2. Operand2(x, src) = Shift("lsl", v, 0, c, FALSE)
      <4>1. Shift("lsl", v, 0, c, TRUE) = <<v, c>>
        BY <2>1, ShiftByNone
      <4>2. Shift("lsl", v, 0, c, FALSE) = <<v, c>>
        BY <3>0, ShiftOfNone
      <4>. QED  BY <2>2, <2>6, <4>1, <4>2
    <3>3. 0 \in Nat
      OBVIOUS
    <3>. QED  BY <2>1, <3>0, <3>1, <3>2, <3>3, ShiftIsBitByBit
  <2>7. src.n = 0 \/ src.n > 0
    BY <2>1
  <2>8. src.shift = "lsl" \/ src.shift = "ror" \/ src.shift \in {"lsr", "asr"}
    BY <2>1 DEF Shifts
  <2>. QED  BY <2>3, <2>4, <2>5, <2>6, <2>7, <2>8, Zenon
<1>3. CASE src \in ByRegister
  <2> DEFINE v == Late(x, src.rm)
             n == x.r[src.rs] % AmountSpan
  <2>1. src.by = "register" /\ src.shift \in Shifts /\ v \in Word /\ x.r[src.rs] \in Word
    BY <1>3, ProperReads DEF ByRegister
  <2>2. n \in Nat
    <3>0. x.r[src.rs] \in Nat
      BY <2>1, WordsAreNat, Zenon
    <3>1. x.r[src.rs] \in Int
      BY <3>0
    <3>2. AmountSpan \in Nat /\ AmountSpan > 0
      BY WidthType
    <3>. QED  BY <3>1, <3>2, Divided
  <2>3. Operand2(x, src) = Shift(src.shift, v, n, c, FALSE) /\ ShifterOperand(x, src) = BitByBit(src.shift, v, n, c)
    BY <2>1 DEF Operand2, ShifterOperand
  <2> HIDE DEF v, n
  <2>. QED  BY <2>1, <2>2, <2>3, ShiftIsBitByBit
<1>. QED  BY <1>1, <1>2, <1>3

-----------------------------------------------------------------------------
(* Sums *)

LEMMA FlagIs == ASSUME NEW b PROVE Flag(b, 0) = (IF b THEN 1 ELSE 0) /\ Flag(~b, 0) = 1 - Flag(b, 0) /\ Flag(b, 0) \in 0..1
<1>1. 2^0 = 1
  OBVIOUS
<1>2. CASE b
  BY <1>1, <1>2 DEF Flag
<1>3. CASE ~b
  BY <1>1, <1>3 DEF Flag
<1>. QED  BY <1>2, <1>3

LEMMA Added ==
  ASSUME NEW a \in Word, NEW b \in Word, NEW c
  PROVE  LET u == a + b + Flag(c, 0)
             s == Signed(a, Width) + Signed(b, Width) + Flag(c, 0)
         IN  /\ Addc(a, b, c)[1] = Wrap(u) /\ Addc(a, b, c)[1] \in Word
             /\ Addc(a, b, c)[2] <=> u >= Full
             /\ Addc(a, b, c)[3] <=> s \notin (-Half)..(Half - 1)
<1> DEFINE f == Flag(c, 0)
           u == a + b + f
           r == Wrap(u)
<1>1. f \in 0..1
  BY FlagIs
<1>2. a \in 0..(Full - 1) /\ b \in 0..(Full - 1) /\ Half \in Nat /\ Half > 0 /\ Full = 2 * Half
  BY HalfFull
<1>3. /\ Addc(a, b, c)[1] = r /\ (Addc(a, b, c)[2] <=> u >= Full)
      /\ Addc(a, b, c)[3] <=> ((Top(a) <=> Top(b)) /\ ~(Top(a) <=> Top(r)))
  <2>1. Top(a) \in BOOLEAN /\ Top(b) \in BOOLEAN /\ Top(r) \in BOOLEAN
    BY DEF Top, Bit
  <2> HIDE DEF f
  <2>2. Addc(a, b, c)[1] = r /\ (Addc(a, b, c)[2] <=> u >= Full)
    BY DEF Addc, f, Full
  <2>3. Addc(a, b, c)[3] <=> (Top(a) = Top(b) /\ Top(a) # Top(r))
    BY DEF Addc, f
  <2>. QED  BY <2>1, <2>2, <2>3, Zenon
<1> HIDE DEF f
<1>4. u \in Int /\ r \in Word /\ r = IF u >= Full THEN u - Full ELSE u
  <2>1. u \in Int /\ u \in 0..(2 * Full - 1)
    BY <1>1, <1>2
  <2> HIDE DEF u
  <2>2. /\ u \in 0..(Full - 1) => Wrap(u) = u
        /\ u \in Full..(2 * Full - 1) => Wrap(u) = u - Full
        /\ Wrap(u) \in Word
    BY <2>1, WrapNear, WrapWord
  <2>. QED  BY <1>2, <2>1, <2>2
<1>5. (Top(a) <=> a >= Half) /\ (Top(b) <=> b >= Half) /\ (Top(r) <=> r >= Half)
  BY <1>4, TopIs
<1>6. /\ Signed(a, Width) = (IF a >= Half THEN a - Full ELSE a)
      /\ Signed(b, Width) = (IF b >= Half THEN b - Full ELSE b)
  BY SignedIs
<1> DEFINE s == Signed(a, Width) + Signed(b, Width) + f
<1> HIDE DEF r
<1>7. ((a >= Half <=> b >= Half) /\ ~(a >= Half <=> r >= Half)) <=> s \notin (-Half)..(Half - 1)
  <2>1. CASE a >= Half /\ b >= Half
    BY <1>1, <1>2, <1>4, <1>6, <2>1
  <2>2. CASE a < Half /\ b < Half
    BY <1>1, <1>2, <1>4, <1>6, <2>2
  <2>3. CASE a >= Half /\ b < Half
    BY <1>1, <1>2, <1>4, <1>6, <2>3
  <2>4. CASE a < Half /\ b >= Half
    BY <1>1, <1>2, <1>4, <1>6, <2>4
  <2>. QED  BY <1>2, <2>1, <2>2, <2>3, <2>4
<1>8. Addc(a, b, c)[3] <=> s \notin (-Half)..(Half - 1)
  BY <1>3, <1>5, <1>7, Zenon
<1>. QED  BY <1>3, <1>4, <1>8 DEF r, f

LEMMA Subtracted ==
  ASSUME NEW a \in Word, NEW b \in Word, NEW c
  PROVE  LET u == a - b - Flag(~c, 0)
             s == Signed(a, Width) - Signed(b, Width) - Flag(~c, 0)
             t == Addc(a, Not(b, Width), c)
         IN  /\ t[1] = Wrap(u) /\ t[1] \in Word
             /\ t[2] <=> u >= 0
             /\ t[3] <=> s \notin (-Half)..(Half - 1)
<1> DEFINE f == Flag(c, 0)
           n == Not(b, Width)
           u == a - b - Flag(~c, 0)
           s == Signed(a, Width) - Signed(b, Width) - Flag(~c, 0)
           t == Addc(a, n, c)
<1>1. f \in 0..1 /\ Flag(~c, 0) = 1 - f
  BY FlagIs
<1>2. a \in 0..(Full - 1) /\ b \in 0..(Full - 1) /\ Half \in Nat /\ Half > 0 /\ Full = 2 * Half
  BY HalfFull
<1>3. n \in Word /\ n = Full - 1 - b
  BY NotIs
<1>4. t[1] = Wrap(a + n + f) /\ t[1] \in Word
      /\ (t[2] <=> a + n + f >= Full)
      /\ (t[3] <=> Signed(a, Width) + Signed(n, Width) + f \notin (-Half)..(Half - 1))
  <2> HIDE DEF n
  <2>. QED  BY <1>3, Added
<1>5. /\ Signed(a, Width) \in Int /\ Signed(b, Width) \in Int
      /\ Signed(b, Width) = (IF b >= Half THEN b - Full ELSE b)
      /\ Signed(n, Width) = (IF n >= Half THEN n - Full ELSE n)
  BY <1>2, <1>3, SignedIs
<1> HIDE DEF f, n, t
<1>6. Signed(n, Width) = -Signed(b, Width) - 1
  BY <1>2, <1>3, <1>5
<1>7. a + n + f = u + Full * 1 /\ u \in Int
  BY <1>1, <1>2, <1>3
<1>8. Wrap(a + n + f) = Wrap(u)
  BY <1>7, WrapTurn
<1>9. a + n + f >= Full <=> u >= 0
  BY <1>2, <1>7
<1>10. Signed(a, Width) + Signed(n, Width) + f = s
  BY <1>1, <1>5, <1>6
<1>. QED  BY <1>4, <1>8, <1>9, <1>10 DEF t, n

\* A tuple of three made one of four.
LEMMA FourthIs ==
  ASSUME NEW x, NEW y, NEW z
  PROVE  /\ (Addc(x, y, z) \o <<FALSE>>)[1] = Addc(x, y, z)[1] /\ (Addc(x, y, z) \o <<FALSE>>)[2] = Addc(x, y, z)[2]
         /\ (Addc(x, y, z) \o <<FALSE>>)[3] = Addc(x, y, z)[3] /\ ~(Addc(x, y, z) \o <<FALSE>>)[4]
<1> DEFINE s == Addc(x, y, z)
           q == <<FALSE>>
           T == {s[1], s[2], s[3], FALSE}
<1>1. s \in Seq(T) /\ Len(s) = 3
  BY DEF Addc
<1>2. q \in Seq(T) /\ Len(q) = 1 /\ ~q[1]
  OBVIOUS
<1> HIDE DEF s, q, T
<1>3. \A k \in 1..(Len(s) + Len(q)) : (s \o q)[k] = IF k <= Len(s) THEN s[k] ELSE q[k - Len(s)]
  BY <1>1, <1>2, ConcatProperties, Zenon
<1> DEFINE w == s \o q
           l == Len(s)
           n == Len(q)
<1>4. l = 3 /\ n = 1 /\ \A k \in 1..(l + n) : w[k] = IF k <= l THEN s[k] ELSE q[k - l]
  BY <1>1, <1>2, <1>3, Zenon
<1> HIDE DEF w, l, n
<1>5. w[1] = s[1] /\ w[2] = s[2] /\ w[3] = s[3] /\ w[4] = q[1]
  BY <1>4
<1>. QED  BY <1>2, <1>5, Zenon DEF w, s, q

\* The overflow of an addition is true or false.
LEMMA AddcBoolean ==
  ASSUME NEW x, NEW y, NEW z
  PROVE  (Addc(x, y, z) \o <<FALSE>>)[3] \in BOOLEAN
<1> DEFINE s == Addc(x, y, z)
<1>1. s[3] \in BOOLEAN
  BY DEF Addc
<1>2. (s \o <<FALSE>>)[3] = s[3]
  BY FourthIs
<1>. QED  BY <1>1, <1>2

\* An arithmetic operation is the sum it stands for.
LEMMA AluSum ==
  ASSUME NEW alu \in Arithmetic, NEW a \in Word, NEW b \in Word, NEW sc, NEW c
  PROVE  LET u == Sum(alu, a, b, c)
             s == Sum(alu, Signed(a, Width), Signed(b, Width), c)
             t == Alu(alu, a, b, sc, c)
         IN  /\ t[1] = Wrap(u) /\ t[1] \in Word
             /\ t[2] <=> IF alu \in Additions THEN u >= Full ELSE u >= 0
             /\ t[3] <=> s \notin (-Half)..(Half - 1)
             /\ ~t[4]
<1> DEFINE t == Alu(alu, a, b, sc, c)
           p == Signed(a, Width)
           q == Signed(b, Width)
<1>1. a \in Int /\ b \in Int /\ p \in Int /\ q \in Int
  BY WordsAreNat, SignedIs, HalfFull
<1>3. Flag(TRUE, 0) = 1 /\ Flag(FALSE, 0) = 0 /\ Flag(~TRUE, 0) = 0
  BY FlagIs
<1> DEFINE Exact == /\ t[1] = Wrap(Sum(alu, a, b, c)) /\ t[1] \in Word
                    /\ t[2] <=> IF alu \in Additions THEN Sum(alu, a, b, c) >= Full ELSE Sum(alu, a, b, c) >= 0
                    /\ t[3] <=> Sum(alu, p, q, c) \notin (-Half)..(Half - 1)
                    /\ ~t[4]
<1> SUFFICES Exact
  OBVIOUS
<1> HIDE DEF p, q
<1>4. CASE alu \in {"add", "cmn"}
  <2> DEFINE o == Addc(a, b, FALSE)
             u == a + b + Flag(FALSE, 0)
             s == p + q + Flag(FALSE, 0)
  <2>1. t = o \o <<FALSE>> /\ alu \in Additions
    BY <1>4 DEF Alu, Additions
  <2>2. Sum(alu, a, b, c) = u /\ Sum(alu, p, q, c) = s
    <3>1. Sum(alu, a, b, c) = a + b /\ Sum(alu, p, q, c) = p + q
      BY <1>4 DEF Sum
    <3> DEFINE f == Flag(FALSE, 0)
    <3>0. f = 0 /\ u = a + b + f /\ s = p + q + f
      BY <1>3
    <3> HIDE DEF f, u, s
    <3>2. u = a + b /\ s = p + q
      BY <1>1, <3>0
    <3>. QED  BY <3>1, <3>2
  <2>3. o[1] = Wrap(u) /\ o[1] \in Word /\ (o[2] <=> u >= Full) /\ (o[3] <=> s \notin (-Half)..(Half - 1))
    BY Added DEF p, q
  <2>4. t[1] = o[1] /\ t[2] = o[2] /\ t[3] = o[3] /\ ~t[4]
    <3>1. /\ (o \o <<FALSE>>)[1] = o[1] /\ (o \o <<FALSE>>)[2] = o[2]
          /\ (o \o <<FALSE>>)[3] = o[3] /\ ~(o \o <<FALSE>>)[4]
      BY FourthIs
    <3> HIDE DEF o, t
    <3>. QED  BY <2>1, <3>1
  <2> HIDE DEF o, u, s, t
  <2>. QED  BY <2>1, <2>2, <2>3, <2>4
<1>5. CASE alu = "adc"
  <2> DEFINE o == Addc(a, b, c)
             u == a + b + Flag(c, 0)
             s == p + q + Flag(c, 0)
  <2>1. t = o \o <<FALSE>> /\ alu \in Additions
    BY <1>5 DEF Alu, Additions
  <2>2. Sum(alu, a, b, c) = u /\ Sum(alu, p, q, c) = s
    BY <1>1, <1>5 DEF Sum
  <2>3. o[1] = Wrap(u) /\ o[1] \in Word /\ (o[2] <=> u >= Full) /\ (o[3] <=> s \notin (-Half)..(Half - 1))
    BY Added DEF p, q
  <2>4. t[1] = o[1] /\ t[2] = o[2] /\ t[3] = o[3] /\ ~t[4]
    <3>1. /\ (o \o <<FALSE>>)[1] = o[1] /\ (o \o <<FALSE>>)[2] = o[2]
          /\ (o \o <<FALSE>>)[3] = o[3] /\ ~(o \o <<FALSE>>)[4]
      BY FourthIs
    <3> HIDE DEF o, t
    <3>. QED  BY <2>1, <3>1
  <2> HIDE DEF o, u, s, t
  <2>. QED  BY <2>1, <2>2, <2>3, <2>4
<1>6. CASE alu \in {"sub", "cmp"}
  <2> DEFINE o == Addc(a, Not(b, Width), TRUE)
             u == a - b - Flag(~TRUE, 0)
             s == p - q - Flag(~TRUE, 0)
  <2>1. t = o \o <<FALSE>> /\ alu \notin Additions
    BY <1>6 DEF Alu, Additions
  <2>2. Sum(alu, a, b, c) = u /\ Sum(alu, p, q, c) = s
    <3>1. Sum(alu, a, b, c) = a - b /\ Sum(alu, p, q, c) = p - q
      BY <1>6 DEF Sum
    <3>2. u = a - b /\ s = p - q
      BY <1>1, <1>3
    <3>. QED  BY <3>1, <3>2
  <2>3. o[1] = Wrap(u) /\ o[1] \in Word /\ (o[2] <=> u >= 0) /\ (o[3] <=> s \notin (-Half)..(Half - 1))
    BY Subtracted DEF p, q
  <2>4. t[1] = o[1] /\ t[2] = o[2] /\ t[3] = o[3] /\ ~t[4]
    <3>1. /\ (o \o <<FALSE>>)[1] = o[1] /\ (o \o <<FALSE>>)[2] = o[2]
          /\ (o \o <<FALSE>>)[3] = o[3] /\ ~(o \o <<FALSE>>)[4]
      BY FourthIs
    <3> HIDE DEF o, t
    <3>. QED  BY <2>1, <3>1
  <2> HIDE DEF o, u, s, t
  <2>. QED  BY <2>1, <2>2, <2>3, <2>4
<1>7. CASE alu = "sbc"
  <2> DEFINE o == Addc(a, Not(b, Width), c)
             u == a - b - Flag(~c, 0)
             s == p - q - Flag(~c, 0)
  <2>1. t = o \o <<FALSE>> /\ alu \notin Additions
    BY <1>7 DEF Alu, Additions
  <2>2. Sum(alu, a, b, c) = u /\ Sum(alu, p, q, c) = s
    BY <1>1, <1>7 DEF Sum
  <2>3. o[1] = Wrap(u) /\ o[1] \in Word /\ (o[2] <=> u >= 0) /\ (o[3] <=> s \notin (-Half)..(Half - 1))
    BY Subtracted DEF p, q
  <2>4. t[1] = o[1] /\ t[2] = o[2] /\ t[3] = o[3] /\ ~t[4]
    <3>1. /\ (o \o <<FALSE>>)[1] = o[1] /\ (o \o <<FALSE>>)[2] = o[2]
          /\ (o \o <<FALSE>>)[3] = o[3] /\ ~(o \o <<FALSE>>)[4]
      BY FourthIs
    <3> HIDE DEF o, t
    <3>. QED  BY <2>1, <3>1
  <2> HIDE DEF o, u, s, t
  <2>. QED  BY <2>1, <2>2, <2>3, <2>4
<1>8. CASE alu = "rsb"
  <2> DEFINE o == Addc(b, Not(a, Width), TRUE)
             u == b - a - Flag(~TRUE, 0)
             s == q - p - Flag(~TRUE, 0)
  <2>1. t = o \o <<FALSE>> /\ alu \notin Additions
    BY <1>8 DEF Alu, Additions
  <2>2. Sum(alu, a, b, c) = u /\ Sum(alu, p, q, c) = s
    <3>1. Sum(alu, a, b, c) = b - a /\ Sum(alu, p, q, c) = q - p
      BY <1>8 DEF Sum
    <3>2. u = b - a /\ s = q - p
      BY <1>1, <1>3
    <3>. QED  BY <3>1, <3>2
  <2>3. o[1] = Wrap(u) /\ o[1] \in Word /\ (o[2] <=> u >= 0) /\ (o[3] <=> s \notin (-Half)..(Half - 1))
    BY Subtracted DEF p, q
  <2>4. t[1] = o[1] /\ t[2] = o[2] /\ t[3] = o[3] /\ ~t[4]
    <3>1. /\ (o \o <<FALSE>>)[1] = o[1] /\ (o \o <<FALSE>>)[2] = o[2]
          /\ (o \o <<FALSE>>)[3] = o[3] /\ ~(o \o <<FALSE>>)[4]
      BY FourthIs
    <3> HIDE DEF o, t
    <3>. QED  BY <2>1, <3>1
  <2> HIDE DEF o, u, s, t
  <2>. QED  BY <2>1, <2>2, <2>3, <2>4
<1>9. CASE alu = "rsc"
  <2> DEFINE o == Addc(b, Not(a, Width), c)
             u == b - a - Flag(~c, 0)
             s == q - p - Flag(~c, 0)
  <2>1. t = o \o <<FALSE>> /\ alu \notin Additions
    BY <1>9 DEF Alu, Additions
  <2>2. Sum(alu, a, b, c) = u /\ Sum(alu, p, q, c) = s
    BY <1>1, <1>9 DEF Sum
  <2>3. o[1] = Wrap(u) /\ o[1] \in Word /\ (o[2] <=> u >= 0) /\ (o[3] <=> s \notin (-Half)..(Half - 1))
    BY Subtracted DEF p, q
  <2>4. t[1] = o[1] /\ t[2] = o[2] /\ t[3] = o[3] /\ ~t[4]
    <3>1. /\ (o \o <<FALSE>>)[1] = o[1] /\ (o \o <<FALSE>>)[2] = o[2]
          /\ (o \o <<FALSE>>)[3] = o[3] /\ ~(o \o <<FALSE>>)[4]
      BY FourthIs
    <3> HIDE DEF o, t
    <3>. QED  BY <2>1, <3>1
  <2> HIDE DEF o, u, s, t
  <2>. QED  BY <2>1, <2>2, <2>3, <2>4
<1>10. alu \in {"add", "cmn"} \/ alu = "adc" \/ alu \in {"sub", "cmp"} \/ alu = "sbc" \/ alu = "rsb" \/ alu = "rsc"
  BY DEF Arithmetic, Additions
<1>. QED  BY <1>4, <1>5, <1>6, <1>7, <1>8, <1>9, <1>10, Zenon

-----------------------------------------------------------------------------
(* Bits *)

LEMMA NotBits ==
  ASSUME NEW v \in Word, NEW j \in 0..(Width - 1)
  PROVE  Bit(Not(v, Width), j) <=> ~Bit(v, j)
<1> DEFINE p == 2^j
           d == 2^(Width - (j + 1))
           b == (v \div p) % 2
           h == v \div (2 * p)
           r == v % p
<1>1. /\ j \in 0..Width /\ j \in 0..(2 * Width) /\ Width - (j + 1) \in 0..(2 * Width) /\ j \in Nat /\ Width - (j + 1) \in Nat
      /\ j + (Width - (j + 1)) = Width - 1 /\ Width - 1 <= 2 * Width
  BY WidthType
<1>2. p \in Nat /\ p > 0 /\ d \in Nat /\ d > 0 /\ p * d = Half
  BY <1>1, Powers, PowerOfSum, WidthType DEF Half
<1>3. v \in Nat
  BY WordsAreNat
<1>4. /\ b \in 0..1 /\ h \in Nat /\ r \in 0..(p - 1) /\ v \div p \in Nat /\ v \div p = 2 * h + b
  BY <1>2, <1>3, NextBit
<1>5. v = p * (v \div p) + r
  BY <1>2, <1>3, Divided
<1>6. (Bit(v, j) <=> b = 1) /\ (Bit(Not(v, Width), j) <=> (Not(v, Width) \div p) % 2 = 1)
  BY DEF Bit
<1>7. Not(v, Width) = 2 * Half - 1 - v
  BY NotIs, HalfFull
<1> HIDE DEF p, d, b, h, r
<1>8. v = p * (2 * h + b) + r
  BY <1>4, <1>5
<1>9. Not(v, Width) = p * (2 * (d - 1 - h) + (1 - b)) + (p - 1 - r)
  <2>1. p * (2 * (d - 1 - h) + (1 - b)) = 2 * (p * d) - p - p * (2 * h + b)
    BY <1>2, <1>4
  <2>. QED  BY <1>2, <1>3, <1>4, <1>7, <1>8, <2>1, HalfFull
<1>10. Not(v, Width) \div p = 2 * (d - 1 - h) + (1 - b)
  <2>1. p - 1 - r \in 0..(p - 1) /\ 2 * (d - 1 - h) + (1 - b) \in Int
    BY <1>2, <1>4
  <2> DEFINE s == p - 1 - r
             q == 2 * (d - 1 - h) + (1 - b)
  <2> HIDE DEF s, q
  <2>2. s \in 0..(p - 1) /\ q \in Int => (p * q + s) \div p = q
    BY <1>2, DividedOnce
  <2>. QED  BY <1>9, <2>1, <2>2 DEF s, q
<1>11. (2 * (d - 1 - h) + (1 - b)) % 2 = 1 - b
  <2>1. d - 1 - h \in Int /\ 1 - b \in 0..1
    BY <1>2, <1>4
  <2>. QED  BY <2>1, DividedOnce
<1>. QED  BY <1>4, <1>6, <1>10, <1>11

\* A word without a bit set is 0.
LEMMA NoBits ==
  ASSUME NEW v \in Word
  PROVE  v = 0 <=> Ones(v) = {}
<1>1. v \in Nat
  BY WordsAreNat
<1>2. ASSUME Ones(v) = {} PROVE v = 0
  <2> DEFINE S == {k \in 0..Width : v % 2^k = 0}
  <2>1. 0 \in S
    <3>1. 2^0 = 1 /\ v % 1 = 0 /\ 0 \in 0..Width
      BY <1>1, WidthType
    <3>. QED  BY <3>1
  <2>2. ASSUME NEW k \in 0..(Width - 1), k \in S PROVE k + 1 \in S
    <3> DEFINE p == 2^k
    <3>1. p \in Nat /\ p > 0 /\ 2^(k + 1) = 2 * p /\ k + 1 \in 0..Width
      BY Powers, PowersAssumption, WidthType
    <3>2. ~((v \div p) % 2 = 1) /\ v % p = 0
      BY <1>2, <2>2 DEF Ones, Bit
    <3> HIDE DEF p
    <3>3. v % (2 * p) = p * ((v \div p) % 2) + (v % p) /\ (v \div p) % 2 \in 0..1
      BY <1>1, <3>1, NextBit
    <3>4. v % (2 * p) = 0
      <4>1. (v \div p) % 2 = 0
        BY <3>2, <3>3
      <4>. QED  BY <3>1, <3>2, <3>3, <4>1
    <3>. QED  BY <3>1, <3>4
  <2>3. Width \in S
    <3> HIDE DEF S
    <3>1. Width \in 0..Width /\ Width \in Nat
      BY WidthType
    <3>. QED  BY <2>1, <2>2, <3>1, LoadFold!Induct
  <2>4. v % Full = 0
    BY <2>3 DEF Full
  <2>5. v % Full = v
    <3>1. v \in 0..(Full - 1)
      BY HalfFull
    <3>. QED  BY <3>1, HalfFull
  <2>. QED  BY <2>4, <2>5
<1>3. ASSUME v = 0 PROVE Ones(v) = {}
  <2>1. \A k \in 0..(Width - 1) : ~Bit(0, k)
    BY BitOfZero, WidthType
  <2>. QED  BY <1>3, <2>1 DEF Ones
<1>. QED  BY <1>2, <1>3

\* A logical operation is one on sets of bits.
LEMMA AluLogic ==
  ASSUME NEW alu \in ArmAlus \ Arithmetic, NEW a \in Word, NEW b \in Word, NEW sc, NEW c
  PROVE  LET t == Alu(alu, a, b, sc, c)
         IN  /\ t[1] \in Word /\ Ones(t[1]) = BitsOf(alu, a, b)
             /\ t[2] = sc /\ t[4]
<1> DEFINE t == Alu(alu, a, b, sc, c)
           n == Not(b, Width)
<1>1. n \in Word /\ Ones(n) = 0..(Width - 1) \ Ones(b)
  BY NotIs, NotBits DEF Ones
<1> HIDE DEF n
<1>2. CASE alu \in {"and", "tst"}
  <2>1. t = <<And(a, b, Width), sc, FALSE, TRUE>> /\ BitsOf(alu, a, b) = Ones(a) \cap Ones(b)
    BY <1>2 DEF Alu, BitsOf
  <2>2. And(a, b, Width) \in Word /\ Ones(And(a, b, Width)) = Ones(a) \cap Ones(b)
    BY BitsOfWords DEF Ones
  <2>. QED  BY <2>1, <2>2
<1>3. CASE alu \in {"eor", "teq"}
  <2>1. t = <<Xor(a, b, Width), sc, FALSE, TRUE>> /\ BitsOf(alu, a, b) = (Ones(a) \cup Ones(b)) \ (Ones(a) \cap Ones(b))
    BY <1>3 DEF Alu, BitsOf
  <2>2. Xor(a, b, Width) \in Word /\ \A j \in 0..(Width - 1) : Bit(Xor(a, b, Width), j) <=> (Bit(a, j) # Bit(b, j))
    BY BitsOfWords
  <2>3. \A j : Bit(a, j) \in BOOLEAN /\ Bit(b, j) \in BOOLEAN
    BY DEF Bit
  <2>4. Ones(Xor(a, b, Width)) = (Ones(a) \cup Ones(b)) \ (Ones(a) \cap Ones(b))
    BY <2>2, <2>3 DEF Ones
  <2>. QED  BY <2>1, <2>2, <2>4
<1>4. CASE alu = "orr"
  <2>1. t = <<Or(a, b, Width), sc, FALSE, TRUE>> /\ BitsOf(alu, a, b) = Ones(a) \cup Ones(b)
    BY <1>4 DEF Alu, BitsOf
  <2>2. Or(a, b, Width) \in Word /\ Ones(Or(a, b, Width)) = Ones(a) \cup Ones(b)
    BY BitsOfWords DEF Ones
  <2>. QED  BY <2>1, <2>2
<1>5. CASE alu = "mov"
  BY <1>5 DEF Alu, BitsOf
<1>6. CASE alu = "bic"
  <2>1. t = <<And(a, n, Width), sc, FALSE, TRUE>> /\ BitsOf(alu, a, b) = Ones(a) \ Ones(b)
    BY <1>6 DEF Alu, BitsOf, n
  <2>2. And(a, n, Width) \in Word /\ Ones(And(a, n, Width)) = Ones(a) \cap Ones(n)
    BY BitsOfWords DEF Ones
  <2>3. Ones(a) \cap Ones(n) = Ones(a) \ Ones(b)
    BY <1>1 DEF Ones
  <2>. QED  BY <2>1, <2>2, <2>3
<1>7. CASE alu = "mvn"
  <2>1. t = <<n, sc, FALSE, TRUE>> /\ BitsOf(alu, a, b) = 0..(Width - 1) \ Ones(b)
    BY <1>7 DEF Alu, BitsOf, n
  <2>. QED  BY <1>1, <2>1
<1>8. alu \in {"and", "tst"} \/ alu \in {"eor", "teq"} \/ alu = "orr" \/ alu = "mov" \/ alu = "bic" \/ alu = "mvn"
  BY DEF ArmAlus, Tests, Arithmetic, Additions
<1>. QED  BY <1>2, <1>3, <1>4, <1>5, <1>6, <1>7, <1>8, Zenon

LEMMA AluWord ==
  ASSUME NEW alu \in ArmAlus, NEW a \in Word, NEW b \in Word, NEW sc, NEW c
  PROVE  Alu(alu, a, b, sc, c)[1] \in Word
<1>1. CASE alu \in Arithmetic
  BY <1>1, AluSum
<1>2. CASE alu \notin Arithmetic
  BY <1>2, AluLogic
<1>. QED  BY <1>1, <1>2

-----------------------------------------------------------------------------
(* Comparisons *)

LEMMA DifferenceIs ==
  ASSUME NEW a \in Word, NEW b \in Word
  PROVE  LET u == a - b
             s == Signed(a, Width) - Signed(b, Width)
         IN  /\ Wrap(u) = 0 <=> a = b
             /\ u >= 0 <=> a >= b
             /\ (Top(Wrap(u)) <=> s \notin (-Half)..(Half - 1)) <=> s >= 0
             /\ s = 0 <=> a = b
<1> DEFINE u == a - b
           r == Wrap(u)
           p == Signed(a, Width)
           q == Signed(b, Width)
<1>1. a \in 0..(Full - 1) /\ b \in 0..(Full - 1) /\ Half \in Nat /\ Half > 0 /\ Full = 2 * Half
  BY HalfFull
<1>2. u \in (-Full)..(Full - 1) /\ u \in Int
  BY <1>1
<1>3. r \in Word /\ r \in Int /\ r = IF u >= 0 THEN u ELSE u + Full
  <2> HIDE DEF u
  <2>1. r \in Word /\ (u \in 0..(Full - 1) => r = u) /\ (u \in (-Full)..(-1) => r = u + Full)
    BY <1>2, WrapNear, WrapWord
  <2> HIDE DEF r
  <2>. QED  BY <1>1, <1>2, <2>1, WordsAreNat
<1> HIDE DEF r
<1>4. Top(r) <=> r >= Half
  BY <1>3, TopIs
<1>5. p = (IF a >= Half THEN a - Full ELSE a) /\ q = (IF b >= Half THEN b - Full ELSE b)
  BY SignedIs
<1> HIDE DEF p, q
<1>6. r = 0 <=> a = b
  BY <1>1, <1>3
<1>7. p - q = 0 <=> a = b
  BY <1>1, <1>5
<1>8. (r >= Half <=> p - q \notin (-Half)..(Half - 1)) <=> p - q >= 0
  <2>1. CASE a >= Half /\ b >= Half
    BY <1>1, <1>3, <1>5, <2>1
  <2>2. CASE a < Half /\ b < Half
    BY <1>1, <1>3, <1>5, <2>2
  <2>3. CASE a >= Half /\ b < Half
    BY <1>1, <1>3, <1>5, <2>3
  <2>4. CASE a < Half /\ b >= Half
    BY <1>1, <1>3, <1>5, <2>4
  <2>. QED  BY <1>1, <2>1, <2>2, <2>3, <2>4
<1>9. u >= 0 <=> a >= b
  BY <1>1
<1>10. (Top(r) <=> p - q \notin (-Half)..(Half - 1)) <=> p - q >= 0
  BY <1>4, <1>8, Zenon
<1>. QED  BY <1>6, <1>7, <1>9, <1>10 DEF p, q, r

LEMMA Compared ==
  ASSUME NEW a \in Word, NEW b \in Word, NEW p,
         p.n = Top(Wrap(a - b)), p.z = (Wrap(a - b) = 0), p.v \in BOOLEAN, p.c <=> a - b >= 0,
         p.v <=> Signed(a, Width) - Signed(b, Width) \notin (-Half)..(Half - 1)
  PROVE  ComparisonDecides(a, b, p)
<1> DEFINE x == Signed(a, Width)
           y == Signed(b, Width)
<1>1. /\ p.z <=> a = b
      /\ p.c <=> a >= b
      /\ (p.n <=> p.v) <=> x - y >= 0
      /\ p.n \in BOOLEAN /\ x - y = 0 <=> a = b
  BY DifferenceIs DEF Top, Bit
<1>2. a \in Int /\ b \in Int /\ x \in Int /\ y \in Int
  BY WordsAreNat, SignedIs, HalfFull
<1>3. (p.n = p.v) <=> (p.n <=> p.v)
  <2>1. (p.n = TRUE \/ p.n = FALSE) /\ (p.v = TRUE \/ p.v = FALSE)
    <3>1. p.n \in BOOLEAN
      BY DEF Top, Bit
    <3>2. p.v \in BOOLEAN
      OBVIOUS
    <3>. QED  BY <3>1, <3>2, Zenon
  <2>. QED  BY <2>1
<1> HIDE DEF x, y
<1>4. /\ Eval("Eq", p) <=> p.z
      /\ Eval("Cs", p) <=> p.c
      /\ Eval("Hi", p) <=> (p.c /\ ~p.z)
      /\ Eval("Ls", p) <=> (~p.c \/ p.z)
      /\ Eval("Ge", p) <=> (p.n = p.v)
      /\ Eval("Lt", p) <=> (p.n # p.v)
      /\ Eval("Gt", p) <=> (~p.z /\ p.n = p.v)
      /\ Eval("Le", p) <=> (p.z \/ p.n # p.v)
  BY DEF Eval
<1>. QED  BY <1>1, <1>2, <1>3, <1>4 DEF ComparisonDecides, x, y

-----------------------------------------------------------------------------
(* What an instruction leaves *)

\* What the operand is taken from.
LEMMA SameOperand ==
  ASSUME NEW x, NEW y, y.r = x.r, y.cpsr = x.cpsr
  PROVE  /\ \A k : Late(y, k) = Late(x, k)
         /\ \A src : Operand2(y, src) = Operand2(x, src) /\ ShifterOperand(y, src) = ShifterOperand(x, src)
<1>1. \A k : Late(y, k) = Late(x, k)
  BY DEF Late
<1>. QED  BY <1>1 DEF Operand2, ShifterOperand

\* The flags of a result.
LEMMA FlagsSet ==
  ASSUME NEW x, Proper(x), NEW r, NEW c, NEW v, NEW logical
  PROVE  LET y == SetFlags(x, r, c, v, logical) IN
         /\ y.cpsr.n = Top(r) /\ y.cpsr.z = (r = 0) /\ y.cpsr.c = c
         /\ y.cpsr.v = IF logical THEN x.cpsr.v ELSE v
         /\ y.r = x.r
<1> DEFINE p == x.cpsr
           q == [p EXCEPT !.n = Top(r), !.z = (r = 0)]
           s == [q EXCEPT !.c = c]
           t == [s EXCEPT !.v = v]
<1>1. DOMAIN x = {"cpsr", "r8_12", "r13_14", "spsr", "mem", "ticks", "flush", "pipeline", "r"} /\ DOMAIN p = PsrFields
  BY DEF Proper, IsMachine, IsPsr
<1>2. SetNz(x, r) = [x EXCEPT !.cpsr = q]
  BY <1>1 DEF SetNz
<1>3. SetNzc(x, r, c) = [x EXCEPT !.cpsr = s]
  BY <1>1, <1>2 DEF SetNzc
<1>4. SetNzcv(x, r, c, v) = [x EXCEPT !.cpsr = t]
  BY <1>1, <1>3 DEF SetNzcv
<1>5. s.n = Top(r) /\ s.z = (r = 0) /\ s.c = c /\ s.v = p.v
  BY <1>1 DEF PsrFields
<1>6. t.n = Top(r) /\ t.z = (r = 0) /\ t.c = c /\ t.v = v
  BY <1>1 DEF PsrFields
<1> HIDE DEF s, t
<1>7. CASE logical
  BY <1>1, <1>3, <1>5, <1>7 DEF SetFlags
<1>8. CASE ~logical
  BY <1>1, <1>4, <1>6, <1>8 DEF SetFlags
<1>. QED  BY <1>7, <1>8

\* A data-processing instruction that sets the flags and leaves R15 alone.
LEMMA ProcessedIs ==
  ASSUME NEW x, Proper(x), NEW i, DecodedArm(i), i.op = "dp", i.s, i.rd # PC
  PROVE  LET a == IF i.src.by = "register" THEN Late(x, i.rn) ELSE x.r[i.rn]
             o == Operand2(x, i.src)
             t == Alu(i.alu, a, o[1], o[2], x.cpsr.c)
             y == DataProcessing(x, i)
         IN  /\ y.cpsr.n = Top(t[1]) /\ y.cpsr.z = (t[1] = 0) /\ y.cpsr.c = t[2]
             /\ y.cpsr.v = IF t[4] THEN x.cpsr.v ELSE t[3]
             /\ i.alu \notin Tests => y.r[i.rd] = t[1]
             /\ a \in Word /\ i.alu \in ArmAlus /\ i.src \in Constant \cup ByAmount \cup ByRegister
             /\ i.rd \in Register
<1> DEFINE a == IF i.src.by = "register" THEN Late(x, i.rn) ELSE x.r[i.rn]
           o == Operand2(x, i.src)
           t == Alu(i.alu, a, o[1], o[2], x.cpsr.c)
           z == Ticks(x, IF i.src.by = "register" THEN 1 ELSE 0)
           f == SetFlags(z, t[1], t[2], t[3], t[4])
<1>1. /\ i.alu \in ArmAlus /\ i.src \in Constant \cup ByAmount \cup ByRegister
      /\ i.rd \in Register /\ i.rn \in Register
  BY DEF DecodedArm
<1>2. a \in Word
  BY <1>1, ProperReads
<1>3. Proper(z) /\ z.r = x.r /\ z.cpsr = x.cpsr
  <2>1. DOMAIN x = {"cpsr", "r8_12", "r13_14", "spsr", "mem", "ticks", "flush", "pipeline", "r"}
    BY DEF Proper, IsMachine
  <2>2. z.cpsr = x.cpsr
    BY <2>1 DEF Ticks
  <2>. QED  BY <2>2, ProperTicks
<1>4. DataProcessing(x, i) = IF i.alu \in Tests THEN f ELSE SetReg(f, i.rd, t[1])
  <2>1. CASE i.alu \in Tests
    BY <2>1 DEF DataProcessing
  <2>2. CASE i.alu \notin Tests
    BY <2>2 DEF DataProcessing
  <2>. QED  BY <2>1, <2>2
<1> HIDE DEF a, o, t, z
<1>5. /\ f.cpsr.n = Top(t[1]) /\ f.cpsr.z = (t[1] = 0) /\ f.cpsr.c = t[2]
      /\ f.cpsr.v = IF t[4] THEN z.cpsr.v ELSE t[3]
  BY <1>3, FlagsSet
<1>6. Proper(f)
  BY <1>3, ProperFlags
<1> HIDE DEF f
<1>7. SetReg(f, i.rd, t[1]).cpsr = f.cpsr /\ SetReg(f, i.rd, t[1]).r[i.rd] = t[1]
  <2>1. DOMAIN f = {"cpsr", "r8_12", "r13_14", "spsr", "mem", "ticks", "flush", "pipeline", "r"} /\ DOMAIN f.r = 0..15
    BY <1>6 DEF Proper, IsMachine
  <2>. QED  BY <1>1, <2>1 DEF SetReg, Register
<1>8. CASE i.alu \in Tests
  BY <1>1, <1>2, <1>3, <1>4, <1>5, <1>8 DEF a, o, t
<1>9. CASE i.alu \notin Tests
  BY <1>1, <1>2, <1>3, <1>4, <1>5, <1>7, <1>9 DEF a, o, t
<1>. QED  BY <1>8, <1>9

\* What comes after the execution moves the pipeline on and R15, nothing else.
LEMMA AdvancedLeaves ==
  ASSUME NEW x, NEW y, IsMachine(y), NEW k \in Register, k # PC
  PROVE  Advanced(x, y).cpsr = y.cpsr /\ Advanced(x, y).r[k] = y.r[k]
<1>1. DOMAIN y = {"cpsr", "r8_12", "r13_14", "spsr", "mem", "ticks", "flush", "pipeline", "r"} /\ DOMAIN y.r = 0..15 /\ k \in 0..15
  BY DEF IsMachine, Register
<1>2. Refill(y).cpsr = y.cpsr /\ Refill(y).r[k] = y.r[k]
  BY <1>1 DEF Refill, PC
<1>3. CASE y.flush
  BY <1>2, <1>3 DEF Advanced
<1>4. CASE ~y.flush
  BY <1>1, <1>4 DEF Advanced, PC
<1>. QED  BY <1>3, <1>4

\* The exact integers, of an instruction by itself.
Exactly(x, i, p, r) ==
  LET a  == IF i.src.by = "register" THEN Late(x, i.rn) ELSE x.r[i.rn]
      op == ShifterOperand(x, i.src)
  IN  /\ i.alu \in Arithmetic => SumIsExact(i.alu, a, op[1], x.cpsr.c, p, r)
      /\ i.alu \notin Arithmetic => LogicIsExact(i.alu, a, op[1], op[2], p, r, x.cpsr.v)
      /\ i.alu = "cmp" => ComparisonDecides(a, op[1], p)

LEMMA ExactlyProcessed ==
  ASSUME NEW x, Proper(x), NEW i, DecodedArm(i), i.op = "dp", i.s, i.rd # PC, NEW p, NEW r,
         p = DataProcessing(x, i).cpsr, r = DataProcessing(x, i).r[i.rd]
  PROVE  Exactly(x, i, p, r)
<1> DEFINE a == IF i.src.by = "register" THEN Late(x, i.rn) ELSE x.r[i.rn]
           b == ShifterOperand(x, i.src)[1]
           sc == ShifterOperand(x, i.src)[2]
           o == Operand2(x, i.src)
           c == x.cpsr.c
           t == Alu(i.alu, a, o[1], o[2], c)
<1>1. /\ p.n = Top(t[1]) /\ p.z = (t[1] = 0) /\ p.c = t[2]
      /\ p.v = IF t[4] THEN x.cpsr.v ELSE t[3]
      /\ i.alu \notin Tests => r = t[1]
      /\ a \in Word /\ i.alu \in ArmAlus /\ i.src \in Constant \cup ByAmount \cup ByRegister
  BY ProcessedIs
<1>2. o[1] \in Word /\ b = o[1] /\ (sc <=> o[2])
  BY <1>1, OperandIs DEF Alike
<1> HIDE DEF a, b, sc, o, c
<1>3. CASE i.alu \in Arithmetic
  <2> DEFINE u == Sum(i.alu, a, b, c)
             s == Sum(i.alu, Signed(a, Width), Signed(b, Width), c)
  <2>1. /\ t[1] = Wrap(u) /\ (t[2] <=> IF i.alu \in Additions THEN u >= Full ELSE u >= 0)
        /\ (t[3] <=> s \notin (-Half)..(Half - 1)) /\ ~t[4]
    BY <1>1, <1>2, <1>3, AluSum
  <2> HIDE DEF u, s, t
  <2>2. SumIsExact(i.alu, a, b, c, p, r)
    BY <1>1, <2>1 DEF SumIsExact, u, s, Full, Half
  <2>3. i.alu = "cmp" => ComparisonDecides(a, b, p)
    <3> SUFFICES ASSUME i.alu = "cmp" PROVE ComparisonDecides(a, b, p)
      OBVIOUS
    <3>1. u = a - b /\ s = Signed(a, Width) - Signed(b, Width) /\ "cmp" \notin Additions
      BY DEF Sum, u, s, Additions
    <3>2. t[3] \in BOOLEAN
      <4>1. t = Addc(a, Not(o[1], Width), TRUE) \o <<FALSE>>
        BY DEF Alu, t
      <4>. QED  BY <4>1, AddcBoolean
    <3>3. p.v \in BOOLEAN /\ p.n = Top(Wrap(a - b)) /\ p.z = (Wrap(a - b) = 0) /\ (p.c <=> a - b >= 0)
          /\ (p.v <=> Signed(a, Width) - Signed(b, Width) \notin (-Half)..(Half - 1))
      BY <1>1, <2>1, <3>1, <3>2
    <3>. QED  BY <1>1, <1>2, <3>3, Compared
  <2>. QED  BY <1>3, <2>2, <2>3 DEF Exactly, a, b, c
<1>4. CASE i.alu \notin Arithmetic
  <2>1. t[1] \in Word /\ Ones(t[1]) = BitsOf(i.alu, a, b) /\ t[2] = o[2] /\ t[4]
    BY <1>1, <1>2, <1>4, AluLogic
  <2>2. t[1] = 0 <=> Ones(t[1]) = {}
    BY <2>1, NoBits
  <2>3. Top(t[1]) <=> Width - 1 \in Ones(t[1])
    BY WidthType DEF Top, Ones
  <2> HIDE DEF t
  <2>4. LogicIsExact(i.alu, a, b, sc, p, r, x.cpsr.v)
    BY <1>1, <1>2, <2>1, <2>2, <2>3 DEF LogicIsExact
  <2>5. i.alu # "cmp"
    BY <1>4 DEF Arithmetic
  <2>. QED  BY <1>4, <2>4, <2>5 DEF Exactly, a, b, sc
<1>. QED  BY <1>3, <1>4

-----------------------------------------------------------------------------
(* Every instruction leaves words *)

LEMMA SmallWords == 0..4095 \subseteq Word /\ Word \subseteq Int
<1> DEFINE d == 2^(Width - 12)
<1>1. Width - 12 \in Nat /\ 12 + (Width - 12) = Width /\ 12 + (Width - 12) <= 2 * Width /\ Width - 12 \in 0..(2 * Width + 1)
  BY WidthType
<1>2. 2^(12 + (Width - 12)) = 2^12 * 2^(Width - 12)
  BY <1>1, PowerOfSum
<1>3. Full = 2^12 * d
  BY <1>1, <1>2 DEF Full
<1>4. d \in Nat /\ d > 0
  BY <1>1, Powers
<1> HIDE DEF d
<1>5. Full >= 4096
  BY <1>3, <1>4
<1>. QED  BY <1>5, HalfFull

LEMMA WordsAreInt == \A v \in Word : v \in Int
  BY SmallWords
LEMMA RegisterSet == ASSUME NEW x, Proper(x), NEW k, NEW v \in Word PROVE Proper(SetReg(x, k, v))
  BY ProperRegister

LEMMA StatusWord == ASSUME NEW p, IsPsr(p) PROVE WordOfPsr(p) \in Word
<1> DEFINE q == 2^(Width - 4)
<1>1. /\ Width - 4 \in 0..(2 * Width) /\ Width - 3 \in 0..(2 * Width) /\ Width - 2 \in 0..(2 * Width)
      /\ Width - 1 \in 0..(2 * Width)
      /\ (Width - 4) + 1 = Width - 3 /\ (Width - 3) + 1 = Width - 2 /\ (Width - 2) + 1 = Width - 1
  BY WidthType
<1>2. 2^(Width - 3) = 2 * q /\ 2^(Width - 2) = 2 * 2^(Width - 3) /\ 2^(Width - 1) = 2 * 2^(Width - 2)
  <2>1. \A n \in 0..(2 * Width) : \A k : k = n + 1 => 2^k = 2 * 2^n
    BY PowersAssumption
  <2>. QED  BY <1>1, <2>1
<1>3. q \in Nat /\ q >= 256
  <2> DEFINE d == 2^(Width - 12)
  <2>1. Width - 12 \in Nat /\ 8 + (Width - 12) = Width - 4 /\ 8 + (Width - 12) <= 2 * Width /\ Width - 12 \in 0..(2 * Width + 1)
    BY WidthType
  <2>2. 2^(8 + (Width - 12)) = 2^8 * 2^(Width - 12)
    BY <2>1, PowerOfSum
  <2>3. q = 2^8 * d /\ d \in Nat /\ d > 0
    BY <2>1, <2>2, Powers
  <2> HIDE DEF d, q
  <2>. QED  BY <2>3
<1>4. ModeBits[p.mode] \in 0..15
  BY DEF IsPsr, Mode, ModeBits
<1> DEFINE f1 == 2^(Width - 1)
           f2 == 2^(Width - 2)
           f3 == 2^(Width - 3)
           s == ModeBits[p.mode]
<1>5. WordOfPsr(p) = (IF p.n THEN f1 ELSE 0) + (IF p.z THEN f2 ELSE 0) + (IF p.c THEN f3 ELSE 0)
                     + (IF p.v THEN q ELSE 0) + (IF p.i THEN 2^5 ELSE 0) + (IF p.t THEN 2^4 ELSE 0) + s
  BY DEF WordOfPsr, Flag
<1>6. f3 = 2 * q /\ f2 = 4 * q /\ f1 = 8 * q /\ f1 = Half
  <2>1. f1 = Half
    BY DEF Half
  <2> HIDE DEF q, f1, f2, f3
  <2>2. f3 = 2 * q /\ f2 = 2 * f3 /\ f1 = 2 * f2
    BY <1>2 DEF q, f1, f2, f3
  <2>. QED  BY <1>3, <2>1, <2>2
<1>7. s \in 0..15
  BY <1>4
<1> HIDE DEF q, f1, f2, f3, s
<1>8. WordOfPsr(p) \in 0..(16 * q - 1)
  BY <1>3, <1>5, <1>6, <1>7
<1>. QED  BY <1>3, <1>6, <1>8, HalfFull

LEMMA HighWord == ASSUME NEW v \in Int PROVE Wrapped(v, 2 * Width) \div 2^Width \in Word
<1> DEFINE d == 2^(2 * Width)
           w == v % d
           q == w \div Full
           r == w % Full
<1>1. d = Full * Full /\ Full \in Nat /\ Full > 0
  <2>1. Width + Width <= 2 * Width /\ Width \in Nat /\ 2 * Width = Width + Width
    BY WidthType
  <2>2. 2^(Width + Width) = 2^Width * 2^Width
    BY <2>1, PowerOfSum
  <2>. QED  BY <2>1, <2>2, HalfFull DEF Full
<1> HIDE DEF d
<1>2. d \in Nat /\ d > 0
  BY <1>1
<1>3. w \in 0..(d - 1)
  BY <1>2, Divided
<1> HIDE DEF w
<1>4. w \in Nat /\ w < Full * Full
  BY <1>1, <1>2, <1>3
<1>5. w = Full * q + r /\ q \in Int /\ q >= 0 /\ r \in 0..(Full - 1)
  BY <1>1, <1>4, Divided
<1> HIDE DEF q, r
<1>6. q < Full
  <2> SUFFICES ASSUME q >= Full PROVE FALSE
    BY <1>1, <1>5
  <2>1. Full * q >= Full * Full
    BY <1>1, <1>5
  <2>. QED  BY <1>1, <1>4, <1>5, <2>1
<1>7. q \in Word
  BY <1>5, <1>6, <1>1, HalfFull
<1>8. q = Wrapped(v, 2 * Width) \div 2^Width
  BY DEF q, w, d, Full, Wrapped
<1>. QED  BY <1>7, <1>8

\* What is read of a machine, and words made of it.
LEMMA ProperParts ==
  ASSUME NEW x, Proper(x)
  PROVE  /\ IsMachine(x) /\ \A k \in Register : x.r[k] \in Word /\ x.r[k] \in Int /\ Late(x, k) \in Word /\ Late(x, k) \in Int
         /\ x.r[PC] \in Int /\ x.r[SP] \in Int /\ x.r[LR] \in Int /\ x.r[LR] \in Word /\ x.r[SP] \in Word
<1>1. IsMachine(x) /\ PC \in Register /\ SP \in Register /\ LR \in Register
  BY DEF Proper, PC, SP, LR, Register
<1>2. ASSUME NEW k \in Register PROVE x.r[k] \in Word /\ x.r[k] \in Int /\ Late(x, k) \in Word /\ Late(x, k) \in Int
  <2>1. x.r[k] \in Word /\ Late(x, k) \in Word
    BY ProperReads
  <2>. QED  BY <2>1, WordsAreInt, Zenon
<1>. QED  BY <1>1, <1>2
LEMMA WrapType == \A v \in Int : Wrap(v) \in Word /\ Wrap(v) \in Int
<1>1. \A v \in Int : Wrap(v) \in Word
  BY WrapWord
<1>. QED  BY <1>1, WordsAreInt, Zenon
LEMMA CutWord ==
  ASSUME NEW v \in Word
  PROVE  /\ v - (v % 2) \in Word /\ v - (v % 4) \in Word /\ v - (v % 2) \in Int /\ v - (v % 4) \in Int
<1>1. v \in Nat /\ \A u \in 0..v : u \in Word /\ u \in Int
  BY HalfFull
<1>2. v - (v % 2) \in 0..v /\ v - (v % 4) \in 0..v
  <2> HIDE DEF Word
  <2>. QED  BY <1>1
<1>. QED  BY <1>1, <1>2

LEMMA ProperRestore ==
  ASSUME NEW x, Proper(x), NEW r, NEW c, NEW v, NEW logical
  PROVE  Proper(RestoreOrSetFlags(x, r, c, v, logical))
<1>1. IsPsr(CurrentSpsr(x))
  BY SavedIsPsr DEF Proper
<1>. QED  BY <1>1, ProperSwitch, ProperFlags DEF RestoreOrSetFlags

LEMMA ProperSave ==
  ASSUME NEW x, Proper(x), NEW p, IsPsr(p)
  PROVE  Proper(SetCurrentSpsr(x, p))
<1>1. IsMachine(SetCurrentSpsr(x, p))
  BY SaveSeenAlike DEF Proper, SeenAlike
<1>. QED  BY <1>1 DEF Proper, HoldsWords, IsMachine, SetCurrentSpsr

LEMMA ProperData ==
  ASSUME NEW x, Proper(x), NEW i, DecodedArm(i), i.op = "dp"
  PROVE  Proper(DataProcessing(x, i))
<1> DEFINE late == i.src.by = "register"
           a == IF late THEN Late(x, i.rn) ELSE x.r[i.rn]
           o == Operand2(x, i.src)
           t == Alu(i.alu, a, o[1], o[2], x.cpsr.c)
           y == Ticks(x, IF late THEN 1 ELSE 0)
<1>1. i.alu \in ArmAlus /\ i.src \in Constant \cup ByAmount \cup ByRegister /\ i.rn \in Register
  BY DEF DecodedArm
<1>2. a \in Word /\ o[1] \in Word
  BY <1>1, ProperReads, OperandIs
<1>3. DataProcessing(x, i) =
        IF i.alu \in Tests
        THEN IF i.rd = PC THEN RestoreOrSetFlags(y, t[1], t[2], t[3], t[4])
                          ELSE SetFlags(y, t[1], t[2], t[3], t[4])
        ELSE IF i.rd = PC
        THEN SetReg(IF i.s THEN RestoreOrSetFlags(y, t[1], t[2], t[3], t[4]) ELSE y, PC, t[1])
        ELSE SetReg(IF i.s THEN SetFlags(y, t[1], t[2], t[3], t[4]) ELSE y, i.rd, t[1])
  BY DEF DataProcessing
<1> HIDE DEF a, o
<1>4. t[1] \in Word
  BY <1>1, <1>2, AluWord
<1> HIDE DEF t
<1>5. Proper(y)
  BY ProperTicks
<1> HIDE DEF y
<1>6. Proper(RestoreOrSetFlags(y, t[1], t[2], t[3], t[4])) /\ Proper(SetFlags(y, t[1], t[2], t[3], t[4]))
  BY <1>5, ProperRestore, ProperFlags
<1> DEFINE z == IF i.s THEN IF i.rd = PC THEN RestoreOrSetFlags(y, t[1], t[2], t[3], t[4])
                            ELSE SetFlags(y, t[1], t[2], t[3], t[4]) ELSE y
<1>7. Proper(z)
  BY <1>5, <1>6
<1>8. Proper(SetReg(z, i.rd, t[1]))
  <2> HIDE DEF z
  <2>. QED  BY <1>4, <1>7, ProperRegister
<1>9. \/ DataProcessing(x, i) = RestoreOrSetFlags(y, t[1], t[2], t[3], t[4])
      \/ DataProcessing(x, i) = SetFlags(y, t[1], t[2], t[3], t[4])
      \/ DataProcessing(x, i) = SetReg(z, i.rd, t[1])
  <2>1. CASE i.alu \in Tests
    BY <1>3, <2>1
  <2>2. CASE i.alu \notin Tests
    BY <1>3, <2>2
  <2>. QED  BY <2>1, <2>2
<1>. QED  BY <1>6, <1>8, <1>9

LEMMA ProperMultiplies ==
  ASSUME NEW x, Proper(x), NEW i, DecodedArm(i)
  PROVE  /\ i.op = "mul" => Proper(Multiply(x, i))
         /\ i.op = "mull" => Proper(MultiplyLong(x, i))
<1>1. ASSUME i.op = "mul" PROVE Proper(Multiply(x, i))
  <2>1. i.rm \in Register /\ i.rs \in Register /\ i.rn \in Register
    BY <1>1 DEF DecodedArm
  <2> DEFINE mul == Late(x, i.rm) * Late(x, i.rs)
             r   == Wrap(mul + IF i.acc THEN Late(x, i.rn) ELSE 0)
             y   == SetReg(Ticks(x, MultiplyM(Late(x, i.rs)) + IF i.acc THEN 1 ELSE 0), i.rd, r)
  <2>2. Multiply(x, i) = IF i.s THEN SetNz(y, r) ELSE y
    BY DEF Multiply
  <2>3. mul \in Int
    BY <2>1, ProperParts
  <2> HIDE DEF mul
  <2>4. r \in Word
    BY <2>1, <2>3, ProperParts, WrapType
  <2> HIDE DEF r
  <2>5. Proper(y)
    BY <2>4, ProperTicks, ProperRegister
  <2> HIDE DEF y
  <2>. QED  BY <2>2, <2>5, ProperFlags
<1>2. ASSUME i.op = "mull" PROVE Proper(MultiplyLong(x, i))
  <2>1. i.rm \in Register /\ i.rs \in Register /\ i.rdhi \in Register /\ i.rdlo \in Register
    BY <1>2 DEF DecodedArm
  <2> DEFINE Val(k) == IF i.signed THEN Signed(Late(x, k), Width) ELSE Late(x, k)
             acc == IF i.acc THEN Late(x, i.rdhi) * 2^Width + Late(x, i.rdlo) ELSE 0
             sum == Val(i.rm) * Val(i.rs) + acc
             res == Wrapped(sum, 2 * Width)
             high == res \div 2^Width
             y   == SetReg(SetReg(Ticks(x, MultiplyM(Late(x, i.rs)) + IF i.acc THEN 2 ELSE 1),
                                  i.rdlo, Wrap(res)), i.rdhi, high)
  <2>2. MultiplyLong(x, i) = IF i.s THEN [y EXCEPT !.cpsr.n = Top(high), !.cpsr.z = (res = 0)] ELSE y
    BY DEF MultiplyLong
  <2>3. sum \in Int
    <3>1. ASSUME NEW k \in Register PROVE Val(k) \in Int
      <4>1. Late(x, k) \in Word /\ Late(x, k) \in Int
        BY ProperParts
      <4>2. Signed(Late(x, k), Width) \in Int
        BY <4>1, SignedIs, HalfFull
      <4>. QED  BY <4>1, <4>2
    <3>2. Val(i.rm) \in Int /\ Val(i.rs) \in Int
      BY <2>1, <3>1
    <3>3. acc \in Int
      <4>1. Late(x, i.rdhi) \in Int /\ Late(x, i.rdlo) \in Int /\ 2^Width \in Int
        BY <2>1, ProperParts, HalfFull DEF Full
      <4>2. \A a, b, c \in Int : a * b + c \in Int
        OBVIOUS
      <4>3. Late(x, i.rdhi) * 2^Width + Late(x, i.rdlo) \in Int
        BY <4>1, <4>2, Zenon
      <4>. QED  BY <4>3
    <3> HIDE DEF Val, acc
    <3>. QED  BY <3>2, <3>3
  <2> HIDE DEF sum
  <2>4. high \in Word /\ Wrap(res) \in Word
    <3>1. res \in Int
      <4>1. 2^(2 * Width) \in Nat /\ 2^(2 * Width) > 0
        BY Powers, WidthType
      <4>. QED  BY <2>3, <4>1 DEF Wrapped
    <3>. QED  BY <2>3, <3>1, HighWord, WrapType
  <2> HIDE DEF high, res
  <2>5. Proper(y)
    BY <2>4, ProperTicks, ProperRegister
  <2> HIDE DEF y
  <2> DEFINE p == [[y.cpsr EXCEPT !.n = Top(high)] EXCEPT !.z = (res = 0)]
  <2>6. IsPsr(p)
    BY <2>5 DEF Proper, IsMachine, IsPsr, PsrFields
  <2>7. [y EXCEPT !.cpsr.n = Top(high), !.cpsr.z = (res = 0)] = [y EXCEPT !.cpsr = p]
    <3>1. [y EXCEPT !.cpsr.n = Top(high)].cpsr = [y.cpsr EXCEPT !.n = Top(high)]
      BY <2>5 DEF Proper, IsMachine
    <3>2. \A u, w : [[y EXCEPT !.cpsr = u] EXCEPT !.cpsr = w] = [y EXCEPT !.cpsr = w]
      OBVIOUS
    <3>. QED  BY <3>1, <3>2
  <2> HIDE DEF p
  <2>8. Proper([y EXCEPT !.cpsr = p])
    BY <2>5, <2>6 DEF Proper, IsMachine, HoldsWords
  <2>. QED  BY <2>2, <2>5, <2>7, <2>8
<1>. QED  BY <1>1, <1>2

LEMMA ProperTransfers ==
  ASSUME NEW x, Proper(x), NEW i, DecodedArm(i)
  PROVE  /\ i.op = "ldr" => Proper(SingleDataTransfer(x, i))
         /\ i.op = "ldrh" => Proper(HalfwordSignedTransfer(x, i))
         /\ i.op = "swp" => Proper(Swap(x, i))
         /\ i.op = "mrs" => Proper(Mrs(x, i))
<1>1. ASSUME i.op = "ldr" PROVE Proper(SingleDataTransfer(x, i))
  <2> DEFINE offset == IF i.src.by = "imm" THEN i.src.imm ELSE Operand2(x, i.src)[1]
             there == Displaced(x, i, offset)
             addr  == IF i.pre THEN there ELSE x.r[i.rn]
             Base(y) == IF ~i.pre \/ i.wb THEN WriteBack(y, i.rn, there) ELSE y
             read == IF i.byte THEN ReadByte(x, addr) ELSE LoadWord(x, addr)
             given == IF i.byte THEN WriteByte(x, addr, Late(x, i.rd)) ELSE WriteWord(x, addr, Late(x, i.rd))
  <2>1. i.rn \in Register /\ i.rd \in Register /\ i.src \in Constant \cup ByAmount
    BY <1>1 DEF DecodedArm
  <2>2. offset \in Int
    <3>1. Operand2(x, i.src)[1] \in Word
      BY <2>1, OperandIs
    <3>2. i.src.by = "imm" => i.src.imm \in Word
      BY <2>1 DEF Constant, ByAmount
    <3>. QED  BY <3>1, <3>2, WordsAreInt
  <2> HIDE DEF offset
  <2>3. there \in Word /\ addr \in Word /\ addr \in Int
    <3>1. there \in Word /\ there \in Int
      BY <2>1, <2>2, ProperParts, WrapType DEF Displaced
    <3> HIDE DEF there
    <3>. QED  BY <2>1, <3>1, ProperParts
  <2>4. SingleDataTransfer(x, i) = IF i.load THEN SetReg(Base(Ticks(x, 1)), i.rd, read) ELSE Base(given)
    BY DEF SingleDataTransfer, offset
  <2> HIDE DEF there, addr
  <2>5. \A y : Proper(y) => Proper(Base(y))
    BY <2>3, ProperBack
  <2> HIDE DEF Base
  <2>6. read \in Word /\ Proper(given)
    BY <2>1, <2>3, ProperLoads, ProperMemory, ProperParts
  <2>7. Proper(Base(Ticks(x, 1))) /\ Proper(Base(given))
    BY <2>5, <2>6, ProperTicks
  <2> HIDE DEF read, given
  <2>. QED  BY <2>4, <2>6, <2>7, ProperRegister
<1>2. ASSUME i.op = "ldrh" PROVE Proper(HalfwordSignedTransfer(x, i))
  <2> DEFINE offset == IF i.src.by = "imm" THEN i.src.imm ELSE x.r[i.src.rm]
             there == Displaced(x, i, offset)
             addr  == IF i.pre THEN there ELSE x.r[i.rn]
             Base(y) == IF ~i.pre \/ i.wb THEN WriteBack(y, i.rn, there) ELSE y
             read == CASE i.sh = "half" -> LoadHalf(x, addr)
                       [] i.sh = "sbyte" -> LoadSByte(x, addr)
                       [] i.sh = "shalf" -> LoadSHalf(x, addr)
             given == WriteHalf(x, addr, Late(x, i.rd))
  <2>1. i.rn \in Register /\ i.rd \in Register /\ i.src \in Constant \cup Unshifted /\ i.sh \in HalfKinds
    BY <1>2 DEF DecodedArm
  <2>2. offset \in Int
    <3>1. i.src.by = "imm" => i.src.imm \in Word
      BY <2>1 DEF Constant, Unshifted
    <3>2. i.src.by # "imm" => i.src.rm \in Register
      BY <2>1 DEF Constant, Unshifted
    <3>. QED  BY <3>1, <3>2, ProperParts, WordsAreInt
  <2> HIDE DEF offset
  <2>3. there \in Word /\ addr \in Word /\ addr \in Int
    <3>1. there \in Word /\ there \in Int
      BY <2>1, <2>2, ProperParts, WrapType DEF Displaced
    <3> HIDE DEF there
    <3>. QED  BY <2>1, <3>1, ProperParts
  <2>4. HalfwordSignedTransfer(x, i) = IF i.load THEN SetReg(Base(Ticks(x, 1)), i.rd, read) ELSE Base(given)
    BY DEF HalfwordSignedTransfer, offset
  <2> HIDE DEF there, addr
  <2>5. \A y : Proper(y) => Proper(Base(y))
    BY <2>3, ProperBack
  <2> HIDE DEF Base
  <2>6. read \in Word /\ Proper(given)
    <3>1. LoadHalf(x, addr) \in Word /\ LoadSByte(x, addr) \in Word /\ LoadSHalf(x, addr) \in Word
      BY <2>3, ProperLoads
    <3>2. Proper(given)
      BY <2>1, <2>3, ProperMemory, ProperParts
    <3> HIDE DEF given
    <3>3. read \in Word
      BY <2>1, <3>1 DEF HalfKinds
    <3>. QED  BY <3>2, <3>3
  <2>7. Proper(Base(Ticks(x, 1))) /\ Proper(Base(given))
    BY <2>5, <2>6, ProperTicks
  <2> HIDE DEF read, given
  <2>. QED  BY <2>4, <2>6, <2>7, ProperRegister
<1>3. ASSUME i.op = "swp" PROVE Proper(Swap(x, i))
  <2> DEFINE addr == Late(x, i.rn)
             src  == Late(x, i.rm)
             y    == Ticks(x, 1)
  <2>1. i.rn \in Register /\ i.rm \in Register
    BY <1>3 DEF DecodedArm
  <2>2. addr \in Int /\ src \in Word
    BY <2>1, ProperParts
  <2>3. Swap(x, i) = IF i.byte THEN SetReg(WriteByte(y, addr, src), i.rd, ReadByte(x, addr))
                     ELSE SetReg(WriteWord(y, addr, src), i.rd, LoadWord(x, addr))
    BY DEF Swap
  <2>4. Proper(y)
    BY ProperTicks
  <2> HIDE DEF addr, src, y
  <2>5. Proper(WriteByte(y, addr, src)) /\ Proper(WriteWord(y, addr, src))
    BY <2>2, <2>4, ProperMemory
  <2>6. ReadByte(x, addr) \in Word /\ LoadWord(x, addr) \in Word
    BY <2>2, ProperLoads
  <2>7. /\ Proper(SetReg(WriteByte(y, addr, src), i.rd, ReadByte(x, addr)))
        /\ Proper(SetReg(WriteWord(y, addr, src), i.rd, LoadWord(x, addr)))
    BY <2>5, <2>6, RegisterSet, Zenon
  <2>. QED  BY <2>3, <2>7
<1>4. ASSUME i.op = "mrs" PROVE Proper(Mrs(x, i))
  <2> DEFINE p == IF i.spsr /\ HasSpsr(x) THEN CurrentSpsr(x) ELSE x.cpsr
  <2>1. IsPsr(p)
    BY SavedIsPsr DEF Proper, IsMachine
  <2>2. Mrs(x, i) = [x EXCEPT !.r[i.rd] = WordOfPsr(p)]
    BY DEF Mrs
  <2> HIDE DEF p
  <2>3. WordOfPsr(p) \in Word
    BY <2>1, StatusWord
  <2> DEFINE w == WordOfPsr(p)
  <2> HIDE DEF w
  <2>4. Proper([x EXCEPT !.r[i.rd] = w])
    BY <2>3, ProperRegister DEF w
  <2>. QED  BY <2>2, <2>4 DEF w
<1>. QED  BY <1>1, <1>2, <1>3, <1>4

LEMMA ProperMsr == ASSUME NEW x, Proper(x), NEW i PROVE Proper(Msr(x, i))
<1>1. \/ Msr(x, i) = x
      \/ \E p : IsPsr(p) /\ (Msr(x, i) = WriteCpsr(x, p) \/ Msr(x, i) = SetCurrentSpsr(x, p))
  BY MsrIs DEF Proper
<1>. QED  BY <1>1, ProperSwitch, ProperSave

LEMMA ProperBranches ==
  ASSUME NEW x, Proper(x), NEW offset \in Int, NEW k \in Register
  PROVE  /\ Proper(SetReg(x, PC, Wrap(x.r[PC] + offset)))
         /\ Proper(SetReg(SetReg(x, LR, Wrap(x.r[PC] - 4)), PC, Wrap(x.r[PC] + offset)))
         /\ Proper(BranchExchange(x, k))
<1>1. Wrap(x.r[PC] + offset) \in Word /\ Wrap(x.r[PC] - 4) \in Word /\ x.r[k] - (x.r[k] % 2) \in Word
  <2>1. x.r[PC] \in Int /\ x.r[k] \in Word
    BY ProperParts
  <2>2. x.r[PC] + offset \in Int /\ x.r[PC] - 4 \in Int
    BY <2>1
  <2>. QED  BY <2>1, <2>2, WrapType, CutWord
<1>2. Proper(SetReg(x, LR, Wrap(x.r[PC] - 4))) /\ Proper([x EXCEPT !.cpsr.t = Bit(x.r[k], 0)])
  BY <1>1, ProperRegister, ProperBits
<1>. QED  BY <1>1, <1>2, ProperRegister DEF BranchExchange

LEMMA ProperEntered ==
  ASSUME NEW x, Proper(x), NEW mode \in Mode, NEW return \in Word, NEW vector \in Word
  PROVE  Proper(Entered(x, mode, return, vector))
<1> DEFINE p == [x.cpsr EXCEPT !.mode = mode, !.t = FALSE, !.i = TRUE]
           y == WriteCpsr(x, p)
           z == SetCurrentSpsr(y, x.cpsr)
<1>1. IsPsr(p) /\ IsPsr(x.cpsr)
  BY DEF Proper, IsMachine, IsPsr, PsrFields
<1>2. Entered(x, mode, return, vector) = SetReg(SetReg(z, LR, return), PC, vector)
  BY DEF Entered
<1> HIDE DEF p
<1>3. Proper(y)
  BY <1>1, ProperSwitch
<1> HIDE DEF y
<1>4. Proper(z)
  BY <1>1, <1>3, ProperSave
<1> HIDE DEF z
<1>. QED  BY <1>2, <1>4, RegisterSet, Zenon

LEMMA ShiftWord ==
  ASSUME NEW type \in Shifts, NEW v \in Word, NEW n \in Nat, NEW c, NEW imm \in BOOLEAN
  PROVE  Shift(type, v, n, c, imm)[1] \in Word
<1>1. \A k \in Nat : Shift(type, v, k, c, FALSE)[1] \in Word
  BY ShiftIsBitByBit
<1>2. CASE ~imm
  <2>1. imm = FALSE
    BY <1>2
  <2>. QED  BY <1>1, <2>1
<1>3. CASE imm /\ n > 0
  <2>1. imm = TRUE
    BY <1>3
  <2>. QED  BY <1>1, <1>3, <2>1, ConstantShift
<1>4. CASE imm /\ n = 0
  <2>1. imm = TRUE /\ n = 0
    BY <1>4
  <2>2. \A k \in Nat : Shift("lsr", v, k, c, FALSE)[1] \in Word /\ Shift("asr", v, k, c, FALSE)[1] \in Word
    BY ShiftIsBitByBit DEF Shifts
  <2>3. Shift("lsr", v, 0, c, TRUE)[1] \in Word /\ Shift("asr", v, 0, c, TRUE)[1] \in Word
    BY <2>2, ShiftByNone, WidthType
  <2>4. Shift("lsl", v, 0, c, TRUE)[1] \in Word
    <3>1. Lsl(v, 0, c)[1] \in Word
      BY LslOn
    <3>2. Shift("lsl", v, 0, c, TRUE) = Lsl(v, 0, c)
      BY DEF Shift
    <3>. QED  BY <3>1, <3>2
  <2>5. Shift("ror", v, 0, c, TRUE)[1] \in Word
    <3>1. OneBit("rrx", <<v, c>>)[1] = v \div 2 + Flag(c, Width - 1)
      BY DEF OneBit
    <3>. QED  BY <3>1, ShiftByNone, TopSet
  <2>. QED  BY <2>1, <2>3, <2>4, <2>5 DEF Shifts
<1>. QED  BY <1>2, <1>3, <1>4

LEMMA AmountIs == ASSUME NEW v \in Word PROVE v % AmountSpan \in Nat
  BY WidthType, WordsAreInt

LEMMA AddcWord ==
  ASSUME NEW a \in Word, NEW b \in Word, NEW c
  PROVE  Addc(a, b, c)[1] \in Word /\ Addc(a, Not(b, Width), c)[1] \in Word
  BY Added, Subtracted

LEMMA ProperThumbNumbers ==
  ASSUME NEW x, Proper(x), NEW i, DecodedThumb(i)
  PROVE  /\ i.op = "t1" => Proper(MoveShifted(x, i))
         /\ i.op = "t2" => Proper(AddSubtract(x, i))
         /\ i.op = "t3" => Proper(Immediate(x, i))
         /\ i.op = "t4" => Proper(ThumbAlu(x, i))
         /\ i.op = "t5" => Proper(HiRegister(x, i))
<1>1. ASSUME NEW y, Proper(y), NEW k, NEW w \in Word, NEW c, NEW v
      PROVE  /\ Proper(SetReg(y, k, w)) /\ Proper(SetNz(SetReg(y, k, w), w)) /\ Proper(SetNzc(SetReg(y, k, w), w, c))
             /\ Proper(SetNzcv(SetReg(y, k, w), w, c, v))
  <2>1. Proper(SetReg(y, k, w))
    BY <1>1, RegisterSet
  <2>. QED  BY <2>1, ProperFlags
<1>2. \A k \in Register : x.r[k] \in Word /\ x.r[k] \in Int
  BY ProperParts
<1>3. Low \subseteq Register /\ Low \subseteq Word
  <2>1. 0..7 \subseteq 0..4095
    OBVIOUS
  <2>. QED  BY <2>1, SmallWords DEF Low, Register
<1>4. ASSUME i.op = "t1" PROVE Proper(MoveShifted(x, i))
  <2> DEFINE res == Shift(i.shift, x.r[i.rs], i.n, x.cpsr.c, TRUE)
  <2>1. i.shift \in Shifts /\ i.rs \in Register /\ i.n \in Nat
    BY <1>3, <1>4, WidthType DEF DecodedThumb, Amount
  <2>2. res[1] \in Word
    BY <1>2, <2>1, ShiftWord
  <2>3. MoveShifted(x, i) = SetNzc(SetReg(x, i.rd, res[1]), res[1], res[2])
    BY DEF MoveShifted
  <2> HIDE DEF res
  <2>. QED  BY <1>1, <2>2, <2>3
<1>5. ASSUME i.op = "t2" PROVE Proper(AddSubtract(x, i))
  <2> DEFINE b   == IF i.imm THEN i.operand ELSE x.r[i.operand]
             res == IF i.sub THEN Addc(x.r[i.rs], Not(b, Width), TRUE) ELSE Addc(x.r[i.rs], b, FALSE)
  <2>1. i.operand \in Low /\ i.rs \in Register
    BY <1>3, <1>5 DEF DecodedThumb
  <2>2. b \in Word /\ x.r[i.rs] \in Word
    BY <1>2, <1>3, <2>1
  <2>3. AddSubtract(x, i) = SetNzcv(SetReg(x, i.rd, res[1]), res[1], res[2], res[3])
    BY DEF AddSubtract
  <2> HIDE DEF b
  <2>4. res[1] \in Word
    BY <2>2, AddcWord
  <2> HIDE DEF res
  <2>. QED  BY <1>1, <2>3, <2>4
<1>6. ASSUME i.op = "t3" PROVE Proper(Immediate(x, i))
  <2> DEFINE res == IF i.alu = "add" THEN Addc(x.r[i.rd], i.imm, FALSE)
                    ELSE Addc(x.r[i.rd], Not(i.imm, Width), TRUE)
  <2>1. i.imm \in Word /\ i.rd \in Register /\ i.alu \in {"mov", "cmp", "add", "sub"}
    BY <1>3, <1>6 DEF DecodedThumb
  <2>2. res[1] \in Word
    BY <1>2, <2>1, AddcWord
  <2>3. Immediate(x, i) = CASE i.alu = "mov" -> SetNz(SetReg(x, i.rd, i.imm), i.imm)
                            [] i.alu = "cmp" -> SetNzcv(x, res[1], res[2], res[3])
                            [] OTHER -> SetNzcv(SetReg(x, i.rd, res[1]), res[1], res[2], res[3])
    BY DEF Immediate
  <2> HIDE DEF res
  <2>4. Proper(SetNzcv(x, res[1], res[2], res[3]))
    BY ProperFlags
  <2>5. Proper(SetNz(SetReg(x, i.rd, i.imm), i.imm)) /\ Proper(SetNzcv(SetReg(x, i.rd, res[1]), res[1], res[2], res[3]))
    BY <1>1, <2>1, <2>2
  <2>. QED  BY <2>1, <2>3, <2>4, <2>5
<1>7. ASSUME i.op = "t4" PROVE Proper(ThumbAlu(x, i))
  <2> DEFINE a == x.r[i.rd]
             b == x.r[i.rs]
             Logical(r)  == SetNz(SetReg(x, i.rd, r), r)
             Full2(y, res) == SetNzcv(y, res[1], res[2], res[3])
             Arith(res)  == Full2(SetReg(x, i.rd, res[1]), res)
             shifted == Shift(i.alu, a, b % AmountSpan, x.cpsr.c, FALSE)
  <2>1. i.alu \in ThumbAlus /\ a \in Word /\ b \in Word
    BY <1>2, <1>3, <1>7 DEF DecodedThumb
  <2>2. ThumbAlu(x, i) =
          CASE i.alu = "and" -> Logical(And(a, b, Width))
            [] i.alu = "eor" -> Logical(Xor(a, b, Width))
            [] i.alu \in Shifts -> Ticks(SetNzc(SetReg(x, i.rd, shifted[1]), shifted[1], shifted[2]), 1)
            [] i.alu = "adc" -> Arith(Addc(a, b, x.cpsr.c))
            [] i.alu = "sbc" -> Arith(Addc(a, Not(b, Width), x.cpsr.c))
            [] i.alu = "tst" -> SetNz(x, And(a, b, Width))
            [] i.alu = "neg" -> Arith(Addc(0, Not(b, Width), TRUE))
            [] i.alu = "cmp" -> Full2(x, Addc(a, Not(b, Width), TRUE))
            [] i.alu = "cmn" -> Full2(x, Addc(a, b, FALSE))
            [] i.alu = "orr" -> Logical(Or(a, b, Width))
            [] i.alu = "mul" -> Ticks(Logical(Wrap(a * b)), MultiplyM(a))
            [] i.alu = "bic" -> Logical(And(a, Not(b, Width), Width))
            [] i.alu = "mvn" -> Logical(Not(b, Width))
    BY DEF ThumbAlu
  <2> HIDE DEF a, b
  <2>3. /\ Addc(a, b, x.cpsr.c)[1] \in Word /\ Addc(a, Not(b, Width), x.cpsr.c)[1] \in Word
        /\ Addc(0, Not(b, Width), TRUE)[1] \in Word
    <3>1. 0 \in Word
      BY WordsAreNat
    <3>. QED  BY <2>1, <3>1, AddcWord
  <2>4. /\ And(a, b, Width) \in Word /\ Xor(a, b, Width) \in Word /\ Or(a, b, Width) \in Word
        /\ And(a, Not(b, Width), Width) \in Word /\ Not(b, Width) \in Word
    BY <2>1, BitsOfWords, NotIs
  <2>5. Wrap(a * b) \in Word
    <3>1. a \in Int /\ b \in Int
      BY <2>1, WordsAreInt
    <3>2. a * b \in Int
      BY <3>1
    <3>. QED  BY <3>2, WrapType
  <2>6. i.alu \in Shifts => shifted[1] \in Word
    BY <2>1, ShiftWord, AmountIs
  <2>7. \A r \in Word : Proper(Logical(r))
    BY <1>1
  <2>8. \A res : Proper(Full2(x, res)) /\ (res[1] \in Word => Proper(Arith(res)))
    BY <1>1, ProperFlags
  <2>9. \A r : Proper(SetNz(x, r))
    BY ProperFlags
  <2>10. i.alu \in Shifts => Proper(SetNzc(SetReg(x, i.rd, shifted[1]), shifted[1], shifted[2]))
    BY <1>1, <2>6
  <2> HIDE DEF Logical, Full2, Arith, shifted
  <2>11. \A y, n : Proper(y) => Proper(Ticks(y, n))
    BY ProperTicks
  <2>12. CASE i.alu \in Shifts
    <3>1. ThumbAlu(x, i) = Ticks(SetNzc(SetReg(x, i.rd, shifted[1]), shifted[1], shifted[2]), 1)
      BY <2>2, <2>12 DEF Shifts
    <3>. QED  BY <2>10, <2>11, <2>12, <3>1
  <2>13. CASE i.alu \in {"and", "eor", "orr", "bic", "mvn"}
    <3>1. \E r \in Word : ThumbAlu(x, i) = Logical(r)
      BY <2>2, <2>4, <2>13 DEF Shifts
    <3>. QED  BY <2>7, <3>1
  <2>14. CASE i.alu \in {"adc", "sbc", "neg"}
    <3>1. \E res : res[1] \in Word /\ ThumbAlu(x, i) = Arith(res)
      BY <2>2, <2>3, <2>14 DEF Shifts
    <3>. QED  BY <2>8, <3>1
  <2>15. CASE i.alu \in {"cmp", "cmn", "tst"}
    BY <2>2, <2>8, <2>9, <2>15 DEF Shifts
  <2>16. CASE i.alu = "mul"
    <3>1. ThumbAlu(x, i) = Ticks(Logical(Wrap(a * b)), MultiplyM(a))
      BY <2>2, <2>16 DEF Shifts
    <3>. QED  BY <2>5, <2>7, <2>11, <3>1
  <2>17. \/ i.alu \in Shifts \/ i.alu \in {"and", "eor", "orr", "bic", "mvn"} \/ i.alu \in {"adc", "sbc", "neg"}
         \/ i.alu \in {"cmp", "cmn", "tst"} \/ i.alu = "mul"
    BY <2>1 DEF ThumbAlus
  <2>. QED  BY <2>12, <2>13, <2>14, <2>15, <2>16, <2>17, Zenon
<1>8. ASSUME i.op = "t5" PROVE Proper(HiRegister(x, i))
  <2> DEFINE a == x.r[i.rd]
             b == x.r[i.rs]
             Into(v) == SetReg(x, i.rd, IF i.rd = PC THEN v - (v % 2) ELSE v)
             res == Addc(a, Not(b, Width), TRUE)
  <2>1. i.alu \in {"add", "cmp", "mov", "bx"} /\ i.rs \in Register /\ a \in Word /\ b \in Word /\ a \in Int /\ b \in Int
    BY <1>2, <1>8 DEF DecodedThumb
  <2>2. HiRegister(x, i) = CASE i.alu = "add" -> Into(Wrap(a + b))
                             [] i.alu = "cmp" -> SetNzcv(x, res[1], res[2], res[3])
                             [] i.alu = "mov" -> Into(b)
                             [] i.alu = "bx"  -> BranchExchange(x, i.rs)
    BY DEF HiRegister
  <2> HIDE DEF a, b, res
  <2>3. \A v \in Word : Proper(Into(v))
    BY CutWord, RegisterSet
  <2> HIDE DEF Into
  <2>4. Proper(SetNzcv(x, res[1], res[2], res[3])) /\ Proper(BranchExchange(x, i.rs))
    <3>1. 0 \in Int
      OBVIOUS
    <3>. QED  BY <2>1, <3>1, ProperFlags, ProperBranches
  <2>5. Wrap(a + b) \in Word
    BY <2>1, WrapType
  <2>6. Proper(Into(b)) /\ Proper(Into(Wrap(a + b)))
    BY <2>1, <2>3, <2>5
  <2>. QED  BY <2>1, <2>2, <2>4, <2>6
<1>. QED  BY <1>4, <1>5, <1>6, <1>7, <1>8

LEMMA ProperThumbTransfers ==
  ASSUME NEW x, Proper(x), NEW i, DecodedThumb(i)
  PROVE  /\ i.op = "t6" => Proper(PcRelativeLoad(x, i))
         /\ i.op = "t7" => Proper(LoadStoreReg(x, i))
         /\ i.op = "t8" => Proper(LoadStoreSignExtended(x, i))
         /\ i.op = "t9" => Proper(LoadStoreImm(x, i))
         /\ i.op = "t10" => Proper(LoadStoreHalfword(x, i))
         /\ i.op = "t11" => Proper(SpRelative(x, i))
         /\ i.op = "t12" => Proper(LoadAddress(x, i))
         /\ i.op = "t13" => Proper(AddToSp(x, i))
<1>1. \A k \in Low : k \in Register /\ x.r[k] \in Word /\ x.r[k] \in Int
  BY ProperParts DEF Low, Register
<1>2. x.r[PC] \in Word /\ x.r[PC] \in Int /\ x.r[SP] \in Int
  BY ProperParts DEF PC, Register
<1>3. WordAligned(x.r[PC]) \in Int
  BY <1>2, CutWord DEF WordAligned
<1>4. ASSUME NEW v \in Int, NEW o \in Int, NEW f \in {1, 2, 4}
      PROVE  /\ Wrap(v + f * o) \in Word /\ Wrap(v + f * o) \in Int
             /\ Wrap(v + o) \in Word /\ Wrap(v + o) \in Int /\ Wrap(v - f * o) \in Word
  <2>1. v + f * o \in Int /\ v + o \in Int /\ v - f * o \in Int
    BY <1>4
  <2>. QED  BY <2>1, WrapType
<1>5. Proper(Ticks(x, 1))
  BY ProperTicks
<1>6. ASSUME NEW addr \in Int, NEW rd \in Low, NEW load, NEW byte PROVE Proper(Transfer(x, addr, rd, load, byte))
  <2>1. ReadByte(x, addr) \in Word /\ LoadWord(x, addr) \in Word
    BY ProperLoads
  <2>2. Proper(WriteByte(x, addr, x.r[rd])) /\ Proper(WriteWord(x, addr, x.r[rd]))
    BY <1>1, ProperMemory
  <2>3. Proper(SetReg(Ticks(x, 1), rd, ReadByte(x, addr))) /\ Proper(SetReg(Ticks(x, 1), rd, LoadWord(x, addr)))
    BY <1>5, <2>1, RegisterSet
  <2>. QED  BY <2>2, <2>3 DEF Transfer
<1>7. ASSUME i.op = "t6" PROVE Proper(PcRelativeLoad(x, i))
  <2> DEFINE w == ReadWord(x, Wrap(WordAligned(x.r[PC]) + 4 * i.imm))
  <2>1. w \in Word
    BY ProperReads
  <2>2. PcRelativeLoad(x, i) = SetReg(Ticks(x, 1), i.rd, w)
    BY DEF PcRelativeLoad
  <2> HIDE DEF w
  <2>. QED  BY <1>5, <2>1, <2>2, RegisterSet
<1>8. ASSUME i.op = "t7" PROVE Proper(LoadStoreReg(x, i))
  <2>1. i.ro \in Low /\ i.rb \in Low /\ i.rd \in Low
    BY <1>8 DEF DecodedThumb
  <2>2. Wrap(x.r[i.rb] + x.r[i.ro]) \in Int
    BY <1>1, <1>4, <2>1
  <2>. QED  BY <1>6, <2>1, <2>2 DEF LoadStoreReg
<1>9. ASSUME i.op = "t8" PROVE Proper(LoadStoreSignExtended(x, i))
  <2> DEFINE addr == Wrap(x.r[i.rb] + x.r[i.ro])
             read == CASE i.sh = "half" -> LoadHalf(x, addr)
                       [] i.sh = "sbyte" -> LoadSByte(x, addr)
                       [] i.sh = "shalf" -> LoadSHalf(x, addr)
  <2>1. i.ro \in Low /\ i.rb \in Low /\ i.rd \in Low /\ (i.load => i.sh \in HalfKinds)
    BY <1>9 DEF DecodedThumb
  <2>2. addr \in Int
    BY <1>1, <1>4, <2>1
  <2>3. LoadStoreSignExtended(x, i) = IF ~i.load THEN WriteHalf(x, addr, x.r[i.rd]) ELSE SetReg(Ticks(x, 1), i.rd, read)
    BY DEF LoadStoreSignExtended
  <2> HIDE DEF addr
  <2>4. Proper(WriteHalf(x, addr, x.r[i.rd]))
    BY <1>1, <2>1, <2>2, ProperMemory
  <2>5. i.load => read \in Word
    <3>1. LoadHalf(x, addr) \in Word /\ LoadSByte(x, addr) \in Word /\ LoadSHalf(x, addr) \in Word
      BY <2>2, ProperLoads
    <3>. QED  BY <2>1, <3>1 DEF HalfKinds
  <2> HIDE DEF read
  <2>6. i.load => Proper(SetReg(Ticks(x, 1), i.rd, read))
    BY <1>5, <2>5, RegisterSet
  <2>. QED  BY <2>3, <2>4, <2>6
<1>10. ASSUME i.op = "t9" PROVE Proper(LoadStoreImm(x, i))
  <2>1. i.rb \in Low /\ i.rd \in Low /\ i.imm \in Word
    BY <1>10 DEF DecodedThumb
  <2>2. i.imm \in Int
    BY <2>1, WordsAreInt
  <2>3. Wrap(x.r[i.rb] + IF i.byte THEN i.imm ELSE 4 * i.imm) \in Int
    BY <1>1, <1>4, <2>1, <2>2
  <2>. QED  BY <1>6, <2>1, <2>3 DEF LoadStoreImm
<1>11. ASSUME i.op = "t10" PROVE Proper(LoadStoreHalfword(x, i))
  <2> DEFINE addr == Wrap(x.r[i.rb] + 2 * i.imm)
  <2>1. i.rb \in Low /\ i.rd \in Low /\ i.imm \in Word
    BY <1>11 DEF DecodedThumb
  <2>2. i.imm \in Int
    BY <2>1, WordsAreInt
  <2>3. addr \in Int
    BY <1>1, <1>4, <2>1, <2>2
  <2>4. LoadStoreHalfword(x, i) = IF i.load THEN SetReg(Ticks(x, 1), i.rd, LoadHalf(x, addr)) ELSE WriteHalf(x, addr, x.r[i.rd])
    BY DEF LoadStoreHalfword
  <2> HIDE DEF addr
  <2>5. Proper(WriteHalf(x, addr, x.r[i.rd])) /\ LoadHalf(x, addr) \in Word
    BY <1>1, <2>1, <2>3, ProperMemory, ProperLoads
  <2>6. Proper(SetReg(Ticks(x, 1), i.rd, LoadHalf(x, addr)))
    BY <1>5, <2>5, RegisterSet
  <2>. QED  BY <2>4, <2>5, <2>6
<1>12. ASSUME i.op = "t11" PROVE Proper(SpRelative(x, i))
  <2>1. i.rd \in Low /\ i.imm \in Word
    BY <1>12 DEF DecodedThumb
  <2>2. i.imm \in Int
    BY <2>1, WordsAreInt
  <2>3. Wrap(x.r[SP] + 4 * i.imm) \in Int
    BY <1>2, <1>4, <2>2
  <2>. QED  BY <1>6, <2>1, <2>3 DEF SpRelative
<1>13. ASSUME i.op = "t12" PROVE Proper(LoadAddress(x, i))
  <2> DEFINE b == IF i.sp THEN x.r[SP] ELSE WordAligned(x.r[PC])
  <2>1. i.imm \in Word
    BY <1>13 DEF DecodedThumb
  <2>2. i.imm \in Int /\ b \in Int
    BY <1>2, <1>3, <2>1, WordsAreInt
  <2>3. LoadAddress(x, i) = SetReg(x, i.rd, Wrap(b + 4 * i.imm))
    BY DEF LoadAddress
  <2> HIDE DEF b
  <2>4. Wrap(b + 4 * i.imm) \in Word
    BY <1>4, <2>2
  <2>. QED  BY <2>3, <2>4, RegisterSet
<1>14. ASSUME i.op = "t13" PROVE Proper(AddToSp(x, i))
  <2>1. i.imm \in Word
    BY <1>14 DEF DecodedThumb
  <2>2. i.imm \in Int
    BY <2>1, WordsAreInt
  <2> DEFINE w == Wrap(IF i.minus THEN x.r[SP] - 4 * i.imm ELSE x.r[SP] + 4 * i.imm)
  <2>3. w \in Word
    BY <1>2, <1>4, <2>2
  <2>4. AddToSp(x, i) = SetReg(x, SP, w)
    BY DEF AddToSp
  <2> HIDE DEF w
  <2>. QED  BY <2>3, <2>4, RegisterSet
<1>. QED  BY <1>7, <1>8, <1>9, <1>10, <1>11, <1>12, <1>13, <1>14

LEMMA ProperThumbBranches ==
  ASSUME NEW x, Proper(x), NEW i, DecodedThumb(i)
  PROVE  /\ i.op = "t16" => Proper(ConditionalBranch(x, i))
         /\ i.op = "t17" => Proper(ThumbSoftwareInterrupt(x))
         /\ i.op = "t18" => Proper(UnconditionalBranch(x, i))
         /\ i.op = "t19" => Proper(LongBranchLink(x, i))
<1>1. x.r[PC] \in Int /\ x.r[LR] \in Int
  BY ProperParts
<1>2. ASSUME NEW v \in Int, NEW o \in Int PROVE Wrap(v + o) \in Word /\ Wrap(v - o) \in Word
  <2>1. v + o \in Int /\ v - o \in Int
    OBVIOUS
  <2>. QED  BY <2>1, WrapType
<1>3. ASSUME i.op \in {"t16", "t18", "t19"} PROVE i.offset \in Int
  BY <1>3 DEF DecodedThumb
<1>4. ASSUME i.op = "t16" PROVE Proper(ConditionalBranch(x, i))
  BY <1>1, <1>2, <1>3, <1>4, RegisterSet DEF ConditionalBranch
<1>5. ASSUME i.op = "t18" PROVE Proper(UnconditionalBranch(x, i))
  BY <1>1, <1>2, <1>3, <1>5, RegisterSet DEF UnconditionalBranch
<1>6. Proper(ThumbSoftwareInterrupt(x))
  <2>1. Wrap(x.r[PC] - 2) \in Word /\ 8 \in Word
    BY <1>1, <1>2, SmallWords
  <2>. QED  BY <2>1, ProperEntered DEF ThumbSoftwareInterrupt, Mode
<1>7. ASSUME i.op = "t19" PROVE Proper(LongBranchLink(x, i))
  <2> DEFINE target == Wrap(x.r[LR] + i.offset)
             return == Wrap(x.r[PC] - 2)
             back == return - (return % 2) + 1
  <2>1. LongBranchLink(x, i) = IF i.prefix THEN SetReg(x, LR, Wrap(x.r[PC] + i.offset))
                               ELSE SetReg(SetReg(x, PC, target - (target % 2)), LR, back)
    BY DEF LongBranchLink
  <2>2. target \in Word /\ return \in Word /\ Wrap(x.r[PC] + i.offset) \in Word
    BY <1>1, <1>2, <1>3, <1>7
  <2> HIDE DEF target, return
  <2>3. back \in Word
    <3>1. Full = 2 * Half /\ Half \in Nat /\ return \in Nat /\ return < Full
      BY <2>2, HalfFull
    <3>2. back \in 0..(Full - 1)
      BY <3>1
    <3>. QED  BY <3>2, HalfFull
  <2>4. target - (target % 2) \in Word
    BY <2>2, CutWord
  <2> HIDE DEF back
  <2>5. Proper(SetReg(x, PC, target - (target % 2))) /\ Proper(SetReg(x, LR, Wrap(x.r[PC] + i.offset)))
    BY <2>2, <2>4, RegisterSet
  <2>6. Proper(SetReg(SetReg(x, PC, target - (target % 2)), LR, back))
    BY <2>3, <2>5, RegisterSet, Zenon
  <2>. QED  BY <2>1, <2>5, <2>6
<1>. QED  BY <1>4, <1>5, <1>6, <1>7

-----------------------------------------------------------------------------
\* The place of a register in a list, and the register of a place.
LEMMA BeforeIs ==
  ASSUME NEW list \in SUBSET (0..15), NEW k \in list
  PROVE  /\ IsFiniteSet(list) /\ Cardinality(list) \in Nat
         /\ Before(list, k) \in 0..(Cardinality(list) - 1)
         /\ \A j \in list : j < k => Before(list, j) < Before(list, k)
<1>1. IsFiniteSet(list)
  BY FS_Interval, FS_Subset, 0 \in Int, 15 \in Int
<1>2. Cardinality(list) \in Nat
  BY <1>1, FS_CardinalityType
<1> DEFINE Below(j) == {n \in list : n < j}
<1>3. \A j \in list : IsFiniteSet(Below(j)) /\ Cardinality(Below(j)) \in Nat
  <2>1. \A j \in list : Below(j) \in SUBSET list
    OBVIOUS
  <2> HIDE DEF Below
  <2>. QED  BY <1>1, <2>1, FS_Subset, FS_CardinalityType
<1>4. ASSUME NEW S \in SUBSET list, NEW j \in list, j \notin S, NEW T \in SUBSET S
      PROVE  Cardinality(S) < Cardinality(list) /\ Cardinality(T) <= Cardinality(S)
  <2>1. IsFiniteSet(S) /\ Cardinality(T) <= Cardinality(S)
    BY <1>1, FS_Subset
  <2>2. Cardinality(S) <= Cardinality(list) /\ (Cardinality(list) = Cardinality(S) => list = S)
    BY <1>1, FS_Subset
  <2>3. S # list
    BY <1>4
  <2>4. Cardinality(S) \in Nat
    BY <2>1, FS_CardinalityType
  <2>. QED  BY <1>2, <2>1, <2>2, <2>3, <2>4
<1>5. Cardinality(Below(k)) < Cardinality(list)
  <2>1. Below(k) \in SUBSET list /\ k \notin Below(k) /\ Below(k) \in SUBSET Below(k)
    OBVIOUS
  <2> HIDE DEF Below
  <2>. QED  BY <1>4, <2>1
<1>6. ASSUME NEW j \in list, j < k PROVE Cardinality(Below(j)) < Cardinality(Below(k))
  <2>1. Below(j) \in SUBSET Below(k) /\ j \in Below(k) /\ j \notin Below(j)
    <3>1. j \in Int /\ k \in Int /\ \A n \in list : n \in Int
      OBVIOUS
    <3>2. \A n \in list : n < j => n < k
      BY <1>6, <3>1
    <3>3. ~(j < j)
      BY <3>1
    <3>. QED  BY <1>6, <3>2, <3>3
  <2>2. IsFiniteSet(Below(k)) /\ Cardinality(Below(k)) \in Nat /\ Cardinality(Below(j)) \in Nat
    BY <1>3
  <2> HIDE DEF Below
  <2>3. Cardinality(Below(j)) <= Cardinality(Below(k)) /\ (Cardinality(Below(k)) = Cardinality(Below(j)) => Below(k) = Below(j))
    BY <2>1, <2>2, FS_Subset
  <2>. QED  BY <2>1, <2>2, <2>3
<1>7. \A j : Before(list, j) = Cardinality(Below(j))
  BY DEF Before
<1> HIDE DEF Below
<1>. QED  BY <1>1, <1>2, <1>3, <1>5, <1>6, <1>7

LEMMA OrderedIn ==
  ASSUME NEW list \in SUBSET (0..15), NEW n \in 1..Cardinality(list)
  PROVE  Ordered(list)[n] \in list /\ Before(list, Ordered(list)[n]) = n - 1
<1> DEFINE c == Cardinality(list)
           T == 0..(c - 1)
           f == [k \in list |-> Before(list, k)]
<1>1. IsFiniteSet(list) /\ c \in Nat
  <2>1. IsFiniteSet(list)
    BY FS_Interval, FS_Subset, 0 \in Int, 15 \in Int
  <2>. QED  BY <2>1, FS_CardinalityType
<1>2. f \in [list -> T]
  BY BeforeIs
<1>3. ASSUME NEW j \in list, NEW k \in list, f[j] = f[k] PROVE j = k
  <2>1. j \in Int /\ k \in Int
    OBVIOUS
  <2>2. Before(list, j) \in Int /\ Before(list, k) \in Int /\ Before(list, j) = Before(list, k)
    BY <1>1, <1>3, BeforeIs
  <2>3. (j < k => Before(list, j) < Before(list, k)) /\ (k < j => Before(list, k) < Before(list, j))
    BY BeforeIs
  <2>. QED  BY <2>1, <2>2, <2>3
<1>4. f \in Injection(list, T)
  <2> HIDE DEF f, T
  <2>. QED  BY <1>2, <1>3 DEF Injection, IsInjective
<1>5. IsFiniteSet(T) /\ Cardinality(T) = c
  <2>1. 0 \in Int /\ c - 1 \in Int /\ (IF 0 > c - 1 THEN 0 ELSE (c - 1) - 0 + 1) = c
    BY <1>1
  <2> HIDE DEF c
  <2>2. IsFiniteSet(0..(c - 1)) /\ Cardinality(0..(c - 1)) = IF 0 > c - 1 THEN 0 ELSE (c - 1) - 0 + 1
    BY <2>1, FS_Interval
  <2>. QED  BY <2>1, <2>2
<1>6. f \in Surjection(list, T)
  <2> HIDE DEF f, T
  <2>. QED  BY <1>4, <1>5, FS_Injection
<1>7. n - 1 \in T
  BY <1>1
<1>8. \E k \in list : Before(list, k) = n - 1
  BY <1>6, <1>7 DEF Surjection
<1>9. Ordered(list)[n] = CHOOSE k \in list : Before(list, k) = n - 1
  BY DEF Ordered
<1>. QED  BY <1>8, <1>9

-----------------------------------------------------------------------------
\* Blocks, a register at a time.
LEMMA SpanWords ==
  ASSUME NEW base \in Word, NEW n \in Nat, NEW pre, NEW up
  PROVE  LET s == BlockSpan(base, n, pre, up) IN s[1] \in Word /\ s[2] \in Word /\ s[1] \in Int /\ s[2] \in Int
<1>1. base \in Int
  BY WordsAreInt
<1>2. base - 4 * n \in Int /\ base + 4 * n \in Int /\ base + 4 \in Int
  BY <1>1
<1> DEFINE low == Wrap(base - 4 * n)
           high == Wrap(base + 4 * n)
           next == Wrap(base + 4)
<1>3. low \in Word /\ low \in Int /\ high \in Word /\ next \in Word
  BY <1>2, WrapType
<1>4. BlockSpan(base, n, pre, up) = IF up THEN <<IF pre THEN next ELSE base, high>>
                                    ELSE <<IF pre THEN low ELSE Wrap(low + 4), low>>
  BY DEF BlockSpan
<1> HIDE DEF low, high, next
<1>5. Wrap(low + 4) \in Word
  BY <1>3, WrapType
<1> DEFINE s == BlockSpan(base, n, pre, up)
<1>6. s[1] \in Word /\ s[2] \in Word
  BY <1>3, <1>4, <1>5
<1> HIDE DEF s
<1>. QED  BY <1>6, WordsAreInt DEF s

LEMMA UserWord == ASSUME NEW x, Proper(x), NEW k \in Register PROVE UserReg(x, k) \in Word
<1>1. CASE k \in 8..14
  BY <1>1, ProperReads
<1>2. CASE k \notin 8..14
  <2>1. ~Shadowed(x, k)
    BY <1>2 DEF Shadowed
  <2>. QED  BY <2>1, ProperReads DEF UserReg
<1>. QED  BY <1>1, <1>2

\* A machine and an instruction that moves a list of its registers.
Moves(e) == Proper(e.x) /\ e.i.list \in SUBSET (0..15)
ProperHolds(e, y) == Proper(y)
LoadProper == INSTANCE FoldProofs WITH Op <- LoadStep, Holds <- ProperHolds
StoreProper == INSTANCE FoldProofs WITH Op <- StoreStep, Holds <- ProperHolds
PopProper == INSTANCE FoldProofs WITH Op <- PopInto, Holds <- ProperHolds
PushProper == INSTANCE FoldProofs WITH Op <- PushFrom, Holds <- ProperHolds
TakeProper == INSTANCE FoldProofs WITH Op <- TakeStep, Holds <- ProperHolds
GiveProper == INSTANCE FoldProofs WITH Op <- GiveStep, Holds <- ProperHolds

LEMMA PlaceIs ==
  ASSUME NEW e, Moves(e), NEW n \in 1..Cardinality(e.i.list)
  PROVE  LET k == Ordered(e.i.list)[n] IN k \in Register /\ k \in e.i.list /\ Before(e.i.list, k) \in Int
<1>1. Ordered(e.i.list)[n] \in e.i.list
  BY OrderedIn DEF Moves
<1>2. \A k \in e.i.list : Before(e.i.list, k) \in Int
  <2>1. ASSUME NEW k \in e.i.list PROVE Before(e.i.list, k) \in Int
    <3>1. Before(e.i.list, k) \in 0..(Cardinality(e.i.list) - 1) /\ Cardinality(e.i.list) \in Nat
      BY BeforeIs DEF Moves
    <3>. QED  BY <3>1
  <2>. QED  BY <2>1
<1>. QED  BY <1>1, <1>2 DEF Moves, Register

LEMMA LoadKeepsWords ==
  ASSUME NEW e, Moves(e), e.i.rn \in Register
  PROVE  Proper(LoadBlock(e.x, e.i))
<1> DEFINE n == Cardinality(e.i.list)
           y == LoadProper!Folded(e, Ticks(e.x, 1), Ordered(e.i.list))
           span == SpanOf(e)
           Set(u, k, v) == IF UserSet(e) THEN SetUserReg(u, k, v) ELSE SetReg(u, k, v)
           z == IF ~e.i.wb \/ e.i.rn \in e.i.list THEN y
                ELSE IF e.i.rn = PC THEN SetReg(y, PC, span[2]) ELSE Set(y, e.i.rn, span[2])
<1>1. n \in Nat /\ DOMAIN Ordered(e.i.list) = 1..n
  BY OrderedIsSequence DEF Moves
<1>2. span[2] \in Word
  <2>1. e.x.r[e.i.rn] \in Word
    BY ProperParts DEF Moves
  <2>. QED  BY <1>1, <2>1, SpanWords DEF SpanOf
<1>3. \A u, v : \A k \in Register : Proper(u) /\ v \in Word => Proper(SetReg(u, k, v)) /\ Proper(SetUserReg(u, k, v))
  BY RegisterSet, ProperUser
<1>4. Proper(y)
  <2>1. ProperHolds(e, Ticks(e.x, 1))
    BY ProperTicks DEF ProperHolds, Moves
  <2>2. ASSUME NEW a, NEW j \in 1..n, ProperHolds(e, a) PROVE ProperHolds(e, LoadStep(e, a, Ordered(e.i.list)[j]))
    <3> DEFINE k == Ordered(e.i.list)[j]
               w == ReadWord(e.x, Wrap(SpanOf(e)[1] + 4 * Before(e.i.list, k)))
    <3>1. k \in Register /\ w \in Word
      BY PlaceIs, ProperReads DEF Moves
    <3>2. LoadStep(e, a, k) = IF UserSet(e) THEN SetUserReg(a, k, w) ELSE SetReg(a, k, w)
      BY DEF LoadStep
    <3> HIDE DEF k, w
    <3>3. Proper(LoadStep(e, a, k))
      BY <1>3, <2>2, <3>1, <3>2 DEF ProperHolds
    <3>. QED  BY <3>3 DEF ProperHolds, k
  <2> HIDE DEF n
  <2>3. ProperHolds(e, y)
    BY <1>1, <2>1, <2>2, LoadProper!FoldKeeps
  <2>. QED  BY <2>3 DEF ProperHolds
<1>5. LoadBlock(e.x, e.i) = IF e.i.user /\ PC \in e.i.list /\ HasSpsr(z) THEN WriteCpsr(z, CurrentSpsr(z)) ELSE z
  BY DEF LoadBlock, LoadStep, UserSet, SpanOf, LoadProper!Folded, FoldLeft,
         LoadProper!MapThenFoldSet, MapThenFoldSet, LoadProper!Greatest, Max
<1> HIDE DEF y, span
<1>6. Proper(z)
  <2>1. PC \in Register
    BY DEF PC, Register
  <2>. QED  BY <1>2, <1>3, <1>4, <2>1
<1> HIDE DEF z
<1>7. IsPsr(CurrentSpsr(z))
  BY <1>6, SavedIsPsr DEF Proper
<1>8. Proper(WriteCpsr(z, CurrentSpsr(z)))
  BY <1>6, <1>7, ProperSwitch
<1>. QED  BY <1>5, <1>6, <1>8

LEMMA StoreKeepsWords ==
  ASSUME NEW e, Moves(e), e.i.rn \in Register
  PROVE  Proper(StoreBlock(e.x, e.i))
<1> DEFINE n == Cardinality(e.i.list)
           y == StoreProper!Folded(e, e.x, Ordered(e.i.list))
           span == SpanOf(e)
<1>1. n \in Nat /\ DOMAIN Ordered(e.i.list) = 1..n
  BY OrderedIsSequence DEF Moves
<1>2. span[2] \in Word /\ span[1] \in Int
  <2>1. e.x.r[e.i.rn] \in Word
    BY ProperParts DEF Moves
  <2>. QED  BY <1>1, <2>1, SpanWords DEF SpanOf
<1>3. Proper(y)
  <2>1. ProperHolds(e, e.x)
    BY DEF ProperHolds, Moves
  <2>2. ASSUME NEW a, NEW j \in 1..n, ProperHolds(e, a) PROVE ProperHolds(e, StoreStep(e, a, Ordered(e.i.list)[j]))
    <3> DEFINE k == Ordered(e.i.list)[j]
               b == Before(e.i.list, k)
               w == IF k = e.i.rn /\ e.i.wb /\ k # Lowest(e.i.list) THEN SpanOf(e)[2]
                    ELSE IF k = PC THEN Late(e.x, PC)
                    ELSE IF e.i.user THEN UserReg(e.x, k) ELSE e.x.r[k]
    <3>1. k \in Register /\ b \in Int
      BY PlaceIs
    <3>2. w \in Word
      <4>1. UserReg(e.x, k) \in Word /\ e.x.r[k] \in Word /\ Late(e.x, PC) \in Word
        <5>1. PC \in Register
          BY DEF PC, Register
        <5>. QED  BY <3>1, <5>1, UserWord, ProperReads DEF Moves
      <4> HIDE DEF k
      <4>. QED  BY <1>2, <4>1
    <3>3. StoreStep(e, a, k) = WriteWord(a, Wrap(span[1] + 4 * b), w)
      BY DEF StoreStep
    <3> HIDE DEF k, w, b, span
    <3>4. Wrap(span[1] + 4 * b) \in Int
      <4>1. span[1] + 4 * b \in Int
        BY <1>2, <3>1
      <4>. QED  BY <4>1, WrapType
    <3>5. Proper(StoreStep(e, a, k))
      BY <2>2, <3>2, <3>3, <3>4, ProperMemory DEF ProperHolds
    <3>. QED  BY <3>5 DEF ProperHolds, k
  <2> HIDE DEF n
  <2>3. ProperHolds(e, y)
    BY <1>1, <2>1, <2>2, StoreProper!FoldKeeps
  <2>. QED  BY <2>3 DEF ProperHolds
<1>4. StoreBlock(e.x, e.i) = IF ~e.i.wb THEN y
                             ELSE IF e.i.user /\ e.i.rn # PC THEN SetUserReg(y, e.i.rn, span[2])
                             ELSE SetReg(y, e.i.rn, span[2])
  BY DEF StoreBlock, StoreStep, SpanOf, StoreProper!Folded, FoldLeft,
         StoreProper!MapThenFoldSet, MapThenFoldSet, StoreProper!Greatest, Max
<1> HIDE DEF y, span
<1>5. Proper(SetUserReg(y, e.i.rn, span[2])) /\ Proper(SetReg(y, e.i.rn, span[2]))
  BY <1>2, <1>3, RegisterSet, ProperUser
<1>. QED  BY <1>3, <1>4, <1>5

LEMMA EmptyKeepsWords ==
  ASSUME NEW x, Proper(x), NEW i, i.rn \in Register
  PROVE  Proper(EmptyBlock(x, i))
<1> DEFINE span == BlockSpan(x.r[i.rn], 16, i.pre, i.up)
           Base(y) == IF i.wb THEN SetReg(y, i.rn, span[2]) ELSE y
           w == ReadWord(x, span[1])
           v == Wrap(x.r[PC] + 4)
           loaded == SetReg(Ticks(x, 1), PC, w)
           stored == [WriteWord(x, span[1], v) EXCEPT !.flush = (i.rn = PC)]
<1>1. EmptyBlock(x, i) = IF i.load THEN Base(loaded) ELSE Base(stored)
  BY DEF EmptyBlock
<1>2. span[1] \in Int /\ span[2] \in Word
  BY ProperParts, SpanWords
<1>3. w \in Word /\ v \in Word
  BY ProperReads, ProperParts, WrapType
<1> HIDE DEF span, w, v
<1>4. Proper(loaded)
  BY <1>3, ProperTicks, RegisterSet
<1>5. Proper(stored)
  <2>1. Proper(WriteWord(x, span[1], v))
    BY <1>2, <1>3, ProperMemory
  <2>. QED  BY <2>1, ProperBits
<1> HIDE DEF loaded, stored
<1>6. \A y : Proper(y) => Proper(Base(y))
  BY <1>2, RegisterSet
<1> HIDE DEF Base
<1>. QED  BY <1>1, <1>4, <1>5, <1>6

LEMMA ProperBlock ==
  ASSUME NEW x, Proper(x), NEW i, DecodedArm(i), i.op = "block"
  PROVE  Proper(BlockDataTransfer(x, i))
<1> DEFINE e == [x |-> x, i |-> i]
<1>1. e.x = x /\ e.i = i /\ i.rn \in Register /\ i.list \in SUBSET (0..15)
  BY DEF DecodedArm, Register
<1> HIDE DEF e
<1>2. Moves(e)
  BY <1>1 DEF Moves
<1>3. Proper(LoadBlock(x, i)) /\ Proper(StoreBlock(x, i))
  BY <1>1, <1>2, LoadKeepsWords, StoreKeepsWords
<1>4. Proper(EmptyBlock(x, i))
  BY <1>1, EmptyKeepsWords
<1>. QED  BY <1>3, <1>4 DEF BlockDataTransfer

LEMMA StackKeepsWords ==
  ASSUME NEW e, Moves(e), e.i.extra \in BOOLEAN
  PROVE  Proper(PushPop(e.x, e.i))
<1> DEFINE x == e.x
           i == e.i
           c == Cardinality(i.list)
           n == c + Flag(i.extra, 0)
           start == IF i.load THEN x.r[SP] ELSE Wrap(x.r[SP] - 4 * n)
           last  == Wrap(start + 4 * c)
           popped == PopProper!Folded(e, Ticks(x, 1), Ordered(i.list))
           up == Wrap(x.r[SP] + 4 * n)
           moved == SetReg(popped, SP, up)
           pushed == PushProper!Folded(e, x, Ordered(i.list))
           below == Wrap(x.r[SP] - 64)
           above == Wrap(x.r[SP] + 64)
           next == Wrap(x.r[PC] + 2)
           target == ReadWord(x, last) - (ReadWord(x, last) % 2)
<1>1. c \in Nat /\ DOMAIN Ordered(i.list) = 1..c /\ Proper(x)
  BY OrderedIsSequence DEF Moves
<1>2. n \in Int
  <2>1. Flag(i.extra, 0) \in 0..1
    BY FlagIs
  <2>. QED  BY <1>1, <2>1
<1>3. /\ x.r[SP] \in Word /\ x.r[SP] \in Int /\ x.r[PC] \in Int /\ x.r[LR] \in Word
      /\ \A k \in Register : x.r[k] \in Word
  BY <1>1, ProperParts
<1>4. /\ below \in Word /\ below \in Int /\ above \in Word /\ next \in Word /\ up \in Word
      /\ start \in Word /\ start \in Int /\ last \in Int /\ target \in Word
  <2> HIDE DEF n, c
  <2>1. x.r[SP] - 64 \in Int /\ x.r[SP] + 64 \in Int /\ x.r[PC] + 2 \in Int /\ x.r[SP] + 4 * n \in Int /\ x.r[SP] - 4 * n \in Int
    BY <1>2, <1>3
  <2>2. below \in Word /\ below \in Int /\ above \in Word /\ next \in Word /\ up \in Word /\ start \in Word /\ start \in Int
    BY <1>3, <2>1, WrapType
  <2> HIDE DEF start
  <2>3. start + 4 * c \in Int
    BY <1>1, <2>2
  <2>4. last \in Int
    BY <2>3, WrapType
  <2>5. target \in Word
    BY <1>1, ProperReads, CutWord
  <2>. QED  BY <2>2, <2>4, <2>5
<1>5. PoppedStart(e) = start
  BY DEF PoppedStart
<1>6. ASSUME NEW j \in 1..c
      PROVE  LET k == Ordered(i.list)[j] IN
             /\ k \in Register /\ Wrap(start + 4 * Before(i.list, k)) \in Int
  <2>1. Ordered(i.list)[j] \in Register /\ Before(i.list, Ordered(i.list)[j]) \in Int
    BY PlaceIs
  <2> DEFINE b == Before(i.list, Ordered(i.list)[j])
  <2> HIDE DEF b, start
  <2>2. start + 4 * b \in Int
    BY <1>4, <2>1 DEF b
  <2>. QED  BY <2>1, <2>2, WrapType DEF b
<1>7. Proper(popped)
  <2>1. ProperHolds(e, Ticks(x, 1))
    BY <1>1, ProperTicks DEF ProperHolds
  <2>2. \A a : \A j \in 1..c : ProperHolds(e, a) => ProperHolds(e, PopInto(e, a, Ordered(i.list)[j]))
    BY <1>1, ProperReads, RegisterSet DEF ProperHolds, PopInto
  <2> HIDE DEF c, x
  <2>3. ProperHolds(e, popped)
    BY <1>1, <2>1, <2>2, PopProper!FoldKeeps
  <2>. QED  BY <2>3 DEF ProperHolds
<1>8. Proper(pushed)
  <2>1. ProperHolds(e, x)
    BY <1>1 DEF ProperHolds
  <2>2. ASSUME NEW a, NEW j \in 1..c, ProperHolds(e, a) PROVE ProperHolds(e, PushFrom(e, a, Ordered(i.list)[j]))
    <3> DEFINE k == Ordered(i.list)[j]
               addr == Wrap(start + 4 * Before(i.list, k))
    <3>1. k \in Register /\ addr \in Int
      BY <1>6
    <3>2. PushFrom(e, a, k) = WriteWord(a, addr, x.r[k])
      BY <1>5 DEF PushFrom
    <3> HIDE DEF addr, k
    <3>3. Proper(PushFrom(e, a, k))
      BY <1>3, <2>2, <3>1, <3>2, ProperMemory DEF ProperHolds
    <3>. QED  BY <3>3 DEF ProperHolds, k
  <2> HIDE DEF c
  <2>3. ProperHolds(e, pushed)
    BY <1>1, <2>1, <2>2, PushProper!FoldKeeps
  <2>. QED  BY <2>3 DEF ProperHolds
<1>9. PushPop(x, i) =
        CASE n = 0 /\ i.load -> SetReg(SetReg(x, PC, ReadWord(x, x.r[SP])), SP, above)
          [] n = 0 /\ ~i.load -> SetReg(WriteWord(x, below, next), SP, below)
          [] n > 0 /\ i.load -> IF i.extra THEN SetReg(moved, PC, target) ELSE moved
          [] OTHER -> SetReg(IF i.extra THEN WriteWord(pushed, last, x.r[LR]) ELSE pushed, SP, start)
  BY DEF PushPop, PopInto, PushFrom, PoppedStart, PopProper!Folded, FoldLeft,
         PopProper!MapThenFoldSet, MapThenFoldSet, PopProper!Greatest, Max,
         PushProper!Folded,  PushProper!MapThenFoldSet, PushProper!Greatest
<1> DEFINE given == IF i.extra THEN WriteWord(pushed, last, x.r[LR]) ELSE pushed
<1>10. /\ Proper(SetReg(SetReg(x, PC, ReadWord(x, x.r[SP])), SP, above))
       /\ Proper(SetReg(WriteWord(x, below, next), SP, below))
       /\ Proper(moved) /\ Proper(SetReg(moved, PC, target)) /\ Proper(SetReg(given, SP, start))
  <2> HIDE DEF popped, pushed, last, below, start, above, next, target, up, n, x
  <2>1. ReadWord(x, x.r[SP]) \in Word
    BY <1>1, ProperReads
  <2>2. Proper(SetReg(x, PC, ReadWord(x, x.r[SP]))) /\ Proper(WriteWord(x, below, next)) /\ Proper(moved)
    BY <1>1, <1>4, <1>7, <2>1, RegisterSet, ProperMemory
  <2> HIDE DEF moved
  <2>3. Proper(given)
    BY <1>3, <1>4, <1>8, ProperMemory
  <2> HIDE DEF given
  <2>. QED  BY <1>4, <2>2, <2>3, RegisterSet, Zenon
<1> HIDE DEF popped, pushed, last, below, start, above, next, target, up, n, x, moved, i
<1>11. \/ PushPop(x, i) = SetReg(SetReg(x, PC, ReadWord(x, x.r[SP])), SP, above)
       \/ PushPop(x, i) = SetReg(WriteWord(x, below, next), SP, below)
       \/ PushPop(x, i) = moved \/ PushPop(x, i) = SetReg(moved, PC, target)
       \/ PushPop(x, i) = SetReg(given, SP, start)
  <2>1. CASE n = 0
    BY <1>9, <2>1
  <2>2. CASE n # 0 /\ n > 0 /\ i.load
    BY <1>9, <2>2
  <2>3. CASE n # 0 /\ ~(n > 0 /\ i.load)
    BY <1>9, <2>3
  <2>. QED  BY <2>1, <2>2, <2>3
<1> HIDE DEF given
<1>. QED  BY <1>10, <1>11, Zenon DEF x, i

LEMMA TransferKeepsWords ==
  ASSUME NEW e, Moves(e), e.i.rb \in Register
  PROVE  Proper(BlockTransfer(e.x, e.i))
<1> DEFINE x == e.x
           i == e.i
           c == Cardinality(i.list)
           low == x.r[i.rb]
           wb == Wrap(low + 4 * c)
           above == Wrap(low + 64)
           next == Wrap(x.r[PC] + 2)
           taken == TakeProper!Folded(e, Ticks(x, 1), Ordered(i.list))
           given == GiveProper!Folded(e, x, Ordered(i.list))
           moved == IF i.load THEN taken ELSE given
           none == SetReg(x, i.rb, above)
<1>1. c \in Nat /\ DOMAIN Ordered(i.list) = 1..c /\ Proper(x)
  BY OrderedIsSequence DEF Moves
<1>2. low \in Word /\ low \in Int /\ x.r[PC] \in Int /\ \A k \in Register : x.r[k] \in Word
  BY <1>1, ProperParts
<1>3. wb \in Word /\ above \in Word /\ next \in Word
  <2> HIDE DEF low, c
  <2>1. low + 4 * c \in Int /\ low + 64 \in Int /\ x.r[PC] + 2 \in Int
    BY <1>1, <1>2
  <2>. QED  BY <2>1, WrapType
<1>4. Proper(taken)
  <2>1. ProperHolds(e, Ticks(x, 1))
    BY <1>1, ProperTicks DEF ProperHolds
  <2>2. \A a : \A j \in 1..c : ProperHolds(e, a) => ProperHolds(e, TakeStep(e, a, Ordered(i.list)[j]))
    BY <1>1, ProperReads, RegisterSet DEF ProperHolds, TakeStep
  <2> HIDE DEF c, x
  <2>3. ProperHolds(e, taken)
    BY <1>1, <2>1, <2>2, TakeProper!FoldKeeps
  <2>. QED  BY <2>3 DEF ProperHolds
<1>5. Proper(given)
  <2>1. ProperHolds(e, x)
    BY <1>1 DEF ProperHolds
  <2>2. ASSUME NEW a, NEW j \in 1..c, ProperHolds(e, a) PROVE ProperHolds(e, GiveStep(e, a, Ordered(i.list)[j]))
    <3> DEFINE k == Ordered(i.list)[j]
               b == Before(i.list, k)
               w == IF k = i.rb /\ k # Lowest(i.list) THEN wb ELSE x.r[k]
    <3>1. k \in Register /\ b \in Int
      BY PlaceIs
    <3>2. GiveStep(e, a, k) = WriteWord(a, Wrap(low + 4 * b), w)
      BY DEF GiveStep
    <3> HIDE DEF wb, k, b, low
    <3>3. low + 4 * b \in Int
      BY <1>2, <3>1
    <3>4. Wrap(low + 4 * b) \in Int
      BY <3>3, WrapType
    <3>5. w \in Word
      BY <1>2, <1>3, <3>1
    <3> HIDE DEF w
    <3>6. Proper(GiveStep(e, a, k))
      BY <2>2, <3>2, <3>4, <3>5, ProperMemory DEF ProperHolds
    <3>. QED  BY <3>6 DEF ProperHolds, k
  <2> HIDE DEF c
  <2>3. ProperHolds(e, given)
    BY <1>1, <2>1, <2>2, GiveProper!FoldKeeps
  <2>. QED  BY <2>3 DEF ProperHolds
<1>6. BlockTransfer(x, i) =
        IF i.list = {}
        THEN IF i.load THEN SetReg(none, PC, ReadWord(x, low))
             ELSE WriteWord(none, low, next)
        ELSE IF i.load /\ i.rb \in i.list THEN moved ELSE SetReg(moved, i.rb, wb)
  BY DEF BlockTransfer, TakeStep, GiveStep, TakeProper!Folded, FoldLeft,
         TakeProper!MapThenFoldSet, MapThenFoldSet, TakeProper!Greatest, Max,
         GiveProper!Folded,  GiveProper!MapThenFoldSet, GiveProper!Greatest
<1> HIDE DEF taken, given, wb, above, next, low, x, i
<1>7. Proper(moved) /\ Proper(none) /\ ReadWord(x, low) \in Word
  BY <1>1, <1>3, <1>4, <1>5, ProperReads, RegisterSet
<1> HIDE DEF moved, none
<1>8. Proper(SetReg(none, PC, ReadWord(x, low))) /\ Proper(WriteWord(none, low, next)) /\ Proper(SetReg(moved, i.rb, wb))
  BY <1>2, <1>3, <1>7, RegisterSet, ProperMemory
<1>9. Proper(BlockTransfer(x, i))
  BY <1>6, <1>7, <1>8, Zenon
<1>. QED  BY <1>9 DEF x, i

LEMMA ProperThumbBlocks ==
  ASSUME NEW x, Proper(x), NEW i, DecodedThumb(i)
  PROVE  /\ i.op = "t14" => Proper(PushPop(x, i))
         /\ i.op = "t15" => Proper(BlockTransfer(x, i))
<1> DEFINE e == [x |-> x, i |-> i]
<1>1. e.x = x /\ e.i = i
  OBVIOUS
<1> HIDE DEF e
<1>2. ASSUME i.op = "t14" PROVE Proper(PushPop(x, i))
  <2>1. i.list \in SUBSET (0..15) /\ i.extra \in BOOLEAN
    BY <1>2 DEF DecodedThumb, Low
  <2>. QED  BY <1>1, <2>1, StackKeepsWords DEF Moves
<1>3. ASSUME i.op = "t15" PROVE Proper(BlockTransfer(x, i))
  <2>1. i.list \in SUBSET (0..15) /\ i.rb \in Register
    BY <1>3 DEF DecodedThumb, Low, Register
  <2>. QED  BY <1>1, <2>1, TransferKeepsWords DEF Moves
<1>. QED  BY <1>2, <1>3

-----------------------------------------------------------------------------
\* An instruction leaves a proper machine, and what follows it does.
LEMMA ProperArm ==
  ASSUME NEW x, Proper(x), NEW i, Decoded(i), i.op \in ArmOps
  PROVE  Proper(ArmExecute(x, i))
<1>1. DecodedArm(i)
  BY DEF Decoded
<1>2. CASE i.op = "dp"
  BY <1>1, <1>2, ProperData DEF ArmExecute
<1>3. CASE i.op \in {"mul", "mull"}
  BY <1>1, <1>3, ProperMultiplies DEF ArmExecute
<1>4. CASE i.op \in {"ldr", "ldrh", "swp", "mrs"}
  BY <1>1, <1>4, ProperTransfers DEF ArmExecute
<1>5. CASE i.op = "msr"
  BY <1>5, ProperMsr DEF ArmExecute
<1>6. CASE i.op = "block"
  BY <1>1, <1>6, ProperBlock DEF ArmExecute
<1>7. CASE i.op = "b"
  <2>1. i.offset \in Int /\ 0 \in Register
    BY <1>1, <1>7 DEF DecodedArm, Register
  <2>2. ArmExecute(x, i) = Branch(x, i)
    BY <1>7 DEF ArmExecute
  <2>3. \/ Branch(x, i) = SetReg(x, PC, Wrap(x.r[PC] + i.offset))
        \/ Branch(x, i) = SetReg(SetReg(x, LR, Wrap(x.r[PC] - 4)), PC, Wrap(SetReg(x, LR, Wrap(x.r[PC] - 4)).r[PC] + i.offset))
        \/ Branch(x, i) = SetReg(SetReg(x, LR, Wrap(x.r[PC] - 4)), PC, Wrap(x.r[PC] + i.offset))
    BY DEF Branch
  <2>4. Branch(x, i) = SetReg(IF i.link THEN SetReg(x, LR, Wrap(x.r[PC] - 4)) ELSE x, PC, Wrap(x.r[PC] + i.offset))
    BY DEF Branch
  <2>5. CASE i.link
    BY <2>1, <2>2, <2>4, <2>5, ProperBranches
  <2>6. CASE ~i.link
    BY <2>1, <2>2, <2>4, <2>6, ProperBranches
  <2>. QED  BY <2>5, <2>6
<1>8. CASE i.op = "bx"
  <2>1. i.rn \in Register /\ 0 \in Int
    BY <1>1, <1>8 DEF DecodedArm
  <2>2. ArmExecute(x, i) = BranchExchange(x, i.rn)
    BY <1>8 DEF ArmExecute
  <2>. QED  BY <2>1, <2>2, ProperBranches
<1>9. CASE i.op = "swi"
  <2>1. ArmExecute(x, i) = Entered(x, "Supervisor", Wrap(x.r[PC] - 4), 8)
    BY <1>9 DEF ArmExecute, SoftwareInterrupt
  <2>2. Wrap(x.r[PC] - 4) \in Word /\ 8 \in Word
    <3>1. x.r[PC] \in Int
      BY ProperParts
    <3>2. x.r[PC] - 4 \in Int
      BY <3>1
    <3>. QED  BY <3>2, WrapType, SmallWords
  <2>. QED  BY <2>1, <2>2, ProperEntered DEF Mode
<1>10. CASE i.op = "undefined"
  BY <1>10 DEF ArmExecute
<1>. QED  BY <1>2, <1>3, <1>4, <1>5, <1>6, <1>7, <1>8, <1>9, <1>10 DEF ArmOps

LEMMA ProperThumb ==
  ASSUME NEW x, Proper(x), NEW i, Decoded(i), i.op \in ThumbOps
  PROVE  Proper(ThumbExecute(x, i))
<1>1. DecodedThumb(i)
  BY DEF Decoded
<1>2. CASE i.op \in {"t1", "t2", "t3", "t4", "t5"}
  BY <1>1, <1>2, ProperThumbNumbers DEF ThumbExecute
<1>3. CASE i.op \in {"t6", "t7", "t8", "t9", "t10", "t11", "t12", "t13"}
  BY <1>1, <1>3, ProperThumbTransfers DEF ThumbExecute
<1>4. CASE i.op \in {"t14", "t15"}
  BY <1>1, <1>4, ProperThumbBlocks DEF ThumbExecute
<1>5. CASE i.op \in {"t16", "t17", "t18", "t19"}
  BY <1>1, <1>5, ProperThumbBranches DEF ThumbExecute
<1>. QED  BY <1>2, <1>3, <1>4, <1>5 DEF ThumbOps

LEMMA ProperRefill == ASSUME NEW x, Proper(x) PROVE Proper(Refill(x))
<1> DEFINE w == Wrap(x.r[PC] + 2 * InstructionSize(x))
           p == <<Slot(x, x.r[PC] - (x.r[PC] % InstructionSize(x))),
                  Slot(x, Wrap((x.r[PC] - (x.r[PC] % InstructionSize(x))) + InstructionSize(x)))>>
<1>1. w \in Word
  <2>1. x.r[PC] \in Int /\ InstructionSize(x) \in Int
    BY ProperParts DEF InstructionSize
  <2>2. x.r[PC] + 2 * InstructionSize(x) \in Int
    BY <2>1
  <2>. QED  BY <2>2, WrapType
<1>2. Refill(x) = [[[x EXCEPT !.pipeline = p] EXCEPT !.r[PC] = w] EXCEPT !.flush = FALSE]
  BY DEF Refill, Proper, IsMachine
<1> HIDE DEF w, p
<1>3. Proper([x EXCEPT !.pipeline = p])
  BY DEF Proper, IsMachine, HoldsWords
<1>4. \A y : Proper(y) => Proper([y EXCEPT !.r[PC] = w])
  BY <1>1, ProperRegister
<1>5. \A y : Proper(y) => Proper([y EXCEPT !.flush = FALSE])
  BY ProperBits
<1>. QED  BY <1>2, <1>3, <1>4, <1>5

LEMMA ProperAdvanced == ASSUME NEW x, Proper(x), NEW y, Proper(y) PROVE Proper(Advanced(x, y))
<1>1. CASE y.flush
  BY <1>1, ProperRefill DEF Advanced
<1>2. CASE ~y.flush
  <2> DEFINE w == IF y.r[PC] = x.r[PC] THEN Wrap(y.r[PC] + InstructionSize(x)) ELSE y.r[PC]
             p == <<x.pipeline[2], Slot(x, x.r[PC])>>
  <2>1. w \in Word
    <3>1. y.r[PC] \in Int /\ y.r[PC] \in Word /\ InstructionSize(x) \in Int
      BY ProperParts DEF InstructionSize, PC, Register
    <3>2. y.r[PC] + InstructionSize(x) \in Int
      BY <3>1
    <3>. QED  BY <3>1, <3>2, WrapType
  <2>2. Advanced(x, y) = [[y EXCEPT !.pipeline = p] EXCEPT !.r[PC] = w]
    BY <1>2 DEF Advanced, Proper, IsMachine
  <2> HIDE DEF w, p
  <2>3. Proper([y EXCEPT !.pipeline = p])
    BY DEF Proper, IsMachine, HoldsWords
  <2>4. \A z : Proper(z) => Proper([z EXCEPT !.r[PC] = w])
    BY <2>1, ProperRegister
  <2>. QED  BY <2>2, <2>3, <2>4
<1>. QED  BY <1>1, <1>2

LEMMA ProperStepped ==
  ASSUME NEW x, Proper(x), NEW i, Decoded(i), i.op # "irq", x.cpsr.t <=> i.op \in ThumbOps
  PROVE  Proper(Stepped(x, i))
<1> DEFINE z == [x EXCEPT !.ticks = 0]
           y == Executed(z, i)
<1>1. Proper(z) /\ z.cpsr = x.cpsr
  BY ProperBits DEF Proper, IsMachine
<1> HIDE DEF z
<1>2. Proper(y)
  <2>1. CASE i.op \in ThumbOps
    BY <1>1, <2>1, ProperThumb DEF Executed
  <2>2. CASE i.op \notin ThumbOps
    <3>1. i.op \in ArmOps
      BY <2>2 DEF Decoded
    <3>2. y = ArmExecute(z, i) \/ y = z
      BY <1>1, <2>2 DEF Executed
    <3>. QED  BY <1>1, <3>1, <3>2, ProperArm
  <2>. QED  BY <2>1, <2>2
<1> HIDE DEF y
<1>. QED  BY <1>2, ProperAdvanced DEF Stepped, y, z

LEMMA ProperIrq == ASSUME NEW x, Proper(x) PROVE Proper(IrqTaken(x))
<1> DEFINE z == [x EXCEPT !.ticks = 0]
           w == Wrap(x.r[PC] - 2 * InstructionSize(x) + 4)
<1>1. Proper(z)
  BY ProperBits
<1>2. w \in Word /\ 24 \in Word
  <2>1. x.r[PC] \in Int /\ InstructionSize(x) \in Int
    BY ProperParts DEF InstructionSize
  <2>2. x.r[PC] - 2 * InstructionSize(x) + 4 \in Int
    BY <2>1
  <2>. QED  BY <2>2, WrapType, SmallWords
<1>3. IrqTaken(x) = Refill(Entered(z, "Irq", w, 24))
  BY DEF IrqTaken
<1> HIDE DEF z, w
<1>4. Proper(Entered(z, "Irq", w, 24))
  BY <1>1, <1>2, ProperEntered DEF Mode
<1>. QED  BY <1>3, <1>4, ProperRefill

-----------------------------------------------------------------------------
\* Between instructions the machine is whole and what its words hold are words.
Worded == Whole /\ HoldsWords(m)

LEMMA WordedAtFirst == ProcessorInit => Worded
<1> SUFFICES ASSUME ProcessorInit PROVE Worded
  OBVIOUS
<1>1. PICK x \in Starts[program] : m = Refill(x)
  BY DEF ProcessorInit
<1>2. program \in DOMAIN Programs
  BY DEF ProcessorInit
<1>3. Proper(x)
  BY <1>2, ProgramsAssumption DEF Proper
<1>4. Proper(m)
  BY <1>1, <1>3, ProperRefill
<1>. QED  BY <1>4, WholeAtFirst DEF Worded, Proper

LEMMA WordedStep ==
  ASSUME Worded, [ProcessorNext]_vars
  PROVE  Worded'
<1>1. Proper(m) /\ Whole
  BY DEF Worded, Whole, Proper
<1>2. Whole'
  BY <1>1, NextKept
<1>3. ASSUME NEW i \in Offered, i.op # "irq", m.cpsr.t <=> i.op \in ThumbOps, Does(i, Stepped(m, i))
      PROVE  HoldsWords(m')
  BY <1>1, <1>3, OfferedDecoded, ProperStepped DEF Does, Proper
<1>4. ASSUME NEW i \in Offered, Does(i, IrqTaken(m))
      PROVE  HoldsWords(m')
  BY <1>1, <1>4, ProperIrq DEF Does, Proper
<1>5. ASSUME UNCHANGED vars PROVE HoldsWords(m')
  BY <1>5 DEF Worded, vars
<1>6. Step => HoldsWords(m')
  BY <1>3 DEF Step
<1>7. TakeIrq => HoldsWords(m')
  BY <1>4 DEF TakeIrq
<1>8. Ends => HoldsWords(m')
  BY <1>5 DEF Ends
<1>9. HoldsWords(m')
  BY <1>5, <1>6, <1>7, <1>8 DEF ProcessorNext
<1>. QED  BY <1>2, <1>9 DEF Worded, HoldsWords

LEMMA StepIsExact ==
  ASSUME Worded, Step, ir'.op = "dp", ir'.s, ir'.rd # PC, Eval(ir'.cond, m.cpsr)
  PROVE  Exactly(m, ir', m'.cpsr, m'.r[ir'.rd])
<1> DEFINE x == [m EXCEPT !.ticks = 0]
<1>1. PICK i \in Offered : (m.cpsr.t <=> i.op \in ThumbOps) /\ Does(i, Stepped(m, i))
  BY DEF Step
<1>2. ir' = i /\ m' = Stepped(m, i) /\ Whole /\ Proper(m)
  BY <1>1 DEF Does, Worded, Whole, Proper
<1>3. DecodedArm(i) /\ i.op = "dp" /\ i.s /\ i.rd # PC /\ i.rd \in Register
  <2>1. DecodedArm(i) /\ i.op = "dp"
    BY <1>2, OfferedDecoded DEF Decoded
  <2>. QED  BY <1>2, <2>1 DEF DecodedArm
<1>4. Proper(x) /\ x.r = m.r /\ x.cpsr = m.cpsr
  BY <1>2, ProperBits DEF Proper, IsMachine
<1> HIDE DEF x
<1>5. m' = Advanced(m, DataProcessing(x, i))
  <2>1. ~m.cpsr.t
    BY <1>1, <1>3 DEF ThumbOps
  <2>. QED  BY <1>2, <1>3, <1>4, <2>1 DEF Stepped, Executed, ArmExecute, x
<1> DEFINE y == DataProcessing(x, i)
<1>6. IsMachine(y)
  BY <1>3, <1>4, ProperData DEF Proper
<1>7. Exactly(x, i, y.cpsr, y.r[i.rd])
  BY <1>3, <1>4, ExactlyProcessed
<1> HIDE DEF y
<1>8. m'.cpsr = y.cpsr /\ m'.r[i.rd] = y.r[i.rd]
  BY <1>3, <1>5, <1>6, AdvancedLeaves DEF y
<1>9. Exactly(m, i, y.cpsr, y.r[i.rd])
  <2>1. Late(m, i.rn) = Late(x, i.rn) /\ ShifterOperand(m, i.src) = ShifterOperand(x, i.src)
    BY <1>4, SameOperand
  <2>. QED  BY <1>4, <1>7, <2>1 DEF Exactly
<1>. QED  BY <1>2, <1>8, <1>9

\* Whatever is executed, every data-processing instruction that sets the flags
\* leaves in them and in its register what the exact integers say.
THEOREM ResultsExact == ProcessorSpec => ResultsAreExact
<1>1. Worded /\ [ProcessorNext]_vars => Worded'
  BY WordedStep
<1>2. Worded /\ [ProcessorNext]_vars =>
        [ir'.op = "dp" /\ ir'.s /\ ir'.rd # PC /\ Eval(ir'.cond, m.cpsr) =>
           LET a  == IF ir'.src.by = "register" THEN Late(m, ir'.rn) ELSE m.r[ir'.rn]
               op == ShifterOperand(m, ir'.src)
               r  == m'.r[ir'.rd]
           IN  /\ ir'.alu \in Arithmetic => SumIsExact(ir'.alu, a, op[1], m.cpsr.c, m'.cpsr, r)
               /\ ir'.alu \notin Arithmetic => LogicIsExact(ir'.alu, a, op[1], op[2], m'.cpsr, r, m.cpsr.v)
               /\ ir'.alu = "cmp" => ComparisonDecides(a, op[1], m'.cpsr)]_vars
  <2> SUFFICES ASSUME Worded, ProcessorNext, ~UNCHANGED vars,
                      ir'.op = "dp", ir'.s, ir'.rd # PC, Eval(ir'.cond, m.cpsr)
               PROVE  Exactly(m, ir', m'.cpsr, m'.r[ir'.rd])
    BY DEF Exactly
  <2>1. Step
    BY DEF ProcessorNext, TakeIrq, Ends, Does
  <2>. QED  BY <2>1, StepIsExact
<1>. QED  BY <1>1, <1>2, WordedAtFirst, PTL DEF ProcessorSpec, ResultsAreExact

-----------------------------------------------------------------------------
(* Thumb in ARM's terms *)

\* A machine about to execute an instruction: no internal cycles are counted yet.
Ready(x) == Proper(x) /\ Ticks(x, 0) = x

\* The flags of a result, and those of an operation, as one status register.
NzOf(p, r) == [[p EXCEPT !.n = Top(r)] EXCEPT !.z = (r = 0)]
NzcOf(p, r, c) == [NzOf(p, r) EXCEPT !.c = c]
NzcvOf(p, r, c, v) == [NzcOf(p, r, c) EXCEPT !.v = v]
InForce(x, p) == [x EXCEPT !.cpsr = p]

LEMMA FlagsInForce ==
  ASSUME NEW x, IsMachine(x), NEW r, NEW c, NEW v
  PROVE  /\ SetNz(x, r) = InForce(x, NzOf(x.cpsr, r))
         /\ SetNzc(x, r, c) = InForce(x, NzcOf(x.cpsr, r, c))
         /\ SetNzcv(x, r, c, v) = InForce(x, NzcvOf(x.cpsr, r, c, v))
<1>1. "cpsr" \in DOMAIN x
  BY DEF IsMachine
<1>2. \A p, q : InForce(InForce(x, p), q) = InForce(x, q)
  BY DEF InForce
<1>3. \A p : InForce(x, p).cpsr = p /\ "cpsr" \in DOMAIN InForce(x, p)
  BY <1>1 DEF InForce
<1>4. SetNz(x, r) = InForce(x, NzOf(x.cpsr, r))
  <2>1. SetNz(x, r) = [[x EXCEPT !.cpsr = [x.cpsr EXCEPT !.n = Top(r)]] EXCEPT !.cpsr.z = (r = 0)]
    BY <1>1 DEF SetNz
  <2> DEFINE p == [x.cpsr EXCEPT !.n = Top(r)]
  <2>2. [InForce(x, p) EXCEPT !.cpsr.z = (r = 0)] = InForce(InForce(x, p), [p EXCEPT !.z = (r = 0)])
    <3>1. \A y, q : y.cpsr = q => [y EXCEPT !.cpsr.z = (r = 0)] = InForce(y, [q EXCEPT !.z = (r = 0)])
      BY DEF InForce
    <3> HIDE DEF p
    <3>. QED  BY <1>3, <3>1
  <2>. QED  BY <1>2, <2>1, <2>2 DEF InForce, NzOf
<1>5. SetNzc(x, r, c) = InForce(x, NzcOf(x.cpsr, r, c))
  <2>1. \A y, q : y.cpsr = q => [y EXCEPT !.cpsr.c = c] = InForce(y, [q EXCEPT !.c = c])
    BY DEF InForce
  <2>2. SetNzc(x, r, c) = InForce(InForce(x, NzOf(x.cpsr, r)), [NzOf(x.cpsr, r) EXCEPT !.c = c])
    BY <1>3, <1>4, <2>1 DEF SetNzc
  <2>. QED  BY <1>2, <2>2 DEF NzcOf
<1>6. SetNzcv(x, r, c, v) = InForce(x, NzcvOf(x.cpsr, r, c, v))
  <2>1. \A y, q : y.cpsr = q => [y EXCEPT !.cpsr.v = v] = InForce(y, [q EXCEPT !.v = v])
    BY DEF InForce
  <2>2. SetNzcv(x, r, c, v) = InForce(InForce(x, NzcOf(x.cpsr, r, c)), [NzcOf(x.cpsr, r, c) EXCEPT !.v = v])
    BY <1>3, <1>5, <2>1 DEF SetNzcv
  <2>. QED  BY <1>2, <2>2 DEF NzcvOf
<1>. QED  BY <1>4, <1>5, <1>6

\* What an instruction sets it may set in any order.
LEMMA InAnyOrder ==
  ASSUME NEW x, IsMachine(x), NEW k, NEW v, NEW p, NEW n
  PROVE  /\ InForce(SetReg(x, k, v), p) = SetReg(InForce(x, p), k, v)
         /\ Ticks(SetReg(x, k, v), n) = SetReg(Ticks(x, n), k, v)
         /\ Ticks(InForce(x, p), n) = InForce(Ticks(x, n), p)
         /\ SetReg(x, k, v).cpsr = x.cpsr /\ Ticks(x, n).cpsr = x.cpsr
         /\ IsMachine(SetReg(x, k, v)) /\ IsMachine(Ticks(x, n))
<1>1. "cpsr" \in DOMAIN x /\ "ticks" \in DOMAIN x /\ "r" \in DOMAIN x /\ "flush" \in DOMAIN x
  BY DEF IsMachine
<1>2. InForce(SetReg(x, k, v), p) = SetReg(InForce(x, p), k, v)
  BY <1>1 DEF InForce, SetReg
<1>3. Ticks(SetReg(x, k, v), n) = SetReg(Ticks(x, n), k, v)
  BY <1>1 DEF Ticks, SetReg
<1>4. Ticks(InForce(x, p), n) = InForce(Ticks(x, n), p)
  BY <1>1 DEF InForce, Ticks
<1>5. SetReg(x, k, v).cpsr = x.cpsr /\ Ticks(x, n).cpsr = x.cpsr
  BY <1>1 DEF SetReg, Ticks
<1>6. IsMachine(SetReg(x, k, v)) /\ IsMachine(Ticks(x, n))
  BY WithinSelf, WithinRegister, WithinTicks DEF Within
<1>. QED  BY <1>2, <1>3, <1>4, <1>5, <1>6

\* The flags of a result and the register it goes to.
LEMMA FlagsAndRegister ==
  ASSUME NEW x, IsMachine(x), NEW k, NEW w, NEW r, NEW c, NEW v, NEW n
  PROVE  /\ SetNz(SetReg(x, k, w), r) = SetReg(SetNz(x, r), k, w)
         /\ SetNzc(SetReg(x, k, w), r, c) = SetReg(SetNzc(x, r, c), k, w)
         /\ SetNzcv(SetReg(x, k, w), r, c, v) = SetReg(SetNzcv(x, r, c, v), k, w)
         /\ SetNzc(x, r, x.cpsr.c) = SetNz(x, r)
         /\ Ticks(SetNzc(SetReg(x, k, w), r, c), n) = SetReg(SetNzc(Ticks(x, n), r, c), k, w)
         /\ Ticks(SetNz(SetReg(x, k, w), r), n) = SetNz(SetReg(Ticks(x, n), k, w), r)
<1> DEFINE y == SetReg(x, k, w)
<1>1. IsMachine(y) /\ y.cpsr = x.cpsr /\ IsMachine(Ticks(x, n)) /\ Ticks(x, n).cpsr = x.cpsr
  BY InAnyOrder
<1>2. \A p : InForce(y, p) = SetReg(InForce(x, p), k, w)
  BY InAnyOrder
<1> DEFINE u == SetReg(Ticks(x, n), k, w)
<1>3. \A p : InForce(u, p) = SetReg(InForce(Ticks(x, n), p), k, w)
  <2> DEFINE t == Ticks(x, n)
  <2>1. IsMachine(t)
    BY <1>1
  <2> HIDE DEF t
  <2>2. \A p : InForce(SetReg(t, k, w), p) = SetReg(InForce(t, p), k, w)
    BY <2>1, InAnyOrder
  <2>. QED  BY <2>2 DEF t
<1>4. IsMachine(u) /\ u.cpsr = x.cpsr
  <2> DEFINE t == Ticks(x, n)
  <2>1. IsMachine(t) /\ t.cpsr = x.cpsr
    BY <1>1
  <2> HIDE DEF t
  <2>2. IsMachine(SetReg(t, k, w)) /\ SetReg(t, k, w).cpsr = t.cpsr
    BY <2>1, InAnyOrder
  <2>. QED  BY <2>1, <2>2 DEF t
<1>5. Ticks(y, n) = u
  BY InAnyOrder
<1> HIDE DEF y, u
<1>6. \A p : Ticks(InForce(y, p), n) = InForce(u, p)
  BY <1>1, <1>5, InAnyOrder
<1>7. NzcOf(x.cpsr, r, x.cpsr.c) = NzOf(x.cpsr, r)
  <2>1. "c" \in DOMAIN x.cpsr
    BY DEF IsMachine, IsPsr, PsrFields
  <2>. QED  BY <2>1 DEF NzcOf, NzOf
<1>8. SetNz(y, r) = InForce(y, NzOf(x.cpsr, r)) /\ SetNz(x, r) = InForce(x, NzOf(x.cpsr, r))
  BY <1>1, FlagsInForce
<1>9. SetNzc(y, r, c) = InForce(y, NzcOf(x.cpsr, r, c)) /\ SetNzc(x, r, c) = InForce(x, NzcOf(x.cpsr, r, c))
  BY <1>1, FlagsInForce
<1>10. SetNzcv(y, r, c, v) = InForce(y, NzcvOf(x.cpsr, r, c, v)) /\ SetNzcv(x, r, c, v) = InForce(x, NzcvOf(x.cpsr, r, c, v))
  BY <1>1, FlagsInForce
<1>11. SetNzc(Ticks(x, n), r, c) = InForce(Ticks(x, n), NzcOf(x.cpsr, r, c)) /\ SetNz(u, r) = InForce(u, NzOf(x.cpsr, r))
  BY <1>1, <1>4, FlagsInForce
<1>12. SetNzc(x, r, x.cpsr.c) = SetNz(x, r)
  BY <1>7, <1>8, FlagsInForce
<1>13. SetNz(y, r) = SetReg(SetNz(x, r), k, w)
  BY <1>2, <1>8
<1>14. SetNzc(y, r, c) = SetReg(SetNzc(x, r, c), k, w)
  BY <1>2, <1>9
<1>15. SetNzcv(y, r, c, v) = SetReg(SetNzcv(x, r, c, v), k, w)
  BY <1>2, <1>10
<1>16. Ticks(SetNzc(y, r, c), n) = SetReg(SetNzc(Ticks(x, n), r, c), k, w)
  BY <1>3, <1>6, <1>9, <1>11
<1>17. Ticks(SetNz(y, r), n) = SetNz(u, r)
  BY <1>6, <1>8, <1>11
<1>. QED  BY <1>12, <1>13, <1>14, <1>15, <1>16, <1>17 DEF y, u

LEMMA PlainOperand ==
  ASSUME NEW x, Proper(x), NEW k \in Register, NEW v
  PROVE  Operand2(x, Reg(k)) = <<x.r[k], x.cpsr.c>> /\ Operand2(x, Imm(v)) = <<v, x.cpsr.c>>
<1>1. x.r[k] \in Word
  BY ProperParts
<1>2. Operand2(x, Reg(k)) = Shift("lsl", x.r[k], 0, x.cpsr.c, TRUE)
  BY DEF Operand2, Reg
<1>3. Operand2(x, Imm(v)) = RotateImmediate(v, 0, x.cpsr.c)
  BY DEF Operand2, Imm
<1>. QED  BY <1>1, <1>2, <1>3, ShiftByNone DEF RotateImmediate

\* A data-processing instruction that a Thumb format stands for.
LEMMA Processing ==
  ASSUME NEW x, Ready(x), NEW alu, NEW s, NEW rd, rd # PC, NEW rn, NEW src, src.by # "register"
  PROVE  LET op == Operand2(x, src)
             t  == Alu(alu, x.r[rn], op[1], op[2], x.cpsr.c)
         IN  ArmExecute(x, Dp(alu, s, rd, rn, src)) =
               IF alu \in Tests THEN SetFlags(x, t[1], t[2], t[3], t[4])
               ELSE SetReg(IF s THEN SetFlags(x, t[1], t[2], t[3], t[4]) ELSE x, rd, t[1])
<1> DEFINE i == Dp(alu, s, rd, rn, src)
<1>1. i.op = "dp" /\ i.alu = alu /\ i.s = s /\ i.rd = rd /\ i.rn = rn /\ i.src = src
  BY DEF Dp
<1> HIDE DEF i
<1>2. ArmExecute(x, i) = DataProcessing(x, i)
  BY <1>1 DEF ArmExecute
<1>3. Ticks(x, 0) = x
  BY DEF Ready
<1>. QED  BY <1>1, <1>2, <1>3 DEF DataProcessing, i

\* What an addition with carry answers.
IsSum(a) == \E p, q, z : a = Addc(p, q, z)
LEMMA SumsAre ==
  /\ \A p, q : IsSum(Addc(p, q, TRUE)) /\ IsSum(Addc(p, q, FALSE))
  /\ \A p, q, z : IsSum(Addc(p, q, z))
  /\ \A a : IsSum(a) => (a \o <<FALSE>>)[1] = a[1] /\ (a \o <<FALSE>>)[2] = a[2] /\ (a \o <<FALSE>>)[3] = a[3]
                       /\ ~(a \o <<FALSE>>)[4]
<1>1. \A p, q, z : IsSum(Addc(p, q, z))
  BY DEF IsSum
<1>2. ASSUME NEW p, NEW q PROVE IsSum(Addc(p, q, TRUE)) /\ IsSum(Addc(p, q, FALSE))
  <2> DEFINE yes == TRUE
             no == FALSE
  <2>1. yes = TRUE /\ no = FALSE
    OBVIOUS
  <2> HIDE DEF yes, no
  <2>2. IsSum(Addc(p, q, yes)) /\ IsSum(Addc(p, q, no))
    BY <1>1
  <2>. QED  BY <2>1, <2>2
<1>3. ASSUME NEW a, IsSum(a)
      PROVE  /\ (a \o <<FALSE>>)[1] = a[1] /\ (a \o <<FALSE>>)[2] = a[2] /\ (a \o <<FALSE>>)[3] = a[3]
             /\ ~(a \o <<FALSE>>)[4]
  <2>1. PICK p, q, z : a = Addc(p, q, z)
    BY <1>3 DEF IsSum
  <2>. QED  BY <2>1, FourthIs, Zenon
<1>. QED  BY <1>1, <1>2, <1>3

\* What an instruction is fed by src, and what it makes of it.
Feeds(x, src, b, c) == src.by # "register" /\ Operand2(x, src)[1] = b /\ Operand2(x, src)[2] = c
Sums(x, alu, rn, b, c, a) == IsSum(a) /\ Alu(alu, x.r[rn], b, c, x.cpsr.c) = a \o <<FALSE>>
Bits(x, alu, rn, b, c, r) == Alu(alu, x.r[rn], b, c, x.cpsr.c) = <<r, c, FALSE, TRUE>>

\* The same, of a sum and of an operation on bits, with the flags set and without.
LEMMA ProcessingSum ==
  ASSUME NEW x, Ready(x), NEW alu, NEW s, NEW rd, rd # PC, NEW rn,
         NEW src, NEW b, NEW c, Feeds(x, src, b, c),
         NEW a, Sums(x, alu, rn, b, c, a)
  PROVE  ArmExecute(x, Dp(alu, s, rd, rn, src)) =
           IF alu \in Tests THEN SetNzcv(x, a[1], a[2], a[3])
           ELSE IF s THEN SetNzcv(SetReg(x, rd, a[1]), a[1], a[2], a[3]) ELSE SetReg(x, rd, a[1])
<1> DEFINE t == a \o <<FALSE>>
           op == Operand2(x, src)
           u == Alu(alu, x.r[rn], op[1], op[2], x.cpsr.c)
<1>1. t[1] = a[1] /\ t[2] = a[2] /\ t[3] = a[3] /\ ~t[4] /\ IsMachine(x)
  BY SumsAre DEF Ready, Proper, Sums
<1>2. u = t
  BY DEF Sums, Feeds
<1>3. ArmExecute(x, Dp(alu, s, rd, rn, src)) =
        IF alu \in Tests THEN SetFlags(x, u[1], u[2], u[3], u[4])
        ELSE SetReg(IF s THEN SetFlags(x, u[1], u[2], u[3], u[4]) ELSE x, rd, u[1])
  BY Processing DEF Feeds
<1> HIDE DEF t, u
<1>4. SetFlags(x, u[1], u[2], u[3], u[4]) = SetNzcv(x, a[1], a[2], a[3]) /\ u[1] = a[1]
  BY <1>1, <1>2 DEF SetFlags
<1> DEFINE f == SetNzcv(x, a[1], a[2], a[3])
<1>5. f = SetFlags(x, u[1], u[2], u[3], u[4]) /\ SetReg(f, rd, a[1]) = SetNzcv(SetReg(x, rd, a[1]), a[1], a[2], a[3])
  BY <1>1, <1>4, FlagsAndRegister
<1> HIDE DEF f
<1>. QED  BY <1>3, <1>4, <1>5 DEF f

LEMMA ProcessingBits ==
  ASSUME NEW x, Ready(x), NEW alu, NEW s, NEW rd, rd # PC, NEW rn,
         NEW src, NEW b, NEW c, Feeds(x, src, b, c),
         NEW r, Bits(x, alu, rn, b, c, r)
  PROVE  ArmExecute(x, Dp(alu, s, rd, rn, src)) =
           IF alu \in Tests THEN SetNzc(x, r, c)
           ELSE IF s THEN SetNzc(SetReg(x, rd, r), r, c) ELSE SetReg(x, rd, r)
<1> DEFINE op == Operand2(x, src)
           u == Alu(alu, x.r[rn], op[1], op[2], x.cpsr.c)
<1>1. IsMachine(x)
  BY DEF Ready, Proper
<1>2. u = <<r, c, FALSE, TRUE>>
  <2>1. op[1] = b /\ op[2] = c
    BY DEF Feeds
  <2> HIDE DEF op
  <2>. QED  BY <2>1 DEF Bits
<1>3. ArmExecute(x, Dp(alu, s, rd, rn, src)) =
        IF alu \in Tests THEN SetFlags(x, u[1], u[2], u[3], u[4])
        ELSE SetReg(IF s THEN SetFlags(x, u[1], u[2], u[3], u[4]) ELSE x, rd, u[1])
  BY Processing DEF Feeds
<1> HIDE DEF u
<1>4. SetFlags(x, u[1], u[2], u[3], u[4]) = SetNzc(x, r, c) /\ u[1] = r
  BY <1>2 DEF SetFlags
<1> DEFINE f == SetNzc(x, r, c)
<1>5. f = SetFlags(x, u[1], u[2], u[3], u[4]) /\ SetReg(f, rd, r) = SetNzc(SetReg(x, rd, r), r, c)
  BY <1>1, <1>4, FlagsAndRegister
<1> HIDE DEF f
<1>. QED  BY <1>3, <1>4, <1>5 DEF f

\* The two are one: what a Thumb instruction does its ARM form does.
SameAs(x, i) == ThumbExecute(x, i) = ArmExecute(x, ArmForm(i)) /\ ArmForm(i).cond = "Al"

LEMMA LowIsNotPc == ASSUME NEW k \in Low PROVE k \in Register /\ k # PC /\ k # SP /\ k # LR /\ k \in Int
  BY DEF Low, Register, PC, SP, LR
LEMMA DpAlways == \A alu, s, rd, rn, src : Dp(alu, s, rd, rn, src).cond = "Al"
  BY DEF Dp
LEMMA PlainFeeds ==
  ASSUME NEW x, Proper(x)
  PROVE  /\ \A k \in Register : Feeds(x, Reg(k), x.r[k], x.cpsr.c)
         /\ \A v : Feeds(x, Imm(v), v, x.cpsr.c)
<1>1. \A v : Imm(v).by # "register" /\ Reg(v).by # "register"
  BY DEF Imm, Reg
<1>2. ASSUME NEW k \in Register PROVE Feeds(x, Reg(k), x.r[k], x.cpsr.c)
  <2>1. Operand2(x, Reg(k)) = <<x.r[k], x.cpsr.c>>
    BY PlainOperand
  <2>. QED  BY <1>1, <2>1 DEF Feeds
<1>3. ASSUME NEW v PROVE Feeds(x, Imm(v), v, x.cpsr.c)
  <2>1. 0 \in Register
    BY DEF Register
  <2>2. Operand2(x, Imm(v)) = <<v, x.cpsr.c>>
    BY <2>1, PlainOperand
  <2>. QED  BY <1>1, <2>2 DEF Feeds
<1>. QED  BY <1>2, <1>3

LEMMA MoveShiftedSame == ASSUME NEW x, Ready(x), NEW i, DecodedThumb(i), i.op = "t1" PROVE SameAs(x, i)
<1> DEFINE src == [by |-> "amount", shift |-> i.shift, rm |-> i.rs, n |-> i.n]
           res == Shift(i.shift, x.r[i.rs], i.n, x.cpsr.c, TRUE)
           v == res[1]
           c == res[2]
           alu == "mov"
           rn == 0
           rd == i.rd
           s == TRUE
<1>1. rd # PC /\ i.shift \in Shifts
  BY LowIsNotPc DEF DecodedThumb
<1>2. ArmForm(i) = Dp(alu, s, rd, rn, src) /\ ArmForm(i).cond = "Al" /\ s = TRUE
  BY DEF ArmForm, Dp
<1>3. Feeds(x, src, v, c)
  <2>1. Operand2(x, src) = res
    BY DEF Operand2
  <2>2. src.by # "register"
    OBVIOUS
  <2> HIDE DEF res, src
  <2>. QED  BY <2>1, <2>2 DEF Feeds
<1>4. ThumbExecute(x, i) = SetNzc(SetReg(x, rd, v), v, c)
  BY DEF ThumbExecute, MoveShifted
<1>5. alu \notin Tests /\ Bits(x, alu, rn, v, c, v)
  BY DEF Tests, Bits, Alu
<1> HIDE DEF alu, rn, rd, src, v, c, s
<1>6. ArmExecute(x, Dp(alu, s, rd, rn, src)) =
        IF alu \in Tests THEN SetNzc(x, v, c)
        ELSE IF s THEN SetNzc(SetReg(x, rd, v), v, c) ELSE SetReg(x, rd, v)
  BY <1>1, <1>3, <1>5, ProcessingBits
<1>. QED  BY <1>2, <1>4, <1>5, <1>6 DEF SameAs

LEMMA AddSubtractSame == ASSUME NEW x, Ready(x), NEW i, DecodedThumb(i), i.op = "t2" PROVE SameAs(x, i)
<1> DEFINE src == IF i.imm THEN Imm(i.operand) ELSE Reg(i.operand)
           alu == IF i.sub THEN "sub" ELSE "add"
           b == IF i.imm THEN i.operand ELSE x.r[i.operand]
           c == x.cpsr.c
           rn == i.rs
           rd == i.rd
           s == TRUE
           a == IF i.sub THEN Addc(x.r[rn], Not(b, Width), TRUE) ELSE Addc(x.r[rn], b, FALSE)
<1>1. rd # PC /\ i.operand \in Register /\ Proper(x)
  BY LowIsNotPc DEF DecodedThumb, Ready
<1>2. ArmForm(i) = Dp(alu, s, rd, rn, src) /\ ArmForm(i).cond = "Al" /\ s = TRUE
  BY DEF ArmForm, Dp
<1>3. Feeds(x, src, b, c)
  BY <1>1, PlainFeeds
<1>4. ThumbExecute(x, i) = SetNzcv(SetReg(x, rd, a[1]), a[1], a[2], a[3])
  BY DEF ThumbExecute, AddSubtract
<1>5. Sums(x, alu, rn, b, c, a) /\ alu \notin Tests
  BY SumsAre DEF Sums, Alu, Tests
<1> HIDE DEF src, alu, b, c, a, rn, rd, s
<1>7. ArmExecute(x, Dp(alu, s, rd, rn, src)) =
        IF alu \in Tests THEN SetNzcv(x, a[1], a[2], a[3])
        ELSE IF s THEN SetNzcv(SetReg(x, rd, a[1]), a[1], a[2], a[3]) ELSE SetReg(x, rd, a[1])
  BY <1>1, <1>3, <1>5, ProcessingSum
<1>. QED  BY <1>2, <1>4, <1>5, <1>7 DEF SameAs

\* The carry as it was.
Carried(x, c) == c = x.cpsr.c
LEMMA PlainBits ==
  ASSUME NEW x, Ready(x), NEW alu, NEW s, NEW rd, rd # PC, NEW rn,
         NEW src, NEW b, NEW c, Carried(x, c), Feeds(x, src, b, c),
         NEW r, Bits(x, alu, rn, b, c, r)
  PROVE  ArmExecute(x, Dp(alu, s, rd, rn, src)) =
           IF alu \in Tests THEN SetNz(x, r)
           ELSE IF s THEN SetNz(SetReg(x, rd, r), r) ELSE SetReg(x, rd, r)
<1>1. IsMachine(x)
  BY DEF Ready, Proper
<1>2. SetNzc(x, r, c) = SetNz(x, r) /\ SetNzc(SetReg(x, rd, r), r, c) = SetNz(SetReg(x, rd, r), r)
  BY <1>1, FlagsAndRegister DEF Carried
<1>4. ArmExecute(x, Dp(alu, s, rd, rn, src)) =
           IF alu \in Tests THEN SetNzc(x, r, c)
           ELSE IF s THEN SetNzc(SetReg(x, rd, r), r, c) ELSE SetReg(x, rd, r)
  BY ProcessingBits
<1>. QED  BY <1>2, <1>4

LEMMA ImmediateSame == ASSUME NEW x, Ready(x), NEW i, DecodedThumb(i), i.op = "t3" PROVE SameAs(x, i)
<1> DEFINE src == Imm(i.imm)
           alu == i.alu
           b == i.imm
           c == x.cpsr.c
           rd == i.rd
           s == TRUE
           a == IF i.alu = "add" THEN Addc(x.r[rd], b, FALSE) ELSE Addc(x.r[rd], Not(b, Width), TRUE)
<1>1. rd # PC /\ Proper(x) /\ alu \in {"mov", "cmp", "add", "sub"}
  BY LowIsNotPc DEF DecodedThumb, Ready
<1>2. ArmForm(i) = Dp(alu, s, rd, rd, src) /\ ArmForm(i).cond = "Al" /\ s = TRUE
  BY DEF ArmForm, Dp
<1>3. Feeds(x, src, b, c)
  BY <1>1, PlainFeeds
<1>4. ThumbExecute(x, i) = CASE alu = "mov" -> SetNz(SetReg(x, rd, b), b)
                             [] alu = "cmp" -> SetNzcv(x, a[1], a[2], a[3])
                             [] OTHER -> SetNzcv(SetReg(x, rd, a[1]), a[1], a[2], a[3])
  BY DEF ThumbExecute, Immediate
<1>5. ASSUME alu = "mov" PROVE alu \notin Tests /\ Bits(x, alu, rd, b, c, b)
  BY <1>5, Zenon DEF Tests, Bits, Alu
<1>6. ASSUME alu # "mov" PROVE Sums(x, alu, rd, b, c, a) /\ (alu \in Tests <=> alu = "cmp")
  BY <1>1, <1>6, SumsAre, Zenon DEF Sums, Alu, Tests
<1>9. Carried(x, c)
  BY DEF Carried
<1> HIDE DEF src, alu, b, c, a, rd, s
<1>7. CASE alu = "mov"
  <2>1. ArmExecute(x, Dp(alu, s, rd, rd, src)) =
           IF alu \in Tests THEN SetNz(x, b)
           ELSE IF s THEN SetNz(SetReg(x, rd, b), b) ELSE SetReg(x, rd, b)
    BY <1>1, <1>3, <1>5, <1>7, <1>9, PlainBits
  <2>. QED  BY <1>2, <1>4, <1>5, <1>7, <2>1 DEF SameAs
<1>8. CASE alu # "mov"
  <2>1. ArmExecute(x, Dp(alu, s, rd, rd, src)) =
          IF alu \in Tests THEN SetNzcv(x, a[1], a[2], a[3])
          ELSE IF s THEN SetNzcv(SetReg(x, rd, a[1]), a[1], a[2], a[3]) ELSE SetReg(x, rd, a[1])
    BY <1>1, <1>3, <1>6, <1>8, ProcessingSum
  <2>. QED  BY <1>2, <1>4, <1>6, <1>8, <2>1 DEF SameAs
<1>. QED  BY <1>7, <1>8

\* The operations on bits of the format that names one of sixteen.
LogicalAlus == {"and", "eor", "tst", "orr", "bic", "mvn"}
LEMMA ThumbLogicalSame ==
  ASSUME NEW x, Ready(x), NEW i, DecodedThumb(i), i.op = "t4", i.alu \in LogicalAlus PROVE SameAs(x, i)
<1> DEFINE src == Reg(i.rs)
           alu == i.alu
           rd == i.rd
           b == x.r[i.rs]
           c == x.cpsr.c
           s == TRUE
           r == CASE alu \in {"and", "tst"} -> And(x.r[rd], b, Width) [] alu = "eor" -> Xor(x.r[rd], b, Width)
                  [] alu = "orr" -> Or(x.r[rd], b, Width) [] alu = "bic" -> And(x.r[rd], Not(b, Width), Width)
                  [] alu = "mvn" -> Not(b, Width)
<1>1. rd # PC /\ Proper(x) /\ i.rs \in Register
  BY LowIsNotPc DEF DecodedThumb, Ready
<1>2. ArmForm(i) = Dp(alu, s, rd, rd, src) /\ ArmForm(i).cond = "Al" /\ s = TRUE
  BY DEF ArmForm, Dp, LogicalAlus, Shifts
<1>3. Feeds(x, src, b, c)
  BY <1>1, PlainFeeds
<1>4. ThumbExecute(x, i) = IF alu = "tst" THEN SetNz(x, r) ELSE SetNz(SetReg(x, rd, r), r)
  <2>1. ThumbExecute(x, i) = ThumbAlu(x, i)
    BY DEF ThumbExecute
  <2>2. CASE alu \in {"and", "tst"}
    BY <2>1, <2>2 DEF ThumbAlu, Shifts
  <2>3. CASE alu \in {"eor", "orr"}
    BY <2>1, <2>3 DEF ThumbAlu, Shifts
  <2>4. CASE alu \in {"bic", "mvn"}
    BY <2>1, <2>4 DEF ThumbAlu, Shifts
  <2>. QED  BY <2>2, <2>3, <2>4 DEF LogicalAlus
<1>5. Bits(x, alu, rd, b, c, r) /\ (alu \in Tests <=> alu = "tst")
  BY DEF Tests, Bits, Alu, LogicalAlus
<1>9. Carried(x, c)
  BY DEF Carried
<1> HIDE DEF src, alu, b, c, rd, s, r
<1>6. ArmExecute(x, Dp(alu, s, rd, rd, src)) =
           IF alu \in Tests THEN SetNz(x, r)
           ELSE IF s THEN SetNz(SetReg(x, rd, r), r) ELSE SetReg(x, rd, r)
  BY <1>1, <1>3, <1>5, <1>9, PlainBits
<1>. QED  BY <1>2, <1>4, <1>5, <1>6 DEF SameAs

SumAlus == {"adc", "sbc", "cmp", "cmn", "neg"}
LEMMA ThumbSumSame ==
  ASSUME NEW x, Ready(x), NEW i, DecodedThumb(i), i.op = "t4", i.alu \in SumAlus PROVE SameAs(x, i)
<1> DEFINE src == IF i.alu = "neg" THEN Imm(0) ELSE Reg(i.rs)
           alu == IF i.alu = "neg" THEN "rsb" ELSE i.alu
           rn == IF i.alu = "neg" THEN i.rs ELSE i.rd
           rd == i.rd
           u == x.r[i.rd]
           v == x.r[i.rs]
           b == IF i.alu = "neg" THEN 0 ELSE v
           c == x.cpsr.c
           s == TRUE
           a == CASE i.alu = "adc" -> Addc(u, v, c) [] i.alu = "sbc" -> Addc(u, Not(v, Width), c)
                  [] i.alu = "cmp" -> Addc(u, Not(v, Width), TRUE) [] i.alu = "cmn" -> Addc(u, v, FALSE)
                  [] i.alu = "neg" -> Addc(0, Not(v, Width), TRUE)
<1>1. rd # PC /\ Proper(x) /\ i.rs \in Register
  BY LowIsNotPc DEF DecodedThumb, Ready
<1>2. ArmForm(i) = Dp(alu, s, rd, rn, src) /\ ArmForm(i).cond = "Al" /\ s = TRUE
  BY DEF ArmForm, Dp, SumAlus, Shifts
<1>3. Feeds(x, src, b, c)
  BY <1>1, PlainFeeds
<1>4. ThumbExecute(x, i) = IF alu \in {"cmp", "cmn"} THEN SetNzcv(x, a[1], a[2], a[3])
                           ELSE SetNzcv(SetReg(x, rd, a[1]), a[1], a[2], a[3])
  <2>1. ThumbExecute(x, i) = ThumbAlu(x, i)
    BY DEF ThumbExecute
  <2>2. CASE i.alu \in {"adc", "sbc"}
    BY <2>1, <2>2 DEF ThumbAlu, Shifts
  <2>3. CASE i.alu \in {"cmp", "cmn"}
    BY <2>1, <2>3 DEF ThumbAlu, Shifts
  <2>4. CASE i.alu = "neg"
    BY <2>1, <2>4 DEF ThumbAlu, Shifts
  <2>. QED  BY <2>2, <2>3, <2>4, Zenon DEF SumAlus
<1>5. Sums(x, alu, rn, b, c, a) /\ (alu \in Tests <=> alu \in {"cmp", "cmn"})
  <2>1. alu \in Tests <=> alu \in {"cmp", "cmn"}
    BY DEF Tests, SumAlus
  <2>2. IsSum(a)
    BY SumsAre, Zenon DEF SumAlus
  <2>3. Alu(alu, x.r[rn], b, c, x.cpsr.c) = a \o <<FALSE>>
    BY Zenon DEF Alu, SumAlus
  <2>. QED  BY <2>1, <2>2, <2>3, Zenon DEF Sums
<1> HIDE DEF src, alu, b, c, rd, rn, u, v, s, a
<1>6. ArmExecute(x, Dp(alu, s, rd, rn, src)) =
          IF alu \in Tests THEN SetNzcv(x, a[1], a[2], a[3])
          ELSE IF s THEN SetNzcv(SetReg(x, rd, a[1]), a[1], a[2], a[3]) ELSE SetReg(x, rd, a[1])
  BY <1>1, <1>3, <1>5, ProcessingSum
<1>. QED  BY <1>2, <1>4, <1>5, <1>6 DEF SameAs

LEMMA ThumbShiftSame ==
  ASSUME NEW x, Ready(x), NEW i, DecodedThumb(i), i.op = "t4", i.alu \in Shifts PROVE SameAs(x, i)
<1> DEFINE src == [by |-> "register", shift |-> i.alu, rm |-> i.rd, rs |-> i.rs]
           j == ArmForm(i)
           rd == i.rd
           op == Shift(i.alu, x.r[rd], x.r[i.rs] % AmountSpan, x.cpsr.c, FALSE)
           v == op[1]
           c == op[2]
           s == TRUE
           y == Ticks(x, 1)
<1>1. rd # PC /\ IsMachine(x)
  BY LowIsNotPc DEF DecodedThumb, Ready, Proper
<1>2. j = Dp("mov", s, rd, 0, src) /\ s = TRUE
  <2>1. i.op = "t4" /\ i.alu \in Shifts
    OBVIOUS
  <2>. QED  BY ONLY <2>1 DEF ArmForm, Dp, Shifts
<1>3. ThumbExecute(x, i) = Ticks(SetNzc(SetReg(x, rd, v), v, c), 1)
  <2>1. ThumbExecute(x, i) = ThumbAlu(x, i)
    BY DEF ThumbExecute
  <2>. QED  BY <2>1 DEF ThumbAlu, Shifts
<1>4. Operand2(x, src) = op /\ src.by = "register"
  <2>1. Late(x, src.rm) = x.r[rd]
    BY <1>1 DEF Late
  <2> HIDE DEF rd
  <2>. QED  BY <2>1 DEF Operand2
<1>5. Alu("mov", Late(x, 0), v, c, x.cpsr.c) = <<v, c, FALSE, TRUE>>
  BY DEF Alu
<1> HIDE DEF src, op, v, c, s, rd, y
<1>6. j.op = "dp" /\ j.cond = "Al" /\ j.alu = "mov" /\ j.s = s /\ j.rd = rd /\ j.rn = 0 /\ j.src = src
  <2> HIDE DEF j
  <2>. QED  BY <1>2 DEF Dp
<1> HIDE DEF j
<1>7. ArmExecute(x, j) = SetReg(SetNzc(y, v, c), rd, v)
  <2> DEFINE res == Alu(j.alu, Late(x, j.rn), Operand2(x, j.src)[1], Operand2(x, j.src)[2], x.cpsr.c)
  <2>1. res = <<v, c, FALSE, TRUE>>
    BY <1>4, <1>5, <1>6 DEF v, c
  <2> HIDE DEF res
  <2>2. SetFlags(y, res[1], res[2], res[3], res[4]) = SetNzc(y, v, c) /\ res[1] = v
    BY <2>1 DEF SetFlags
  <2>3. ArmExecute(x, j) = DataProcessing(x, j)
    BY <1>6 DEF ArmExecute
  <2>4. DataProcessing(x, j) = SetReg(SetFlags(y, res[1], res[2], res[3], res[4]), rd, res[1])
    BY <1>1, <1>2, <1>4, <1>6, Zenon DEF DataProcessing, res, Tests, y
  <2>. QED  BY <2>2, <2>3, <2>4
<1>8. Ticks(SetNzc(SetReg(x, rd, v), v, c), 1) = SetReg(SetNzc(y, v, c), rd, v)
  BY <1>1, FlagsAndRegister DEF y
<1>. QED  BY <1>3, <1>6, <1>7, <1>8 DEF SameAs, j

LEMMA MultiplierStops == ASSUME NEW v \in Word PROVE MultiplyM(v) \in 1..4
<1> DEFINE P(k) == v \div 2^(k * Byte) \in {0, 2^(Width - k * Byte) - 1}
           Stops(k) == P(k) /\ \A j \in 1..(k - 1) : v \div 2^(j * Byte) \notin {0, 2^(Width - j * Byte) - 1}
<1>1. P(4)
  <2>1. 4 * Byte = Width
    BY ByteType
  <2>2. v \in 0..(Full - 1) /\ Full \in Nat
    BY HalfFull
  <2>3. v \div Full = 0
    <3> HIDE DEF P
    <3>. QED  BY <2>2, DividedOnce
  <2>. QED  BY <2>1, <2>3 DEF Full
<1>2. \E k \in 1..4 : Stops(k)
  <2>1. Stops(1) \/ ~P(1)
    OBVIOUS
  <2>2. Stops(2) \/ P(1) \/ ~P(2)
    <3>1. 1..(2 - 1) = {1}
      OBVIOUS
    <3>. QED  BY <3>1
  <2>3. Stops(3) \/ P(1) \/ P(2) \/ ~P(3)
    <3>1. 1..(3 - 1) = {1, 2}
      OBVIOUS
    <3>. QED  BY <3>1
  <2>4. Stops(4) \/ P(1) \/ P(2) \/ P(3)
    <3>1. 1..(4 - 1) = {1, 2, 3}
      OBVIOUS
    <3>. QED  BY <1>1, <3>1
  <2> HIDE DEF Stops, P
  <2>. QED  BY <2>1, <2>2, <2>3, <2>4
<1>3. MultiplyM(v) = CHOOSE k \in 1..4 : Stops(k)
  BY DEF MultiplyM
<1> HIDE DEF Stops
<1>. QED  BY <1>2, <1>3

LEMMA ThumbMultiplySame ==
  ASSUME NEW x, Ready(x), NEW i, DecodedThumb(i), i.op = "t4", i.alu = "mul" PROVE SameAs(x, i)
<1> DEFINE j == ArmForm(i)
           rd == i.rd
           a == x.r[rd]
           b == x.r[i.rs]
           r == Wrap(a * b)
           n == MultiplyM(a)
<1>1. rd # PC /\ i.rs # PC /\ IsMachine(x) /\ rd \in Register /\ i.rs \in Register
  BY LowIsNotPc DEF DecodedThumb, Ready, Proper
<1>2. a \in Word /\ a \in Int /\ b \in Int
  BY <1>1, ProperParts, WordsAreInt DEF Ready
<1>3. ThumbExecute(x, i) = Ticks(SetNz(SetReg(x, rd, r), r), n)
  <2>1. ThumbExecute(x, i) = ThumbAlu(x, i)
    BY DEF ThumbExecute
  <2>. QED  BY <2>1 DEF ThumbAlu, Shifts
<1>4. j.op = "mul" /\ j.cond = "Al" /\ ~j.acc /\ j.s /\ j.rd = rd /\ j.rs = rd /\ j.rm = i.rs
  BY DEF ArmForm, Shifts
<1> HIDE DEF j
<1>5. Late(x, j.rs) = a /\ Late(x, j.rm) = b
  BY <1>1, <1>4 DEF Late
<1>6. n + 0 = n
  BY <1>2, MultiplierStops
<1> HIDE DEF n, rd, a, b
<1>7. b * a + 0 = a * b
  BY <1>2
<1>8. Multiply(x, j) = SetNz(SetReg(Ticks(x, n), rd, r), r)
  <2>1. Multiply(x, j) = LET w == Wrap(b * a + 0) IN SetNz(SetReg(Ticks(x, n + 0), rd, w), w)
    BY <1>4, <1>5 DEF Multiply, n
  <2>. QED  BY <1>6, <1>7, <2>1
<1>9. ArmExecute(x, j) = Multiply(x, j)
  BY <1>4 DEF ArmExecute
<1> HIDE DEF r
<1>10. Ticks(SetNz(SetReg(x, rd, r), r), n) = SetNz(SetReg(Ticks(x, n), rd, r), r)
  BY <1>1, FlagsAndRegister
<1>. QED  BY <1>3, <1>4, <1>8, <1>9, <1>10 DEF SameAs, j

LEMMA HiRegisterSame ==
  ASSUME NEW x, Ready(x), NEW i, DecodedThumb(i), i.op = "t5", HasArmForm(x, i) PROVE SameAs(x, i)
<1> DEFINE j == ArmForm(i)
           rd == i.rd
           u == x.r[i.rd]
           b == x.r[i.rs]
           c == x.cpsr.c
           src == Reg(i.rs)
<1>1. /\ Proper(x) /\ i.alu \in {"add", "cmp", "mov", "bx"} /\ rd \in Register /\ i.rs \in Register
      /\ rd # PC \/ i.alu \in {"cmp", "bx"}
  BY DEF DecodedThumb, Ready, HasArmForm
<1>2. Feeds(x, src, b, c) /\ 0 # PC /\ Carried(x, c)
  BY <1>1, PlainFeeds DEF PC, Carried
<1>3. u \in Int /\ b \in Int
  BY <1>1, ProperParts
<1>4. ThumbExecute(x, i) = HiRegister(x, i)
  BY DEF ThumbExecute
<1>5. CASE i.alu = "bx"
  <2>1. j = [op |-> "bx", cond |-> "Al", rn |-> i.rs]
    BY <1>5 DEF ArmForm
  <2>2. ArmExecute(x, j) = BranchExchange(x, i.rs) /\ j.cond = "Al"
    BY <2>1 DEF ArmExecute
  <2> HIDE DEF j
  <2>. QED  BY <1>4, <1>5, <2>2 DEF HiRegister, SameAs, j
<1>6. CASE i.alu = "cmp"
  <2> DEFINE alu == "cmp"
             s == TRUE
             d == 0
             a == Addc(u, Not(b, Width), TRUE)
  <2>1. ArmForm(i) = Dp(alu, s, d, rd, src) /\ ArmForm(i).cond = "Al" /\ d # PC
    BY <1>2, <1>6 DEF ArmForm, Dp
  <2>2. ThumbExecute(x, i) = SetNzcv(x, a[1], a[2], a[3])
    BY <1>4, <1>6 DEF HiRegister
  <2>3. Sums(x, alu, rd, b, c, a) /\ alu \in Tests
    BY SumsAre DEF Sums, Alu, Tests
  <2> HIDE DEF alu, s, d, a, src, rd, b, c, u
  <2>4. ArmExecute(x, Dp(alu, s, d, rd, src)) =
          IF alu \in Tests THEN SetNzcv(x, a[1], a[2], a[3])
          ELSE IF s THEN SetNzcv(SetReg(x, d, a[1]), a[1], a[2], a[3]) ELSE SetReg(x, d, a[1])
    BY <1>2, <2>1, <2>3, ProcessingSum
  <2>. QED  BY <2>1, <2>2, <2>3, <2>4 DEF SameAs
<1>7. CASE i.alu = "add"
  <2> DEFINE alu == "add"
             s == FALSE
             a == Addc(u, b, FALSE)
  <2>1. ArmForm(i) = Dp(alu, s, rd, rd, src) /\ ArmForm(i).cond = "Al" /\ ~s
    BY <1>7 DEF ArmForm, Dp
  <2>2. a[1] = Wrap(u + b)
    <3>1. u + b + Flag(FALSE, 0) = u + b
      BY <1>3 DEF Flag
    <3> HIDE DEF u, b
    <3>. QED  BY <3>1 DEF Addc
  <2>3. ThumbExecute(x, i) = SetReg(x, rd, a[1])
    <3>1. rd # PC
      BY <1>1, <1>7
    <3> HIDE DEF a
    <3>. QED  BY <1>4, <1>7, <2>2, <3>1 DEF HiRegister
  <2>4. Sums(x, alu, rd, b, c, a) /\ alu \notin Tests
    BY SumsAre DEF Sums, Alu, Tests
  <2> HIDE DEF alu, s, a, src, rd, b, c, u
  <2>5. ArmExecute(x, Dp(alu, s, rd, rd, src)) =
          IF alu \in Tests THEN SetNzcv(x, a[1], a[2], a[3])
          ELSE IF s THEN SetNzcv(SetReg(x, rd, a[1]), a[1], a[2], a[3]) ELSE SetReg(x, rd, a[1])
    BY <1>1, <1>2, <1>7, <2>4, ProcessingSum
  <2>. QED  BY <2>1, <2>3, <2>4, <2>5 DEF SameAs
<1>8. CASE i.alu = "mov"
  <2> DEFINE alu == "mov"
             s == FALSE
  <2>1. ArmForm(i) = Dp(alu, s, rd, rd, src) /\ ArmForm(i).cond = "Al" /\ ~s
    BY <1>8 DEF ArmForm, Dp
  <2>2. ThumbExecute(x, i) = SetReg(x, rd, b)
    BY <1>1, <1>4, <1>8 DEF HiRegister
  <2>3. Bits(x, alu, rd, b, c, b) /\ alu \notin Tests
    BY DEF Bits, Alu, Tests
  <2> HIDE DEF alu, s, src, rd, b, c
  <2>4. ArmExecute(x, Dp(alu, s, rd, rd, src)) =
           IF alu \in Tests THEN SetNz(x, b)
           ELSE IF s THEN SetNz(SetReg(x, rd, b), b) ELSE SetReg(x, rd, b)
    BY <1>1, <1>2, <1>8, <2>3, PlainBits
  <2>. QED  BY <2>1, <2>2, <2>3, <2>4 DEF SameAs
<1>. QED  BY <1>1, <1>5, <1>6, <1>7, <1>8

LEMMA LoadAddressSame ==
  ASSUME NEW x, Ready(x), NEW i, DecodedThumb(i), i.op = "t12", HasArmForm(x, i) PROVE SameAs(x, i)
<1> DEFINE rd == i.rd
           rn == IF i.sp THEN SP ELSE PC
           b == 4 * i.imm
           c == x.cpsr.c
           src == Imm(b)
           alu == "add"
           s == FALSE
           a == Addc(x.r[rn], b, FALSE)
<1>1. Proper(x) /\ rd # PC /\ i.imm \in Word /\ rn \in Register
  BY LowIsNotPc DEF DecodedThumb, Ready, SP, PC, Register
<1>2. Feeds(x, src, b, c)
  BY <1>1, PlainFeeds
<1>3. x.r[rn] \in Int /\ b \in Int
  BY <1>1, ProperParts, WordsAreInt
<1>4. ArmForm(i) = Dp(alu, s, rd, rn, src) /\ ArmForm(i).cond = "Al" /\ ~s
  BY DEF ArmForm, Dp
<1>5. a[1] = Wrap(x.r[rn] + b)
  <2>1. x.r[rn] + b + Flag(FALSE, 0) = x.r[rn] + b
    BY <1>3 DEF Flag
  <2> HIDE DEF rn, b
  <2>. QED  BY <2>1 DEF Addc
<1>6. ThumbExecute(x, i) = SetReg(x, rd, a[1])
  <2>1. x.r[rn] = IF i.sp THEN x.r[SP] ELSE WordAligned(x.r[PC])
    <3>1. ~i.sp => x.r[PC] % 4 = 0
      BY DEF HasArmForm
    <3>. QED  BY <1>3, <3>1 DEF WordAligned
  <2>2. ThumbExecute(x, i) = LoadAddress(x, i)
    BY DEF ThumbExecute
  <2> DEFINE w == IF i.sp THEN x.r[SP] ELSE WordAligned(x.r[PC])
  <2>3. LoadAddress(x, i) = SetReg(x, rd, Wrap(w + b))
    BY DEF LoadAddress
  <2> HIDE DEF w, rn, b, a
  <2>. QED  BY <1>5, <2>1, <2>2, <2>3 DEF w
<1>7. Sums(x, alu, rn, b, c, a) /\ alu \notin Tests
  BY SumsAre DEF Sums, Alu, Tests
<1> HIDE DEF alu, s, a, src, rd, rn, b, c
<1>8. ArmExecute(x, Dp(alu, s, rd, rn, src)) =
          IF alu \in Tests THEN SetNzcv(x, a[1], a[2], a[3])
          ELSE IF s THEN SetNzcv(SetReg(x, rd, a[1]), a[1], a[2], a[3]) ELSE SetReg(x, rd, a[1])
  BY <1>1, <1>2, <1>7, ProcessingSum
<1>. QED  BY <1>4, <1>6, <1>7, <1>8 DEF SameAs

LEMMA AddToSpSame == ASSUME NEW x, Ready(x), NEW i, DecodedThumb(i), i.op = "t13" PROVE SameAs(x, i)
<1> DEFINE rd == SP
           b == 4 * i.imm
           c == x.cpsr.c
           src == Imm(b)
           alu == IF i.minus THEN "sub" ELSE "add"
           s == FALSE
           a == IF i.minus THEN Addc(x.r[rd], Not(b, Width), TRUE) ELSE Addc(x.r[rd], b, FALSE)
<1>1. Proper(x) /\ rd # PC /\ i.imm \in Word /\ i.minus \in BOOLEAN
  BY DEF DecodedThumb, Ready, SP, PC
<1>2. Feeds(x, src, b, c)
  BY <1>1, PlainFeeds
<1>3. x.r[rd] \in Int /\ b \in Int
  BY <1>1, ProperParts, WordsAreInt
<1>4. ArmForm(i) = Dp(alu, s, rd, rd, src) /\ ArmForm(i).cond = "Al" /\ ~s
  BY DEF ArmForm, Dp
<1>5. a[1] = IF i.minus THEN Wrap(x.r[rd] - b) ELSE Wrap(x.r[rd] + b)
  <2>1. x.r[rd] + b + Flag(FALSE, 0) = x.r[rd] + b
    BY <1>3 DEF Flag
  <2>2. x.r[rd] + Not(b, Width) + Flag(TRUE, 0) = (x.r[rd] - b) + Full * 1
    <3>1. Full \in Int /\ Not(b, Width) = Full - 1 - b
      BY HalfFull DEF Full, Not
    <3> DEFINE k == Flag(TRUE, 0)
               v == x.r[rd]
    <3>2. k = 1
      BY DEF Flag
    <3> HIDE DEF b, k, v, rd
    <3>3. v \in Int /\ b \in Int
      BY <1>3 DEF v
    <3>4. v + Not(b, Width) + k = (v - b) + Full * 1
      BY <3>1, <3>2, <3>3
    <3>. QED  BY <3>4 DEF k, v
  <2>3. Wrap((x.r[rd] - b) + Full * 1) = Wrap(x.r[rd] - b)
    BY <1>3, WrapTurn
  <2> HIDE DEF rd, b
  <2>. QED  BY <2>1, <2>2, <2>3 DEF Addc
<1>6. ThumbExecute(x, i) = SetReg(x, rd, a[1])
  <2> HIDE DEF a
  <2>. QED  BY <1>5 DEF ThumbExecute, AddToSp
<1>7. Sums(x, alu, rd, b, c, a) /\ alu \notin Tests
  BY SumsAre, Zenon DEF Sums, Alu, Tests
<1> HIDE DEF alu, s, a, src, rd, b, c
<1>8. ArmExecute(x, Dp(alu, s, rd, rd, src)) =
          IF alu \in Tests THEN SetNzcv(x, a[1], a[2], a[3])
          ELSE IF s THEN SetNzcv(SetReg(x, rd, a[1]), a[1], a[2], a[3]) ELSE SetReg(x, rd, a[1])
  BY <1>1, <1>2, <1>7, ProcessingSum
<1>. QED  BY <1>4, <1>6, <1>7, <1>8 DEF SameAs

\* The offset an address takes from src.
Displaces(x, src, off) == off = IF src.by = "imm" THEN src.imm ELSE Operand2(x, src)[1]
LEMMA PlainDisplaces ==
  ASSUME NEW x, Proper(x)
  PROVE  /\ \A k \in Register : Displaces(x, Reg(k), x.r[k])
         /\ \A v : Displaces(x, Imm(v), v)
<1>1. \A v : Imm(v).by = "imm" /\ Imm(v).imm = v /\ Reg(v).by # "imm"
  BY DEF Imm, Reg
<1>2. ASSUME NEW k \in Register PROVE Displaces(x, Reg(k), x.r[k])
  <2>1. Operand2(x, Reg(k)) = <<x.r[k], x.cpsr.c>>
    BY PlainOperand
  <2>. QED  BY <1>1, <2>1 DEF Displaces
<1>. QED  BY <1>1, <1>2 DEF Displaces

LEMMA LdrIs ==
  ASSUME NEW x, NEW load, NEW byte, NEW rd, rd # PC, NEW rn, NEW src, NEW off, Displaces(x, src, off)
  PROVE  /\ ArmExecute(x, Ldr(load, byte, rd, rn, src)) = Transfer(x, Wrap(x.r[rn] + off), rd, load, byte)
         /\ Ldr(load, byte, rd, rn, src).cond = "Al"
<1> DEFINE i == Ldr(load, byte, rd, rn, src)
           to == IF i.src.by = "imm" THEN i.src.imm ELSE Operand2(x, i.src)[1]
           addr == Wrap(x.r[rn] + off)
<1>1. /\ i.op = "ldr" /\ i.cond = "Al" /\ i.load = load /\ i.byte = byte /\ i.rd = rd /\ i.rn = rn
      /\ i.src = src /\ i.pre /\ i.up /\ ~i.wb
  BY DEF Ldr
<1> HIDE DEF i
<1>2. to = off
  BY <1>1 DEF Displaces
<1>3. ArmExecute(x, i) = SingleDataTransfer(x, i)
  BY <1>1 DEF ArmExecute
<1>4. Displaced(x, i, to) = addr
  BY <1>1, <1>2 DEF Displaced
<1>5. Late(x, i.rd) = x.r[rd]
  BY <1>1 DEF Late
<1> HIDE DEF to, addr
<1>6. SingleDataTransfer(x, i) =
        IF load THEN SetReg(Ticks(x, 1), rd, IF byte THEN ReadByte(x, addr) ELSE LoadWord(x, addr))
        ELSE IF byte THEN WriteByte(x, addr, x.r[rd]) ELSE WriteWord(x, addr, x.r[rd])
  BY <1>1, <1>4, <1>5 DEF SingleDataTransfer, to
<1>. QED  BY <1>1, <1>3, <1>6 DEF Transfer, addr, i

HalfDisplaces(x, src, off) == off = IF src.by = "imm" THEN src.imm ELSE x.r[src.rm]
LEMMA LdrhIs ==
  ASSUME NEW x, NEW load, NEW sh, NEW rd, rd # PC, NEW rn, NEW src, NEW off, HalfDisplaces(x, src, off)
  PROVE  LET addr == Wrap(x.r[rn] + off) IN
         /\ ArmExecute(x, Ldrh(load, sh, rd, rn, src)) =
              IF load THEN SetReg(Ticks(x, 1), rd, CASE sh = "half" -> LoadHalf(x, addr)
                                                     [] sh = "sbyte" -> LoadSByte(x, addr)
                                                     [] sh = "shalf" -> LoadSHalf(x, addr))
              ELSE WriteHalf(x, addr, x.r[rd])
         /\ Ldrh(load, sh, rd, rn, src).cond = "Al"
<1> DEFINE i == Ldrh(load, sh, rd, rn, src)
           to == IF i.src.by = "imm" THEN i.src.imm ELSE x.r[i.src.rm]
           addr == Wrap(x.r[rn] + off)
<1>1. /\ i.op = "ldrh" /\ i.cond = "Al" /\ i.load = load /\ i.sh = sh /\ i.rd = rd /\ i.rn = rn
      /\ i.src = src /\ i.pre /\ i.up /\ ~i.wb
  BY DEF Ldrh
<1> HIDE DEF i
<1>2. to = off
  BY <1>1 DEF HalfDisplaces
<1>3. ArmExecute(x, i) = HalfwordSignedTransfer(x, i)
  BY <1>1 DEF ArmExecute
<1>4. Displaced(x, i, to) = addr
  BY <1>1, <1>2 DEF Displaced
<1>5. Late(x, i.rd) = x.r[rd]
  BY <1>1 DEF Late
<1> HIDE DEF addr
<1>6. HalfwordSignedTransfer(x, i) =
        IF i.load THEN SetReg(Ticks(x, 1), i.rd, CASE i.sh = "half" -> LoadHalf(x, addr)
                                                   [] i.sh = "sbyte" -> LoadSByte(x, addr)
                                                   [] i.sh = "shalf" -> LoadSHalf(x, addr))
        ELSE WriteHalf(x, addr, x.r[rd])
  <2> DEFINE there == Displaced(x, i, to)
             at == IF i.pre THEN there ELSE x.r[i.rn]
             Base(y) == IF ~i.pre \/ i.wb THEN WriteBack(y, i.rn, there) ELSE y
  <2>1. HalfwordSignedTransfer(x, i) =
          IF i.load THEN SetReg(Base(Ticks(x, 1)), i.rd, CASE i.sh = "half" -> LoadHalf(x, at)
                                                           [] i.sh = "sbyte" -> LoadSByte(x, at)
                                                           [] i.sh = "shalf" -> LoadSHalf(x, at))
          ELSE Base(WriteHalf(x, at, Late(x, i.rd)))
    BY Zenon DEF HalfwordSignedTransfer
  <2>2. at = addr /\ \A y : Base(y) = y
    BY <1>1, <1>4
  <2> HIDE DEF at, there, Base
  <2>. QED  BY <1>5, <2>1, <2>2, Zenon
<1>. QED  BY <1>1, <1>3, <1>6, Zenon DEF addr, i

\* A word at an aligned address is read as it is.
LEMMA WordLoaded == ASSUME NEW x, Proper(x), NEW a \in Int, a % 4 = 0 PROVE LoadWord(x, a) = ReadWord(x, a)
<1> DEFINE w == ReadWord(x, a)
           n == (a % 4) * Byte
<1>1. w \in Word /\ n = 0
  BY ProperReads, ByteType
<1>2. LoadWord(x, a) = RotatedRight(w, n, Width)
  BY DEF LoadWord
<1> HIDE DEF w, n
<1>3. n \in Nat /\ n % Width = 0
  BY <1>1, WidthType
<1>4. RotatedRight(w, n, Width) = 2^(Width - 0) * (w % 2^0) + (w \div 2^0)
  BY <1>1, <1>3, RotatedIs
<1>5. w \in Nat /\ 2^0 = 1 /\ Full \in Nat
  BY <1>1, WordsAreNat, HalfFull
<1>6. 2^(Width - 0) = Full
  BY WidthType DEF Full
<1>7. w % 1 = 0 /\ w \div 1 = w
  BY <1>5
<1>8. RotatedRight(w, n, Width) = Full * 0 + w
  BY <1>4, <1>5, <1>6, <1>7
<1>. QED  BY <1>2, <1>5, <1>8 DEF w
LEMMA AlignedStays == ASSUME NEW v \in Int, v % 4 = 0 PROVE Wrap(v) % 4 = 0
<1>1. PICK q \in Int : v = Full * q + Wrap(v)
  BY WrapWord
<1>2. PICK h \in Int : Full = 4 * h
  <2>1. Width - 2 \in 0..(2 * Width) /\ (Width - 2) + 1 = Width - 1 /\ (Width - 1) + 1 = Width /\ Width - 1 \in 0..(2 * Width)
    BY WidthType
  <2>2. 2^(Width - 1) = 2 * 2^(Width - 2) /\ Full = 2 * 2^(Width - 1) /\ 2^(Width - 2) \in Int
    BY <2>1, PowersAssumption, Powers DEF Full
  <2>. QED  BY <2>2
<1>3. v = 4 * (v \div 4) /\ v \div 4 \in Int /\ Wrap(v) \in Int
  BY WrapType
<1>4. Wrap(v) = 4 * ((v \div 4) - h * q)
  BY <1>1, <1>2, <1>3
<1>. QED  BY <1>2, <1>3, <1>4

LEMMA PcRelativeSame ==
  ASSUME NEW x, Ready(x), NEW i, DecodedThumb(i), i.op = "t6", HasArmForm(x, i) PROVE SameAs(x, i)
<1> DEFINE rd == i.rd
           off == 4 * i.imm
           src == Imm(off)
           rn == PC
           load == TRUE
           byte == FALSE
           addr == Wrap(x.r[rn] + off)
<1>1. rd # PC /\ Proper(x) /\ i.imm \in Int /\ x.r[PC] % 4 = 0 /\ x.r[PC] \in Int
  <2>1. i.imm \in Word /\ rd # PC /\ Proper(x)
    BY LowIsNotPc DEF DecodedThumb, Ready
  <2>. QED  BY <2>1, WordsAreInt, ProperParts DEF HasArmForm
<1>2. Displaces(x, src, off)
  BY <1>1, PlainDisplaces
<1>9. load = TRUE /\ byte = FALSE
  OBVIOUS
<1>3. ArmForm(i) = Ldr(load, byte, rd, rn, src)
  BY DEF ArmForm
<1>4. addr % 4 = 0 /\ addr \in Int /\ WordAligned(x.r[PC]) = x.r[PC]
  <2>1. x.r[PC] + off \in Int /\ (x.r[PC] + off) % 4 = 0 /\ WordAligned(x.r[PC]) = x.r[PC]
    <3> DEFINE v == x.r[PC]
               k == i.imm
    <3>1. v \in Int /\ k \in Int /\ v % 4 = 0
      BY <1>1
    <3>2. v - (v % 4) = v /\ v + 4 * k \in Int
      BY <3>1
    <3>3. v = 4 * (v \div 4) /\ v \div 4 \in Int
      BY <3>1
    <3>4. v + 4 * k = 4 * (v \div 4 + k)
      BY <3>1, <3>3
    <3>5. (v + 4 * k) % 4 = 0
      BY <3>1, <3>3, <3>4
    <3>. QED  BY <3>2, <3>5 DEF WordAligned
  <2> HIDE DEF off
  <2>. QED  BY <2>1, AlignedStays, WrapType
<1>5. LoadWord(x, addr) = ReadWord(x, addr)
  BY <1>1, <1>4, WordLoaded
<1>6. ThumbExecute(x, i) = SetReg(Ticks(x, 1), rd, ReadWord(x, addr))
  BY <1>4 DEF ThumbExecute, PcRelativeLoad
<1> HIDE DEF rd, off, src, rn, load, byte
<1>7. /\ ArmExecute(x, Ldr(load, byte, rd, rn, src)) = Transfer(x, Wrap(x.r[rn] + off), rd, load, byte)
      /\ Ldr(load, byte, rd, rn, src).cond = "Al"
  BY <1>1, <1>2, LdrIs
<1> HIDE DEF addr
<1>8. Transfer(x, addr, rd, load, byte) = SetReg(Ticks(x, 1), rd, LoadWord(x, addr))
  BY <1>9 DEF Transfer
<1>. QED  BY <1>3, <1>5, <1>6, <1>7, <1>8 DEF SameAs, addr

\* The formats that move a word or a byte.
LEMMA ThumbTransferSame ==
  ASSUME NEW x, Ready(x), NEW i, DecodedThumb(i), i.op \in {"t7", "t9", "t11"} PROVE SameAs(x, i)
<1> DEFINE rd == i.rd
           load == i.load
           byte == IF i.op = "t11" THEN FALSE ELSE i.byte
           rn == IF i.op = "t11" THEN SP ELSE i.rb
           off == IF i.op = "t7" THEN x.r[i.ro] ELSE IF byte THEN i.imm ELSE 4 * i.imm
           src == IF i.op = "t7" THEN Reg(i.ro) ELSE Imm(off)
<1>1. rd # PC /\ Proper(x) /\ (i.op = "t7" => i.ro \in Register)
  BY LowIsNotPc DEF DecodedThumb, Ready
<1>2. Displaces(x, src, off)
  BY <1>1, PlainDisplaces
<1>3. ArmForm(i) = Ldr(load, byte, rd, rn, src)
  BY DEF ArmForm
<1>4. ThumbExecute(x, i) = Transfer(x, Wrap(x.r[rn] + off), rd, load, byte)
  BY DEF ThumbExecute, LoadStoreReg, LoadStoreImm, SpRelative
<1> HIDE DEF rd, off, src, rn, load, byte
<1>7. /\ ArmExecute(x, Ldr(load, byte, rd, rn, src)) = Transfer(x, Wrap(x.r[rn] + off), rd, load, byte)
      /\ Ldr(load, byte, rd, rn, src).cond = "Al"
  BY <1>1, <1>2, LdrIs
<1>. QED  BY <1>3, <1>4, <1>7 DEF SameAs

\* Those that move a halfword or a signed part of a word.
LEMMA ThumbHalfSame ==
  ASSUME NEW x, Ready(x), NEW i, DecodedThumb(i), i.op \in {"t8", "t10"} PROVE SameAs(x, i)
<1> DEFINE rd == i.rd
           load == i.load
           sh == IF i.op = "t10" THEN "half" ELSE i.sh
           rn == i.rb
           off == IF i.op = "t8" THEN x.r[i.ro] ELSE 2 * i.imm
           src == IF i.op = "t8" THEN [by |-> "reg", rm |-> i.ro] ELSE Imm(off)
           addr == Wrap(x.r[rn] + off)
<1>1. rd # PC
  BY LowIsNotPc DEF DecodedThumb
<1>2. HalfDisplaces(x, src, off)
  BY DEF Imm, HalfDisplaces
<1>3. ArmForm(i) = Ldrh(load, sh, rd, rn, src)
  BY DEF ArmForm
<1>4. ThumbExecute(x, i) = IF load THEN SetReg(Ticks(x, 1), rd, CASE sh = "half" -> LoadHalf(x, addr)
                                                            [] sh = "sbyte" -> LoadSByte(x, addr)
                                                            [] sh = "shalf" -> LoadSHalf(x, addr))
                           ELSE WriteHalf(x, addr, x.r[rd])
  <2>1. CASE i.op = "t8"
    <3>1. ThumbExecute(x, i) = LoadStoreSignExtended(x, i) /\ sh = i.sh /\ off = x.r[i.ro]
      BY <2>1 DEF ThumbExecute
    <3> HIDE DEF sh, off
    <3>. QED  BY <3>1, Zenon DEF LoadStoreSignExtended
  <2>2. CASE i.op = "t10"
    <3> DEFINE got == CASE sh = "half" -> LoadHalf(x, addr)
                        [] sh = "sbyte" -> LoadSByte(x, addr)
                        [] sh = "shalf" -> LoadSHalf(x, addr)
    <3>1. ThumbExecute(x, i) = LoadStoreHalfword(x, i) /\ sh = "half" /\ off = 2 * i.imm
      BY <2>2 DEF ThumbExecute
    <3> HIDE DEF sh, off
    <3>2. got = LoadHalf(x, addr)
      BY <3>1
    <3> HIDE DEF got
    <3>3. ThumbExecute(x, i) = IF load THEN SetReg(Ticks(x, 1), rd, got) ELSE WriteHalf(x, addr, x.r[rd])
      BY <3>1, <3>2 DEF LoadStoreHalfword
    <3>. QED  BY <3>3 DEF got
  <2>. QED  BY <2>1, <2>2
<1> HIDE DEF rd, off, src, rn, load, sh, addr
<1>7. /\ ArmExecute(x, Ldrh(load, sh, rd, rn, src)) =
              IF load THEN SetReg(Ticks(x, 1), rd, CASE sh = "half" -> LoadHalf(x, Wrap(x.r[rn] + off))
                                                     [] sh = "sbyte" -> LoadSByte(x, Wrap(x.r[rn] + off))
                                                     [] sh = "shalf" -> LoadSHalf(x, Wrap(x.r[rn] + off)))
              ELSE WriteHalf(x, Wrap(x.r[rn] + off), x.r[rd])
      /\ Ldrh(load, sh, rd, rn, src).cond = "Al"
  BY <1>1, <1>2, LdrhIs, Zenon
<1>. QED  BY <1>3, <1>4, <1>7, Zenon DEF SameAs, addr

LEMMA ThumbBranchSame ==
  ASSUME NEW x, NEW i, i.op \in {"t16", "t18"}
  PROVE  /\ ThumbExecute(x, i) = IF Eval(ArmForm(i).cond, x.cpsr) THEN ArmExecute(x, ArmForm(i)) ELSE x
<1> DEFINE cond == IF i.op = "t16" THEN i.cond ELSE "Al"
           j == ArmForm(i)
<1>1. j = BranchTo(cond, i.offset)
  BY DEF ArmForm
<1> HIDE DEF cond, j
<1>2. j.op = "b" /\ j.cond = cond /\ ~j.link /\ j.offset = i.offset
  BY <1>1 DEF BranchTo
<1>3. ArmExecute(x, j) = SetReg(x, PC, Wrap(x.r[PC] + i.offset))
  BY <1>2 DEF ArmExecute, Branch
<1>4. Eval("Al", x.cpsr)
  BY DEF Eval
<1>5. CASE i.op = "t16"
  BY <1>2, <1>3, <1>5 DEF ThumbExecute, ConditionalBranch, cond, j
<1>6. CASE i.op = "t18"
  BY <1>2, <1>3, <1>4, <1>6 DEF ThumbExecute, UnconditionalBranch, cond, j
<1>. QED  BY <1>5, <1>6

-----------------------------------------------------------------------------
\* Two sequences of values, each made of the one before it, that start and step alike.
LEMMA TracesAgree ==
  ASSUME NEW n \in Nat, NEW g, NEW h, g[0] = h[0], \A k \in 1..n : g[k - 1] = h[k - 1] => g[k] = h[k]
  PROVE  g[n] = h[n]
<1> DEFINE S == {k \in 0..n : g[k] = h[k]}
<1>1. 0 \in S
  OBVIOUS
<1>2. ASSUME NEW k \in 0..(n - 1), k \in S PROVE k + 1 \in S
  <2>1. k + 1 \in 1..n /\ (k + 1) - 1 = k /\ k + 1 \in 0..n
    OBVIOUS
  <2>. QED  BY <1>2, <2>1
<1> HIDE DEF S
<1>3. \A k \in 0..n : k \in S
  BY <1>1, <1>2, LoadFold!Induct
<1>. QED  BY <1>3 DEF S

\* Where a register stands in its list no other does.
LEMMA OrderedAt ==
  ASSUME NEW list \in SUBSET (0..15), NEW k \in list, NEW n \in 1..Cardinality(list), Before(list, k) = n - 1
  PROVE  Ordered(list)[n] = k
<1> DEFINE j == Ordered(list)[n]
<1>1. j \in list /\ Before(list, j) = n - 1
  BY OrderedIn
<1> HIDE DEF j
<1>2. j \in Int /\ k \in Int /\ Before(list, j) \in Int /\ Before(list, k) \in Int
  <2>1. \A b \in list : b \in Int
    OBVIOUS
  <2>2. \A b \in list : Before(list, b) \in 0..(Cardinality(list) - 1) /\ Cardinality(list) \in Nat
    BY BeforeIs
  <2>. QED  BY <1>1, <2>1, <2>2
<1>3. (j < k => Before(list, j) < Before(list, k)) /\ (k < j => Before(list, k) < Before(list, j))
  BY <1>1, BeforeIs
<1>4. j = k
  BY <1>1, <1>2, <1>3
<1>. QED  BY <1>4 DEF j

\* A list of low registers and LR above them.
LEMMA WithLr ==
  ASSUME NEW list \in SUBSET Low
  PROVE  LET all == list \cup {LR}
             c == Cardinality(list)
         IN  /\ Cardinality(all) = c + 1 /\ Before(all, LR) = c /\ \A k \in list : Before(all, k) = Before(list, k)
             /\ Ordered(all)[c + 1] = LR /\ \A n \in 1..c : Ordered(all)[n] = Ordered(list)[n]
<1> DEFINE all == list \cup {LR}
           c == Cardinality(list)
<1>1. list \in SUBSET (0..15) /\ all \in SUBSET (0..15) /\ LR = 14 /\ LR \notin list
  BY DEF Low, LR
<1>2. IsFiniteSet(list) /\ c \in Nat /\ Cardinality(all) = c + 1
  <2>1. IsFiniteSet(list)
    BY <1>1, FS_Interval, FS_Subset, 0 \in Int, 15 \in Int
  <2>. QED  BY <1>1, <2>1, FS_CardinalityType, FS_AddElement
<1>3. Before(all, LR) = c
  <2>1. {j \in all : j < LR} = list
    <3>1. ~(LR < LR) /\ \A k \in list : k < LR
      BY <1>1 DEF Low
    <3>2. \A k : k \in all /\ k < LR <=> k \in list
      BY <3>1
    <3> HIDE DEF all
    <3>. QED  BY <3>2
  <2>. QED  BY <2>1 DEF Before
<1>4. ASSUME NEW k \in list PROVE Before(all, k) = Before(list, k)
  <2>1. {j \in all : j < k} = {j \in list : j < k}
    <3>1. ~(LR < k)
      BY <1>1 DEF Low
    <3>2. \A j : j \in all /\ j < k <=> j \in list /\ j < k
      BY <3>1
    <3> HIDE DEF all
    <3>. QED  BY <3>2
  <2>. QED  BY <2>1 DEF Before
<1>5. Ordered(all)[c + 1] = LR
  <2>1. c + 1 \in 1..Cardinality(all) /\ (c + 1) - 1 = c /\ LR \in all
    BY <1>2
  <2> HIDE DEF all, c
  <2>. QED  BY <1>1, <1>3, <2>1, OrderedAt
<1>6. ASSUME NEW n \in 1..c PROVE Ordered(all)[n] = Ordered(list)[n]
  <2> DEFINE k == Ordered(list)[n]
  <2>1. k \in list /\ Before(list, k) = n - 1
    BY <1>1, OrderedIn
  <2> HIDE DEF k
  <2>2. k \in all /\ Before(all, k) = n - 1
    BY <1>4, <2>1
  <2>4. n \in 1..Cardinality(all)
    <3> DEFINE d == Cardinality(all)
    <3>1. c \in Nat /\ d = c + 1
      BY <1>2
    <3> HIDE DEF c, d
    <3>2. n \in 1..d
      BY <3>1
    <3>. QED  BY <3>2 DEF d
  <2> HIDE DEF all
  <2>3. Ordered(all)[n] = k
    BY <1>1, <2>2, <2>4, OrderedAt
  <2>. QED  BY <2>3 DEF k
<1>. QED  BY <1>2, <1>3, <1>4, <1>5, <1>6

\* A block moved by ARM's rules, its base written back, and by Thumb's.
Loaded(e) == LoadFold!Folded(e, Ticks(e.x, 1), Ordered(e.i.list))
Stored(e) == StoreFold!Folded(e, e.x, Ordered(e.i.list))
Moving(e) == e.i.op = "block" /\ e.i.list # {} /\ ~e.i.user /\ e.i.wb /\ e.i.rn # PC
LEMMA BlockIs ==
  ASSUME NEW e, Moving(e)
  PROVE  ArmExecute(e.x, e.i) =
           IF ~e.i.load THEN SetReg(Stored(e), e.i.rn, SpanOf(e)[2])
           ELSE IF e.i.rn \in e.i.list THEN Loaded(e) ELSE SetReg(Loaded(e), e.i.rn, SpanOf(e)[2])
<1> DEFINE y == LoadFold!Folded(e, Ticks(e.x, 1), Ordered(e.i.list))
           u == StoreFold!Folded(e, e.x, Ordered(e.i.list))
           span == SpanOf(e)
           Set(w, k, v) == IF UserSet(e) THEN SetUserReg(w, k, v) ELSE SetReg(w, k, v)
           z == IF ~e.i.wb \/ e.i.rn \in e.i.list THEN y
                ELSE IF e.i.rn = PC THEN SetReg(y, PC, span[2]) ELSE Set(y, e.i.rn, span[2])
<1>1. LoadBlock(e.x, e.i) = IF e.i.user /\ PC \in e.i.list /\ HasSpsr(z) THEN WriteCpsr(z, CurrentSpsr(z)) ELSE z
  BY DEF LoadBlock, LoadStep, UserSet, SpanOf, LoadFold!Folded, FoldLeft,
         LoadFold!MapThenFoldSet, MapThenFoldSet, LoadFold!Greatest, Max
<1>2. StoreBlock(e.x, e.i) = IF ~e.i.wb THEN u
                             ELSE IF e.i.user /\ e.i.rn # PC THEN SetUserReg(u, e.i.rn, span[2])
                             ELSE SetReg(u, e.i.rn, span[2])
  BY DEF StoreBlock, StoreStep, SpanOf, StoreFold!Folded, FoldLeft,
         StoreFold!MapThenFoldSet, MapThenFoldSet, StoreFold!Greatest, Max
<1>3. ArmExecute(e.x, e.i) = IF e.i.load THEN LoadBlock(e.x, e.i) ELSE StoreBlock(e.x, e.i)
  <2>1. ArmExecute(e.x, e.i) = BlockDataTransfer(e.x, e.i)
    BY DEF ArmExecute, Moving
  <2>. QED  BY <2>1 DEF BlockDataTransfer, Moving
<1> HIDE DEF y, u, span
<1>4. z = IF e.i.rn \in e.i.list THEN y ELSE SetReg(y, e.i.rn, span[2])
  BY DEF Moving, UserSet
<1> HIDE DEF z
<1>5. LoadBlock(e.x, e.i) = z /\ StoreBlock(e.x, e.i) = SetReg(u, e.i.rn, span[2])
  BY <1>1, <1>2 DEF Moving
<1>. QED  BY <1>3, <1>4, <1>5 DEF y, u, span, Loaded, Stored

LEMMA StackIs ==
  ASSUME NEW e, e.i.list # {} \/ e.i.extra, ~(e.i.load /\ e.i.extra), e.i.list \in SUBSET Low
  PROVE  LET x == e.x
             i == e.i
             n == Cardinality(i.list) + Flag(i.extra, 0)
             pushed == PushFold!Folded(e, x, Ordered(i.list))
         IN  PushPop(x, i) =
               IF i.load THEN SetReg(PopFold!Folded(e, Ticks(x, 1), Ordered(i.list)), SP, Wrap(x.r[SP] + 4 * n))
               ELSE SetReg(IF i.extra THEN WriteWord(pushed, Wrap(PoppedStart(e) + 4 * Cardinality(i.list)), x.r[LR])
                           ELSE pushed, SP, PoppedStart(e))
<1> DEFINE x == e.x
           i == e.i
           c == Cardinality(i.list)
           n == c + Flag(i.extra, 0)
           start == IF i.load THEN x.r[SP] ELSE Wrap(x.r[SP] - 4 * n)
           last  == Wrap(start + 4 * c)
           popped == PopFold!Folded(e, Ticks(x, 1), Ordered(i.list))
           moved == SetReg(popped, SP, Wrap(x.r[SP] + 4 * n))
           pushed == PushFold!Folded(e, x, Ordered(i.list))
           below == Wrap(x.r[SP] - 64)
<1>1. n \in Nat /\ n > 0
  <2>1. IsFiniteSet(i.list)
    <3>1. i.list \in SUBSET (0..7)
      BY DEF Low
    <3>. QED  BY <3>1, FS_Interval, FS_Subset, 0 \in Int, 7 \in Int
  <2>2. c \in Nat /\ (c = 0 <=> i.list = {})
    BY <2>1, FS_CardinalityType, FS_EmptySet
  <2>3. Flag(i.extra, 0) = IF i.extra THEN 1 ELSE 0
    BY FlagIs
  <2> HIDE DEF c
  <2>. QED  BY <2>2, <2>3
<1>5. PushPop(x, i) =
        CASE n = 0 /\ i.load -> SetReg(SetReg(x, PC, ReadWord(x, x.r[SP])), SP, Wrap(x.r[SP] + 64))
          [] n = 0 /\ ~i.load -> SetReg(WriteWord(x, below, Wrap(x.r[PC] + 2)), SP, below)
          [] n > 0 /\ i.load ->
               IF i.extra THEN SetReg(moved, PC, ReadWord(x, last) - (ReadWord(x, last) % 2)) ELSE moved
          [] OTHER -> SetReg(IF i.extra THEN WriteWord(pushed, last, x.r[LR]) ELSE pushed, SP, start)
  BY DEF PushPop, PopInto, PushFrom, PoppedStart, PopFold!Folded, FoldLeft,
         PopFold!MapThenFoldSet, MapThenFoldSet, PopFold!Greatest, Max,
         PushFold!Folded,  PushFold!MapThenFoldSet, PushFold!Greatest
<1>6. start = PoppedStart(e)
  BY DEF PoppedStart
<1> HIDE DEF n, c, popped, pushed, start, below
<1>7. CASE i.load
  <2>1. PushPop(x, i) = moved
    BY <1>1, <1>5, <1>7
  <2>. QED  BY <1>7, <2>1 DEF n, c, popped
<1>8. CASE ~i.load
  <2>1. PushPop(x, i) = SetReg(IF i.extra THEN WriteWord(pushed, last, x.r[LR]) ELSE pushed, SP, start)
    BY <1>1, <1>5, <1>8
  <2>. QED  BY <1>6, <1>8, <2>1 DEF n, c, pushed
<1>. QED  BY <1>7, <1>8

\* Pushing and popping, in ARM's blocks.
Both(e, f) == Moving(f) /\ f.x = e.x /\ Proper(e.x) /\ e.i.list \in SUBSET Low /\ f.i.load = e.i.load

LEMMA PoppedSame ==
  ASSUME NEW e, NEW f, Both(e, f), f.i.list = e.i.list, e.i.load, SpanOf(f)[1] = e.x.r[SP]
  PROVE  PopFold!Folded(e, Ticks(e.x, 1), Ordered(e.i.list)) = Loaded(f)
<1> DEFINE s == Ordered(e.i.list)
           n == Cardinality(e.i.list)
           y == Ticks(e.x, 1)
<1>1. n \in Nat /\ DOMAIN s = 1..n
  <2>1. e.i.list \in SUBSET (0..15)
    BY DEF Both, Low
  <2>. QED  BY <2>1, OrderedIsSequence
<1>2. \A a, k : PopInto(e, a, k) = LoadStep(f, a, k)
  BY DEF PopInto, LoadStep, PoppedStart, UserSet, Both, Moving
<1>3. Loaded(f) = LoadFold!Folded(f, y, s)
  BY DEF Loaded, Both
<1> HIDE DEF s, n, y
<1>4. PICK g : g[0] = y /\ (\A k \in 1..n : g[k] = PopInto(e, g[k - 1], s[k])) /\ PopFold!Folded(e, y, s) = g[n]
  BY <1>1, PopFold!FoldIsTrace
<1>5. PICK h : h[0] = y /\ (\A k \in 1..n : h[k] = LoadStep(f, h[k - 1], s[k])) /\ LoadFold!Folded(f, y, s) = h[n]
  BY <1>1, LoadFold!FoldIsTrace
<1>6. \A k \in 1..n : g[k - 1] = h[k - 1] => g[k] = h[k]
  BY <1>2, <1>4, <1>5
<1>7. g[n] = h[n]
  BY <1>1, <1>4, <1>5, <1>6, TracesAgree
<1>. QED  BY <1>3, <1>4, <1>5, <1>7 DEF s, y

LEMMA TakenSame ==
  ASSUME NEW e, NEW f, Both(e, f), f.i.list = e.i.list, SpanOf(f)[1] = e.x.r[e.i.rb]
  PROVE  TakeFold!Folded(e, Ticks(e.x, 1), Ordered(e.i.list)) = Loaded(f)
<1> DEFINE s == Ordered(e.i.list)
           n == Cardinality(e.i.list)
           y == Ticks(e.x, 1)
<1>1. n \in Nat /\ DOMAIN s = 1..n
  <2>1. e.i.list \in SUBSET (0..15)
    BY DEF Both, Low
  <2>. QED  BY <2>1, OrderedIsSequence
<1>2. \A a, k : TakeStep(e, a, k) = LoadStep(f, a, k)
  BY DEF TakeStep, LoadStep, UserSet, Both, Moving
<1>3. Loaded(f) = LoadFold!Folded(f, y, s)
  BY DEF Loaded, Both
<1> HIDE DEF s, n, y
<1>4. PICK g : g[0] = y /\ (\A k \in 1..n : g[k] = TakeStep(e, g[k - 1], s[k])) /\ TakeFold!Folded(e, y, s) = g[n]
  BY <1>1, TakeFold!FoldIsTrace
<1>5. PICK h : h[0] = y /\ (\A k \in 1..n : h[k] = LoadStep(f, h[k - 1], s[k])) /\ LoadFold!Folded(f, y, s) = h[n]
  BY <1>1, LoadFold!FoldIsTrace
<1>6. \A k \in 1..n : g[k - 1] = h[k - 1] => g[k] = h[k]
  BY <1>2, <1>4, <1>5
<1>7. g[n] = h[n]
  BY <1>1, <1>4, <1>5, <1>6, TracesAgree
<1>. QED  BY <1>3, <1>4, <1>5, <1>7 DEF s, y

LEMMA GivenSame ==
  ASSUME NEW e, NEW f, Both(e, f), f.i.list = e.i.list, f.i.rn = e.i.rb,
         SpanOf(f)[1] = e.x.r[e.i.rb], SpanOf(f)[2] = Wrap(e.x.r[e.i.rb] + 4 * Cardinality(e.i.list))
  PROVE  GiveFold!Folded(e, e.x, Ordered(e.i.list)) = Stored(f)
<1> DEFINE s == Ordered(e.i.list)
           n == Cardinality(e.i.list)
           y == e.x
<1>1. n \in Nat /\ DOMAIN s = 1..n /\ \A k \in 1..n : s[k] # PC
  <2>1. e.i.list \in SUBSET (0..15) /\ PC \notin e.i.list
    BY DEF Both, Low, PC
  <2>. QED  BY <2>1, OrderedIsSequence, OrderedIn
<1>2. \A a, k : k # PC => GiveStep(e, a, k) = StoreStep(f, a, k)
  BY DEF GiveStep, StoreStep, Both, Moving
<1>3. Stored(f) = StoreFold!Folded(f, y, s)
  BY DEF Stored, Both
<1> HIDE DEF s, n, y
<1>8. n \in Nat /\ DOMAIN s = 1..n
  BY <1>1
<1>4. PICK g : g[0] = y /\ (\A k \in 1..n : g[k] = GiveStep(e, g[k - 1], s[k])) /\ GiveFold!Folded(e, y, s) = g[n]
  BY <1>8, GiveFold!FoldIsTrace
<1>5. PICK h : h[0] = y /\ (\A k \in 1..n : h[k] = StoreStep(f, h[k - 1], s[k])) /\ StoreFold!Folded(f, y, s) = h[n]
  BY <1>1, StoreFold!FoldIsTrace
<1>6. \A k \in 1..n : g[k - 1] = h[k - 1] => g[k] = h[k]
  BY <1>1, <1>2, <1>4, <1>5
<1>7. g[n] = h[n]
  BY <1>1, <1>4, <1>5, <1>6, TracesAgree
<1>. QED  BY <1>3, <1>4, <1>5, <1>7 DEF s, y

LEMMA PushedSame ==
  ASSUME NEW e, NEW f, Both(e, f), f.i.list = e.i.list \cup (IF e.i.extra THEN {LR} ELSE {}), f.i.rn = SP,
         SpanOf(f)[1] = PoppedStart(e)
  PROVE  LET pushed == PushFold!Folded(e, e.x, Ordered(e.i.list))
         IN  Stored(f) = IF e.i.extra
                         THEN WriteWord(pushed, Wrap(PoppedStart(e) + 4 * Cardinality(e.i.list)), e.x.r[LR])
                         ELSE pushed
<1> DEFINE list == e.i.list
           all == f.i.list
           s == Ordered(list)
           t == Ordered(all)
           n == Cardinality(list)
           l == Cardinality(all)
           y == e.x
           Value(k) == IF k = PC THEN Late(y, PC) ELSE y.r[k]
<1>1. list \in SUBSET (0..15) /\ all \in SUBSET (0..15) /\ PC \notin all /\ SP \notin all
  BY DEF Both, Low, PC, LR, SP
<1>2. n \in Nat /\ DOMAIN s = 1..n /\ l \in Nat /\ DOMAIN t = 1..l /\ (\A k \in 1..l : t[k] \in all) /\ (\A k \in 1..n : s[k] \in list)
  BY <1>1, OrderedIsSequence, OrderedIn
<1>3. ASSUME e.i.extra
      PROVE  /\ l = n + 1 /\ t[n + 1] = LR /\ Before(all, LR) = n
             /\ \A k \in 1..n : t[k] = s[k] /\ Before(all, s[k]) = Before(list, s[k])
  <2>1. all = list \cup {LR} /\ list \in SUBSET Low
    BY <1>3 DEF Both
  <2> HIDE DEF all, list
  <2>. QED  BY <1>2, <2>1, WithLr DEF l, n, s, t
<1>4. ASSUME ~e.i.extra
      PROVE  l = n /\ \A k \in 1..n : t[k] = s[k] /\ Before(all, s[k]) = Before(list, s[k])
  <2>1. all = list
    BY <1>4
  <2>. QED  BY <2>1
<1>5. ASSUME NEW a, NEW k \in all
      PROVE  StoreStep(f, a, k) = WriteWord(a, Wrap(PoppedStart(e) + 4 * Before(all, k)), y.r[k])
  <2>1. k # PC /\ k # SP
    BY <1>1
  <2>. QED  BY <2>1 DEF StoreStep, Both, Moving
<1>6. \A a, k : PushFrom(e, a, k) = WriteWord(a, Wrap(PoppedStart(e) + 4 * Before(list, k)), y.r[k])
  BY DEF PushFrom
<1>7. Stored(f) = StoreFold!Folded(f, y, t)
  BY DEF Stored, Both
<1> HIDE DEF s, t, n, l, y, all, list
<1>15. n \in Nat /\ DOMAIN s = 1..n
  BY <1>2
<1>16. l \in Nat /\ DOMAIN t = 1..l
  BY <1>2
<1>8. PICK g : g[0] = y /\ (\A k \in 1..n : g[k] = PushFrom(e, g[k - 1], s[k])) /\ PushFold!Folded(e, y, s) = g[n]
  BY <1>15, PushFold!FoldIsTrace
<1>9. PICK h : h[0] = y /\ (\A k \in 1..l : h[k] = StoreStep(f, h[k - 1], t[k])) /\ StoreFold!Folded(f, y, t) = h[l]
  BY <1>16, StoreFold!FoldIsTrace
<1>10. \A k \in 1..n : t[k] = s[k] /\ Before(all, s[k]) = Before(list, s[k]) /\ k \in 1..l
  <2>1. n <= l
    BY <1>2, <1>3, <1>4
  <2>. QED  BY <1>2, <1>3, <1>4, <2>1
<1>11. \A k \in 1..n : g[k - 1] = h[k - 1] => g[k] = h[k]
  <2> SUFFICES ASSUME NEW k \in 1..n, g[k - 1] = h[k - 1] PROVE g[k] = h[k]
    OBVIOUS
  <2>1. t[k] = s[k] /\ s[k] \in all /\ Before(all, s[k]) = Before(list, s[k])
    BY <1>2, <1>10
  <2>2. h[k] = StoreStep(f, g[k - 1], s[k]) /\ g[k] = PushFrom(e, g[k - 1], s[k])
    BY <1>8, <1>9, <1>10, <2>1
  <2>. QED  BY <1>5, <1>6, <2>1, <2>2
<1>12. g[n] = h[n]
  BY <1>2, <1>8, <1>9, <1>11, TracesAgree
<1>13. CASE e.i.extra
  <2>1. n + 1 \in 1..l /\ (n + 1) - 1 = n /\ LR \in all
    BY <1>2, <1>3, <1>13
  <2>2. h[l] = StoreStep(f, h[n], LR)
    BY <1>3, <1>9, <1>13, <2>1
  <2>3. h[l] = WriteWord(g[n], Wrap(PoppedStart(e) + 4 * n), y.r[LR])
    BY <1>3, <1>5, <1>12, <1>13, <2>1, <2>2
  <2>. QED  BY <1>7, <1>8, <1>9, <1>13, <2>3 DEF y, s, n, list
<1>14. CASE ~e.i.extra
  BY <1>4, <1>7, <1>8, <1>9, <1>12, <1>14 DEF y, s, list
<1>. QED  BY <1>13, <1>14

LEMMA ThumbStackSame ==
  ASSUME NEW x, Ready(x), NEW i, DecodedThumb(i), i.op = "t14", HasArmForm(x, i) PROVE SameAs(x, i)
<1> DEFINE j == ArmForm(i)
           e == [x |-> x, i |-> i]
           f == [x |-> x, i |-> j]
           c == Cardinality(i.list)
           l == Cardinality(j.list)
           n == c + Flag(i.extra, 0)
           sp == x.r[SP]
           low == Wrap(sp - 4 * n)
           pushed == PushFold!Folded(e, x, Ordered(i.list))
           popped == PopFold!Folded(e, Ticks(x, 1), Ordered(i.list))
<1>1. i.list \in SUBSET Low /\ Proper(x) /\ (i.list # {} \/ i.extra) /\ ~(i.load /\ i.extra) /\ i.load \in BOOLEAN
  BY DEF DecodedThumb, HasArmForm, Ready
<1>2. /\ j.op = "block" /\ j.cond = "Al" /\ j.pre = ~i.load /\ j.up = i.load /\ ~j.user /\ j.wb /\ j.load = i.load
      /\ j.rn = SP /\ j.list = i.list \cup IF i.extra THEN {LR} ELSE {}
  BY DEF ArmForm, Block
<1> HIDE DEF j
<1>3. e.x = x /\ e.i = i /\ f.x = x /\ f.i = j
  OBVIOUS
<1> HIDE DEF e, f
<1>4. Moving(f) /\ Both(e, f) /\ SP \notin j.list
  <2>1. j.list # {} /\ SP # PC
    BY <1>1, <1>2 DEF SP, PC
  <2>2. SP \notin j.list
    BY <1>1, <1>2 DEF Low, SP, LR
  <2>. QED  BY <1>1, <1>2, <1>3, <2>1, <2>2 DEF Moving, Both
<1>5. l = n /\ c \in Nat /\ n \in Nat
  <2>1. IsFiniteSet(i.list) /\ LR \notin i.list
    <3>1. i.list \in SUBSET (0..7)
      BY <1>1 DEF Low
    <3>2. LR \notin i.list
      BY <3>1 DEF LR
    <3>. QED  BY <3>1, <3>2, FS_Interval, FS_Subset, 0 \in Int, 7 \in Int, Zenon
  <2>2. c \in Nat /\ Cardinality(i.list \cup {LR}) = c + 1
    BY <2>1, FS_CardinalityType, FS_AddElement
  <2>3. Flag(i.extra, 0) = IF i.extra THEN 1 ELSE 0
    BY FlagIs
  <2>4. l = IF i.extra THEN c + 1 ELSE c
    <3>1. j.list = IF i.extra THEN i.list \cup {LR} ELSE i.list
      BY <1>2
    <3>. QED  BY <2>2, <3>1
  <2> HIDE DEF l, c
  <2>5. n = IF i.extra THEN c + 1 ELSE c
    BY <2>2, <2>3
  <2> HIDE DEF n
  <2>. QED  BY <2>2, <2>4, <2>5
<1>6. SpanOf(f) = IF i.load THEN <<sp, Wrap(sp + 4 * n)>> ELSE <<low, low>>
  <2>1. SpanOf(f) = BlockSpan(sp, l, ~i.load, i.load)
    BY <1>2, <1>3 DEF SpanOf
  <2> HIDE DEF sp, n, l
  <2>. QED  BY <1>1, <1>5, <2>1 DEF BlockSpan
<1>7. PoppedStart(e) = IF i.load THEN sp ELSE low
  BY <1>3 DEF PoppedStart
<1>8. ThumbExecute(x, i) =
        IF i.load THEN SetReg(popped, SP, Wrap(sp + 4 * n))
        ELSE SetReg(IF i.extra THEN WriteWord(pushed, Wrap(PoppedStart(e) + 4 * c), x.r[LR]) ELSE pushed,
                    SP, PoppedStart(e))
  <2>1. ThumbExecute(x, i) = PushPop(x, i)
    BY DEF ThumbExecute
  <2>2. (e.i.list # {} \/ e.i.extra) /\ ~(e.i.load /\ e.i.extra) /\ e.i.list \in SUBSET Low
    BY <1>1, <1>3
  <2>. QED  BY <1>3, <2>1, <2>2, StackIs
<1> HIDE DEF n, sp, low, c, l
<1>9. ArmExecute(x, j) = IF i.load THEN SetReg(Loaded(f), SP, SpanOf(f)[2]) ELSE SetReg(Stored(f), SP, SpanOf(f)[2])
  BY <1>2, <1>3, <1>4, BlockIs
<1>10. CASE i.load
  <2>1. f.i.list = e.i.list /\ e.i.load /\ SpanOf(f)[1] = e.x.r[SP] /\ SpanOf(f)[2] = Wrap(sp + 4 * n)
    BY <1>1, <1>2, <1>3, <1>6, <1>10 DEF sp
  <2>2. popped = Loaded(f)
    BY <1>3, <1>4, <2>1, PoppedSame
  <2> HIDE DEF popped
  <2>. QED  BY <1>2, <1>8, <1>9, <1>10, <2>1, <2>2 DEF SameAs, j
<1>11. CASE ~i.load
  <2>1. SpanOf(f)[1] = PoppedStart(e) /\ SpanOf(f)[2] = PoppedStart(e)
    BY <1>6, <1>7, <1>11
  <2>2. f.i.list = e.i.list \cup (IF e.i.extra THEN {LR} ELSE {}) /\ f.i.rn = SP
    BY <1>2, <1>3
  <2>3. Stored(f) = IF i.extra THEN WriteWord(pushed, Wrap(PoppedStart(e) + 4 * c), x.r[LR]) ELSE pushed
    BY <1>3, <1>4, <2>1, <2>2, PushedSame DEF c
  <2> HIDE DEF pushed
  <2>. QED  BY <1>2, <1>8, <1>9, <1>11, <2>1, <2>3 DEF SameAs, j
<1>. QED  BY <1>10, <1>11

LEMMA ThumbBlockSame ==
  ASSUME NEW x, Ready(x), NEW i, DecodedThumb(i), i.op = "t15", HasArmForm(x, i) PROVE SameAs(x, i)
<1> DEFINE j == ArmForm(i)
           e == [x |-> x, i |-> i]
           f == [x |-> x, i |-> j]
           base == x.r[i.rb]
           wb == Wrap(base + 4 * Cardinality(i.list))
           taken == TakeFold!Folded(e, Ticks(x, 1), Ordered(i.list))
           given == GiveFold!Folded(e, x, Ordered(i.list))
           moved == IF i.load THEN taken ELSE given
           none == SetReg(x, i.rb, Wrap(base + 64))
<1>1. i.list \in SUBSET Low /\ Proper(x) /\ i.list # {} /\ i.rb # PC
  BY LowIsNotPc DEF DecodedThumb, HasArmForm, Ready
<1>2. /\ j.op = "block" /\ j.cond = "Al" /\ ~j.pre /\ j.up /\ ~j.user /\ j.wb /\ j.load = i.load
      /\ j.rn = i.rb /\ j.list = i.list
  BY DEF ArmForm, Block
<1> HIDE DEF j
<1>3. e.x = x /\ e.i = i /\ f.x = x /\ f.i = j
  OBVIOUS
<1>4. ThumbExecute(x, i) = IF i.load /\ i.rb \in i.list THEN moved ELSE SetReg(moved, i.rb, wb)
  <2>1. BlockTransfer(x, i) =
          IF i.list = {}
          THEN IF i.load THEN SetReg(none, PC, ReadWord(x, base))
               ELSE WriteWord(none, base, Wrap(x.r[PC] + 2))
          ELSE IF i.load /\ i.rb \in i.list THEN moved ELSE SetReg(moved, i.rb, wb)
    BY DEF BlockTransfer, TakeStep, GiveStep, TakeFold!Folded, FoldLeft,
         TakeFold!MapThenFoldSet, MapThenFoldSet, TakeFold!Greatest, Max,
         GiveFold!Folded,  GiveFold!MapThenFoldSet, GiveFold!Greatest
  <2> HIDE DEF moved, wb, base, none
  <2>. QED  BY <1>1, <2>1 DEF ThumbExecute
<1> HIDE DEF e, f
<1>5. Moving(f) /\ Both(e, f)
  BY <1>1, <1>2, <1>3 DEF Moving, Both
<1>6. SpanOf(f)[1] = e.x.r[e.i.rb] /\ SpanOf(f)[2] = wb
  <2>1. SpanOf(f) = <<base, wb>>
    BY <1>2, <1>3 DEF SpanOf, BlockSpan
  <2> HIDE DEF wb
  <2>. QED  BY <1>3, <2>1
<1>7. ArmExecute(x, j) =
           IF ~i.load THEN SetReg(Stored(f), i.rb, SpanOf(f)[2])
           ELSE IF i.rb \in i.list THEN Loaded(f) ELSE SetReg(Loaded(f), i.rb, SpanOf(f)[2])
  BY <1>2, <1>3, <1>5, BlockIs
<1>8. taken = Loaded(f)
  <2>1. f.i.list = e.i.list
    BY <1>2, <1>3
  <2>. QED  BY <1>3, <1>5, <1>6, <2>1, TakenSame
<1>9. given = Stored(f)
  <2>1. f.i.list = e.i.list /\ f.i.rn = e.i.rb /\ SpanOf(f)[2] = Wrap(e.x.r[e.i.rb] + 4 * Cardinality(e.i.list))
    BY <1>2, <1>3, <1>6
  <2>. QED  BY <1>3, <1>5, <1>6, <2>1, GivenSame
<1> HIDE DEF taken, given, wb
<1>. QED  BY <1>2, <1>4, <1>6, <1>7, <1>8, <1>9 DEF SameAs, j

-----------------------------------------------------------------------------
\* Whatever the format.
LEMMA ThumbSame ==
  ASSUME NEW x, Ready(x), NEW i, DecodedThumb(i), i.op \in ThumbOps, HasArmForm(x, i)
  PROVE  ThumbExecute(x, i) = IF Eval(ArmForm(i).cond, x.cpsr) THEN ArmExecute(x, ArmForm(i)) ELSE x
<1> DEFINE cond == "Al"
<1>1. Eval(cond, x.cpsr) /\ cond = "Al"
  BY DEF Eval
<1> HIDE DEF cond
<1>2. ASSUME SameAs(x, i)
      PROVE  ThumbExecute(x, i) = IF Eval(ArmForm(i).cond, x.cpsr) THEN ArmExecute(x, ArmForm(i)) ELSE x
  BY <1>1, <1>2 DEF SameAs
<1>3. CASE i.op \in {"t1", "t2", "t3", "t5", "t6"}
  BY <1>2, <1>3, MoveShiftedSame, AddSubtractSame, ImmediateSame, HiRegisterSame, PcRelativeSame
<1>4. CASE i.op = "t4"
  <2>1. i.alu \in ThumbAlus
    BY <1>4 DEF DecodedThumb
  <2>2. i.alu \in Shifts \/ i.alu \in LogicalAlus \/ i.alu \in SumAlus \/ i.alu = "mul"
    BY <2>1 DEF ThumbAlus, LogicalAlus, SumAlus
  <2>. QED  BY <1>2, <1>4, <2>2, ThumbShiftSame, ThumbLogicalSame, ThumbSumSame, ThumbMultiplySame
<1>5. CASE i.op \in {"t7", "t8", "t9", "t10", "t11"}
  BY <1>2, <1>5, ThumbTransferSame, ThumbHalfSame
<1>6. CASE i.op \in {"t12", "t13", "t14", "t15"}
  BY <1>2, <1>6, LoadAddressSame, AddToSpSame, ThumbStackSame, ThumbBlockSame
<1>7. CASE i.op \in {"t16", "t18"}
  BY <1>7, ThumbBranchSame
<1>8. i.op # "t17" /\ i.op # "t19"
  BY DEF HasArmForm
<1>. QED  BY <1>3, <1>4, <1>5, <1>6, <1>7, <1>8 DEF ThumbOps

LEMMA ThumbStepIsArm ==
  ASSUME Worded, Step, ir'.op \in ThumbOps, HasArmForm(m, ir')
  PROVE  LET i == ArmForm(ir')
             x == [m EXCEPT !.ticks = 0]
         IN  m' = Advanced(m, IF Eval(i.cond, m.cpsr) THEN ArmExecute(x, i) ELSE x)
<1> DEFINE x == [m EXCEPT !.ticks = 0]
<1>1. PICK i \in Offered : (m.cpsr.t <=> i.op \in ThumbOps) /\ Does(i, Stepped(m, i))
  BY DEF Step
<1>2. ir' = i /\ m' = Stepped(m, i) /\ Whole /\ Proper(m)
  BY <1>1 DEF Does, Worded, Whole, Proper
<1>3. DecodedThumb(i) /\ i.op \in ThumbOps /\ m.cpsr.t
  BY <1>1, <1>2, OfferedDecoded DEF Decoded
<1>4. Proper(x) /\ x.r = m.r /\ x.cpsr = m.cpsr
  BY <1>2, ProperBits DEF Proper, IsMachine
<1>5. Ticks(x, 0) = x
  BY <1>2 DEF Ticks, Proper, IsMachine
<1>6. m' = Advanced(m, ThumbExecute(x, i))
  <2>1. Stepped(m, i) = Advanced(m, Executed(x, i))
    BY DEF Stepped
  <2> HIDE DEF x
  <2>. QED  BY <1>2, <1>3, <1>4, <2>1 DEF Executed
<1> HIDE DEF x
<1>7. Ready(x) /\ HasArmForm(x, i)
  BY <1>2, <1>4, <1>5 DEF Ready, HasArmForm
<1> DEFINE j == ArmForm(i)
<1>8. ThumbExecute(x, i) = IF Eval(j.cond, x.cpsr) THEN ArmExecute(x, j) ELSE x
  BY <1>3, <1>7, ThumbSame
<1>9. m' = Advanced(m, IF Eval(j.cond, m.cpsr) THEN ArmExecute(x, j) ELSE x)
  <2> HIDE DEF j
  <2>. QED  BY <1>4, <1>6, <1>8
<1>. QED  BY <1>2, <1>9, Zenon DEF x

\* Whatever is executed, every Thumb instruction that has an ARM form does what
\* that form does: registers, flags, memory, internal cycles and pipeline.
THEOREM ThumbIsArm == ProcessorSpec => ThumbAsArm
<1>1. Worded /\ [ProcessorNext]_vars => Worded'
  BY WordedStep
<1>2. Worded /\ [ProcessorNext]_vars =>
        [ir'.op \in ThumbOps /\ HasArmForm(m, ir') =>
           LET i == ArmForm(ir')
               x == [m EXCEPT !.ticks = 0]
           IN  m' = Advanced(m, IF Eval(i.cond, m.cpsr) THEN ArmExecute(x, i) ELSE x)]_vars
  <2> SUFFICES ASSUME Worded, ProcessorNext, ~UNCHANGED vars, ir'.op \in ThumbOps, HasArmForm(m, ir')
               PROVE  LET i == ArmForm(ir')
                          x == [m EXCEPT !.ticks = 0]
                      IN  m' = Advanced(m, IF Eval(i.cond, m.cpsr) THEN ArmExecute(x, i) ELSE x)
    OBVIOUS
  <2>1. Step
    BY DEF ProcessorNext, TakeIrq, Ends, Does, ThumbOps
  <2>. QED  BY <2>1, ThumbStepIsArm
<1>. QED  BY <1>1, <1>2, WordedAtFirst, PTL DEF ProcessorSpec, ThumbAsArm

-----------------------------------------------------------------------------
(* The idle loop *)

\* From x to y nothing is written but registers other than R15, flags and, when it
\* stores, memory.
Spares(x, y, stores) ==
  /\ Within(x, y) /\ y.r[PC] = x.r[PC] /\ y.flush = FALSE /\ y.cpsr.t = x.cpsr.t
  /\ stores \/ (y.mem = x.mem /\ y.spsr = x.spsr)

LEMMA SparesSelf ==
  ASSUME NEW x, IsMachine(x), x.flush = FALSE, NEW stores PROVE Spares(x, x, stores)
  BY WithinSelf DEF Spares
LEMMA SparesRegister ==
  ASSUME NEW x, NEW y, NEW stores, Spares(x, y, stores), NEW k, k # PC, NEW v
  PROVE  Spares(x, SetReg(y, k, v), stores)
<1>1. Within(x, SetReg(y, k, v))
  BY WithinRegister DEF Spares
<1>2. IsMachine(y) /\ PC \in 0..15
  BY DEF Spares, Within, PC
<1>3. /\ SetReg(y, k, v).r[PC] = y.r[PC] /\ SetReg(y, k, v).flush = FALSE /\ SetReg(y, k, v).cpsr = y.cpsr
      /\ SetReg(y, k, v).mem = y.mem /\ SetReg(y, k, v).spsr = y.spsr
  BY <1>2 DEF SetReg, Spares, IsMachine
<1>. QED  BY <1>1, <1>3 DEF Spares
LEMMA SparesTicks ==
  ASSUME NEW x, NEW y, NEW stores, Spares(x, y, stores), NEW n
  PROVE  Spares(x, Ticks(y, n), stores)
<1>1. Within(x, Ticks(y, n))
  BY WithinTicks DEF Spares
<1>2. /\ Ticks(y, n).r = y.r /\ Ticks(y, n).flush = y.flush /\ Ticks(y, n).cpsr = y.cpsr
      /\ Ticks(y, n).mem = y.mem /\ Ticks(y, n).spsr = y.spsr
  BY DEF Ticks, Spares, Within, IsMachine
<1>. QED  BY <1>1, <1>2 DEF Spares
LEMMA SparesFlags ==
  ASSUME NEW x, NEW y, NEW stores, Spares(x, y, stores), NEW r, NEW c, NEW v
  PROVE  /\ Spares(x, SetNz(y, r), stores) /\ Spares(x, SetNzc(y, r, c), stores)
         /\ Spares(x, SetNzcv(y, r, c, v), stores)
<1>1. IsMachine(y) /\ IsPsr(y.cpsr)
  BY DEF Spares, Within, IsMachine
<1>2. ASSUME NEW z, Within(x, z), NEW p, z = InForce(y, p), p.t = y.cpsr.t PROVE Spares(x, z, stores)
  <2>1. z.r = y.r /\ z.flush = y.flush /\ z.cpsr = p /\ z.mem = y.mem /\ z.spsr = y.spsr
    BY <1>1, <1>2 DEF InForce, IsMachine
  <2>. QED  BY <1>2, <2>1 DEF Spares
<1>3. /\ NzOf(y.cpsr, r).t = y.cpsr.t /\ NzcOf(y.cpsr, r, c).t = y.cpsr.t /\ NzcvOf(y.cpsr, r, c, v).t = y.cpsr.t
  BY <1>1 DEF NzOf, NzcOf, NzcvOf, IsPsr, PsrFields
<1>4. Within(x, SetNz(y, r)) /\ Within(x, SetNzc(y, r, c)) /\ Within(x, SetNzcv(y, r, c, v))
  BY WithinFlags DEF Spares
<1>. QED  BY <1>1, <1>2, <1>3, <1>4, FlagsInForce
LEMMA SparesMemory ==
  ASSUME NEW x, NEW y, Spares(x, y, TRUE), NEW a, NEW v
  PROVE  Spares(x, WriteWord(y, a, v), TRUE) /\ Spares(x, WriteHalf(y, a, v), TRUE) /\ Spares(x, WriteByte(y, a, v), TRUE)
<1>1. Within(x, WriteWord(y, a, v)) /\ Within(x, WriteHalf(y, a, v)) /\ Within(x, WriteByte(y, a, v))
  BY WithinMemory DEF Spares
<1>2. \A n, w : Put(y, a, v, n, w).r = y.r /\ Put(y, a, v, n, w).flush = y.flush /\ Put(y, a, v, n, w).cpsr = y.cpsr
  BY DEF Put, Spares, Within, IsMachine
<1>. QED  BY <1>1, <1>2 DEF Spares, WriteWord, WriteHalf, WriteByte

-----------------------------------------------------------------------------
\* What is executed in a loop writes neither R15 nor the memory.
LEMMA PureNumbers ==
  ASSUME NEW x, IsMachine(x), x.flush = FALSE, NEW i, DecodedThumb(i), i.op \in {"t1", "t2", "t3", "t4"}, NEW stores
  PROVE  Spares(x, ThumbExecute(x, i), stores)
<1>1. Spares(x, x, stores) /\ i.rd # PC
  BY SparesSelf, LowIsNotPc DEF DecodedThumb
<1>2. CASE i.op \in {"t1", "t2", "t3"}
  BY <1>1, <1>2, SparesRegister, SparesFlags DEF ThumbExecute, MoveShifted, AddSubtract, Immediate
<1>3. CASE i.op = "t4"
  <2>1. i.alu \in ThumbAlus
    BY <1>3 DEF DecodedThumb
  <2>. QED  BY <1>1, <1>3, <2>1, SparesRegister, SparesFlags, SparesTicks DEF ThumbExecute, ThumbAlu, ThumbAlus
<1>. QED  BY <1>2, <1>3

LEMMA PureLoads ==
  ASSUME NEW x, IsMachine(x), x.flush = FALSE, NEW i, DecodedThumb(i), NEW stores,
         \/ i.op \in {"t6", "t12"}
         \/ i.op \in {"t7", "t8", "t9", "t10", "t11"} /\ i.load
  PROVE  Spares(x, ThumbExecute(x, i), stores)
<1>1. Spares(x, x, stores) /\ i.rd # PC
  BY SparesSelf, LowIsNotPc DEF DecodedThumb
<1>2. \A v : Spares(x, SetReg(Ticks(x, 1), i.rd, v), stores) /\ Spares(x, SetReg(x, i.rd, v), stores)
  BY <1>1, SparesRegister, SparesTicks
<1>3. CASE i.op \in {"t6", "t12"}
  BY <1>2, <1>3 DEF ThumbExecute, PcRelativeLoad, LoadAddress
<1>4. CASE i.op \in {"t7", "t9", "t11"} /\ i.load
  <2>1. PICK v : ThumbExecute(x, i) = SetReg(Ticks(x, 1), i.rd, v)
    BY <1>4 DEF ThumbExecute, LoadStoreReg, LoadStoreImm, SpRelative, Transfer
  <2>. QED  BY <1>2, <2>1
<1>5. CASE i.op \in {"t8", "t10"} /\ i.load
  <2>1. PICK v : ThumbExecute(x, i) = SetReg(Ticks(x, 1), i.rd, v)
    BY <1>5 DEF ThumbExecute, LoadStoreSignExtended, LoadStoreHalfword
  <2>. QED  BY <1>2, <2>1
<1>. QED  BY <1>3, <1>4, <1>5

LEMMA PureSpares ==
  ASSUME NEW x, IsMachine(x), x.flush = FALSE, NEW i, DecodedThumb(i), PureInLoop(i)
  PROVE  Spares(x, ThumbExecute(x, i), FALSE)
<1>1. \/ i.op \in {"t1", "t2", "t3", "t4"} \/ i.op \in {"t6", "t12"}
      \/ i.op \in {"t7", "t8", "t9", "t10", "t11"} /\ i.load
  BY DEF PureInLoop
<1>. QED  BY <1>1, PureNumbers, PureLoads

\* Any Thumb instruction leaves R15 and the instruction set or has the pipeline refilled.
Goes(x, y) == y.flush = TRUE \/ Spares(x, y, TRUE)

LEMMA FlushedByPc ==
  ASSUME NEW x, IsMachine(x), NEW k, NEW v
  PROVE  SetReg(x, PC, v).flush = TRUE /\ (x.flush = TRUE => SetReg(x, k, v).flush = TRUE)
  BY DEF SetReg, IsMachine

LEMMA StoresGo ==
  ASSUME NEW x, IsMachine(x), x.flush = FALSE, NEW i, DecodedThumb(i),
         (i.op \in {"t7", "t8", "t9", "t10", "t11"} /\ ~i.load) \/ i.op = "t13"
  PROVE  Goes(x, ThumbExecute(x, i))
<1>0. SP # PC
  BY DEF SP, PC
<1>1. Spares(x, x, TRUE)
  BY SparesSelf
<1>2. \A a, v : /\ Spares(x, WriteWord(x, a, v), TRUE) /\ Spares(x, WriteHalf(x, a, v), TRUE)
                /\ Spares(x, WriteByte(x, a, v), TRUE) /\ Spares(x, SetReg(x, SP, v), TRUE)
  BY <1>0, <1>1, SparesMemory, SparesRegister
<1>. QED  BY <1>2 DEF Goes, ThumbExecute, LoadStoreReg, LoadStoreImm, SpRelative, Transfer,
                      LoadStoreSignExtended, LoadStoreHalfword, AddToSp

LEMMA BranchesGo ==
  ASSUME NEW x, IsMachine(x), x.flush = FALSE, NEW i, DecodedThumb(i), i.op \in {"t5", "t16", "t17", "t18", "t19"}
  PROVE  Goes(x, ThumbExecute(x, i))
<1>1. Spares(x, x, TRUE)
  BY SparesSelf
<1>2. \A v : SetReg(x, PC, v).flush = TRUE
  BY FlushedByPc
<1>3. \A k, v : Goes(x, SetReg(x, k, v))
  BY <1>1, <1>2, SparesRegister DEF Goes
<1>4. \A k : BranchExchange(x, k).flush = TRUE
  <2>1. \A b : IsMachine([x EXCEPT !.cpsr.t = b])
    BY WithinSelf, WithinBits DEF Within
  <2>. QED  BY <2>1, FlushedByPc DEF BranchExchange
<1>5. CASE i.op = "t5"
  <2>1. i.alu \in {"add", "cmp", "mov", "bx"}
    BY <1>5 DEF DecodedThumb
  <2>. QED  BY <1>1, <1>3, <1>4, <1>5, <2>1, SparesFlags DEF Goes, ThumbExecute, HiRegister
<1>6. CASE i.op \in {"t16", "t18"}
  BY <1>1, <1>3, <1>6 DEF Goes, ThumbExecute, ConditionalBranch, UnconditionalBranch
<1>7. CASE i.op = "t19"
  <2>1. \A v : IsMachine(SetReg(x, PC, v))
    BY WithinSelf, WithinRegister DEF Within
  <2>2. \A u, v : SetReg(SetReg(x, PC, u), LR, v).flush = TRUE
    BY <1>2, <2>1, FlushedByPc
  <2>. QED  BY <1>3, <1>7, <2>2 DEF Goes, ThumbExecute, LongBranchLink
<1>8. CASE i.op = "t17"
  <2> DEFINE q == [x.cpsr EXCEPT !.mode = "Supervisor", !.t = FALSE, !.i = TRUE]
             w == SetCurrentSpsr(WriteCpsr(x, q), x.cpsr)
  <2>1. IsPsr(q) /\ IsPsr(x.cpsr)
    BY DEF IsMachine, IsPsr, PsrFields, Mode
  <2> HIDE DEF q
  <2>2. IsMachine(w)
    BY <2>1, SwitchIsSeenAlike, SaveSeenAlike DEF SeenAlike
  <2> HIDE DEF w
  <2>3. \A v : IsMachine(SetReg(w, LR, v))
    BY <2>2, WithinSelf, WithinRegister DEF Within
  <2>4. PICK u, v : ThumbExecute(x, i) = SetReg(SetReg(w, LR, u), PC, v)
    BY <1>8 DEF ThumbExecute, ThumbSoftwareInterrupt, Entered, w, q
  <2>. QED  BY <2>3, <2>4, FlushedByPc DEF Goes
<1>. QED  BY <1>5, <1>6, <1>7, <1>8

SparesHolds(e, y) == Spares(e.x, y, TRUE)
PopSpares == INSTANCE FoldProofs WITH Op <- PopInto, Holds <- SparesHolds
PushSpares == INSTANCE FoldProofs WITH Op <- PushFrom, Holds <- SparesHolds
TakeSpares == INSTANCE FoldProofs WITH Op <- TakeStep, Holds <- SparesHolds
GiveSpares == INSTANCE FoldProofs WITH Op <- GiveStep, Holds <- SparesHolds

\* A list of low registers, lowest first.
LEMMA LowList ==
  ASSUME NEW list \in SUBSET Low
  PROVE  /\ list \in SUBSET (0..15) /\ Cardinality(list) \in Nat
         /\ DOMAIN Ordered(list) = 1..Cardinality(list)
         /\ \A n \in 1..Cardinality(list) : Ordered(list)[n] # PC
<1>1. list \in SUBSET (0..15) /\ PC \notin list
  BY DEF Low, PC
<1>2. Cardinality(list) \in Nat /\ DOMAIN Ordered(list) = 1..Cardinality(list)
  BY <1>1, OrderedIsSequence
<1>3. \A n \in 1..Cardinality(list) : Ordered(list)[n] \in list
  BY <1>1, OrderedIn
<1>. QED  BY <1>1, <1>2, <1>3

LEMMA StackGoes ==
  ASSUME NEW e, IsMachine(e.x), e.x.flush = FALSE, e.i.list \in SUBSET Low
  PROVE  Goes(e.x, PushPop(e.x, e.i))
<1> DEFINE x == e.x
           i == e.i
           c == Cardinality(i.list)
           n == c + Flag(i.extra, 0)
           start == IF i.load THEN x.r[SP] ELSE Wrap(x.r[SP] - 4 * n)
           last  == Wrap(start + 4 * c)
           popped == PopSpares!Folded(e, Ticks(x, 1), Ordered(i.list))
           moved == SetReg(popped, SP, Wrap(x.r[SP] + 4 * n))
           pushed == PushSpares!Folded(e, x, Ordered(i.list))
           below == Wrap(x.r[SP] - 64)
<1>1. c \in Nat /\ DOMAIN Ordered(i.list) = 1..c /\ \A j \in 1..c : Ordered(i.list)[j] # PC
  BY LowList
<1>2. SparesHolds(e, x) /\ SparesHolds(e, Ticks(x, 1))
  BY SparesSelf, SparesTicks DEF SparesHolds
<1>3. /\ \A a, k : SparesHolds(e, a) /\ k # PC => SparesHolds(e, PopInto(e, a, k))
      /\ \A a, k : SparesHolds(e, a) => SparesHolds(e, PushFrom(e, a, k))
  BY SparesRegister, SparesMemory DEF SparesHolds, PopInto, PushFrom
<1>4. SparesHolds(e, popped)
  <2> HIDE DEF x, c
  <2>. QED  BY <1>1, <1>2, <1>3, PopSpares!FoldKeeps
<1>5. SparesHolds(e, pushed)
  <2> HIDE DEF x, c
  <2>. QED  BY <1>1, <1>2, <1>3, PushSpares!FoldKeeps
<1>6. PushPop(x, i) =
        CASE n = 0 /\ i.load -> SetReg(SetReg(x, PC, ReadWord(x, x.r[SP])), SP, Wrap(x.r[SP] + 64))
          [] n = 0 /\ ~i.load -> SetReg(WriteWord(x, below, Wrap(x.r[PC] + 2)), SP, below)
          [] n > 0 /\ i.load ->
               IF i.extra THEN SetReg(moved, PC, ReadWord(x, last) - (ReadWord(x, last) % 2)) ELSE moved
          [] OTHER -> SetReg(IF i.extra THEN WriteWord(pushed, last, x.r[LR]) ELSE pushed, SP, start)
  BY DEF PushPop, PopInto, PushFrom, PoppedStart, PopSpares!Folded, FoldLeft,
         PopSpares!MapThenFoldSet, MapThenFoldSet, PopSpares!Greatest, Max,
         PushSpares!Folded,  PushSpares!MapThenFoldSet, PushSpares!Greatest
<1> HIDE DEF popped, pushed, n, last, below, start
<1>7. SP # PC
  BY DEF SP, PC
<1>8. Spares(x, x, TRUE) /\ Spares(x, pushed, TRUE) /\ Spares(x, moved, TRUE)
  BY <1>2, <1>4, <1>5, <1>7, SparesRegister DEF SparesHolds
<1>9. \A v, w : SetReg(SetReg(x, PC, v), SP, w).flush = TRUE /\ SetReg(moved, PC, v).flush = TRUE
  <2>1. \A v : IsMachine(SetReg(x, PC, v)) /\ IsMachine(moved)
    BY <1>8, WithinSelf, WithinRegister DEF Within, Spares
  <2> HIDE DEF moved, x
  <2>. QED  BY <2>1, FlushedByPc DEF x
<1> HIDE DEF moved
<1>10. \A a, v, w : Spares(x, SetReg(WriteWord(x, a, v), SP, w), TRUE)
                    /\ Spares(x, SetReg(WriteWord(pushed, a, v), SP, w), TRUE) /\ Spares(x, SetReg(pushed, SP, w), TRUE)
  BY <1>7, <1>8, SparesMemory, SparesRegister
<1>. QED  BY <1>6, <1>8, <1>9, <1>10 DEF Goes

LEMMA TransferGoes ==
  ASSUME NEW e, IsMachine(e.x), e.x.flush = FALSE, e.i.list \in SUBSET Low, e.i.rb \in Low
  PROVE  Goes(e.x, BlockTransfer(e.x, e.i))
<1> DEFINE x == e.x
           i == e.i
           c == Cardinality(i.list)
           low == x.r[i.rb]
           wb == Wrap(low + 4 * c)
           taken == TakeSpares!Folded(e, Ticks(x, 1), Ordered(i.list))
           given == GiveSpares!Folded(e, x, Ordered(i.list))
           moved == IF i.load THEN taken ELSE given
           none == SetReg(x, i.rb, Wrap(low + 64))
<1>1. c \in Nat /\ DOMAIN Ordered(i.list) = 1..c /\ \A j \in 1..c : Ordered(i.list)[j] # PC
  BY LowList
<1>2. SparesHolds(e, x) /\ SparesHolds(e, Ticks(x, 1))
  BY SparesSelf, SparesTicks DEF SparesHolds
<1>3. /\ \A a, k : SparesHolds(e, a) /\ k # PC => SparesHolds(e, TakeStep(e, a, k))
      /\ \A a, k : SparesHolds(e, a) => SparesHolds(e, GiveStep(e, a, k))
  BY SparesRegister, SparesMemory DEF SparesHolds, TakeStep, GiveStep
<1>4. SparesHolds(e, taken)
  <2> HIDE DEF x, c
  <2>. QED  BY <1>1, <1>2, <1>3, TakeSpares!FoldKeeps
<1>5. SparesHolds(e, given)
  <2> HIDE DEF x, c
  <2>. QED  BY <1>1, <1>2, <1>3, GiveSpares!FoldKeeps
<1>6. BlockTransfer(x, i) =
        IF i.list = {}
        THEN IF i.load THEN SetReg(none, PC, ReadWord(x, low))
             ELSE WriteWord(none, low, Wrap(x.r[PC] + 2))
        ELSE IF i.load /\ i.rb \in i.list THEN moved ELSE SetReg(moved, i.rb, wb)
  BY DEF BlockTransfer, TakeStep, GiveStep, TakeSpares!Folded, FoldLeft,
         TakeSpares!MapThenFoldSet, MapThenFoldSet, TakeSpares!Greatest, Max,
         GiveSpares!Folded,  GiveSpares!MapThenFoldSet, GiveSpares!Greatest
<1> HIDE DEF taken, given, wb
<1>7. i.rb # PC
  BY LowIsNotPc
<1>8. Spares(x, moved, TRUE) /\ Spares(x, none, TRUE)
  BY <1>2, <1>4, <1>5, <1>7, SparesRegister DEF SparesHolds
<1> HIDE DEF moved, none
<1>9. \A v : SetReg(none, PC, v).flush = TRUE
  BY <1>8, FlushedByPc DEF Spares, Within
<1>10. \A a, v : Spares(x, WriteWord(none, a, v), TRUE) /\ Spares(x, SetReg(moved, i.rb, v), TRUE)
  BY <1>7, <1>8, SparesMemory, SparesRegister
<1>. QED  BY <1>6, <1>8, <1>9, <1>10 DEF Goes

LEMMA ThumbGoes ==
  ASSUME NEW x, IsMachine(x), x.flush = FALSE, NEW i, Decoded(i), i.op \in ThumbOps
  PROVE  Goes(x, ThumbExecute(x, i))
<1>1. DecodedThumb(i)
  BY DEF Decoded
<1>2. CASE i.op \in {"t1", "t2", "t3", "t4"}
  BY <1>1, <1>2, PureNumbers DEF Goes
<1>3. CASE i.op \in {"t6", "t12"} \/ (i.op \in {"t7", "t8", "t9", "t10", "t11"} /\ i.load)
  BY <1>1, <1>3, PureLoads DEF Goes
<1>4. CASE (i.op \in {"t7", "t8", "t9", "t10", "t11"} /\ ~i.load) \/ i.op = "t13"
  BY <1>1, <1>4, StoresGo
<1>5. CASE i.op \in {"t5", "t16", "t17", "t18", "t19"}
  BY <1>1, <1>5, BranchesGo
<1>6. CASE i.op \in {"t14", "t15"}
  <2> DEFINE e == [x |-> x, i |-> i]
  <2>1. e.x = x /\ e.i = i
    OBVIOUS
  <2>2. i.list \in SUBSET Low /\ (i.op = "t15" => i.rb \in Low)
    BY <1>1, <1>6 DEF DecodedThumb
  <2> HIDE DEF e
  <2>3. i.op = "t14" => Goes(x, PushPop(x, i))
    BY <2>1, <2>2, StackGoes
  <2>4. i.op = "t15" => Goes(x, BlockTransfer(x, i))
    BY <2>1, <2>2, TransferGoes
  <2>. QED  BY <1>6, <2>3, <2>4 DEF ThumbExecute
<1>7. CASE i.op \in {"t7", "t8", "t9", "t10", "t11"}
  BY <1>3, <1>4, <1>7, Zenon
<1>8. CASE i.op \in {"t6", "t12"}
  BY <1>3, <1>8, Zenon
<1>9. CASE i.op = "t13"
  BY <1>4, <1>9, Zenon
<1>. QED  BY <1>2, <1>5, <1>6, <1>7, <1>8, <1>9 DEF ThumbOps

-----------------------------------------------------------------------------
\* The pipeline of a machine in Thumb state is what was fetched behind R15.
Fetched(x) == x.pipeline = <<Slot(x, Wrap(x.r[PC] - 4)), Slot(x, Wrap(x.r[PC] - 2))>>
Poised(x) == Proper(x) /\ (x.cpsr.t => x.flush = FALSE /\ Fetched(x))

LEMMA WrapAgain ==
  ASSUME NEW v \in Int, NEW d \in Int
  PROVE  Wrap(Wrap(v) + d) = Wrap(v + d)
<1>1. PICK q \in Int : v = Full * q + Wrap(v)
  BY WrapWord
<1>2. Wrap(v) \in Int
  BY WrapType
<1>3. v + d = (Wrap(v) + d) + Full * q /\ Wrap(v) + d \in Int
  <2> DEFINE w == Wrap(v)
  <2>1. v = Full * q + w /\ w \in Int /\ Full * q \in Int
    BY <1>1, <1>2, HalfFull
  <2> HIDE DEF w
  <2>. QED  BY <2>1 DEF w
<1>. QED  BY <1>3, WrapTurn

LEMMA WrapBack ==
  ASSUME NEW v \in Int, NEW d \in Int, NEW e \in Int
  PROVE  Wrap(Wrap(v + d) - e) = Wrap(v + d - e)
<1>1. Wrap(v + d) \in Int /\ v + d \in Int /\ -e \in Int
  BY WrapType
<1>2. Wrap(Wrap(v + d) + (-e)) = Wrap((v + d) + (-e))
  BY <1>1, WrapAgain
<1>3. \A w \in Int : w + (-e) = w - e
  OBVIOUS
<1>. QED  BY <1>1, <1>2, <1>3

LEMMA EvenBelow ==
  ASSUME NEW v \in Word
  PROVE  LET a == v - (v % 2)
             u == Wrap(a + 2)
             w == Wrap(v + 2)
         IN  a - (a % 2) = a /\ u - (u % 2) = w - (w % 2)
<1> DEFINE p == v % 2
           b == v \div 2
<1>1. v \in Int /\ v >= 0 /\ v <= Full - 1 /\ Half \in Nat /\ Half > 0 /\ Full = 2 * Half
  BY HalfFull
<1>2. p \in 0..1 /\ b \in Int /\ v = 2 * b + p
  <2> HIDE DEF Word
  <2>. QED  BY <1>1, Divided
<1> HIDE DEF p, b
<1>3. v - p = 2 * b /\ \A c \in Int : (2 * c) % 2 = 0 /\ (2 * c + p) % 2 = p
  BY <1>2
<1>4. CASE b < Half - 1
  <2>1. (v - p) + 2 = 2 * (b + 1) /\ v + 2 = 2 * (b + 1) + p /\ (v - p) + 2 \in 0..(Full - 1) /\ v + 2 \in 0..(Full - 1)
    BY <1>1, <1>2, <1>4
  <2>2. Wrap((v - p) + 2) = 2 * (b + 1) /\ Wrap(v + 2) = 2 * (b + 1) + p
    BY <1>1, <1>2, <2>1, WrapNear
  <2>3. (2 * (b + 1)) % 2 = 0 /\ (2 * (b + 1) + p) % 2 = p /\ (2 * b) % 2 = 0
    BY <1>2, <1>3
  <2>. QED  BY <1>2, <1>3, <2>2, <2>3 DEF p
<1>5. CASE ~(b < Half - 1)
  <2>1. b = Half - 1
    BY <1>1, <1>2, <1>5
  <2>2. (v - p) + 2 = Full /\ v + 2 = Full + p /\ v + 2 \in Full..(2 * Full - 1) /\ Full \in Full..(2 * Full - 1) /\ Full \in Int
    BY <1>1, <1>2, <2>1
  <2>3. Wrap((v - p) + 2) = 0 /\ Wrap(v + 2) = p
    BY <1>1, <1>2, <2>2, WrapNear
  <2>4. 0 % 2 = 0 /\ p % 2 = p /\ (2 * b) % 2 = 0
    BY <1>2, <1>3
  <2>. QED  BY <1>2, <1>3, <2>3, <2>4 DEF p
<1>. QED  BY <1>4, <1>5

LEMMA RefillFetched ==
  ASSUME NEW x, Proper(x)
  PROVE  Poised(Refill(x)) /\ Refill(x).cpsr = x.cpsr
<1>1. Proper(Refill(x))
  BY ProperRefill
<1>2. Refill(x).cpsr = x.cpsr /\ Refill(x).flush = FALSE
  BY DEF Refill, Proper, IsMachine
<1>3. ASSUME x.cpsr.t PROVE Fetched(Refill(x))
  <2> DEFINE a == x.r[PC] - (x.r[PC] % 2)
             z == Refill(x)
  <2>1. InstructionSize(x) = 2 /\ PC \in DOMAIN x.r
    BY <1>3 DEF InstructionSize, Proper, IsMachine, PC
  <2>2. z.pipeline = <<Slot(x, a), Slot(x, Wrap(a + 2))>> /\ z.r[PC] = Wrap(x.r[PC] + 4)
    BY <2>1 DEF Refill, Proper, IsMachine
  <2>3. x.r[PC] \in Word /\ x.r[PC] \in Int
    BY ProperParts DEF PC, Register
  <2>4. Wrap(z.r[PC] - 4) = x.r[PC] /\ Wrap(z.r[PC] - 2) = Wrap(x.r[PC] + 2)
    <3>1. Wrap(Wrap(x.r[PC] + 4) - 4) = Wrap(x.r[PC] + 4 - 4) /\ Wrap(Wrap(x.r[PC] + 4) - 2) = Wrap(x.r[PC] + 4 - 2)
      BY <2>3, WrapBack
    <3>2. Wrap(x.r[PC]) = x.r[PC] /\ x.r[PC] + 4 - 4 = x.r[PC] /\ x.r[PC] + 4 - 2 = x.r[PC] + 2
      BY <2>3, HalfFull, WrapNear
    <3>. QED  BY <2>2, <3>1, <3>2
  <2>5. \A v : Slot(z, v) = [at |-> v - (v % 2), t |-> x.cpsr.t] /\ Slot(x, v) = [at |-> v - (v % 2), t |-> x.cpsr.t]
    BY <1>2, <1>3 DEF Slot, InstructionSize
  <2>6. a - (a % 2) = x.r[PC] - (x.r[PC] % 2)
        /\ Wrap(a + 2) - (Wrap(a + 2) % 2) = Wrap(x.r[PC] + 2) - (Wrap(x.r[PC] + 2) % 2)
    BY <2>3, EvenBelow
  <2> HIDE DEF z, a
  <2>7. Slot(x, a) = Slot(z, Wrap(z.r[PC] - 4)) /\ Slot(x, Wrap(a + 2)) = Slot(z, Wrap(z.r[PC] - 2))
    BY <2>4, <2>5, <2>6
  <2>. QED  BY <2>2, <2>7 DEF Fetched, z
<1>. QED  BY <1>1, <1>2, <1>3 DEF Poised

LEMMA SteppedInThumb ==
  ASSUME NEW x, Poised(x), x.cpsr.t, NEW i, Decoded(i), i.op \in ThumbOps
  PROVE  \E y : /\ Stepped(x, i) = Advanced(x, y) /\ Proper(y) /\ Goes(x, y)
                /\ PureInLoop(i) => Spares(x, y, FALSE)
                /\ i.op = "t16" => y.mem = x.mem /\ y.spsr = x.spsr /\ Within(x, y) /\ y.cpsr.t
<1> DEFINE z == [x EXCEPT !.ticks = 0]
           y == ThumbExecute(z, i)
<1>1. /\ Proper(z) /\ z.flush = FALSE /\ z.cpsr = x.cpsr /\ z.r = x.r /\ z.mem = x.mem /\ z.spsr = x.spsr
      /\ z.r8_12 = x.r8_12 /\ z.r13_14 = x.r13_14
  BY ProperBits DEF Poised, Proper, IsMachine
<1>2. Stepped(x, i) = Advanced(x, y)
  BY <1>1 DEF Stepped, Executed
<1> HIDE DEF z
<1>3. Proper(y)
  BY <1>1, ProperThumb
<1>4. IsMachine(z) /\ DecodedThumb(i)
  BY <1>1 DEF Proper, Decoded
<1>5. Goes(z, y)
  BY <1>1, <1>4, ThumbGoes
<1>6. PureInLoop(i) => Spares(z, y, FALSE)
  BY <1>1, <1>4, PureSpares
<1>7. i.op = "t16" => y.mem = z.mem /\ y.spsr = z.spsr /\ Within(z, y) /\ y.cpsr.t = z.cpsr.t
  <2>1. \A v : SetReg(z, PC, v).mem = z.mem /\ SetReg(z, PC, v).spsr = z.spsr /\ SetReg(z, PC, v).cpsr = z.cpsr
    BY <1>4 DEF SetReg, IsMachine
  <2>. QED  BY <1>4, <2>1, BranchesWithin DEF ThumbExecute, ConditionalBranch
<1> HIDE DEF y
<1>8. Goes(x, y) /\ (PureInLoop(i) => Spares(x, y, FALSE)) /\ (Within(z, y) => Within(x, y))
  BY <1>1, <1>5, <1>6 DEF Goes, Spares, Within
<1>. QED  BY <1>1, <1>2, <1>3, <1>7, <1>8

\* What an instruction leaves where it has not the pipeline refilled.
LEMMA AdvancedOn ==
  ASSUME NEW x, Poised(x), x.cpsr.t, NEW y, Proper(y), Spares(x, y, TRUE)
  PROVE  /\ Poised(Advanced(x, y)) /\ Advanced(x, y).cpsr = y.cpsr
         /\ Advanced(x, y).r[PC] = Wrap(x.r[PC] + 2)
<1> DEFINE z == Advanced(x, y)
<1>1. Proper(z) /\ IsMachine(y) /\ PC \in DOMAIN y.r
  BY ProperAdvanced DEF Poised, Proper, IsMachine, PC
<1>2. InstructionSize(x) = 2
  BY DEF InstructionSize
<1>3. /\ z.cpsr = y.cpsr /\ z.flush = FALSE /\ z.r[PC] = Wrap(x.r[PC] + 2)
      /\ z.pipeline = <<x.pipeline[2], Slot(x, x.r[PC])>>
  BY <1>1, <1>2 DEF Advanced, Spares, IsMachine
<1>4. x.r[PC] \in Word /\ x.r[PC] \in Int
  BY ProperParts DEF PC, Register, Poised
<1>5. Wrap(z.r[PC] - 4) = Wrap(x.r[PC] - 2) /\ Wrap(z.r[PC] - 2) = x.r[PC]
  <2>1. Wrap(Wrap(x.r[PC] + 2) - 4) = Wrap(x.r[PC] + 2 - 4) /\ Wrap(Wrap(x.r[PC] + 2) - 2) = Wrap(x.r[PC] + 2 - 2)
    BY <1>4, WrapBack
  <2>2. Wrap(x.r[PC]) = x.r[PC] /\ x.r[PC] + 2 - 2 = x.r[PC] /\ x.r[PC] + 2 - 4 = x.r[PC] - 2
    BY <1>4, HalfFull, WrapNear
  <2>. QED  BY <1>3, <2>1, <2>2
<1>6. \A v : Slot(z, v) = Slot(x, v)
  BY <1>3 DEF Slot, InstructionSize, Spares
<1>7. x.pipeline[2] = Slot(x, Wrap(x.r[PC] - 2))
  BY DEF Poised, Fetched
<1> HIDE DEF z
<1>8. Fetched(z)
  BY <1>3, <1>5, <1>6, <1>7 DEF Fetched
<1>. QED  BY <1>1, <1>3, <1>8 DEF Poised, z

LEMMA PoisedStep ==
  ASSUME NEW x, Poised(x), NEW i, Decoded(i), i.op # "irq", x.cpsr.t <=> i.op \in ThumbOps,
         Stepped(x, i).cpsr.t => x.cpsr.t
  PROVE  Poised(Stepped(x, i))
<1>1. Proper(Stepped(x, i))
  BY ProperStepped DEF Poised
<1>2. CASE ~x.cpsr.t
  BY <1>1, <1>2 DEF Poised
<1>3. CASE x.cpsr.t
  <2>1. PICK y : Stepped(x, i) = Advanced(x, y) /\ Proper(y) /\ Goes(x, y)
    BY <1>3, SteppedInThumb
  <2>2. CASE y.flush = TRUE
    BY <2>1, <2>2, RefillFetched DEF Advanced
  <2>3. CASE Spares(x, y, TRUE)
    BY <1>3, <2>1, <2>3, AdvancedOn
  <2>. QED  BY <2>1, <2>2, <2>3 DEF Goes
<1>. QED  BY <1>2, <1>3

-----------------------------------------------------------------------------
\* A loop of n instructions from h: what follows of its having been found.
LoopAt(code, h, n) ==
  /\ n \in Nat /\ n > 0 /\ 2 * (n - 1) <= MaxSpan /\ h \in Word
  /\ \A k \in 0..(n - 1) : h + 2 * k \in DOMAIN code
  /\ \A k \in 0..(n - 2) : PureInLoop(code[h + 2 * k])
  /\ code[h + 2 * (n - 1)].op = "t16"

LEMMA EvenWrap ==
  ASSUME NEW v \in Int, v % 2 = 0
  PROVE  Wrap(v) \in Word /\ Wrap(v) % 2 = 0
<1>1. PICK q \in Int : v = Full * q + Wrap(v)
  BY WrapWord
<1>2. Wrap(v) \in Int /\ Wrap(v) \in Word
  BY WrapType
<1> DEFINE w == Wrap(v)
           j == v \div 2
           b == Half * q
<1>3. b \in Int /\ Full * q = 2 * b
  BY HalfFull
<1>4. v = 2 * j /\ j \in Int
  BY Divided
<1> HIDE DEF w, b, j
<1>5. w = 2 * (j - b) /\ w \in Int /\ j - b \in Int
  BY <1>1, <1>2, <1>3, <1>4 DEF w
<1>6. w % 2 = 0
  BY <1>5
<1>. QED  BY <1>2, <1>6 DEF w

LEMMA LoopFound ==
  ASSUME NEW code, IsRoutine(code), NEW from \in Word, FindLoop(code, from) # NoLoop
  PROVE  LoopAt(code, FindLoop(code, from).head, FindLoop(code, from).len)
<1> DEFINE Passed(at) == at \in DOMAIN code /\ PureInLoop(code[at])
           closing == {k \in 0..(MaxScan - 1) : /\ ~Passed(from + 2 * k)
                                                /\ \A j \in 0..(k - 1) : Passed(from + 2 * j)}
           k == CHOOSE k \in closing : TRUE
           at == from + 2 * k
           head == CondBranchTarget(code[at], at)
           n == (at - head) \div 2
<1>1. /\ closing # {} /\ at \in DOMAIN code /\ code[at].op = "t16"
      /\ head <= from /\ at - head <= MaxSpan
      /\ \A j \in 0..(n - 1) : Passed(head + 2 * j)
      /\ FindLoop(code, from) = [head |-> head, len |-> n + 1]
  BY DEF FindLoop
<1>2. k \in 0..(MaxScan - 1)
  BY <1>1
<1> HIDE DEF closing, k
<1>3. from \in Int /\ k \in Int /\ k >= 0 /\ at \in Int /\ at >= from
  BY <1>2, WordsAreInt, IdleAssumption
<1>4. at \in Word /\ at % 2 = 0 /\ code[at].offset % 2 = 0 /\ DecodedThumb(code[at])
  BY <1>1 DEF IsRoutine, Decoded
<1>5. code[at].offset \in Int
  BY <1>1, <1>4 DEF DecodedThumb
<1> HIDE DEF at
<1>6. head \in Word /\ head % 2 = 0
  <2> DEFINE o == code[at].offset
  <2>1. o \in Int /\ o % 2 = 0
    BY <1>4, <1>5
  <2> HIDE DEF o
  <2>2. at + 4 + o \in Int /\ (at + 4 + o) % 2 = 0
    <3>1. at = 2 * (at \div 2) /\ o = 2 * (o \div 2) /\ at \div 2 \in Int /\ o \div 2 \in Int
      BY <1>3, <1>4, <2>1
    <3>2. at + 4 + o = 2 * (at \div 2 + 2 + o \div 2)
      BY <3>1
    <3>. QED  BY <1>3, <2>1, <3>1, <3>2
  <2>. QED  BY <2>2, EvenWrap DEF CondBranchTarget, o
<1>7. head \in Int
  BY <1>6, WordsAreInt
<1> HIDE DEF head
<1>8. n \in Nat /\ at = head + 2 * n
  <2>1. at = 2 * (at \div 2) /\ head = 2 * (head \div 2) /\ at \div 2 \in Int /\ head \div 2 \in Int
    BY <1>3, <1>4, <1>6, <1>7
  <2>2. at - head = 2 * (at \div 2 - head \div 2) /\ at - head >= 0
    BY <1>1, <1>3, <1>7, <2>1
  <2>. QED  BY <1>3, <1>7, <2>1, <2>2
<1> HIDE DEF n
<1>9. LoopAt(code, head, n + 1)
  <2>1. n + 1 \in Nat /\ n + 1 > 0 /\ 2 * ((n + 1) - 1) <= MaxSpan /\ (n + 1) - 1 = n /\ (n + 1) - 2 = n - 1
    BY <1>1, <1>3, <1>7, <1>8
  <2>2. \A j \in 0..n : head + 2 * j \in DOMAIN code
    <3>1. \A j \in 0..n : j = n \/ j \in 0..(n - 1)
      BY <1>8
    <3>. QED  BY <1>1, <1>8, <3>1
  <2>. QED  BY <1>1, <1>6, <1>8, <2>1, <2>2 DEF LoopAt
<1>. QED  BY <1>1, <1>9

\* Before its instruction k.
At(x, h, k) == Poised(x) /\ x.cpsr.t /\ x.r[PC] = Wrap(h + 4 + 2 * k)
\* What registers do not tell of a machine is alike.
SameStore(x, y) == y.mem = x.mem /\ y.spsr = x.spsr /\ y.r8_12 = x.r8_12 /\ y.r13_14 = x.r13_14

LEMMA AtExecutes ==
  ASSUME NEW code, IsRoutine(code), NEW h, NEW n, LoopAt(code, h, n), NEW k \in 0..(n - 1), NEW x, At(x, h, k)
  PROVE  Executing(x) = h + 2 * k
<1> DEFINE a == h + 2 * k
<1>1. a \in DOMAIN code /\ a \in Word /\ a % 2 = 0 /\ a \in Int /\ h \in Int /\ k \in Int
  BY WordsAreInt DEF LoopAt, IsRoutine
<1>2. h + 4 + 2 * k = a + 4 /\ a + 4 - 4 = a
  BY <1>1
<1>3. Wrap(x.r[PC] - 4) = a
  <2> HIDE DEF a
  <2>1. Wrap(Wrap(a + 4) - 4) = Wrap(a + 4 - 4) /\ Wrap(a) = a
    BY <1>1, WrapBack, WrapNear, HalfFull
  <2>. QED  BY <1>2, <2>1 DEF At
<1> HIDE DEF a
<1>4. Slot(x, a).at = a
  BY <1>1 DEF At, Slot, InstructionSize
<1>. QED  BY <1>3, <1>4 DEF At, Poised, Fetched, Executing, a

LEMMA AdvancedStore ==
  ASSUME NEW x, NEW y, IsMachine(y) PROVE SameStore(y, Advanced(x, y))
  BY DEF SameStore, Advanced, Refill, IsMachine

\* A step within the loop goes on to the next instruction, the last one anywhere;
\* none stores anything.
LEMMA LoopStep ==
  ASSUME NEW code, IsRoutine(code), NEW h, NEW n, LoopAt(code, h, n), NEW k \in 0..(n - 1), NEW x, At(x, h, k)
  PROVE  LET y == Stepped(x, code[Executing(x)])
         IN  /\ SameStore(x, y) /\ Poised(y) /\ y.cpsr.t
             /\ k < n - 1 => At(y, h, k + 1)
             /\ ~StoresTo(code[Executing(x)])
<1> DEFINE i == code[h + 2 * k]
           y == Stepped(x, i)
<1>1. Executing(x) = h + 2 * k /\ Decoded(i) /\ Poised(x) /\ x.cpsr.t
  BY AtExecutes DEF LoopAt, IsRoutine, At
<1>2. n \in Nat /\ h \in Int
  BY WordsAreInt DEF LoopAt
<1>3. (k < n - 1 => PureInLoop(i)) /\ (~(k < n - 1) => i.op = "t16")
  <2>1. (k < n - 1 => k \in 0..(n - 2)) /\ (~(k < n - 1) => k = n - 1)
    BY <1>2
  <2>. QED  BY <2>1 DEF LoopAt
<1> HIDE DEF i
<1>4. PureInLoop(i) => i.op \in ThumbOps /\ ~StoresTo(i)
  BY DEF PureInLoop, StoresTo, ThumbOps
<1>5. i.op = "t16" => i.op \in ThumbOps /\ ~StoresTo(i)
  BY DEF StoresTo, ThumbOps
<1>6. PICK u : /\ y = Advanced(x, u) /\ Proper(u) /\ Goes(x, u)
               /\ PureInLoop(i) => Spares(x, u, FALSE)
               /\ i.op = "t16" => u.mem = x.mem /\ u.spsr = x.spsr /\ Within(x, u) /\ u.cpsr.t
  BY <1>1, <1>3, <1>4, <1>5, SteppedInThumb
<1> HIDE DEF y
<1>7. SameStore(u, y) /\ IsMachine(u)
  BY <1>6, AdvancedStore DEF Proper
<1>8. CASE k < n - 1
  <2>1. Spares(x, u, TRUE) /\ Spares(x, u, FALSE)
    BY <1>3, <1>6, <1>8 DEF Spares
  <2>2. Poised(y) /\ y.cpsr = u.cpsr /\ y.r[PC] = Wrap(x.r[PC] + 2)
    BY <1>1, <1>6, <2>1, AdvancedOn
  <2>3. SameStore(x, u) /\ u.cpsr.t
    BY <1>1, <2>1 DEF Spares, SameStore, Within
  <2>4. Wrap(Wrap(h + 4 + 2 * k) + 2) = Wrap(h + 4 + 2 * (k + 1))
    <3>1. h + 4 + 2 * k \in Int /\ (h + 4 + 2 * k) + 2 = h + 4 + 2 * (k + 1)
      BY <1>2
    <3>. QED  BY <3>1, WrapAgain
  <2>5. SameStore(x, y)
    BY <1>7, <2>3 DEF SameStore
  <2>6. At(y, h, k + 1)
    BY <2>2, <2>3, <2>4 DEF At
  <2>. QED  BY <1>1, <1>3, <1>4, <1>8, <2>2, <2>3, <2>5, <2>6 DEF y, i
<1>9. CASE ~(k < n - 1)
  <2>1. SameStore(x, u) /\ u.cpsr.t
    BY <1>3, <1>6, <1>9 DEF SameStore, Within
  <2>2. Poised(y) /\ y.cpsr = u.cpsr
    <3>1. CASE u.flush = TRUE
      BY <1>6, <3>1, RefillFetched DEF Advanced
    <3>2. CASE Spares(x, u, TRUE)
      BY <1>1, <1>6, <3>2, AdvancedOn
    <3>. QED  BY <1>6, <3>1, <3>2 DEF Goes
  <2>3. SameStore(x, y)
    BY <1>7, <2>1 DEF SameStore
  <2>. QED  BY <1>1, <1>3, <1>5, <1>9, <2>1, <2>2, <2>3 DEF y, i
<1>. QED  BY <1>8, <1>9

LEMMA SameStep ==
  ASSUME NEW x, Poised(x), x.cpsr.t, NEW y, Poised(y), Registers(x) = Registers(y), SameStore(x, y)
  PROVE  Executing(x) = Executing(y) /\ \A i : Stepped(x, i) = Stepped(y, i)
<1>1. x.r = y.r /\ x.cpsr = y.cpsr
  BY DEF Registers
<1>2. \A a : Slot(x, a) = Slot(y, a)
  BY <1>1 DEF Slot, InstructionSize
<1>3. x.flush = FALSE /\ y.flush = FALSE /\ x.pipeline = y.pipeline
  BY <1>1, <1>2 DEF Poised, Fetched
<1>4. IsMachine(x) /\ IsMachine(y)
  BY DEF Poised, Proper
<1>5. [x EXCEPT !.ticks = 0] = [y EXCEPT !.ticks = 0]
  BY <1>1, <1>3, <1>4 DEF IsMachine, SameStore
<1>6. \A u : Advanced(x, u) = Advanced(y, u)
  <2>1. /\ x.r[PC] = y.r[PC] /\ x.pipeline[2] = y.pipeline[2] /\ Slot(x, x.r[PC]) = Slot(y, y.r[PC])
        /\ InstructionSize(x) = InstructionSize(y)
    BY <1>1, <1>2, <1>3 DEF InstructionSize
  <2>. QED  BY <2>1 DEF Advanced
<1>. QED  BY <1>3, <1>5, <1>6 DEF Stepped, Executing

-----------------------------------------------------------------------------
\* f's machines, each after the one before.
Runs(code, f, s) == \A k \in 1..s : f[k] = Stepped(f[k - 1], code[Executing(f[k - 1])])

LEMMA RunsOn ==
  ASSUME NEW code, IsRoutine(code), NEW h, NEW n, LoopAt(code, h, n),
         NEW s \in 0..n, NEW f, At(f[0], h, 0), Runs(code, f, s)
  PROVE  \A k \in 0..s : /\ SameStore(f[0], f[k]) /\ Poised(f[k]) /\ f[k].cpsr.t
                         /\ k < n => At(f[k], h, k)
                         /\ k < s => ~StoresTo(code[Executing(f[k])])
<1> DEFINE S == {k \in 0..s : /\ SameStore(f[0], f[k]) /\ Poised(f[k]) /\ f[k].cpsr.t
                              /\ k < n => At(f[k], h, k)}
<1>1. n \in Nat /\ s \in Nat
  BY DEF LoopAt
<1>2. 0 \in S
  BY <1>1 DEF At, SameStore
<1>3. ASSUME NEW k \in 0..(s - 1), At(f[k], h, k)
      PROVE  /\ SameStore(f[k], f[k + 1]) /\ Poised(f[k + 1]) /\ f[k + 1].cpsr.t
             /\ k + 1 < n => At(f[k + 1], h, k + 1)
             /\ ~StoresTo(code[Executing(f[k])])
  <2>1. k \in 0..(n - 1) /\ k + 1 \in 1..s /\ (k + 1) - 1 = k /\ (k + 1 < n => k < n - 1)
    BY <1>1
  <2>2. f[k + 1] = Stepped(f[k], code[Executing(f[k])])
    BY <2>1 DEF Runs
  <2>. QED  BY <1>3, <2>1, <2>2, LoopStep
<1>4. \A k \in 0..(s - 1) : k \in S => k + 1 \in S
  <2> SUFFICES ASSUME NEW k \in 0..(s - 1), k \in S PROVE k + 1 \in S
    OBVIOUS
  <2>1. k < n /\ k + 1 \in 0..s
    BY <1>1
  <2>2. At(f[k], h, k) /\ SameStore(f[0], f[k])
    BY <2>1
  <2>3. SameStore(f[0], f[k + 1])
    BY <1>3, <2>2 DEF SameStore
  <2>. QED  BY <1>3, <2>1, <2>2, <2>3
<1>5. \A k \in 0..s : k \in S
  <2> HIDE DEF S
  <2>. QED  BY <1>1, <1>2, <1>4, LoadFold!Induct
<1>6. ASSUME NEW k \in 0..s, k < s PROVE ~StoresTo(code[Executing(f[k])])
  <2>1. k \in 0..(s - 1) /\ k < n /\ k \in S
    BY <1>1, <1>5, <1>6
  <2>. QED  BY <1>3, <2>1
<1>. QED  BY <1>5, <1>6

\* An iteration, told by its machines, that ends with what it began with is followed
\* by one like it.
Again(f, code, x, n) ==
  f = [k \in 0..n |-> IF k = 0 THEN x ELSE Stepped(f[k - 1], code[Executing(f[k - 1])])]
LEMMA SpinsOn ==
  ASSUME IsRoutine(Code), NEW h, LoopAt(Code, h, watch.len), NEW f, At(f[0], h, 0),
         Runs(Code, f, watch.len), f[watch.len] = game, Registers(f[0]) = Registers(game)
  PROVE  SpinsInPlace
<1> DEFINE n == watch.len
           after == CHOOSE a : Again(a, Code, game, n)
           g == [k \in 0..n |-> IF k = 0 THEN game ELSE f[k]]
<1>1. n \in Nat /\ n > 0 /\ n \in 0..n /\ 0 \in 0..n
  BY DEF LoopAt
<1> HIDE DEF n
<1>2. \A k \in 0..n : /\ SameStore(f[0], f[k]) /\ Poised(f[k]) /\ f[k].cpsr.t
                      /\ k < n => ~StoresTo(Code[Executing(f[k])])
  BY <1>1, RunsOn DEF n
<1>3. SameStore(game, f[0]) /\ Poised(game) /\ Poised(f[0]) /\ game.cpsr.t
  BY <1>1, <1>2 DEF n, SameStore
<1>4. Executing(game) = Executing(f[0]) /\ \A i : Stepped(game, i) = Stepped(f[0], i)
  BY <1>3, SameStep
<1>5. \A k \in 0..n : Executing(g[k]) = Executing(f[k]) /\ \A i : Stepped(g[k], i) = Stepped(f[k], i)
  BY <1>4
<1>6. ASSUME NEW k \in 0..n PROVE g[k] = IF k = 0 THEN game ELSE Stepped(g[k - 1], Code[Executing(g[k - 1])])
  <2>1. CASE k = 0
    BY <2>1
  <2>2. CASE k # 0
    <3>1. k \in 1..n /\ k - 1 \in 0..n /\ g[k] = f[k]
      BY <1>1, <2>2
    <3>2. f[k] = Stepped(f[k - 1], Code[Executing(f[k - 1])])
      BY <3>1 DEF Runs, n
    <3>. QED  BY <1>5, <2>2, <3>1, <3>2
  <2>. QED  BY <2>1, <2>2
<1>7. g[n] = game /\ g = [k \in 0..n |-> g[k]]
  BY <1>1 DEF n
<1> HIDE DEF g
<1>8. Again(g, Code, game, n)
  BY <1>6, <1>7 DEF Again
<1>9. Again(after, Code, game, n)
  BY <1>8
<1>10. SpinsInPlace <=> /\ Registers(after[n]) = Registers(game)
                        /\ \A k \in 0..(n - 1) : ~StoresTo(Code[Executing(after[k])])
  BY DEF SpinsInPlace, Again, n
<1> HIDE DEF after
<1>11. \A k \in 0..n : after[k] = g[k]
  <2> DEFINE S == {k \in 0..n : after[k] = g[k]}
  <2>1. 0 \in S
    BY <1>1, <1>8, <1>9 DEF Again
  <2>2. ASSUME NEW k \in 0..(n - 1), k \in S PROVE k + 1 \in S
    <3>1. k + 1 \in 0..n /\ (k + 1) - 1 = k /\ k + 1 # 0 /\ after[k] = g[k]
      BY <1>1, <2>2
    <3>2. after[k + 1] = Stepped(after[k], Code[Executing(after[k])])
      BY <1>9, <3>1 DEF Again
    <3>3. g[k + 1] = Stepped(g[k], Code[Executing(g[k])])
      BY <1>6, <3>1
    <3>. QED  BY <3>1, <3>2, <3>3
  <2> HIDE DEF S
  <2>3. \A k \in 0..n : k \in S
    BY <1>1, <2>1, <2>2, LoadFold!Induct
  <2>. QED  BY <2>3 DEF S
<1>12. ASSUME NEW k \in 0..(n - 1) PROVE ~StoresTo(Code[Executing(after[k])])
  <2>1. k \in 0..n /\ k < n
    BY <1>1
  <2>. QED  BY <1>2, <1>5, <1>11, <2>1
<1>. QED  BY <1>1, <1>7, <1>10, <1>11, <1>12

-----------------------------------------------------------------------------
\* The game keeps to the code of its routine and to that code's instruction set.
InRoutine == /\ Executing(game) \in DOMAIN Code
             /\ game.cpsr.t <=> Code[Executing(game)].op \in ThumbOps

\* What a watch looks for is a loop of the code.
HeadOf(w) == Wrap(w.probe - 4)
Watches(code, w) ==
  /\ DOMAIN w = DOMAIN Unwatched /\ w.have \in BOOLEAN
  /\ w.have => w.probe # Nothing
  /\ w.probe # Nothing => LoopAt(code, HeadOf(w), w.len) /\ w.probe = Wrap(HeadOf(w) + 4)

\* Since the last arrival the loop ran undisturbed to where it is, or a handler
\* has come between, and the game is behind in the loop.
CleanSince(w) ==
  \E f : /\ At(f[0], HeadOf(w), 0) /\ w.snap = Registers(f[0])
         /\ Runs(Code, f, since) /\ f[since] = game
Behind(w) == \E k \in 1..(w.len - 1) : k < since /\ At(game, HeadOf(w), k)

IdleIInv ==
  /\ routine \in DOMAIN Routines /\ Poised(game)
  /\ scanline \in 0..LastLine /\ since \in 0..MaxSpan /\ disturbed \in BOOLEAN
  /\ Watches(Code, watch)
  /\ watch.have /\ ~disturbed /\ since <= watch.len => CleanSince(watch) \/ Behind(watch)

LEMMA RoutineIs ==
  ASSUME routine \in DOMAIN Routines
  PROVE  IsRoutine(Code) /\ Proper(Spinners[routine])
  BY IdleAssumption DEF Code, Proper

LEMMA WatchedInThumb ==
  ASSUME IdleIInv, InRoutine, watch.probe # Nothing PROVE game.cpsr.t
<1>1. LoopAt(Code, HeadOf(watch), watch.len) /\ IsRoutine(Code)
  BY RoutineIs DEF IdleIInv, Watches
<1>2. \E a \in DOMAIN Code : Code[a].op \in ThumbOps
  <2>1. watch.len - 1 \in 0..(watch.len - 1) /\ "t16" \in ThumbOps
    BY <1>1 DEF LoopAt, ThumbOps
  <2>. QED  BY <1>1, <2>1 DEF LoopAt
<1>. QED  BY <1>1, <1>2 DEF InRoutine, IsRoutine

LEMMA ArrivedAtHead ==
  ASSUME IdleIInv, InRoutine, Arrived
  PROVE  /\ watch.probe # Nothing /\ At(game, HeadOf(watch), 0)
         /\ LoopAt(Code, HeadOf(watch), watch.len)
<1>1. game.r[PC] \in Word
  BY ProperParts DEF IdleIInv, Poised, PC, Register
<1>2. watch.probe # Nothing /\ game.r[PC] = watch.probe
  BY <1>1, WordsAreNat DEF Arrived, Nothing
<1>3. game.cpsr.t /\ Poised(game) /\ LoopAt(Code, HeadOf(watch), watch.len) /\ watch.probe = Wrap(HeadOf(watch) + 4)
  BY <1>2, WatchedInThumb DEF IdleIInv, Watches
<1>4. HeadOf(watch) + 4 + 2 * 0 = HeadOf(watch) + 4
  BY <1>3, WordsAreInt DEF LoopAt
<1>. QED  BY <1>2, <1>3, <1>4 DEF At

\* A place behind in the loop is not its head.
LEMMA BehindIsNotHead ==
  ASSUME NEW h \in Word, NEW n \in Nat, 2 * (n - 1) <= MaxSpan, NEW k \in 1..(n - 1)
  PROVE  Wrap(h + 4 + 2 * k) # Wrap(h + 4 + 2 * 0)
<1>1. h \in Int /\ MaxSpan + 4 < Full /\ MaxSpan \in Nat /\ Full \in Nat
  BY WordsAreInt, IdleAssumption, HalfFull DEF Full
<1>2. \A v \in Int : \E q \in Int : v = Full * q + Wrap(v)
  BY WrapWord
<1>3. SUFFICES ASSUME Wrap(h + 4 + 2 * k) = Wrap(h + 4 + 2 * 0) PROVE FALSE
  OBVIOUS
<1> DEFINE a == h + 4 + 2 * k
           b == h + 4 + 2 * 0
           w == Wrap(b)
<1>4. a \in Int /\ b \in Int /\ Wrap(a) = w
  BY <1>1, <1>3
<1> HIDE DEF a, b
<1>5. w \in Int
  BY <1>4, WrapType
<1> HIDE DEF w
<1>6. PICK p \in Int, q \in Int : a = Full * p + w /\ b = Full * q + w
  BY <1>2, <1>4 DEF w
<1>7. 2 * k = Full * p - Full * q /\ 2 * k > 0 /\ 2 * k < Full /\ Full * p \in Int /\ Full * q \in Int
  BY <1>1, <1>5, <1>6 DEF a, b
<1>8. 2 * k = Full * (p - q) /\ p - q \in Int
  BY <1>1, <1>7
<1> DEFINE d == p - q
<1>9. d \in Int /\ Full * d > 0 /\ Full * d < Full
  BY <1>7, <1>8
<1> HIDE DEF d
<1>10. CASE d >= 1
  <2>1. Full * d >= Full
    BY <1>1, <1>9, <1>10
  <2>. QED  BY <1>1, <1>9, <2>1
<1>11. CASE d <= 0
  <2>1. Full * d <= 0
    BY <1>1, <1>9, <1>11
  <2>. QED  BY <1>1, <1>9, <2>1
<1>. QED  BY <1>9, <1>10, <1>11

LEMMA IdleSafe == ASSUME IdleIInv, InRoutine PROVE SkipsLoseNothing
<1> SUFFICES ASSUME Arrived, Proven(watch), ~disturbed PROVE SpinsInPlace
  BY DEF SkipsLoseNothing
<1> DEFINE h == HeadOf(watch)
<1>1. At(game, h, 0) /\ LoopAt(Code, h, watch.len) /\ IsRoutine(Code)
  BY ArrivedAtHead, RoutineIs DEF IdleIInv
<1>2. watch.have /\ since = watch.len /\ watch.snap = Registers(game) /\ since <= watch.len
  BY DEF Proven, IdleIInv
<1>3. CleanSince(watch) \/ Behind(watch)
  BY <1>2 DEF IdleIInv
<1>4. ~Behind(watch)
  <2>1. ASSUME NEW k \in 1..(watch.len - 1), At(game, h, k) PROVE FALSE
    BY <1>1, <2>1, BehindIsNotHead DEF At, LoopAt
  <2>. QED  BY <2>1 DEF Behind
<1>5. PICK f : At(f[0], h, 0) /\ watch.snap = Registers(f[0]) /\ Runs(Code, f, since) /\ f[since] = game
  BY <1>3, <1>4 DEF CleanSince
<1> HIDE DEF h
<1>. QED  BY <1>1, <1>2, <1>5, SpinsOn

-----------------------------------------------------------------------------
\* What the watch is told keeps it one of loops of the code.
LEMMA WatchKept ==
  ASSUME NEW code, NEW w, Watches(code, w)
  PROVE  /\ Watches(code, Forgotten(w)) /\ Watches(code, Retired(w))
         /\ Forgotten(w).have = FALSE
         /\ w.probe # Nothing => Watches(code, Considered(w))
         /\ HeadOf(Considered(w)) = HeadOf(w) /\ Considered(w).len = w.len
         /\ Considered(w).snap = Registers(game) /\ Considered(w).have = TRUE
<1>1. Watches(code, Forgotten(w)) /\ Forgotten(w).have = FALSE
  BY DEF Watches, Forgotten, Unwatched
<1>2. \A u : Watches(code, u) => Watches(code, [u EXCEPT !.paid = FALSE])
  BY DEF Watches, Unwatched, HeadOf
<1>3. Watches(code, Retired(w))
  BY <1>1, <1>2 DEF Retired
<1>4. /\ DOMAIN Considered(w) = DOMAIN w /\ Considered(w).probe = w.probe /\ Considered(w).len = w.len
      /\ Considered(w).snap = Registers(game) /\ Considered(w).have = TRUE
  BY DEF Considered, Watches, Unwatched
<1>. QED  BY <1>1, <1>3, <1>4 DEF Watches, HeadOf

LEMMA WatchSampled ==
  ASSUME NEW w, Watches(Code, w), IsRoutine(Code), Poised(game)
  PROVE  Watches(Code, Sampled(w))
<1> DEFINE from == Wrap(game.r[PC] - 4)
           loop == FindLoop(Code, from)
<1>1. from \in Word
  BY ProperParts, WrapType DEF Poised
<1>2. CASE w.probe = Nothing /\ loop # NoLoop
  <2>1. LoopAt(Code, loop.head, loop.len)
    BY <1>1, <1>2, LoopFound
  <2> HIDE DEF loop
  <2>2. loop.head \in Word /\ loop.head \in Int
    BY <2>1, WordsAreInt DEF LoopAt
  <2>3. Wrap(Wrap(loop.head + 4) - 4) = loop.head
    <3>1. Wrap(Wrap(loop.head + 4) - 4) = Wrap(loop.head + 4 - 4)
      BY <2>2, WrapBack
    <3>2. loop.head + 4 - 4 = loop.head /\ Wrap(loop.head) = loop.head
      BY <2>2, HalfFull, WrapNear
    <3>. QED  BY <3>1, <3>2
  <2>4. Wrap(loop.head + 4) # Nothing
    <3>1. Wrap(loop.head + 4) \in Nat
      BY <2>2, WrapType, WordsAreNat
    <3>. QED  BY <3>1 DEF Nothing
  <2> DEFINE u == Watched(w, loop)
  <2>5. /\ DOMAIN u = DOMAIN w /\ u.probe = Wrap(loop.head + 4) /\ u.len = loop.len
        /\ u.have = FALSE
    BY <1>2, <2>4 DEF Watched, Watches, Unwatched
  <2> HIDE DEF u
  <2>6. Watches(Code, u)
    BY <2>1, <2>3, <2>5 DEF Watches, HeadOf
  <2>. QED  BY <2>6 DEF Sampled, u, loop
<1>3. CASE ~(w.probe = Nothing /\ loop # NoLoop)
  BY <1>3 DEF Sampled
<1>. QED  BY <1>2, <1>3

LEMMA PoisedStore ==
  ASSUME NEW x, Poised(x), NEW a, NEW v \in Word
  PROVE  LET y == [x EXCEPT !.mem[a] = v]
         IN  Poised(y) /\ y.r = x.r /\ y.cpsr = x.cpsr
<1> DEFINE y == [x EXCEPT !.mem[a] = v]
<1>1. IsMachine(x) /\ HoldsWords(x)
  BY DEF Poised, Proper
<1>2. /\ y.r = x.r /\ y.cpsr = x.cpsr /\ y.pipeline = x.pipeline /\ y.flush = x.flush
      /\ IsMachine(y) /\ y.mem = [x.mem EXCEPT ![a] = v] /\ y.r8_12 = x.r8_12 /\ y.r13_14 = x.r13_14
  BY <1>1 DEF IsMachine
<1> HIDE DEF y
<1>3. y.mem \in [Ram -> Word]
  BY <1>1, <1>2 DEF HoldsWords
<1>4. HoldsWords(y)
  BY <1>1, <1>2, <1>3 DEF HoldsWords
<1>5. \A u : Slot(y, u) = Slot(x, u)
  BY <1>2 DEF Slot, InstructionSize
<1>. QED  BY <1>2, <1>4, <1>5 DEF Poised, Proper, Fetched, y

LEMMA IdleAtFirst == IdleInit => IdleIInv
<1> SUFFICES ASSUME IdleInit PROVE IdleIInv
  OBVIOUS
<1>1. routine \in DOMAIN Routines /\ game = Refill(Spinners[routine])
  BY DEF IdleInit
<1>2. Poised(game)
  BY <1>1, RoutineIs, RefillFetched
<1>3. watch = Unwatched /\ Watches(Code, Unwatched) /\ Unwatched.have = FALSE
  BY DEF IdleInit, Watches, Unwatched
<1>4. scanline \in 0..LastLine /\ since \in 0..MaxSpan /\ disturbed \in BOOLEAN
  <2>1. LastLine \in Nat /\ MaxSpan \in Nat
    BY WordsAreNat, IdleAssumption
  <2>2. scanline = LastLine /\ since = MaxSpan /\ disturbed = FALSE
    BY DEF IdleInit, Far
  <2>3. LastLine \in 0..LastLine /\ MaxSpan \in 0..MaxSpan
    BY <2>1
  <2>. QED  BY <2>2, <2>3, Zenon
<1>. QED  BY <1>1, <1>2, <1>3, <1>4 DEF IdleIInv

LEMMA LineBeginsIdle ==
  ASSUME IdleIInv, LineBegins PROVE IdleIInv'
<1> DEFINE next == IF scanline = LastLine THEN 0 ELSE scanline + 1
           kept == IF next = 0 THEN Retired(watch) ELSE watch
<1>1. next \in 0..LastLine /\ next \in Word /\ LastLine \in Nat
  <2>1. LastLine \in Word /\ LastLine \in Nat /\ scanline \in 0..LastLine
    BY IdleAssumption, WordsAreNat DEF IdleIInv
  <2>2. next \in 0..LastLine
    BY <2>1
  <2>. QED  BY <2>1, <2>2, HalfFull
<1>2. Watches(Code, kept) /\ IsRoutine(Code) /\ Poised(game)
  BY WatchKept, RoutineIs DEF IdleIInv
<1> HIDE DEF kept
<1>3. Watches(Code, Sampled(kept))
  BY <1>2, WatchSampled
<1>4. /\ scanline' = next /\ routine' = routine /\ Code' = Code /\ since' = since /\ disturbed' = TRUE
      /\ watch' = IF left = 0 THEN Sampled(kept) ELSE kept
      /\ game' = [game EXCEPT !.mem[VcountAt] = next]
  BY DEF LineBegins, Code, kept
<1> HIDE DEF next
<1>5. Poised(game')
  BY <1>1, <1>2, <1>4, PoisedStore
<1>6. Watches(Code, watch')
  BY <1>2, <1>3, <1>4
<1>. QED  BY <1>1, <1>4, <1>5, <1>6 DEF IdleIInv, Poised, Watches

LEMMA LaterIs ==
  ASSUME since \in 0..MaxSpan, NEW n \in Nat, n > 0
  PROVE  /\ Later(n) \in 0..MaxSpan
         /\ \A len \in Nat : 2 * (len - 1) <= MaxSpan /\ Later(n) <= len => Later(n) = since + n
  BY IdleAssumption DEF Later, Far

\* Where a handler comes: a clean run is behind from then on.
LEMMA HandledIdle ==
  ASSUME IdleIInv, InRoutine, Handled PROVE IdleIInv'
<1>1. PICK n \in HandlerSteps, w \in {0, 1} : game' = [game EXCEPT !.mem[FlagAt] = w] /\ since' = Later(n)
  BY DEF Handled
<1>2. /\ routine' = routine /\ Code' = Code /\ watch' = watch /\ scanline' = scanline
      /\ disturbed' = (disturbed \/ since = 0)
  BY DEF Handled, Code
<1>3. n \in Nat /\ n > 0 /\ w \in Word /\ Poised(game) /\ since \in 0..MaxSpan
  BY IdleAssumption, SmallWords DEF IdleIInv
<1>4. Poised(game') /\ game'.r = game.r /\ game'.cpsr = game.cpsr
  BY <1>1, <1>3, PoisedStore
<1>5. since' \in 0..MaxSpan /\ disturbed' \in BOOLEAN
  BY <1>1, <1>2, <1>3, LaterIs DEF IdleIInv
<1>6. ASSUME watch.have, ~disturbed', since' <= watch.len
      PROVE  \E k \in 1..(watch.len - 1) : k < since' /\ At(game', HeadOf(watch), k)
  <2> DEFINE h == HeadOf(watch)
             len == watch.len
  <2>1. LoopAt(Code, h, len) /\ IsRoutine(Code) /\ len \in Nat /\ 2 * (len - 1) <= MaxSpan
    BY <1>6, RoutineIs DEF IdleIInv, Watches, LoopAt
  <2>2. since' = since + n /\ ~disturbed /\ since # 0 /\ since < len
    <3>1. since' = since + n
      BY <1>1, <1>3, <1>6, <2>1, LaterIs
    <3>2. ~disturbed /\ since # 0
      BY <1>2, <1>6
    <3>. QED  BY <1>3, <1>6, <2>1, <3>1, <3>2
  <2>3. CleanSince(watch) \/ Behind(watch)
    BY <1>3, <1>6, <2>1, <2>2 DEF IdleIInv
  <2>4. \A k : At(game, h, k) => At(game', h, k)
    BY <1>4 DEF At
  <2>5. CASE Behind(watch)
    <3>1. PICK k \in 1..(len - 1) : k < since /\ At(game, h, k)
      BY <2>5 DEF Behind
    <3>2. k < since'
      BY <1>3, <2>1, <2>2, <3>1
    <3>. QED  BY <2>4, <3>1, <3>2
  <2>6. CASE CleanSince(watch)
    <3>1. PICK f : At(f[0], h, 0) /\ Runs(Code, f, since) /\ f[since] = game
      BY <2>6 DEF CleanSince
    <3>2. since \in 0..len /\ since \in 0..since /\ since \in 1..(len - 1) /\ since < since'
      BY <1>3, <2>1, <2>2
    <3> HIDE DEF h, len
    <3>3. At(f[since], h, since)
      BY <2>1, <2>2, <3>1, <3>2, RunsOn
    <3>. QED  BY <2>4, <3>1, <3>2, <3>3 DEF h, len
  <2>. QED  BY <2>3, <2>5, <2>6
<1>. QED  BY <1>2, <1>4, <1>5, <1>6 DEF IdleIInv, Behind, Watches

LEMMA SkipsIdle ==
  ASSUME IdleIInv, InRoutine, Skips PROVE IdleIInv'
<1> DEFINE u == Considered(watch)
<1>1. /\ game' = game /\ routine' = routine /\ Code' = Code /\ scanline' = scanline
      /\ since' = 0 /\ disturbed' = FALSE
      /\ watch' = [u EXCEPT !.paid = TRUE, !.ever = TRUE]
  BY DEF Skips, Code
<1>2. /\ watch.probe # Nothing /\ At(game, HeadOf(watch), 0) /\ Watches(Code, watch)
      /\ Watches(Code, u) /\ HeadOf(u) = HeadOf(watch) /\ u.snap = Registers(game)
  BY ArrivedAtHead, WatchKept DEF Skips, IdleIInv
<1> HIDE DEF u
<1>3. /\ DOMAIN watch' = DOMAIN u /\ watch'.probe = u.probe /\ watch'.len = u.len /\ watch'.have = u.have
      /\ watch'.snap = u.snap /\ HeadOf(watch') = HeadOf(u)
  BY <1>1, <1>2 DEF Watches, Unwatched, HeadOf
<1>4. Watches(Code, watch')
  BY <1>2, <1>3 DEF Watches
<1>5. \E f : /\ At(f[0], HeadOf(watch'), 0) /\ watch'.snap = Registers(f[0])
             /\ Runs(Code, f, 0) /\ f[0] = game
  <2> DEFINE f == [k \in {0} |-> game]
  <2>1. f[0] = game /\ Runs(Code, f, 0)
    BY DEF Runs
  <2> HIDE DEF f
  <2>. QED  BY <1>2, <1>3, <2>1
<1>6. 0 \in 0..MaxSpan
  BY IdleAssumption
<1>. QED  BY <1>1, <1>4, <1>5, <1>6 DEF IdleIInv, CleanSince, Watches

LEMMA ExecutesIdle ==
  ASSUME IdleIInv, InRoutine, InRoutine', Executes PROVE IdleIInv'
<1> DEFINE i == Code[Executing(game)]
           h == HeadOf(watch)
           len == watch.len
<1>1. /\ game' = Stepped(game, i) /\ routine' = routine /\ Code' = Code /\ scanline' = scanline
      /\ watch' = IF Arrived THEN Considered(watch) ELSE watch
      /\ since' = IF Arrived THEN 1 ELSE Later(1)
      /\ disturbed' = (disturbed /\ ~Arrived)
  BY DEF Executes, Code
<1>2. IsRoutine(Code) /\ Poised(game) /\ Watches(Code, watch) /\ since \in 0..MaxSpan /\ disturbed \in BOOLEAN
  BY RoutineIs DEF IdleIInv
<1>3. Decoded(i) /\ i.op # "irq" /\ (game.cpsr.t <=> i.op \in ThumbOps)
  BY <1>2 DEF InRoutine, IsRoutine
<1>4. game'.cpsr.t => game.cpsr.t
  <2>1. game'.cpsr.t => Code[Executing(game)'].op \in ThumbOps /\ Executing(game)' \in DOMAIN Code
    BY <1>1 DEF InRoutine
  <2>. QED  BY <1>2, <2>1 DEF InRoutine, IsRoutine
<1>5. Poised(game')
  BY <1>1, <1>2, <1>3, <1>4, PoisedStep
<1>6. since' \in 0..MaxSpan /\ disturbed' \in BOOLEAN
  <2>1. Later(1) \in 0..MaxSpan /\ 1 \in 0..MaxSpan
    BY <1>2, LaterIs, IdleAssumption
  <2>. QED  BY <1>1, <1>2, <2>1
<1>7. CASE Arrived
  <2> DEFINE u == Considered(watch)
  <2>1. /\ watch.probe # Nothing /\ At(game, h, 0) /\ Watches(Code, u)
        /\ HeadOf(u) = h /\ u.snap = Registers(game)
    BY <1>2, <1>7, ArrivedAtHead, WatchKept
  <2> HIDE DEF u
  <2>2. watch' = u /\ since' = 1
    BY <1>1, <1>7 DEF u
  <2>3. \E f : /\ At(f[0], HeadOf(u), 0) /\ u.snap = Registers(f[0])
               /\ Runs(Code, f, 1) /\ f[1] = game'
    <3> DEFINE f == [k \in {0, 1} |-> IF k = 0 THEN game ELSE game']
    <3>1. f[0] = game /\ f[1] = game'
      OBVIOUS
    <3> HIDE DEF f
    <3>2. \A k \in 1..1 : k = 1 /\ k - 1 = 0
      OBVIOUS
    <3>3. Runs(Code, f, 1)
      BY <1>1, <3>1, <3>2 DEF Runs
    <3>. QED  BY <2>1, <3>1, <3>3
  <2>. QED  BY <1>1, <1>2, <1>5, <1>6, <2>1, <2>2, <2>3 DEF IdleIInv, CleanSince, Watches
<1>8. CASE ~Arrived
  <2>1. watch' = watch /\ since' = Later(1) /\ disturbed' = disturbed
    BY <1>1, <1>2, <1>8
  <2>2. ASSUME watch.have, ~disturbed, since' <= len
        PROVE  \/ \E f : /\ At(f[0], h, 0) /\ watch.snap = Registers(f[0])
                         /\ Runs(Code, f, since') /\ f[since'] = game'
               \/ \E k \in 1..(len - 1) : k < since' /\ At(game', h, k)
    <3>1. LoopAt(Code, h, len) /\ len \in Nat /\ 2 * (len - 1) <= MaxSpan
      BY <1>2, <2>2 DEF Watches, LoopAt
    <3>2. since' = since + 1 /\ since < len
      BY <1>2, <2>1, <2>2, <3>1, LaterIs
    <3>3. CleanSince(watch) \/ Behind(watch)
      BY <1>2, <2>2, <3>1, <3>2 DEF IdleIInv
    <3>4. CASE CleanSince(watch)
      <4>1. PICK f : At(f[0], h, 0) /\ watch.snap = Registers(f[0]) /\ Runs(Code, f, since) /\ f[since] = game
        BY <3>4 DEF CleanSince
      <4> DEFINE g == [k \in 0..(since + 1) |-> IF k = since + 1 THEN game' ELSE f[k]]
      <4>2. /\ \A k \in 0..since : g[k] = f[k]
            /\ g[since + 1] = game' /\ 0 \in 0..since /\ since \in 0..since
        BY <1>2
      <4> HIDE DEF g
      <4>3. \A k \in 1..(since + 1) : /\ k - 1 \in 0..since
                                      /\ k = since + 1 \/ (k \in 1..since /\ k \in 0..since)
        BY <1>2
      <4>4. (since + 1) - 1 = since
        BY <1>2
      <4>5. ASSUME NEW k \in 1..(since + 1) PROVE g[k] = Stepped(g[k - 1], Code[Executing(g[k - 1])])
        <5>1. CASE k = since + 1
          BY <1>1, <4>1, <4>2, <4>4, <5>1
        <5>2. CASE k # since + 1
          <6>1. k \in 1..since /\ g[k] = f[k] /\ g[k - 1] = f[k - 1]
            BY <4>2, <4>3, <5>2
          <6>. QED  BY <4>1, <6>1 DEF Runs
        <5>. QED  BY <5>1, <5>2
      <4>6. Runs(Code, g, since')
        BY <3>2, <4>5 DEF Runs
      <4>7. At(g[0], h, 0) /\ watch.snap = Registers(g[0]) /\ g[since'] = game'
        BY <3>2, <4>1, <4>2
      <4>. QED  BY <4>6, <4>7
    <3>5. CASE Behind(watch)
      <4>1. PICK k \in 1..(len - 1) : k < since /\ At(game, h, k)
        BY <3>5 DEF Behind
      <4>2. k \in 0..(len - 1) /\ k < len - 1 /\ k + 1 \in 1..(len - 1) /\ k + 1 < since'
        BY <1>2, <3>1, <3>2, <4>1
      <4> HIDE DEF h, len, i
      <4>3. At(Stepped(game, Code[Executing(game)]), h, k + 1)
        BY <1>2, <3>1, <4>1, <4>2, LoopStep
      <4>. QED  BY <1>1, <4>2, <4>3 DEF i
    <3>. QED  BY <3>3, <3>4, <3>5
  <2>. QED  BY <1>1, <1>2, <1>5, <1>6, <2>1, <2>2 DEF IdleIInv, CleanSince, Behind, Watches
<1>. QED  BY <1>7, <1>8

LEMMA RestIdle ==
  ASSUME IdleIInv, HblankBegins \/ StateLoaded \/ UNCHANGED idlevars PROVE IdleIInv'
<1>1. CASE HblankBegins \/ UNCHANGED idlevars
  BY <1>1 DEF HblankBegins, idlevars, IdleIInv, CleanSince, Behind, Code
<1>2. CASE StateLoaded
  <2>1. /\ game' = Refill(Spinners[routine]) /\ watch' = Forgotten(watch) /\ routine' = routine /\ Code' = Code
        /\ since' = since /\ disturbed' = disturbed /\ scanline' = scanline
    BY <1>2 DEF StateLoaded, Code
  <2>2. Poised(game') /\ Watches(Code, watch') /\ watch'.have = FALSE
    BY <2>1, RoutineIs, RefillFetched, WatchKept DEF IdleIInv
  <2>. QED  BY <2>1, <2>2 DEF IdleIInv
<1>. QED  BY <1>1, <1>2

\* A game that keeps to its routine loses nothing by what the watch has skipped.
THEOREM SkipsAreIdle == IdleSpec /\ []InRoutine => []SkipsLoseNothing
<1>1. IdleIInv /\ InRoutine /\ InRoutine' /\ [IdleNext]_idlevars => IdleIInv'
  BY LineBeginsIdle, HandledIdle, SkipsIdle, ExecutesIdle, RestIdle DEF IdleNext
<1>2. IdleIInv /\ InRoutine => SkipsLoseNothing
  BY IdleSafe
<1>. QED  BY <1>1, <1>2, IdleAtFirst, PTL DEF IdleSpec
=============================================================================
