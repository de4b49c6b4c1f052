----------------------------- MODULE Processor -----------------------------
(***************************************************************************)
(* The ARM7TDMI of gba-core/src/cpu: both instruction sets, the barrel     *)
(* shifter, the status registers, the banked registers and the two-slot    *)
(* pipeline.                                                               *)
(*                                                                         *)
(* An instruction is a record of the fields its encoding holds, so that    *)
(* decoding is the choice of a record.  A word has Width bits, four bytes  *)
(* of Width/4; what the code writes with 32, 31 or 8 is written with       *)
(* Width.  The bus is a memory of words that reads and writes without      *)
(* side effects.  The pipeline holds where its two instructions were       *)
(* fetched from and as which kind.                                         *)
(*                                                                         *)
(* A behaviour runs one of Programs, a sequence of sets of instructions,   *)
(* one of each, from one of its Starts.                                    *)
(***************************************************************************)
EXTENDS Words, Sequences, FiniteSets, SequencesExt

CONSTANTS
  Width,       \* bits of a word: 32
  AmountSpan,  \* a register gives a shift amount in its low byte: 256
  Ram,         \* the word addresses that hold something
  Programs,    \* name -> sequence of sets of instructions
  Starts       \* name -> the machines that program starts on

ASSUME ProcessorAssumption ==
  /\ Width \in Nat /\ Width >= 12 /\ Width % 4 = 0
  /\ AmountSpan \in Nat /\ AmountSpan > Width
  /\ Ram \subseteq {a \in WordsOf(Width) : a % 4 = 0}
  /\ DOMAIN Programs = DOMAIN Starts

\* What exponents are, as far as words need it: arithmetic that no prover knows.
ASSUME PowersAssumption == \A n \in 0..(2 * Width) : 2^(n + 1) = 2 * 2^n

VARIABLES
  m,        \* the machine
  program,  \* the program it runs
  ir,       \* the instruction last executed, [op |-> "start"] before the first
  done,     \* how many have been
  held      \* the machine before the last call, exception or store of a block, and that

vars == <<m, program, ir, done, held>>

Word == WordsOf(Width)
Byte == Width \div 4
Wrap(x) == Wrapped(x, Width)
Top(x) == Bit(x, Width - 1)
SP == 13
LR == 14
PC == 15

-----------------------------------------------------------------------------
(* Status registers *)

\* "Reserved" stands for the mode numbers no mode has.
Mode == {"User", "Fiq", "Irq", "Supervisor", "Abort", "Undefined", "System", "Reserved"}
ModeBits == [User |-> 0, Fiq |-> 1, Irq |-> 2, Supervisor |-> 3, Abort |-> 7,
             Undefined |-> 11, System |-> 15, Reserved |-> 4]
ModeOf(bits) == IF \E k \in Mode : ModeBits[k] = bits
                THEN CHOOSE k \in Mode : ModeBits[k] = bits ELSE "Reserved"

\* What a mode without a saved status register reads: the word 0, whose mode,
\* with M[4] forced to 1, is User.
NoPsr == [n |-> FALSE, z |-> FALSE, c |-> FALSE, v |-> FALSE, i |-> FALSE, t |-> FALSE,
          mode |-> "User"]

\* A status register as the word MRS and MSR see: the flags on top, I above T
\* above the mode below.
Flag(b, n) == IF b THEN 2^n ELSE 0
WordOfPsr(p) == Flag(p.n, Width - 1) + Flag(p.z, Width - 2) + Flag(p.c, Width - 3)
                + Flag(p.v, Width - 4) + Flag(p.i, 5) + Flag(p.t, 4) + ModeBits[p.mode]
PsrOfWord(x) == [n |-> Bit(x, Width - 1), z |-> Bit(x, Width - 2), c |-> Bit(x, Width - 3),
                 v |-> Bit(x, Width - 4), i |-> Bit(x, 5), t |-> Bit(x, 4),
                 mode |-> ModeOf(Field(x, 0, 4))]

Condition == {"Eq", "Ne", "Cs", "Cc", "Mi", "Pl", "Vs", "Vc", "Hi", "Ls", "Ge", "Lt", "Gt", "Le", "Al", "Nv"}
Eval(cond, p) ==
  CASE cond = "Eq" -> p.z          [] cond = "Ne" -> ~p.z
    [] cond = "Cs" -> p.c          [] cond = "Cc" -> ~p.c
    [] cond = "Mi" -> p.n          [] cond = "Pl" -> ~p.n
    [] cond = "Vs" -> p.v          [] cond = "Vc" -> ~p.v
    [] cond = "Hi" -> p.c /\ ~p.z  [] cond = "Ls" -> ~p.c \/ p.z
    [] cond = "Ge" -> p.n = p.v    [] cond = "Lt" -> p.n # p.v
    [] cond = "Gt" -> ~p.z /\ p.n = p.v
    [] cond = "Le" -> p.z \/ p.n # p.v
    [] cond = "Al" -> TRUE         [] cond = "Nv" -> FALSE

-----------------------------------------------------------------------------
(* Banked registers *)

BankClass(mode) == CASE mode = "Fiq" -> 1 [] mode = "Supervisor" -> 2 [] mode = "Abort" -> 3
                     [] mode = "Irq" -> 4 [] mode = "Undefined" -> 5 [] OTHER -> 0
FiqGroup(mode) == IF mode = "Fiq" THEN 1 ELSE 0
HasSpsr(x) == x.cpsr.mode \notin {"User", "System"}
CurrentSpsr(x) == IF BankClass(x.cpsr.mode) = 0 THEN NoPsr ELSE x.spsr[BankClass(x.cpsr.mode)]
SetCurrentSpsr(x, p) ==
  IF BankClass(x.cpsr.mode) = 0 THEN x ELSE [x EXCEPT !.spsr[BankClass(x.cpsr.mode)] = p]

\* mutant: r8 to r12 always go to the bank of the other modes
SaveBankShared(x, mode) ==
  [x EXCEPT !.r8_12[0] = [k \in 0..4 |-> x.r[8 + k]],
            !.r13_14[BankClass(mode)] = [k \in 0..1 |-> x.r[13 + k]]]
SaveBank(x, mode) ==
  [x EXCEPT !.r8_12[FiqGroup(mode)] = [k \in 0..4 |-> x.r[8 + k]],
            !.r13_14[BankClass(mode)] = [k \in 0..1 |-> x.r[13 + k]]]
LoadBank(x, mode) ==
  [x EXCEPT !.r = [k \in 0..15 |->
     IF k \in 8..12 THEN x.r8_12[FiqGroup(mode)][k - 8]
     ELSE IF k \in 13..14 THEN x.r13_14[BankClass(mode)][k - 13] ELSE x.r[k]]]
WriteCpsr(x, p) ==
  IF p.mode = x.cpsr.mode THEN [x EXCEPT !.cpsr = p]
  ELSE LoadBank([SaveBank(x, x.cpsr.mode) EXCEPT !.cpsr = p], p.mode)

\* The User bank's registers as a privileged mode reaches them.
Shadowed(x, k) == \/ k \in 8..12 /\ x.cpsr.mode = "Fiq"
                  \/ k \in 13..14 /\ BankClass(x.cpsr.mode) # 0
UserReg(x, k) == IF ~Shadowed(x, k) THEN x.r[k]
                 ELSE IF k < 13 THEN x.r8_12[0][k - 8] ELSE x.r13_14[0][k - 13]
SetUserReg(x, k, v) == IF ~Shadowed(x, k) THEN [x EXCEPT !.r[k] = v]
                       ELSE IF k < 13 THEN [x EXCEPT !.r8_12[0][k - 8] = v]
                       ELSE [x EXCEPT !.r13_14[0][k - 13] = v]

-----------------------------------------------------------------------------
(* The barrel shifter: <<value, carry out>>.  imm tells a shift by a constant, *)
(* where a 0 means something else, from one by a register.                     *)

Lsl(v, n, c) == CASE n = 0 -> <<v, c>>
                  [] n \in 1..(Width - 1) -> <<Wrap(v * 2^n), Bit(v, Width - n)>>
                  [] n = Width -> <<0, Bit(v, 0)>>
                  [] OTHER -> <<0, FALSE>>
Lsr(v, n, c, imm) == CASE n = 0 /\ imm -> <<0, Top(v)>>
                       [] n = 0 /\ ~imm -> <<v, c>>
                       [] n \in 1..(Width - 1) -> <<v \div 2^n, Bit(v, n - 1)>>
                       [] n = Width -> <<0, Top(v)>>
                       [] OTHER -> <<0, FALSE>>
SignFill(v) == IF Top(v) THEN 2^Width - 1 ELSE 0
Asr(v, n, c, imm) == CASE n = 0 /\ imm -> <<SignFill(v), Top(v)>>
                       [] n = 0 /\ ~imm -> <<v, c>>
                       [] n \in 1..(Width - 1) -> <<Wrap(Signed(v, Width) \div 2^n), Bit(v, n - 1)>>
                       [] OTHER -> <<SignFill(v), Top(v)>>
\* mutant: a rotation by a multiple of the width forgets the carry
RorNoCarry(v, n, c, imm) ==
  CASE n = 0 /\ imm -> <<v \div 2 + Flag(c, Width - 1), Bit(v, 0)>>
    [] n % Width = 0 /\ ~(n = 0 /\ imm) -> <<v, c>>
    [] OTHER -> <<RotatedRight(v, n, Width), Bit(v, (n % Width) - 1)>>
Ror(v, n, c, imm) ==
  CASE n = 0 /\ imm -> <<v \div 2 + Flag(c, Width - 1), Bit(v, 0)>>
    [] n = 0 /\ ~imm -> <<v, c>>
    [] n > 0 /\ n % Width = 0 -> <<v, Top(v)>>
    [] OTHER -> <<RotatedRight(v, n, Width), Bit(v, (n % Width) - 1)>>
Shift(type, v, n, c, imm) == CASE type = "lsl" -> Lsl(v, n, c)
                               [] type = "lsr" -> Lsr(v, n, c, imm)
                               [] type = "asr" -> Asr(v, n, c, imm)
                               [] type = "ror" -> Ror(v, n, c, imm)
\* rot is twice the instruction's rotate field.
RotateImmediate(imm, rot, c) ==
  IF rot = 0 THEN <<imm, c>>
  ELSE LET v == RotatedRight(imm, rot, Width) IN <<v, Top(v)>>

-----------------------------------------------------------------------------
(* Arithmetic and flags *)

\* <<a + b + c, carry out, signed overflow>>
Addc(a, b, c) ==
  LET sum == a + b + Flag(c, 0)
      r   == Wrap(sum)
  IN  <<r, sum >= 2^Width, Top(a) = Top(b) /\ Top(a) # Top(r)>>

SetNz(x, r)         == [x EXCEPT !.cpsr.n = Top(r), !.cpsr.z = (r = 0)]
SetNzc(x, r, c)     == [SetNz(x, r) EXCEPT !.cpsr.c = c]
SetNzcv(x, r, c, v) == [SetNzc(x, r, c) EXCEPT !.cpsr.v = v]
SetFlags(x, r, c, v, logical) == IF logical THEN SetNzc(x, r, c) ELSE SetNzcv(x, r, c, v)
RestoreOrSetFlags(x, r, c, v, logical) ==
  IF HasSpsr(x) THEN WriteCpsr(x, CurrentSpsr(x)) ELSE SetFlags(x, r, c, v, logical)

SetReg(x, k, v) == [x EXCEPT !.r[k] = v, !.flush = @ \/ k = PC]
Ticks(x, n) == [x EXCEPT !.ticks = n]
\* A base written back to R15 is taken past the instruction.
WriteBack(x, k, v) == SetReg(x, k, IF k = PC THEN Wrap(v + 4) ELSE v)
\* R15 as an instruction with an extra cycle reads it.
Late(x, k) == IF k = PC THEN Wrap(x.r[PC] + 4) ELSE x.r[k]

-----------------------------------------------------------------------------
(* ARM *)

Operand2(x, src) ==
  CASE src.by = "imm" -> RotateImmediate(src.imm, src.rot, x.cpsr.c)
    [] src.by = "amount" -> Shift(src.shift, x.r[src.rm], src.n, x.cpsr.c, TRUE)
    [] src.by = "register" -> Shift(src.shift, Late(x, src.rm), x.r[src.rs] % AmountSpan, x.cpsr.c, FALSE)

\* <<result, carry, overflow, logical>> of the sixteen operations.
Alu(alu, a, b, sc, c) ==
  CASE alu \in {"and", "tst"} -> <<And(a, b, Width), sc, FALSE, TRUE>>
    [] alu \in {"eor", "teq"} -> <<Xor(a, b, Width), sc, FALSE, TRUE>>
    [] alu \in {"sub", "cmp"} -> Addc(a, Not(b, Width), TRUE) \o <<FALSE>>
    [] alu = "rsb" -> Addc(b, Not(a, Width), TRUE) \o <<FALSE>>
    [] alu \in {"add", "cmn"} -> Addc(a, b, FALSE) \o <<FALSE>>
    [] alu = "adc" -> Addc(a, b, c) \o <<FALSE>>
    [] alu = "sbc" -> Addc(a, Not(b, Width), c) \o <<FALSE>>
    [] alu = "rsc" -> Addc(b, Not(a, Width), c) \o <<FALSE>>
    [] alu = "orr" -> <<Or(a, b, Width), sc, FALSE, TRUE>>
    [] alu = "mov" -> <<b, sc, FALSE, TRUE>>
    [] alu = "bic" -> <<And(a, Not(b, Width), Width), sc, FALSE, TRUE>>
    [] alu = "mvn" -> <<Not(b, Width), sc, FALSE, TRUE>>
Tests == {"tst", "teq", "cmp", "cmn"}
ArmAlus == Tests \cup {"and", "eor", "sub", "rsb", "add", "adc", "sbc", "rsc", "orr", "mov", "bic", "mvn"}

DataProcessing(x, i) ==
  LET late == i.src.by = "register"
      op2  == Operand2(x, i.src)
      res  == Alu(i.alu, IF late THEN Late(x, i.rn) ELSE x.r[i.rn], op2[1], op2[2], x.cpsr.c)
      y    == Ticks(x, IF late THEN 1 ELSE 0)
  IN  IF i.alu \in Tests
      THEN IF i.rd = PC THEN RestoreOrSetFlags(y, res[1], res[2], res[3], res[4])
                        ELSE SetFlags(y, res[1], res[2], res[3], res[4])
      ELSE IF i.rd = PC
      THEN SetReg(IF i.s THEN RestoreOrSetFlags(y, res[1], res[2], res[3], res[4]) ELSE y, PC, res[1])
      ELSE SetReg(IF i.s THEN SetFlags(y, res[1], res[2], res[3], res[4]) ELSE y, i.rd, res[1])

\* The multiplier stops once the bytes left are all zeros or all ones.
MultiplyM(v) == CHOOSE k \in 1..4 :
  /\ v \div 2^(k * Byte) \in {0, 2^(Width - k * Byte) - 1}
  /\ \A j \in 1..(k - 1) : v \div 2^(j * Byte) \notin {0, 2^(Width - j * Byte) - 1}

Multiply(x, i) ==
  LET mul == Late(x, i.rm) * Late(x, i.rs)
      r   == Wrap(mul + IF i.acc THEN Late(x, i.rn) ELSE 0)
      y   == SetReg(Ticks(x, MultiplyM(Late(x, i.rs)) + IF i.acc THEN 1 ELSE 0), i.rd, r)
  IN  IF i.s THEN SetNz(y, r) ELSE y

MultiplyLong(x, i) ==
  LET Val(k) == IF i.signed THEN Signed(Late(x, k), Width) ELSE Late(x, k)
      acc == IF i.acc THEN Late(x, i.rdhi) * 2^Width + Late(x, i.rdlo) ELSE 0
      res == Wrapped(Val(i.rm) * Val(i.rs) + acc, 2 * Width)
      y   == SetReg(SetReg(Ticks(x, MultiplyM(Late(x, i.rs)) + IF i.acc THEN 2 ELSE 1),
                           i.rdlo, Wrap(res)), i.rdhi, res \div 2^Width)
  IN  IF i.s THEN [y EXCEPT !.cpsr.n = Top(res \div 2^Width), !.cpsr.z = (res = 0)] ELSE y

\* The bus: word, halfword and byte at an address of any alignment.
ReadWord(x, a) == IF a - (a % 4) \in Ram THEN x.mem[a - (a % 4)] ELSE 0
ReadHalf(x, a) == Field(ReadWord(x, a), ((a % 4) - (a % 2)) * Byte, 2 * Byte)
ReadByte(x, a) == Field(ReadWord(x, a), (a % 4) * Byte, Byte)
\* The bits of v below w, stored at bit n of the word at a.
Put(x, a, v, n, w) ==
  LET old == ReadWord(x, a)
      new == old + (Field(v, 0, w) - Field(old, n, w)) * 2^n
  IN  IF a - (a % 4) \in Ram THEN [x EXCEPT !.mem[a - (a % 4)] = new] ELSE x
WriteWord(x, a, v) == Put(x, a, v, 0, Width)
WriteHalf(x, a, v) == Put(x, a, v, ((a % 4) - (a % 2)) * Byte, 2 * Byte)
WriteByte(x, a, v) == Put(x, a, v, (a % 4) * Byte, Byte)
\* What a load makes of what the bus returns.
LoadWord(x, a) == RotatedRight(ReadWord(x, a), (a % 4) * Byte, Width)
LoadHalf(x, a) == RotatedRight(ReadHalf(x, a), (a % 2) * Byte, Width)
LoadSByte(x, a) == Wrap(Signed(ReadByte(x, a), Byte))
LoadSHalf(x, a) == IF a % 2 = 1 THEN Wrap(Signed(ReadHalf(x, a) \div 2^Byte, Byte))
                   ELSE Wrap(Signed(ReadHalf(x, a), 2 * Byte))

Displaced(x, i, offset) == Wrap(IF i.up THEN x.r[i.rn] + offset ELSE x.r[i.rn] - offset)
SingleDataTransfer(x, i) ==
  LET there == Displaced(x, i, IF i.src.by = "imm" THEN i.src.imm ELSE Operand2(x, i.src)[1])
      addr  == IF i.pre THEN there ELSE x.r[i.rn]
      Base(y) == IF ~i.pre \/ i.wb THEN WriteBack(y, i.rn, there) ELSE y
  IN  IF i.load
      THEN SetReg(Base(Ticks(x, 1)), i.rd, IF i.byte THEN ReadByte(x, addr) ELSE LoadWord(x, addr))
      ELSE Base(IF i.byte THEN WriteByte(x, addr, Late(x, i.rd)) ELSE WriteWord(x, addr, Late(x, i.rd)))

HalfKinds == {"half", "sbyte", "shalf"}
HalfwordSignedTransfer(x, i) ==
  LET there == Displaced(x, i, IF i.src.by = "imm" THEN i.src.imm ELSE x.r[i.src.rm])
      addr  == IF i.pre THEN there ELSE x.r[i.rn]
      Base(y) == IF ~i.pre \/ i.wb THEN WriteBack(y, i.rn, there) ELSE y
  IN  IF i.load
      THEN SetReg(Base(Ticks(x, 1)), i.rd, CASE i.sh = "half" -> LoadHalf(x, addr)
                                             [] i.sh = "sbyte" -> LoadSByte(x, addr)
                                             [] i.sh = "shalf" -> LoadSHalf(x, addr))
      ELSE Base(WriteHalf(x, addr, Late(x, i.rd)))

Swap(x, i) ==
  LET addr == Late(x, i.rn)
      src  == Late(x, i.rm)
      y    == Ticks(x, 1)
  IN  IF i.byte THEN SetReg(WriteByte(y, addr, src), i.rd, ReadByte(x, addr))
      ELSE SetReg(WriteWord(y, addr, src), i.rd, LoadWord(x, addr))

\* An MRS to R15 does not refill the pipeline.
Mrs(x, i) == [x EXCEPT !.r[i.rd] = WordOfPsr(IF i.spsr /\ HasSpsr(x) THEN CurrentSpsr(x) ELSE x.cpsr)]
Msr(x, i) ==
  LET from == PsrOfWord(IF i.src.by = "imm" THEN RotateImmediate(i.src.imm, i.src.rot, x.cpsr.c)[1]
                        ELSE x.r[i.src.rm])
      Masked(p, lanes) ==
        LET q == IF "flags" \in lanes
                 THEN [p EXCEPT !.n = from.n, !.z = from.z, !.c = from.c, !.v = from.v] ELSE p
        IN  IF "control" \in lanes THEN [q EXCEPT !.i = from.i, !.t = from.t, !.mode = from.mode] ELSE q
      lanes == IF x.cpsr.mode = "User" THEN i.lanes \cap {"flags"} ELSE i.lanes
  IN  IF ~i.spsr THEN WriteCpsr(x, Masked(x.cpsr, lanes))
      ELSE IF HasSpsr(x) THEN SetCurrentSpsr(x, Masked(CurrentSpsr(x), lanes)) ELSE x

Lowest(list) == CHOOSE k \in list : \A j \in list : k <= j
Before(list, k) == Cardinality({j \in list : j < k})
Ordered(list) == [n \in 1..Cardinality(list) |-> CHOOSE k \in list : Before(list, k) = n - 1]

\* mutant: a block that ends at its base is taken to begin there
BlockSpanShort(base, n, pre, up) ==
  LET low == Wrap(base - 4 * n)
  IN  IF up THEN <<IF pre THEN Wrap(base + 4) ELSE base, Wrap(base + 4 * n)>>
      ELSE <<low, low>>
\* <<lowest address, base written back>> of a block of n words.
BlockSpan(base, n, pre, up) ==
  LET low == Wrap(base - 4 * n)
  IN  IF up THEN <<IF pre THEN Wrap(base + 4) ELSE base, Wrap(base + 4 * n)>>
      ELSE <<IF pre THEN low ELSE Wrap(low + 4), low>>

\* The empty list moves R15 alone and the base by sixteen words.
EmptyBlock(x, i) ==
  LET span == BlockSpan(x.r[i.rn], 16, i.pre, i.up)
      Base(y) == IF i.wb THEN SetReg(y, i.rn, span[2]) ELSE y
  IN  IF i.load THEN Base(SetReg(Ticks(x, 1), PC, ReadWord(x, span[1])))
      ELSE Base([WriteWord(x, span[1], Wrap(x.r[PC] + 4)) EXCEPT !.flush = (i.rn = PC)])

LoadBlock(x, i) ==
  LET span == BlockSpan(x.r[i.rn], Cardinality(i.list), i.pre, i.up)
      user == i.user /\ PC \notin i.list
      Set(y, k, v) == IF user THEN SetUserReg(y, k, v) ELSE SetReg(y, k, v)
      Take(y, k) == Set(y, k, ReadWord(x, Wrap(span[1] + 4 * Before(i.list, k))))
      y == FoldLeft(Take, Ticks(x, 1), Ordered(i.list))
      z == IF ~i.wb \/ i.rn \in i.list THEN y
           ELSE IF i.rn = PC THEN SetReg(y, PC, span[2]) ELSE Set(y, i.rn, span[2])
  IN  IF i.user /\ PC \in i.list /\ HasSpsr(z) THEN WriteCpsr(z, CurrentSpsr(z)) ELSE z

StoreBlock(x, i) ==
  LET span == BlockSpan(x.r[i.rn], Cardinality(i.list), i.pre, i.up)
      Value(k) == IF k = i.rn /\ i.wb /\ k # Lowest(i.list) THEN span[2]
                  ELSE IF k = PC THEN Late(x, PC)
                  ELSE IF i.user THEN UserReg(x, k) ELSE x.r[k]
      Give(y, k) == WriteWord(y, Wrap(span[1] + 4 * Before(i.list, k)), Value(k))
      y == FoldLeft(Give, x, Ordered(i.list))
  IN  IF ~i.wb THEN y
      ELSE IF i.user /\ i.rn # PC THEN SetUserReg(y, i.rn, span[2]) ELSE SetReg(y, i.rn, span[2])

BlockDataTransfer(x, i) == IF i.list = {} THEN EmptyBlock(x, i)
                           ELSE IF i.load THEN LoadBlock(x, i) ELSE StoreBlock(x, i)

Branch(x, i) ==
  SetReg(IF i.link THEN SetReg(x, LR, Wrap(x.r[PC] - 4)) ELSE x, PC, Wrap(x.r[PC] + i.offset))
BranchExchange(x, k) ==
  SetReg([x EXCEPT !.cpsr.t = Bit(x.r[k], 0)], PC, x.r[k] - (x.r[k] % 2))

\* Entry to an exception: the mode's LR and SPSR, interrupts masked, ARM state.
Entered(x, mode, return, vector) ==
  LET y == WriteCpsr(x, [x.cpsr EXCEPT !.mode = mode, !.t = FALSE, !.i = TRUE])
  IN  SetReg(SetReg(SetCurrentSpsr(y, x.cpsr), LR, return), PC, vector)
\* With a BIOS image behind the vectors.
SoftwareInterrupt(x) == Entered(x, "Supervisor", Wrap(x.r[PC] - 4), 8)

ArmExecute(x, i) ==
  CASE i.op = "dp"    -> DataProcessing(x, i)
    [] i.op = "mul"   -> Multiply(x, i)
    [] i.op = "mull"  -> MultiplyLong(x, i)
    [] i.op = "ldr"   -> SingleDataTransfer(x, i)
    [] i.op = "ldrh"  -> HalfwordSignedTransfer(x, i)
    [] i.op = "swp"   -> Swap(x, i)
    [] i.op = "mrs"   -> Mrs(x, i)
    [] i.op = "msr"   -> Msr(x, i)
    [] i.op = "block" -> BlockDataTransfer(x, i)
    [] i.op = "b"     -> Branch(x, i)
    [] i.op = "bx"    -> BranchExchange(x, i.rn)
    [] i.op = "swi"   -> SoftwareInterrupt(x)
    [] i.op = "undefined" -> x

-----------------------------------------------------------------------------
(* Thumb.  Registers not named by a format are the low eight. *)

MoveShifted(x, i) == LET res == Shift(i.shift, x.r[i.rs], i.n, x.cpsr.c, TRUE)
                     IN  SetNzc(SetReg(x, i.rd, res[1]), res[1], res[2])

\* mutant: a subtraction sets the flags of an addition
AddedThumb(x, i) == LET b   == IF i.imm THEN i.operand ELSE x.r[i.operand]
                        res == Addc(x.r[i.rs], b, FALSE)
                    IN  SetNzcv(SetReg(x, i.rd, res[1]), res[1], res[2], res[3])
AddSubtract(x, i) ==
  LET b   == IF i.imm THEN i.operand ELSE x.r[i.operand]
      res == IF i.sub THEN Addc(x.r[i.rs], Not(b, Width), TRUE) ELSE Addc(x.r[i.rs], b, FALSE)
  IN  SetNzcv(SetReg(x, i.rd, res[1]), res[1], res[2], res[3])

Immediate(x, i) ==
  LET res == IF i.alu = "add" THEN Addc(x.r[i.rd], i.imm, FALSE)
             ELSE Addc(x.r[i.rd], Not(i.imm, Width), TRUE)
  IN  CASE i.alu = "mov" -> SetNz(SetReg(x, i.rd, i.imm), i.imm)
        [] i.alu = "cmp" -> SetNzcv(x, res[1], res[2], res[3])
        [] OTHER -> SetNzcv(SetReg(x, i.rd, res[1]), res[1], res[2], res[3])

Shifts == {"lsl", "lsr", "asr", "ror"}
ThumbAlu(x, i) ==
  LET a == x.r[i.rd]
      b == x.r[i.rs]
      Logical(r)  == SetNz(SetReg(x, i.rd, r), r)
      Full(y, res) == SetNzcv(y, res[1], res[2], res[3])
      Arith(res)  == Full(SetReg(x, i.rd, res[1]), res)
      shifted == Shift(i.alu, a, b % AmountSpan, x.cpsr.c, FALSE)
  IN  CASE i.alu = "and" -> Logical(And(a, b, Width))
        [] i.alu = "eor" -> Logical(Xor(a, b, Width))
        [] i.alu \in Shifts -> Ticks(SetNzc(SetReg(x, i.rd, shifted[1]), shifted[1], shifted[2]), 1)
        [] i.alu = "adc" -> Arith(Addc(a, b, x.cpsr.c))
        [] i.alu = "sbc" -> Arith(Addc(a, Not(b, Width), x.cpsr.c))
        [] i.alu = "tst" -> SetNz(x, And(a, b, Width))
        [] i.alu = "neg" -> Arith(Addc(0, Not(b, Width), TRUE))
        [] i.alu = "cmp" -> Full(x, Addc(a, Not(b, Width), TRUE))
        [] i.alu = "cmn" -> Full(x, Addc(a, b, FALSE))
        [] i.alu = "orr" -> Logical(Or(a, b, Width))
        [] i.alu = "mul" -> Ticks(Logical(Wrap(a * b)), MultiplyM(a))
        [] i.alu = "bic" -> Logical(And(a, Not(b, Width), Width))
        [] i.alu = "mvn" -> Logical(Not(b, Width))

\* Over all sixteen registers.
HiRegister(x, i) ==
  LET a == x.r[i.rd]
      b == x.r[i.rs]
      Into(v) == SetReg(x, i.rd, IF i.rd = PC THEN v - (v % 2) ELSE v)
      res == Addc(a, Not(b, Width), TRUE)
  IN  CASE i.alu = "add" -> Into(Wrap(a + b))
        [] i.alu = "cmp" -> SetNzcv(x, res[1], res[2], res[3])
        [] i.alu = "mov" -> Into(b)
        [] i.alu = "bx"  -> BranchExchange(x, i.rs)

Transfer(x, addr, rd, load, byte) ==
  IF load THEN SetReg(Ticks(x, 1), rd, IF byte THEN ReadByte(x, addr) ELSE LoadWord(x, addr))
  ELSE IF byte THEN WriteByte(x, addr, x.r[rd]) ELSE WriteWord(x, addr, x.r[rd])
WordAligned(v) == v - (v % 4)
PcRelativeLoad(x, i) ==
  SetReg(Ticks(x, 1), i.rd, ReadWord(x, Wrap(WordAligned(x.r[PC]) + 4 * i.imm)))
LoadStoreReg(x, i) == Transfer(x, Wrap(x.r[i.rb] + x.r[i.ro]), i.rd, i.load, i.byte)
LoadStoreSignExtended(x, i) ==
  LET addr == Wrap(x.r[i.rb] + x.r[i.ro])
  IN  IF ~i.load THEN WriteHalf(x, addr, x.r[i.rd])
      ELSE SetReg(Ticks(x, 1), i.rd, CASE i.sh = "half" -> LoadHalf(x, addr)
                                       [] i.sh = "sbyte" -> LoadSByte(x, addr)
                                       [] i.sh = "shalf" -> LoadSHalf(x, addr))
LoadStoreImm(x, i) ==
  Transfer(x, Wrap(x.r[i.rb] + IF i.byte THEN i.imm ELSE 4 * i.imm), i.rd, i.load, i.byte)
LoadStoreHalfword(x, i) ==
  LET addr == Wrap(x.r[i.rb] + 2 * i.imm)
  IN  IF i.load THEN SetReg(Ticks(x, 1), i.rd, LoadHalf(x, addr)) ELSE WriteHalf(x, addr, x.r[i.rd])
SpRelative(x, i) == Transfer(x, Wrap(x.r[SP] + 4 * i.imm), i.rd, i.load, FALSE)
LoadAddress(x, i) ==
  SetReg(x, i.rd, Wrap((IF i.sp THEN x.r[SP] ELSE WordAligned(x.r[PC])) + 4 * i.imm))
AddToSp(x, i) == SetReg(x, SP, Wrap(IF i.minus THEN x.r[SP] - 4 * i.imm ELSE x.r[SP] + 4 * i.imm))

\* PUSH and POP; extra is LR for the one and PC for the other.
PushPop(x, i) ==
  LET n     == Cardinality(i.list) + Flag(i.extra, 0)
      start == IF i.load THEN x.r[SP] ELSE Wrap(x.r[SP] - 4 * n)
      Nth(k) == Wrap(start + 4 * Before(i.list, k))
      last  == Wrap(start + 4 * Cardinality(i.list))
      popped == SetReg(FoldLeft(LAMBDA y, k : SetReg(y, k, ReadWord(x, Nth(k))), Ticks(x, 1),
                                Ordered(i.list)), SP, Wrap(x.r[SP] + 4 * n))
      pushed == FoldLeft(LAMBDA y, k : WriteWord(y, Nth(k), x.r[k]), x, Ordered(i.list))
      below  == Wrap(x.r[SP] - 64)
  IN  CASE n = 0 /\ i.load -> SetReg(SetReg(x, PC, ReadWord(x, x.r[SP])), SP, Wrap(x.r[SP] + 64))
        [] n = 0 /\ ~i.load -> SetReg(WriteWord(x, below, Wrap(x.r[PC] + 2)), SP, below)
        [] n > 0 /\ i.load ->
             IF i.extra THEN SetReg(popped, PC, ReadWord(x, last) - (ReadWord(x, last) % 2)) ELSE popped
        [] OTHER ->
             SetReg(IF i.extra THEN WriteWord(pushed, last, x.r[LR]) ELSE pushed, SP, start)

BlockTransfer(x, i) ==
  LET base == x.r[i.rb]
      wb   == Wrap(base + 4 * Cardinality(i.list))
      Nth(k) == Wrap(base + 4 * Before(i.list, k))
      Take(y, k) == SetReg(y, k, ReadWord(x, Nth(k)))
      Give(y, k) == WriteWord(y, Nth(k), IF k = i.rb /\ k # Lowest(i.list) THEN wb ELSE x.r[k])
      moved == IF i.load THEN FoldLeft(Take, Ticks(x, 1), Ordered(i.list))
               ELSE FoldLeft(Give, x, Ordered(i.list))
      none == SetReg(x, i.rb, Wrap(base + 64))
  IN  IF i.list = {}
      THEN IF i.load THEN SetReg(none, PC, ReadWord(x, base))
           ELSE WriteWord(none, base, Wrap(x.r[PC] + 2))
      ELSE IF i.load /\ i.rb \in i.list THEN moved ELSE SetReg(moved, i.rb, wb)

ConditionalBranch(x, i) == IF Eval(i.cond, x.cpsr) THEN SetReg(x, PC, Wrap(x.r[PC] + i.offset)) ELSE x
UnconditionalBranch(x, i) == SetReg(x, PC, Wrap(x.r[PC] + i.offset))
\* The prefix puts the high part of the target in LR, the suffix branches.
LongBranchLink(x, i) ==
  LET target == Wrap(x.r[LR] + i.offset)
      return == Wrap(x.r[PC] - 2)
  IN  IF i.prefix THEN SetReg(x, LR, Wrap(x.r[PC] + i.offset))
      ELSE SetReg(SetReg(x, PC, target - (target % 2)), LR, return - (return % 2) + 1)
\* mutant: the return address of an ARM call
ThumbSoftwareInterruptArm(x) == Entered(x, "Supervisor", Wrap(x.r[PC] - 4), 8)
ThumbSoftwareInterrupt(x) == Entered(x, "Supervisor", Wrap(x.r[PC] - 2), 8)

ThumbExecute(x, i) ==
  CASE i.op = "t1"  -> MoveShifted(x, i)
    [] i.op = "t2"  -> AddSubtract(x, i)
    [] i.op = "t3"  -> Immediate(x, i)
    [] i.op = "t4"  -> ThumbAlu(x, i)
    [] i.op = "t5"  -> HiRegister(x, i)
    [] i.op = "t6"  -> PcRelativeLoad(x, i)
    [] i.op = "t7"  -> LoadStoreReg(x, i)
    [] i.op = "t8"  -> LoadStoreSignExtended(x, i)
    [] i.op = "t9"  -> LoadStoreImm(x, i)
    [] i.op = "t10" -> LoadStoreHalfword(x, i)
    [] i.op = "t11" -> SpRelative(x, i)
    [] i.op = "t12" -> LoadAddress(x, i)
    [] i.op = "t13" -> AddToSp(x, i)
    [] i.op = "t14" -> PushPop(x, i)
    [] i.op = "t15" -> BlockTransfer(x, i)
    [] i.op = "t16" -> ConditionalBranch(x, i)
    [] i.op = "t17" -> ThumbSoftwareInterrupt(x)
    [] i.op = "t18" -> UnconditionalBranch(x, i)
    [] i.op = "t19" -> LongBranchLink(x, i)

-----------------------------------------------------------------------------
(* The pipeline *)

InstructionSize(x) == IF x.cpsr.t THEN 2 ELSE 4
Slot(x, a) == [at |-> a - (a % InstructionSize(x)), t |-> x.cpsr.t]
Refill(x) ==
  LET n == InstructionSize(x)
      a == x.r[PC] - (x.r[PC] % n)
  IN  [x EXCEPT !.pipeline = <<Slot(x, a), Slot(x, Wrap(a + n))>>, !.r[PC] = Wrap(@ + 2 * n),
                !.flush = FALSE]

Executed(x, i) == IF x.cpsr.t THEN ThumbExecute(x, i)
                  ELSE IF Eval(i.cond, x.cpsr) THEN ArmExecute(x, i) ELSE x
\* What follows the execution that made y of x: the word fetched at R15 before
\* it moves up, and R15 advances unless the instruction wrote it.
Advanced(x, y) ==
  IF y.flush THEN Refill(y)
  ELSE [y EXCEPT !.pipeline = <<x.pipeline[2], Slot(x, x.r[PC])>>,
                 !.r[PC] = IF y.r[PC] = x.r[PC] THEN Wrap(@ + InstructionSize(x)) ELSE @]
Stepped(x, i) == Advanced(x, Executed([x EXCEPT !.ticks = 0], i))
IrqReady(x) == ~x.cpsr.i
IrqTaken(x) ==
  Refill(Entered([x EXCEPT !.ticks = 0], "Irq", Wrap(x.r[PC] - 2 * InstructionSize(x) + 4), 24))

-----------------------------------------------------------------------------
(* Behaviours *)

ThumbOps == {"t1", "t2", "t3", "t4", "t5", "t6", "t7", "t8", "t9", "t10", "t11", "t12", "t13",
             "t14", "t15", "t16", "t17", "t18", "t19"}
ArmOps == {"dp", "mul", "mull", "ldr", "ldrh", "swp", "mrs", "msr", "block", "b", "bx", "swi", "undefined"}
ThumbAlus == Shifts \cup {"and", "eor", "adc", "sbc", "tst", "neg", "cmp", "cmn", "orr", "mul", "bic", "mvn"}

\* The parts of a machine, whatever its words hold.
PsrFields == {"n", "z", "c", "v", "i", "t", "mode"}
IsPsr(p) == DOMAIN p = PsrFields /\ p.mode \in Mode
IsMachine(x) ==
  /\ DOMAIN x = {"cpsr", "r8_12", "r13_14", "spsr", "mem", "ticks", "flush", "pipeline", "r"}
  /\ IsPsr(x.cpsr)
  /\ DOMAIN x.r = 0..15 /\ DOMAIN x.r8_12 = 0..1 /\ DOMAIN x.r13_14 = 0..5
  /\ DOMAIN x.spsr = 1..5 /\ \A c \in 1..5 : IsPsr(x.spsr[c])
\* Its words are words.
HoldsWords(x) ==
  /\ x.r \in [0..15 -> Word] /\ x.mem \in [Ram -> Word]
  /\ x.r8_12 \in [0..1 -> [0..4 -> Word]] /\ x.r13_14 \in [0..5 -> [0..1 -> Word]]

\* What decoding may answer: an operation there is, on registers there are.
Register == 0..15
Low == 0..7
Amount == 0..(Width - 1)
Constant == [by: {"imm"}, imm: Word, rot: Amount]
ByAmount == [by: {"amount"}, shift: Shifts, rm: Register, n: Amount]
ByRegister == [by: {"register"}, shift: Shifts, rm: Register, rs: Register]
Unshifted == [by: {"reg"}, rm: Register]
DecodedArm(i) ==
  /\ i.op = "dp" => i \in [op: {"dp"}, cond: Condition, alu: ArmAlus, s: BOOLEAN, rd: Register,
                          rn: Register, src: Constant \cup ByAmount \cup ByRegister]
  /\ i.op = "mul" => i \in [op: {"mul"}, cond: Condition, acc: BOOLEAN, s: BOOLEAN, rd: Register,
                            rn: Register, rs: Register, rm: Register]
  /\ i.op = "mull" => i \in [op: {"mull"}, cond: Condition, signed: BOOLEAN, acc: BOOLEAN, s: BOOLEAN,
                             rdhi: Register, rdlo: Register, rs: Register, rm: Register]
  /\ i.op = "ldr" => i \in [op: {"ldr"}, cond: Condition, pre: BOOLEAN, up: BOOLEAN, byte: BOOLEAN,
                            wb: BOOLEAN, load: BOOLEAN, rn: Register, rd: Register,
                            src: Constant \cup ByAmount]
  /\ i.op = "ldrh" => i \in [op: {"ldrh"}, cond: Condition, pre: BOOLEAN, up: BOOLEAN, wb: BOOLEAN,
                             load: BOOLEAN, sh: HalfKinds, rn: Register, rd: Register,
                             src: Constant \cup Unshifted]
  /\ i.op = "swp" => i \in [op: {"swp"}, cond: Condition, byte: BOOLEAN, rn: Register, rd: Register,
                            rm: Register]
  /\ i.op = "mrs" => i \in [op: {"mrs"}, cond: Condition, spsr: BOOLEAN, rd: Register]
  /\ i.op = "msr" => i \in [op: {"msr"}, cond: Condition, spsr: BOOLEAN, lanes: SUBSET {"flags", "control"},
                            src: Constant \cup Unshifted]
  /\ i.op = "block" => i \in [op: {"block"}, cond: Condition, pre: BOOLEAN, up: BOOLEAN, user: BOOLEAN,
                              wb: BOOLEAN, load: BOOLEAN, rn: Register, list: SUBSET Register]
  /\ i.op = "b" => i \in [op: {"b"}, cond: Condition, link: BOOLEAN, offset: Int]
  /\ i.op = "bx" => i \in [op: {"bx"}, cond: Condition, rn: Register]
DecodedThumb(i) ==
  /\ i.op = "t1" => i \in [op: {"t1"}, shift: Shifts, rs: Low, rd: Low, n: Amount]
  /\ i.op = "t2" => i \in [op: {"t2"}, imm: BOOLEAN, sub: BOOLEAN, operand: Low, rs: Low, rd: Low]
  /\ i.op = "t3" => i \in [op: {"t3"}, alu: {"mov", "cmp", "add", "sub"}, rd: Low, imm: Word]
  /\ i.op = "t4" => i \in [op: {"t4"}, alu: ThumbAlus, rd: Low, rs: Low]
  /\ i.op = "t5" => i \in [op: {"t5"}, alu: {"add", "cmp", "mov", "bx"}, rd: Register, rs: Register]
  /\ i.op = "t6" => i \in [op: {"t6"}, rd: Low, imm: Word]
  /\ i.op = "t7" => i \in [op: {"t7"}, load: BOOLEAN, byte: BOOLEAN, ro: Low, rb: Low, rd: Low]
  /\ i.op = "t8" => i \in [op: {"t8"}, load: {FALSE}, sh: {"store"}, ro: Low, rb: Low, rd: Low]
                         \cup [op: {"t8"}, load: {TRUE}, sh: HalfKinds, ro: Low, rb: Low, rd: Low]
  /\ i.op = "t9" => i \in [op: {"t9"}, load: BOOLEAN, byte: BOOLEAN, imm: Word, rb: Low, rd: Low]
  /\ i.op = "t10" => i \in [op: {"t10"}, load: BOOLEAN, imm: Word, rb: Low, rd: Low]
  /\ i.op = "t11" => i \in [op: {"t11"}, load: BOOLEAN, imm: Word, rd: Low]
  /\ i.op = "t12" => i \in [op: {"t12"}, sp: BOOLEAN, imm: Word, rd: Low]
  /\ i.op = "t13" => i \in [op: {"t13"}, minus: BOOLEAN, imm: Word]
  /\ i.op = "t14" => i \in [op: {"t14"}, load: BOOLEAN, extra: BOOLEAN, list: SUBSET Low]
  /\ i.op = "t15" => i \in [op: {"t15"}, load: BOOLEAN, rb: Low, list: SUBSET Low]
  /\ i.op = "t16" => i \in [op: {"t16"}, cond: Condition, offset: Int]
  /\ i.op = "t18" => i \in [op: {"t18"}, offset: Int]
  /\ i.op = "t19" => i \in [op: {"t19"}, prefix: BOOLEAN, offset: Int]
Decoded(i) == i.op \in ThumbOps \cup ArmOps \cup {"irq"} /\ DecodedArm(i) /\ DecodedThumb(i)

ASSUME ProgramsAssumption ==
  \A p \in DOMAIN Programs :
    /\ Len(Programs[p]) \in Nat
    /\ \A n \in 1..Len(Programs[p]) : \A i \in Programs[p][n] : Decoded(i)
    /\ \A x \in Starts[p] : IsMachine(x) /\ HoldsWords(x)

StoresBlock(i) == i.op = "block" /\ ~i.load
Enters(i) == i.op \in {"swi", "t17", "irq"}
Calls(i) == \/ Enters(i)
            \/ i.op = "b" /\ i.link
            \/ i.op = "t19" /\ ~i.prefix
Offered == IF done < Len(Programs[program]) THEN Programs[program][done + 1] ELSE {}

ProcessorInit ==
  /\ program \in DOMAIN Programs
  /\ m \in {Refill(x) : x \in Starts[program]}
  /\ ir = [op |-> "start"] /\ done = 0 /\ held = [by |-> ir, m |-> m]

Does(i, after) ==
  /\ m' = after
  /\ ir' = i /\ done' = done + 1
  /\ held' = IF Calls(i) \/ StoresBlock(i) THEN [by |-> i, m |-> m] ELSE held
  /\ UNCHANGED program
Step == \E i \in Offered : /\ i.op # "irq"
                           /\ m.cpsr.t <=> i.op \in ThumbOps
                           /\ Does(i, Stepped(m, i))
TakeIrq == \E i \in Offered : i.op = "irq" /\ IrqReady(m) /\ Does(i, IrqTaken(m))
Ends == Offered = {} /\ UNCHANGED vars

ProcessorNext == Step \/ TakeIrq \/ Ends
ProcessorSpec == ProcessorInit /\ [][ProcessorNext]_vars

-----------------------------------------------------------------------------
(* Results, told a second time *)

OneBit(type, s) ==
  CASE type = "lsl" -> <<Wrap(2 * s[1]), Top(s[1])>>
    [] type = "lsr" -> <<s[1] \div 2, Bit(s[1], 0)>>
    [] type = "asr" -> <<s[1] \div 2 + Flag(Top(s[1]), Width - 1), Bit(s[1], 0)>>
    [] type = "ror" -> <<s[1] \div 2 + Flag(Bit(s[1], 0), Width - 1), Bit(s[1], 0)>>
    [] type = "rrx" -> <<s[1] \div 2 + Flag(s[2], Width - 1), Bit(s[1], 0)>>
BitByBit(type, v, n, c) ==
  LET after[k \in 0..n] == IF k = 0 THEN <<v, c>> ELSE OneBit(type, after[k - 1]) IN after[n]
\* A shift by a constant 0 stands for one by the width, or through the carry.
ShifterOperand(x, src) ==
  CASE src.by = "imm" -> BitByBit("ror", src.imm, src.rot, x.cpsr.c)
    [] src.by = "amount" /\ src.n = 0 /\ src.shift \in {"lsr", "asr"} ->
         BitByBit(src.shift, x.r[src.rm], Width, x.cpsr.c)
    [] src.by = "amount" /\ src.n = 0 /\ src.shift = "ror" -> OneBit("rrx", <<x.r[src.rm], x.cpsr.c>>)
    [] src.by = "amount" /\ (src.n > 0 \/ src.shift = "lsl") ->
         BitByBit(src.shift, x.r[src.rm], src.n, x.cpsr.c)
    [] src.by = "register" -> BitByBit(src.shift, Late(x, src.rm), x.r[src.rs] % AmountSpan, x.cpsr.c)

\* The integer an arithmetic operation stands for.
Sum(alu, a, b, c) == CASE alu \in {"add", "cmn"} -> a + b
                       [] alu = "adc" -> a + b + Flag(c, 0)
                       [] alu \in {"sub", "cmp"} -> a - b
                       [] alu = "sbc" -> a - b - Flag(~c, 0)
                       [] alu = "rsb" -> b - a
                       [] alu = "rsc" -> b - a - Flag(~c, 0)
Additions == {"add", "cmn", "adc"}
Arithmetic == Additions \cup {"sub", "cmp", "sbc", "rsb", "rsc"}
Ones(v) == {n \in 0..(Width - 1) : Bit(v, n)}
BitsOf(alu, a, b) == CASE alu \in {"and", "tst"} -> Ones(a) \cap Ones(b)
                       [] alu \in {"eor", "teq"} -> (Ones(a) \cup Ones(b)) \ (Ones(a) \cap Ones(b))
                       [] alu = "orr" -> Ones(a) \cup Ones(b)
                       [] alu = "bic" -> Ones(a) \ Ones(b)
                       [] alu = "mov" -> Ones(b)
                       [] alu = "mvn" -> 0..(Width - 1) \ Ones(b)

SumIsExact(alu, a, b, c, p, r) ==
  LET u == Sum(alu, a, b, c)
      s == Sum(alu, Signed(a, Width), Signed(b, Width), c)
  IN  /\ p.c <=> IF alu \in Additions THEN u >= 2^Width ELSE u >= 0
      /\ p.v <=> s \notin -(2^(Width - 1)) .. 2^(Width - 1) - 1
      /\ p.n <=> Top(Wrap(u))
      /\ p.z <=> Wrap(u) = 0
      /\ alu \notin Tests => r = Wrap(u)
LogicIsExact(alu, a, b, sc, p, r, v) ==
  /\ p.c <=> sc
  /\ p.v <=> v
  /\ p.z <=> BitsOf(alu, a, b) = {}
  /\ p.n <=> Width - 1 \in BitsOf(alu, a, b)
  /\ alu \notin Tests => Ones(r) = BitsOf(alu, a, b)
ComparisonDecides(a, b, p) ==
  /\ Eval("Eq", p) <=> a = b
  /\ Eval("Cs", p) <=> a >= b
  /\ Eval("Hi", p) <=> a > b
  /\ Eval("Ls", p) <=> a <= b
  /\ Eval("Ge", p) <=> Signed(a, Width) >= Signed(b, Width)
  /\ Eval("Lt", p) <=> Signed(a, Width) < Signed(b, Width)
  /\ Eval("Gt", p) <=> Signed(a, Width) > Signed(b, Width)
  /\ Eval("Le", p) <=> Signed(a, Width) <= Signed(b, Width)

\* A data-processing instruction that sets the flags leaves what the exact
\* integers say: the result modulo the width, a carry where the unsigned sum does
\* not fit or the difference does not borrow, an overflow where the signed one
\* does not fit; the shifter's operand and carry out are those of as many shifts
\* by one bit; and after a comparison each condition holds when its order does.
ResultsAreExact ==
  [][ir'.op = "dp" /\ ir'.s /\ ir'.rd # PC /\ Eval(ir'.cond, m.cpsr) =>
       LET a  == IF ir'.src.by = "register" THEN Late(m, ir'.rn) ELSE m.r[ir'.rn]
           op == ShifterOperand(m, ir'.src)
           r  == m'.r[ir'.rd]
       IN  /\ ir'.alu \in Arithmetic => SumIsExact(ir'.alu, a, op[1], m.cpsr.c, m'.cpsr, r)
           /\ ir'.alu \notin Arithmetic => LogicIsExact(ir'.alu, a, op[1], op[2], m'.cpsr, r, m.cpsr.v)
           /\ ir'.alu = "cmp" => ComparisonDecides(a, op[1], m'.cpsr)]_vars

-----------------------------------------------------------------------------
(* Thumb in ARM's terms *)

Reg(k) == [by |-> "amount", shift |-> "lsl", rm |-> k, n |-> 0]
Imm(v) == [by |-> "imm", imm |-> v, rot |-> 0]
Dp(alu, s, rd, rn, src) ==
  [op |-> "dp", cond |-> "Al", alu |-> alu, s |-> s, rd |-> rd, rn |-> rn, src |-> src]
Ldr(load, byte, rd, rn, src) ==
  [op |-> "ldr", cond |-> "Al", pre |-> TRUE, up |-> TRUE, byte |-> byte, wb |-> FALSE,
   load |-> load, rn |-> rn, rd |-> rd, src |-> src]
Ldrh(load, sh, rd, rn, src) ==
  [op |-> "ldrh", cond |-> "Al", pre |-> TRUE, up |-> TRUE, wb |-> FALSE, load |-> load,
   sh |-> sh, rn |-> rn, rd |-> rd, src |-> src]
Block(load, pre, up, rn, list) ==
  [op |-> "block", cond |-> "Al", pre |-> pre, up |-> up, user |-> FALSE, wb |-> TRUE,
   load |-> load, rn |-> rn, list |-> list]
BranchTo(cond, offset) == [op |-> "b", cond |-> cond, link |-> FALSE, offset |-> offset]

\* The formats ARM has no instruction for: a target or a base whose low bits
\* Thumb clears, the empty lists, and the calls.
HasArmForm(x, i) ==
  CASE i.op = "t5" -> i.rd # PC \/ i.alu \in {"cmp", "bx"}
    [] i.op = "t6" \/ (i.op = "t12" /\ ~i.sp) -> x.r[PC] % 4 = 0
    [] i.op = "t14" -> (i.list # {} \/ i.extra) /\ ~(i.load /\ i.extra)
    [] i.op = "t15" -> i.list # {}
    [] OTHER -> i.op \in ThumbOps \ {"t17", "t19"}
ArmForm(i) ==
  CASE i.op = "t1" -> Dp("mov", TRUE, i.rd, 0, [by |-> "amount", shift |-> i.shift, rm |-> i.rs, n |-> i.n])
    [] i.op = "t2" -> Dp(IF i.sub THEN "sub" ELSE "add", TRUE, i.rd, i.rs,
                         IF i.imm THEN Imm(i.operand) ELSE Reg(i.operand))
    [] i.op = "t3" -> Dp(i.alu, TRUE, i.rd, i.rd, Imm(i.imm))
    [] i.op = "t4" /\ i.alu \in Shifts ->
         Dp("mov", TRUE, i.rd, 0, [by |-> "register", shift |-> i.alu, rm |-> i.rd, rs |-> i.rs])
    [] i.op = "t4" /\ i.alu = "neg" -> Dp("rsb", TRUE, i.rd, i.rs, Imm(0))
    [] i.op = "t4" /\ i.alu = "mul" ->
         [op |-> "mul", cond |-> "Al", acc |-> FALSE, s |-> TRUE, rd |-> i.rd, rn |-> 0, rs |-> i.rd, rm |-> i.rs]
    [] i.op = "t4" /\ i.alu \notin Shifts \cup {"neg", "mul"} -> Dp(i.alu, TRUE, i.rd, i.rd, Reg(i.rs))
    [] i.op = "t5" /\ i.alu = "bx" -> [op |-> "bx", cond |-> "Al", rn |-> i.rs]
    [] i.op = "t5" /\ i.alu # "bx" -> Dp(i.alu, i.alu = "cmp", IF i.alu = "cmp" THEN 0 ELSE i.rd, i.rd, Reg(i.rs))
    [] i.op = "t6" -> Ldr(TRUE, FALSE, i.rd, PC, Imm(4 * i.imm))
    [] i.op = "t7" -> Ldr(i.load, i.byte, i.rd, i.rb, Reg(i.ro))
    [] i.op = "t8" -> Ldrh(i.load, i.sh, i.rd, i.rb, [by |-> "reg", rm |-> i.ro])
    [] i.op = "t9" -> Ldr(i.load, i.byte, i.rd, i.rb, Imm(IF i.byte THEN i.imm ELSE 4 * i.imm))
    [] i.op = "t10" -> Ldrh(i.load, "half", i.rd, i.rb, Imm(2 * i.imm))
    [] i.op = "t11" -> Ldr(i.load, FALSE, i.rd, SP, Imm(4 * i.imm))
    [] i.op = "t12" -> Dp("add", FALSE, i.rd, IF i.sp THEN SP ELSE PC, Imm(4 * i.imm))
    [] i.op = "t13" -> Dp(IF i.minus THEN "sub" ELSE "add", FALSE, SP, SP, Imm(4 * i.imm))
    [] i.op = "t14" -> Block(i.load, ~i.load, i.load, SP, i.list \cup IF i.extra THEN {LR} ELSE {})
    [] i.op = "t15" -> Block(i.load, FALSE, TRUE, i.rb, i.list)
    [] i.op = "t16" -> BranchTo(i.cond, i.offset)
    [] i.op = "t18" -> BranchTo("Al", i.offset)

\* A Thumb instruction does what the ARM instruction it abbreviates does: the
\* registers, flags, memory and internal cycles ("decode down to the same
\* execution primitives as ARM", thumb.rs 6-7, written out a second time there).
ThumbAsArm ==
  [][ir'.op \in ThumbOps /\ HasArmForm(m, ir') =>
       LET i == ArmForm(ir')
           x == [m EXCEPT !.ticks = 0]
       IN  m' = Advanced(m, IF Eval(i.cond, m.cpsr) THEN ArmExecute(x, i) ELSE x)]_vars

-----------------------------------------------------------------------------
(* Banks, exceptions and blocks *)

\* Register k as mode sees it.
Seen(x, mode, k) ==
  IF k \in 8..12 THEN IF FiqGroup(mode) = FiqGroup(x.cpsr.mode) THEN x.r[k]
                      ELSE x.r8_12[FiqGroup(mode)][k - 8]
  ELSE IF k \in 13..14 THEN IF BankClass(mode) = BankClass(x.cpsr.mode) THEN x.r[k]
                            ELSE x.r13_14[BankClass(mode)][k - 13]
  ELSE x.r[k]
Switches(i) == i.op = "msr" \/ (i.op = "dp" /\ i.alu \in Tests)
ForUser(i) == i.op = "block" /\ i.user
InUserBank(mode, k) == IF k < 13 THEN FiqGroup(mode) = 0 ELSE BankClass(mode) = 0
Apart(mode, other, k) == IF k < 13 THEN FiqGroup(mode) # FiqGroup(other)
                         ELSE BankClass(mode) # BankClass(other)

\* No instruction touches a register banked to another mode, but for the forms
\* that reach the User bank and the LR an exception is entered with; and a change
\* of mode by a store to the status register changes no register of any mode.
BanksKept ==
  [][\A mode \in Mode, k \in 8..14 :
       \/ Switches(ir')
       \/ /\ Apart(mode, m.cpsr.mode, k)
          /\ ~(ForUser(ir') /\ InUserBank(mode, k))
          /\ ~(Enters(ir') /\ k = LR /\ BankClass(mode) = BankClass(m'.cpsr.mode))
       => Seen(m', mode, k) = Seen(m, mode, k)]_vars

Ended == done = Len(Programs[program])
\* All of the machine but what an exception handled in mode may leave changed.
Outside(x, mode) ==
  <<x.r, x.cpsr, x.mem, x.pipeline,
    [k \in Mode \ {mode} |-> [j \in 8..14 |-> Seen(x, k, j)]],
    [c \in 1..5 \ {BankClass(mode)} |-> x.spsr[c]]>>
WithoutLr(x) == [x EXCEPT !.r[LR] = 0, !.ticks = 0]
Returning == {"interrupt", "bios", "call"}
\* A program of Returning returns at its end, MOVS PC, LR or SUBS PC, LR, #4 from
\* an exception and BX LR from a call: to the instruction after the call, or to
\* the one the interrupt kept from running, in either instruction set, with every
\* register, flag and banked register of the caller, the pipeline refilled where
\* it stood.
ReturnsLandAfter ==
  program \in Returning /\ Ended =>
    LET next == Advanced(held.m, held.m)
    IN  CASE held.by.op = "irq" -> Outside(m, "Irq") = Outside(held.m, "Irq")
          [] held.by.op \in {"swi", "t17"} -> Outside(m, "Supervisor") = Outside(next, "Supervisor")
          [] OTHER -> WithoutLr(m) = WithoutLr(next)

\* The load that takes back what a store left: the other way through memory, or,
\* for the User registers, whose base is not written back, the same way.
Undoes(i, j) ==
  /\ i.op = "block" /\ i.load
  /\ i = IF j.user THEN [j EXCEPT !.load = TRUE]
         ELSE [j EXCEPT !.load = TRUE, !.pre = ~j.pre, !.up = ~j.up]
\* A block stored and loaded back the opposite way, whatever was done to its
\* registers between and whatever mode that left: each register of the list is
\* back, the User bank's in the User bank, and so is the base.
StackGivesBack ==
  program = "stack" /\ Ended /\ Undoes(ir, held.by) =>
    LET i == held.by
    IN  \A k \in i.list \cup {i.rn} :
          IF i.user /\ k # i.rn THEN UserReg(m, k) = UserReg(held.m, k) ELSE m.r[k] = held.m.r[k]
\* What was taken from a program is given back to it, by a return and by a load.
GivesBack == ReturnsLandAfter /\ StackGivesBack
=============================================================================
