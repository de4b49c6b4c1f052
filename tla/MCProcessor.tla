---------------------------- MODULE MCProcessor ----------------------------
(* Model-checking instance of Processor: words of twelve bits, bytes of three. *)
EXTENDS Processor

MCRam == {4 * k : k \in 0..40}
Contents == [a \in MCRam |-> Wrap(37 * a + 2731)]

Corners == {0, 1, 2, 5, 13, 2046, 2047, 2048, 2049, 2730, 4094, 4095}
Usual == [n |-> FALSE, z |-> TRUE, c |-> FALSE, v |-> TRUE, i |-> FALSE, t |-> FALSE, mode |-> "System"]

\* Every banked cell holds a value of its own, the stack pointers addresses in Ram.
Banks8 == [g \in 0..1 |-> [k \in 0..4 |-> 1000 + 100 * g + k]]
Banks13 == [c \in 0..5 |-> [k \in 0..1 |-> IF k = 0 THEN 64 + 4 * c ELSE 2000 + 16 * c]]
Saved == [c \in 1..5 |-> [Usual EXCEPT !.mode = "User", !.c = (c % 2 = 0), !.t = (c = 3)]]
Machine(psr, r) ==
  [cpsr |-> psr, r8_12 |-> Banks8, r13_14 |-> Banks13, spsr |-> Saved,
   mem |-> Contents, ticks |-> 0, flush |-> FALSE, pipeline |-> <<>>,
   r |-> [k \in 0..15 |-> IF k = 15 THEN 256
                          ELSE IF k \in 13..14 THEN Banks13[BankClass(psr.mode)][k - 13]
                          ELSE IF k \in 8..12 THEN Banks8[FiqGroup(psr.mode)][k - 8]
                          ELSE IF k \in DOMAIN r THEN r[k] ELSE 300 + k]]

\* Numbers: every operation on corner values.
Amounts == {0, 1, 5, 11}
Sources == {[by |-> "imm", imm |-> v, rot |-> n] : v \in {1, 6}, n \in {0, 4}}
           \cup {[by |-> "amount", shift |-> t, rm |-> 1, n |-> n] : t \in Shifts, n \in Amounts}
           \cup {[by |-> "register", shift |-> t, rm |-> 1, rs |-> 2] : t \in Shifts}
Numbers == {Dp(a, TRUE, 3, 0, src) : a \in {"cmp", "adc", "sbc", "rsb", "rsc", "cmn"}, src \in {Reg(1), Imm(5)}}
           \cup {Dp(a, TRUE, 3, 0, Reg(1)) : a \in ArmAlus}
           \cup {Dp("mov", TRUE, 3, 0, src) : src \in Sources}
           \cup {[Dp("mvn", TRUE, 3, 15, [by |-> "register", shift |-> "lsr", rm |-> 15, rs |-> 2]) EXCEPT !.cond = k] :
                   k \in {"Eq", "Hi", "Nv"}}
           \cup {[op |-> "mul", cond |-> "Al", acc |-> a, s |-> TRUE, rd |-> 3, rn |-> 1, rs |-> 0, rm |-> 1] :
                   a \in BOOLEAN}
           \cup {[op |-> "mull", cond |-> "Al", signed |-> g, acc |-> a, s |-> TRUE, rdhi |-> 3, rdlo |-> 4,
                   rs |-> 0, rm |-> 1] : g \in BOOLEAN, a \in BOOLEAN}
ThumbNumbers ==
  {[op |-> "t1", shift |-> t, rs |-> 1, rd |-> 3, n |-> n] : t \in Shifts \ {"ror"}, n \in Amounts}
  \cup {[op |-> "t2", imm |-> b, sub |-> s, operand |-> 1, rs |-> 0, rd |-> 3] : b \in BOOLEAN, s \in BOOLEAN}
  \cup {[op |-> "t3", alu |-> a, rd |-> 0, imm |-> 6] : a \in {"mov", "cmp", "add", "sub"}}
  \cup {[op |-> "t4", alu |-> a, rd |-> 0, rs |-> 1] :
          a \in (ArmAlus \ {"sub", "rsb", "add", "rsc", "teq", "mov"}) \cup {"neg", "mul"}}
  \cup {[op |-> "t4", alu |-> a, rd |-> 0, rs |-> 2] : a \in Shifts}
  \cup {[op |-> "t5", alu |-> a, rd |-> d, rs |-> 0] : a \in {"add", "cmp", "mov"}, d \in {3, 9, 15}}
  \cup {[op |-> "t5", alu |-> "bx", rd |-> 0, rs |-> 0]}
  \cup {[op |-> "t16", cond |-> k, offset |-> 4090] : k \in {"Eq", "Hi", "Gt"}}
  \cup {[op |-> "t18", offset |-> 4066]}
NumberStarts == {Machine([Usual EXCEPT !.c = c, !.t = t], (0 :> a) @@ (1 :> b) @@ (2 :> 19)) :
                   c \in BOOLEAN, t \in BOOLEAN, a \in Corners, b \in Corners}
ShiftStarts == {Machine([Usual EXCEPT !.c = c, !.t = t], (0 :> a) @@ (1 :> a) @@ (2 :> n)) :
                  c \in BOOLEAN, t \in BOOLEAN, a \in {1, 2730, 2049}, n \in {0, 1, 7, 11, 12, 13, 24, 63}}

\* Memory: every addressing mode at every alignment.
Loads == {[op |-> "ldr", cond |-> "Al", pre |-> p, up |-> u, byte |-> y, wb |-> w, load |-> l,
           rn |-> n, rd |-> 3, src |-> src] :
            p \in BOOLEAN, u \in BOOLEAN, y \in BOOLEAN, w \in BOOLEAN, l \in BOOLEAN, n \in {0, 3},
            src \in {Imm(5), [by |-> "amount", shift |-> "lsl", rm |-> 1, n |-> 1]}}
         \cup {[op |-> "ldrh", cond |-> "Al", pre |-> p, up |-> u, wb |-> w, load |-> h # "store",
                sh |-> IF h = "store" THEN "half" ELSE h, rn |-> n, rd |-> d, src |-> src] :
                 p \in BOOLEAN, u \in BOOLEAN, w \in BOOLEAN, h \in {"half", "sbyte", "shalf", "store"},
                 n \in {0}, d \in {3, 15}, src \in {Imm(3), [by |-> "reg", rm |-> 1]}}
         \cup {[op |-> "swp", cond |-> "Al", byte |-> y, rn |-> 0, rd |-> 3, rm |-> 1] : y \in BOOLEAN}
         \cup {[Ldr(l, FALSE, d, n, Imm(4)) EXCEPT !.wb = TRUE] : l \in BOOLEAN, d \in {3, 15}, n \in {0, 15}}
Lists == {{}, {0}, {3}, {0, 3}, {1, 4, 15}, {3, 13, 14}}
Blocks == {[Block(l, p, u, 0, s) EXCEPT !.wb = w, !.user = g] :
             l \in BOOLEAN, p \in BOOLEAN, u \in BOOLEAN, w \in BOOLEAN, g \in BOOLEAN, s \in Lists}
          \cup {Block(l, TRUE, TRUE, 15, {3}) : l \in BOOLEAN}
ThumbLoads ==
  {[op |-> "t6", rd |-> 3, imm |-> 2]}
  \cup {[op |-> "t7", load |-> l, byte |-> y, ro |-> 1, rb |-> 0, rd |-> 3] : l \in BOOLEAN, y \in BOOLEAN}
  \cup {[op |-> "t8", load |-> h # "store", sh |-> h, ro |-> 1, rb |-> 0, rd |-> 3] :
          h \in {"half", "sbyte", "shalf", "store"}}
  \cup {[op |-> "t9", load |-> l, byte |-> y, imm |-> 3, rb |-> 0, rd |-> 3] : l \in BOOLEAN, y \in BOOLEAN}
  \cup {[op |-> "t10", load |-> l, imm |-> 3, rb |-> 0, rd |-> 3] : l \in BOOLEAN}
  \cup {[op |-> "t11", load |-> l, imm |-> 3, rd |-> 3] : l \in BOOLEAN}
  \cup {[op |-> "t12", sp |-> b, imm |-> 3, rd |-> 3] : b \in BOOLEAN}
  \cup {[op |-> "t13", minus |-> b, imm |-> 3] : b \in BOOLEAN}
  \cup {[op |-> "t14", load |-> l, extra |-> e, list |-> s] : l \in BOOLEAN, e \in BOOLEAN, s \in {{}, {3}, {0, 1, 7}}}
  \cup {[op |-> "t15", load |-> l, rb |-> 3, list |-> s] : l \in BOOLEAN, s \in {{}, {3}, {0, 3, 7}, {3, 5}}}
MemoryStarts == {Machine([Usual EXCEPT !.t = t, !.mode = k], (0 :> 72 + n) @@ (1 :> 9) @@ (3 :> 48)) :
                   t \in BOOLEAN, n \in 0..3, k \in {"System", "Fiq"}}

\* Modes: status registers written, saved and restored, from and to any mode.
Controls == {WordOfPsr([Usual EXCEPT !.mode = k, !.i = (k \in {"Irq", "Abort"})]) : k \in Mode}
MsrOf(spsr, lanes, rm) == [op |-> "msr", cond |-> "Al", spsr |-> spsr, lanes |-> lanes, src |-> [by |-> "reg", rm |-> rm]]
ModeOps == {MsrOf(p, s, 0) : p \in BOOLEAN, s \in {{"control"}, {"flags"}, {"flags", "control"}}}
           \cup {MsrOf(FALSE, {"control"}, 1)}
           \cup {[op |-> "mrs", cond |-> "Al", spsr |-> p, rd |-> d] : p \in BOOLEAN, d \in {13, 15}}
           \cup {[op |-> "msr", cond |-> "Al", spsr |-> FALSE, lanes |-> {"flags"},
                  src |-> [by |-> "imm", imm |-> 5, rot |-> 4]]}
           \cup {Dp("cmp", TRUE, 15, 1, Imm(0)), Dp("mov", TRUE, 15, 0, Reg(14)), Dp("mov", FALSE, 9, 0, Imm(7)),
                 Dp("mov", FALSE, 13, 0, Imm(7)), Dp("add", FALSE, 15, 15, Imm(8))}
           \cup {[Block(l, FALSE, TRUE, 2, s) EXCEPT !.wb = w, !.user = TRUE] :
                   l \in BOOLEAN, w \in BOOLEAN, s \in {{9, 13}, {8, 14, 15}}}
           \cup {[op |-> "swi", cond |-> "Al"], [op |-> "undefined", cond |-> "Al"], [op |-> "irq"]}
ModeStarts == {Machine([Usual EXCEPT !.mode = k], (0 :> c) @@ (1 :> 15) @@ (2 :> 72)) :
                 k \in Mode, c \in Controls}

\* Calls: an instruction, a call, what a handler may do, and the return.
Nops == {Dp("mov", FALSE, 9, 0, Imm(1)), [op |-> "t3", alu |-> "mov", rd |-> 0, imm |-> 1],
         BranchTo("Al", 8), [op |-> "t16", cond |-> "Ne", offset |-> 6], [op |-> "t18", offset |-> 6]}
Interrupted == <<Nops, {[op |-> "irq"]}, {Dp("mov", FALSE, 13, 0, Imm(9)), MsrOf(TRUE, {}, 1)},
                 {Dp("sub", TRUE, 15, 14, Imm(4))}>>
Bios == <<Nops, {[op |-> "swi", cond |-> "Al"], [op |-> "t17"]}, {Dp("mov", TRUE, 15, 0, Reg(14))}>>
Calling == <<{[op |-> "t19", prefix |-> TRUE, offset |-> 0], Dp("mov", FALSE, 9, 0, Imm(1))},
             {[op |-> "t19", prefix |-> FALSE, offset |-> 22], [BranchTo("Al", 20) EXCEPT !.link = TRUE]},
             {[op |-> "t5", alu |-> "bx", rd |-> 0, rs |-> 14], [op |-> "bx", cond |-> "Al", rn |-> 14]}>>
CallStarts == {Machine([Usual EXCEPT !.mode = k, !.t = t], (0 :> 5)) :
                 k \in {"User", "System", "Fiq"}, t \in BOOLEAN}

\* Stacks: a block stored, a register lost or the mode changed, a block loaded.
Stored == {[Block(FALSE, p, u, 0, s) EXCEPT !.user = g, !.wb = ~g] :
             p \in BOOLEAN, u \in BOOLEAN, s \in {{3}, {1, 4, 9}, {8, 13, 14}}, g \in BOOLEAN}
Stacking == <<Stored,
              {Dp("mvn", FALSE, k, 0, Reg(k)) : k \in {3, 9, 13}} \cup {MsrOf(FALSE, {"control"}, 1)},
              {[i EXCEPT !.load = TRUE] : i \in Stored}>>
StackStarts == {Machine([Usual EXCEPT !.mode = k], (0 :> 80) @@ (1 :> c)) :
                  k \in {"System", "Fiq", "Irq"}, c \in {1, 3}}

MCPrograms ==
  [numbers |-> <<Numbers \cup ThumbNumbers>>, shifts |-> <<Numbers \cup ThumbNumbers>>,
   memory |-> <<Loads \cup Blocks \cup ThumbLoads>>, modes |-> <<ModeOps, ModeOps>>,
   interrupt |-> Interrupted, bios |-> Bios, call |-> Calling, stack |-> Stacking]
MCStarts ==
  [numbers |-> NumberStarts, shifts |-> ShiftStarts, memory |-> MemoryStarts, modes |-> ModeStarts,
   interrupt |-> CallStarts, bios |-> CallStarts, call |-> CallStarts, stack |-> StackStarts]
=============================================================================
