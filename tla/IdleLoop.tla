------------------------------ MODULE IdleLoop ------------------------------
(***************************************************************************)
(* The idle-loop watch of gba-core/src/jit/idle.rs and the frame loop that *)
(* uses it (lib.rs): a Thumb loop in which a game waits is recognised, and *)
(* once an iteration has changed nothing the rest of the scanline's phase  *)
(* is skipped.                                                             *)
(*                                                                         *)
(* The game is a machine of Processor running one of Routines from an      *)
(* address of its own; each instruction takes a cycle.  The interrupt      *)
(* handler is one step: it takes some number of instructions, which the     *)
(* phases that follow have the fewer if this one has not so many left,     *)
(* leaves something in the word the games wait for, and gives every        *)
(* register back.                                                          *)
(* A routine's code stays what it is: what happens to a target whose code  *)
(* the game replaces in RAM is not modelled.                               *)
(***************************************************************************)
EXTENDS Processor

CONSTANTS
  MaxScan,       \* instructions looked at for the branch that closes a loop: 32
  MaxSpan,       \* bytes that branch may reach back: 64
  Routines,      \* name -> code, a function from addresses to instructions
  Spinners,      \* name -> the machine that routine begins on
  PhaseCycles,   \* cycles of each half of a scanline
  LastLine,      \* the last scanline of a frame: 227
  HandlerSteps,  \* the lengths a handler may have, in instructions
  FlagAt,        \* where a handler leaves word
  VcountAt       \* where the line can be read

VARIABLES
  game,     \* the machine
  routine,  \* the code it runs
  watch,    \* the watch: what it looks for and what it saw there last
  since,    \* instructions since the last arrival at the watched head
  disturbed, \* a line began meanwhile, or a handler before any of them was the loop's
  scanline, phase,
  left,     \* cycles left in the phase; below 0, what a handler takes of the next
  pending   \* an interrupt is

idlevars == <<game, routine, watch, since, disturbed, scanline, phase, left, pending>>

\* An instruction is at an even address and in the routine's instruction set.
IsRoutine(code) ==
  /\ \A a \in DOMAIN code : /\ a \in Word /\ a % 2 = 0
                            /\ Decoded(code[a]) /\ code[a].op # "irq"
                            /\ code[a].op = "t16" => code[a].offset % 2 = 0
  /\ \A a, b \in DOMAIN code : code[a].op \in ThumbOps <=> code[b].op \in ThumbOps

ASSUME IdleAssumption ==
  /\ MaxScan \in Nat /\ MaxSpan \in Nat /\ MaxSpan >= 4 /\ MaxSpan + 4 < 2^Width
  /\ LastLine \in Word /\ HandlerSteps \subseteq Nat \ {0}
  /\ \A k \in DOMAIN Routines :
       IsRoutine(Routines[k]) /\ IsMachine(Spinners[k]) /\ HoldsWords(Spinners[k])

Code == Routines[routine]
Executing(x) == x.pipeline[1].at

-----------------------------------------------------------------------------
(* Finding a loop *)

CondBranchTarget(i, at) == Wrap(at + 4 + i.offset)

\* mutant: the L bit of format 9 is not looked at
PureInLoopStoring(i) ==
  CASE i.op \in {"t1", "t2", "t3", "t4", "t6", "t9", "t12"} -> TRUE
    [] i.op \in {"t7", "t8", "t10", "t11"} -> i.load
    [] OTHER -> FALSE
PureInLoop(i) ==
  CASE i.op \in {"t1", "t2", "t3", "t4", "t6", "t12"} -> TRUE
    [] i.op \in {"t7", "t8", "t9", "t10", "t11"} -> i.load
    [] OTHER -> FALSE

NoLoop == [head |-> 0, len |-> 0]
\* The loop around from: the first instruction that is not pure closes it.
FindLoop(code, from) ==
  LET Passed(at) == at \in DOMAIN code /\ PureInLoop(code[at])
      closing == {k \in 0..(MaxScan - 1) : /\ ~Passed(from + 2 * k)
                                           /\ \A j \in 0..(k - 1) : Passed(from + 2 * j)}
  IN  IF closing = {} THEN NoLoop
      ELSE LET at == from + 2 * CHOOSE k \in closing : TRUE
           IN  IF at \notin DOMAIN code \/ code[at].op # "t16" THEN NoLoop
               ELSE LET head == CondBranchTarget(code[at], at)
                        n == (at - head) \div 2
                    IN  IF /\ head <= from /\ at - head <= MaxSpan
                           /\ \A k \in 0..(n - 1) : Passed(head + 2 * k)
                        THEN [head |-> head, len |-> n + 1] ELSE NoLoop

-----------------------------------------------------------------------------
(* The watch.  paid tells that it skipped since it was last checked, ever that *)
(* it did at all.                                                              *)

Nothing == -1
Unwatched == [probe |-> Nothing, len |-> 0, snap |-> <<>>, have |-> FALSE, paid |-> FALSE, ever |-> FALSE]
Registers(x) == <<x.r, x.cpsr>>

Watched(w, loop) == [w EXCEPT !.probe = Wrap(loop.head + 4), !.len = loop.len,
                              !.have = @ /\ w.probe = Wrap(loop.head + 4)]
\* The counters outlive what is forgotten, but not where they were checked.
Forgotten(w) == [Unwatched EXCEPT !.ever = w.ever, !.paid = w.ever]
Retired(w) == [(IF w.probe # Nothing /\ ~w.paid THEN Forgotten(w) ELSE w) EXCEPT !.paid = FALSE]
Sampled(w) ==
  LET loop == FindLoop(Code, Wrap(game.r[PC] - 4))
  IN  IF w.probe = Nothing /\ game.cpsr.t /\ loop # NoLoop THEN Watched(w, loop) ELSE w

\* mutant: two arrivals are compared, however far apart
ProvenArrivals(w) == w.have /\ w.snap = Registers(game)
Proven(w) == w.have /\ since = w.len /\ w.snap = Registers(game)
Considered(w) == [w EXCEPT !.snap = Registers(game), !.have = TRUE]

-----------------------------------------------------------------------------
(* The frame loop *)

Far == MaxSpan   \* more than any loop has instructions
Later(n) == IF since + n > Far THEN Far ELSE since + n
InPhase == left > 0
IrqDue == pending /\ IrqReady(game)
Arrived == InPhase /\ ~IrqDue /\ game.r[PC] = watch.probe

IdleInit ==
  /\ routine \in DOMAIN Routines /\ game = Refill(Spinners[routine])
  /\ watch = Unwatched /\ since = Far /\ disturbed = FALSE
  /\ scanline = LastLine /\ phase = 1 /\ left = 0 /\ pending = FALSE

LineBegins ==
  LET next == IF scanline = LastLine THEN 0 ELSE scanline + 1
      kept == IF next = 0 THEN Retired(watch) ELSE watch
  IN  /\ left <= 0 /\ phase = 1
      /\ scanline' = next /\ phase' = 0 /\ left' = left + PhaseCycles
      /\ watch' = IF left = 0 THEN Sampled(kept) ELSE kept   \* a handler does not loop
      /\ game' = [game EXCEPT !.mem[VcountAt] = next]
      /\ pending' \in {pending, TRUE} /\ disturbed' = TRUE
      /\ UNCHANGED <<routine, since>>
HblankBegins ==
  /\ left <= 0 /\ phase = 0
  /\ phase' = 1 /\ left' = left + PhaseCycles
  /\ UNCHANGED <<game, routine, watch, since, disturbed, scanline, pending>>

Handled ==
  /\ InPhase /\ IrqDue
  /\ \E n \in HandlerSteps, w \in {0, 1} :
       /\ game' = [game EXCEPT !.mem[FlagAt] = w]
       /\ since' = Later(n) /\ left' = left - n
  /\ disturbed' = (disturbed \/ since = 0) /\ pending' = FALSE
  /\ UNCHANGED <<routine, watch, scanline, phase>>

Skips ==
  /\ Arrived /\ Proven(watch)
  /\ watch' = [Considered(watch) EXCEPT !.paid = TRUE, !.ever = TRUE]
  /\ left' = 0 /\ since' = 0 /\ disturbed' = FALSE
  /\ UNCHANGED <<game, routine, scanline, phase, pending>>
Executes ==
  /\ InPhase /\ ~IrqDue /\ ~(Arrived /\ Proven(watch))
  /\ game' = Stepped(game, Code[Executing(game)])
  /\ watch' = IF Arrived THEN Considered(watch) ELSE watch
  /\ since' = IF Arrived THEN 1 ELSE Later(1)
  /\ left' = left - 1 /\ disturbed' = (disturbed /\ ~Arrived)
  /\ UNCHANGED <<routine, scanline, phase, pending>>

\* Between two frames the player loads a state saved where the routine begins.
StateLoaded ==
  /\ left <= 0 /\ phase = 1 /\ scanline = LastLine
  /\ game' = Refill(Spinners[routine]) /\ watch' = Forgotten(watch) /\ left' = 0
  /\ UNCHANGED <<routine, since, disturbed, scanline, phase, pending>>

IdleNext == LineBegins \/ HblankBegins \/ Handled \/ Skips \/ Executes \/ StateLoaded
IdleSpec == IdleInit /\ [][IdleNext]_idlevars

-----------------------------------------------------------------------------

StoresTo(i) == \/ i.op \in {"t7", "t8", "t9", "t10", "t11", "t14", "t15"} /\ ~i.load
\* Another iteration from here, with the memory as it is now, stores nothing and
\* comes back to where it began with what it began with.
SpinsInPlace ==
  LET after[k \in 0..watch.len] ==
        IF k = 0 THEN game ELSE Stepped(after[k - 1], Code[Executing(after[k - 1])])
  IN  /\ Registers(after[watch.len]) = Registers(game)
      /\ \A k \in 0..(watch.len - 1) : ~StoresTo(Code[Executing(after[k])])
\* What a skip drops is iterations that would have done nothing: not one of a
\* loop that counts, scans or stores, and none that would have seen the word it
\* waits for, or the line it polls, change.  Excepted are the arrival after a skip
\* and a handler of as many instructions as the loop has, nothing else having run,
\* and the one whose iteration had read the line before the next line began.
SkipsLoseNothing == Arrived /\ Proven(watch) /\ ~disturbed => SpinsInPlace
=============================================================================
