------------------------------ MODULE Console ------------------------------
(***************************************************************************)
(* The console around the processor: the scanline loop of gba-core/src/    *)
(* lib.rs, and the interrupt, HALT, timer and DMA registers of gba-core/   *)
(* src/memory.rs, with the BIOS calls that wait for an interrupt (gba-core *)
(* /src/cpu/hle.rs).                                                       *)
(*                                                                         *)
(* A scanline begins with its interrupts, its timers and the DMA timed to  *)
(* it; then instructions run until its cycles are spent.  A DMA is carried *)
(* out whole inside the store or the scanline that starts it, and may      *)
(* itself store to the DMA registers; here it goes word by word, and       *)
(* nothing else happens meanwhile.                                         *)
(*                                                                         *)
(* The game is any sequence of stores and BIOS calls.  Its interrupt       *)
(* handler keeps the BIOS's contract: it posts the interrupts it saw for   *)
(* the BIOS and acknowledges them, in either order; and it is shorter than *)
(* a scanline.  Cycles are not counted: a scanline may end after any       *)
(* instruction of the game, or inside a handler that began in it, and      *)
(* gives the timers any number of cycles in Deltas.                        *)
(***************************************************************************)
EXTENDS Naturals, FiniteSets, FiniteSetsExt

CONSTANTS
  Lines,         \* TOTAL_LINES
  Visible,       \* SCREEN_H, and the line at which the V-blank begins
  Channels,      \* the DMA channels in use, of 0..3
  Drains,        \* a drain runs at most this many queued channels: 32
  Timers,        \* the timers in use, 0..n
  TimerSize,     \* timers are u16: 2^16
  Deltas,        \* bound: the cycles a scanline may take
  Masks,         \* the values the game stores to IE
  Displays,      \* those it stores to DISPSTAT: LCD interrupts it enables
  Controls,      \* those stored to a DMA control register, by game or by DMA
  Counts,        \* and to a DMA count register
  MaxCount,      \* what a count of 0 stands for: 0x4000, or 0x10000
  Settings,      \* those it stores to a timer
  Waits,         \* the arguments it gives to IntrWait
  MaxStores      \* bound: registers it stores to, and soft resets

RAM == 4   \* a DMA destination that is no DMA register

Control == [on : BOOLEAN, irq : BOOLEAN, timing : {"now", "vblank", "hblank"},
            repeat : BOOLEAN, fixed : BOOLEAN, reload : BOOLEAN]

ASSUME ConsoleAssumption ==
  /\ Lines \in Nat \ {0} /\ Visible \in 0..(Lines - 1)
  /\ Channels \subseteq 0..3 /\ Channels # {} /\ IsFiniteSet(Channels)
  /\ Drains \in Nat /\ TimerSize \in Nat \ {0}
  /\ Timers \subseteq 0..3 /\ \A t \in Timers : t > 0 => t - 1 \in Timers
  /\ Deltas \subseteq Nat /\ Controls \subseteq Control
  /\ Counts \subseteq Nat /\ MaxCount \in Nat \ {0}
  /\ Settings \subseteq [on : BOOLEAN, irq : BOOLEAN, cascade : BOOLEAN,
                         period : Nat \ {0}, reload : 0..(TimerSize - 1)]
  /\ MaxStores \in Nat

VARIABLES
  line, stage, scan,      \* the scanline, the part of it, the DMA channels looked at
  ran,                    \* has this scanline run an instruction of the game
  late,                   \* did it begin in a handler
  lcd, ie, if_, ime,      \* DISPSTAT's enable bits, IE, IF, IME
  at, back,               \* where the processor is, and where an interrupt returns
  seen,                   \* what the handler read from IE and IF
  halted,
  wait, inWait, biosIF,   \* IntrWait's arguments, in_intr_wait, BIOS_IF
  ctl, dad, cnt,          \* a DMA channel's registers
  dst, count,             \* what it latched
  active, pending,        \* dma_active, dma_pending
  job, drained,           \* the transfer running, channels drained since the first
  timers,
  posted, abandoned,      \* history: posted since the wait began; a reset cut one short
  stores                  \* bound

loopVars  == <<line, stage, scan, ran, late>>
irqVars   == <<lcd, ie, if_, ime>>
cpuVars   == <<at, back, seen, halted>>
waitVars  == <<wait, inWait, biosIF, posted, abandoned>>
dmaRegs   == <<ctl, dad, cnt, dst, count>>
dmaRun    == <<active, pending, job, drained>>
dmaVars   == <<dmaRegs, dmaRun>>
vars == <<loopVars, irqVars, cpuVars, waitVars, dmaVars, timers, stores>>

-----------------------------------------------------------------------------
(* Interrupts                                                              *)

VBlank == <<"lcd", 0>>
HBlank == <<"lcd", 1>>
Lcd    == {VBlank, HBlank}
Overflow(t) == <<"timer", t>>
DmaDone(c)  == <<"dma", c>>
Sources == Lcd \cup {Overflow(t) : t \in Timers} \cup {DmaDone(c) : c \in Channels}

InHandler  == at \notin {"main", "swi"}
\* The handler runs with the processor's own mask set.
IrqReady   == ~InHandler
IrqPending == ime /\ ie \cap if_ # {}
\* Leaving HALT does not look at IME.
WakesByIme == ime /\ ie \cap if_ # {}  \* mutant: the wake gated on IME
Wakes      == ie \cap if_ # {}

\* raise_ppu_irqs
Raised(l) == {s \in lcd : s = HBlank \/ l = Visible}

-----------------------------------------------------------------------------
(* Timers                                                                  *)

\* timer_add: the counter after so many ticks, and how often it overflowed.
AddedOnce(counter, reload, ticks) ==  \* mutant: one overflow at most
  LET val == counter + ticks
  IN  IF val < TimerSize THEN [counter |-> val, overflows |-> 0]
      ELSE [counter |-> reload + ((val - TimerSize) % (TimerSize - reload)),
            overflows |-> 1]
Added(counter, reload, ticks) ==
  LET val    == counter + ticks
      period == TimerSize - reload
      extra  == val - TimerSize
  IN  IF val < TimerSize THEN [counter |-> val, overflows |-> 0]
      ELSE [counter |-> reload + (extra % period), overflows |-> 1 + (extra \div period)]

CountsUp(t) == t > 0 /\ timers[t].cascade

\* step_timers: every timer after so many cycles, with its overflows.
Stepped(cycles) ==
  LET step[t \in Timers] ==
        LET r == timers[t]
            ticks == IF CountsUp(t) THEN step[t - 1].overflows
                     ELSE (r.sub + cycles) \div r.period
            sub   == IF CountsUp(t) THEN r.sub ELSE (r.sub + cycles) % r.period
            new   == Added(r.counter, r.reload, ticks)
        IN  IF r.on THEN [timer |-> [r EXCEPT !.counter = new.counter, !.sub = sub],
                          overflows |-> new.overflows]
            ELSE [timer |-> r, overflows |-> 0]
  IN  step

-----------------------------------------------------------------------------
(* DMA                                                                     *)

Disabled(v)  == [v EXCEPT !.on = FALSE]
Immediate(v) == v.timing = "now"

Words(c) == IF cnt[c] = 0 THEN MaxCount ELSE cnt[c]

\* run_dma up to its first word.
Begin(c, control, n, d) ==
  /\ active' = TRUE
  /\ job' = [ch |-> c, control |-> control, left |-> n, dst |-> d]

\* A store to a control register: an enable bit that rises latches the
\* channel, and starts it if it is immediate; inside a transfer it is queued.
RisesIfSet(c, v) == v.on  \* mutant: a store of 1 over a 1 starts the channel
Rises(c, v) == ~ctl[c].on /\ v.on
StoreControl(c, v) ==
  /\ ctl' = [ctl EXCEPT ![c] = v]
  /\ dst' = [dst EXCEPT ![c] = IF Rises(c, v) THEN dad[c] ELSE @]
  /\ count' = [count EXCEPT ![c] = IF Rises(c, v) THEN Words(c) ELSE @]
  /\ UNCHANGED <<dad, cnt>>

\* One word of the running transfer; what it carries is whatever the game
\* left in memory.
DmaWord ==
  /\ active /\ job.left > 0
  /\ job' = [ch |-> job.ch, control |-> job.control, left |-> job.left - 1,
             dst |-> IF job.control.fixed THEN job.dst ELSE RAM]
  /\ \/ job.dst = RAM /\ UNCHANGED <<dmaRegs, pending>>
     \/ \E v \in Controls :
          /\ job.dst \in Channels
          /\ StoreControl(job.dst, v)
          /\ pending' = IF Rises(job.dst, v) /\ Immediate(v)
                        THEN pending \cup {job.dst} ELSE pending
  /\ UNCHANGED <<active, drained, loopVars, irqVars, cpuVars, waitVars, timers, stores>>

\* The end of the running transfer, and the next of the queue: lowest first,
\* and no more than Drains of them.
NoCount == drained  \* mutant: a drain without a bound
OneMore == drained + 1
MoreToDrain == pending # {} /\ drained < Drains
DmaEnd ==
  /\ active /\ job.left = 0
  /\ LET c == job.ch
         repeats == job.control.repeat /\ ~Immediate(job.control)
     IN  /\ if_' = IF job.control.irq THEN if_ \cup {DmaDone(c)} ELSE if_
         /\ ctl' = IF repeats THEN ctl ELSE [ctl EXCEPT ![c] = Disabled(job.control)]
         /\ count' = IF repeats THEN [count EXCEPT ![c] = Words(c)] ELSE count
         /\ dst' = [dst EXCEPT ![c] = IF repeats /\ job.control.reload THEN dad[c] ELSE job.dst]
  /\ \/ /\ MoreToDrain
        /\ LET next == Min(pending)
           IN  /\ Begin(next, ctl'[next], count'[next], dst'[next])
               /\ pending' = pending \ {next}
        /\ drained' = OneMore
     \/ /\ ~MoreToDrain
        /\ pending' = {} /\ active' = FALSE /\ drained' = 0
        /\ UNCHANGED job
  /\ UNCHANGED <<dad, cnt, loopVars, lcd, ie, ime, cpuVars, waitVars, timers, stores>>

-----------------------------------------------------------------------------
(* The scanline loop                                                       *)

BeginLine == \E cycles \in Deltas :
  /\ stage = "begin" /\ ~active
  /\ LET new == Stepped(cycles)
     IN  /\ timers' = [t \in Timers |-> new[t].timer]
         /\ if_' = if_ \cup Raised(line)
                     \cup {Overflow(t) : t \in {u \in Timers : /\ new[u].overflows > 0
                                                               /\ timers[u].irq}}
  /\ stage' = "dma" /\ scan' = 0 /\ ran' = FALSE
  /\ UNCHANGED <<line, late, lcd, ie, ime, cpuVars, waitVars, dmaVars, stores>>

\* trigger_dma: the V-blank's channels on its first line, the H-blank's on
\* every visible one.
Timed(c) == /\ ctl[c].on
            /\ \/ line = Visible /\ ctl[c].timing = "vblank"
               \/ line < Visible /\ ctl[c].timing = "hblank"
TriggerDma ==
  /\ stage = "dma" /\ ~active
  /\ LET due == {c \in Channels : c >= scan /\ Timed(c)}
     IN  \/ /\ due # {}
            /\ LET c == Min(due) IN Begin(c, ctl[c], count[c], dst[c]) /\ scan' = c + 1
            /\ UNCHANGED <<stage, pending, drained>>
         \/ /\ due = {}
            /\ stage' = "run" /\ scan' = 0
            /\ UNCHANGED dmaRun
  /\ UNCHANGED <<line, ran, late, irqVars, cpuVars, waitVars, dmaRegs, timers, stores>>

TakeIrq ==
  /\ stage = "run" /\ ~active
  /\ IrqPending /\ IrqReady
  /\ at' = "read" /\ back' = at /\ halted' = FALSE
  /\ UNCHANGED <<seen, loopVars, irqVars, waitVars, dmaVars, timers, stores>>

\* The cycles are spent, by instructions or by waiting in HALT.
EndLine ==
  /\ stage = "run" /\ ~active
  /\ ran \/ (halted /\ ~Wakes) \/ (InHandler /\ ~late)
  /\ line' = (line + 1) % Lines
  /\ stage' = "begin" /\ ran' = FALSE /\ late' = InHandler
  /\ UNCHANGED <<scan, irqVars, cpuVars, waitVars, dmaVars, timers, stores>>

\* The processor runs an instruction: no interrupt is due, and it is awake.
Runs ==
  /\ stage = "run" /\ ~active
  /\ ~(IrqPending /\ IrqReady)
  /\ halted => Wakes
  /\ ran' = (ran \/ ~InHandler)
  /\ UNCHANGED <<line, stage, scan, late>>

-----------------------------------------------------------------------------
(* The game                                                                *)

Stores ==
  /\ at = "main" /\ stores < MaxStores
  /\ stores' = stores + 1 /\ halted' = FALSE
  /\ UNCHANGED <<at, back, seen, waitVars>>

StoreIrq ==
  /\ Runs /\ Stores
  /\ \/ ie' \in Masks /\ UNCHANGED <<lcd, ime>>
     \/ lcd' \in Displays /\ UNCHANGED <<ie, ime>>
     \/ ime' \in BOOLEAN /\ UNCHANGED <<lcd, ie>>
  /\ UNCHANGED <<if_, dmaVars, timers>>

StoreAddress == \E c \in Channels :
  /\ Runs /\ Stores
  /\ \/ \E d \in {RAM} \cup Channels : dad' = [dad EXCEPT ![c] = d] /\ UNCHANGED cnt
     \/ \E n \in Counts : cnt' = [cnt EXCEPT ![c] = n] /\ UNCHANGED dad
  /\ UNCHANGED <<ctl, dst, count, dmaRun, irqVars, timers>>

StoreDma == \E c \in Channels, v \in Controls :
  /\ Runs /\ Stores
  /\ StoreControl(c, v)
  /\ IF Rises(c, v) /\ Immediate(v) THEN Begin(c, v, count'[c], dst'[c])
                                    ELSE UNCHANGED <<active, job>>
  /\ UNCHANGED <<pending, drained, irqVars, timers>>

\* A word stored to a timer: the reload value first, then the control, whose
\* enable bit, when it rises, loads the counter.
StoreTimer == \E t \in Timers, s \in Settings :
  /\ Runs /\ Stores
  /\ timers' = [timers EXCEPT ![t] =
       [on |-> s.on, irq |-> s.irq, cascade |-> s.cascade, period |-> s.period,
        reload |-> s.reload,
        counter |-> IF ~@.on /\ s.on THEN s.reload ELSE @.counter,
        sub     |-> IF ~@.on /\ s.on THEN 0 ELSE @.sub]]
  /\ UNCHANGED <<irqVars, dmaVars>>

\* Any instruction that changes none of this.
Computes ==
  /\ Runs /\ at = "main" /\ halted' = FALSE
  /\ UNCHANGED <<irqVars, at, back, seen, waitVars, dmaVars, timers, stores>>

\* A store to HALTCNT, or the BIOS call.
Halts ==
  /\ Runs /\ at = "main" /\ halted' = TRUE
  /\ UNCHANGED <<irqVars, at, back, seen, waitVars, dmaVars, timers, stores>>

-----------------------------------------------------------------------------
(* IntrWait                                                                *)

\* Old flags are discarded by the first pass only.
OldFlagsKept(w) == IF w.discard THEN biosIF \ w.want ELSE biosIF  \* mutant: by every pass
OldFlagsCount(w) == biosIF  \* mutant: never
Kept(w) == IF w.discard /\ ~inWait THEN biosIF \ w.want ELSE biosIF

\* One pass: it returns when a flag it wants is posted, and otherwise halts
\* and leaves the processor at the call, to run it again.
Pass(w) ==
  /\ ime' = TRUE
  /\ wait' = w
  /\ \/ /\ Kept(w) \cap w.want # {}
        /\ biosIF' = Kept(w) \ w.want
        /\ inWait' = FALSE /\ abandoned' = FALSE
        /\ at' = "main" /\ halted' = FALSE
     \/ /\ Kept(w) \cap w.want = {}
        /\ biosIF' = Kept(w)
        /\ inWait' = TRUE /\ UNCHANGED abandoned
        /\ at' = "swi" /\ halted' = TRUE
  /\ UNCHANGED <<lcd, ie, if_, back, seen, dmaVars, timers, stores>>

CallIntrWait(w) == Runs /\ at = "main" /\ Pass(w) /\ posted' = {}
AgainIntrWait   == Runs /\ at = "swi" /\ Pass(wait) /\ UNCHANGED posted

\* SoftReset clears BIOS_IF with the memory it is in, and starts the game
\* again; neither in_intr_wait nor an I/O register changes.  The game masks
\* interrupts before it, since its handler's address is cleared too.
SoftReset ==
  /\ Runs /\ at \in {"main", "return"} /\ ~ime
  /\ stores < MaxStores /\ stores' = stores + 1
  /\ at' = "main" /\ halted' = FALSE
  /\ biosIF' = {} /\ posted' = {}
  /\ abandoned' = inWait
  /\ UNCHANGED <<irqVars, back, seen, wait, inWait, dmaVars, timers>>

-----------------------------------------------------------------------------
(* The game's interrupt handler                                            *)

Serves(from, to) == Runs /\ at \in from /\ at' = to /\ halted' = FALSE
Elsewhere == UNCHANGED <<lcd, ie, back, dmaVars, timers, stores, wait, inWait, abandoned>>

ReadFlags ==
  /\ Serves({"read"}, "serve")
  /\ seen' = ie \cap if_
  /\ Elsewhere /\ UNCHANGED <<if_, ime, biosIF, posted>>
PostFlags ==
  /\ \/ Serves({"serve"}, "ack") \/ Serves({"post"}, "return")
  /\ biosIF' = biosIF \cup seen /\ posted' = posted \cup seen
  /\ Elsewhere /\ UNCHANGED <<if_, ime, seen>>
\* IF is cleared by writing ones.
AckFlags ==
  /\ \/ Serves({"serve"}, "post") \/ Serves({"ack"}, "return")
  /\ if_' = if_ \ seen
  /\ Elsewhere /\ UNCHANGED <<ime, seen, biosIF, posted>>
\* A handler that is about to reset masks interrupts first.
MaskAll ==
  /\ stores < MaxStores
  /\ Serves({"return"}, "return")
  /\ ime' = FALSE
  /\ Elsewhere /\ UNCHANGED <<if_, seen, biosIF, posted>>
Return ==
  /\ Serves({"return"}, back)
  /\ Elsewhere /\ UNCHANGED <<if_, ime, seen, biosIF, posted>>

-----------------------------------------------------------------------------
Off == [on |-> FALSE, irq |-> FALSE, timing |-> "now", repeat |-> FALSE,
        fixed |-> FALSE, reload |-> FALSE]

Init ==
  /\ line = 0 /\ stage = "begin" /\ scan = 0 /\ ran = FALSE /\ late = FALSE
  /\ lcd = {} /\ ie = {} /\ if_ = {} /\ ime = FALSE
  /\ at = "main" /\ back = "main" /\ seen = {} /\ halted = FALSE
  /\ wait = [want |-> {}, discard |-> FALSE] /\ inWait = FALSE /\ biosIF = {}
  /\ ctl = [c \in Channels |-> Off] /\ dad = [c \in Channels |-> RAM]
  /\ cnt = [c \in Channels |-> 0]
  /\ dst = dad /\ count = cnt
  /\ active = FALSE /\ pending = {} /\ drained = 0
  /\ job = [ch |-> Min(Channels), control |-> Off, left |-> 0, dst |-> RAM]
  /\ timers = [t \in Timers |-> [on |-> FALSE, irq |-> FALSE, cascade |-> FALSE,
                                 period |-> 1, reload |-> 0, counter |-> 0, sub |-> 0]]
  /\ posted = {} /\ abandoned = FALSE
  /\ stores = 0

Dma       == DmaWord \/ DmaEnd
FrameLoop == BeginLine \/ TriggerDma \/ TakeIrq \/ EndLine
Game      == StoreIrq \/ StoreAddress \/ StoreDma \/ StoreTimer \/ Computes \/ Halts
               \/ SoftReset \/ \E w \in Waits : CallIntrWait(w)
Handler   == ReadFlags \/ PostFlags \/ AckFlags \/ MaskAll \/ Return

Processor == Game \/ Handler \/ AgainIntrWait

Next == Dma \/ FrameLoop \/ Processor

Spec == Init /\ [][Next]_vars

\* Emulated time passes: transfers and scanlines go on, and the processor runs.
FairSpec == Spec /\ WF_vars(Dma \/ FrameLoop) /\ WF_vars(Processor)

-----------------------------------------------------------------------------
(* Properties                                                              *)

Timer == [on : BOOLEAN, irq : BOOLEAN, cascade : BOOLEAN, period : Nat \ {0},
          reload : 0..(TimerSize - 1), counter : 0..(TimerSize - 1), sub : Nat]
Places == {"main", "swi", "read", "serve", "post", "ack", "return"}

\* The type invariant of the console: counters keep to their width over any
\* number of overflows, nothing is queued when no transfer runs (run_dma_guarded)
\* and a drain stays within its bound.
TypeOK ==
  /\ line \in 0..(Lines - 1) /\ stage \in {"begin", "dma", "run"} /\ scan \in Nat
  /\ ran \in BOOLEAN /\ late \in BOOLEAN
  /\ lcd \subseteq Lcd /\ ie \in Masks \cup {{}} /\ if_ \subseteq Sources /\ ime \in BOOLEAN
  /\ at \in Places /\ back \in {"main", "swi"} /\ seen \subseteq Sources
  /\ halted \in BOOLEAN
  /\ inWait \in BOOLEAN /\ abandoned \in BOOLEAN
  /\ biosIF \subseteq Sources /\ posted \subseteq Sources
  /\ ctl \in [Channels -> Control]
  /\ dad \in [Channels -> {RAM} \cup Channels] /\ dst \in [Channels -> {RAM} \cup Channels]
  /\ cnt \in [Channels -> Nat] /\ count \in [Channels -> Nat]
  /\ active \in BOOLEAN /\ pending \subseteq Channels /\ drained \in 0..Drains
  /\ job \in [ch : Channels, control : Control, left : Nat, dst : {RAM} \cup Channels]
  /\ (~active => pending = {} /\ drained = 0)
  /\ timers \in [Timers -> Timer]

\* "Storing a 1 over a 1 does nothing at all" (memory.rs, io_write), "enabling a
\* channel from inside a running transfer just schedules it": an immediate
\* channel is begun or queued when its enable bit rises and at no other time,
\* and what is queued is begun, except at the bound of a drain.
EnableRises(c)  == ~ctl[c].on /\ ctl'[c].on
BeginsNow(c)    == /\ active' /\ job'.ch = c /\ Immediate(job'.control)
                   /\ ~active \/ job.left = 0
StartsOnEdges ==
  [][\A c \in Channels :
       /\ BeginsNow(c) => EnableRises(c) \/ c \in pending
       /\ c \in pending' \ pending => EnableRises(c)
       /\ EnableRises(c) /\ Immediate(ctl'[c]) => BeginsNow(c) \/ c \in pending'
       /\ c \in pending \ pending' => (active' /\ job'.ch = c) \/ drained = Drains]_vars

\* Channels that enable each other do not hold the console inside one store
\* (run_dma_guarded: "an unbounded drain would trade the stack overflow for a
\* hang"): every transfer, with all that it queues, comes to an end.
DrainEnds == active ~> ~active

\* step_timers runs once a scanline; it leaves the timers as a chip would that
\* counted every cycle, through dividers, reloads and cascades, and reports every
\* overflow: one more cycle in the batch is one more cycle of the chip.  Excepted
\* are timers whose prescaler the game lowered while they ran: the cycles banked
\* under the old one then count at the new one.
OneCycle(ts) ==
  LET CountsPrevious(t) == t > 0 /\ ts[t].cascade
      over[t \in Timers] ==
        /\ ts[t].on /\ ts[t].counter = TimerSize - 1
        /\ IF CountsPrevious(t) THEN over[t - 1] ELSE ts[t].sub = ts[t].period - 1
      Ticks(t) == IF CountsPrevious(t) THEN over[t - 1] ELSE ts[t].sub = ts[t].period - 1
      Counted(t) == [ts[t] EXCEPT
        !.sub = IF CountsPrevious(t) THEN @ ELSE (@ + 1) % ts[t].period,
        !.counter = IF ~Ticks(t) THEN @ ELSE IF over[t] THEN ts[t].reload ELSE @ + 1]
  IN  [timers |-> [t \in Timers |-> IF ts[t].on THEN Counted(t) ELSE ts[t]],
       over   |-> {t \in Timers : over[t]}]
Dividing == \A t \in Timers : timers[t].on => timers[t].sub < timers[t].period
BatchIsCycleByCycle == \A n \in 0..Max(Deltas) :
  Dividing =>
  LET batch == Stepped(n)
      more  == Stepped(n + 1)
      one   == OneCycle([t \in Timers |-> batch[t].timer])
  IN  \A t \in Timers :
        /\ n = 0 => batch[t] = [timer |-> timers[t], overflows |-> 0]
        /\ more[t].timer = one.timers[t]
        /\ more[t].overflows = batch[t].overflows + (IF t \in one.over THEN 1 ELSE 0)

\* An IntrWait that discards old flags returns on a flag its game's handler
\* posted after the call (hle.rs, intr_wait: "waits for a genuinely new one"),
\* however often it was run again, unless a soft reset cut another wait short.
Returns(w) == (CallIntrWait(w) \/ (w = wait /\ AgainIntrWait)) /\ at' = "main"
WaitTakesNew ==
  [][\A w \in Waits : Returns(w) /\ w.discard /\ ~abandoned
       => posted' \cap w.want # {}]_vars

\* "A wake cannot be lost" (hle.rs): the wait for the V-blank ends when the
\* display and IE give it.
Parked == at = "swi" \/ (InHandler /\ back = "swi")
WaitEnds == (Parked /\ VBlank \in wait.want \cap ie \cap lcd) ~> ~Parked

\* HALT ends on any interrupt that is enabled and requested, "whether or not
\* IME lets the CPU vector to the handler" (lib.rs, run_frame_polling).
HaltWakes == (halted /\ ie \cap if_ # {} /\ ~ran) ~> (~halted \/ ran)

\* All three: nothing the processor stops for keeps it for ever.
EveryStopEnds == DrainEnds /\ WaitEnds /\ HaltWakes

=============================================================================
