--------------------------- MODULE ConsoleProofs ---------------------------
(***************************************************************************)
(* What is proved of Console for every value of its constants: a wait for  *)
(* a new interrupt returns on a new one, transfers start on the edges of   *)
(* their enable bits, and timers stepped by the scanline count every       *)
(* cycle.                                                                  *)
(***************************************************************************)
EXTENDS Console, TLAPS

(* Waits                                                                   *)

\* A wait goes on only while the processor is at its call, or in a handler that
\* returns there, and all the BIOS holds for it was posted since the call; but
\* for one that a soft reset cut short.
WaitInv ==
  inWait => \/ abandoned
            \/ Parked /\ (wait.discard => biosIF \cap wait.want \subseteq posted)

LEMMA InitWait == Init => WaitInv
  BY DEF Init, WaitInv

\* Steps that leave the wait and the processor's place alone.
LEMMA ElsewhereWait ==
  ASSUME WaitInv, UNCHANGED <<at, back, waitVars>>
  PROVE  WaitInv'
  BY DEF WaitInv, Parked, InHandler, waitVars

\* One pass leaves nothing for itself, or is at its end.
LEMMA PassWait ==
  ASSUME NEW w, Pass(w)
  PROVE  WaitInv'
<1>1. CASE inWait' = FALSE
  BY <1>1 DEF WaitInv
<1>2. CASE Kept(w) \cap w.want = {} /\ biosIF' = Kept(w) /\ at' = "swi"
  <2>1. wait' = w
    BY DEF Pass
  <2>2. Parked' /\ biosIF' \cap wait'.want = {}
    BY <1>2, <2>1 DEF Parked
  <2>3. QED
    BY <2>2 DEF WaitInv
<1>3. QED
  BY <1>1, <1>2 DEF Pass

LEMMA TakeIrqWait ==
  ASSUME WaitInv, TakeIrq
  PROVE  WaitInv'
<1>1. UNCHANGED waitVars /\ at' = "read" /\ back' = at
  BY DEF TakeIrq
<1>2. Parked => Parked'
  BY <1>1 DEF TakeIrq, IrqReady, Parked, InHandler
<1>3. QED
  BY <1>1, <1>2 DEF WaitInv, waitVars

\* The handler posts to the wait what it posts to the BIOS.
LEMMA HandlerWait ==
  ASSUME WaitInv, Handler
  PROVE  WaitInv'
<1>1. UNCHANGED <<wait, inWait, abandoned, back>>
  BY DEF Handler, ReadFlags, PostFlags, AckFlags, MaskAll, Return, Elsewhere
<1>2. InHandler /\ (InHandler' \/ at' = back)
  BY DEF Handler, ReadFlags, PostFlags, AckFlags, MaskAll, Return, Serves, InHandler
<1>3. Parked => Parked'
  BY <1>1, <1>2 DEF Parked, InHandler
<1>4. \/ UNCHANGED <<biosIF, posted>>
      \/ biosIF' = biosIF \cup seen /\ posted' = posted \cup seen
  BY DEF Handler, ReadFlags, PostFlags, AckFlags, MaskAll, Return
<1>5. biosIF \cap wait.want \subseteq posted => biosIF' \cap wait.want \subseteq posted'
  BY <1>4
<1>6. QED
  BY <1>1, <1>3, <1>5 DEF WaitInv

LEMMA GameWait ==
  ASSUME WaitInv, Game
  PROVE  WaitInv'
<1>1. CASE StoreIrq \/ StoreAddress \/ StoreDma \/ StoreTimer
  <2>1. Stores
    BY <1>1 DEF StoreIrq, StoreAddress, StoreDma, StoreTimer
  <2>2. QED
    BY <2>1, ElsewhereWait DEF Stores
<1>2. CASE Computes \/ Halts
  BY <1>2, ElsewhereWait DEF Computes, Halts
<1>3. CASE SoftReset
  BY <1>3 DEF SoftReset, WaitInv
<1>4. ASSUME NEW w \in Waits, CallIntrWait(w) PROVE WaitInv'
  BY <1>4, PassWait DEF CallIntrWait
<1>5. QED
  BY <1>1, <1>2, <1>3, <1>4 DEF Game

LEMMA StepWait == WaitInv /\ [Next]_vars => WaitInv'
<1> SUFFICES ASSUME WaitInv, [Next]_vars
             PROVE  WaitInv'
  OBVIOUS
<1>1. CASE Dma
  BY <1>1, ElsewhereWait DEF Dma, DmaWord, DmaEnd, cpuVars
<1>2. CASE BeginLine \/ TriggerDma \/ EndLine
  BY <1>2, ElsewhereWait DEF BeginLine, TriggerDma, EndLine, cpuVars
<1>3. CASE TakeIrq
  BY <1>3, TakeIrqWait
<1>4. CASE Game
  BY <1>4, GameWait
<1>5. CASE Handler
  BY <1>5, HandlerWait
<1>6. CASE AgainIntrWait
  BY <1>6, PassWait DEF AgainIntrWait
<1>7. CASE UNCHANGED vars
  BY <1>7, ElsewhereWait DEF vars, cpuVars
<1>8. QED
  BY <1>1, <1>2, <1>3, <1>4, <1>5, <1>6, <1>7 DEF Next, FrameLoop, Processor

\* A pass that returns has a flag it wants, and kept it.
LEMMA ReturnTakes ==
  ASSUME WaitInv, NEW w, Returns(w), w.discard, ~abandoned
  PROVE  posted' \cap w.want # {}
<1>1. Pass(w) /\ at' = "main"
  BY DEF Returns, CallIntrWait, AgainIntrWait
<1>2. Kept(w) \cap w.want # {}
  BY <1>1 DEF Pass
<1>3. inWait /\ Kept(w) = biosIF
  BY <1>2 DEF Kept
<1>4. Parked /\ (wait.discard => biosIF \cap wait.want \subseteq posted)
  BY <1>3 DEF WaitInv
<1>5. at # "main"
  BY <1>4 DEF Parked, InHandler
<1>6. w = wait /\ posted' = posted
  BY <1>5 DEF Returns, CallIntrWait, AgainIntrWait
<1>7. QED
  BY <1>2, <1>3, <1>4, <1>6

\* Every IntrWait that discards old flags returns on one posted since it was
\* called, whatever interrupts, handlers and scanlines fall into it.
THEOREM WaitsTakeNew == Spec => WaitTakesNew
<1>1. WaitInv => \A w \in Waits : Returns(w) /\ w.discard /\ ~abandoned
                                    => posted' \cap w.want # {}
  BY ReturnTakes
<1>2. QED
  BY <1>1, InitWait, StepWait, PTL DEF Spec, WaitTakesNew

-----------------------------------------------------------------------------
(* Transfers                                                               *)

LEMMA MinIn ==
  ASSUME NEW S \in SUBSET Channels, S # {}
  PROVE  Min(S) \in S
<1>1. Channels \subseteq 0..3
  BY ConsoleAssumption
<1>2. \E x \in S : \A y \in S : x <= y
  <2>1. CASE 0 \in S
    BY <1>1, <2>1
  <2>2. CASE 0 \notin S /\ 1 \in S
    BY <1>1, <2>2
  <2>3. CASE 0 \notin S /\ 1 \notin S /\ 2 \in S
    BY <1>1, <2>3
  <2>4. CASE 0 \notin S /\ 1 \notin S /\ 2 \notin S
    <3>1. \A y \in S : y = 3
      BY <1>1, <2>4
    <3>2. QED
      BY <3>1
  <2>5. QED
    BY <2>1, <2>2, <2>3, <2>4
<1>3. QED
  BY <1>2 DEF Min

Place == {RAM} \cup Channels
Job == [ch : Channels, control : Control, left : Nat, dst : Place]

\* The types of the DMA's registers and of what runs; nothing is queued when
\* nothing runs, and a drain stays within its bound.
RegsTyped ==
  /\ ctl \in [Channels -> Control]
  /\ dad \in [Channels -> Place] /\ dst \in [Channels -> Place]
  /\ cnt \in [Channels -> Nat] /\ count \in [Channels -> Nat]
RunTyped ==
  /\ active \in BOOLEAN /\ job \in Job
  /\ pending \in SUBSET Channels /\ drained \in 0..Drains
  /\ ~active => pending = {} /\ drained = 0
DmaInv == RegsTyped /\ RunTyped

LEMMA ZeroIn == 0 \in 0..Drains
<1>1. Drains \in Nat
  BY ConsoleAssumption
<1>2. QED
  BY <1>1

LEMMA InitDma == Init => DmaInv
<1> SUFFICES ASSUME Init PROVE DmaInv
  OBVIOUS
<1>1. Off \in Control
  BY DEF Off, Control
<1>2. Min(Channels) \in Channels
  BY ConsoleAssumption, MinIn
<1>3. RegsTyped
  BY <1>1 DEF Init, RegsTyped, Place
<1>4. RunTyped
  <2>1. job \in Job
    BY <1>1, <1>2 DEF Init, Job, Place
  <2>2. active = FALSE /\ pending = {} /\ drained = 0
    BY DEF Init
  <2>3. 0 \in 0..Drains
    BY ZeroIn
  <2>4. QED
    BY <2>1, <2>2, <2>3 DEF RunTyped
<1>5. QED
  BY <1>3, <1>4 DEF DmaInv

LEMMA DisabledTyped ==
  ASSUME NEW v \in Control
  PROVE  Disabled(v) \in Control /\ ~Disabled(v).on
  BY DEF Disabled, Control

LEMMA WordsTyped ==
  ASSUME RegsTyped, NEW c \in Channels
  PROVE  Words(c) \in Nat
  BY ConsoleAssumption DEF RegsTyped, Words

LEMMA StoreControlTyped ==
  ASSUME RegsTyped, NEW c \in Channels, NEW v \in Controls, StoreControl(c, v)
  PROVE  RegsTyped'
<1>1. v \in Control
  BY ConsoleAssumption
<1>2. Words(c) \in Nat
  BY WordsTyped
<1>3. ctl' \in [Channels -> Control]
  BY <1>1 DEF RegsTyped, StoreControl
<1>4. dst' \in [Channels -> Place]
  BY DEF RegsTyped, StoreControl
<1>5. count' \in [Channels -> Nat]
  BY <1>2 DEF RegsTyped, StoreControl
<1>6. QED
  BY <1>3, <1>4, <1>5 DEF RegsTyped, StoreControl

LEMMA DmaWordTyped ==
  ASSUME DmaInv, DmaWord
  PROVE  DmaInv'
<1>1. job' \in Job
  <2>1. job.left - 1 \in Nat
    BY DEF DmaInv, RunTyped, Job, DmaWord
  <2>2. QED
    BY <2>1 DEF DmaInv, RunTyped, Job, DmaWord, Place
<1>2. active' /\ UNCHANGED <<active, drained>>
  BY DEF DmaWord
<1>3. CASE UNCHANGED <<dmaRegs, pending>>
  BY <1>1, <1>2, <1>3 DEF DmaInv, RegsTyped, RunTyped, dmaRegs
<1>4. ASSUME NEW v \in Controls, job.dst \in Channels, StoreControl(job.dst, v),
             pending' = IF Rises(job.dst, v) /\ Immediate(v)
                        THEN pending \cup {job.dst} ELSE pending
      PROVE  DmaInv'
  <2>1. RegsTyped'
    BY <1>4, StoreControlTyped DEF DmaInv
  <2>2. pending' \in SUBSET Channels
    BY <1>4 DEF DmaInv, RunTyped
  <2>3. QED
    BY <1>1, <1>2, <2>1, <2>2 DEF DmaInv, RunTyped
<1>5. QED
  BY <1>3, <1>4 DEF DmaWord

LEMMA DmaEndTyped ==
  ASSUME DmaInv, DmaEnd
  PROVE  DmaInv'
<1> DEFINE c == job.ch
<1>1. c \in Channels /\ job.control \in Control /\ job.dst \in Place
  BY DEF DmaInv, RunTyped, Job
<1>2. Disabled(job.control) \in Control
  BY <1>1, DisabledTyped
<1>3. Words(c) \in Nat
  BY <1>1, WordsTyped DEF DmaInv
<1>4. ctl' \in [Channels -> Control]
  <2>1. ctl' = ctl \/ ctl' = [ctl EXCEPT ![c] = Disabled(job.control)]
    BY DEF DmaEnd
  <2>2. QED
    BY <1>2, <2>1 DEF DmaInv, RegsTyped
<1>5. count' \in [Channels -> Nat]
  <2>1. count' = count \/ count' = [count EXCEPT ![c] = Words(c)]
    BY DEF DmaEnd
  <2>2. QED
    BY <1>3, <2>1 DEF DmaInv, RegsTyped
<1>6. dst' \in [Channels -> Place]
  <2>1. \E d \in Place : dst' = [dst EXCEPT ![c] = d]
    <3>1. dad[c] \in Place
      BY <1>1 DEF DmaInv, RegsTyped
    <3>2. \/ dst' = [dst EXCEPT ![c] = dad[c]]
          \/ dst' = [dst EXCEPT ![c] = job.dst]
      BY DEF DmaEnd
    <3>3. QED
      BY <1>1, <3>1, <3>2
  <2>2. QED
    BY <2>1 DEF DmaInv, RegsTyped
<1>7. RegsTyped'
  BY <1>4, <1>5, <1>6 DEF DmaEnd, DmaInv, RegsTyped
<1>8. RunTyped'
  <2>1. CASE MoreToDrain
    <3>1. Min(pending) \in pending
      BY <2>1, MinIn DEF MoreToDrain, DmaInv, RunTyped
    <3>2. Min(pending) \in Channels
      BY <3>1 DEF DmaInv, RunTyped
    <3>3. Begin(Min(pending), ctl'[Min(pending)], count'[Min(pending)], dst'[Min(pending)])
      BY <2>1 DEF DmaEnd
    <3>4. job' \in Job /\ active'
      BY <3>2, <3>3, <1>4, <1>5, <1>6 DEF Begin, Job
    <3>5. pending' \in SUBSET Channels
      BY <2>1 DEF DmaEnd, DmaInv, RunTyped
    <3>6. drained' \in 0..Drains
      BY <2>1, ConsoleAssumption DEF DmaEnd, MoreToDrain, OneMore, DmaInv, RunTyped
    <3>7. active' \in BOOLEAN
      BY <3>3 DEF Begin
    <3>8. QED
      BY <3>4, <3>5, <3>6, <3>7 DEF RunTyped
  <2>2. CASE ~MoreToDrain
    <3>1. active' = FALSE /\ pending' = {} /\ drained' = 0 /\ job' = job
      BY <2>2 DEF DmaEnd
    <3>2. QED
      BY <3>1, ZeroIn DEF DmaInv, RunTyped
  <2>3. QED
    BY <2>1, <2>2
<1>9. QED
  BY <1>7, <1>8 DEF DmaInv

LEMMA StoreDmaTyped ==
  ASSUME DmaInv, StoreDma
  PROVE  DmaInv'
<1> PICK c \in Channels, v \in Controls :
       /\ Runs /\ StoreControl(c, v)
       /\ IF Rises(c, v) /\ Immediate(v) THEN Begin(c, v, count'[c], dst'[c])
                                         ELSE UNCHANGED <<active, job>>
       /\ UNCHANGED <<pending, drained>>
  BY DEF StoreDma
<1>1. RegsTyped'
  BY StoreControlTyped DEF DmaInv
<1>2. ~active
  BY DEF Runs
<1>3. CASE Rises(c, v) /\ Immediate(v)
  <2>1. v \in Control
    BY ConsoleAssumption
  <2>2. active' = TRUE /\ job' \in Job
    BY <1>1, <1>3, <2>1 DEF Begin, Job, RegsTyped
  <2>3. QED
    BY <1>1, <2>2 DEF DmaInv, RunTyped
<1>4. CASE ~(Rises(c, v) /\ Immediate(v))
  BY <1>1, <1>4 DEF DmaInv, RunTyped
<1>5. QED
  BY <1>3, <1>4

\* A channel timed to the scanline is begun; it is not an immediate one.
LEMMA TriggerDue ==
  ASSUME DmaInv, TriggerDma, ~UNCHANGED dmaRun
  PROVE  \E c \in Channels : /\ Begin(c, ctl[c], count[c], dst[c])
                            /\ ~Immediate(ctl[c])
                            /\ UNCHANGED <<dmaRegs, pending, drained>>
<1> DEFINE due == {c \in Channels : c >= scan /\ Timed(c)}
<1>1. due # {}
  BY DEF TriggerDma
<1>2. Min(due) \in due
  BY <1>1, MinIn
<1>3. ~Immediate(ctl[Min(due)])
  BY <1>2 DEF Timed, Immediate
<1>4. Begin(Min(due), ctl[Min(due)], count[Min(due)], dst[Min(due)])
  BY DEF TriggerDma
<1>5. UNCHANGED <<dmaRegs, pending, drained>>
  BY DEF TriggerDma
<1>6. QED
  BY <1>2, <1>3, <1>4, <1>5

LEMMA TriggerDmaTyped ==
  ASSUME DmaInv, TriggerDma
  PROVE  DmaInv'
<1>1. CASE UNCHANGED dmaRun
  BY <1>1 DEF TriggerDma, DmaInv, RegsTyped, RunTyped, dmaRegs, dmaRun
<1>2. CASE ~UNCHANGED dmaRun
  <2>1. PICK c \in Channels : /\ Begin(c, ctl[c], count[c], dst[c])
                              /\ UNCHANGED <<dmaRegs, pending, drained>>
    BY <1>2, TriggerDue
  <2>2. active' = TRUE /\ job' \in Job
    BY <2>1 DEF Begin, Job, DmaInv, RegsTyped
  <2>3. QED
    BY <2>1, <2>2 DEF DmaInv, RegsTyped, RunTyped, dmaRegs
<1>3. QED
  BY <1>1, <1>2

\* A step that is not of the DMA: no transfer runs, and it starts none.
LEMMA OtherSteps ==
  ASSUME [Next]_vars, ~Dma, ~TriggerDma, ~StoreDma, ~UNCHANGED vars
  PROVE  ~active /\ UNCHANGED <<ctl, dst, count, dmaRun>>
<1>1. CASE BeginLine \/ TakeIrq \/ EndLine
  BY <1>1 DEF BeginLine, TakeIrq, EndLine, dmaVars, dmaRegs
<1>2. CASE StoreIrq \/ StoreAddress \/ StoreTimer
  BY <1>2 DEF StoreIrq, StoreAddress, StoreTimer, Runs, dmaVars, dmaRegs
<1>3. CASE Computes \/ Halts \/ SoftReset
  BY <1>3 DEF Computes, Halts, SoftReset, Runs, dmaVars, dmaRegs
<1>4. CASE AgainIntrWait \/ \E w \in Waits : CallIntrWait(w)
  BY <1>4 DEF AgainIntrWait, CallIntrWait, Pass, Runs, dmaVars, dmaRegs
<1>5. CASE Handler
  BY <1>5 DEF Handler, ReadFlags, PostFlags, AckFlags, MaskAll, Return,
              Elsewhere, Serves, Runs, dmaVars, dmaRegs
<1>6. QED
  BY <1>1, <1>2, <1>3, <1>4, <1>5 DEF Next, FrameLoop, Processor, Game

\* Of the registers the game may store to, addresses and counts.
LEMMA OtherTyped ==
  ASSUME DmaInv, [Next]_vars, ~Dma, ~TriggerDma, ~StoreDma
  PROVE  DmaInv'
<1>1. CASE StoreAddress
  <2>1. UNCHANGED <<ctl, dst, count, dmaRun>>
    BY <1>1 DEF StoreAddress
  <2>2. dad' \in [Channels -> Place] /\ cnt' \in [Channels -> Nat]
    BY <1>1, ConsoleAssumption DEF StoreAddress, DmaInv, RegsTyped, Place
  <2>3. QED
    BY <2>1, <2>2 DEF DmaInv, RegsTyped, RunTyped, dmaRun
<1>2. CASE ~StoreAddress
  <2>1. UNCHANGED dmaVars
    <3>1. CASE BeginLine \/ TakeIrq \/ EndLine
      BY <3>1 DEF BeginLine, TakeIrq, EndLine
    <3>2. CASE StoreIrq \/ StoreTimer
      BY <3>2 DEF StoreIrq, StoreTimer
    <3>3. CASE Computes \/ Halts \/ SoftReset
      BY <3>3 DEF Computes, Halts, SoftReset
    <3>4. CASE AgainIntrWait \/ \E w \in Waits : CallIntrWait(w)
      BY <3>4 DEF AgainIntrWait, CallIntrWait, Pass
    <3>5. CASE Handler
      BY <3>5 DEF Handler, ReadFlags, PostFlags, AckFlags, MaskAll, Return, Elsewhere
    <3>6. CASE UNCHANGED vars
      BY <3>6 DEF vars
    <3>7. QED
      BY <1>2, <3>1, <3>2, <3>3, <3>4, <3>5, <3>6 DEF Next, FrameLoop, Processor, Game
  <2>2. QED
    BY <2>1 DEF DmaInv, RegsTyped, RunTyped, dmaVars, dmaRegs, dmaRun
<1>3. QED
  BY <1>1, <1>2

LEMMA StepDma == DmaInv /\ [Next]_vars => DmaInv'
  BY DmaWordTyped, DmaEndTyped, TriggerDmaTyped, StoreDmaTyped, OtherTyped DEF Dma

-----------------------------------------------------------------------------
(* Edges                                                                   *)

\* What StartsOnEdges says of one channel.
StartsOn(c) ==
  /\ BeginsNow(c) => EnableRises(c) \/ c \in pending
  /\ c \in pending' \ pending => EnableRises(c)
  /\ EnableRises(c) /\ Immediate(ctl'[c]) => BeginsNow(c) \/ c \in pending'
  /\ c \in pending \ pending' => (active' /\ job'.ch = c) \/ drained = Drains

LEMMA DmaWordStarts ==
  ASSUME DmaInv, DmaWord, NEW c \in Channels
  PROVE  StartsOn(c)
<1>1. active /\ job.left # 0
  BY DEF DmaWord
<1>2. ~BeginsNow(c)
  BY <1>1 DEF BeginsNow
<1>3. CASE UNCHANGED <<dmaRegs, pending>>
  BY <1>2, <1>3 DEF StartsOn, EnableRises, dmaRegs
<1>4. ASSUME NEW v \in Controls, job.dst \in Channels, StoreControl(job.dst, v),
             pending' = IF Rises(job.dst, v) /\ Immediate(v)
                        THEN pending \cup {job.dst} ELSE pending
      PROVE  StartsOn(c)
  <2>1. ctl' = [ctl EXCEPT ![job.dst] = v] /\ ctl \in [Channels -> Control]
    BY <1>4 DEF StoreControl, DmaInv, RegsTyped
  <2>2. CASE c = job.dst
    <3>1. ctl'[c] = v
      BY <2>1, <2>2
    <3>2. EnableRises(c) <=> Rises(c, v)
      BY <3>1 DEF EnableRises, Rises
    <3>3. QED
      BY <1>2, <1>4, <2>2, <3>1, <3>2 DEF StartsOn
  <2>3. CASE c # job.dst
    <3>1. ctl'[c] = ctl[c] /\ (c \in pending' <=> c \in pending)
      BY <1>4, <2>1, <2>3
    <3>2. ~EnableRises(c)
      BY <3>1 DEF EnableRises
    <3>3. QED
      BY <1>2, <3>1, <3>2 DEF StartsOn
  <2>4. QED
    BY <2>2, <2>3
<1>5. QED
  BY <1>3, <1>4 DEF DmaWord

\* The end of a transfer clears the enable bit, or leaves it: it raises none.
LEMMA DmaEndStarts ==
  ASSUME DmaInv, DmaEnd, NEW c \in Channels
  PROVE  StartsOn(c)
<1>1. ~EnableRises(c)
  <2>1. job.ch \in Channels /\ job.control \in Control /\ ctl \in [Channels -> Control]
    BY DEF DmaInv, RunTyped, RegsTyped, Job
  <2>2. ctl' = ctl \/ ctl' = [ctl EXCEPT ![job.ch] = Disabled(job.control)]
    BY DEF DmaEnd
  <2>3. ctl'[c] = ctl[c] \/ ctl'[c] = Disabled(job.control)
    BY <2>1, <2>2
  <2>4. QED
    BY <2>1, <2>3, DisabledTyped DEF EnableRises
<1>2. CASE MoreToDrain
  <2>1. Min(pending) \in pending
    BY <1>2, MinIn DEF MoreToDrain, DmaInv, RunTyped
  <2>2. active' = TRUE /\ job'.ch = Min(pending)
    BY <1>2 DEF DmaEnd, Begin
  <2>3. pending' = pending \ {Min(pending)}
    BY <1>2 DEF DmaEnd
  <2>4. QED
    BY <1>1, <2>1, <2>2, <2>3 DEF StartsOn, BeginsNow
<1>3. CASE ~MoreToDrain
  <2>1. pending' = {} /\ ~active'
    BY <1>3 DEF DmaEnd
  <2>2. pending # {} => drained = Drains
    BY <1>3, ConsoleAssumption DEF MoreToDrain, DmaInv, RunTyped
  <2>3. QED
    BY <1>1, <2>1, <2>2 DEF StartsOn, BeginsNow
<1>4. QED
  BY <1>2, <1>3

LEMMA StoreDmaStarts ==
  ASSUME DmaInv, StoreDma, NEW c \in Channels
  PROVE  StartsOn(c)
<1> PICK d \in Channels, v \in Controls :
       /\ Runs /\ StoreControl(d, v)
       /\ IF Rises(d, v) /\ Immediate(v) THEN Begin(d, v, count'[d], dst'[d])
                                         ELSE UNCHANGED <<active, job>>
       /\ UNCHANGED <<pending, drained>>
  BY DEF StoreDma
<1>1. ctl' = [ctl EXCEPT ![d] = v] /\ ctl \in [Channels -> Control] /\ ~active
  BY DEF StoreControl, DmaInv, RegsTyped, Runs
<1>2. CASE Rises(d, v) /\ Immediate(v)
  <2>1. active' = TRUE /\ job'.ch = d /\ job'.control = v
    BY <1>2 DEF Begin
  <2>2. CASE c = d
    <3>1. ctl'[c] = v
      BY <1>1, <2>2
    <3>2. EnableRises(c) /\ BeginsNow(c)
      BY <1>1, <1>2, <2>1, <2>2, <3>1 DEF EnableRises, BeginsNow, Rises
    <3>3. QED
      BY <3>2 DEF StartsOn
  <2>3. CASE c # d
    <3>1. ctl'[c] = ctl[c]
      BY <1>1, <2>3
    <3>2. ~EnableRises(c) /\ ~BeginsNow(c)
      BY <2>1, <2>3, <3>1 DEF EnableRises, BeginsNow
    <3>3. QED
      BY <3>2 DEF StartsOn
  <2>4. QED
    BY <2>2, <2>3
<1>3. CASE ~(Rises(d, v) /\ Immediate(v))
  <2>1. UNCHANGED active
    BY <1>3
  <2>2. ~BeginsNow(c)
    BY <1>1, <2>1 DEF BeginsNow
  <2>3. ~(EnableRises(c) /\ Immediate(ctl'[c]))
    BY <1>1, <1>3 DEF EnableRises, Rises
  <2>4. QED
    BY <2>2, <2>3 DEF StartsOn
<1>4. QED
  BY <1>2, <1>3

LEMMA TriggerDmaStarts ==
  ASSUME DmaInv, TriggerDma, NEW c \in Channels
  PROVE  StartsOn(c)
<1>1. ~active /\ UNCHANGED ctl
  BY DEF TriggerDma, dmaRegs
<1>2. CASE UNCHANGED dmaRun
  BY <1>1, <1>2 DEF StartsOn, EnableRises, BeginsNow, dmaRun
<1>3. CASE ~UNCHANGED dmaRun
  <2>1. PICK d \in Channels : /\ Begin(d, ctl[d], count[d], dst[d])
                              /\ ~Immediate(ctl[d])
                              /\ UNCHANGED <<dmaRegs, pending, drained>>
    BY <1>3, TriggerDue
  <2>2. ~Immediate(job'.control)
    BY <2>1 DEF Begin
  <2>3. QED
    BY <1>1, <2>1, <2>2 DEF StartsOn, EnableRises, BeginsNow
<1>4. QED
  BY <1>2, <1>3

LEMMA StepStarts ==
  ASSUME DmaInv, [Next]_vars, ~UNCHANGED vars, NEW c \in Channels
  PROVE  StartsOn(c)
<1>1. CASE ~Dma /\ ~TriggerDma /\ ~StoreDma
  <2>1. ~active /\ UNCHANGED <<ctl, active, pending>>
    BY <1>1, OtherSteps DEF dmaRun
  <2>2. QED
    BY <2>1 DEF StartsOn, EnableRises, BeginsNow
<1>2. QED
  BY <1>1, DmaWordStarts, DmaEndStarts, TriggerDmaStarts, StoreDmaStarts DEF Dma

\* A transfer starts when an enable bit rises, at once or after the one that
\* stored it, and never otherwise; none is lost below the bound of a drain.
THEOREM TransfersStartOnEdges == Spec => StartsOnEdges
<1> DEFINE All == \A c \in Channels : StartsOn(c)
<1>1. DmaInv /\ [Next]_vars => [All]_vars
  BY StepStarts
<1>2. All <=> \A c \in Channels :
        /\ BeginsNow(c) => EnableRises(c) \/ c \in pending
        /\ c \in pending' \ pending => EnableRises(c)
        /\ EnableRises(c) /\ Immediate(ctl'[c]) => BeginsNow(c) \/ c \in pending'
        /\ c \in pending \ pending' => (active' /\ job'.ch = c) \/ drained = Drains
  BY DEF StartsOn
<1>3. QED
  BY <1>1, <1>2, InitDma, StepDma, PTL DEF Spec, StartsOnEdges

-----------------------------------------------------------------------------
(* Timers                                                                  *)

\* A count of one more: the remainder goes round, and the quotient with it.
LEMMA OneMoreCounted ==
  ASSUME NEW e \in Nat, NEW p \in Nat \ {0}
  PROVE  /\ e \div p \in Nat /\ e % p \in 0..(p - 1)
         /\ (e + 1) % p = IF e % p = p - 1 THEN 0 ELSE (e % p) + 1
         /\ (e + 1) \div p = (e \div p) + (IF e % p = p - 1 THEN 1 ELSE 0)
<1> DEFINE q == e \div p  m == e % p
<1>1. q \in Nat /\ m \in 0..(p - 1) /\ e = p * q + m
  OBVIOUS
<1>2. ASSUME NEW k \in Nat, NEW j \in 0..(p - 1), e + 1 = p * k + j
      PROVE  (e + 1) \div p = k /\ (e + 1) % p = j
  <2> DEFINE k2 == (e + 1) \div p  j2 == (e + 1) % p
  <2>1. k2 \in Nat /\ j2 \in 0..(p - 1) /\ e + 1 = p * k2 + j2
    OBVIOUS
  <2> HIDE DEF k2, j2
  <2>2. ~(k2 >= k + 1)
    <3>1. SUFFICES ASSUME k2 >= k + 1 PROVE FALSE
      OBVIOUS
    <3>2. PICK d \in Nat : k2 = k + 1 + d
      BY <2>1, <3>1
    <3>3. p * k2 = p * k + p + p * d /\ p * d >= 0
      BY <3>2
    <3>4. QED
      BY <1>2, <2>1, <3>3
  <2>3. ~(k >= k2 + 1)
    <3>1. SUFFICES ASSUME k >= k2 + 1 PROVE FALSE
      OBVIOUS
    <3>2. PICK d \in Nat : k = k2 + 1 + d
      BY <2>1, <3>1
    <3>3. p * k = p * k2 + p + p * d /\ p * d >= 0
      BY <2>1, <3>2
    <3>4. QED
      BY <1>2, <2>1, <3>3
  <2>4. k2 = k
    BY <2>1, <2>2, <2>3
  <2>5. j2 = j
    BY <1>2, <2>1, <2>4
  <2>6. QED
    BY <2>4, <2>5 DEF k2, j2
<1> HIDE DEF q, m
<1>3. CASE m = p - 1
  <2>1. e + 1 = p * (q + 1) + 0 /\ q + 1 \in Nat /\ 0 \in 0..(p - 1)
    BY <1>1, <1>3
  <2>2. (e + 1) \div p = q + 1 /\ (e + 1) % p = 0
    BY <2>1, <1>2
  <2>3. QED
    BY <1>1, <1>3, <2>2 DEF q, m
<1>4. CASE m # p - 1
  <2>1. e + 1 = p * q + (m + 1) /\ m + 1 \in 0..(p - 1)
    BY <1>1, <1>4
  <2>2. (e + 1) \div p = q /\ (e + 1) % p = m + 1
    BY <1>1, <2>1, <1>2
  <2>3. QED
    BY <1>1, <1>4, <2>2 DEF q, m
<1>5. QED
  BY <1>3, <1>4

\* One tick more in a batch is one tick more of the counter.
LEMMA AddedOneMore ==
  ASSUME NEW counter \in 0..(TimerSize - 1), NEW reload \in 0..(TimerSize - 1), NEW ticks \in Nat
  PROVE  LET a == Added(counter, reload, ticks)
             b == Added(counter, reload, ticks + 1)
         IN  /\ a.counter \in 0..(TimerSize - 1) /\ a.overflows \in Nat
             /\ b.counter = IF a.counter = TimerSize - 1 THEN reload ELSE a.counter + 1
             /\ b.overflows = a.overflows + (IF a.counter = TimerSize - 1 THEN 1 ELSE 0)
<1> DEFINE val == counter + ticks  p == TimerSize - reload  e == val - TimerSize
<1>1. TimerSize \in Nat \ {0} /\ val \in Nat /\ p \in Nat \ {0} /\ e \in Int /\ reload \in Nat
  BY ConsoleAssumption
<1>0. reload + p = TimerSize
  BY <1>1
<1>2. Added(counter, reload, ticks) =
        IF val < TimerSize THEN [counter |-> val, overflows |-> 0]
        ELSE [counter |-> reload + (e % p), overflows |-> 1 + (e \div p)]
  BY DEF Added
<1>3. Added(counter, reload, ticks + 1) =
        IF val + 1 < TimerSize THEN [counter |-> val + 1, overflows |-> 0]
        ELSE [counter |-> reload + ((e + 1) % p), overflows |-> 1 + ((e + 1) \div p)]
  <2> DEFINE w == counter + (ticks + 1)  f == w - TimerSize
  <2>1. Added(counter, reload, ticks + 1) =
          IF w < TimerSize THEN [counter |-> w, overflows |-> 0]
          ELSE [counter |-> reload + (f % p), overflows |-> 1 + (f \div p)]
    BY DEF Added
  <2>2. w = val + 1 /\ f = e + 1
    <3>1. counter \in Int /\ ticks \in Int /\ TimerSize \in Int
      BY <1>1
    <3>2. QED
      BY <3>1
  <2> HIDE DEF w, f, val, e, p
  <2>3. QED
    BY <2>1, <2>2
<1> HIDE DEF p
<1>4. CASE val + 1 < TimerSize
  <2>1. val < TimerSize /\ val # TimerSize - 1 /\ val \in 0..(TimerSize - 1)
    BY <1>1, <1>4
  <2> HIDE DEF val, e
  <2>2. /\ Added(counter, reload, ticks) = [counter |-> val, overflows |-> 0]
        /\ Added(counter, reload, ticks + 1) = [counter |-> val + 1, overflows |-> 0]
    BY <1>2, <1>3, <1>4, <2>1
  <2>3. QED
    BY <2>1, <2>2
<1>5. CASE val = TimerSize - 1
  <2>1. val < TimerSize /\ ~(val + 1 < TimerSize) /\ e + 1 = 0
    BY <1>1, <1>5
  <2>2. 0 % p = 0 /\ 0 \div p = 0
    BY <1>1
  <2>3. QED
    BY <1>1, <1>2, <1>3, <1>5, <2>1, <2>2
<1>6. CASE val >= TimerSize
  <2>1. e \in Nat /\ ~(val < TimerSize) /\ ~(val + 1 < TimerSize)
    BY <1>1, <1>6
  <2> HIDE DEF e, val
  <2>2. /\ e \div p \in Nat /\ e % p \in 0..(p - 1)
        /\ (e + 1) % p = IF e % p = p - 1 THEN 0 ELSE (e % p) + 1
        /\ (e + 1) \div p = (e \div p) + (IF e % p = p - 1 THEN 1 ELSE 0)
    BY <1>1, <2>1, OneMoreCounted
  <2> DEFINE d == e \div p  r == e % p
  <2>3. reload + r = TimerSize - 1 <=> r = p - 1
    BY <1>0, <1>1, <2>2
  <2>4. reload + r \in 0..(TimerSize - 1) /\ 1 + d \in Nat
    BY <1>0, <1>1, <2>2
  <2>5. /\ Added(counter, reload, ticks) = [counter |-> reload + r, overflows |-> 1 + d]
        /\ Added(counter, reload, ticks + 1) = [counter |-> reload + ((e + 1) % p), overflows |-> 1 + ((e + 1) \div p)]
    BY <1>2, <1>3, <2>1
  <2> HIDE DEF d, r
  <2>6. CASE r = p - 1
    <3>1. (e + 1) % p = 0 /\ (e + 1) \div p = d + 1
      BY <2>2, <2>6 DEF d, r
    <3>2. d \in Nat
      BY <2>2 DEF d
    <3>3. QED
      BY <1>1, <2>3, <2>4, <2>5, <2>6, <3>1, <3>2
  <2>7. CASE r # p - 1
    <3>1. (e + 1) % p = r + 1 /\ (e + 1) \div p = d
      BY <2>2, <2>7 DEF d, r
    <3>2. d \in Nat /\ r \in Nat
      BY <1>1, <2>2 DEF d, r
    <3>3. QED
      BY <1>1, <2>3, <2>4, <2>5, <2>7, <3>1, <3>2
  <2>8. QED
    BY <2>6, <2>7
<1>7. QED
  BY <1>1, <1>4, <1>5, <1>6

\* The timers are 0, 1, .. of at most four: each follows the one before it.
LEMMA TimersFollow ==
  /\ Timers \subseteq 0..3
  /\ \A t \in Timers : t = 0 \/ (t \in 1..3 /\ t - 1 \in Timers)
  BY ConsoleAssumption

\* What step_timers makes of timer t, from what it made of the one before.
StepOf(f, cycles, t) ==
  LET r == timers[t]
      ticks == IF CountsUp(t) THEN f[t - 1].overflows
               ELSE (r.sub + cycles) \div r.period
      sub   == IF CountsUp(t) THEN r.sub ELSE (r.sub + cycles) % r.period
      new   == Added(r.counter, r.reload, ticks)
  IN  IF r.on THEN [timer |-> [r EXCEPT !.counter = new.counter, !.sub = sub],
                    overflows |-> new.overflows]
      ELSE [timer |-> r, overflows |-> 0]

LEMMA StepFollows ==
  ASSUME NEW f, NEW g, NEW cycles, NEW t \in Timers,
         t # 0 => f[t - 1] = g[t - 1]
  PROVE  StepOf(f, cycles, t) = StepOf(g, cycles, t)
<1>1. CASE CountsUp(t)
  <2>1. f[t - 1] = g[t - 1]
    BY <1>1, TimersFollow DEF CountsUp
  <2>2. QED
    BY <2>1 DEF StepOf
<1>2. CASE ~CountsUp(t)
  BY <1>2 DEF StepOf
<1>3. QED
  BY <1>1, <1>2

\* Four passes over the timers reach what the recursion describes.
LEMMA SteppedIs ==
  ASSUME NEW cycles
  PROVE  Stepped(cycles) = [t \in Timers |-> StepOf(Stepped(cycles), cycles, t)]
<1> DEFINE Round(f) == [t \in Timers |-> StepOf(f, cycles, t)]
           Solves(f) == f = Round(f)
<1>1. \E f : Solves(f)
  <2> DEFINE f1 == Round(<<>>)  f2 == Round(f1)  f3 == Round(f2)  f4 == Round(f3)  f5 == Round(f4)
  <2>0. \A f, g : \A t \in Timers : (t # 0 => f[t - 1] = g[t - 1]) => Round(f)[t] = Round(g)[t]
    BY StepFollows
  <2>a. /\ 0 \in Timers => f1[0] = f2[0]
        /\ \A t \in Timers : (t # 0 => f1[t - 1] = f2[t - 1]) => f2[t] = f3[t]
        /\ \A t \in Timers : (t # 0 => f2[t - 1] = f3[t - 1]) => f3[t] = f4[t]
        /\ \A t \in Timers : (t # 0 => f3[t - 1] = f4[t - 1]) => f4[t] = f5[t]
    <3> HIDE DEF Round
    <3>1. QED
      BY <2>0
  <2>b. /\ 1 \in Timers => 0 \in Timers /\ 1 - 1 = 0
        /\ 2 \in Timers => 1 \in Timers /\ 2 - 1 = 1
        /\ 3 \in Timers => 2 \in Timers /\ 3 - 1 = 2
    BY TimersFollow
  <2>c. \A t \in Timers : t = 0 \/ t = 1 \/ t = 2 \/ t = 3
    BY TimersFollow
  <2>5. \A t \in Timers : f4[t] = f5[t]
    <3> HIDE DEF f1, f2, f3, f4, f5
    <3>1. 0 \in Timers => f1[0] = f2[0] /\ f2[0] = f3[0] /\ f3[0] = f4[0] /\ f4[0] = f5[0]
      BY <2>a
    <3>2. 1 \in Timers => f2[1] = f3[1] /\ f3[1] = f4[1] /\ f4[1] = f5[1]
      BY <2>a, <2>b, <3>1
    <3>3. 2 \in Timers => f3[2] = f4[2] /\ f4[2] = f5[2]
      BY <2>a, <2>b, <3>2
    <3>4. 3 \in Timers => f4[3] = f5[3]
      BY <2>a, <2>b, <3>3
    <3>5. QED
      BY <2>c, <3>1, <3>2, <3>3, <3>4
  <2>6. f4 = [t \in Timers |-> f4[t]] /\ f5 = [t \in Timers |-> f5[t]]
    OBVIOUS
  <2>7. f4 = f5
    <3> HIDE DEF f4, f5
    <3>1. QED
      BY <2>5, <2>6
  <2>8. Solves(f4)
    BY <2>7
  <2>9. QED
    BY <2>8
<1>2. Stepped(cycles) = CHOOSE f : Solves(f)
  BY DEF Stepped, StepOf
<1>3. Solves(Stepped(cycles))
  <2> HIDE DEF Solves
  <2>1. QED
    BY <1>1, <1>2
<1>4. QED
  BY <1>3

\* What holds of a timer whenever it does of the one before it holds of them all.
LEMMA OneByOne ==
  ASSUME NEW S, \A t \in Timers : (t # 0 => t - 1 \in S) => t \in S
  PROVE  Timers \subseteq S
<1>1. /\ 1 \in Timers => 0 \in Timers /\ 1 - 1 = 0
      /\ 2 \in Timers => 1 \in Timers /\ 2 - 1 = 1
      /\ 3 \in Timers => 2 \in Timers /\ 3 - 1 = 2
  BY TimersFollow
<1>2. \A t \in Timers : t = 0 \/ t = 1 \/ t = 2 \/ t = 3
  BY TimersFollow
<1>3. (0 \in Timers => 0 \in S) /\ (1 \in Timers => 1 \in S)
  BY <1>1
<1>4. (2 \in Timers => 2 \in S) /\ (3 \in Timers => 3 \in S)
  BY <1>1, <1>3
<1>5. QED
  BY <1>2, <1>3, <1>4

\* The chip's cycle: does timer t overflow, given those before it.
Follows(ts, t) == t > 0 /\ ts[t].cascade
TickOf(ts, over, t) == IF Follows(ts, t) THEN over[t - 1] ELSE ts[t].sub = ts[t].period - 1
OverOf(ts, over, t) ==
  /\ ts[t].on /\ ts[t].counter = TimerSize - 1
  /\ TickOf(ts, over, t)
CountedOf(ts, over, t) == [ts[t] EXCEPT
  !.sub = IF Follows(ts, t) THEN @ ELSE (@ + 1) % ts[t].period,
  !.counter = IF ~TickOf(ts, over, t) THEN @ ELSE IF over[t] THEN ts[t].reload ELSE @ + 1]
Overflows(ts, over) == over = [t \in Timers |-> OverOf(ts, over, t)]

LEMMA OverFollows ==
  ASSUME NEW ts, NEW f, NEW g, NEW t \in Timers,
         t # 0 => f[t - 1] = g[t - 1]
  PROVE  OverOf(ts, f, t) = OverOf(ts, g, t)
<1>1. CASE Follows(ts, t)
  <2>1. f[t - 1] = g[t - 1]
    BY <1>1, TimersFollow DEF Follows
  <2>2. QED
    BY <2>1 DEF OverOf, TickOf
<1>2. CASE ~Follows(ts, t)
  BY <1>2 DEF OverOf, TickOf
<1>3. QED
  BY <1>1, <1>2

LEMMA CycleIs ==
  ASSUME NEW ts
  PROVE  \E over : /\ Overflows(ts, over)
                   /\ OneCycle(ts) =
                        [timers |-> [t \in Timers |-> IF ts[t].on THEN CountedOf(ts, over, t) ELSE ts[t]],
                         over   |-> {t \in Timers : over[t]}]
<1> DEFINE Round(f) == [t \in Timers |-> OverOf(ts, f, t)]
           Solves(f) == f = Round(f)
           o == CHOOSE f : Solves(f)
<1>1. \E f : Solves(f)
  <2> DEFINE f1 == Round(<<>>)  f2 == Round(f1)  f3 == Round(f2)  f4 == Round(f3)  f5 == Round(f4)
  <2>0. \A f, g : \A t \in Timers : (t # 0 => f[t - 1] = g[t - 1]) => Round(f)[t] = Round(g)[t]
    BY OverFollows
  <2>a. /\ 0 \in Timers => f1[0] = f2[0]
        /\ \A t \in Timers : (t # 0 => f1[t - 1] = f2[t - 1]) => f2[t] = f3[t]
        /\ \A t \in Timers : (t # 0 => f2[t - 1] = f3[t - 1]) => f3[t] = f4[t]
        /\ \A t \in Timers : (t # 0 => f3[t - 1] = f4[t - 1]) => f4[t] = f5[t]
    <3> HIDE DEF Round
    <3>1. QED
      BY <2>0
  <2>b. /\ 1 \in Timers => 0 \in Timers /\ 1 - 1 = 0
        /\ 2 \in Timers => 1 \in Timers /\ 2 - 1 = 1
        /\ 3 \in Timers => 2 \in Timers /\ 3 - 1 = 2
    BY TimersFollow
  <2>c. \A t \in Timers : t = 0 \/ t = 1 \/ t = 2 \/ t = 3
    BY TimersFollow
  <2>5. \A t \in Timers : f4[t] = f5[t]
    <3> HIDE DEF f1, f2, f3, f4, f5
    <3>1. 0 \in Timers => f1[0] = f2[0] /\ f2[0] = f3[0] /\ f3[0] = f4[0] /\ f4[0] = f5[0]
      BY <2>a
    <3>2. 1 \in Timers => f2[1] = f3[1] /\ f3[1] = f4[1] /\ f4[1] = f5[1]
      BY <2>a, <2>b, <3>1
    <3>3. 2 \in Timers => f3[2] = f4[2] /\ f4[2] = f5[2]
      BY <2>a, <2>b, <3>2
    <3>4. 3 \in Timers => f4[3] = f5[3]
      BY <2>a, <2>b, <3>3
    <3>5. QED
      BY <2>c, <3>1, <3>2, <3>3, <3>4
  <2>6. f4 = [t \in Timers |-> f4[t]] /\ f5 = [t \in Timers |-> f5[t]]
    OBVIOUS
  <2>7. f4 = f5
    <3> HIDE DEF f4, f5
    <3>1. QED
      BY <2>5, <2>6
  <2>8. Solves(f4)
    BY <2>7
  <2>9. QED
    BY <2>8
<1>2. OneCycle(ts) =
        [timers |-> [t \in Timers |-> IF ts[t].on THEN CountedOf(ts, o, t) ELSE ts[t]],
         over   |-> {t \in Timers : o[t]}]
  BY DEF OneCycle, CountedOf, OverOf, TickOf, Follows
<1>3. Overflows(ts, o)
  <2>1. Solves(o)
    <3> HIDE DEF Solves
    <3>1. QED
      BY <1>1
  <2>2. QED
    BY <2>1 DEF Overflows
<1> HIDE DEF o
<1>4. QED
  BY <1>2, <1>3

TimersTyped == timers \in [Timers -> Timer]

\* A batch leaves counters of their width, and counts its overflows.
LEMMA StepOfTyped ==
  ASSUME TimersTyped, NEW n \in Nat, NEW f, NEW t \in Timers,
         t # 0 => f[t - 1].overflows \in Nat
  PROVE  StepOf(f, n, t).timer \in Timer /\ StepOf(f, n, t).overflows \in Nat
<1> DEFINE r == timers[t]
           ticks == IF CountsUp(t) THEN f[t - 1].overflows ELSE (r.sub + n) \div r.period
           sub == IF CountsUp(t) THEN r.sub ELSE (r.sub + n) % r.period
           new == Added(r.counter, r.reload, ticks)
<1>1. /\ r \in Timer
      /\ r.period \in Nat \ {0} /\ r.sub \in Nat
      /\ r.counter \in 0..(TimerSize - 1) /\ r.reload \in 0..(TimerSize - 1)
  BY DEF TimersTyped, Timer
<1>2. StepOf(f, n, t) =
        IF r.on THEN [timer |-> [r EXCEPT !.counter = new.counter, !.sub = sub],
                      overflows |-> new.overflows]
        ELSE [timer |-> r, overflows |-> 0]
  BY DEF StepOf
<1>3. ticks \in Nat
  <2>1. CountsUp(t) => t # 0
    BY TimersFollow DEF CountsUp
  <2> HIDE DEF r
  <2>2. (r.sub + n) \div r.period \in Nat
    BY <1>1
  <2>3. QED
    BY <2>1, <2>2
<1>4. sub \in Nat
  <2> HIDE DEF r
  <2>1. (r.sub + n) % r.period \in Nat
    BY <1>1
  <2>2. QED
    BY <1>1, <2>1
<1> HIDE DEF r, ticks, sub
<1>5. new.counter \in 0..(TimerSize - 1) /\ new.overflows \in Nat
  BY <1>1, <1>3, AddedOneMore
<1> HIDE DEF new
<1>6. [r EXCEPT !.counter = new.counter, !.sub = sub] \in Timer
  BY <1>1, <1>4, <1>5 DEF Timer
<1>7. QED
  BY <1>1, <1>2, <1>5, <1>6

LEMMA SteppedAt ==
  ASSUME NEW n, NEW t \in Timers
  PROVE  Stepped(n)[t] = StepOf(Stepped(n), n, t)
<1> DEFINE b == Stepped(n)
<1>1. b = [u \in Timers |-> StepOf(b, n, u)]
  BY SteppedIs
<1> HIDE DEF b
<1>2. b[t] = StepOf(b, n, t)
  BY <1>1
<1>3. QED
  BY <1>2 DEF b

LEMMA SteppedTyped ==
  ASSUME TimersTyped, NEW n \in Nat, NEW t \in Timers
  PROVE  Stepped(n)[t].timer \in Timer /\ Stepped(n)[t].overflows \in Nat
<1> DEFINE S == {u \in Timers : Stepped(n)[u].overflows \in Nat}
<1>1. ASSUME NEW u \in Timers, u # 0 => u - 1 \in S PROVE u \in S
  <2>1. u # 0 => Stepped(n)[u - 1].overflows \in Nat
    BY <1>1
  <2>2. StepOf(Stepped(n), n, u).overflows \in Nat
    BY <2>1, StepOfTyped
  <2>3. QED
    BY <2>2, SteppedAt
<1>2. Timers \subseteq S
  <2> HIDE DEF S
  <2>1. QED
    BY <1>1, OneByOne
<1>3. t # 0 => Stepped(n)[t - 1].overflows \in Nat
  BY <1>2, TimersFollow
<1>4. QED
  BY <1>3, StepOfTyped, SteppedAt

\* One more cycle in the batch is one more of the chip, for a timer if for the
\* one that it may count the overflows of.
LEMMA OneMoreAt ==
  ASSUME TimersTyped, NEW n \in Nat, NEW t \in Timers, NEW over, NEW ts,
         ts = [u \in Timers |-> Stepped(n)[u].timer], Overflows(ts, over),
         t # 0 => Stepped(n + 1)[t - 1].overflows =
                    Stepped(n)[t - 1].overflows + (IF over[t - 1] THEN 1 ELSE 0)
  PROVE  /\ Stepped(n + 1)[t].timer = IF ts[t].on THEN CountedOf(ts, over, t) ELSE ts[t]
         /\ Stepped(n + 1)[t].overflows = Stepped(n)[t].overflows + (IF over[t] THEN 1 ELSE 0)
<1> DEFINE r == timers[t]
           b == Stepped(n)
           m == Stepped(n + 1)
           k == IF CountsUp(t) THEN b[t - 1].overflows ELSE (r.sub + n) \div r.period
           l == IF CountsUp(t) THEN m[t - 1].overflows ELSE (r.sub + (n + 1)) \div r.period
           sub == IF CountsUp(t) THEN r.sub ELSE (r.sub + n) % r.period
           sup == IF CountsUp(t) THEN r.sub ELSE (r.sub + (n + 1)) % r.period
           x == Added(r.counter, r.reload, k)
           y == Added(r.counter, r.reload, l)
           tick == TickOf(ts, over, t)
<1>1. /\ r \in Timer /\ r.on \in BOOLEAN
      /\ r.period \in Nat \ {0} /\ r.sub \in Nat
      /\ r.counter \in 0..(TimerSize - 1) /\ r.reload \in 0..(TimerSize - 1)
  BY DEF TimersTyped, Timer
<1>2. /\ b[t] = IF r.on THEN [timer |-> [r EXCEPT !.counter = x.counter, !.sub = sub],
                              overflows |-> x.overflows]
                ELSE [timer |-> r, overflows |-> 0]
      /\ m[t] = IF r.on THEN [timer |-> [r EXCEPT !.counter = y.counter, !.sub = sup],
                              overflows |-> y.overflows]
                ELSE [timer |-> r, overflows |-> 0]
  <2>1. b[t] = StepOf(b, n, t) /\ m[t] = StepOf(m, n + 1, t)
    BY SteppedAt
  <2> HIDE DEF b, m
  <2>2. QED
    BY <2>1 DEF StepOf
<1>3. ts[t] = b[t].timer /\ over[t] = OverOf(ts, over, t)
  BY DEF Overflows
<1>4. t # 0 => b[t - 1].overflows \in Nat /\ m[t - 1].overflows = b[t - 1].overflows + (IF over[t - 1] THEN 1 ELSE 0)
  BY TimersFollow, SteppedTyped
<1> HIDE DEF b, m, r
<1>5. CASE ~r.on
  <2>1. ts[t] = r /\ b[t].overflows = 0 /\ m[t].timer = r /\ m[t].overflows = 0
    BY <1>2, <1>3, <1>5
  <2>2. ~over[t]
    BY <1>3, <1>5, <2>1 DEF OverOf
  <2>3. QED
    BY <1>5, <2>1, <2>2 DEF b, m
<1>6. CASE r.on
  <2>1. /\ ts[t] = [r EXCEPT !.counter = x.counter, !.sub = sub] /\ b[t].overflows = x.overflows
        /\ m[t].timer = [r EXCEPT !.counter = y.counter, !.sub = sup] /\ m[t].overflows = y.overflows
    BY <1>2, <1>3, <1>6
  <2> HIDE DEF x, y, sub, sup
  <2>2. /\ ts[t].on /\ ts[t].cascade = r.cascade /\ ts[t].period = r.period
        /\ ts[t].reload = r.reload /\ ts[t].counter = x.counter /\ ts[t].sub = sub
    BY <1>1, <1>6, <2>1 DEF Timer
  <2>3. Follows(ts, t) <=> CountsUp(t)
    BY <2>2 DEF Follows, CountsUp, r
  <2>4. k \in Nat /\ l = k + (IF tick THEN 1 ELSE 0)
        /\ sup = IF CountsUp(t) THEN sub ELSE (sub + 1) % r.period
    <3>1. CASE CountsUp(t)
      <4>1. t # 0
        BY <3>1, TimersFollow DEF CountsUp
      <4>2. tick <=> over[t - 1]
        BY <2>3, <3>1 DEF TickOf
      <4>3. QED
        BY <1>4, <3>1, <4>1, <4>2 DEF sub, sup
    <3>2. CASE ~CountsUp(t)
      <4> DEFINE e == r.sub + n  p == r.period
      <4>1. e \in Nat /\ p \in Nat \ {0} /\ r.sub + (n + 1) = e + 1
        BY <1>1
      <4>2. tick <=> sub = p - 1
        BY <2>2, <2>3, <3>2 DEF TickOf
      <4>3. k = e \div p /\ l = (r.sub + (n + 1)) \div p /\ sub = e % p /\ sup = (r.sub + (n + 1)) % p
        BY <3>2 DEF sub, sup
      <4> HIDE DEF e, p, k, l
      <4>4. /\ e \div p \in Nat /\ e % p \in 0..(p - 1)
            /\ (e + 1) % p = IF e % p = p - 1 THEN 0 ELSE (e % p) + 1
            /\ (e + 1) \div p = (e \div p) + (IF e % p = p - 1 THEN 1 ELSE 0)
        BY <4>1, OneMoreCounted
      <4>5. sup = IF sub = p - 1 THEN 0 ELSE sub + 1
        BY <4>1, <4>3, <4>4
      <4>6. sub \in 0..(p - 1) => (sub + 1) % p = IF sub = p - 1 THEN 0 ELSE sub + 1
        <5>1. CASE sub = p - 1
          <6>1. sub + 1 = p /\ p % p = 0
            BY <4>1, <5>1
          <6>2. QED
            BY <5>1, <6>1
        <5>2. CASE sub \in 0..(p - 1) /\ sub # p - 1
          BY <4>1, <5>2
        <5>3. QED
          BY <5>1, <5>2
      <4>7. k \in Nat /\ l = k + (IF tick THEN 1 ELSE 0)
        BY <4>1, <4>2, <4>3, <4>4
      <4>8. sup = (sub + 1) % p
        BY <4>3, <4>4, <4>5, <4>6
      <4>9. QED
        BY <3>2, <4>7, <4>8 DEF p
    <3>3. QED
      BY <3>1, <3>2
  <2> HIDE DEF k, l, tick
  <2>5. /\ x.counter \in 0..(TimerSize - 1) /\ x.overflows \in Nat
        /\ tick => /\ y.counter = IF x.counter = TimerSize - 1 THEN r.reload ELSE x.counter + 1
                   /\ y.overflows = x.overflows + (IF x.counter = TimerSize - 1 THEN 1 ELSE 0)
        /\ ~tick => y = x
    <3>1. LET a == Added(r.counter, r.reload, k)
              c == Added(r.counter, r.reload, k + 1)
          IN  /\ a.counter \in 0..(TimerSize - 1) /\ a.overflows \in Nat
              /\ c.counter = IF a.counter = TimerSize - 1 THEN r.reload ELSE a.counter + 1
              /\ c.overflows = a.overflows + (IF a.counter = TimerSize - 1 THEN 1 ELSE 0)
      BY <1>1, <2>4, AddedOneMore
    <3>2. (tick => l = k + 1) /\ (~tick => l = k)
      BY <2>4
    <3>3. QED
      BY <3>1, <3>2 DEF x, y
  <2>6. over[t] <=> (tick /\ x.counter = TimerSize - 1)
    BY <1>3, <2>2 DEF OverOf, tick
  <2>7. CountedOf(ts, over, t) =
          [ts[t] EXCEPT !.sub = sup,
                        !.counter = IF ~tick THEN x.counter ELSE IF over[t] THEN r.reload ELSE x.counter + 1]
    <3>1. CountedOf(ts, over, t) =
            [ts[t] EXCEPT !.sub = IF Follows(ts, t) THEN ts[t].sub ELSE (ts[t].sub + 1) % ts[t].period,
                          !.counter = IF ~tick THEN ts[t].counter
                                      ELSE IF over[t] THEN ts[t].reload ELSE ts[t].counter + 1]
      BY DEF CountedOf, tick
    <3>2. (IF Follows(ts, t) THEN ts[t].sub ELSE (ts[t].sub + 1) % ts[t].period) = sup
      BY <2>2, <2>3, <2>4
    <3>3. QED
      BY <2>2, <3>1, <3>2
  <2>8. (IF ~tick THEN x.counter ELSE IF over[t] THEN r.reload ELSE x.counter + 1) = y.counter
    BY <2>5, <2>6
  <2>9. m[t].timer = CountedOf(ts, over, t)
    <3>1. CountedOf(ts, over, t) = [ts[t] EXCEPT !.sub = sup, !.counter = y.counter]
      BY <2>7, <2>8
    <3>2. [[r EXCEPT !.counter = x.counter, !.sub = sub] EXCEPT !.sub = sup, !.counter = y.counter]
            = [r EXCEPT !.counter = y.counter, !.sub = sup]
      BY <1>1 DEF Timer
    <3>3. QED
      BY <2>1, <3>1, <3>2
  <2>10. m[t].overflows = b[t].overflows + (IF over[t] THEN 1 ELSE 0)
    BY <2>1, <2>5, <2>6
  <2>11. QED
    BY <2>2, <2>9, <2>10 DEF b, m
<1>7. QED
  BY <1>1, <1>5, <1>6

\* An empty batch leaves a timer as it was, if it does the one before it.
LEMMA NoneAt ==
  ASSUME TimersTyped, Dividing, NEW t \in Timers,
         t # 0 => Stepped(0)[t - 1].overflows = 0
  PROVE  Stepped(0)[t] = [timer |-> timers[t], overflows |-> 0]
<1> DEFINE r == timers[t]
           b == Stepped(0)
           k == IF CountsUp(t) THEN b[t - 1].overflows ELSE (r.sub + 0) \div r.period
           sub == IF CountsUp(t) THEN r.sub ELSE (r.sub + 0) % r.period
           x == Added(r.counter, r.reload, k)
<1>1. /\ r \in Timer /\ r.on \in BOOLEAN
      /\ r.period \in Nat \ {0} /\ r.sub \in Nat
      /\ r.counter \in 0..(TimerSize - 1) /\ r.reload \in 0..(TimerSize - 1)
  BY DEF TimersTyped, Timer
<1>2. b[t] = IF r.on THEN [timer |-> [r EXCEPT !.counter = x.counter, !.sub = sub],
                           overflows |-> x.overflows]
             ELSE [timer |-> r, overflows |-> 0]
  <2>1. b[t] = StepOf(b, 0, t)
    BY SteppedAt
  <2> HIDE DEF b
  <2>2. QED
    BY <2>1 DEF StepOf
<1>3. r.on => r.sub < r.period
  BY DEF Dividing
<1> HIDE DEF r
<1>4. CASE r.on
  <2>1. k = 0 /\ sub = r.sub
    <3>1. CASE CountsUp(t)
      <4>1. t # 0
        BY <3>1, TimersFollow DEF CountsUp
      <4>2. QED
        BY <3>1, <4>1
    <3>2. CASE ~CountsUp(t)
      <4>1. (r.sub + 0) \div r.period = 0 /\ (r.sub + 0) % r.period = r.sub
        BY <1>1, <1>3, <1>4
      <4>2. QED
        BY <3>2, <4>1
    <3>3. QED
      BY <3>1, <3>2
  <2> HIDE DEF k, sub
  <2>2. x = [counter |-> r.counter, overflows |-> 0]
    <3>1. r.counter + 0 = r.counter /\ r.counter < TimerSize
      BY <1>1, ConsoleAssumption
    <3>2. QED
      BY <2>1, <3>1 DEF Added
  <2> HIDE DEF x
  <2>3. [r EXCEPT !.counter = r.counter, !.sub = r.sub] = r
    BY <1>1 DEF Timer
  <2>4. b[t] = [timer |-> r, overflows |-> 0]
    BY <1>2, <1>4, <2>1, <2>2, <2>3
  <2>5. QED
    BY <2>4 DEF b, r
<1>5. CASE ~r.on
  <2>1. b[t] = [timer |-> r, overflows |-> 0]
    BY <1>2, <1>5
  <2>2. QED
    BY <2>1 DEF b, r
<1>6. QED
  BY <1>4, <1>5

LEMMA NoneLeaves ==
  ASSUME TimersTyped, Dividing
  PROVE  \A t \in Timers : Stepped(0)[t] = [timer |-> timers[t], overflows |-> 0]
<1> DEFINE S == {u \in Timers : Stepped(0)[u] = [timer |-> timers[u], overflows |-> 0]}
<1>1. ASSUME NEW u \in Timers, u # 0 => u - 1 \in S PROVE u \in S
  <2>1. u # 0 => Stepped(0)[u - 1].overflows = 0
    BY <1>1
  <2>2. QED
    BY <2>1, NoneAt
<1>2. Timers \subseteq S
  <2> HIDE DEF S
  <2>1. QED
    BY <1>1, OneByOne
<1>3. QED
  BY <1>2

LEMMA BatchOneMore ==
  ASSUME TimersTyped, NEW n \in Nat
  PROVE  LET batch == Stepped(n)
             more  == Stepped(n + 1)
             one   == OneCycle([t \in Timers |-> batch[t].timer])
         IN  \A t \in Timers :
               /\ more[t].timer = one.timers[t]
               /\ more[t].overflows = batch[t].overflows + (IF t \in one.over THEN 1 ELSE 0)
<1> DEFINE ts == [t \in Timers |-> Stepped(n)[t].timer]
<1>1. PICK over : /\ Overflows(ts, over)
                  /\ OneCycle(ts) =
                       [timers |-> [t \in Timers |-> IF ts[t].on THEN CountedOf(ts, over, t) ELSE ts[t]],
                        over   |-> {t \in Timers : over[t]}]
  BY CycleIs
<1>2. ts = [t \in Timers |-> Stepped(n)[t].timer]
  OBVIOUS
<1> DEFINE S == {u \in Timers : Stepped(n + 1)[u].overflows
                                  = Stepped(n)[u].overflows + (IF over[u] THEN 1 ELSE 0)}
<1> HIDE DEF ts
<1>3. ASSUME NEW u \in Timers, u # 0 => u - 1 \in S PROVE u \in S
  <2>1. u # 0 => Stepped(n + 1)[u - 1].overflows =
                   Stepped(n)[u - 1].overflows + (IF over[u - 1] THEN 1 ELSE 0)
    BY <1>3
  <2>2. Stepped(n + 1)[u].overflows = Stepped(n)[u].overflows + (IF over[u] THEN 1 ELSE 0)
    BY <1>1, <1>2, <2>1, OneMoreAt
  <2>3. QED
    BY <2>2
<1>4. Timers \subseteq S
  <2> HIDE DEF S
  <2>1. QED
    BY <1>3, OneByOne
<1>5. ASSUME NEW t \in Timers
      PROVE  /\ Stepped(n + 1)[t].timer = OneCycle(ts).timers[t]
             /\ Stepped(n + 1)[t].overflows
                  = Stepped(n)[t].overflows + (IF t \in OneCycle(ts).over THEN 1 ELSE 0)
  <2>1. t # 0 => Stepped(n + 1)[t - 1].overflows =
                   Stepped(n)[t - 1].overflows + (IF over[t - 1] THEN 1 ELSE 0)
    BY <1>4, TimersFollow
  <2>2. /\ Stepped(n + 1)[t].timer = IF ts[t].on THEN CountedOf(ts, over, t) ELSE ts[t]
        /\ Stepped(n + 1)[t].overflows = Stepped(n)[t].overflows + (IF over[t] THEN 1 ELSE 0)
    BY <1>1, <1>2, <2>1, OneMoreAt
  <2>3. OneCycle(ts).timers[t] = (IF ts[t].on THEN CountedOf(ts, over, t) ELSE ts[t])
        /\ (t \in OneCycle(ts).over <=> over[t])
    BY <1>1
  <2>4. QED
    BY <2>2, <2>3
<1>6. QED
  BY <1>5 DEF ts

\* The timers change only as a scanline's batch steps them, or a store sets one.
LEMMA TimersInit == Init => TimersTyped
  BY ConsoleAssumption DEF Init, TimersTyped, Timer

LEMMA TimersStep == TimersTyped /\ [Next]_vars => TimersTyped'
<1> SUFFICES ASSUME TimersTyped, [Next]_vars PROVE TimersTyped'
  OBVIOUS
<1>1. CASE BeginLine
  <2>1. PICK n \in Deltas : timers' = [t \in Timers |-> Stepped(n)[t].timer]
    BY <1>1 DEF BeginLine
  <2>2. n \in Nat
    BY ConsoleAssumption
  <2>3. \A t \in Timers : Stepped(n)[t].timer \in Timer
    BY <2>2, SteppedTyped
  <2>4. QED
    BY <2>1, <2>3 DEF TimersTyped
<1>2. CASE StoreTimer
  <2>1. PICK t \in Timers, s \in Settings :
          timers' = [timers EXCEPT ![t] =
            [on |-> s.on, irq |-> s.irq, cascade |-> s.cascade, period |-> s.period,
             reload |-> s.reload,
             counter |-> IF ~timers[t].on /\ s.on THEN s.reload ELSE timers[t].counter,
             sub     |-> IF ~timers[t].on /\ s.on THEN 0 ELSE timers[t].sub]]
    BY <1>2 DEF StoreTimer
  <2>2. /\ s.on \in BOOLEAN /\ s.irq \in BOOLEAN /\ s.cascade \in BOOLEAN
        /\ s.period \in Nat \ {0} /\ s.reload \in 0..(TimerSize - 1)
    BY ConsoleAssumption
  <2>3. timers[t].counter \in 0..(TimerSize - 1) /\ timers[t].sub \in Nat
    BY DEF TimersTyped, Timer
  <2>4. QED
    BY <2>1, <2>2, <2>3 DEF TimersTyped, Timer
<1>3. CASE ~BeginLine /\ ~StoreTimer
  <2>1. UNCHANGED timers
    <3>1. CASE Dma \/ TriggerDma \/ TakeIrq \/ EndLine
      BY <3>1 DEF Dma, DmaWord, DmaEnd, TriggerDma, TakeIrq, EndLine
    <3>2. CASE StoreIrq \/ StoreAddress \/ StoreDma
      BY <3>2 DEF StoreIrq, StoreAddress, StoreDma
    <3>3. CASE Computes \/ Halts \/ SoftReset
      BY <3>3 DEF Computes, Halts, SoftReset
    <3>4. CASE AgainIntrWait \/ \E w \in Waits : CallIntrWait(w)
      BY <3>4 DEF AgainIntrWait, CallIntrWait, Pass
    <3>5. CASE Handler
      BY <3>5 DEF Handler, ReadFlags, PostFlags, AckFlags, MaskAll, Return, Elsewhere
    <3>6. CASE UNCHANGED vars
      BY <3>6 DEF vars
    <3>7. QED
      BY <1>3, <3>1, <3>2, <3>3, <3>4, <3>5, <3>6 DEF Next, FrameLoop, Processor, Game
  <2>2. QED
    BY <2>1 DEF TimersTyped
<1>4. QED
  BY <1>1, <1>2, <1>3

\* However many timers are chained, whatever their prescalers and reload values
\* and however long a scanline is, a batch of cycles does to them what the chip
\* would, cycle by cycle, and misses no overflow.
THEOREM TimersCountCycles == Spec => []BatchIsCycleByCycle
<1>1. TimersTyped => BatchIsCycleByCycle
  <2> SUFFICES ASSUME TimersTyped, Dividing, NEW n \in 0..Max(Deltas)
               PROVE  LET batch == Stepped(n)
                          more  == Stepped(n + 1)
                          one   == OneCycle([t \in Timers |-> batch[t].timer])
                      IN  \A t \in Timers :
                            /\ n = 0 => batch[t] = [timer |-> timers[t], overflows |-> 0]
                            /\ more[t].timer = one.timers[t]
                            /\ more[t].overflows = batch[t].overflows + (IF t \in one.over THEN 1 ELSE 0)
    BY DEF BatchIsCycleByCycle
  <2>1. n \in Nat
    OBVIOUS
  <2>2. n = 0 => \A t \in Timers : Stepped(n)[t] = [timer |-> timers[t], overflows |-> 0]
    BY NoneLeaves
  <2>3. QED
    BY <2>1, <2>2, BatchOneMore
<1>2. QED
  BY <1>1, TimersInit, TimersStep, PTL DEF Spec

=============================================================================
