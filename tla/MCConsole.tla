----------------------------- MODULE MCConsole -----------------------------
(* Model-checking instance of Console: two timers, two DMA channels that may   *)
(* enable each other, and a game that sets up what it uses and waits.          *)
EXTENDS Console

TimerPair   == {0, 1}
ChannelPair == {0, 3}
Cycles == {1, 5}

IeValues == {{VBlank}, {VBlank, DmaDone(3), Overflow(1)}}
DisplayValues == {{VBlank}, Lcd}

\* What the game and its DMAs store to a control register: off, one transfer
\* now over a fixed address, one at the next H-blank, and one each V-blank with
\* an interrupt.
Once    == [Off EXCEPT !.on = TRUE, !.fixed = TRUE]
EachFrame == [Off EXCEPT !.on = TRUE, !.irq = TRUE, !.timing = "vblank", !.repeat = TRUE,
                         !.reload = TRUE]
NextLine == [Off EXCEPT !.on = TRUE, !.timing = "hblank"]
ControlValues == {Off, Once, EachFrame, NextLine}

TimerValues == {
  [on |-> TRUE, irq |-> FALSE, cascade |-> FALSE, period |-> 2, reload |-> 3],
  [on |-> TRUE, irq |-> TRUE, cascade |-> TRUE, period |-> 1, reload |-> 1],
  [on |-> FALSE, irq |-> FALSE, cascade |-> FALSE, period |-> 1, reload |-> 0]}

WaitArgs == {[want |-> {VBlank}, discard |-> TRUE],
             [want |-> {VBlank}, discard |-> FALSE]}
=============================================================================
