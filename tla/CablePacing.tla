---------------------------- MODULE CablePacing ----------------------------
(***************************************************************************)
(* How a child keeps step with its parent: the pacing half of CableProto   *)
(* (gba-core/src/cable.rs) as the run loop of gba-core/src/lib.rs and      *)
(* NetCable (gba-libretro/src/netpacket.rs) drive it.                      *)
(*                                                                         *)
(* Every packet a parent sends carries its position, in emulated time.  A  *)
(* child charges each scanline to its own position before it emulates it,  *)
(* and waits while that puts it a whole frame ahead of the position it     *)
(* last heard.  It must not wait while its game has a word to collect or   *)
(* to store, nor for ever.                                                 *)
(*                                                                         *)
(* The unit of time is the scanline.  Positions are kept here as they      *)
(* really are; the code holds them in u32 counters that wrap, so whatever  *)
(* the code compares is read through Stored.                               *)
(***************************************************************************)
EXTENDS Integers, Sequences

CONSTANTS
  Wrap,         \* positions are u32 and wrap: 2^32 cycles
  Slack,        \* PACE_SLACK, one frame
  TickEvery,    \* TICK_EVERY, a quarter of one
  DeferMax,     \* DEFER_MAX_CYCLES, eight scanlines
  SpinsMax,     \* HOLD_SPINS_MAX
  QueueMax,     \* CHILD_QUEUE_MAX
  MaxLines,     \* bound: scanlines either end emulates
  MaxApart,     \* bound: scanlines the two ends may be apart, and a packet late
  MaxClocks,    \* bound: transfers the parent starts
  MaxInFlight,  \* bound: packets on the wire
  MaxParks      \* bound: times the child's game leaves Multi-Player mode

\* A parent gone silent is given two frames.
Silence == 2 * Slack

ASSUME PacingAssumption ==
  /\ Slack \in Nat \ {0} /\ TickEvery \in 1..Slack
  /\ DeferMax \in Nat \ {0} /\ SpinsMax \in Nat \ {0} /\ QueueMax \in Nat \ {0}
  /\ Wrap \in Nat /\ Wrap \div 2 > Silence + 2 * MaxApart
  /\ MaxLines \in Nat /\ MaxApart \in Nat /\ MaxClocks \in Nat
  /\ MaxInFlight \in Nat \ {0} /\ MaxParks \in Nat

VARIABLES
  pos,           \* the parent's position
  nextTick,      \* next_tick_at
  reported,      \* history: the position its last packet carried
  clocks,        \* transfers it has started
  local,         \* the child's position, local_cycles
  anchor,        \* anchor: both positions when pacing engaged, or NoAnchor
  parentTime,    \* parent_time: the position last heard
  engaged, sinceParent, holdSpins,
  stage,         \* where its run loop is: emulating a scanline or in hold
  multi, parks,  \* is the port in Multi-Player mode
  answered,      \* answered > 0
  armed,         \* armed_since_answer
  queued,        \* child_input, its length
  deferred,      \* is a clock being held back
  deferredLines, \* deferred_cycles
  wire

parentVars  == <<pos, nextTick, reported, clocks>>
pacingVars  == <<anchor, parentTime, engaged, sinceParent, holdSpins>>
modeVars    == <<multi, parks>>
answerVars  == <<answered, armed, queued, deferred, deferredLines>>
vars == <<parentVars, pacingVars, local, stage, modeVars, answerVars, wire>>

-----------------------------------------------------------------------------
NoAnchor == [ours |-> -1, theirs |-> -1]

\* The u32 a position is kept in, and a difference of two read as an i32.
Stored(t) == t % Wrap
Signed(d) == IF d < Wrap \div 2 THEN d ELSE d - Wrap

Without(s, i) == [j \in 1..(Len(s) - 1) |-> IF j < i THEN s[j] ELSE s[j + 1]]

\* lead: ahead of the position last heard, since the anchor.
LeadCastFirst ==            \* mutant: each side cast before the subtraction
  Signed((Stored(local) - Stored(anchor.ours)) % Wrap)
    - Signed((Stored(parentTime) - Stored(anchor.theirs)) % Wrap)
Lead ==
  LET oursGone   == (Stored(local) - Stored(anchor.ours)) % Wrap
      theirsGone == (Stored(parentTime) - Stored(anchor.theirs)) % Wrap
  IN  Signed((oursGone - theirsGone) % Wrap)

\* What hold looks at.
Unarmed == answered /\ ~armed
ParksUnarmed ==             \* mutant: an unarmed child may be parked
  engaged /\ anchor # NoAnchor /\ Lead >= Slack /\ queued = 0
MustWait ==
  engaged /\ anchor # NoAnchor /\ Lead >= Slack /\ queued = 0 /\ ~Unarmed

Disengage ==
  /\ engaged' = FALSE /\ anchor' = NoAnchor /\ parentTime' = -1
  /\ sinceParent' = 0 /\ holdSpins' = 0

\* credit: the first position heard anchors the comparison.
Credit(at) ==
  /\ anchor' = IF anchor = NoAnchor THEN [ours |-> local, theirs |-> at] ELSE anchor
  /\ parentTime' = at
  /\ engaged' = TRUE
  /\ sinceParent' = 0 /\ holdSpins' = 0

-----------------------------------------------------------------------------
(* The parent                                                              *)

\* maybe_tick's question, asked once the scanline has been charged.
TickDueLate ==              \* mutant: the deadline must be past
  Signed((Stored(pos + 1) - Stored(nextTick)) % Wrap) > 0
TickDue == Signed((Stored(pos + 1) - Stored(nextTick)) % Wrap) >= 0

ParentLine ==
  /\ pos < MaxLines /\ pos + 1 - local <= MaxApart
  /\ \A i \in 1..Len(wire) : pos + 1 - wire[i].at <= MaxApart
  /\ pos' = pos + 1
  /\ IF TickDue
     THEN /\ Len(wire) < MaxInFlight
          /\ wire' = Append(wire, [tag |-> "tick", at |-> pos + 1])
          /\ nextTick' = pos + 1 + TickEvery
          /\ reported' = pos + 1
     ELSE UNCHANGED <<wire, nextTick, reported>>
  /\ UNCHANGED <<clocks, pacingVars, local, stage, modeVars, answerVars>>

\* begin_exchange: a clock carries the position too, and defers the tick.
ParentClock ==
  /\ clocks < MaxClocks /\ Len(wire) < MaxInFlight
  /\ clocks' = clocks + 1
  /\ wire' = Append(wire, [tag |-> "clock", at |-> pos])
  /\ nextTick' = pos + TickEvery
  /\ reported' = pos
  /\ UNCHANGED <<pos, pacingVars, local, stage, modeVars, answerVars>>

-----------------------------------------------------------------------------
(* The child                                                               *)

\* accept_clock, as far as waiting is concerned.  A full queue drops its oldest
\* transfer; a game that is not in Multi-Player mode is queued none.
Enqueued == IF multi /\ queued < QueueMax THEN queued + 1 ELSE queued

Accept ==
  /\ answered' = TRUE
  /\ armed' = (armed /\ ~multi)
  /\ queued' = Enqueued

\* on_packet.  A child polls the transport between two scanlines and all the
\* while it waits.
ChildReceive ==
  \E i \in 1..Len(wire) :
    /\ wire' = Without(wire, i)
    /\ Credit(wire[i].at)
    /\ CASE wire[i].tag = "tick" -> UNCHANGED answerVars
         [] wire[i].tag = "clock" /\ multi /\ Unarmed /\ ~deferred ->
              /\ deferred' = TRUE /\ deferredLines' = 0
              /\ UNCHANGED <<answered, armed, queued>>
         [] OTHER -> Accept /\ UNCHANGED <<deferred, deferredLines>>
    /\ UNCHANGED <<parentVars, local, stage, modeVars>>

\* advance ages a held clock and a silent parent.
DeferralUp == deferred /\ deferredLines + 1 >= DeferMax
ParentSilent == engaged /\ sinceParent + 1 >= Silence

\* The run loop of lib.rs: the next scanline is charged, whatever mode the
\* port is in, and in Multi-Player mode the loop then asks hold.
ChildLine ==
  /\ stage = "run" /\ local < MaxLines /\ local + 1 - pos <= MaxApart
  /\ local' = local + 1
  /\ stage' = IF multi THEN "hold" ELSE "run"
  /\ IF DeferralUp
     THEN Accept /\ deferred' = FALSE /\ deferredLines' = 0
     ELSE /\ deferredLines' = IF deferred THEN deferredLines + 1 ELSE deferredLines
          /\ UNCHANGED <<answered, armed, queued, deferred>>
  /\ IF ParentSilent THEN Disengage
     ELSE /\ sinceParent' = IF engaged THEN sinceParent + 1 ELSE sinceParent
          /\ UNCHANGED <<anchor, parentTime, engaged, holdSpins>>
  /\ UNCHANGED <<parentVars, modeVars, wire>>

\* hold says no: the scanline is emulated.
ChildRuns ==
  /\ stage = "hold" /\ ~MustWait
  /\ holdSpins' = 0
  /\ stage' = "run"
  /\ UNCHANGED <<parentVars, anchor, parentTime, engaged, sinceParent, local,
                 modeVars, answerVars, wire>>

\* hold says yes, and the loop polls and asks again.
ChildWaits ==
  /\ stage = "hold" /\ MustWait /\ holdSpins < SpinsMax
  /\ holdSpins' = holdSpins + 1
  /\ UNCHANGED <<parentVars, anchor, parentTime, engaged, sinceParent, local,
                 stage, modeVars, answerVars, wire>>

\* It has said yes for too long.
NeverGivesUp == FALSE       \* mutant: patience without a bound
ChildStarves ==
  /\ stage = "hold" /\ MustWait /\ holdSpins >= SpinsMax
  /\ Disengage
  /\ stage' = "run"
  /\ UNCHANGED <<parentVars, local, modeVars, answerVars, wire>>

\* The game's part of a scanline.  It stores its next word, which settles a
\* clock held back for it ...
ChildStore ==
  /\ stage = "run"
  /\ IF deferred
     THEN /\ answered' = TRUE
          /\ armed' = ~multi
          /\ queued' = Enqueued
          /\ deferred' = FALSE /\ deferredLines' = 0
     ELSE armed' = TRUE /\ UNCHANGED <<answered, queued, deferred, deferredLines>>
  /\ UNCHANGED <<parentVars, pacingVars, local, stage, modeVars, wire>>

\* ... its serial engine collects a transfer ...
ChildCollects ==
  /\ stage = "run" /\ multi /\ queued > 0
  /\ queued' = queued - 1
  /\ UNCHANGED <<parentVars, pacingVars, local, stage, modeVars, answered, armed,
                 deferred, deferredLines, wire>>

\* ... it takes the port out of Multi-Player mode ...
ChildPark ==
  /\ stage = "run" /\ multi /\ parks < MaxParks
  /\ multi' = FALSE
  /\ parks' = parks + 1
  /\ UNCHANGED <<parentVars, pacingVars, local, stage, answerVars, wire>>

\* ... and selects it again: flush_pending.
ChildSelectMulti ==
  /\ stage = "run" /\ ~multi
  /\ multi' = TRUE
  /\ queued' = 0
  /\ Disengage
  /\ UNCHANGED <<parentVars, local, stage, parks, answered, armed, deferred,
                 deferredLines, wire>>

-----------------------------------------------------------------------------
Init ==
  /\ pos = 0 /\ nextTick = TickEvery /\ reported = 0 /\ clocks = 0
  /\ local = 0 /\ stage = "run" /\ multi = TRUE /\ parks = 0
  /\ anchor = NoAnchor /\ parentTime = -1 /\ engaged = FALSE
  /\ sinceParent = 0 /\ holdSpins = 0
  /\ answered = FALSE /\ armed = FALSE /\ queued = 0
  /\ deferred = FALSE /\ deferredLines = 0
  /\ wire = <<>>

ParentNext == ParentLine \/ ParentClock

ChildNext ==
  \/ ChildReceive \/ ChildLine \/ ChildRuns \/ ChildWaits \/ ChildStarves
  \/ ChildStore \/ ChildCollects \/ ChildPark \/ ChildSelectMulti

Next == ParentNext \/ ChildNext

Spec == Init /\ [][Next]_vars

\* The child's core keeps running: its loop takes a turn whenever it can.
\* Nothing is asked of the parent, nor of the wire.
FairSpec == Spec /\ WF_vars(ChildRuns \/ ChildWaits \/ ChildStarves)

-----------------------------------------------------------------------------
TypeOK ==
  /\ pos \in 0..MaxLines /\ nextTick \in Nat /\ reported \in 0..MaxLines
  /\ clocks \in 0..MaxClocks
  /\ local \in 0..MaxLines
  /\ anchor \in [ours : Nat \cup {-1}, theirs : Nat \cup {-1}]
  /\ parentTime \in Nat \cup {-1} /\ engaged \in BOOLEAN
  /\ sinceParent \in 0..Silence /\ holdSpins \in 0..SpinsMax
  /\ stage \in {"run", "hold"} /\ multi \in BOOLEAN /\ parks \in 0..MaxParks
  /\ answered \in BOOLEAN /\ armed \in BOOLEAN /\ queued \in 0..QueueMax
  /\ deferred \in BOOLEAN /\ deferredLines \in 0..DeferMax
  /\ wire \in Seq([tag : {"tick", "clock"}, at : 0..MaxLines])

\* How far ahead of the parent the child really is, since the anchor.
TrueLead == (local - anchor.ours) - (pos - anchor.theirs)
HeardLead == (local - anchor.ours) - (parentTime - anchor.theirs)

\* The scanline a paced child emulates is never a whole frame ahead of where
\* the parent is, not where it was last heard: however old or disordered the
\* reports are, and wherever in its turn a counter is (cable.rs hold, lead).
NeverAFrameAhead ==
  [][(stage = "hold" /\ stage' = "run" /\ engaged' /\ queued = 0 /\ ~Unarmed)
       => TrueLead < Slack]_vars

\* A child waits only for a parent that, at its last report, was a frame
\* behind: one that is itself behind runs on (cable.rs lead, anchor).
WaitsOnlyWhenAhead ==
  [][holdSpins' > holdSpins => HeardLead >= Slack]_vars

\* Both: paced by reports that are late and out of order, a child waits when it
\* has to and when it has to only.
KeepsStep == NeverAFrameAhead /\ WaitsOnlyWhenAhead

\* A child holding back a clock, with its parent blocked on the answer, is not
\* itself made to wait: the deferral ends by the child running on.
HeldClockNeverWaits == deferred => ~MustWait

\* A parent that emulates reports: its last packet is never older than the
\* tick interval (cable.rs maybe_tick).
ParentReports == pos - reported < TickEvery

\* The child always gets on with its scanline, whatever became of the parent
\* (cable.rs hold, HOLD_SPINS_MAX).
WaitEnds == stage = "hold" ~> stage = "run"
=============================================================================
