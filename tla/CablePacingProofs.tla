------------------------- MODULE CablePacingProofs -------------------------
(***************************************************************************)
(* Pacing, for every value of the constants of CablePacing: a child that   *)
(* holds back a clock is never itself made to wait, a parent reports once  *)
(* a tick interval, and the lead a child computes in counters that wrap is *)
(* the real one, so that it waits when it has to and only then.            *)
(***************************************************************************)
EXTENDS CablePacing, SequenceTheorems, TLAPS

-----------------------------------------------------------------------------
(* A held clock                                                            *)

\* A clock is held back only from a child whose game has not stored a word
\* since its last answer, and the store that would change that settles it.
HeldUnarmed == deferred => Unarmed

\* No clock is held at the start.
LEMMA InitHeldUnarmed == Init => HeldUnarmed
  BY DEF Init, HeldUnarmed

\* A clock is held on arrival only when the child is unarmed.
LEMMA ReceiveHeldUnarmed ==
  ASSUME HeldUnarmed, ChildReceive
  PROVE  HeldUnarmed'
<1>1. PICK i \in 1..Len(wire) :
        CASE wire[i].tag = "tick" -> UNCHANGED answerVars
          [] wire[i].tag = "clock" /\ multi /\ Unarmed /\ ~deferred ->
               /\ deferred' = TRUE /\ deferredLines' = 0
               /\ UNCHANGED <<answered, armed, queued>>
          [] OTHER -> Accept /\ UNCHANGED <<deferred, deferredLines>>
  BY DEF ChildReceive
<1>2. CASE wire[i].tag = "tick"
  <2>1. UNCHANGED answerVars
    BY <1>1, <1>2
  <2>2. QED
    BY <2>1 DEF HeldUnarmed, Unarmed, answerVars
<1>3. CASE wire[i].tag = "clock" /\ multi /\ Unarmed /\ ~deferred
  <2>1. deferred' = TRUE /\ UNCHANGED <<answered, armed, queued>>
    BY <1>1, <1>3
  <2>2. QED
    BY <1>3, <2>1 DEF HeldUnarmed, Unarmed
<1>4. CASE /\ wire[i].tag # "tick"
           /\ ~(wire[i].tag = "clock" /\ multi /\ Unarmed /\ ~deferred)
  <2>1. Accept /\ UNCHANGED deferred
    BY <1>1, <1>4
  <2>2. QED
    BY <2>1 DEF Accept, HeldUnarmed, Unarmed
<1> QED
  BY <1>2, <1>3, <1>4

\* No step arms a child that goes on holding a clock.
LEMMA StepHeldUnarmed == HeldUnarmed /\ [Next]_vars => HeldUnarmed'
<1> SUFFICES ASSUME HeldUnarmed, [Next]_vars
             PROVE  HeldUnarmed'
  OBVIOUS
<1>1. CASE ParentLine
  BY <1>1 DEF ParentLine, answerVars, HeldUnarmed, Unarmed
<1>2. CASE ParentClock
  BY <1>2 DEF ParentClock, answerVars, HeldUnarmed, Unarmed
<1>3. CASE ChildReceive
  BY <1>3, ReceiveHeldUnarmed
<1>4. CASE ChildLine
  <2>1. CASE DeferralUp
    <3>1. deferred' = FALSE
      BY <1>4, <2>1 DEF ChildLine
    <3>2. QED
      BY <3>1 DEF HeldUnarmed
  <2>2. CASE ~DeferralUp
    <3>1. UNCHANGED <<answered, armed, deferred>>
      BY <1>4, <2>2 DEF ChildLine
    <3>2. QED
      BY <3>1 DEF HeldUnarmed, Unarmed
  <2> QED
    BY <2>1, <2>2
<1>5. CASE ChildRuns \/ ChildWaits \/ ChildStarves
  BY <1>5 DEF ChildRuns, ChildWaits, ChildStarves, answerVars, HeldUnarmed, Unarmed
<1>6. CASE ChildStore
  <2>1. CASE deferred
    <3>1. deferred' = FALSE
      BY <1>6, <2>1 DEF ChildStore
    <3>2. QED
      BY <3>1 DEF HeldUnarmed
  <2>2. CASE ~deferred
    <3>1. deferred' = deferred
      BY <1>6, <2>2 DEF ChildStore
    <3>2. QED
      BY <2>2, <3>1 DEF HeldUnarmed
  <2> QED
    BY <2>1, <2>2
<1>7. CASE ChildCollects
  BY <1>7 DEF ChildCollects, HeldUnarmed, Unarmed
<1>8. CASE ChildPark
  BY <1>8 DEF ChildPark, answerVars, HeldUnarmed, Unarmed
<1>9. CASE ChildSelectMulti
  BY <1>9 DEF ChildSelectMulti, HeldUnarmed, Unarmed
<1>10. CASE UNCHANGED vars
  BY <1>10 DEF vars, answerVars, HeldUnarmed, Unarmed
<1> QED
  BY <1>1, <1>2, <1>3, <1>4, <1>5, <1>6, <1>7, <1>8, <1>9, <1>10
     DEF Next, ParentNext, ChildNext

\* The deferral of a clock, with its parent blocked on the answer, and the wait
\* for a parent exclude each other (cable.rs, hold): each ends by the child
\* running on, so together they would end by neither.
THEOREM HeldClockRuns == Spec => []HeldClockNeverWaits
<1>1. HeldUnarmed => HeldClockNeverWaits
  BY DEF HeldUnarmed, HeldClockNeverWaits, MustWait
<1> QED
  BY <1>1, InitHeldUnarmed, StepHeldUnarmed, PTL DEF Spec

-----------------------------------------------------------------------------
(* Counters that wrap                                                      *)

\* Division and its remainder, for a divisor that is not a literal.
LEMMA DivModInt ==
  ASSUME NEW M \in Nat, M >= 2, NEW a \in Int
  PROVE  /\ a \div M \in Int
         /\ a % M \in Int
         /\ a = M * (a \div M) + (a % M)
         /\ 0 <= a % M
         /\ a % M < M
  OBVIOUS

\* What the assumption on the constants says of half a turn.
LEMMA WrapHalf ==
  /\ Wrap \in Nat /\ Wrap >= 2
  /\ Wrap \div 2 \in Nat
  /\ 2 * (Wrap \div 2) <= Wrap
  /\ Wrap \div 2 > Silence + 2 * MaxApart
  BY PacingAssumption DEF Silence

\* A residue is its number less whole turns.
LEMMA Residue ==
  ASSUME NEW a \in Int
  PROVE  \E k \in Int : a % Wrap = a - Wrap * k
<1>1. a \div Wrap \in Int /\ a = Wrap * (a \div Wrap) + (a % Wrap) /\ a % Wrap \in Int
  BY WrapHalf, DivModInt
<1>2. \A k, r \in Int : a = Wrap * k + r => r = a - Wrap * k
  BY WrapHalf
<1>3. a % Wrap = a - Wrap * (a \div Wrap)
  BY <1>1, <1>2
<1> QED
  BY <1>1, <1>3

\* A difference taken modulo the turn and read as signed is the difference,
\* when that is within half a turn.
LEMMA SignedOf ==
  ASSUME NEW d \in Int, NEW e \in Int, NEW k \in Int, e = d + Wrap * k,
         -(Wrap \div 2) <= d, d < Wrap \div 2
  PROVE  Signed(e % Wrap) = d
<1> DEFINE r == e % Wrap
<1>1. r \in Int /\ 0 <= r /\ r < Wrap
  BY WrapHalf, DivModInt
<1>2. PICK j \in Int : r = e - Wrap * j
  BY Residue
<1> HIDE DEF r
<1>3. \A x, y \in Int : Wrap * x - Wrap * y = Wrap * (x - y)
  BY WrapHalf
<1>4. PICK m \in Int : r = d + Wrap * m
  <2>1. Wrap * k - Wrap * j = Wrap * (k - j)
    BY <1>3
  <2>2. Wrap * k \in Int /\ Wrap * j \in Int
    BY WrapHalf
  <2>3. r = d + Wrap * (k - j)
    BY <1>2, <2>1, <2>2
  <2> QED
    BY <2>3
<1>5. /\ \A x \in Int : x >= 1 => Wrap * x >= Wrap
      /\ \A x \in Int : x <= -2 => Wrap * x <= -(2 * Wrap)
      /\ \A x \in Int : x <= -1 => Wrap * x <= -Wrap
  BY WrapHalf
<1>5a. Wrap * m \in Int /\ Wrap * 0 = 0 /\ Wrap * 1 = Wrap
  BY WrapHalf
<1>6. m < 2 /\ m > -1
  <2>1. m >= 2 => Wrap * m >= 2 * Wrap
    BY WrapHalf
  <2> QED
    BY <1>1, <1>4, <1>5, <1>5a, <2>1, WrapHalf
<1>7. CASE m = 0
  <2>1. r = d
    BY <1>4, <1>5a, <1>7
  <2> QED
    BY <1>1, <2>1 DEF Signed, r
<1>8. CASE m = 1
  <2>1. r = d + Wrap
    BY <1>4, <1>5a, <1>8
  <2>2. r >= Wrap \div 2
    BY <1>1, <2>1, WrapHalf
  <2>3. Signed(r) = r - Wrap
    BY <1>1, <2>2, WrapHalf DEF Signed
  <2> QED
    BY <2>1, <2>3, WrapHalf DEF r
<1> QED
  BY <1>6, <1>7, <1>8

\* The difference of two counters is the real one, up to whole turns.
LEMMA DifferenceResidue ==
  ASSUME NEW x \in Int, NEW y \in Int
  PROVE  /\ Stored(x) - Stored(y) \in Int
         /\ \E m \in Int : Stored(x) - Stored(y) = (x - y) + Wrap * m
         /\ \E m \in Int : (Stored(x) - Stored(y)) % Wrap = (x - y) + Wrap * m
<1>1. PICK j \in Int : Stored(x) = x - Wrap * j
  BY Residue DEF Stored
<1>2. PICK k \in Int : Stored(y) = y - Wrap * k
  BY Residue DEF Stored
<1>3. \A a, b \in Int : Wrap * a - Wrap * b = Wrap * (a - b) /\ Wrap * a \in Int
  BY WrapHalf
<1> DEFINE e == Stored(x) - Stored(y)
<1>3a. /\ Wrap * k - Wrap * j = Wrap * (k - j)
       /\ Wrap * k \in Int
       /\ Wrap * j \in Int
  BY <1>3
<1>4. e \in Int /\ e = (x - y) + Wrap * (k - j)
  BY <1>1, <1>2, <1>3a
<1> HIDE DEF e
<1>5. PICK i \in Int : e % Wrap = e - Wrap * i
  BY <1>4, Residue
<1>5a. k - j \in Int
  OBVIOUS
<1>5b. /\ Wrap * (k - j) - Wrap * i = Wrap * ((k - j) - i)
       /\ Wrap * (k - j) \in Int
       /\ Wrap * i \in Int
  BY <1>3, <1>5a
<1>6. e % Wrap = (x - y) + Wrap * ((k - j) - i)
  BY <1>4, <1>5, <1>5b
<1>7. k - j \in Int /\ (k - j) - i \in Int
  OBVIOUS
<1> QED
  BY <1>4, <1>6, <1>7 DEF e

LEMMA SignedDifference ==
  ASSUME NEW x \in Int, NEW y \in Int,
         -(Wrap \div 2) <= x - y, x - y < Wrap \div 2
  PROVE  Signed((Stored(x) - Stored(y)) % Wrap) = x - y
<1>1. Stored(x) - Stored(y) \in Int
  BY DifferenceResidue
<1>2. PICK m \in Int : Stored(x) - Stored(y) = (x - y) + Wrap * m
  BY DifferenceResidue
<1> QED
  BY <1>1, <1>2, SignedOf

-----------------------------------------------------------------------------
(* The parent's reports                                                    *)

\* The deadline of the next tick is a tick interval past the last report, and
\* the parent has not passed it.
ReportsInv ==
  /\ pos \in Nat
  /\ reported \in Nat
  /\ nextTick = reported + TickEvery
  /\ reported <= pos
  /\ pos < nextTick

\* Read through the wrapping counters, the deadline is due when it is reached.
LEMMA TickDueExact ==
  ASSUME ReportsInv
  PROVE  TickDue <=> pos + 1 = nextTick
<1>1. TickEvery \in Nat /\ TickEvery <= Wrap \div 2 /\ Wrap \div 2 \in Nat
  BY PacingAssumption, WrapHalf DEF Silence
<1>2. /\ pos + 1 \in Int /\ nextTick \in Int
      /\ -(Wrap \div 2) <= (pos + 1) - nextTick
      /\ (pos + 1) - nextTick < Wrap \div 2
  BY <1>1, WrapHalf, PacingAssumption DEF ReportsInv, Silence
<1>3. Signed((Stored(pos + 1) - Stored(nextTick)) % Wrap) = (pos + 1) - nextTick
  BY <1>2, SignedDifference
<1> QED
  BY <1>1, <1>3 DEF TickDue, ReportsInv

\* The parent starts within its first tick interval.
LEMMA InitReports == Init => ReportsInv
  BY PacingAssumption DEF Init, ReportsInv

\* Each scanline and each clock keeps the deadline ahead of the parent.
LEMMA StepReports == ReportsInv /\ [Next]_vars => ReportsInv'
<1> SUFFICES ASSUME ReportsInv, [Next]_vars
             PROVE  ReportsInv'
  OBVIOUS
<1>0. TickEvery \in Nat /\ TickEvery > 0
  BY PacingAssumption
<1>1. CASE ParentLine
  <2>1. pos' = pos + 1
    BY <1>1 DEF ParentLine
  <2>2. CASE TickDue
    <3>1. nextTick' = pos + 1 + TickEvery /\ reported' = pos + 1
      BY <1>1, <2>2 DEF ParentLine
    <3> QED
      BY <1>0, <2>1, <3>1 DEF ReportsInv
  <2>3. CASE ~TickDue
    <3>1. UNCHANGED <<nextTick, reported>>
      BY <1>1, <2>3 DEF ParentLine
    <3> QED
      BY <1>0, <2>1, <2>3, <3>1, TickDueExact DEF ReportsInv
  <2> QED
    BY <2>2, <2>3
<1>2. CASE ParentClock
  BY <1>0, <1>2 DEF ParentClock, ReportsInv
<1>3. CASE ChildNext \/ UNCHANGED vars
  <2>1. UNCHANGED parentVars
    BY <1>3 DEF ChildNext, ChildReceive, ChildLine, ChildRuns, ChildWaits,
                ChildStarves, ChildStore, ChildCollects, ChildPark,
                ChildSelectMulti, vars
  <2> QED
    BY <2>1 DEF parentVars, ReportsInv
<1> QED
  BY <1>1, <1>2, <1>3 DEF Next, ParentNext

\* A parent that emulates reports: maybe_tick, asked at every scanline through
\* counters that wrap, lets no tick interval pass without a packet (cable.rs).
THEOREM ReportsInTime == Spec => []ParentReports
<1>1. ReportsInv => ParentReports
  BY PacingAssumption DEF ReportsInv, ParentReports
<1> QED
  BY <1>1, InitReports, StepReports, PTL DEF Spec

-----------------------------------------------------------------------------
(* The child keeps step                                                    *)

Packet == [tag : {"tick", "clock"}, at : Nat]

\* What is on the wire was sent by where the parent is, and not long before.
WireInv ==
  /\ wire \in Seq(Packet)
  /\ \A i \in 1..Len(wire) : wire[i].at <= pos /\ pos - wire[i].at <= MaxApart

\* The two ends are not far apart.
ApartInv ==
  /\ pos \in Nat
  /\ local \in Nat
  /\ pos - local <= MaxApart
  /\ local - pos <= MaxApart

\* While pacing is engaged its anchor is two positions of one moment, and what
\* was heard last is no older than the silence that would end it allows.
AnchorInv ==
  /\ anchor.ours \in Nat
  /\ anchor.theirs \in Nat
  /\ parentTime \in Nat
  /\ sinceParent \in Nat
  /\ anchor.ours - anchor.theirs >= -MaxApart
  /\ anchor.ours - anchor.theirs <= 2 * MaxApart
  /\ parentTime <= pos
  /\ sinceParent < Silence
  /\ local - parentTime - sinceParent <= 2 * MaxApart

PaceInv ==
  /\ WireInv
  /\ ApartInv
  /\ holdSpins \in Nat
  /\ engaged \in BOOLEAN
  /\ engaged <=> anchor # NoAnchor
  /\ engaged => AnchorInv

\* The constants' types.
LEMMA PaceConstants ==
  /\ MaxApart \in Nat
  /\ Silence \in Nat
  /\ Silence >= 2
  /\ Slack \in Nat
  BY PacingAssumption DEF Silence

\* Taking a packet leaves packets that were there before.
LEMMA WithoutWire ==
  ASSUME NEW s \in Seq(Packet), NEW i \in 1..Len(s)
  PROVE  /\ Without(s, i) \in Seq(Packet)
         /\ \A j \in 1..Len(Without(s, i)) :
              \E k \in 1..Len(s) : Without(s, i)[j] = s[k]
<1> DEFINE t == Without(s, i)
<1>1. t \in Seq(Packet)
  BY DEF Without
<1>2. Len(t) = Len(s) - 1 /\ Len(s) \in Nat
  BY LenProperties DEF Without
<1>3. \A j \in 1..Len(t) : t[j] = s[j] \/ t[j] = s[j + 1]
  BY <1>2 DEF Without
<1> QED
  BY <1>1, <1>2, <1>3

\* Every packet on the wire carries a position.
LEMMA WireElement ==
  ASSUME WireInv
  PROVE  \A j \in 1..Len(wire) : wire[j].at \in Nat
<1>1. \A j \in 1..Len(wire) : wire[j] \in Packet
  BY ElementOfSeq DEF WireInv
<1> QED
  BY <1>1 DEF Packet

\* Sending a packet adds it behind the others.
LEMMA AppendWire ==
  ASSUME NEW s \in Seq(Packet), NEW e \in Packet
  PROVE  /\ Append(s, e) \in Seq(Packet)
         /\ Len(Append(s, e)) = Len(s) + 1
         /\ Len(s) \in Nat
         /\ \A j \in 1..Len(s) : Append(s, e)[j] = s[j]
         /\ Append(s, e)[Len(s) + 1] = e
  BY AppendProperties, LenProperties

\* Both ends start at one position, with nothing on the wire.
LEMMA InitPace == Init => PaceInv
<1> SUFFICES ASSUME Init
             PROVE  PaceInv
  OBVIOUS
<1>1. WireInv
  <2>1. wire = <<>>
    BY DEF Init
  <2>2. wire \in Seq(Packet) /\ Len(wire) = 0
    BY <2>1, EmptySeq
  <2> QED
    BY <2>2 DEF WireInv
<1>2. ApartInv
  BY PaceConstants DEF Init, ApartInv
<1> QED
  BY <1>1, <1>2 DEF Init, PaceInv

\* The position a packet carries anchors the comparison, or moves it on.
LEMMA CreditPace ==
  ASSUME PaceInv, NEW at \in Nat, at <= pos, pos - at <= MaxApart, Credit(at),
         UNCHANGED <<pos, local>>, WireInv'
  PROVE  PaceInv'
<1>1. ApartInv'
  BY DEF PaceInv, ApartInv
<1>2. engaged' = TRUE /\ holdSpins' = 0 /\ sinceParent' = 0 /\ parentTime' = at
  BY DEF Credit
<1>3. CASE anchor = NoAnchor
  <2>1. anchor' = [ours |-> local, theirs |-> at]
    BY <1>3 DEF Credit
  <2>2. anchor'.ours = local /\ anchor'.theirs = at /\ local \in Nat
    BY <2>1 DEF PaceInv, ApartInv
  <2>3. anchor' # NoAnchor
    BY <2>2 DEF NoAnchor
  <2>4. AnchorInv'
    BY <1>2, <2>2, PaceConstants DEF PaceInv, ApartInv, AnchorInv
  <2> QED
    BY <1>1, <1>2, <2>3, <2>4 DEF PaceInv
<1>4. CASE anchor # NoAnchor
  <2>1. anchor' = anchor
    BY <1>4 DEF Credit
  <2>2. AnchorInv
    BY <1>4 DEF PaceInv
  <2>3. AnchorInv'
    BY <1>2, <2>1, <2>2, PaceConstants DEF PaceInv, ApartInv, AnchorInv
  <2> QED
    BY <1>1, <1>2, <1>4, <2>1, <2>3 DEF PaceInv
<1> QED
  BY <1>3, <1>4

\* Disengaging forgets the anchor, and with it all it had to satisfy.
LEMMA DisengagePace ==
  ASSUME Disengage, WireInv', ApartInv'
  PROVE  PaceInv'
  BY DEF Disengage, PaceInv

\* Every step of either end keeps the bounds pacing relies on.
LEMMA StepPace == PaceInv /\ [Next]_vars => PaceInv'
<1> SUFFICES ASSUME PaceInv, [Next]_vars
             PROVE  PaceInv'
  OBVIOUS
<1> USE PaceConstants
<1>0. WireInv /\ ApartInv
  BY DEF PaceInv
<1>1. CASE ParentLine
  <2>1. /\ pos' = pos + 1
        /\ pos + 1 - local <= MaxApart
        /\ \A i \in 1..Len(wire) : pos + 1 - wire[i].at <= MaxApart
        /\ UNCHANGED <<pacingVars, local>>
    BY <1>1 DEF ParentLine
  <2>2. ApartInv'
    BY <1>0, <2>1 DEF ApartInv
  <2>3. WireInv'
    <3>1. CASE TickDue
      <4> DEFINE e == [tag |-> "tick", at |-> pos + 1]
      <4>1. wire' = Append(wire, e)
        BY <1>1, <3>1 DEF ParentLine
      <4>2. e \in Packet /\ e.at = pos + 1
        BY <1>0 DEF Packet, ApartInv
      <4> HIDE DEF e
      <4>3. /\ wire' \in Seq(Packet)
            /\ Len(wire') = Len(wire) + 1
            /\ Len(wire) \in Nat
            /\ \A j \in 1..Len(wire) : wire'[j] = wire[j]
            /\ wire'[Len(wire) + 1] = e
        BY <1>0, <4>1, <4>2, AppendWire DEF WireInv
      <4>4. \A j \in 1..Len(wire) : wire[j].at \in Nat
        BY <1>0, WireElement
      <4>5. \A j \in 1..Len(wire') :
              wire'[j].at <= pos' /\ pos' - wire'[j].at <= MaxApart
        <5> TAKE j \in 1..Len(wire')
        <5>1. CASE j \in 1..Len(wire)
          BY <1>0, <2>1, <4>3, <4>4, <5>1 DEF WireInv, ApartInv
        <5>2. CASE j = Len(wire) + 1
          BY <1>0, <2>1, <4>2, <4>3, <5>2 DEF ApartInv
        <5> QED
          BY <4>3, <5>1, <5>2
      <4> QED
        BY <4>3, <4>5 DEF WireInv
    <3>2. CASE ~TickDue
      <4>1. wire' = wire
        BY <1>1, <3>2 DEF ParentLine
      <4>2. \A j \in 1..Len(wire) : wire[j].at \in Nat
        BY <1>0, WireElement
      <4> QED
        BY <1>0, <2>1, <4>1, <4>2 DEF WireInv, ApartInv
    <3> QED
      BY <3>1, <3>2
  <2>4. engaged => AnchorInv'
    <3> SUFFICES ASSUME engaged
                 PROVE  AnchorInv'
      OBVIOUS
    <3>1. AnchorInv
      BY DEF PaceInv
    <3> QED
      BY <1>0, <2>1, <3>1 DEF AnchorInv, ApartInv, pacingVars
  <2> QED
    BY <2>1, <2>2, <2>3, <2>4 DEF PaceInv, pacingVars
<1>2. CASE ParentClock
  <2> DEFINE e == [tag |-> "clock", at |-> pos]
  <2>1. wire' = Append(wire, e) /\ UNCHANGED <<pos, pacingVars, local>>
    BY <1>2 DEF ParentClock
  <2>2. e \in Packet /\ e.at = pos
    BY <1>0 DEF Packet, ApartInv
  <2> HIDE DEF e
  <2>3. /\ wire' \in Seq(Packet)
        /\ Len(wire') = Len(wire) + 1
        /\ Len(wire) \in Nat
        /\ \A j \in 1..Len(wire) : wire'[j] = wire[j]
        /\ wire'[Len(wire) + 1] = e
    BY <1>0, <2>1, <2>2, AppendWire DEF WireInv
  <2>4. WireInv'
    <3>1. \A j \in 1..Len(wire') :
            wire'[j].at <= pos' /\ pos' - wire'[j].at <= MaxApart
      <4> TAKE j \in 1..Len(wire')
      <4>1. CASE j \in 1..Len(wire)
        BY <1>0, <2>1, <2>3, <4>1 DEF WireInv
      <4>2. CASE j = Len(wire) + 1
        BY <1>0, <2>1, <2>2, <2>3, <4>2 DEF ApartInv
      <4> QED
        BY <2>3, <4>1, <4>2
    <3> QED
      BY <2>3, <3>1 DEF WireInv
  <2>5. ApartInv' /\ (AnchorInv => AnchorInv')
    BY <1>0, <2>1 DEF ApartInv, AnchorInv, pacingVars
  <2> QED
    BY <2>1, <2>4, <2>5 DEF PaceInv, pacingVars
<1>3. CASE ChildReceive
  <2>1. PICK i \in 1..Len(wire) :
          wire' = Without(wire, i) /\ Credit(wire[i].at) /\ UNCHANGED <<pos, local>>
    BY <1>3 DEF ChildReceive, parentVars
  <2>2. /\ wire' \in Seq(Packet)
        /\ \A j \in 1..Len(wire') : \E k \in 1..Len(wire) : wire'[j] = wire[k]
    BY <1>0, <2>1, WithoutWire DEF WireInv
  <2>3. WireInv'
    BY <1>0, <2>1, <2>2 DEF WireInv
  <2>4. wire[i].at \in Nat /\ wire[i].at <= pos /\ pos - wire[i].at <= MaxApart
    BY <1>0, WireElement DEF WireInv
  <2> QED
    BY <2>1, <2>3, <2>4, CreditPace
<1>4. CASE ChildLine
  <2>1. /\ local' = local + 1
        /\ local + 1 - pos <= MaxApart
        /\ UNCHANGED <<pos, wire>>
    BY <1>4 DEF ChildLine, parentVars
  <2>2. WireInv' /\ ApartInv'
    BY <1>0, <2>1 DEF WireInv, ApartInv
  <2>3. CASE ParentSilent
    <3>1. Disengage
      BY <1>4, <2>3 DEF ChildLine
    <3> QED
      BY <2>2, <3>1, DisengagePace
  <2>4. CASE ~ParentSilent
    <3>1. /\ sinceParent' = IF engaged THEN sinceParent + 1 ELSE sinceParent
          /\ UNCHANGED <<anchor, parentTime, engaged, holdSpins>>
      BY <1>4, <2>4 DEF ChildLine
    <3>2. engaged => AnchorInv'
      <4> SUFFICES ASSUME engaged
                   PROVE  AnchorInv'
        OBVIOUS
      <4>1. AnchorInv
        BY DEF PaceInv
      <4>2. sinceParent' = sinceParent + 1 /\ sinceParent + 1 < Silence
        BY <2>4, <3>1, <4>1 DEF ParentSilent, AnchorInv
      <4> QED
        BY <1>0, <2>1, <3>1, <4>1, <4>2 DEF AnchorInv, ApartInv
    <3> QED
      BY <2>2, <3>1, <3>2 DEF PaceInv
  <2> QED
    BY <2>3, <2>4
<1>5. CASE ChildRuns \/ ChildWaits
  <2>1. /\ holdSpins' = 0 \/ holdSpins' = holdSpins + 1
        /\ UNCHANGED <<pos, local, wire, anchor, parentTime, engaged, sinceParent>>
    BY <1>5 DEF ChildRuns, ChildWaits, parentVars
  <2> QED
    BY <2>1 DEF PaceInv, WireInv, ApartInv, AnchorInv
<1>6. CASE ChildStarves \/ ChildSelectMulti
  <2>1. Disengage /\ UNCHANGED <<pos, local, wire>>
    BY <1>6 DEF ChildStarves, ChildSelectMulti, parentVars
  <2>2. WireInv' /\ ApartInv'
    BY <1>0, <2>1 DEF WireInv, ApartInv
  <2> QED
    BY <2>1, <2>2, DisengagePace
<1>7. CASE ChildStore \/ ChildCollects \/ ChildPark \/ UNCHANGED vars
  <2>1. UNCHANGED <<pos, local, wire, pacingVars>>
    BY <1>7 DEF ChildStore, ChildCollects, ChildPark, vars, parentVars
  <2> QED
    BY <2>1 DEF PaceInv, WireInv, ApartInv, AnchorInv, pacingVars
<1> QED
  BY <1>1, <1>2, <1>3, <1>4, <1>5, <1>6, <1>7 DEF Next, ParentNext, ChildNext

\* Half a turn of the counters is more than pacing lets the two ends drift: the
\* silence that ends it, and the distances a report and its anchor can be off by.
HalfTurnIsEnough == Wrap \div 2 >= Silence + 3 * MaxApart

\* Then the lead the code computes, in counters that wrap, is the real one.
LEMMA LeadIsHeard ==
  ASSUME HalfTurnIsEnough, PaceInv, engaged
  PROVE  Lead = HeardLead /\ HeardLead \in Int
<1>1. AnchorInv /\ ApartInv
  BY DEF PaceInv
<1>2. local \in Int /\ anchor.ours \in Int /\ parentTime \in Int /\ anchor.theirs \in Int
  BY <1>1 DEF AnchorInv, ApartInv
<1> DEFINE d == HeardLead
           a == local - anchor.ours
           b == parentTime - anchor.theirs
           og == (Stored(local) - Stored(anchor.ours)) % Wrap
           tg == (Stored(parentTime) - Stored(anchor.theirs)) % Wrap
<1>3. /\ d \in Int /\ a \in Int /\ b \in Int
      /\ d = a - b
      /\ -(Wrap \div 2) <= d
      /\ d < Wrap \div 2
  BY <1>1, <1>2, PaceConstants, WrapHalf
     DEF HalfTurnIsEnough, AnchorInv, ApartInv, HeardLead
<1>4. \A x, y \in Int : \E m \in Int :
        (Stored(x) - Stored(y)) % Wrap = (x - y) + Wrap * m
  BY DifferenceResidue
<1>5. PICK m \in Int : og = a + Wrap * m
  BY <1>2, <1>4
<1>6. PICK n \in Int : tg = b + Wrap * n
  BY <1>2, <1>4
<1>7. Lead = Signed((og - tg) % Wrap)
  BY DEF Lead
<1> HIDE DEF d, a, b, og, tg
<1>8. /\ Wrap * m \in Int
      /\ Wrap * n \in Int
      /\ Wrap * m - Wrap * n = Wrap * (m - n)
  BY WrapHalf
<1>9. og - tg \in Int /\ og - tg = d + Wrap * (m - n)
  BY <1>3, <1>5, <1>6, <1>8
<1>10. Signed((og - tg) % Wrap) = d
  BY <1>3, <1>9, SignedOf
<1> QED
  BY <1>3, <1>7, <1>10 DEF d

\* A step that ends a wait, or prolongs one, does so on the real lead.
LEMMA StepKeeps ==
  ASSUME HalfTurnIsEnough, PaceInv, [Next]_vars
  PROVE  /\ stage = "hold" /\ stage' = "run" /\ engaged' /\ queued = 0 /\ ~Unarmed
              => TrueLead < Slack
         /\ holdSpins' > holdSpins => HeardLead >= Slack
<1> USE PaceConstants
<1>1. CASE ChildRuns
  <2>1. holdSpins' = 0 /\ holdSpins \in Nat /\ engaged' = engaged /\ ~MustWait
    BY <1>1 DEF ChildRuns, PaceInv
  <2>2. ASSUME engaged, queued = 0, ~Unarmed
        PROVE  TrueLead < Slack
    <3>1. AnchorInv /\ ApartInv /\ anchor # NoAnchor
      BY <2>2 DEF PaceInv
    <3>2. ~(Lead >= Slack)
      BY <2>1, <2>2, <3>1 DEF MustWait
    <3>3. Lead = HeardLead /\ HeardLead \in Int
      BY <2>2, LeadIsHeard
    <3>4. TrueLead \in Int /\ TrueLead <= HeardLead
      BY <3>1 DEF TrueLead, HeardLead, AnchorInv, ApartInv
    <3> QED
      BY <3>2, <3>3, <3>4
  <2> QED
    BY <2>1, <2>2
<1>2. CASE ChildWaits
  <2>1. stage' = stage /\ MustWait
    BY <1>2 DEF ChildWaits
  <2>2. engaged /\ Lead >= Slack
    BY <2>1 DEF MustWait
  <2> QED
    BY <2>1, <2>2, LeadIsHeard
<1>3. CASE ChildStarves \/ ChildSelectMulti
  <2>1. engaged' = FALSE /\ holdSpins' = 0 /\ holdSpins \in Nat
    BY <1>3 DEF ChildStarves, ChildSelectMulti, Disengage, PaceInv
  <2> QED
    BY <2>1
<1>4. CASE ChildReceive
  <2>1. stage' = stage /\ holdSpins' = 0 /\ holdSpins \in Nat
    BY <1>4 DEF ChildReceive, Credit, PaceInv
  <2> QED
    BY <2>1
<1>5. CASE ChildLine
  <2>1. stage = "run" /\ holdSpins \in Nat
    BY <1>5 DEF ChildLine, PaceInv
  <2>2. holdSpins' = 0 \/ holdSpins' = holdSpins
    BY <1>5 DEF ChildLine, Disengage
  <2> QED
    BY <2>1, <2>2
<1>6. CASE ParentNext \/ ChildStore \/ ChildCollects \/ ChildPark \/ UNCHANGED vars
  <2>1. stage' = stage /\ holdSpins' = holdSpins /\ holdSpins \in Nat
    BY <1>6 DEF ParentNext, ParentLine, ParentClock, ChildStore, ChildCollects,
                ChildPark, vars, pacingVars, PaceInv
  <2> QED
    BY <2>1
<1> QED
  BY <1>1, <1>2, <1>3, <1>4, <1>5, <1>6 DEF Next, ChildNext

\* The child waits when it is a frame ahead and only then (cable.rs hold, lead):
\* for every horizon, tick interval and patience, however late and disordered
\* the reports, as long as the counters' half turn exceeds the drift.
THEOREM StepKept == ASSUME HalfTurnIsEnough PROVE Spec => KeepsStep
<1>1. PaceInv /\ [Next]_vars =>
        [stage = "hold" /\ stage' = "run" /\ engaged' /\ queued = 0 /\ ~Unarmed
           => TrueLead < Slack]_vars
  BY StepKeeps
<1>2. PaceInv /\ [Next]_vars => [holdSpins' > holdSpins => HeardLead >= Slack]_vars
  BY StepKeeps
<1> QED
  BY <1>1, <1>2, InitPace, StepPace, PTL
     DEF Spec, KeepsStep, NeverAFrameAhead, WaitsOnlyWhenAhead
=============================================================================
