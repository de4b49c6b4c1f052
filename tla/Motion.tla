------------------------------- MODULE Motion -------------------------------
(***************************************************************************)
(* The cartridge's motion sensors and its motor (gba-core/src/sensor.rs):  *)
(* a gyro read a bit at a time, and a motor driven, over the four lines of *)
(* the GPIO port, or a tilt sensor of two axes in the upper half of the    *)
(* save memory's window.  The front end moves the player's hand and asks   *)
(* once a frame whether the motor ran; the game runs in between.           *)
(*                                                                         *)
(* The player's rate and tilt are whole numbers, Full of them to an end of *)
(* a scale; a gyro sample is SampleBits bits, of the 12.                   *)
(***************************************************************************)
EXTENDS Integers

CONSTANTS
  Rates, Full,     \* what the player does, and what deflects a sensor fully, a divisor of GyroCenter
  SampleBits, GyroCenter, TiltCenters,
  LineStores,          \* what the game stores in the data and direction registers
  MaxHands, MaxEdges   \* bounds: movements of the player; stores of the game

\* A sample fits its bits, and the four before it are zeros.
ASSUME MotionAssumption ==
  /\ Rates \subseteq Int /\ Full \in Nat \ {0} /\ SampleBits \in Nat /\ GyroCenter \in Nat
  /\ \A i \in 0..(SampleBits + 3) : 2 ^ i \in Nat \ {0} /\ (i >= SampleBits => 2 * GyroCenter < 2 ^ i)

Carts == {"gyro", "tilt", "motor"}

VARIABLES
  cart,                   \* what the cartridge carries; a gyro's has a motor too
  data, outputs, readable,    \* the port, each a set of lines
  gyro,                   \* the shifter: the sample latched, the bit it is at
  tilt,                   \* the axes latched, and whether they are ready
  seen,                   \* rumble_seen
  hand,                   \* in_gyro_z, in_accel_x, in_accel_y
  answer,                 \* what the last access or question was answered, and what it may be
  begun,                  \* history: hand at the last conversion, clocks since
  felt,                   \* history: since the last question, has the motor started, has it run
  hands, edges
motionvars == <<cart, data, outputs, readable, gyro, tilt, seen, hand, answer, begun, felt, hands, edges>>

Clamp(v) == IF v < -Full THEN -Full ELSE IF v > Full THEN Full ELSE v
Sample(rate) == GyroCenter + ((-rate) * GyroCenter) \div Full
Axes(x, y, ready) == [x |-> TiltCenters[1] + x, y |-> TiltCenters[2] - y, ready |-> ready]

Top(v, i) == (v \div 2 ^ i) % 2 = 1
HasRumble == cart \in {"gyro", "motor"}
RumbleOn(d, o) == HasRumble /\ 3 \in d \cap o

MotionInit ==
  /\ cart \in Carts
  /\ data = {} /\ outputs = {} /\ readable = FALSE
  /\ gyro = [sample |-> 0, bit |-> 0]
  /\ tilt = Axes(0, 0, TRUE)
  /\ seen = FALSE /\ hand = [z |-> 0, x |-> 0, y |-> 0]
  /\ answer = [is |-> 0, due |-> {0}]
  /\ begun = [hand |-> hand, clocks |-> 0, on |-> FALSE]
  /\ felt = [rose |-> FALSE, ran |-> FALSE] /\ hands = 0 /\ edges = 0

Silent == answer' = [is |-> 0, due |-> {0}]

\* set_gyroscope, set_accelerometer, between two frames or in the middle of a stream.
SetHand == \E v \in Rates, w \in Rates :
  /\ hands < MaxHands /\ hands' = hands + 1
  /\ hand' = [z |-> Clamp(v), x |-> Clamp(v), y |-> Clamp(w)]
  /\ Silent
  /\ UNCHANGED <<cart, data, outputs, readable, gyro, tilt, seen, begun, felt, edges>>

\* mutant: a conversion is started by a high line, not by its rise
StartsHigh(prev, val) == cart = "gyro" /\ 0 \in val \cap outputs
Starts(prev, val) == cart = "gyro" /\ 0 \in val \cap outputs /\ 0 \notin prev \cap outputs
Clocks(prev, val) == cart = "gyro" /\ 1 \in val \cap outputs /\ 1 \notin prev \cap outputs
Seen(d, o) == seen \/ RumbleOn(d, o)
Feel(on) == felt' = [rose |-> felt.rose \/ (on /\ ~RumbleOn(data, outputs)), ran |-> felt.ran \/ on]
Tap == edges < MaxEdges /\ edges' = edges + 1
DriveLines == \E val \in LineStores :
  LET latched == IF Starts(data, val) THEN [sample |-> Sample(hand.z), bit |-> 0] ELSE gyro
      rises   == 1 \in val \cap outputs /\ 1 \notin data \cap outputs
  IN  /\ cart # "tilt" /\ Tap
      /\ data' = val
      /\ seen' = Seen(val, outputs)
      /\ gyro' = IF Clocks(data, val) THEN [latched EXCEPT !.bit = @ + 1] ELSE latched
      /\ begun' = IF cart # "gyro" THEN begun
                  ELSE LET b == IF 0 \in val \cap outputs /\ 0 \notin data \cap outputs
                                THEN [hand |-> hand, clocks |-> 0, on |-> TRUE] ELSE begun
                       IN  IF rises THEN [b EXCEPT !.clocks = @ + 1] ELSE b
      /\ Feel(RumbleOn(val, outputs))
      /\ Silent
      /\ UNCHANGED <<cart, outputs, readable, tilt, hand, hands>>
TurnLines == \E val \in LineStores :
  /\ cart # "tilt" /\ Tap
  /\ outputs' = val
  /\ seen' = Seen(data, val)
  /\ Feel(RumbleOn(data, val))
  /\ Silent
  /\ UNCHANGED <<cart, data, readable, gyro, tilt, hand, begun, hands>>
OpenPort ==
  /\ cart # "tilt"
  /\ readable' = ~readable
  /\ Silent
  /\ UNCHANGED <<cart, data, outputs, gyro, tilt, seen, hand, begun, felt, hands, edges>>

\* Four zeros, the sample from the top, zeros for ever.
GyroBit == IF gyro.bit < 4 + SampleBits THEN Top(gyro.sample, 3 + SampleBits - gyro.bit) ELSE FALSE
ReadLines ==
  /\ cart # "tilt" /\ readable
  /\ answer' = [is |-> (data \cap outputs) \cup (IF cart = "gyro" /\ 2 \notin outputs /\ GyroBit THEN {2} ELSE {}),
                due |-> {(data \cap outputs) \cup
                         (IF 2 \notin outputs /\ begun.on /\ begun.clocks \in 4..3 + SampleBits
                             /\ Top(Sample(begun.hand.z), 3 + SampleBits - begun.clocks) THEN {2} ELSE {})}]
  /\ UNCHANGED <<cart, data, outputs, readable, gyro, tilt, seen, hand, begun, felt, hands, edges>>

\* The two writes that take a sample; the four bytes of the answer.
TiltStart ==
  /\ cart = "tilt" /\ Tap
  /\ tilt' = Axes(hand.x, hand.y, FALSE)
  /\ begun' = [begun EXCEPT !.hand = hand, !.on = TRUE]
  /\ Silent
  /\ UNCHANGED <<cart, data, outputs, readable, gyro, seen, hand, felt, hands>>
TiltFinish ==
  /\ cart = "tilt" /\ Tap
  /\ tilt' = [tilt EXCEPT !.ready = TRUE]
  /\ Silent
  /\ UNCHANGED <<cart, data, outputs, readable, gyro, seen, hand, begun, felt, hands>>
TiltRead ==
  /\ cart = "tilt"
  /\ answer' = [is |-> <<tilt.x, tilt.y, tilt.ready>>,
                due |-> {<<TiltCenters[1] + begun.hand.x, TiltCenters[2] - begun.hand.y, r>> : r \in BOOLEAN}]
  /\ UNCHANGED <<cart, data, outputs, readable, gyro, tilt, seen, hand, begun, felt, hands, edges>>

TakeRumble ==
  /\ HasRumble
  /\ answer' = [is |-> seen \/ RumbleOn(data, outputs),
                due |-> {b \in BOOLEAN : (felt.rose => b) /\ (b => felt.ran)}]
  /\ seen' = FALSE /\ felt' = [rose |-> FALSE, ran |-> RumbleOn(data, outputs)]
  /\ UNCHANGED <<cart, data, outputs, readable, gyro, tilt, hand, begun, hands, edges>>

MotionNext == SetHand \/ DriveLines \/ TurnLines \/ OpenPort \/ ReadLines
              \/ TiltStart \/ TiltFinish \/ TiltRead \/ TakeRumble
MotionSpec == MotionInit /\ [][MotionNext]_motionvars

-----------------------------------------------------------------------------
(* Properties *)

\* Every bit of a stream, and both axes of a pair, are those of the hand as it was
\* when the conversion was started, however it has moved since (sensor.rs 477-479,
\* 558-561); the motor is reported once it has started since the last question,
\* though it be off by then, and never when it has not run (sensor.rs 286-289).
AnswersAreOfTheirTime == answer.is \in answer.due
=============================================================================
