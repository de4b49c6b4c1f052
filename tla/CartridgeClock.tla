--------------------------- MODULE CartridgeClock ---------------------------
(***************************************************************************)
(* The cartridge's real-time clock (gba-core/src/rtc.rs), a chip on three  *)
(* wires, behind the cartridge's GPIO port (gba-core/src/sensor.rs), which *)
(* the game drives by storing a data and a direction register.             *)
(*                                                                         *)
(* CS low is idle and aborts.  While CS is high a bit is sampled off SIO   *)
(* while SCK is low and committed when it rises, least significant first;  *)
(* the first byte is a command, and what follows is written by the game or *)
(* answered by the chip, a bit per falling edge.  Meanwhile the front end  *)
(* moves the wall clock.                                                   *)
(*                                                                         *)
(* A byte is the sequence of its bits in the order they travel, so bit k   *)
(* of the code is element k + 1.                                           *)
(***************************************************************************)
EXTENDS Integers, Sequences

CONSTANTS
  GameBytes,    \* the bytes the game sends
  FirstDay, LastDay,  \* bound: the days on which a console may be switched on
  StartDays,    \* bound: those on which the game goes on to use the clock
  MaxTicks      \* bound: seconds that pass while it does

Bit == {0, 1}
Byte == [1..8 -> Bit]
Lines == {"sck", "sio", "cs"}

ASSUME ClockAssumption ==
  /\ GameBytes \subseteq Byte
  /\ FirstDay \in Nat /\ LastDay \in Nat /\ MaxTicks \in Nat
  /\ StartDays \subseteq Nat

VARIABLES
  dir, latch, pins,           \* the port: lines that are outputs, rtc_latch, rtc_pins
  bits, bitsRead,             \* the byte being received or sent, and how far
  bytesRemaining,
  command, active,            \* the byte taken as a command, command_active
  sckEdge, sioOut,            \* SCK as last seen, sio_output
  control, time,              \* control register; the seven bytes latched
  now, ticks,                 \* unix_time, as a day and a second of it
  running,                    \* has the game begun to use the port
  sent,                       \* history: bits committed since the last whole byte
  asked, at, wanted, falls    \* history: the command, the time it was given, the
                              \* control byte last written, bits answered

portVars == <<dir, latch, pins>>
chipVars == <<bits, bitsRead, bytesRemaining, command, active, sckEdge, sioOut,
              control, time>>
wallVars == <<now, ticks, running>>
history  == <<sent, asked, at, wanted, falls>>
vars == <<portVars, chipVars, wallVars, history>>

-----------------------------------------------------------------------------
(* The calendar                                                            *)

\* civil_from_days: the date of a day counted from 1970-01-01.
CivilJanuaryFirst(days) ==  \* mutant: a year that is not taken to begin in March
  LET z == days + 719468
      doe == z % 146097
      yoe == (doe - doe \div 1460 + doe \div 36524 - doe \div 146096) \div 365
      doy == doe - (365 * yoe + yoe \div 4 - yoe \div 100)
      mp  == (5 * doy + 2) \div 153
  IN  [y |-> yoe + 400 * (z \div 146097),
       m |-> IF mp < 10 THEN mp + 3 ELSE mp - 9,
       d |-> doy - (153 * mp + 2) \div 5 + 1]
CivilFromDays(days) ==
  LET z == days + 719468
      doe == z % 146097
      yoe == (doe - doe \div 1460 + doe \div 36524 - doe \div 146096) \div 365
      doy == doe - (365 * yoe + yoe \div 4 - yoe \div 100)
      mp  == (5 * doy + 2) \div 153
      m   == IF mp < 10 THEN mp + 3 ELSE mp - 9
  IN  [y |-> yoe + 400 * (z \div 146097) + (IF m <= 2 THEN 1 ELSE 0),
       m |-> m,
       d |-> doy - (153 * mp + 2) \div 5 + 1]

DaysFromCivil(date) ==
  LET y   == IF date.m <= 2 THEN date.y - 1 ELSE date.y
      yoe == y % 400
      mp  == IF date.m > 2 THEN date.m - 3 ELSE date.m + 9
      doy == (153 * mp + 2) \div 5 + date.d - 1
      doe == yoe * 365 + yoe \div 4 - yoe \div 100 + doy
  IN  (y \div 400) * 146097 + doe - 719468

\* bcd, as the bits that travel.
Weight == <<1, 2, 4, 8, 16, 32, 64, 128>>
Bcd(v) ==
  LET byte == (v % 10) + ((v \div 10) % 10) * 16
  IN  [k \in 1..8 |-> (byte \div Weight[k]) % 2]

LastSecond == 86399         \* of a day

\* DEFAULT_UNIX_TIME stands in for a clock nobody has set.
Unset == [day |-> 0, secs |-> 0]
WallTime == IF now = Unset THEN [day |-> 20454, secs |-> 0] ELSE now

\* latch: the seven bytes, by the control register's 24-hour bit.
TimeBytes(t, ctl) ==
  LET date == CivilFromDays(t.day)
      year == date.y - 2000
      hour == t.secs \div 3600
  IN  << Bcd(IF year < 0 THEN 0 ELSE IF year > 99 THEN 99 ELSE year),
         Bcd(date.m), Bcd(date.d), Bcd((t.day + 4) % 7),
         Bcd(IF ctl[7] = 1 THEN hour ELSE hour % 12),
         Bcd((t.secs \div 60) % 60), Bcd(t.secs % 60) >>

-----------------------------------------------------------------------------
(* Commands                                                                *)

Zero == [k \in 1..8 |-> 0]

IsCommand(b) == <<b[1], b[2], b[3], b[4]>> = <<0, 1, 1, 0>>
Code(b) == b[5] + 2 * b[6] + 4 * b[7]
Reads(b) == b[8] = 1

RESET    == 0
DATETIME == 2
CONTROL  == 4
TIME     == 6

\* COMMAND_BYTES
CommandBytes(b) ==
  CASE Code(b) = DATETIME -> 7 [] Code(b) = CONTROL -> 1 [] Code(b) = TIME -> 3
    [] OTHER -> 0

Answering == active /\ Reads(command)

\* output_bit: the time-only command reads the tail of the buffer.
OutputUnlatched ==          \* mutant: the clock as it is now
  CASE Code(command) = CONTROL -> control[bitsRead + 1]
    [] Code(command) \in {DATETIME, TIME} ->
         TimeBytes(WallTime, control)[7 - bytesRemaining + 1][bitsRead + 1]
    [] OTHER -> 1
OutputBit ==
  CASE Code(command) = CONTROL -> control[bitsRead + 1]
    [] Code(command) \in {DATETIME, TIME} -> time[7 - bytesRemaining + 1][bitsRead + 1]
    [] OTHER -> 1

\* bytes_remaining, which starts again when it runs out.
Reloaded(n) == IF n <= 0 THEN CommandBytes(command) ELSE n

-----------------------------------------------------------------------------
(* The chip: read_pins, its cases.  p is the state of the lines and d those *)
(* the game drives.                                                        *)

\* drive: the chip sets the lines that are not outputs.
Drive(p, d, sio) ==
  [l \in Lines |-> IF l \in d THEN p[l] ELSE IF l = "sio" THEN sio ELSE 0]

DeselectedKeepingBits(p, d) ==  \* mutant: an abort does not forget the bits
  /\ p.cs = 0
  /\ bytesRemaining' = 0
  /\ active' = FALSE /\ command' = Zero
  /\ sckEdge' = TRUE /\ sioOut' = 1
  /\ pins' = Drive(p, d, 1)
  /\ UNCHANGED <<bits, bitsRead, control, time>>

Deselected(p, d) ==
  /\ p.cs = 0
  /\ bitsRead' = 0 /\ bytesRemaining' = 0
  /\ active' = FALSE /\ command' = Zero
  /\ sckEdge' = TRUE /\ sioOut' = 1
  /\ pins' = Drive(p, d, 1)
  /\ UNCHANGED <<bits, control, time>>

\* The game sends: a bit is sampled while SCK is low ...
SamplesBit(p, d) ==
  /\ p.cs = 1 /\ ~Answering /\ p.sck = 0
  /\ pins' = Drive(p, d, 1)
  /\ bits' = [bits EXCEPT ![bitsRead + 1] = pins'.sio]
  /\ sckEdge' = FALSE
  /\ UNCHANGED <<bitsRead, bytesRemaining, command, active, sioOut, control, time>>

HighAgain(p, d) ==
  /\ p.cs = 1 /\ ~Answering /\ p.sck = 1 /\ sckEdge
  /\ pins' = Drive(p, d, 1)
  /\ UNCHANGED chipVars

\* begin_command
BeginCommand(b) ==
  IF IsCommand(b)
  THEN /\ command' = b /\ active' = TRUE
       /\ bytesRemaining' = CommandBytes(b)
       /\ control' = IF Code(b) = RESET THEN Zero ELSE control
       /\ time' = IF Code(b) \in {DATETIME, TIME} THEN TimeBytes(WallTime, control) ELSE time
  ELSE UNCHANGED <<command, active, bytesRemaining, control, time>>

\* process_byte
ProcessByteAny(b) ==        \* mutant: whatever is written sets the register
  /\ control' = b
  /\ bytesRemaining' = Reloaded(bytesRemaining - 1)
  /\ UNCHANGED <<command, active, time>>
ProcessByte(b) ==
  /\ control' = IF Code(command) = CONTROL THEN b ELSE control
  /\ bytesRemaining' = Reloaded(bytesRemaining - 1)
  /\ UNCHANGED <<command, active, time>>

\* ... and committed when it rises.  A payload bit that changes on the edge
\* itself reads as zero.
CommitsBit(p, d) ==
  /\ p.cs = 1 /\ ~Answering /\ p.sck = 1 /\ ~sckEdge
  /\ pins' = Drive(p, d, 1)
  /\ sckEdge' = TRUE
  /\ LET b == IF active /\ bits[bitsRead + 1] # pins'.sio
              THEN [bits EXCEPT ![bitsRead + 1] = 0] ELSE bits
     IN  IF bitsRead < 7
         THEN /\ bits' = b /\ bitsRead' = bitsRead + 1
              /\ UNCHANGED <<command, active, bytesRemaining, control, time>>
         ELSE /\ bits' = Zero /\ bitsRead' = 0
              /\ IF active THEN ProcessByte(b) ELSE BeginCommand(b)
  /\ UNCHANGED sioOut

\* The chip answers, a bit per falling edge, and holds it until the next.
AnswersBit(p, d) ==
  /\ p.cs = 1 /\ Answering /\ sckEdge /\ p.sck = 0
  /\ sioOut' = OutputBit
  /\ pins' = Drive(p, d, sioOut')
  /\ sckEdge' = FALSE
  /\ bitsRead' = (bitsRead + 1) % 8
  /\ bytesRemaining' = IF bitsRead = 7 THEN Reloaded(bytesRemaining - 1) ELSE bytesRemaining
  /\ UNCHANGED <<bits, command, active, control, time>>

HoldsBit(p, d) ==
  /\ p.cs = 1 /\ Answering /\ ~(sckEdge /\ p.sck = 0)
  /\ pins' = Drive(p, d, sioOut)
  /\ sckEdge' = (p.sck = 1)
  /\ UNCHANGED <<bits, bitsRead, bytesRemaining, command, active, sioOut, control, time>>

\* read_pins first takes the lines nobody drives low, SIO excepted.
ReadPins(q, d) ==
  LET p == Drive(q, d, q.sio)
  IN  \/ Deselected(p, d)
      \/ SamplesBit(p, d) \/ HighAgain(p, d) \/ CommitsBit(p, d)
      \/ AnswersBit(p, d) \/ HoldsBit(p, d)

-----------------------------------------------------------------------------
(* What the game has done, told from the lines alone                       *)

Edge(from, to) ==
  /\ pins.cs = 1 /\ pins'.cs = 1
  /\ pins.sck = from /\ pins'.sck = to

\* It has asked to read, and now only clocks.
Listening == asked # <<>> /\ Reads(asked)

Committed ==
  Append(sent, IF asked # <<>> /\ pins.sio # pins'.sio THEN 0 ELSE pins.sio)

Cycle(b) == IF CommandBytes(b) = 0 THEN 8 ELSE 8 * CommandBytes(b)

Remember ==
  \/ /\ pins'.cs = 0
     /\ sent' = <<>> /\ asked' = <<>> /\ falls' = 0
     /\ UNCHANGED <<at, wanted>>
  \/ /\ pins'.cs = 1 /\ Listening
     /\ falls' = IF Edge(1, 0) THEN (falls % Cycle(asked)) + 1 ELSE falls
     /\ UNCHANGED <<sent, asked, at, wanted>>
  \/ /\ pins'.cs = 1 /\ ~Listening /\ ~Edge(0, 1)
     /\ UNCHANGED history
  \/ /\ pins'.cs = 1 /\ ~Listening /\ Edge(0, 1)
     /\ \E b \in GameBytes : Committed = SubSeq(b, 1, Len(Committed))
     /\ LET whole == Len(Committed) = 8
            begun == whole /\ asked = <<>> /\ IsCommand(Committed)
        IN  /\ sent' = IF whole THEN <<>> ELSE Committed
            /\ asked' = IF begun THEN Committed ELSE asked
            /\ wanted' = IF begun /\ Code(Committed) = RESET THEN Zero
                         ELSE IF whole /\ asked # <<>> /\ Code(asked) = CONTROL
                              THEN Committed ELSE wanted
            /\ at' = IF begun /\ Code(Committed) \in {DATETIME, TIME}
                     THEN TimeBytes(WallTime, wanted) ELSE at
            /\ UNCHANGED falls

-----------------------------------------------------------------------------
(* The port: gpio_write                                                    *)

WriteData(v) ==
  /\ running
  /\ latch' = v
  /\ ReadPins([l \in Lines |-> IF l \in dir THEN v[l] ELSE pins[l]], dir)
  /\ Remember
  /\ UNCHANGED <<dir, wallVars>>

WriteDirection(d) ==
  /\ running
  /\ dir' = d
  /\ ReadPins([l \in Lines |-> IF l \in d THEN latch[l] ELSE pins[l]], d)
  /\ Remember
  /\ UNCHANGED <<latch, wallVars>>

\* A game sends with all three lines and listens with SIO let go.
Game ==
  \/ \E v \in [Lines -> Bit] : WriteData(v)
  \/ \E d \in {Lines, Lines \ {"sio"}} : WriteDirection(d)

-----------------------------------------------------------------------------
(* The front end pushes the wall clock before every frame                  *)

\* The console stays off for a day ...
NextDay ==
  /\ ~running /\ now # Unset /\ now.day < LastDay
  /\ now' = [now EXCEPT !.day = @ + 1]
  /\ UNCHANGED <<ticks, running, portVars, chipVars, history>>

\* ... or is switched on ...
SwitchOn ==
  /\ ~running /\ (now = Unset \/ now.day \in StartDays)
  /\ running' = TRUE
  /\ UNCHANGED <<now, ticks, portVars, chipVars, history>>

\* ... and the time goes on, whatever the game is in the middle of.
Second ==
  /\ running /\ now # Unset /\ ticks < MaxTicks
  /\ ticks' = ticks + 1
  /\ now' = IF now.secs = LastSecond THEN [day |-> now.day + 1, secs |-> 0]
            ELSE [now EXCEPT !.secs = @ + 1]
  /\ UNCHANGED <<running, portVars, chipVars, history>>

Init ==
  /\ dir = {} /\ latch = [l \in Lines |-> 0] /\ pins = [l \in Lines |-> 0]
  /\ bits = Zero /\ bitsRead = 0 /\ bytesRemaining = 0
  /\ command = Zero /\ active = FALSE /\ sckEdge = TRUE /\ sioOut = 1
  /\ control = Zero /\ time = [i \in 1..7 |-> Zero]
  /\ now \in [day : FirstDay..LastDay, secs : {LastSecond}] \cup {Unset}
  /\ ticks = 0 /\ running = FALSE
  /\ sent = <<>> /\ asked = <<>> /\ at = time /\ wanted = Zero /\ falls = 0

Next == Game \/ NextDay \/ SwitchOn \/ Second

Spec == Init /\ [][Next]_vars

-----------------------------------------------------------------------------
TypeOK ==
  /\ dir \subseteq Lines /\ latch \in [Lines -> Bit] /\ pins \in [Lines -> Bit]
  /\ bits \in Byte /\ bitsRead \in 0..7 /\ bytesRemaining \in 0..7
  /\ command \in Byte /\ active \in BOOLEAN /\ sckEdge \in BOOLEAN /\ sioOut \in Bit
  /\ control \in Byte /\ time \in [1..7 -> Byte]
  /\ now \in [day : Nat, secs : 0..LastSecond] /\ ticks \in 0..MaxTicks
  /\ running \in BOOLEAN
  /\ sent \in Seq(Bit) /\ asked \in {<<>>} \cup Byte /\ at \in [1..7 -> Byte]
  /\ wanted \in Byte /\ falls \in 0..56

\* What the chip has of a byte is what the game's edges carried since it was
\* selected, or since the last whole byte: nothing of a transfer that was
\* abandoned, however far it had got and wherever its clock was left (rtc.rs
\* read_pins; CS low aborts).
ReceivedAsSent ==
  /\ ~active <=> asked = <<>>
  /\ active => command = asked
  /\ ~Answering => bitsRead = Len(sent) /\ \A k \in 1..Len(sent) : bits[k] = sent[k]

\* The register holds the last byte the game wrote there whole, or the reset
\* after it: no other command's payload and no part of a byte (process_byte).
ControlAsWritten == control = wanted

\* What the game reads off SIO is, bit by bit and byte by byte, the time at the
\* edge that completed its command, in the format it had asked for then: one
\* instant, whatever the wall clock does before the last bit (latch).
Expected(k) ==
  LET byte == ((k - 1) \div 8) + 1
      bit  == ((k - 1) % 8) + 1
  IN  CASE Code(asked) = DATETIME -> at[byte][bit]
        [] Code(asked) = TIME -> at[byte + 4][bit]
        [] Code(asked) = CONTROL -> wanted[bit]
        [] OTHER -> 1
AnswerIsOneInstant ==
  (asked # <<>> /\ falls > 0 /\ "sio" \notin dir) => pins.sio = Expected(falls)

\* The calendar against its definition: a day is followed by the next, by the
\* lengths of the months and the leap years, and the two conversions agree
\* (civil_from_days, days_from_civil).
LeapYear(y) == y % 4 = 0 /\ (y % 100 # 0 \/ y % 400 = 0)
MonthLength(y, m) ==
  IF m = 2 THEN IF LeapYear(y) THEN 29 ELSE 28
  ELSE IF m \in {4, 6, 9, 11} THEN 30 ELSE 31
Tomorrow(date) ==
  IF date.d < MonthLength(date.y, date.m) THEN [date EXCEPT !.d = @ + 1]
  ELSE IF date.m < 12 THEN [y |-> date.y, m |-> date.m + 1, d |-> 1]
  ELSE [y |-> date.y + 1, m |-> 1, d |-> 1]
DatesFollow ==
  [][now'.day = now.day + 1 =>
       /\ CivilFromDays(now'.day) = Tomorrow(CivilFromDays(now.day))
       /\ DaysFromCivil(CivilFromDays(now'.day)) = now'.day]_vars
=============================================================================
