--------------------------- MODULE CartridgeProofs ---------------------------
(***************************************************************************)
(* Theorems about what is on the cartridge.                                *)
(*                                                                         *)
(* CartridgeClock, for whatever bytes a game sends, however it drives the  *)
(* lines and whenever the wall clock moves: the chip hears what was sent,  *)
(* keeps what was written, and answers from one instant, whose date is     *)
(* right for every day.                                                    *)
(*                                                                         *)
(* Motion: the gyro, the tilt sensor and the motor answer from the sample  *)
(* the game asked for.                                                     *)
(*                                                                         *)
(* Backup: a flash chip reads as the completed commands have made it, and  *)
(* an EEPROM brings the block that was asked for as it was last stored.    *)
(***************************************************************************)
EXTENDS CartridgeClock, Motion, Backup, SequenceTheorems, WellFoundedInduction, TLAPS

-----------------------------------------------------------------------------
(* The clock chip *)

\* A chip that is not selected remembers nothing of a transfer.
Idle ==
  pins.cs = 0 => /\ ~active /\ bitsRead = 0 /\ sckEdge
                 /\ sent = <<>> /\ asked = <<>>

\* The edge the chip waits for is the one the lines are about to make.
EdgeSeen == pins.cs = 1 => (sckEdge <=> pins.sck = 1)

\* While SCK is low the bit to be committed is the one on the line.
Sampled ==
  (pins.cs = 1 /\ ~Answering /\ pins.sck = 0) => bits[bitsRead + 1] = pins.sio

PortType ==
  /\ dir \subseteq Lines /\ latch \in [Lines -> Bit] /\ pins \in [Lines -> Bit]
ByteType ==
  /\ bits \in Byte /\ bitsRead \in 0..7 /\ active \in BOOLEAN /\ sckEdge \in BOOLEAN
  /\ sent \in Seq(Bit) /\ Len(sent) \in 0..7

ReceiveInv ==
  /\ PortType /\ ByteType /\ Idle /\ EdgeSeen /\ Sampled
  /\ ReceivedAsSent /\ ControlAsWritten

\* The time the chip has latched is the time the game asked for.
Latched == (asked # <<>> /\ Code(asked) \in {DATETIME, TIME}) => time = at

\* Where an answer has got to: Gone bits of it, or of its repetition, are out.
Gone == 8 * (CommandBytes(command) - bytesRemaining) + bitsRead
Progress ==
  Answering =>
    /\ falls \in 0..Cycle(asked)
    /\ CommandBytes(command) > 0 => Gone = falls % Cycle(asked)
    /\ falls > 0 => sioOut = Expected(falls)
    /\ (falls > 0 /\ "sio" \notin dir) => pins.sio = sioOut

\* Before that there is nothing to read.
NotAnswering == ~Answering => falls = 0

-----------------------------------------------------------------------------
(* The lines and the bytes                                                 *)

\* CS and SCK are what the game drives them to, or low; SIO is the game's or
\* the chip's.
LEMMA Lined ==
  ASSUME NEW q \in [Lines -> Bit], NEW d, NEW s \in Bit
  PROVE  /\ Drive(q, d, s) \in [Lines -> Bit]
         /\ Drive(q, d, s).cs = IF "cs" \in d THEN q.cs ELSE 0
         /\ Drive(q, d, s).sck = IF "sck" \in d THEN q.sck ELSE 0
         /\ Drive(q, d, s).sio = IF "sio" \in d THEN q.sio ELSE s
         /\ Drive(q, d, s).sio \in Bit
<1>1. 0 \in Bit BY DEF Bit
<1>2. \A l \in Lines : q[l] \in Bit OBVIOUS
<1>3. Drive(q, d, s) \in [Lines -> Bit]
  BY <1>1, <1>2 DEF Drive
<1>4. "cs" \in Lines /\ "sck" \in Lines /\ "sio" \in Lines BY DEF Lines
<1> QED BY <1>3, <1>4 DEF Drive

LEMMA Appended ==
  ASSUME NEW S, NEW s \in Seq(S), NEW x \in S
  PROVE  /\ Append(s, x) \in Seq(S)
         /\ Len(s) \in Nat /\ Len(Append(s, x)) = Len(s) + 1
         /\ \A k \in 1..Len(s) : Append(s, x)[k] = s[k]
         /\ Append(s, x)[Len(s) + 1] = x
  BY AppendProperties, LenProperties

LEMMA ByteIsSequence ==
  ASSUME NEW S, NEW b \in [1..8 -> S]
  PROVE  b \in Seq(S) /\ Len(b) = 8
<1>1. b \in UNION {[1..n -> S] : n \in Nat}
  BY 8 \in Nat
<1>2. b \in Seq(S) BY <1>1, SeqDef
<1>3. Len(b) \in Nat /\ 1..Len(b) = 1..8
  BY <1>2, LenProperties
<1>4. 8 \in 1..Len(b) /\ Len(b) + 1 \notin 1..Len(b)
  BY <1>3
<1>5. Len(b) + 1 \notin 1..8
  BY <1>3, <1>4
<1> QED BY <1>2, <1>3, <1>4, <1>5

\* Eight elements in the order they were appended are the sequence.
LEMMA Eighth ==
  ASSUME NEW S, NEW s \in Seq(S), NEW x \in S, NEW b \in [1..8 -> S]
  PROVE  (Len(s) = 7 /\ (\A k \in 1..7 : b[k] = s[k]) /\ b[8] = x)
           => Append(s, x) = b
<1>1. /\ Append(s, x) \in Seq(S) /\ Len(Append(s, x)) = Len(s) + 1
      /\ \A k \in 1..Len(s) : Append(s, x)[k] = s[k]
      /\ Append(s, x)[Len(s) + 1] = x
  BY Appended
<1>2. b \in Seq(S) /\ Len(b) = 8 BY ByteIsSequence
<1>3. ASSUME Len(s) = 7, \A k \in 1..7 : b[k] = s[k], b[8] = x
      PROVE  Append(s, x) = b
  <2>1. PICK t : t = Append(s, x) OBVIOUS
  <2>2. t \in Seq(S) /\ Len(t) = 8 /\ (\A k \in 1..7 : t[k] = s[k]) /\ t[8] = x
    BY <1>1, <1>3, <2>1
  <2>3. \A k \in 1..8 : t[k] = b[k]
    BY <1>3, <2>2
  <2>4. t = b BY <1>2, <2>2, <2>3, SeqEqual
  <2> QED BY <2>1, <2>4
<1> QED BY <1>3

-----------------------------------------------------------------------------
(* What the chip hears: read_pins case by case                             *)

\* A step of the port, as the lemmas below meet it.
Driven(p, d) ==
  /\ p \in [Lines -> Bit] /\ d \in SUBSET Lines
  /\ dir' = d /\ latch' \in [Lines -> Bit] /\ pins' \in [Lines -> Bit]
  /\ pins'.cs = p.cs /\ pins'.sck = p.sck /\ pins'.sio \in Bit

\* The chip answers exactly when the game listens.
LEMMA Hears ==
  ASSUME ReceiveInv
  PROVE  /\ Answering <=> Listening
         /\ active <=> asked # <<>>
         /\ active => command = asked
  BY DEF ReceiveInv, ReceivedAsSent, ByteType, Answering, Listening

LEMMA HearsDeselected ==
  ASSUME ReceiveInv, NEW p, NEW d, Driven(p, d), Deselected(p, d), Remember
  PROVE  ReceiveInv'
<1>1. /\ pins'.cs = 0 /\ bitsRead' = 0 /\ active' = FALSE /\ sckEdge' = TRUE
      /\ bits' = bits /\ control' = control
  BY DEF Driven, Deselected
<1>2. sent' = <<>> /\ asked' = <<>> /\ wanted' = wanted
  BY <1>1 DEF Remember
<1>3. PortType'
  BY DEF Driven, PortType
<1>4. ByteType'
  <2>1. sent' \in Seq(Bit) /\ Len(sent') = 0 BY <1>2, EmptySeq
  <2>2. active' \in BOOLEAN /\ sckEdge' \in BOOLEAN BY <1>1
  <2>3. bits' \in Byte /\ bitsRead' \in 0..7 BY <1>1 DEF ReceiveInv, ByteType
  <2> QED BY <2>1, <2>2, <2>3 DEF ByteType
<1>5. Idle' /\ EdgeSeen' /\ Sampled'
  BY <1>1, <1>2 DEF Idle, EdgeSeen, Sampled
<1>6. ReceivedAsSent'
  BY <1>1, <1>2, EmptySeq DEF ReceivedAsSent
<1>7. ControlAsWritten'
  BY <1>1, <1>2 DEF ReceiveInv, ControlAsWritten
<1> QED BY <1>3, <1>4, <1>5, <1>6, <1>7 DEF ReceiveInv

\* No edge that commits: nothing has been sent.
LEMMA NothingCommitted ==
  ASSUME ReceiveInv, NEW p, NEW d, Driven(p, d), Remember,
         p.cs = 1, ~Answering, p.sck = 0 \/ sckEdge
  PROVE  UNCHANGED history
<1>1. pins'.cs = 1 /\ ~Listening BY Hears DEF Driven
<1>2. ~Edge(0, 1)
  BY DEF Driven, Edge, ReceiveInv, EdgeSeen
<1> QED BY <1>1, <1>2 DEF Remember

LEMMA HearsSample ==
  ASSUME ReceiveInv, NEW p, NEW d, Driven(p, d), SamplesBit(p, d), Remember
  PROVE  ReceiveInv'
<1>1. /\ pins'.cs = 1 /\ pins'.sck = 0 /\ sckEdge' = FALSE /\ ~Answering
      /\ bits' = [bits EXCEPT ![bitsRead + 1] = pins'.sio]
      /\ bitsRead' = bitsRead /\ command' = command /\ active' = active
      /\ control' = control
  BY DEF Driven, SamplesBit
<1>2. sent' = sent /\ asked' = asked /\ wanted' = wanted
  <2>1. p.cs = 1 /\ p.sck = 0 BY DEF SamplesBit
  <2> QED BY <1>1, <2>1, NothingCommitted DEF history
<1>3. PortType'
  BY DEF Driven, PortType
<1>4. bits' \in Byte /\ bits'[bitsRead + 1] = pins'.sio
      /\ \A k \in 1..bitsRead : bits'[k] = bits[k]
  BY <1>1 DEF Driven, ReceiveInv, ByteType, Byte
<1>5. ByteType'
  BY <1>1, <1>2, <1>4 DEF ReceiveInv, ByteType
<1>6. Idle' /\ EdgeSeen' /\ Sampled'
  BY <1>1, <1>2, <1>4 DEF Idle, EdgeSeen, Sampled
<1>7. ReceivedAsSent'
  BY <1>1, <1>2, <1>4 DEF ReceiveInv, ReceivedAsSent, Answering
<1>8. ControlAsWritten'
  BY <1>1, <1>2 DEF ReceiveInv, ControlAsWritten
<1> QED BY <1>3, <1>5, <1>6, <1>7, <1>8 DEF ReceiveInv

LEMMA HearsHigh ==
  ASSUME ReceiveInv, NEW p, NEW d, Driven(p, d), HighAgain(p, d), Remember
  PROVE  ReceiveInv'
<1>1. /\ pins'.cs = 1 /\ pins'.sck = 1 /\ sckEdge /\ ~Answering
      /\ bits' = bits /\ bitsRead' = bitsRead /\ command' = command
      /\ active' = active /\ sckEdge' = sckEdge /\ control' = control
  BY DEF Driven, HighAgain, chipVars
<1>2. sent' = sent /\ asked' = asked /\ wanted' = wanted
  <2>1. p.cs = 1 BY DEF HighAgain
  <2> QED BY <1>1, <2>1, NothingCommitted DEF history
<1>3. PortType'
  BY DEF Driven, PortType
<1>4. ByteType'
  BY <1>1, <1>2 DEF ReceiveInv, ByteType
<1>5. Idle' /\ EdgeSeen' /\ Sampled'
  BY <1>1, <1>2 DEF Idle, EdgeSeen, Sampled
<1>6. ReceivedAsSent'
  BY <1>1, <1>2 DEF ReceiveInv, ReceivedAsSent, Answering
<1>7. ControlAsWritten'
  BY <1>1, <1>2 DEF ReceiveInv, ControlAsWritten
<1> QED BY <1>3, <1>4, <1>5, <1>6, <1>7 DEF ReceiveInv

\* While it answers the chip hears nothing, and the game sends nothing.
LEMMA HearsAnswer ==
  ASSUME ReceiveInv, NEW p, NEW d, Driven(p, d), AnswersBit(p, d) \/ HoldsBit(p, d),
         Remember
  PROVE  ReceiveInv'
<1>a. p.cs = 1 /\ Answering /\ bits' = bits /\ command' = command
      /\ active' = active /\ control' = control
  BY DEF AnswersBit, HoldsBit
<1>b. bitsRead' \in 0..7
  BY DEF AnswersBit, HoldsBit, ReceiveInv, ByteType
<1>c. sckEdge' \in BOOLEAN /\ (sckEdge' <=> p.sck = 1)
  <2>1. CASE AnswersBit(p, d)
    <3>1. p.sck = 0 /\ sckEdge' = FALSE BY <2>1 DEF AnswersBit
    <3>2. p.sck # 1 BY <3>1
    <3> QED BY <3>1, <3>2, Zenon
  <2>2. CASE HoldsBit(p, d)
    BY <2>2, Zenon DEF HoldsBit
  <2> QED BY <2>1, <2>2
<1>1. /\ pins'.cs = 1 /\ (sckEdge' <=> pins'.sck = 1)
      /\ bits' = bits /\ bitsRead' \in 0..7 /\ command' = command
      /\ active' = active /\ control' = control
  BY <1>a, <1>b, <1>c DEF Driven
<1>d. Answering /\ Answering'
  BY <1>a DEF Answering
<1>2. sent' = sent /\ asked' = asked /\ wanted' = wanted
  BY <1>1, <1>d, Hears DEF Remember
<1>3. PortType'
  BY DEF Driven, PortType
<1>4. ByteType'
  BY <1>1, <1>2, <1>c DEF ReceiveInv, ByteType
<1>5. Idle' /\ EdgeSeen' /\ Sampled'
  BY <1>1, <1>d DEF Idle, EdgeSeen, Sampled
<1>6. ReceivedAsSent'
  BY <1>1, <1>2, <1>d DEF ReceiveInv, ReceivedAsSent
<1>7. ControlAsWritten'
  BY <1>1, <1>2 DEF ReceiveInv, ControlAsWritten
<1> QED BY <1>3, <1>4, <1>5, <1>6, <1>7 DEF ReceiveInv

\* The bit the chip takes on a rising edge is the bit the game sent.
LEMMA SameBit ==
  ASSUME ReceiveInv, NEW p, NEW d, Driven(p, d), CommitsBit(p, d), Remember
  PROVE  \E x \in Bit :
           /\ Committed = Append(sent, x)
           /\ (IF active /\ bits[bitsRead + 1] # pins'.sio
               THEN [bits EXCEPT ![bitsRead + 1] = 0] ELSE bits)
                = [bits EXCEPT ![bitsRead + 1] = x]
<1>1. p.cs = 1 /\ p.sck = 1 /\ ~sckEdge /\ ~Answering
  BY DEF CommitsBit
<1>2. pins.cs \in Bit /\ pins.sck \in Bit /\ pins.sio \in Bit
  BY DEF ReceiveInv, PortType, Lines
<1>3. pins.cs = 1 /\ pins.sck = 0
  BY <1>1, <1>2 DEF ReceiveInv, Idle, EdgeSeen, Bit
<1>4. bits[bitsRead + 1] = pins.sio
  BY <1>1, <1>3 DEF ReceiveInv, Sampled
<1>5. bits \in Byte /\ bitsRead + 1 \in 1..8
  BY DEF ReceiveInv, ByteType
<1>6. bits = [bits EXCEPT ![bitsRead + 1] = pins.sio]
  BY <1>4, <1>5 DEF Byte
<1>7. CASE active /\ pins.sio # pins'.sio
  <2>1. Committed = Append(sent, 0)
    BY <1>7, Hears DEF Committed
  <2>2. 0 \in Bit BY DEF Bit
  <2> QED BY <1>7, <1>4, <2>1, <2>2
<1>8. CASE ~(active /\ pins.sio # pins'.sio)
  <2>1. Committed = Append(sent, pins.sio)
    BY <1>8, Hears DEF Committed
  <2> QED BY <1>8, <1>2, <1>4, <1>6, <2>1
<1> QED BY <1>7, <1>8

\* A bit that is not the last of its byte.
LEMMA HearsCommit ==
  ASSUME ReceiveInv, NEW p, NEW d, Driven(p, d), CommitsBit(p, d), Remember,
         bitsRead < 7
  PROVE  ReceiveInv'
<1>1. PICK x \in Bit :
        /\ Committed = Append(sent, x)
        /\ (IF active /\ bits[bitsRead + 1] # pins'.sio
            THEN [bits EXCEPT ![bitsRead + 1] = 0] ELSE bits)
             = [bits EXCEPT ![bitsRead + 1] = x]
  BY SameBit
<1>2. bits \in Byte /\ bitsRead \in 0..7 /\ sent \in Seq(Bit) /\ Len(sent) = bitsRead
      /\ \A k \in 1..bitsRead : bits[k] = sent[k]
  BY DEF CommitsBit, ReceiveInv, ByteType, ReceivedAsSent
<1>3. /\ Append(sent, x) \in Seq(Bit) /\ Len(Append(sent, x)) = Len(sent) + 1
      /\ \A k \in 1..Len(sent) : Append(sent, x)[k] = sent[k]
      /\ Append(sent, x)[Len(sent) + 1] = x
  <2>1. sent \in Seq(Bit) BY <1>2
  <2> HIDE DEF Bit
  <2> QED BY <2>1, Appended
<1>4. /\ pins'.cs = 1 /\ pins'.sck = 1 /\ sckEdge' = TRUE /\ ~Answering
      /\ bits' = [bits EXCEPT ![bitsRead + 1] = x] /\ bitsRead' = bitsRead + 1
      /\ command' = command /\ active' = active /\ control' = control
  BY <1>1 DEF Driven, CommitsBit
<1>5. Edge(0, 1) /\ ~Listening
  <2>1. p.cs = 1 /\ p.sck = 1 /\ ~sckEdge BY DEF CommitsBit
  <2>2. pins.cs \in Bit /\ pins.sck \in Bit
    BY DEF ReceiveInv, PortType, Lines
  <2>3. pins.cs = 1 /\ pins.sck = 0
    BY <2>1, <2>2 DEF ReceiveInv, Idle, EdgeSeen, Bit
  <2> QED BY <1>4, <2>3, Hears DEF Edge
<1>6. sent' = Append(sent, x) /\ asked' = asked /\ wanted' = wanted
  <2>1. Len(Committed) # 8 BY <1>1, <1>2, <1>3
  <2> QED BY <1>1, <1>4, <1>5, <2>1 DEF Remember
<1>7. PortType'
  BY DEF Driven, PortType
<1>8. bits' \in Byte /\ bits'[bitsRead'] = x /\ bitsRead' \in 1..7
      /\ \A k \in 1..bitsRead : bits'[k] = bits[k]
  BY <1>2, <1>4 DEF Byte
<1>9. ByteType'
  <2>1. active' \in BOOLEAN /\ sckEdge' \in BOOLEAN
    BY <1>4 DEF ReceiveInv, ByteType
  <2>2. sent' \in Seq(Bit) /\ Len(sent') \in 0..7
    BY <1>2, <1>3, <1>6
  <2> QED BY <1>8, <2>1, <2>2 DEF ByteType
<1>10. Idle' /\ EdgeSeen' /\ Sampled'
  BY <1>4 DEF Idle, EdgeSeen, Sampled
<1>11. ReceivedAsSent'
  <2>1. (~active' <=> asked' = <<>>) /\ (active' => command' = asked')
    BY <1>4, <1>6, Hears
  <2>2. bitsRead' = Len(sent')
    BY <1>2, <1>3, <1>4, <1>6
  <2>3. ASSUME NEW k \in 1..Len(sent') PROVE bits'[k] = sent'[k]
    <3>1. CASE k = bitsRead + 1
      BY <3>1, <1>2, <1>3, <1>4, <1>6, <1>8
    <3>2. CASE k # bitsRead + 1
      <4>1. k \in 1..bitsRead BY <3>2, <1>2, <1>4, <2>2
      <4> QED BY <4>1, <1>2, <1>3, <1>6, <1>8
    <3> QED BY <3>1, <3>2
  <2> QED BY <2>1, <2>2, <2>3 DEF ReceivedAsSent
<1>12. ControlAsWritten'
  BY <1>4, <1>6 DEF ReceiveInv, ControlAsWritten
<1> QED BY <1>7, <1>9, <1>10, <1>11, <1>12 DEF ReceiveInv

\* A byte b taken by the chip, and what the game meant by it.
Taken(b) ==
  /\ b # <<>>
  /\ pins'.cs = 1 /\ pins'.sck = 1 /\ sckEdge' = TRUE /\ ~Answering
  /\ bits' = Zero /\ bitsRead' = 0 /\ sioOut' = sioOut
  /\ active => ProcessByte(b)
  /\ ~active => BeginCommand(b)
  /\ sent' = <<>> /\ falls' = falls
  /\ asked' = IF asked = <<>> /\ IsCommand(b) THEN b ELSE asked
  /\ wanted' = IF asked = <<>> /\ IsCommand(b) /\ Code(b) = RESET THEN Zero
               ELSE IF asked # <<>> /\ Code(asked) = CONTROL THEN b ELSE wanted
  /\ at' = IF asked = <<>> /\ IsCommand(b) /\ Code(b) \in {DATETIME, TIME}
           THEN TimeBytes(WallTime, wanted) ELSE at

\* The last bit: the byte is what was sent, and the chip takes it for the same
\* thing as the game means it for.
LEMMA LastBit ==
  ASSUME ReceiveInv, NEW p, NEW d, Driven(p, d), CommitsBit(p, d), Remember,
         bitsRead = 7
  PROVE  \E b \in Byte : Taken(b)
<1>1. PICK x \in Bit :
        /\ Committed = Append(sent, x)
        /\ (IF active /\ bits[bitsRead + 1] # pins'.sio
            THEN [bits EXCEPT ![bitsRead + 1] = 0] ELSE bits)
             = [bits EXCEPT ![bitsRead + 1] = x]
  BY SameBit
<1>2. bits \in Byte /\ sent \in Seq(Bit) /\ Len(sent) = 7
      /\ \A k \in 1..7 : bits[k] = sent[k]
  BY DEF CommitsBit, ReceiveInv, ByteType, ReceivedAsSent
<1>3. PICK b : b = [bits EXCEPT ![8] = x] OBVIOUS
<1>4. b \in Byte /\ b[8] = x /\ \A k \in 1..7 : b[k] = sent[k]
  BY <1>2, <1>3 DEF Byte
<1>5. Committed = b
  <2>1. b \in [1..8 -> Bit] BY <1>4 DEF Byte
  <2>2. (Len(sent) = 7 /\ (\A k \in 1..7 : b[k] = sent[k]) /\ b[8] = x)
          => Append(sent, x) = b
    BY <1>2, <2>1, Eighth
  <2> QED BY <1>1, <1>2, <1>4, <2>2
<1>6. Len(b) = 8 /\ b # <<>>
  <2>1. b \in [1..8 -> Bit] BY <1>4 DEF Byte
  <2>2. b \in Seq(Bit) /\ Len(b) = 8
    <3> HIDE DEF Bit
    <3> QED BY <2>1, ByteIsSequence
  <2> QED BY <2>2, EmptySeq
<1>7. /\ pins'.cs = 1 /\ pins'.sck = 1 /\ sckEdge' = TRUE /\ ~Answering
      /\ bits' = Zero /\ bitsRead' = 0 /\ sioOut' = sioOut
      /\ active => ProcessByte(b)
      /\ ~active => BeginCommand(b)
  BY <1>1, <1>3 DEF Driven, CommitsBit
<1>8. Edge(0, 1) /\ ~Listening
  <2>1. p.cs = 1 /\ p.sck = 1 /\ ~sckEdge BY DEF CommitsBit
  <2>2. pins.cs \in Bit /\ pins.sck \in Bit
    BY DEF ReceiveInv, PortType, Lines
  <2>3. pins.cs = 1 /\ pins.sck = 0
    BY <2>1, <2>2 DEF ReceiveInv, Idle, EdgeSeen, Bit
  <2> QED BY <1>7, <2>3, Hears DEF Edge
<1>9. /\ sent' = <<>> /\ falls' = falls
      /\ asked' = IF asked = <<>> /\ IsCommand(b) THEN b ELSE asked
      /\ wanted' = IF asked = <<>> /\ IsCommand(b) /\ Code(b) = RESET THEN Zero
                   ELSE IF asked # <<>> /\ Code(asked) = CONTROL THEN b ELSE wanted
      /\ at' = IF asked = <<>> /\ IsCommand(b) /\ Code(b) \in {DATETIME, TIME}
               THEN TimeBytes(WallTime, wanted) ELSE at
  BY <1>5, <1>6, <1>7, <1>8 DEF Remember
<1> QED BY <1>4, <1>6, <1>7, <1>9 DEF Taken

LEMMA HearsByte ==
  ASSUME ReceiveInv, NEW p, NEW d, Driven(p, d), CommitsBit(p, d), Remember,
         bitsRead = 7
  PROVE  ReceiveInv'
<1>1. PICK b \in Byte : Taken(b) BY LastBit
<1>2. b # <<>> BY <1>1 DEF Taken
<1>3. /\ pins'.cs = 1 /\ pins'.sck = 1 /\ sckEdge' = TRUE /\ ~Answering
      /\ bits' = Zero /\ bitsRead' = 0
      /\ active => ProcessByte(b)
      /\ ~active => BeginCommand(b)
  BY <1>1 DEF Taken
<1>4. /\ sent' = <<>>
      /\ asked' = IF asked = <<>> /\ IsCommand(b) THEN b ELSE asked
      /\ wanted' = IF asked = <<>> /\ IsCommand(b) /\ Code(b) = RESET THEN Zero
                   ELSE IF asked # <<>> /\ Code(asked) = CONTROL THEN b ELSE wanted
  BY <1>1 DEF Taken
<1>5. PortType'
  BY DEF Driven, PortType
<1>6. active' \in BOOLEAN /\ (active' <=> asked' # <<>>) /\ (active' => command' = asked')
       /\ control' = wanted'
  <2>1. active \in BOOLEAN /\ control = wanted
    BY DEF ReceiveInv, ByteType, ControlAsWritten
  <2>2. CASE active
    <3>1. asked # <<>> /\ command = asked BY <2>2, Hears
    <3>2. /\ control' = IF Code(command) = CONTROL THEN b ELSE control
          /\ command' = command /\ active' = active
      BY <1>3, <2>2 DEF ProcessByte
    <3>3. asked' = asked /\ wanted' = IF Code(asked) = CONTROL THEN b ELSE wanted
      BY <1>4, <3>1
    <3> QED BY <2>1, <2>2, <3>1, <3>2, <3>3
  <2>3. CASE ~active /\ IsCommand(b)
    <3>1. asked = <<>> BY <2>3, Hears
    <3>2. /\ command' = b /\ active' = TRUE
          /\ control' = IF Code(b) = RESET THEN Zero ELSE control
      BY <1>3, <2>3 DEF BeginCommand
    <3>3. asked' = b /\ wanted' = IF Code(b) = RESET THEN Zero ELSE wanted
      BY <1>4, <2>3, <3>1
    <3> QED BY <2>1, <3>2, <3>3, <1>2
  <2>4. CASE ~active /\ ~IsCommand(b)
    <3>1. asked = <<>> BY <2>4, Hears
    <3>2. command' = command /\ active' = active /\ control' = control
      BY <1>3, <2>4 DEF BeginCommand
    <3>3. asked' = asked /\ wanted' = wanted
      BY <1>4, <2>4, <3>1
    <3> QED BY <2>1, <2>4, <3>1, <3>2, <3>3
  <2> QED BY <2>1, <2>2, <2>3, <2>4
<1>7. ByteType'
  <2>1. Zero \in Byte BY DEF Zero, Byte, Bit
  <2>2. sckEdge' \in BOOLEAN BY <1>3
  <2>3. sent' \in Seq(Bit) /\ Len(sent') = 0 BY <1>4, EmptySeq
  <2> QED BY <1>3, <1>6, <2>1, <2>2, <2>3 DEF ByteType
<1>8. Idle' /\ EdgeSeen' /\ Sampled'
  BY <1>3 DEF Idle, EdgeSeen, Sampled
<1>9. ReceivedAsSent'
  BY <1>3, <1>4, <1>6, EmptySeq DEF ReceivedAsSent
<1>10. ControlAsWritten'
  BY <1>6 DEF ControlAsWritten
<1> QED BY <1>5, <1>7, <1>8, <1>9, <1>10 DEF ReceiveInv

-----------------------------------------------------------------------------
(* Types, with the count of bytes on which an answer is indexed            *)

SerialType ==
  bits \in Byte /\ bitsRead \in 0..7 /\ sckEdge \in BOOLEAN /\ sioOut \in Bit
CommandType == command \in Byte /\ active \in BOOLEAN
RegisterType == control \in Byte /\ time \in [1..7 -> Byte]
WallType == now \in [day : Nat, secs : 0..LastSecond]

ChipType == PortType /\ SerialType /\ CommandType /\ RegisterType /\ WallType

\* How much of a payload is left; with none there is nothing to count.
Counting ==
  IF active /\ CommandBytes(command) > 0
  THEN bytesRemaining \in 1..CommandBytes(command)
  ELSE bytesRemaining = 0

LEMMA BcdIsByte ==
  ASSUME NEW v \in Int
  PROVE  Bcd(v) \in Byte
<1> DEFINE byte == (v % 10) + ((v \div 10) % 10) * 16
<1>1. byte \in Int OBVIOUS
<1> HIDE DEF byte
<1>2. ASSUME NEW k \in 1..8 PROVE (byte \div Weight[k]) % 2 \in Bit
  <2>1. Weight[k] \in {1, 2, 4, 8, 16, 32, 64, 128} BY DEF Weight
  <2>2. byte \div Weight[k] \in Int BY <1>1, <2>1
  <2> QED BY <2>2 DEF Bit
<1>3. Bcd(v) = [k \in 1..8 |-> (byte \div Weight[k]) % 2]
  BY DEF Bcd, byte
<1> QED BY <1>2, <1>3 DEF Byte

LEMMA DateIsNumbers ==
  ASSUME NEW days \in Nat
  PROVE  LET date == CivilFromDays(days)
         IN  date.y \in Int /\ date.m \in Int /\ date.d \in Int
<1> DEFINE z == days + 719468
           doe == z % 146097
           yoe == (doe - doe \div 1460 + doe \div 36524 - doe \div 146096) \div 365
           doy == doe - (365 * yoe + yoe \div 4 - yoe \div 100)
           mp  == (5 * doy + 2) \div 153
           m   == IF mp < 10 THEN mp + 3 ELSE mp - 9
           y   == yoe + 400 * (z \div 146097) + (IF m <= 2 THEN 1 ELSE 0)
           d   == doy - (153 * mp + 2) \div 5 + 1
<1>1. CivilFromDays(days) = [y |-> y, m |-> m, d |-> d]
  BY DEF CivilFromDays
<1>2. z \in Int /\ z \div 146097 \in Int /\ doe \in Int
  OBVIOUS
<1> HIDE DEF z, doe
<1>3. yoe \in Int BY <1>2
<1> HIDE DEF yoe
<1>4. doy \in Int BY <1>2, <1>3
<1> HIDE DEF doy
<1>5. mp \in Int BY <1>4
<1> HIDE DEF mp
<1>6. m \in Int BY <1>5
<1>7. d \in Int BY <1>4, <1>5
<1> HIDE DEF m, d
<1>8. y \in Int BY <1>2, <1>3, <1>6
<1> HIDE DEF y
<1> QED BY <1>1, <1>6, <1>7, <1>8

LEMMA SevenTuple ==
  ASSUME NEW S, NEW a \in S, NEW b \in S, NEW c \in S, NEW d \in S, NEW e \in S,
         NEW f \in S, NEW g \in S
  PROVE  <<a, b, c, d, e, f, g>> \in [1..7 -> S]
  OBVIOUS

LEMMA TimeIsBytes ==
  ASSUME NEW t, t.day \in Nat, t.secs \in Nat, NEW ctl
  PROVE  TimeBytes(t, ctl) \in [1..7 -> Byte]
<1> DEFINE date == CivilFromDays(t.day)
           year == date.y - 2000
           hour == t.secs \div 3600
           v == IF year < 0 THEN 0 ELSE IF year > 99 THEN 99 ELSE year
           h == IF ctl[7] = 1 THEN hour ELSE hour % 12
<1>1. TimeBytes(t, ctl) =
        << Bcd(v), Bcd(date.m), Bcd(date.d), Bcd((t.day + 4) % 7), Bcd(h),
           Bcd((t.secs \div 60) % 60), Bcd(t.secs % 60) >>
  BY DEF TimeBytes
<1>2. date.y \in Int /\ date.m \in Int /\ date.d \in Int
  BY DateIsNumbers
<1> HIDE DEF date
<1>3. v \in Int BY <1>2
<1>4. h \in Int /\ (t.day + 4) % 7 \in Int /\ (t.secs \div 60) % 60 \in Int
      /\ t.secs % 60 \in Int
  OBVIOUS
<1> HIDE DEF v, h
<1>5. /\ Bcd(v) \in Byte /\ Bcd(date.m) \in Byte /\ Bcd(date.d) \in Byte
      /\ Bcd((t.day + 4) % 7) \in Byte /\ Bcd(h) \in Byte
      /\ Bcd((t.secs \div 60) % 60) \in Byte /\ Bcd(t.secs % 60) \in Byte
  BY <1>2, <1>3, <1>4, BcdIsByte
<1> QED BY <1>1, <1>5, SevenTuple

LEMMA CommandLengths ==
  ASSUME NEW b \in Byte
  PROVE  /\ CommandBytes(b) \in 0..7
         /\ Code(b) = CONTROL => CommandBytes(b) = 1
         /\ Code(b) = TIME => CommandBytes(b) = 3
         /\ Code(b) = DATETIME => CommandBytes(b) = 7
         /\ Code(b) \notin {CONTROL, TIME, DATETIME} => CommandBytes(b) = 0
  BY DEF CommandBytes, CONTROL, TIME, DATETIME

\* The count after a byte: it never runs below nothing.
LEMMA Counted ==
  ASSUME NEW b \in Byte, b = command, Counting, bytesRemaining \in Int, active
  PROVE  IF CommandBytes(b) > 0
         THEN Reloaded(bytesRemaining - 1) \in 1..CommandBytes(b)
         ELSE Reloaded(bytesRemaining - 1) = 0
<1>1. CommandBytes(b) \in 0..7 BY CommandLengths
<1> QED BY <1>1 DEF Counting, Reloaded

\* What the chip puts on SIO is a bit.
LEMMA OutputIsBit ==
  ASSUME ChipType, Counting, Answering
  PROVE  OutputBit \in Bit
<1>1. bitsRead + 1 \in 1..8 BY DEF ChipType, SerialType, CommandType, RegisterType
<1>2. CASE Code(command) = CONTROL
  <2>1. OutputBit = control[bitsRead + 1]
    BY <1>2 DEF OutputBit, CONTROL, DATETIME, TIME
  <2>2. control \in Byte BY DEF ChipType, SerialType, CommandType, RegisterType
  <2>3. control[bitsRead + 1] \in Bit BY <1>1, <2>2 DEF Byte
  <2> QED BY <2>1, <2>3
<1>3. CASE Code(command) \in {DATETIME, TIME}
  <2>0. command \in Byte BY DEF ChipType, SerialType, CommandType, RegisterType
  <2>1. CommandBytes(command) \in 1..7
    <3>1. Code(command) = DATETIME \/ Code(command) = TIME BY <1>3
    <3> QED BY <2>0, <3>1, CommandLengths
  <2>2. bytesRemaining \in 1..7
    BY <2>1 DEF Counting, Answering
  <2>3. time[7 - bytesRemaining + 1] \in Byte
    <3>1. time \in [1..7 -> Byte] BY DEF ChipType, RegisterType
    <3> QED BY <2>2, <3>1
  <2>4. time[7 - bytesRemaining + 1][bitsRead + 1] \in Bit
    BY <1>1, <2>3 DEF Byte
  <2> QED BY <1>3, <2>4 DEF OutputBit, CONTROL, DATETIME, TIME
<1>4. CASE Code(command) \notin {CONTROL, DATETIME, TIME}
  BY <1>4 DEF OutputBit, Bit
<1> QED BY <1>2, <1>3, <1>4

\* Whatever the chip does, the lines stay lines and CS and SCK stay as driven.
LEMMA StaysDriven ==
  ASSUME NEW q \in [Lines -> Bit], NEW d \in SUBSET Lines, NEW p, p = Drive(q, d, q.sio),
         dir' = d, latch' \in [Lines -> Bit], NEW s \in Bit, pins' = Drive(p, d, s)
  PROVE  Driven(p, d) /\ PortType'
<1>1. q.sio \in Bit BY DEF Lines
<1>2. /\ p \in [Lines -> Bit]
      /\ p.cs = IF "cs" \in d THEN q.cs ELSE 0
      /\ p.sck = IF "sck" \in d THEN q.sck ELSE 0
  BY <1>1, Lined
<1>3. /\ pins' \in [Lines -> Bit] /\ pins'.sio \in Bit
      /\ pins'.cs = IF "cs" \in d THEN p.cs ELSE 0
      /\ pins'.sck = IF "sck" \in d THEN p.sck ELSE 0
  BY <1>2, Lined
<1>4. pins'.cs = p.cs /\ pins'.sck = p.sck BY <1>2, <1>3
<1> QED BY <1>2, <1>3, <1>4 DEF Driven, PortType

ReadCases(p, d) ==
  \/ Deselected(p, d) \/ SamplesBit(p, d) \/ HighAgain(p, d) \/ CommitsBit(p, d)
  \/ AnswersBit(p, d) \/ HoldsBit(p, d)

\* Most bits leave the command and its count as they were.
Kept ==
  /\ command' = command /\ active' = active /\ bytesRemaining' = bytesRemaining
  /\ control' = control /\ time' = time

LEMMA KeptTypes ==
  ASSUME CommandType, RegisterType, Counting, Kept
  PROVE  CommandType' /\ RegisterType' /\ Counting'
<1>1. CommandType' BY DEF Kept, CommandType
<1>2. RegisterType' BY DEF Kept, RegisterType
<1>3. CommandBytes(command)' = CommandBytes(command) BY DEF Kept, CommandBytes, Code
<1>4. Counting' BY <1>3 DEF Kept, Counting
<1> QED BY <1>1, <1>2, <1>4

\* A bit written at the place reached leaves a byte.
LEMMA BitSet ==
  ASSUME NEW b \in Byte, NEW i \in 1..8, NEW x \in Bit
  PROVE  [b EXCEPT ![i] = x] \in Byte
  BY DEF Byte

\* The types after any step but the last bit of a byte.
LEMMA ChipBit ==
  ASSUME ChipType, Counting, NEW p, NEW d, Driven(p, d), PortType', WallType',
         ReadCases(p, d), sioOut' \in Bit, ~(CommitsBit(p, d) /\ bitsRead = 7)
  PROVE  ChipType' /\ Counting'
<1>1. /\ bits \in Byte /\ bitsRead \in 0..7 /\ sckEdge \in BOOLEAN
      /\ CommandType /\ RegisterType
  BY DEF ChipType, SerialType
<1>2. bitsRead + 1 \in 1..8 BY <1>1
<1>3. pins'.sio \in Bit BY DEF Driven
<1> SUFFICES /\ bits' \in Byte /\ bitsRead' \in 0..7 /\ sckEdge' \in BOOLEAN
             /\ CommandType' /\ RegisterType' /\ Counting'
  BY DEF ChipType, SerialType
<1>4. CASE Deselected(p, d)
  <2>1. bits' = bits /\ bitsRead' = 0 /\ sckEdge' = TRUE
    BY <1>4 DEF Deselected
  <2>2. command' = Zero /\ active' = FALSE /\ bytesRemaining' = 0
    BY <1>4 DEF Deselected
  <2>3. control' = control /\ time' = time
    BY <1>4 DEF Deselected
  <2>4. Zero \in Byte BY DEF Zero, Byte, Bit
  <2>5. bits' \in Byte /\ bitsRead' \in 0..7 /\ sckEdge' \in BOOLEAN BY <1>1, <2>1
  <2>6. CommandType' /\ Counting' BY <2>2, <2>4 DEF CommandType, Counting
  <2>7. RegisterType' BY <1>1, <2>3 DEF RegisterType
  <2> QED BY <2>5, <2>6, <2>7
<1>5. CASE SamplesBit(p, d)
  <2>1. bits' = [bits EXCEPT ![bitsRead + 1] = pins'.sio] /\ bitsRead' = bitsRead
        /\ sckEdge' = FALSE
    BY <1>5 DEF SamplesBit
  <2>2. Kept BY <1>5 DEF SamplesBit, Kept
  <2>3. bits' \in Byte BY <1>1, <1>2, <1>3, <2>1, BitSet
  <2>4. bitsRead' \in 0..7 /\ sckEdge' \in BOOLEAN BY <1>1, <2>1
  <2>5. CommandType' /\ RegisterType' /\ Counting' BY <1>1, <2>2, KeptTypes
  <2> QED BY <2>3, <2>4, <2>5
<1>6. CASE HighAgain(p, d)
  <2>1. bits' = bits /\ bitsRead' = bitsRead /\ sckEdge' = sckEdge
    BY <1>6 DEF HighAgain, chipVars
  <2>2. Kept BY <1>6 DEF HighAgain, chipVars, Kept
  <2>3. bits' \in Byte /\ bitsRead' \in 0..7 /\ sckEdge' \in BOOLEAN BY <1>1, <2>1
  <2>4. CommandType' /\ RegisterType' /\ Counting' BY <1>1, <2>2, KeptTypes
  <2> QED BY <2>3, <2>4
<1>7. CASE CommitsBit(p, d)
  <2>1. PICK b : b = IF active /\ bits[bitsRead + 1] # pins'.sio
                     THEN [bits EXCEPT ![bitsRead + 1] = 0] ELSE bits
    OBVIOUS
  <2>2. bitsRead < 7 BY <1>1, <1>7
  <2>3. bits' = b /\ bitsRead' = bitsRead + 1 /\ sckEdge' = TRUE
    BY <1>7, <2>1, <2>2 DEF CommitsBit
  <2>4. Kept BY <1>7, <2>2 DEF CommitsBit, Kept
  <2>5. b \in Byte
    <3>1. 0 \in Bit BY DEF Bit
    <3> QED BY <1>1, <1>2, <2>1, <3>1, BitSet
  <2>6. bitsRead' \in 0..7 /\ sckEdge' \in BOOLEAN BY <1>1, <2>2, <2>3
  <2>7. CommandType' /\ RegisterType' /\ Counting' BY <1>1, <2>4, KeptTypes
  <2> QED BY <2>3, <2>5, <2>6, <2>7
<1>8. CASE AnswersBit(p, d)
  <2>1. bits' = bits /\ bitsRead' = (bitsRead + 1) % 8 /\ sckEdge' = FALSE
    BY <1>8 DEF AnswersBit
  <2>2. /\ active /\ command' = command /\ active' = active
        /\ bytesRemaining' = IF bitsRead = 7 THEN Reloaded(bytesRemaining - 1)
                             ELSE bytesRemaining
    BY <1>8 DEF AnswersBit, Answering
  <2>3. control' = control /\ time' = time BY <1>8 DEF AnswersBit
  <2>4. bitsRead' \in 0..7 /\ sckEdge' \in BOOLEAN
    <3>1. bitsRead' \in 0..7 BY <1>1, <2>1
    <3>2. sckEdge' \in BOOLEAN BY <2>1
    <3> QED BY <3>1, <3>2
  <2>5. CommandType' /\ RegisterType'
    BY <1>1, <2>2, <2>3 DEF CommandType, RegisterType
  <2>6. Counting'
    <3>1. command \in Byte BY <1>1 DEF CommandType
    <3>2. bytesRemaining \in Int
      <4>1. CommandBytes(command) \in 0..7 BY <3>1, CommandLengths
      <4> QED BY <4>1 DEF Counting
    <3>3. IF CommandBytes(command) > 0
          THEN Reloaded(bytesRemaining - 1) \in 1..CommandBytes(command)
          ELSE Reloaded(bytesRemaining - 1) = 0
      BY <3>1, <3>2, <2>2, Counted
    <3>4. CommandBytes(command)' = CommandBytes(command)
      BY <2>2 DEF CommandBytes, Code
    <3> QED BY <2>2, <3>3, <3>4 DEF Counting
  <2> QED BY <1>1, <2>1, <2>4, <2>5, <2>6
<1>9. CASE HoldsBit(p, d)
  <2>1. bits' = bits /\ bitsRead' = bitsRead BY <1>9 DEF HoldsBit
  <2>2. sckEdge' \in BOOLEAN
    <3>1. sckEdge' = (p.sck = 1) BY <1>9 DEF HoldsBit
    <3> QED BY <3>1, Zenon
  <2>3. Kept BY <1>9 DEF HoldsBit, Kept
  <2>4. CommandType' /\ RegisterType' /\ Counting' BY <1>1, <2>3, KeptTypes
  <2> QED BY <1>1, <2>1, <2>2, <2>4
<1> QED BY <1>4, <1>5, <1>6, <1>7, <1>8, <1>9 DEF ReadCases

\* ... and after the last bit.
LEMMA ChipByte ==
  ASSUME ChipType, Counting, NEW p, NEW d, Driven(p, d), PortType', WallType',
         CommitsBit(p, d), bitsRead = 7, sioOut' \in Bit
  PROVE  ChipType' /\ Counting'
<1>1. /\ bits \in Byte /\ command \in Byte /\ active \in BOOLEAN
      /\ CommandType /\ RegisterType
  BY DEF ChipType, SerialType, CommandType
<1>2. control \in Byte /\ time \in [1..7 -> Byte] BY <1>1 DEF RegisterType
<1>3. Zero \in Byte BY DEF Zero, Byte, Bit
<1>4. PICK b : b = IF active /\ bits[bitsRead + 1] # pins'.sio
                   THEN [bits EXCEPT ![bitsRead + 1] = 0] ELSE bits
  OBVIOUS
<1>5. b \in Byte
  <2>1. 0 \in Bit /\ bitsRead + 1 \in 1..8 BY DEF Bit
  <2> QED BY <1>1, <1>4, <2>1, BitSet
<1>6. bits' = Zero /\ bitsRead' = 0 /\ sckEdge' = TRUE
  BY <1>4 DEF CommitsBit
<1>7. (active => ProcessByte(b)) /\ (~active => BeginCommand(b))
  BY <1>4 DEF CommitsBit
<1>8. SerialType'
  <2>1. sckEdge' \in BOOLEAN BY <1>6
  <2>2. bits' \in Byte /\ bitsRead' \in 0..7 BY <1>3, <1>6
  <2> QED BY <2>1, <2>2 DEF SerialType
<1>9. CASE active
  <2>1. /\ control' = IF Code(command) = CONTROL THEN b ELSE control
        /\ bytesRemaining' = Reloaded(bytesRemaining - 1)
        /\ command' = command /\ active' = active /\ time' = time
    BY <1>7, <1>9 DEF ProcessByte
  <2>2. CommandType' /\ RegisterType'
    BY <1>1, <1>2, <1>5, <2>1 DEF CommandType, RegisterType
  <2>3. Counting'
    <3>1. bytesRemaining \in Int
      <4>1. CommandBytes(command) \in 0..7 BY <1>1, CommandLengths
      <4> QED BY <4>1 DEF Counting
    <3>2. IF CommandBytes(command) > 0
          THEN Reloaded(bytesRemaining - 1) \in 1..CommandBytes(command)
          ELSE Reloaded(bytesRemaining - 1) = 0
      BY <1>1, <1>9, <3>1, Counted
    <3>3. CommandBytes(command)' = CommandBytes(command)
      BY <2>1 DEF CommandBytes, Code
    <3> QED BY <1>9, <2>1, <3>2, <3>3 DEF Counting
  <2> QED BY <1>8, <2>2, <2>3 DEF ChipType
<1>10. CASE ~active /\ IsCommand(b)
  <2>1. /\ command' = b /\ active' = TRUE /\ bytesRemaining' = CommandBytes(b)
        /\ control' = IF Code(b) = RESET THEN Zero ELSE control
        /\ time' = IF Code(b) \in {DATETIME, TIME} THEN TimeBytes(WallTime, control) ELSE time
    BY <1>7, <1>10 DEF BeginCommand
  <2>2. CommandType'
    <3>1. active' \in BOOLEAN BY <2>1
    <3> QED BY <1>5, <2>1, <3>1 DEF CommandType
  <2>3. TimeBytes(WallTime, control) \in [1..7 -> Byte]
    <3>1. now.day \in Nat /\ now.secs \in Nat BY DEF ChipType, WallType
    <3>2. CASE now = Unset
      <4>1. WallTime = [day |-> 20454, secs |-> 0] BY <3>2 DEF WallTime
      <4> QED BY <4>1, TimeIsBytes
    <3>3. CASE now # Unset
      <4>1. WallTime = now BY <3>3 DEF WallTime
      <4> QED BY <3>1, <4>1, TimeIsBytes
    <3> QED BY <3>2, <3>3
  <2>4. RegisterType' BY <1>2, <1>3, <2>1, <2>3 DEF RegisterType
  <2>5. Counting'
    <3>1. CommandBytes(b) \in 0..7 BY <1>5, CommandLengths
    <3>2. command' = b /\ active' = TRUE /\ bytesRemaining' = CommandBytes(b) BY <2>1
    <3>3. CommandBytes(command)' = CommandBytes(b)
      BY <3>2 DEF CommandBytes, Code
    <3> QED BY <3>1, <3>2, <3>3 DEF Counting
  <2> QED BY <1>8, <2>2, <2>4, <2>5 DEF ChipType
<1>11. CASE ~active /\ ~IsCommand(b)
  <2>1. Kept BY <1>7, <1>11 DEF BeginCommand, Kept
  <2>2. CommandType' /\ RegisterType' /\ Counting' BY <1>1, <2>1, KeptTypes
  <2> QED BY <1>8, <2>2 DEF ChipType
<1> QED BY <1>9, <1>10, <1>11

-----------------------------------------------------------------------------
(* The theorems                                                            *)

\* A step of the game is one of the chip's cases, on lines as the game drives
\* them.
LEMMA PortStep ==
  ASSUME ChipType, Counting, NEW q \in [Lines -> Bit], NEW d \in SUBSET Lines,
         dir' = d, latch' \in [Lines -> Bit], WallType', ReadPins(q, d)
  PROVE  \E p : Driven(p, d) /\ ReadCases(p, d) /\ ChipType' /\ Counting'
<1>1. PICK p : p = Drive(q, d, q.sio) OBVIOUS
<1>2. ReadCases(p, d) BY <1>1 DEF ReadPins, ReadCases
<1>3. 1 \in Bit /\ sioOut \in Bit BY DEF ChipType, SerialType, Bit
<1>4. \E s \in Bit : pins' = Drive(p, d, s) /\ sioOut' \in Bit
  <2>1. CASE AnswersBit(p, d)
    <3>1. Answering /\ sioOut' = OutputBit /\ pins' = Drive(p, d, sioOut')
      BY <2>1 DEF AnswersBit
    <3>2. OutputBit \in Bit BY <3>1, OutputIsBit
    <3> QED BY <3>1, <3>2
  <2>2. CASE Deselected(p, d)
    BY <1>3, <2>2 DEF Deselected
  <2>3. CASE SamplesBit(p, d)
    BY <1>3, <2>3 DEF SamplesBit
  <2>4. CASE HighAgain(p, d)
    BY <1>3, <2>4 DEF HighAgain, chipVars
  <2>5. CASE CommitsBit(p, d)
    BY <1>3, <2>5 DEF CommitsBit
  <2>6. CASE HoldsBit(p, d)
    BY <1>3, <2>6 DEF HoldsBit
  <2> QED BY <1>2, <2>1, <2>2, <2>3, <2>4, <2>5, <2>6 DEF ReadCases
<1>5. Driven(p, d) /\ PortType'
  BY <1>1, <1>4, StaysDriven
<1>6. ChipType' /\ Counting'
  <2>1. CASE CommitsBit(p, d) /\ bitsRead = 7
    BY <1>4, <1>5, <2>1, ChipByte
  <2>2. CASE ~(CommitsBit(p, d) /\ bitsRead = 7)
    BY <1>2, <1>4, <1>5, <2>2, ChipBit
  <2> QED BY <2>1, <2>2
<1> QED BY <1>2, <1>5, <1>6

LEMMA HearsGame ==
  ASSUME ReceiveInv, NEW p, NEW d, Driven(p, d), ReadCases(p, d), Remember
  PROVE  ReceiveInv'
<1>1. bitsRead \in 0..7 BY DEF ReceiveInv, ByteType
<1>2. CASE CommitsBit(p, d)
  <2>1. CASE bitsRead < 7 BY <1>2, <2>1, HearsCommit
  <2>2. CASE bitsRead = 7 BY <1>2, <2>2, HearsByte
  <2> QED BY <1>1, <2>1, <2>2
<1>3. CASE Deselected(p, d) BY <1>3, HearsDeselected
<1>4. CASE SamplesBit(p, d) BY <1>4, HearsSample
<1>5. CASE HighAgain(p, d) BY <1>5, HearsHigh
<1>6. CASE AnswersBit(p, d) \/ HoldsBit(p, d) BY <1>6, HearsAnswer
<1> QED BY <1>2, <1>3, <1>4, <1>5, <1>6 DEF ReadCases

-----------------------------------------------------------------------------
(* What the game reads                                                     *)

AnswerInv ==
  /\ Latched /\ Progress /\ NotAnswering
  /\ wanted \in Byte /\ at \in [1..7 -> Byte] /\ falls \in Nat

\* Nothing but the end of a byte touches the time, the count or the command.
LEMMA SameAnswer ==
  ASSUME AnswerInv, ReceiveInv, ~Answering, command' = command, active' = active,
         time' = time, UNCHANGED history
  PROVE  AnswerInv'
<1>1. sent' = sent /\ asked' = asked /\ at' = at /\ wanted' = wanted /\ falls' = falls
  BY DEF history
<1>2. ~Answering' BY DEF Answering
<1>3. Progress' BY <1>2 DEF Progress
<1>4. NotAnswering' BY <1>1 DEF AnswerInv, NotAnswering
<1>5. Latched' BY <1>1 DEF AnswerInv, Latched
<1> QED BY <1>1, <1>3, <1>4, <1>5 DEF AnswerInv

LEMMA AnswerForgotten ==
  ASSUME AnswerInv, NEW p, NEW d, Driven(p, d), Deselected(p, d), Remember
  PROVE  AnswerInv'
<1>1. pins'.cs = 0 /\ active' = FALSE BY DEF Driven, Deselected
<1>2. asked' = <<>> /\ falls' = 0 /\ at' = at /\ wanted' = wanted
  BY <1>1 DEF Remember
<1>3. ~Answering' BY <1>1 DEF Answering
<1>4. Latched' /\ Progress' /\ NotAnswering' BY <1>2, <1>3 DEF Latched, Progress, NotAnswering
<1> QED BY <1>2, <1>4 DEF AnswerInv

\* A bit of a byte the game is still sending.
LEMMA AnswerUntouched ==
  ASSUME AnswerInv, ReceiveInv, NEW p, NEW d, Driven(p, d), Remember,
         \/ SamplesBit(p, d) \/ HighAgain(p, d)
         \/ CommitsBit(p, d) /\ bitsRead < 7
  PROVE  AnswerInv'
<1>1. CASE SamplesBit(p, d)
  <2>1. /\ p.cs = 1 /\ ~Answering /\ p.sck = 0
        /\ command' = command /\ active' = active /\ time' = time
    BY <1>1 DEF SamplesBit
  <2>2. UNCHANGED history BY <2>1, NothingCommitted
  <2> QED BY <2>1, <2>2, SameAnswer
<1>2. CASE HighAgain(p, d)
  <2>1. /\ p.cs = 1 /\ ~Answering /\ sckEdge
        /\ command' = command /\ active' = active /\ time' = time
    BY <1>2 DEF HighAgain, chipVars
  <2>2. UNCHANGED history BY <2>1, NothingCommitted
  <2> QED BY <2>1, <2>2, SameAnswer
<1>3. CASE CommitsBit(p, d) /\ bitsRead < 7
  <2>1. /\ p.cs = 1 /\ ~Answering
        /\ command' = command /\ active' = active /\ time' = time
    BY <1>3 DEF CommitsBit
  <2>2. asked' = asked /\ at' = at /\ wanted' = wanted /\ falls' = falls
    <3>1. ~Listening /\ pins'.cs = 1 BY <2>1, Hears DEF Driven
    <3>2. Len(Committed) # 8
      <4>1. PICK x \in Bit : Committed = Append(sent, x) BY <1>3, SameBit
      <4>2. sent \in Seq(Bit) /\ Len(sent) < 7
        BY <1>3, <2>1 DEF ReceiveInv, ByteType, ReceivedAsSent
      <4>3. Len(Append(sent, x)) = Len(sent) + 1
        <5> HIDE DEF Bit
        <5> QED BY <4>2, Appended
      <4> QED BY <4>1, <4>2, <4>3
    <3> QED BY <3>1, <3>2 DEF Remember, history
  <2>3. ~Answering' BY <2>1 DEF Answering
  <2>4. Latched' /\ Progress' /\ NotAnswering'
    BY <2>1, <2>2, <2>3 DEF AnswerInv, Latched, Progress, NotAnswering
  <2> QED BY <2>2, <2>4 DEF AnswerInv
<1> QED BY <1>1, <1>2, <1>3

\* The end of a byte, which may be the command that asks.
LEMMA AnswerAsked ==
  ASSUME AnswerInv, ReceiveInv, ChipType', NEW p, NEW d, Driven(p, d), Remember,
         CommitsBit(p, d), bitsRead = 7
  PROVE  AnswerInv'
<1>1. PICK b \in Byte : Taken(b) BY LastBit
<1>2. /\ wanted \in Byte /\ at \in [1..7 -> Byte] /\ falls = 0
      /\ ~Answering /\ falls' = falls
  BY <1>1 DEF AnswerInv, NotAnswering, Taken
<1>3. NotAnswering' BY <1>2 DEF NotAnswering
<1>4. wanted' \in Byte
  <2>1. Zero \in Byte BY DEF Zero, Byte, Bit
  <2> QED BY <1>1, <1>2, <2>1 DEF Taken
<1>5. CASE active
  <2>1. asked # <<>> BY <1>5, Hears
  <2>2. asked' = asked /\ at' = at BY <1>1, <2>1 DEF Taken
  <2>3. time' = time /\ command' = command /\ active' = active
    BY <1>1, <1>5 DEF Taken, ProcessByte
  <2>4. ~Answering' BY <1>2, <2>3 DEF Answering
  <2>5. Latched' BY <2>2, <2>3 DEF AnswerInv, Latched
  <2> QED BY <1>2, <1>3, <1>4, <2>2, <2>4, <2>5 DEF AnswerInv, Progress
<1>6. CASE ~active /\ IsCommand(b)
  <2>1. asked = <<>> BY <1>6, Hears
  <2>2. asked' = b /\ at' = IF Code(b) \in {DATETIME, TIME}
                            THEN TimeBytes(WallTime, wanted) ELSE at
    BY <1>1, <1>6, <2>1 DEF Taken
  <2>3. /\ command' = b /\ bytesRemaining' = CommandBytes(b)
        /\ time' = IF Code(b) \in {DATETIME, TIME} THEN TimeBytes(WallTime, control) ELSE time
    BY <1>1, <1>6 DEF Taken, BeginCommand
  <2>4. control = wanted BY DEF ReceiveInv, ControlAsWritten
  <2>5. Latched' BY <2>2, <2>3, <2>4 DEF Latched
  <2>6. at' \in [1..7 -> Byte]
    <3>1. time' \in [1..7 -> Byte] BY DEF ChipType, RegisterType
    <3> QED BY <1>2, <2>2, <2>3, <2>4, <3>1
  <2>7. Progress'
    <3>1. CommandBytes(b) \in 0..7 BY CommandLengths
    <3>2. Cycle(b) \in Nat \ {0} BY <3>1 DEF Cycle
    <3>3. Cycle(asked)' = Cycle(b) BY <2>2 DEF Cycle, CommandBytes, Code
    <3>4. Gone' = 0
      <4>1. CommandBytes(command)' = CommandBytes(b) BY <2>3 DEF CommandBytes, Code
      <4>2. bitsRead' = 0 BY <1>1 DEF Taken
      <4> QED BY <2>3, <3>1, <4>1, <4>2 DEF Gone
    <3>5. falls' = 0 /\ falls' \in 0..Cycle(b) /\ falls' % Cycle(b) = 0
      BY <1>2, <3>2
    <3> QED BY <3>3, <3>4, <3>5 DEF Progress
  <2> QED BY <1>2, <1>3, <1>4, <2>5, <2>6, <2>7 DEF AnswerInv
<1>7. CASE ~active /\ ~IsCommand(b)
  <2>1. asked' = asked /\ at' = at
    BY <1>1, <1>7 DEF Taken
  <2>2. time' = time /\ command' = command /\ active' = active
    BY <1>1, <1>7 DEF Taken, BeginCommand
  <2>3. ~Answering' BY <1>2, <2>2 DEF Answering
  <2>4. Latched' BY <2>1, <2>2 DEF AnswerInv, Latched
  <2> QED BY <1>2, <1>3, <1>4, <2>1, <2>3, <2>4 DEF AnswerInv, Progress
<1> QED BY <1>5, <1>6, <1>7

\* Between edges the bit is held.
LEMMA AnswerHeld ==
  ASSUME AnswerInv, ReceiveInv, ChipType, NEW p, NEW d, Driven(p, d), Remember,
         HoldsBit(p, d)
  PROVE  AnswerInv'
<1>1. /\ p.cs = 1 /\ Answering /\ pins' = Drive(p, d, sioOut)
      /\ ~(sckEdge /\ p.sck = 0)
      /\ bitsRead' = bitsRead /\ bytesRemaining' = bytesRemaining
      /\ command' = command /\ active' = active /\ sioOut' = sioOut /\ time' = time
  BY DEF HoldsBit
<1>2. pins'.cs = 1 /\ dir' = d /\ p \in [Lines -> Bit] /\ pins'.sck = p.sck
  BY <1>1 DEF Driven
<1>3. Listening BY <1>1, Hears
<1>4. ~Edge(1, 0) BY <1>1, <1>2 DEF Edge, ReceiveInv, EdgeSeen
<1>5. asked' = asked /\ at' = at /\ wanted' = wanted /\ falls' = falls
  BY <1>2, <1>3, <1>4 DEF Remember
<1>6. "sio" \notin d => pins'.sio = sioOut
  <2>1. sioOut \in Bit BY DEF ChipType, SerialType
  <2> QED BY <1>1, <1>2, <2>1, Lined
<1>7. Latched' BY <1>1, <1>5 DEF AnswerInv, Latched
<1>8. NotAnswering'
  <2>1. Answering' BY <1>1 DEF Answering
  <2> QED BY <2>1 DEF NotAnswering
<1>9. Progress'
  <2>1. Cycle(asked)' = Cycle(asked) /\ CommandBytes(command)' = CommandBytes(command)
    BY <1>1, <1>5 DEF Cycle, CommandBytes, Code
  <2>2. Gone' = Gone BY <1>1, <2>1 DEF Gone
  <2>3. Expected(falls)' = Expected(falls) BY <1>5 DEF Expected, Code
  <2> QED BY <1>1, <1>2, <1>5, <1>6, <2>1, <2>2, <2>3 DEF AnswerInv, Progress
<1> QED BY <1>5, <1>7, <1>8, <1>9 DEF AnswerInv

\* Counting bytes down and bits up comes to counting the bits that are out.
LEMMA NextBit ==
  ASSUME NEW c \in {1, 3, 7}, NEW r \in 1..c, NEW n \in 0..7, NEW f \in 0..(8 * c),
         8 * (c - r) + n = f % (8 * c)
  PROVE  LET k == (f % (8 * c)) + 1
             s == IF n = 7 THEN (IF r - 1 <= 0 THEN c ELSE r - 1) ELSE r
         IN  /\ k \in 1..(8 * c)
             /\ ((k - 1) \div 8) + 1 = c - r + 1
             /\ ((k - 1) % 8) + 1 = n + 1
             /\ 8 * (c - s) + ((n + 1) % 8) = k % (8 * c)
<1>1. CASE c = 1 BY <1>1
<1>2. CASE c = 3 BY <1>2
<1>3. CASE c = 7 BY <1>3
<1> QED BY <1>1, <1>2, <1>3

\* On the falling edge the next bit comes out, and it is the one due.
LEMMA AnswerGoesOn ==
  ASSUME AnswerInv, ReceiveInv, ChipType, Counting, NEW p, NEW d, Driven(p, d), Remember,
         AnswersBit(p, d)
  PROVE  AnswerInv'
<1>1. /\ p.cs = 1 /\ Answering /\ sckEdge /\ p.sck = 0
      /\ sioOut' = OutputBit /\ pins' = Drive(p, d, sioOut')
      /\ bitsRead' = (bitsRead + 1) % 8
      /\ bytesRemaining' = IF bitsRead = 7 THEN Reloaded(bytesRemaining - 1)
                           ELSE bytesRemaining
      /\ command' = command /\ active' = active /\ time' = time
  BY DEF AnswersBit
<1>2. pins'.cs = 1 /\ dir' = d /\ p \in [Lines -> Bit] /\ pins'.sck = 0
  BY <1>1 DEF Driven
<1>3. Listening /\ command = asked /\ asked # <<>>
  BY <1>1, Hears DEF Answering
<1>4. Edge(1, 0)
  <2>1. pins.cs \in Bit BY DEF ReceiveInv, PortType, Lines
  <2>2. pins.cs # 0 BY <1>1 DEF Answering, ReceiveInv, Idle
  <2>3. pins.cs = 1 BY <2>1, <2>2 DEF Bit
  <2>4. pins.sck = 1 BY <1>1, <2>3 DEF ReceiveInv, EdgeSeen
  <2> QED BY <1>2, <2>3, <2>4 DEF Edge
<1>5. /\ asked' = asked /\ at' = at /\ wanted' = wanted
      /\ falls' = (falls % Cycle(asked)) + 1
  BY <1>2, <1>3, <1>4 DEF Remember
<1>6. "sio" \notin d => pins'.sio = sioOut'
  <2>1. sioOut' \in Bit BY <1>1, OutputIsBit
  <2> QED BY <1>1, <1>2, <2>1, Lined
<1>7. Latched' BY <1>1, <1>5 DEF AnswerInv, Latched
<1>8. NotAnswering'
  <2>1. Answering' BY <1>1 DEF Answering
  <2> QED BY <2>1 DEF NotAnswering
<1>9. command \in Byte /\ control = wanted /\ bitsRead \in 0..7
  BY DEF ChipType, CommandType, SerialType, ReceiveInv, ControlAsWritten
<1>10. falls \in 0..Cycle(asked)
  BY <1>1 DEF AnswerInv, Progress
<1>11. /\ Cycle(asked)' = Cycle(asked) /\ CommandBytes(command)' = CommandBytes(command)
       /\ CommandBytes(command) = CommandBytes(asked)
  BY <1>1, <1>3, <1>5 DEF Cycle, CommandBytes, Code
<1>12. ASSUME CommandBytes(asked) \in {1, 3, 7}
       PROVE  /\ falls' \in 1..Cycle(asked) /\ Gone' = falls' % Cycle(asked)
              /\ ((falls' - 1) \div 8) + 1 = CommandBytes(asked) - bytesRemaining + 1
              /\ ((falls' - 1) % 8) + 1 = bitsRead + 1
              /\ bytesRemaining \in 1..CommandBytes(asked)
  <2>1. Cycle(asked) = 8 * CommandBytes(asked) BY <1>12 DEF Cycle
  <2>2. bytesRemaining \in 1..CommandBytes(asked)
    BY <1>1, <1>3, <1>12 DEF Counting, Answering
  <2>3. 8 * (CommandBytes(asked) - bytesRemaining) + bitsRead
          = falls % (8 * CommandBytes(asked))
    BY <1>1, <1>11, <1>12, <2>1 DEF AnswerInv, Progress, Gone
  <2>4. bytesRemaining' = IF bitsRead = 7
                          THEN (IF bytesRemaining - 1 <= 0 THEN CommandBytes(asked)
                                ELSE bytesRemaining - 1)
                          ELSE bytesRemaining
    BY <1>1, <1>11 DEF Reloaded
  <2>5. PICK c : c = CommandBytes(asked) OBVIOUS
  <2>6. PICK k : k = falls' OBVIOUS
  <2>7. PICK t : t = bytesRemaining' OBVIOUS
  <2>8. /\ c \in {1, 3, 7} /\ bytesRemaining \in 1..c /\ falls \in 0..(8 * c)
        /\ 8 * (c - bytesRemaining) + bitsRead = falls % (8 * c)
        /\ k = (falls % (8 * c)) + 1
        /\ t = IF bitsRead = 7
               THEN (IF bytesRemaining - 1 <= 0 THEN c ELSE bytesRemaining - 1)
               ELSE bytesRemaining
    BY <1>5, <1>10, <1>12, <2>1, <2>2, <2>3, <2>4, <2>5, <2>6, <2>7
  <2>9. /\ k \in 1..(8 * c)
        /\ ((k - 1) \div 8) + 1 = c - bytesRemaining + 1
        /\ ((k - 1) % 8) + 1 = bitsRead + 1
        /\ 8 * (c - t) + ((bitsRead + 1) % 8) = k % (8 * c)
    <3>1. LET j == (falls % (8 * c)) + 1
              s == IF bitsRead = 7
                   THEN (IF bytesRemaining - 1 <= 0 THEN c ELSE bytesRemaining - 1)
                   ELSE bytesRemaining
          IN  /\ j \in 1..(8 * c)
              /\ ((j - 1) \div 8) + 1 = c - bytesRemaining + 1
              /\ ((j - 1) % 8) + 1 = bitsRead + 1
              /\ 8 * (c - s) + ((bitsRead + 1) % 8) = j % (8 * c)
      BY <1>9, <2>8, NextBit
    <3>2. k = (falls % (8 * c)) + 1 BY <2>8
    <3> QED BY <2>8, <3>1, <3>2
  <2>10. Gone' = 8 * (c - t) + ((bitsRead + 1) % 8)
    BY <1>1, <1>11, <2>5, <2>7 DEF Gone
  <2> QED BY <2>1, <2>2, <2>5, <2>6, <2>9, <2>10
<1>13. sioOut' = Expected(falls)'
  <2>0. CommandBytes(asked) \in 0..7 BY <1>3, <1>9, CommandLengths
  <2>1. Expected(falls)' =
          LET byte == ((falls' - 1) \div 8) + 1
              bit  == ((falls' - 1) % 8) + 1
          IN  CASE Code(asked) = DATETIME -> at[byte][bit]
                [] Code(asked) = TIME -> at[byte + 4][bit]
                [] Code(asked) = CONTROL -> wanted[bit]
                [] OTHER -> 1
    BY <1>5 DEF Expected, Code
  <2>2. sioOut' = OutputBit /\ command = asked BY <1>1, <1>3
  <2>3. CASE Code(asked) = DATETIME
    <3>1. CommandBytes(asked) = 7 BY <1>3, <1>9, <2>3, CommandLengths
    <3>2. time = at BY <1>3, <2>3 DEF AnswerInv, Latched
    <3>3. Expected(falls)' = at[7 - bytesRemaining + 1][bitsRead + 1]
      BY <1>12, <2>1, <2>3, <3>1 DEF DATETIME, TIME, CONTROL
    <3>4. OutputBit = time[7 - bytesRemaining + 1][bitsRead + 1]
      BY <2>2, <2>3 DEF OutputBit, DATETIME, TIME, CONTROL
    <3> QED BY <2>2, <3>2, <3>3, <3>4
  <2>4. CASE Code(asked) = TIME
    <3>1. CommandBytes(asked) = 3 BY <1>3, <1>9, <2>4, CommandLengths
    <3>2. time = at BY <1>3, <2>4 DEF AnswerInv, Latched
    <3>3. Expected(falls)' = at[3 - bytesRemaining + 1 + 4][bitsRead + 1]
      BY <1>12, <2>1, <2>4, <3>1 DEF DATETIME, TIME, CONTROL
    <3>4. OutputBit = time[7 - bytesRemaining + 1][bitsRead + 1]
      BY <2>2, <2>4 DEF OutputBit, DATETIME, TIME, CONTROL
    <3>5. 3 - bytesRemaining + 1 + 4 = 7 - bytesRemaining + 1
      <4>1. bytesRemaining \in 1..3 BY <1>12, <3>1
      <4> QED BY <4>1
    <3> QED BY <2>2, <3>2, <3>3, <3>4, <3>5
  <2>5. CASE Code(asked) = CONTROL
    <3>1. CommandBytes(asked) = 1 BY <1>3, <1>9, <2>5, CommandLengths
    <3>2. Expected(falls)' = wanted[bitsRead + 1]
      BY <1>12, <2>1, <2>5, <3>1 DEF DATETIME, TIME, CONTROL
    <3>3. OutputBit = control[bitsRead + 1]
      BY <2>2, <2>5 DEF OutputBit, DATETIME, TIME, CONTROL
    <3> QED BY <1>9, <2>2, <3>2, <3>3
  <2>6. CASE Code(asked) \notin {DATETIME, TIME, CONTROL}
    <3>1. Expected(falls)' = 1 BY <2>1, <2>6
    <3>2. OutputBit = 1 BY <2>2, <2>6 DEF OutputBit
    <3> QED BY <2>2, <3>1, <3>2
  <2> QED BY <2>3, <2>4, <2>5, <2>6
<1>14. CommandBytes(asked) \in {0, 1, 3, 7}
  BY <1>3, <1>9, CommandLengths
<1>15. Progress'
  <2>1. falls' \in 0..Cycle(asked)
    <3>1. CASE CommandBytes(asked) = 0
      <4>1. Cycle(asked) = 8 BY <3>1 DEF Cycle
      <4> QED BY <1>5, <1>10, <4>1
    <3>2. CASE CommandBytes(asked) \in {1, 3, 7}
      <4>1. Cycle(asked) \in Nat BY <3>2 DEF Cycle
      <4> QED BY <1>12, <3>2, <4>1
    <3> QED BY <1>14, <3>1, <3>2
  <2>2. CommandBytes(asked) > 0 => Gone' = falls' % Cycle(asked)
    BY <1>12, <1>14
  <2> QED BY <1>2, <1>6, <1>11, <1>13, <2>1, <2>2 DEF Progress
<1>16. falls' \in Nat
  <2>1. PICK c : c = Cycle(asked) OBVIOUS
  <2>2. c \in {8, 24, 56}
    <3>1. CASE CommandBytes(asked) = 0 BY <2>1, <3>1 DEF Cycle
    <3>2. CASE CommandBytes(asked) = 1 BY <2>1, <3>2 DEF Cycle
    <3>3. CASE CommandBytes(asked) = 3 BY <2>1, <3>3 DEF Cycle
    <3>4. CASE CommandBytes(asked) = 7 BY <2>1, <3>4 DEF Cycle
    <3> QED BY <1>14, <3>1, <3>2, <3>3, <3>4
  <2>3. falls \in Nat /\ falls' = (falls % c) + 1 BY <1>5, <1>10, <2>1, <2>2
  <2> QED BY <2>2, <2>3
<1>17. wanted' \in Byte /\ at' \in [1..7 -> Byte]
  BY <1>5 DEF AnswerInv
<1> QED BY <1>7, <1>8, <1>15, <1>16, <1>17 DEF AnswerInv

-----------------------------------------------------------------------------
(* The theorems                                                            *)

Counters == ticks \in 0..MaxTicks /\ running \in BOOLEAN

ClockInv ==
  ChipType /\ Counting /\ ReceiveInv /\ AnswerInv /\ Counters

LEMMA ClockInit ==
  ASSUME Init
  PROVE  ClockInv
<1>1. Zero \in Byte /\ 0 \in Bit /\ 1 \in Bit BY DEF Zero, Byte, Bit
<1>2. /\ dir = {} /\ latch = [l \in Lines |-> 0] /\ pins = [l \in Lines |-> 0]
      /\ bits = Zero /\ bitsRead = 0 /\ bytesRemaining = 0
      /\ command = Zero /\ active = FALSE /\ sckEdge = TRUE /\ sioOut = 1
      /\ control = Zero /\ time = [i \in 1..7 |-> Zero]
      /\ now \in [day : FirstDay..LastDay, secs : {LastSecond}] \cup {Unset}
      /\ ticks = 0 /\ running = FALSE
      /\ sent = <<>> /\ asked = <<>> /\ at = time /\ wanted = Zero /\ falls = 0
  BY DEF Init
<1>3. PortType BY <1>1, <1>2 DEF PortType
<1>4. pins.cs = 0 BY <1>2 DEF Lines
<1>5. sent \in Seq(Bit) /\ Len(sent) = 0 BY <1>2, EmptySeq
<1>6. active \in BOOLEAN /\ sckEdge \in BOOLEAN /\ ~Answering /\ running \in BOOLEAN
  BY <1>2 DEF Answering
<1>7. SerialType /\ CommandType BY <1>1, <1>2, <1>6 DEF SerialType, CommandType
<1>8. RegisterType /\ at \in [1..7 -> Byte] BY <1>1, <1>2 DEF RegisterType
<1>9. WallType
  <2>1. LastSecond \in Nat BY DEF LastSecond
  <2>2. CASE now = Unset BY <2>1, <2>2 DEF Unset, WallType
  <2>3. CASE now \in [day : FirstDay..LastDay, secs : {LastSecond}]
    BY <2>1, <2>3, ClockAssumption DEF WallType
  <2> QED BY <1>2, <2>2, <2>3
<1>10. Counting BY <1>2 DEF Counting
<1>11. ByteType BY <1>1, <1>2, <1>5, <1>6 DEF ByteType
<1>12. Idle /\ EdgeSeen /\ Sampled BY <1>2, <1>4 DEF Idle, EdgeSeen, Sampled
<1>13. ReceivedAsSent BY <1>2, <1>5 DEF ReceivedAsSent
<1>14. ControlAsWritten BY <1>2 DEF ControlAsWritten
<1>15. Latched /\ Progress /\ NotAnswering BY <1>2, <1>6 DEF Latched, Progress, NotAnswering
<1>16. Counters BY <1>2, <1>6, ClockAssumption DEF Counters
<1>17. ReceiveInv BY <1>3, <1>11, <1>12, <1>13, <1>14 DEF ReceiveInv
<1>18. AnswerInv BY <1>1, <1>2, <1>8, <1>15 DEF AnswerInv
<1> QED BY <1>3, <1>7, <1>8, <1>9, <1>10, <1>16, <1>17, <1>18 DEF ClockInv, ChipType

\* A step of the game.
LEMMA GameStep ==
  ASSUME ClockInv, NEW q \in [Lines -> Bit], NEW d \in SUBSET Lines,
         dir' = d, latch' \in [Lines -> Bit], WallType', Counters', ReadPins(q, d),
         Remember
  PROVE  ClockInv'
<1>1. ChipType /\ Counting /\ ReceiveInv /\ AnswerInv BY DEF ClockInv
<1>2. PICK p : Driven(p, d) /\ ReadCases(p, d) /\ ChipType' /\ Counting'
  BY <1>1, PortStep
<1>3. ReceiveInv' BY <1>1, <1>2, HearsGame
<1>4. bitsRead \in 0..7 BY <1>1 DEF ChipType, SerialType
<1>5. AnswerInv'
  <2>1. CASE Deselected(p, d) BY <1>1, <1>2, <2>1, AnswerForgotten
  <2>2. CASE SamplesBit(p, d) \/ HighAgain(p, d) BY <1>1, <1>2, <2>2, AnswerUntouched
  <2>3. CASE CommitsBit(p, d) /\ bitsRead < 7 BY <1>1, <1>2, <2>3, AnswerUntouched
  <2>4. CASE CommitsBit(p, d) /\ bitsRead = 7 BY <1>1, <1>2, <2>4, AnswerAsked
  <2>5. CASE AnswersBit(p, d) BY <1>1, <1>2, <2>5, AnswerGoesOn
  <2>6. CASE HoldsBit(p, d) BY <1>1, <1>2, <2>6, AnswerHeld
  <2>7. bitsRead < 7 \/ bitsRead = 7 BY <1>4
  <2> QED BY <1>2, <2>1, <2>2, <2>3, <2>4, <2>5, <2>6, <2>7 DEF ReadCases
<1> QED BY <1>2, <1>3, <1>5 DEF ClockInv

\* A step the chip does not see.
LEMMA Unseen ==
  ASSUME ClockInv, UNCHANGED <<portVars, chipVars, history>>, WallType', Counters'
  PROVE  ClockInv'
<1>1. dir' = dir /\ latch' = latch /\ pins' = pins BY DEF portVars
<1>2. /\ bits' = bits /\ bitsRead' = bitsRead /\ bytesRemaining' = bytesRemaining
      /\ command' = command /\ active' = active /\ sckEdge' = sckEdge
      /\ sioOut' = sioOut /\ control' = control /\ time' = time
  BY DEF chipVars
<1>3. /\ sent' = sent /\ asked' = asked /\ at' = at /\ wanted' = wanted
      /\ falls' = falls
  BY DEF history
<1>4. Answering' <=> Answering BY <1>2 DEF Answering
<1>5. CommandBytes(command)' = CommandBytes(command) /\ Cycle(asked)' = Cycle(asked)
  BY <1>2, <1>3 DEF CommandBytes, Cycle, Code
<1>6. PortType' BY <1>1 DEF ClockInv, ChipType, PortType
<1>7. SerialType' BY <1>2 DEF ClockInv, ChipType, SerialType
<1>8. CommandType' /\ RegisterType'
  BY <1>2 DEF ClockInv, ChipType, CommandType, RegisterType
<1>9. Counting' BY <1>2, <1>5 DEF ClockInv, Counting
<1>10. ByteType' BY <1>2, <1>3 DEF ClockInv, ReceiveInv, ByteType
<1>11. Idle' /\ EdgeSeen' /\ Sampled'
  BY <1>1, <1>2, <1>3, <1>4 DEF ClockInv, ReceiveInv, Idle, EdgeSeen, Sampled
<1>12. ReceivedAsSent' /\ ControlAsWritten'
  BY <1>2, <1>3, <1>4 DEF ClockInv, ReceiveInv, ReceivedAsSent, ControlAsWritten
<1>13. AnswerInv'
  <2>1. Expected(falls)' = Expected(falls) BY <1>3 DEF Expected, Code
  <2>2. Gone' = Gone BY <1>2, <1>5 DEF Gone
  <2>3. Progress'
    BY <1>1, <1>2, <1>3, <1>4, <1>5, <2>1, <2>2 DEF ClockInv, AnswerInv, Progress
  <2>4. Latched' /\ NotAnswering'
    BY <1>2, <1>3, <1>4 DEF ClockInv, AnswerInv, Latched, NotAnswering
  <2> QED BY <1>3, <2>3, <2>4 DEF ClockInv, AnswerInv
<1> QED BY <1>6, <1>7, <1>8, <1>9, <1>10, <1>11, <1>12, <1>13
        DEF ClockInv, ChipType, ReceiveInv

LEMMA ClockNext ==
  ASSUME ClockInv, [Next]_vars
  PROVE  ClockInv'
<1>1. /\ dir \subseteq Lines /\ latch \in [Lines -> Bit] /\ pins \in [Lines -> Bit]
      /\ now \in [day : Nat, secs : 0..LastSecond]
  BY DEF ClockInv, ChipType, PortType, WallType
<1>2. ASSUME NEW v \in [Lines -> Bit], WriteData(v)
      PROVE  ClockInv'
  <2>1. PICK q : q = [l \in Lines |-> IF l \in dir THEN v[l] ELSE pins[l]] OBVIOUS
  <2>2. q \in [Lines -> Bit] BY <1>1, <2>1
  <2>3. dir' = dir /\ latch' = v /\ now' = now /\ ticks' = ticks /\ running' = running
    BY <1>2 DEF WriteData, wallVars
  <2>4. WallType' /\ Counters' BY <2>3 DEF ClockInv, ChipType, WallType, Counters
  <2>5. ReadPins(q, dir) /\ Remember BY <1>2, <2>1 DEF WriteData
  <2>6. dir \in SUBSET Lines /\ latch' \in [Lines -> Bit] BY <1>1, <1>2, <2>3
  <2> QED BY <2>2, <2>3, <2>4, <2>5, <2>6, GameStep
<1>3. ASSUME NEW d \in {Lines, Lines \ {"sio"}}, WriteDirection(d)
      PROVE  ClockInv'
  <2>1. PICK q : q = [l \in Lines |-> IF l \in d THEN latch[l] ELSE pins[l]] OBVIOUS
  <2>2. q \in [Lines -> Bit] BY <1>1, <2>1
  <2>3. dir' = d /\ latch' = latch /\ now' = now /\ ticks' = ticks /\ running' = running
    BY <1>3 DEF WriteDirection, wallVars
  <2>4. WallType' /\ Counters' BY <2>3 DEF ClockInv, ChipType, WallType, Counters
  <2>5. ReadPins(q, d) /\ Remember BY <1>3, <2>1 DEF WriteDirection
  <2>6. d \in SUBSET Lines /\ latch' \in [Lines -> Bit] BY <1>1, <1>3, <2>3
  <2> QED BY <2>2, <2>3, <2>4, <2>5, <2>6, GameStep
<1>4. CASE Game
  BY <1>2, <1>3, <1>4 DEF Game
<1>5. CASE NextDay
  <2>1. UNCHANGED <<portVars, chipVars, history>> /\ ticks' = ticks /\ running' = running
        /\ now' = [now EXCEPT !.day = @ + 1]
    BY <1>5 DEF NextDay
  <2>2. WallType' BY <1>1, <2>1 DEF WallType
  <2>3. Counters' BY <2>1 DEF ClockInv, Counters
  <2> QED BY <2>1, <2>2, <2>3, Unseen
<1>6. CASE SwitchOn
  <2>1. UNCHANGED <<portVars, chipVars, history>> /\ ticks' = ticks /\ running' = TRUE
        /\ now' = now
    BY <1>6 DEF SwitchOn
  <2>2. WallType' BY <1>1, <2>1 DEF WallType
  <2>3. Counters'
    <3>1. running' \in BOOLEAN BY <2>1
    <3> QED BY <2>1, <3>1 DEF ClockInv, Counters
  <2> QED BY <2>1, <2>2, <2>3, Unseen
<1>7. CASE Second
  <2>1. UNCHANGED <<portVars, chipVars, history>> /\ ticks' = ticks + 1
        /\ running' = running /\ ticks < MaxTicks
        /\ now' = IF now.secs = LastSecond THEN [day |-> now.day + 1, secs |-> 0]
                  ELSE [now EXCEPT !.secs = @ + 1]
    BY <1>7 DEF Second
  <2>2. WallType'
    <3>1. LastSecond \in Nat BY DEF LastSecond
    <3>2. now.day \in Nat /\ now.secs \in 0..LastSecond BY <1>1
    <3>3. CASE now.secs = LastSecond
      BY <2>1, <3>1, <3>2, <3>3 DEF WallType
    <3>4. CASE now.secs # LastSecond
      <4>1. now.secs + 1 \in 0..LastSecond BY <3>1, <3>2, <3>4
      <4> QED BY <1>1, <2>1, <3>4, <4>1 DEF WallType
    <3> QED BY <3>3, <3>4
  <2>3. Counters' BY <2>1, ClockAssumption DEF ClockInv, Counters
  <2> QED BY <2>1, <2>2, <2>3, Unseen
<1>8. CASE UNCHANGED vars
  <2>1. UNCHANGED <<portVars, chipVars, history>> /\ ticks' = ticks /\ running' = running
        /\ now' = now
    BY <1>8 DEF vars, wallVars
  <2>2. WallType' /\ Counters' BY <1>1, <2>1 DEF ClockInv, WallType, Counters
  <2> QED BY <2>1, <2>2, Unseen
<1> QED BY <1>4, <1>5, <1>6, <1>7, <1>8 DEF Next

LEMMA ClockInvariant == Spec => []ClockInv
<1>1. Init => ClockInv BY ClockInit
<1>2. ClockInv /\ [Next]_vars => ClockInv' BY ClockNext
<1> QED BY <1>1, <1>2, PTL DEF Spec

\* The port, the chip and the game's history keep to their types, the count of
\* bits answered to the longest answer there is.
THEOREM ClockTypeOK == Spec => []TypeOK
<1>1. ASSUME ClockInv PROVE TypeOK
  <2>1. ChipType /\ Counting /\ ReceiveInv /\ AnswerInv /\ Counters
    BY <1>1 DEF ClockInv
  <2>2. command \in Byte BY <2>1 DEF ChipType, CommandType
  <2>3. CommandBytes(command) \in 0..7 BY <2>2, CommandLengths
  <2>4. bytesRemaining \in 0..7 BY <2>1, <2>3 DEF Counting
  <2>5. asked \in {<<>>} \cup Byte BY <2>1, <2>2, Hears
  <2>6. falls \in 0..56
    <3>1. CASE ~Answering
      <4>1. falls = 0 BY <2>1, <3>1 DEF AnswerInv, NotAnswering
      <4> QED BY <4>1
    <3>2. CASE Answering
      <4>1. command = asked BY <2>1, <3>2, Hears DEF Answering
      <4>2. Cycle(asked) \in 0..56 BY <2>3, <4>1 DEF Cycle
      <4>3. falls \in 0..Cycle(asked) BY <2>1, <3>2 DEF AnswerInv, Progress
      <4> QED BY <4>2, <4>3
    <3> QED BY <3>1, <3>2
  <2>7. sent \in Seq(Bit) BY <2>1 DEF ReceiveInv, ByteType
  <2> QED BY <2>1, <2>4, <2>5, <2>6, <2>7
      DEF TypeOK, ChipType, PortType, SerialType, CommandType, RegisterType, WallType,
          AnswerInv, Counters
<1> QED BY <1>1, ClockInvariant, PTL

\* What the chip has of a byte is what the game sent since it selected the chip,
\* whatever it abandoned before and wherever it left the clock line.
THEOREM ClockHears == Spec => []ReceivedAsSent
<1>1. ClockInv => ReceivedAsSent BY DEF ClockInv, ReceiveInv
<1> QED BY <1>1, ClockInvariant, PTL

\* The control register holds what the game last wrote there.
THEOREM ClockKeepsControl == Spec => []ControlAsWritten
<1>1. ClockInv => ControlAsWritten BY DEF ClockInv, ReceiveInv
<1> QED BY <1>1, ClockInvariant, PTL

\* No answer is torn: every bit of it is of the instant the command completed,
\* however often the front end moves the clock before the last.
THEOREM ClockAnswersOneInstant == Spec => []AnswerIsOneInstant
<1>1. ASSUME ClockInv PROVE AnswerIsOneInstant
  <2>1. AnswerInv BY <1>1 DEF ClockInv
  <2>2. ASSUME falls > 0 PROVE Answering
    BY <2>1, <2>2 DEF AnswerInv, NotAnswering
  <2> QED BY <2>1, <2>2 DEF AnswerInv, Progress, AnswerIsOneInstant
<1> QED BY <1>1, ClockInvariant, PTL

-----------------------------------------------------------------------------
(* The calendar *)

\* Days of an era, of four centuries from a first of March: the year they are in, the
\* first day of a year, the day in it, the month from March and the day of that.
YearOf(doe) == (doe - doe \div 1460 + doe \div 36524 - doe \div 146096) \div 365
YearStart(y) == 365 * y + y \div 4 - y \div 100
DayOf(doe) == doe - YearStart(YearOf(doe))
MonthOf(doy) == (5 * doy + 2) \div 153
DayInMonth(doy) == doy - (153 * MonthOf(doy) + 2) \div 5 + 1
Named(mp) == IF mp < 10 THEN mp + 3 ELSE mp - 9
LastOf(y) == IF LeapYear(y + 1) THEN 365 ELSE 364

\* A day is in the year whose first it is not before and whose last it is not past.
LEMMA YearHolds ==
  ASSUME NEW doe \in Int, 0 <= doe, doe <= 146096
  PROVE  /\ YearOf(doe) \in Int /\ 0 <= YearOf(doe) /\ YearOf(doe) <= 399
         /\ DayOf(doe) \in Int /\ 0 <= DayOf(doe) /\ DayOf(doe) <= LastOf(YearOf(doe))
  BY SMTT(60) DEF YearOf, YearStart, DayOf, LastOf, LeapYear

\* The next day is the next of that year, or the first of another.
LEMMA YearGoesOn ==
  ASSUME NEW doe \in Int, 0 <= doe, doe < 146096
  PROVE  \/ /\ YearOf(doe + 1) = YearOf(doe) /\ DayOf(doe + 1) = DayOf(doe) + 1
            /\ DayOf(doe) < LastOf(YearOf(doe))
         \/ /\ YearOf(doe + 1) = YearOf(doe) + 1 /\ DayOf(doe + 1) = 0
            /\ DayOf(doe) = LastOf(YearOf(doe))
  BY SMTT(120) DEF YearOf, YearStart, DayOf, LastOf, LeapYear

LEMMA EraEnds ==
  /\ YearOf(0) = 0 /\ DayOf(0) = 0
  /\ YearOf(146096) = 399 /\ DayOf(146096) = 365
  BY DEF YearOf, YearStart, DayOf

\* Days of a month, of a February that may have all of them.
Long(m) == IF m = 2 THEN 29 ELSE IF m \in {4, 6, 9, 11} THEN 30 ELSE 31
LEMMA MonthGoesOn ==
  ASSUME NEW doy \in Int, 0 <= doy, doy <= 364,
         NEW m \in Int, m = Named(MonthOf(doy)), NEW n \in Int, n = Named(MonthOf(doy + 1))
  PROVE  /\ 1 <= m /\ m <= 12 /\ 1 <= DayInMonth(doy) /\ DayInMonth(doy) <= Long(m)
         /\ DayInMonth(doy) < Long(m) => n = m /\ DayInMonth(doy + 1) = DayInMonth(doy) + 1
         /\ DayInMonth(doy) = Long(m) => m # 2 /\ DayInMonth(doy + 1) = 1 /\ n = IF m < 12 THEN m + 1 ELSE 1
  BY SMTT(60) DEF Named, MonthOf, DayInMonth, Long

\* A date, of the day doy of the year y of the era e.
Date(e, y, doy) ==
  LET m == Named(MonthOf(doy))
  IN  [y |-> y + 400 * e + (IF m <= 2 THEN 1 ELSE 0), m |-> m, d |-> DayInMonth(doy)]

LEMMA CivilIs ==
  ASSUME NEW days \in Nat, NEW e \in Int, e = (days + 719468) \div 146097,
         NEW doe \in Int, doe = (days + 719468) % 146097
  PROVE  CivilFromDays(days) = Date(e, YearOf(doe), DayOf(doe))
  BY SMT DEF CivilFromDays, Date, YearOf, DayOf, YearStart, Named, MonthOf, DayInMonth

LEMMA LeapInEra ==
  ASSUME NEW e \in Int, NEW y \in Int
  PROVE  LeapYear(y + 400 * e) <=> LeapYear(y)
<1>1. \A n \in {4, 100, 400} : (y + 400 * e) % n = 0 <=> y % n = 0
  BY SMT
<1>2. QED
  BY <1>1, SMT DEF LeapYear

LEMMA LeapAfter ==
  ASSUME NEW e \in Int, NEW y \in Int
  PROVE  LeapYear((y + 400 * e) + 1) <=> LeapYear(y + 1)
<1>1. (y + 400 * e) + 1 = (y + 1) + 400 * e
  BY SMT
<1>2. QED
  BY <1>1, LeapInEra, SMT

LEMMA DateFollows ==
  ASSUME NEW e \in Int, NEW y \in Int, NEW doy \in Int, 0 <= doy, doy < LastOf(y)
  PROVE  Date(e, y, doy + 1) = Tomorrow(Date(e, y, doy))
<1>1. doy <= 364 /\ (doy = 364 => LeapYear(y + 1))
  BY SMT DEF LastOf
<1>2. PICK m \in Int, n \in Int : m = Named(MonthOf(doy)) /\ n = Named(MonthOf(doy + 1))
  BY SMT DEF Named, MonthOf
<1>3. PICK d \in Int, c \in Int : d = DayInMonth(doy) /\ c = DayInMonth(doy + 1)
  BY SMT DEF DayInMonth, MonthOf
<1>4. /\ 1 <= m /\ m <= 12 /\ 1 <= d /\ d <= Long(m)
      /\ d < Long(m) => n = m /\ c = d + 1
      /\ d = Long(m) => m # 2 /\ c = 1 /\ n = IF m < 12 THEN m + 1 ELSE 1
  BY <1>1, <1>2, <1>3, MonthGoesOn, SMT
<1>5. PICK year \in Int : year = y + 400 * e + (IF m <= 2 THEN 1 ELSE 0)
  BY SMT
<1>6. Date(e, y, doy) = [y |-> year, m |-> m, d |-> d]
  BY <1>2, <1>3, <1>5, SMT DEF Date
<1>7. Date(e, y, doy + 1) = [y |-> y + 400 * e + (IF n <= 2 THEN 1 ELSE 0), m |-> n, d |-> c]
  BY <1>2, <1>3, SMT DEF Date
<1>8. m = 2 => (d < MonthLength(year, m) /\ d < Long(m))
  <2>1. SUFFICES ASSUME m = 2 PROVE d < MonthLength(year, m) /\ d < Long(m)
  BY SMT
  <2>2. d = 28 => doy = 364
    BY <1>1, <1>2, <1>3, <2>1, SMTT(30) DEF Named, MonthOf, DayInMonth
  <2>3. year = (y + 400 * e) + 1
    BY <1>5, <2>1, SMT
  <2>4. d = 28 => LeapYear(year)
    <3>1. d = 28 => LeapYear(y + 1)
      BY <1>1, <2>2
    <3>2. LeapYear((y + 400 * e) + 1) <=> LeapYear(y + 1)
      BY LeapAfter
    <3>3. QED
      BY <2>3, <3>1, <3>2, Zenon
  <2>5. d < 29
    BY <1>4, <2>1, SMT DEF Long
  <2>6. QED
    BY <2>1, <2>4, <2>5, SMT DEF MonthLength, Long
<1>9. m # 2 => MonthLength(year, m) = Long(m)
  BY SMT DEF MonthLength, Long
<1>10. CASE d < Long(m)
  <2>1. d < MonthLength(year, m)
    BY <1>8, <1>9, <1>10, SMT
  <2>2. Tomorrow(Date(e, y, doy)) = [y |-> year, m |-> m, d |-> d + 1]
    BY <1>6, <2>1, SMT DEF Tomorrow
  <2>3. QED
    BY <1>4, <1>5, <1>7, <1>10, <2>2, SMT
<1>11. CASE d = Long(m)
  <2>1. m # 2 /\ d = MonthLength(year, m)
    BY <1>4, <1>9, <1>11, SMT
  <2>2. Long(m) \in Int
    BY SMT DEF Long
  <2>3. Tomorrow(Date(e, y, doy)) = IF m < 12 THEN [y |-> year, m |-> m + 1, d |-> 1]
                                    ELSE [y |-> year + 1, m |-> 1, d |-> 1]
    BY <1>6, <2>1, SMT DEF Tomorrow
  <2>4. CASE m < 12
    <3>1. n = m + 1 /\ c = 1 /\ (m <= 2 <=> m + 1 <= 2)
      BY <1>4, <1>11, <2>1, <2>4, SMT
    <3>2. QED
      BY <1>5, <1>7, <2>3, <2>4, <3>1, SMT
  <2>5. CASE m = 12
    <3>1. n = 1 /\ c = 1
      BY <1>4, <1>11, <2>5, SMT
    <3>2. QED
      BY <1>5, <1>7, <2>3, <2>5, <3>1, SMT
  <2>6. QED
    BY <1>4, <2>4, <2>5, SMT
<1>12. QED
  BY <1>4, <1>10, <1>11, SMT DEF Long

LEMMA YearEnds ==
  ASSUME NEW e \in Int, NEW y \in Int, NEW doy \in Int, doy = LastOf(y)
  PROVE  Tomorrow(Date(e, y, doy)) = Date(e, y + 1, 0)
<1>1. doy \in {364, 365} /\ (doy = 365 <=> LeapYear(y + 1))
  BY SMT DEF LastOf
<1>2. Named(MonthOf(doy)) = 2 /\ DayInMonth(doy) = doy - 336
  BY <1>1, SMT DEF Named, MonthOf, DayInMonth
<1>3. PICK year \in Int : year = (y + 400 * e) + 1
  BY SMT
<1>4. Date(e, y, doy) = [y |-> year, m |-> 2, d |-> doy - 336]
  BY <1>2, <1>3, SMT DEF Date
<1>5. LeapYear(year) <=> LeapYear(y + 1)
  BY <1>3, LeapAfter, SMT
<1>6. MonthLength(year, 2) = doy - 336
  BY <1>1, <1>5, SMT DEF MonthLength
<1>7. Tomorrow(Date(e, y, doy)) = [y |-> year, m |-> 3, d |-> 1]
  BY <1>1, <1>4, <1>6, SMT DEF Tomorrow
<1>8. Named(MonthOf(0)) = 3 /\ DayInMonth(0) = 1
  BY SMT DEF Named, MonthOf, DayInMonth
<1>9. Date(e, y + 1, 0) = [y |-> (y + 1) + 400 * e, m |-> 3, d |-> 1]
  BY <1>8, SMT DEF Date
<1>10. QED
  BY <1>3, <1>7, <1>9, SMT

LEMMA EraFollows ==
  ASSUME NEW e \in Int
  PROVE  Date(e, 400, 0) = Date(e + 1, 0, 0)
<1>1. Named(MonthOf(0)) = 3
  BY SMT DEF Named, MonthOf
<1>2. QED
  BY <1>1, SMT DEF Date

LEMMA DaysBack ==
  ASSUME NEW e \in Int, NEW y \in Int, 0 <= y, y <= 399, NEW doy \in Int, 0 <= doy, doy <= 365
  PROVE  DaysFromCivil(Date(e, y, doy)) = e * 146097 + (YearStart(y) + doy) - 719468
<1>1. PICK mp \in Int : mp = MonthOf(doy)
  BY SMT DEF MonthOf
<1>2. 0 <= mp /\ mp <= 11
  BY <1>1, SMT DEF MonthOf
<1>3. PICK m \in Int : m = Named(mp)
  BY SMT DEF Named
<1>4. (m <= 2 <=> mp >= 10) /\ mp = IF m > 2 THEN m - 3 ELSE m + 9
  BY <1>2, <1>3, SMT DEF Named
<1>5. PICK d \in Int : d = DayInMonth(doy)
  BY SMT DEF DayInMonth, MonthOf
<1>6. (153 * mp + 2) \div 5 + d - 1 = doy
  BY <1>1, <1>5, SMT DEF DayInMonth
<1>7. PICK year \in Int : year = y + 400 * e + (IF m <= 2 THEN 1 ELSE 0)
  BY SMT
<1>8. Date(e, y, doy) = [y |-> year, m |-> m, d |-> d]
  BY <1>1, <1>3, <1>5, <1>7, SMT DEF Date
<1>9. (IF m <= 2 THEN year - 1 ELSE year) = y + 400 * e
  BY <1>7, SMT
<1>10. (y + 400 * e) % 400 = y /\ (y + 400 * e) \div 400 = e
  BY SMT
<1>11. DaysFromCivil([y |-> year, m |-> m, d |-> d]) =
        LET yy == IF m <= 2 THEN year - 1 ELSE year
            yoe == yy % 400
            mm == IF m > 2 THEN m - 3 ELSE m + 9
            dd == (153 * mm + 2) \div 5 + d - 1
            doe == yoe * 365 + yoe \div 4 - yoe \div 100 + dd
        IN  (yy \div 400) * 146097 + doe - 719468
  BY SMT DEF DaysFromCivil
<1>12. DaysFromCivil([y |-> year, m |-> m, d |-> d]) =
         e * 146097 + (y * 365 + y \div 4 - y \div 100 + ((153 * mp + 2) \div 5 + d - 1)) - 719468
  BY <1>4, <1>9, <1>10, <1>11, SMT
<1>13. QED
  BY <1>6, <1>8, <1>12, SMT DEF YearStart

\* The calendar is right for every day.
LEMMA CalendarRight ==
  ASSUME NEW days \in Nat
  PROVE  /\ CivilFromDays(days + 1) = Tomorrow(CivilFromDays(days))
         /\ DaysFromCivil(CivilFromDays(days)) = days
<1>1. PICK e \in Int, doe \in Int : e = (days + 719468) \div 146097 /\ doe = (days + 719468) % 146097
  BY SMT
<1>2. 0 <= doe /\ doe <= 146096 /\ days + 719468 = 146097 * e + doe
  BY <1>1, SMT
<1>3. PICK y \in Int, doy \in Int : y = YearOf(doe) /\ doy = DayOf(doe)
  BY <1>2, YearHolds, SMT
<1>4. 0 <= y /\ y <= 399 /\ 0 <= doy /\ doy <= LastOf(y)
  BY <1>2, <1>3, YearHolds, SMT
<1>5. CivilFromDays(days) = Date(e, y, doy)
  BY <1>1, <1>3, CivilIs, SMT
<1>6. DaysFromCivil(CivilFromDays(days)) = days
  <2>1. doy <= 365
    BY <1>4, SMT DEF LastOf
  <2>2. DaysFromCivil(Date(e, y, doy)) = e * 146097 + (YearStart(y) + doy) - 719468
    BY <1>4, <2>1, DaysBack, SMT
  <2>3. PICK first \in Int : first = YearStart(y)
    BY SMT DEF YearStart
  <2>4. doy = doe - first
    BY <1>3, <2>3, SMT DEF DayOf
  <2>5. QED
    BY <1>2, <1>5, <2>2, <2>3, <2>4, SMT
<1>7. PICK next \in Nat, after \in Int : next = days + 1 /\ after = doe + 1
  BY SMT
<1>8. CivilFromDays(next) = Tomorrow(CivilFromDays(days))
  <2>1. CASE doe < 146096
    <3>1. e = (next + 719468) \div 146097 /\ after = (next + 719468) % 146097
      BY <1>2, <1>7, <2>1, SMT
    <3>2. CivilFromDays(next) = Date(e, YearOf(doe + 1), DayOf(doe + 1))
      BY <1>7, <3>1, CivilIs, SMT
    <3>3. \/ YearOf(doe + 1) = y /\ DayOf(doe + 1) = doy + 1 /\ doy < LastOf(y)
          \/ YearOf(doe + 1) = y + 1 /\ DayOf(doe + 1) = 0 /\ doy = LastOf(y)
      BY <1>2, <1>3, <2>1, YearGoesOn, SMT
    <3>4. QED
      BY <1>4, <1>5, <3>2, <3>3, DateFollows, YearEnds, SMT
  <2>2. CASE doe = 146096
    <3>1. PICK era \in Int, first \in Int : era = e + 1 /\ first = 0
      BY SMT
    <3>2. CivilFromDays(next) = Date(e + 1, 0, 0)
      <4>1. era = (next + 719468) \div 146097 /\ first = (next + 719468) % 146097
        BY <1>2, <1>7, <2>2, <3>1, SMT
      <4>2. CivilFromDays(next) = Date(era, YearOf(first), DayOf(first))
        BY <4>1, CivilIs, SMT
      <4>3. QED
        BY <3>1, <4>2, EraEnds, SMT
    <3>3. y = 399 /\ doy = 365
      BY <1>3, <2>2, EraEnds, SMT
    <3>4. LastOf(y) = 365
      BY <3>3, SMT DEF LastOf, LeapYear
    <3>5. Tomorrow(Date(e, y, doy)) = Date(e, y + 1, 0)
      BY <3>3, <3>4, YearEnds, SMT
    <3>6. y + 1 = 400
      BY <3>3, SMT
    <3>7. QED
      BY <1>5, <3>2, <3>5, <3>6, EraFollows, SMT
  <2>3. QED
    BY <1>2, <2>1, <2>2, SMT
<1>9. QED
  BY <1>6, <1>7, <1>8, SMT

\* The dates the chip shows follow each other as the calendar's do, from the first
\* day of 1970 for ever, and a date is converted back to the day it came from.
THEOREM CalendarFollows == Spec => DatesFollow
<1>1. ASSUME TypeOK, now'.day = now.day + 1
      PROVE  /\ CivilFromDays(now'.day) = Tomorrow(CivilFromDays(now.day))
             /\ DaysFromCivil(CivilFromDays(now'.day)) = now'.day
  <2>1. PICK days \in Nat : days = now.day
    BY <1>1 DEF TypeOK
  <2>2. PICK next \in Nat : next = days + 1
    OBVIOUS
  <2>3. CivilFromDays(next) = Tomorrow(CivilFromDays(days))
    BY <2>2, CalendarRight
  <2>4. DaysFromCivil(CivilFromDays(next)) = next
    BY CalendarRight
  <2>5. QED
    BY <1>1, <2>1, <2>2, <2>3, <2>4
<1>2. QED
  BY <1>1, ClockTypeOK, PTL DEF DatesFollow

-----------------------------------------------------------------------------
(* The sensors and the motor *)

\* The player's hand, within the scale of the sensors.
HandTyped(h) == h.z \in -Full..Full

\* What is latched is of the hand a conversion found, and is as far out as the
\* clocks since.
SampleKept ==
  /\ HandTyped(hand) /\ HandTyped(begun.hand)
  /\ gyro.bit = begun.clocks /\ begun.clocks \in Nat
  /\ begun \in [hand : {begun.hand}, clocks : Nat, on : BOOLEAN]
  /\ gyro \in [sample : {gyro.sample}, bit : Nat]
  /\ gyro.sample = IF begun.on /\ cart = "gyro" THEN Sample(begun.hand.z) ELSE 0
  /\ cart = "motor" => ~begun.on
TiltKept ==
  tilt \in [x : {TiltCenters[1] + begun.hand.x}, y : {TiltCenters[2] - begun.hand.y}, ready : BOOLEAN]
\* What the front end is to be told of the motor, and what it has seen.
MotorKept ==
  /\ felt \in [rose : BOOLEAN, ran : BOOLEAN] /\ seen \in BOOLEAN
  /\ felt.rose => seen
  /\ seen \/ RumbleOn(data, outputs) => felt.ran
MotionInv == cart \in Carts /\ SampleKept /\ (cart = "tilt" => TiltKept) /\ MotorKept /\ AnswersAreOfTheirTime

\* A sample lies between nothing and twice the one at rest.
LEMMA SampleFits ==
  ASSUME NEW z \in -Full..Full
  PROVE  Sample(z) \in 0..(2 * GyroCenter)
<1>1. Full \in Nat /\ Full > 0 /\ GyroCenter \in Nat
  BY MotionAssumption
<1>2. PICK p \in Int : p = (-z) * GyroCenter
  BY <1>1
<1>3. PICK m \in Int : m = Full * GyroCenter
  BY <1>1
<1>4. -m <= p /\ p <= m
  <2>1. PICK y \in Int : y = -z
    BY <1>1
  <2>2. Full - y \in Nat /\ Full + y \in Nat
    BY <1>1, <2>1
  <2>3. (Full - y) * GyroCenter >= 0 /\ (Full + y) * GyroCenter >= 0
    BY <1>1, <2>2
  <2>4. (Full - y) * GyroCenter = m - p /\ (Full + y) * GyroCenter = m + p
    BY <1>1, <1>2, <1>3, <2>1
  <2>5. QED
    BY <2>3, <2>4
<1>5. PICK q \in Int : q = p \div Full
  BY <1>1
<1>6. Full * q <= p /\ p < Full * q + Full
  BY <1>1, <1>5
<1>7. q <= GyroCenter
  <2>1. SUFFICES ASSUME q > GyroCenter PROVE FALSE
    BY <1>1
  <2>2. Full * (q - GyroCenter) >= Full
    BY <1>1, <2>1
  <2>3. Full * (q - GyroCenter) = Full * q - m
    BY <1>1, <1>3
  <2>4. QED
    BY <1>1, <1>4, <1>6, <2>2, <2>3
<1>8. q >= -GyroCenter
  <2>1. SUFFICES ASSUME q < -GyroCenter PROVE FALSE
    BY <1>1
  <2>2. Full * (-GyroCenter - q) >= Full
    BY <1>1, <2>1
  <2>3. Full * (-GyroCenter - q) = -m - Full * q
    BY <1>1, <1>3
  <2>4. QED
    BY <1>1, <1>4, <1>6, <2>2, <2>3
<1>9. Sample(z) = GyroCenter + q
  BY <1>2, <1>5 DEF Sample
<1>10. QED
  BY <1>1, <1>7, <1>8, <1>9

\* What fits its bits shows none beyond them.
LEMMA AboveIsZero ==
  ASSUME NEW v \in 0..(2 * GyroCenter), NEW i \in SampleBits..(SampleBits + 3)
  PROVE  ~Top(v, i)
<1>1. GyroCenter \in Nat /\ 2 ^ i \in Nat /\ 2 * GyroCenter < 2 ^ i
  <2>1. SampleBits \in Nat /\ i \in 0..(SampleBits + 3) /\ i >= SampleBits
    BY MotionAssumption
  <2>2. QED
    BY <2>1, MotionAssumption
<1>2. PICK m \in Nat : m = 2 ^ i
  BY <1>1
<1>3. v \in Nat /\ v < m
  BY <1>1, <1>2
<1>4. v \div m = 0
  BY <1>3
<1>5. PICK q : q = v \div 2 ^ i
  OBVIOUS
<1>6. q = 0
  BY <1>2, <1>4, <1>5
<1>7. ~(q % 2 = 1)
  BY <1>6
<1>8. QED
  BY <1>5, <1>7 DEF Top

\* The bit the shifter shows is the one the stream is at.
LEMMA BitShown ==
  ASSUME SampleKept, cart = "gyro"
  PROVE  GyroBit <=> /\ begun.on /\ begun.clocks \in 4..(3 + SampleBits)
                     /\ Top(Sample(begun.hand.z), 3 + SampleBits - begun.clocks)
<1>1. SampleBits \in Nat /\ gyro.bit = begun.clocks /\ begun.clocks \in Nat /\ begun.on \in BOOLEAN
  BY MotionAssumption DEF SampleKept
<1> DEFINE c == begun.clocks
           v == gyro.sample
<1>2. v \in 0..(2 * GyroCenter)
  <2>1. GyroCenter \in Nat
    BY MotionAssumption
  <2>2. QED
    BY <2>1, SampleFits DEF SampleKept, HandTyped
<1>3. GyroBit <=> c < 4 + SampleBits /\ Top(v, 3 + SampleBits - c)
  BY <1>1 DEF GyroBit
<1>4. c < 4 => ~Top(v, 3 + SampleBits - c)
  <2>1. c < 4 => 3 + SampleBits - c \in SampleBits..(SampleBits + 3)
    BY <1>1
  <2>2. QED
    BY <1>2, <2>1, AboveIsZero
<1>5. GyroBit <=> c \in 4..(3 + SampleBits) /\ Top(v, 3 + SampleBits - c)
  BY <1>1, <1>3, <1>4
<1>6. CASE begun.on
  BY <1>5, <1>6 DEF SampleKept
<1>7. CASE ~begun.on
  <2>1. v = 0
    BY <1>7 DEF SampleKept
  <2>2. ASSUME c \in 4..(3 + SampleBits) PROVE ~Top(0, 3 + SampleBits - c)
    <3>1. 3 + SampleBits - c \in 0..(SampleBits + 3)
      BY <1>1, <2>2
    <3>2. PICK m \in Nat \ {0} : m = 2 ^ (3 + SampleBits - c)
      BY <3>1, MotionAssumption
    <3>3. 0 \div m = 0
      OBVIOUS
    <3>4. 0 \div 2 ^ (3 + SampleBits - c) = 0
      BY <3>2, <3>3
    <3>5. QED
      BY <3>4 DEF Top
  <2>3. QED
    BY <1>5, <1>7, <2>1, <2>2
<1>8. QED
  BY <1>1, <1>6, <1>7

LEMMA HandKept ==
  ASSUME NEW v \in Rates
  PROVE  Clamp(v) \in -Full..Full
  BY MotionAssumption DEF Clamp

LEMMA MotionInitHolds == MotionInit => MotionInv
<1> SUFFICES ASSUME MotionInit PROVE MotionInv
  OBVIOUS
<1>1. 0 \in -Full..Full
  BY MotionAssumption
<1>2. SampleKept
  BY <1>1 DEF MotionInit, SampleKept, HandTyped
<1>3. TiltKept
  BY DEF MotionInit, TiltKept, Axes
<1>4. MotorKept
  BY DEF MotionInit, MotorKept, RumbleOn
<1>5. QED
  BY <1>2, <1>3, <1>4 DEF MotionInv, MotionInit, AnswersAreOfTheirTime

\* A store that says nothing leaves nothing to be wrong.
LEMMA SilentIsRight ==
  ASSUME Silent
  PROVE  AnswersAreOfTheirTime'
  BY DEF Silent, AnswersAreOfTheirTime

LEMMA DriveLinesKeeps ==
  ASSUME MotionInv, DriveLines
  PROVE  MotionInv'
<1>1. PICK val \in LineStores :
        LET latched == IF Starts(data, val) THEN [sample |-> Sample(hand.z), bit |-> 0] ELSE gyro
            rises   == 1 \in val \cap outputs /\ 1 \notin data \cap outputs
        IN  /\ cart # "tilt"
            /\ data' = val
            /\ seen' = Seen(val, outputs)
            /\ gyro' = IF Clocks(data, val) THEN [latched EXCEPT !.bit = @ + 1] ELSE latched
            /\ begun' = IF cart # "gyro" THEN begun
                        ELSE LET b == IF 0 \in val \cap outputs /\ 0 \notin data \cap outputs
                                      THEN [hand |-> hand, clocks |-> 0, on |-> TRUE] ELSE begun
                             IN  IF rises THEN [b EXCEPT !.clocks = @ + 1] ELSE b
            /\ Feel(RumbleOn(val, outputs))
            /\ Silent
            /\ UNCHANGED <<cart, outputs, readable, tilt, hand, hands>>
  BY DEF DriveLines
<1>2. SampleKept'
  <2> DEFINE starts == 0 \in val \cap outputs /\ 0 \notin data \cap outputs
             rises  == 1 \in val \cap outputs /\ 1 \notin data \cap outputs
             latched == IF starts THEN [sample |-> Sample(hand.z), bit |-> 0] ELSE gyro
             b == IF starts THEN [hand |-> hand, clocks |-> 0, on |-> TRUE] ELSE begun
  <2>1. /\ HandTyped(hand) /\ HandTyped(begun.hand) /\ UNCHANGED <<cart, hand>>
        /\ gyro.bit = begun.clocks /\ begun.clocks \in Nat
        /\ begun \in [hand : {begun.hand}, clocks : Nat, on : BOOLEAN]
        /\ gyro \in [sample : {gyro.sample}, bit : Nat]
        /\ gyro.sample = IF begun.on /\ cart = "gyro" THEN Sample(begun.hand.z) ELSE 0
        /\ cart = "motor" => ~begun.on
    BY <1>1 DEF MotionInv, SampleKept
  <2>2. CASE cart # "gyro"
    <3>1. gyro' = gyro /\ begun' = begun
      BY <1>1, <2>2 DEF Starts, Clocks
    <3>2. QED
      BY <2>1, <3>1 DEF SampleKept, HandTyped
  <2>3. CASE cart = "gyro"
    <3>1. /\ gyro' = IF rises THEN [latched EXCEPT !.bit = @ + 1] ELSE latched
          /\ begun' = IF rises THEN [b EXCEPT !.clocks = @ + 1] ELSE b
      BY <1>1, <2>3 DEF Starts, Clocks
    <3>2. /\ latched \in [sample : {latched.sample}, bit : Nat]
          /\ b \in [hand : {b.hand}, clocks : Nat, on : BOOLEAN]
          /\ latched.bit = b.clocks /\ HandTyped(b.hand)
          /\ latched.sample = IF b.on THEN Sample(b.hand.z) ELSE 0
      <4>1. CASE starts
        BY <2>1, <4>1
      <4>2. CASE ~starts
        BY <2>1, <2>3, <4>2
      <4>3. QED
        BY <4>1, <4>2
    <3> HIDE DEF latched, b, rises
    <3>3. CASE rises
      <4>1. /\ gyro' = [latched EXCEPT !.bit = latched.bit + 1]
            /\ begun' = [b EXCEPT !.clocks = b.clocks + 1]
        BY <3>1, <3>3
      <4>2. /\ gyro' \in [sample : {latched.sample}, bit : Nat] /\ gyro'.bit = latched.bit + 1
            /\ gyro'.sample = latched.sample
        BY <3>2, <4>1
      <4>3. /\ begun' \in [hand : {b.hand}, clocks : Nat, on : BOOLEAN] /\ begun'.clocks = b.clocks + 1
            /\ begun'.on = b.on /\ begun'.hand = b.hand
        BY <3>2, <4>1
      <4>4. QED
        BY <2>1, <2>3, <3>2, <4>2, <4>3 DEF SampleKept, HandTyped
    <3>4. CASE ~rises
      BY <2>1, <2>3, <3>1, <3>2, <3>4 DEF SampleKept, HandTyped
    <3>5. QED
      BY <3>3, <3>4
  <2>4. QED
    BY <2>2, <2>3
<1>3. MotorKept'
  BY <1>1 DEF MotionInv, MotorKept, Feel, Seen, RumbleOn, HasRumble
<1>4. QED
  BY <1>1, <1>2, <1>3, SilentIsRight DEF MotionInv

LEMMA ReadLinesKeeps ==
  ASSUME MotionInv, ReadLines
  PROVE  MotionInv'
<1>1. UNCHANGED <<cart, data, outputs, readable, gyro, tilt, seen, hand, begun, felt>>
  BY DEF ReadLines
<1>2. SampleKept' /\ MotorKept' /\ (cart' = "tilt" => TiltKept')
  BY <1>1 DEF MotionInv, SampleKept, MotorKept, TiltKept, HandTyped, RumbleOn, HasRumble
<1>3. CASE cart = "gyro"
  <2>1. GyroBit <=> /\ begun.on /\ begun.clocks \in 4..(3 + SampleBits)
                    /\ Top(Sample(begun.hand.z), 3 + SampleBits - begun.clocks)
    BY <1>3, BitShown DEF MotionInv
  <2>2. answer'.is \in answer'.due
    BY <1>3, <2>1 DEF ReadLines
  <2>3. QED
    BY <1>1, <1>2, <2>2 DEF MotionInv, AnswersAreOfTheirTime
<1>4. CASE cart # "gyro"
  <2>1. ~begun.on
    BY <1>4 DEF MotionInv, SampleKept, ReadLines, Carts
  <2>2. QED
    BY <1>2, <1>4, <2>1 DEF ReadLines, MotionInv, AnswersAreOfTheirTime
<1>5. QED
  BY <1>3, <1>4

LEMMA MotionNextKeeps == MotionInv /\ [MotionNext]_motionvars => MotionInv'
<1> SUFFICES ASSUME MotionInv, [MotionNext]_motionvars PROVE MotionInv'
  OBVIOUS
<1>1. CASE SetHand
  <2>1. PICK v \in Rates, w \in Rates : hand' = [z |-> Clamp(v), x |-> Clamp(v), y |-> Clamp(w)]
    BY <1>1 DEF SetHand
  <2>2. HandTyped(hand')
    BY <2>1, HandKept DEF HandTyped
  <2>3. Silent /\ UNCHANGED <<cart, data, outputs, readable, gyro, tilt, seen, begun, felt>>
    BY <1>1 DEF SetHand
  <2>4. SampleKept' /\ MotorKept' /\ (cart' = "tilt" => TiltKept')
    BY <2>2, <2>3 DEF MotionInv, SampleKept, MotorKept, TiltKept, HandTyped, RumbleOn, HasRumble
  <2>5. QED
    BY <2>3, <2>4, SilentIsRight DEF MotionInv
<1>2. CASE DriveLines
  BY <1>2, DriveLinesKeeps
<1>3. CASE TurnLines
  <2>1. Silent /\ cart # "tilt" /\ UNCHANGED <<cart, gyro, hand, begun>>
    BY <1>3 DEF TurnLines
  <2>2. SampleKept'
    BY <2>1 DEF MotionInv, SampleKept, HandTyped
  <2>3. MotorKept'
    <3>1. PICK val \in LineStores :
            outputs' = val /\ seen' = Seen(data, val) /\ Feel(RumbleOn(data, val)) /\ UNCHANGED <<cart, data>>
      BY <1>3 DEF TurnLines
    <3>2. QED
      BY <3>1 DEF MotionInv, MotorKept, Feel, Seen, RumbleOn, HasRumble
  <2>4. QED
    BY <2>1, <2>2, <2>3, SilentIsRight DEF MotionInv
<1>4. CASE OpenPort
  <2>1. Silent /\ UNCHANGED <<cart, data, outputs, gyro, tilt, seen, hand, begun, felt>>
    BY <1>4 DEF OpenPort
  <2>2. SampleKept' /\ MotorKept' /\ (cart' = "tilt" => TiltKept')
    BY <2>1 DEF MotionInv, SampleKept, MotorKept, TiltKept, HandTyped, RumbleOn, HasRumble
  <2>3. QED
    BY <2>1, <2>2, SilentIsRight DEF MotionInv
<1>5. CASE ReadLines
  BY <1>5, ReadLinesKeeps
<1>6. CASE TiltStart
  <2>1. /\ cart = "tilt" /\ Silent /\ tilt' = Axes(hand.x, hand.y, FALSE)
        /\ begun' = [begun EXCEPT !.hand = hand, !.on = TRUE]
        /\ UNCHANGED <<cart, data, outputs, gyro, seen, hand, felt>>
    BY <1>6 DEF TiltStart
  <2>2. begun'.hand = hand /\ begun'.clocks = begun.clocks
        /\ begun' \in [hand : {begun'.hand}, clocks : Nat, on : BOOLEAN]
    BY <2>1 DEF MotionInv, SampleKept
  <2>3. SampleKept'
    BY <2>1, <2>2 DEF MotionInv, SampleKept, HandTyped
  <2>4. TiltKept'
    BY <2>1, <2>2 DEF TiltKept, Axes
  <2>5. MotorKept'
    BY <2>1 DEF MotionInv, MotorKept, RumbleOn, HasRumble
  <2>6. QED
    BY <2>1, <2>3, <2>4, <2>5, SilentIsRight DEF MotionInv
<1>7. CASE TiltFinish
  <2>1. /\ cart = "tilt" /\ Silent /\ tilt' = [tilt EXCEPT !.ready = TRUE]
        /\ UNCHANGED <<cart, data, outputs, gyro, seen, hand, begun, felt>>
    BY <1>7 DEF TiltFinish
  <2>2. TiltKept'
    <3>1. tilt \in [x : {TiltCenters[1] + begun.hand.x}, y : {TiltCenters[2] - begun.hand.y}, ready : BOOLEAN]
      BY <2>1 DEF MotionInv, TiltKept
    <3>2. QED
      BY <2>1, <3>1 DEF TiltKept
  <2>3. SampleKept' /\ MotorKept'
    BY <2>1 DEF MotionInv, SampleKept, MotorKept, HandTyped, RumbleOn, HasRumble
  <2>4. QED
    BY <2>1, <2>2, <2>3, SilentIsRight DEF MotionInv
<1>8. CASE TiltRead
  <2>1. /\ cart = "tilt"
        /\ answer' = [is |-> <<tilt.x, tilt.y, tilt.ready>>,
                      due |-> {<<TiltCenters[1] + begun.hand.x, TiltCenters[2] - begun.hand.y, r>> : r \in BOOLEAN}]
        /\ UNCHANGED <<cart, data, outputs, gyro, tilt, seen, hand, begun, felt>>
    BY <1>8 DEF TiltRead
  <2>2. tilt.x = TiltCenters[1] + begun.hand.x /\ tilt.y = TiltCenters[2] - begun.hand.y /\ tilt.ready \in BOOLEAN
    BY <2>1 DEF MotionInv, TiltKept, Axes
  <2>3. AnswersAreOfTheirTime'
    BY <2>1, <2>2 DEF AnswersAreOfTheirTime
  <2>4. SampleKept' /\ MotorKept' /\ TiltKept'
    BY <2>1 DEF MotionInv, SampleKept, MotorKept, TiltKept, HandTyped, RumbleOn, HasRumble
  <2>5. QED
    BY <2>1, <2>3, <2>4 DEF MotionInv
<1>9. CASE TakeRumble
  <2>1. UNCHANGED <<cart, data, outputs, gyro, tilt, hand, begun>>
    BY <1>9 DEF TakeRumble
  <2>2. SampleKept' /\ (cart' = "tilt" => TiltKept')
    BY <2>1 DEF MotionInv, SampleKept, TiltKept, HandTyped
  <2>3. RumbleOn(data, outputs) \in BOOLEAN
    BY DEF RumbleOn, HasRumble
  <2>4. MotorKept'
    BY <1>9, <2>1, <2>3 DEF TakeRumble, MotorKept, RumbleOn, HasRumble
  <2>5. AnswersAreOfTheirTime'
    BY <1>9, <2>3 DEF TakeRumble, MotionInv, MotorKept, AnswersAreOfTheirTime
  <2>6. QED
    BY <2>1, <2>2, <2>4, <2>5 DEF MotionInv
<1>10. CASE UNCHANGED motionvars
  BY <1>10 DEF motionvars, MotionInv, SampleKept, MotorKept, TiltKept, HandTyped, RumbleOn, HasRumble,
               AnswersAreOfTheirTime
<1>11. QED
  BY <1>1, <1>2, <1>3, <1>4, <1>5, <1>6, <1>7, <1>8, <1>9, <1>10 DEF MotionNext

\* Whatever the player does and whenever, each bit of the gyro's stream and both
\* axes of a tilt are of the hand that a conversion found, and a motor that has
\* started is reported, and none that has not run
\* (sensor.rs gpio_read, gpio_write, tilt_read, take_rumble).
THEOREM SensorsKeepTime == MotionSpec => []AnswersAreOfTheirTime
<1>1. MotionInv => AnswersAreOfTheirTime
  BY DEF MotionInv
<1>2. QED
  BY MotionInitHolds, MotionNextKeeps, <1>1, PTL DEF MotionSpec

-----------------------------------------------------------------------------
(* The save chips: SRAM and flash *)

Kinds == {"sram", "flash64", "flash128", "eeprom"}
Flashes == {"flash64", "flash128"}
KeyWrite == <<KeyOne, xAA>>
NextWrite == <<KeyTwo, x55>>
Pairs == (Offs \cup {KeyOne, KeyTwo}) \X Nat

\* The chip and the history of what it was told, for a flash: the writes heard of
\* a command are those its phase and what it awaits stand for.
FlashChip ==
  [data : [Cells(kind) -> Nat], phase : 0..2, idMode : BOOLEAN, erasePrep : BOOLEAN,
   writePending : BOOLEAN, bankPending : BOOLEAN, bank : Nat,
   addrBits : {Narrow}, expect : {0}, rx : { <<>> }, queue : { <<>> }, pos : {0}]
FlashTold(s) ==
  [image : {s.data}, bank : {s.bank}, id : {s.idMode}, heard : Seq(Pairs), prepared : {s.erasePrep}, asked : { {} }]
Awaiting(s) == s.writePending \/ s.bankPending
Opened(h) == h[1] = KeyWrite /\ h[2] = NextWrite
InPlace(s, h) ==
  \/ Len(h) = 0 /\ s.phase = 0 /\ ~s.writePending /\ ~s.bankPending
  \/ Len(h) = 1 /\ h[1] = KeyWrite /\ s.phase = 1 /\ ~s.writePending /\ ~s.bankPending
  \/ Len(h) = 2 /\ Opened(h) /\ s.phase = 2 /\ ~s.writePending /\ ~s.bankPending
  \/ Len(h) = 3 /\ Opened(h) /\ h[3] = <<KeyOne, xA0>> /\ s.phase = 0 /\ s.writePending /\ ~s.bankPending
  \/ Len(h) = 3 /\ Opened(h) /\ h[3] = <<KeyOne, xB0>> /\ s.phase = 0 /\ ~s.writePending /\ s.bankPending
FlashAgrees(s, t) == s \in FlashChip /\ t \in FlashTold(s) /\ InPlace(s, t.heard)

-----------------------------------------------------------------------------
LEMMA Keys == KeyWrite \in Pairs /\ NextWrite \in Pairs /\ \A x \in Nat : <<KeyOne, x>> \in Pairs
  BY DEF KeyWrite, NextWrite, Pairs, xAA, x55

LEMMA Written ==
  ASSUME NEW w \in Writes
  PROVE  w \in Pairs /\ w = <<w[1], w[2]>> /\ w[1] \in Offs /\ w[2] \in Nat
  BY BackupAssumption DEF Pairs

LEMMA Pair ==
  ASSUME NEW S, NEW a \in S, NEW b \in S
  PROVE  <<a, b>> \in Seq(S) /\ Len(<<a, b>>) = 2 /\ <<a, b>>[1] = a /\ <<a, b>>[2] = b
  OBVIOUS

LEMMA Spelled == Unlock \in Seq(Pairs) /\ Len(Unlock) = 2 /\ Unlock[1] = KeyWrite /\ Unlock[2] = NextWrite
<1>1. Unlock = <<KeyWrite, NextWrite>>
  BY DEF Unlock, KeyWrite, NextWrite
<1>2. QED
  BY <1>1, Keys, Pair

\* What a string of writes is that a command is recognised by.
LEMMA Recognised ==
  ASSUME NEW h \in Seq(Pairs)
  PROVE  /\ h \in {SubSeq(Unlock, 1, n) : n \in 1..2} <=>
              (Len(h) = 1 /\ h[1] = KeyWrite) \/ (Len(h) = 2 /\ Opened(h))
         /\ \A x \in Pairs : h = Third(x) <=> Len(h) = 3 /\ Opened(h) /\ h[3] = x
<1>1. /\ SubSeq(Unlock, 1, 1) \in Seq(Pairs) /\ Len(SubSeq(Unlock, 1, 1)) = 1
      /\ SubSeq(Unlock, 1, 1)[1] = KeyWrite
  <2>1. \A i \in 1..1 : Unlock[i] \in Pairs
    BY Spelled, Keys
  <2>2. QED
    BY <2>1, Spelled, SubSeqProperties
<1>2. /\ SubSeq(Unlock, 1, 2) \in Seq(Pairs) /\ Len(SubSeq(Unlock, 1, 2)) = 2
      /\ SubSeq(Unlock, 1, 2)[1] = KeyWrite /\ SubSeq(Unlock, 1, 2)[2] = NextWrite
  <2>1. \A i \in 1..2 : Unlock[i] \in Pairs
    BY Spelled, Keys
  <2>2. QED
    BY <2>1, Spelled, SubSeqProperties
<1>3. ASSUME NEW x \in Pairs
      PROVE  /\ Third(x) \in Seq(Pairs) /\ Len(Third(x)) = 3
             /\ (Third(x))[1] = KeyWrite /\ (Third(x))[2] = NextWrite /\ (Third(x))[3] = x
  <2>1. <<x>> \in Seq(Pairs) /\ Len(<<x>>) = 1 /\ <<x>>[1] = x
    OBVIOUS
  <2>2. PICK e \in Seq(Pairs) : e = <<x>>
    BY <2>1
  <2>3. Len(e) = 1 /\ e[1] = x
    BY <2>1, <2>2
  <2>4. PICK u \in Seq(Pairs) : u = Unlock
    BY Spelled
  <2>5. Len(u) = 2 /\ u[1] = KeyWrite /\ u[2] = NextWrite
    BY <2>4, Spelled
  <2>6. u \o e \in Seq(Pairs) /\ Len(u \o e) = Len(u) + Len(e)
    BY ConcatProperties
  <2>7. \A i \in 1..(Len(u) + Len(e)) : (u \o e)[i] = IF i <= Len(u) THEN u[i] ELSE e[i - Len(u)]
    BY ConcatProperties
  <2>8. (u \o e)[1] = u[1] /\ (u \o e)[2] = u[2] /\ (u \o e)[3] = e[1]
    <3> DEFINE c == u \o e
    <3>0. Len(u) + Len(e) = 3 /\ Len(u) = 2
      BY <2>3, <2>5
    <3>1. \A i \in 1..3 : c[i] = IF i <= 2 THEN u[i] ELSE e[i - 2]
      BY <3>0, <2>7, Zenon
    <3> HIDE DEF c
    <3>2. c[1] = u[1]
      BY <3>1
    <3>3. c[2] = u[2]
      BY <3>1
    <3>4. c[3] = e[1]
      BY <3>1
    <3>5. QED
      BY <3>2, <3>3, <3>4 DEF c
  <2>9. QED
    BY <2>2, <2>3, <2>4, <2>5, <2>6, <2>8 DEF Third
<1>4. ASSUME NEW a \in Seq(Pairs), Len(h) = 1, Len(a) = 1
      PROVE  h = a <=> h[1] = a[1]
  <2>1. \A i \in 1..1 : i = 1
    OBVIOUS
  <2>2. QED
    BY <1>4, <2>1, SeqEqual
<1>5. ASSUME NEW a \in Seq(Pairs), Len(h) = 2, Len(a) = 2
      PROVE  h = a <=> h[1] = a[1] /\ h[2] = a[2]
  <2>1. \A i \in 1..2 : i = 1 \/ i = 2
    OBVIOUS
  <2>2. QED
    BY <1>5, <2>1, SeqEqual
<1>6. ASSUME NEW a \in Seq(Pairs), Len(h) = 3, Len(a) = 3
      PROVE  h = a <=> h[1] = a[1] /\ h[2] = a[2] /\ h[3] = a[3]
  <2>1. \A i \in 1..3 : i = 1 \/ i = 2 \/ i = 3
    OBVIOUS
  <2>2. QED
    BY <1>6, <2>1, SeqEqual
<1>7. h = SubSeq(Unlock, 1, 1) <=> Len(h) = 1 /\ h[1] = KeyWrite
  BY <1>1, <1>4
<1>8. h = SubSeq(Unlock, 1, 2) <=> Len(h) = 2 /\ Opened(h)
  BY <1>2, <1>5 DEF Opened
<1>9. \A x \in Pairs : h = Third(x) <=> Len(h) = 3 /\ Opened(h) /\ h[3] = x
  BY <1>3, <1>6 DEF Opened
<1>10. h \in {SubSeq(Unlock, 1, n) : n \in 1..2} <=> h = SubSeq(Unlock, 1, 1) \/ h = SubSeq(Unlock, 1, 2)
  <2>1. \A n : n \in 1..2 <=> n = 1 \/ n = 2
    OBVIOUS
  <2>2. QED
    BY <2>1
<1>11. QED
  BY <1>7, <1>8, <1>9, <1>10

LEMMA Longer ==
  ASSUME NEW h \in Seq(Pairs), NEW w \in Pairs
  PROVE  /\ Append(h, w) \in Seq(Pairs) /\ Len(h) \in Nat /\ Len(Append(h, w)) = Len(h) + 1
         /\ \A i \in 1..Len(h) : Append(h, w)[i] = h[i]
         /\ Append(h, w)[Len(h) + 1] = w
  BY AppendProperties, LenProperties

-----------------------------------------------------------------------------
(* What the history makes of a write. *)

\* The third write of a command, told apart; shorter strings are none.
LEMMA Thirds ==
  ASSUME NEW h \in Seq(Pairs)
  PROVE  /\ \A x \in Nat : h = Third(<<KeyOne, x>>) <=> Len(h) = 3 /\ Opened(h) /\ h[3] = <<KeyOne, x>>
         /\ Begins(h) <=> \/ Len(h) = 1 /\ h[1] = KeyWrite
                          \/ Len(h) = 2 /\ Opened(h)
                          \/ Len(h) = 3 /\ Opened(h) /\ (h[3] = <<KeyOne, xA0>> \/ h[3] = <<KeyOne, xB0>>)
         /\ Sectors(h) <=> Len(h) = 3 /\ Opened(h) /\ \E o \in Offs \ {KeyOne} : h[3] = <<o, x30>>
<1>1. \A x \in Pairs : h = Third(x) <=> Len(h) = 3 /\ Opened(h) /\ h[3] = x
  BY Recognised
<1>2. \A x \in Nat : h = Third(<<KeyOne, x>>) <=> Len(h) = 3 /\ Opened(h) /\ h[3] = <<KeyOne, x>>
  BY <1>1, Keys
<1>3. xA0 \in Nat /\ xB0 \in Nat
  BY DEF xA0, xB0
<1>4. Begins(h) <=> h \in {SubSeq(Unlock, 1, n) : n \in 1..2} \/ h = Third(<<KeyOne, xA0>>) \/ h = Third(<<KeyOne, xB0>>)
  BY DEF Begins
<1>5. Begins(h) <=> \/ Len(h) = 1 /\ h[1] = KeyWrite
                    \/ Len(h) = 2 /\ Opened(h)
                    \/ Len(h) = 3 /\ Opened(h) /\ (h[3] = <<KeyOne, xA0>> \/ h[3] = <<KeyOne, xB0>>)
  BY <1>2, <1>3, <1>4, Recognised
<1>6. \A o \in Offs : <<o, x30>> \in Pairs
  BY DEF Pairs, x30
<1>7. Sectors(h) <=> \E o \in Offs \ {KeyOne} : h = Third(<<o, x30>>)
  BY DEF Sectors
<1>8. Sectors(h) <=> Len(h) = 3 /\ Opened(h) /\ \E o \in Offs \ {KeyOne} : h[3] = <<o, x30>>
  BY <1>1, <1>6, <1>7
<1>9. QED
  BY <1>2, <1>5, <1>8

-----------------------------------------------------------------------------
(* A write to a flash. *)

LEMMA Stored ==
  ASSUME NEW d \in [Cells(kind) -> Nat], NEW c, NEW v \in Nat, NEW b, NEW o
  PROVE  /\ Put(d, c, v) \in [Cells(kind) -> Nat]
         /\ EraseChip(d) \in [Cells(kind) -> Nat]
         /\ EraseSector(d, b, o) \in [Cells(kind) -> Nat]
<1>1. xFF \in Nat
  BY DEF xFF
<1>2. Put(d, c, v) \in [Cells(kind) -> Nat]
  BY DEF Put
<1>3. EraseChip(d) \in [Cells(kind) -> Nat]
  BY <1>1 DEF EraseChip
<1>4. EraseSector(d, b, o) \in [Cells(kind) -> Nat]
  BY <1>1 DEF EraseSector
<1>5. QED
  BY <1>2, <1>3, <1>4

\* What a record of the history becomes, field by field.
LEMMA Retold ==
  ASSUME NEW s, NEW t \in FlashTold(s)
  PROVE  /\ Forget(t) \in FlashTold(s) /\ Forget(t).heard = << >>
         /\ \A h \in Seq(Pairs) : [t EXCEPT !.heard = h] \in FlashTold(s) /\ [t EXCEPT !.heard = h].heard = h
         /\ \A u : (u.bank = s.bank /\ u.idMode = s.idMode /\ u.erasePrep = s.erasePrep) =>
              [t EXCEPT !.image = u.data] \in FlashTold(u)
         /\ \A u : (u.data = s.data /\ u.idMode = s.idMode /\ u.erasePrep = s.erasePrep) =>
              [t EXCEPT !.bank = u.bank] \in FlashTold(u)
         /\ \A u : (u.data = s.data /\ u.bank = s.bank /\ u.erasePrep = s.erasePrep) =>
              [t EXCEPT !.id = u.idMode] \in FlashTold(u)
         /\ \A u : (u.data = s.data /\ u.bank = s.bank /\ u.idMode = s.idMode) =>
              [t EXCEPT !.prepared = u.erasePrep] \in FlashTold(u)
         /\ \A u : (u.bank = s.bank /\ u.idMode = s.idMode) =>
              [t EXCEPT !.image = u.data, !.prepared = u.erasePrep] \in FlashTold(u)
         /\ \A u : (u.data = s.data /\ u.bank = s.bank /\ u.idMode = s.idMode /\ u.erasePrep = s.erasePrep) =>
              t \in FlashTold(u)
<1>1. << >> \in Seq(Pairs)
  OBVIOUS
<1>2. Forget(t) \in FlashTold(s) /\ Forget(t).heard = << >>
  BY <1>1 DEF FlashTold, Forget
<1>3. \A h \in Seq(Pairs) : [t EXCEPT !.heard = h] \in FlashTold(s) /\ [t EXCEPT !.heard = h].heard = h
  BY DEF FlashTold
<1>4. ASSUME NEW u, u.bank = s.bank, u.idMode = s.idMode, u.erasePrep = s.erasePrep
      PROVE  [t EXCEPT !.image = u.data] \in FlashTold(u)
  BY <1>4 DEF FlashTold
<1>5. ASSUME NEW u, u.data = s.data, u.idMode = s.idMode, u.erasePrep = s.erasePrep
      PROVE  [t EXCEPT !.bank = u.bank] \in FlashTold(u)
  BY <1>5 DEF FlashTold
<1>6. ASSUME NEW u, u.data = s.data, u.bank = s.bank, u.erasePrep = s.erasePrep
      PROVE  [t EXCEPT !.id = u.idMode] \in FlashTold(u)
  BY <1>6 DEF FlashTold
<1>7. ASSUME NEW u, u.data = s.data, u.bank = s.bank, u.idMode = s.idMode
      PROVE  [t EXCEPT !.prepared = u.erasePrep] \in FlashTold(u)
  BY <1>7 DEF FlashTold
<1>8. ASSUME NEW u, u.bank = s.bank, u.idMode = s.idMode
      PROVE  [t EXCEPT !.image = u.data, !.prepared = u.erasePrep] \in FlashTold(u)
  BY <1>8 DEF FlashTold
<1>9. ASSUME NEW u, u.data = s.data, u.bank = s.bank, u.idMode = s.idMode, u.erasePrep = s.erasePrep
      PROVE  t \in FlashTold(u)
  BY <1>9 DEF FlashTold
<1>10. QED
  BY <1>2, <1>3, <1>4, <1>5, <1>6, <1>7, <1>8, <1>9

\* And the chip's.
LEMMA Changed ==
  ASSUME NEW s \in FlashChip, NEW p \in 0..2, NEW b \in BOOLEAN, NEW d \in [Cells(kind) -> Nat], NEW n \in Nat
  PROVE  /\ [s EXCEPT !.phase = p] \in FlashChip
         /\ [s EXCEPT !.phase = p, !.idMode = b] \in FlashChip
         /\ [s EXCEPT !.phase = p, !.erasePrep = b] \in FlashChip
         /\ [s EXCEPT !.phase = p, !.writePending = b] \in FlashChip
         /\ [s EXCEPT !.phase = p, !.bankPending = b] \in FlashChip
         /\ [s EXCEPT !.data = d, !.writePending = b] \in FlashChip
         /\ [s EXCEPT !.bank = n, !.bankPending = b] \in FlashChip
         /\ [s EXCEPT !.data = d, !.erasePrep = b] \in FlashChip
<1>1. [s EXCEPT !.phase = p] \in FlashChip
  BY DEF FlashChip
<1>2. [s EXCEPT !.phase = p, !.idMode = b] \in FlashChip
  BY DEF FlashChip
<1>3. [s EXCEPT !.phase = p, !.erasePrep = b] \in FlashChip
  BY DEF FlashChip
<1>4. [s EXCEPT !.phase = p, !.writePending = b] \in FlashChip
  BY DEF FlashChip
<1>5. [s EXCEPT !.phase = p, !.bankPending = b] \in FlashChip
  BY DEF FlashChip
<1>6. [s EXCEPT !.data = d, !.writePending = b] \in FlashChip
  BY DEF FlashChip
<1>7. [s EXCEPT !.bank = n, !.bankPending = b] \in FlashChip
  BY DEF FlashChip
<1>8. [s EXCEPT !.data = d, !.erasePrep = b] \in FlashChip
  BY DEF FlashChip
<1>9. QED
  BY <1>1, <1>2, <1>3, <1>4, <1>5, <1>6, <1>7, <1>8


\* Nothing that ends in a reset, and nothing of four writes, is the start of a command.
LEMMA Apart ==
  ASSUME NEW h \in Seq(Pairs), Len(h) = 4 \/ (Len(h) \in 1..3 /\ h[Len(h)][2] = xF0)
  PROVE  ~Begins(h) /\ ~Sectors(h) /\ h # Third(<<KeyOne, x90>>) /\ h # Third(<<KeyOne, x80>>) /\ h # Third(<<KeyOne, x10>>)
<1>1. x90 \in Nat /\ x80 \in Nat /\ x10 \in Nat /\ x90 # xF0 /\ x80 # xF0 /\ x10 # xF0
      /\ x30 # xF0 /\ xA0 # xF0 /\ xB0 # xF0 /\ xAA # xF0 /\ x55 # xF0
  BY DEF x90, x80, x10, xF0, x30, xA0, xB0, xAA, x55
<1>2. \A a, b : <<a, b>>[2] = b
  OBVIOUS
<1>3. KeyWrite[2] # xF0 /\ NextWrite[2] # xF0
  BY <1>1, <1>2 DEF KeyWrite, NextWrite
<1>4. ~Begins(h)
  <2>1. CASE Len(h) = 1
    BY <1>3, <2>1, Thirds
  <2>2. CASE Len(h) = 2
    BY <1>3, <2>2, Thirds DEF Opened
  <2>3. CASE Len(h) = 3
    BY <1>1, <1>2, <2>3, Thirds
  <2>4. QED
    BY <2>1, <2>2, <2>3, Thirds
<1>5. ASSUME Sectors(h) PROVE FALSE
  <2>1. Len(h) = 3 /\ \E o \in Offs \ {KeyOne} : h[3] = <<o, x30>>
    BY <1>5, Thirds
  <2>2. h[3][2] = x30
    BY <1>2, <2>1
  <2>3. QED
    BY <1>1, <2>1, <2>2
<1>6. ASSUME NEW x \in Nat, x # xF0, h = Third(<<KeyOne, x>>) PROVE FALSE
  <2>1. Len(h) = 3 /\ h[3] = <<KeyOne, x>>
    BY <1>6, Thirds
  <2>2. h[3][2] = x
    BY <1>2, <2>1
  <2>3. x # xF0
    BY <1>6
  <2>4. h[Len(h)][2] = x
    BY <2>1, <2>2
  <2>5. Len(h) # 4
    BY <2>1
  <2>6. QED
    BY <2>3, <2>4, <2>5
<1>7. QED
  BY <1>1, <1>4, <1>5, <1>6

LEMMA FollowsAwaited ==
  ASSUME kind \in Flashes, NEW s, NEW t, FlashAgrees(s, t), NEW w \in Writes, Awaiting(s)
  PROVE  FlashAgrees(FlashWrite(s, w[1], w[2]), Heard(t, w))
<1>1. s \in FlashChip /\ t \in FlashTold(s) /\ t.heard \in Seq(Pairs) /\ Len(t.heard) = 3
  BY DEF FlashAgrees, InPlace, Awaiting, FlashTold
<1>2. w \in Pairs /\ w[1] \in Offs /\ w[2] \in Nat
  BY Written
<1>3. PICK h \in Seq(Pairs) : h = Append(t.heard, w)
  BY <1>1, <1>2, Longer
<1>4. Len(h) = 4 /\ h[3] = t.heard[3]
  BY <1>1, <1>2, <1>3, Longer
<1>5. xA0 # xB0
  BY DEF xA0, xB0
<1>6. Heard(t, w) = Made(t, h, w[1], w[2])
  BY <1>3 DEF Heard
<1>7. PICK no \in BOOLEAN : no = FALSE
  OBVIOUS
<1>8. CASE s.writePending
  <2>1. ~s.bankPending /\ h[3] = <<KeyOne, xA0>> /\ s.phase = 0
    BY <1>4, <1>8 DEF FlashAgrees, InPlace
  <2>2. PICK d \in [Cells(kind) -> Nat] : d = Put(s.data, <<s.bank, w[1]>>, w[2])
    BY <1>1, <1>2, Stored DEF FlashChip
  <2>3. PICK u : u = [s EXCEPT !.data = d, !.writePending = no]
    OBVIOUS
  <2>4. FlashWrite(s, w[1], w[2]) = u
    BY <1>7, <1>8, <2>2, <2>3 DEF FlashWrite
  <2>5. u \in FlashChip
    BY <1>1, <2>3 DEF FlashChip
  <2>6. u.data = d /\ u.bank = s.bank /\ u.idMode = s.idMode /\ u.erasePrep = s.erasePrep
        /\ u.phase = 0 /\ u.writePending = no /\ u.bankPending = s.bankPending
    BY <1>1, <2>1, <2>3 DEF FlashChip
  <2>7. Put(t.image, <<t.bank, w[1]>>, w[2]) = u.data
    BY <1>1, <2>2, <2>6 DEF FlashTold
  <2>8. Made(t, h, w[1], w[2]) = Forget([t EXCEPT !.image = u.data])
    <3>1. h[3] # <<KeyOne, xB0>>
      BY <1>5, <2>1
    <3>2. ~Begins(h) /\ ~Sectors(h) /\ h # Third(<<KeyOne, x90>>) /\ h # Third(<<KeyOne, x80>>) /\ h # Third(<<KeyOne, x10>>)
      BY <1>4, Apart
    <3>3. QED
      BY <1>4, <2>1, <2>7, <3>1, <3>2 DEF Made
  <2>9. [t EXCEPT !.image = u.data] \in FlashTold(u)
    BY <1>1, <2>6, Retold
  <2>10. PICK v : v = Forget([t EXCEPT !.image = u.data])
    OBVIOUS
  <2>11. v \in FlashTold(u) /\ v.heard = << >>
    BY <2>9, <2>10, Retold
  <2>12. InPlace(u, v.heard)
    BY <1>7, <2>1, <2>6, <2>11 DEF InPlace
  <2>13. QED
    BY <1>6, <2>4, <2>5, <2>8, <2>10, <2>11, <2>12 DEF FlashAgrees
<1>9. CASE ~s.writePending
  <2>1. s.bankPending /\ h[3] = <<KeyOne, xB0>> /\ s.phase = 0
    BY <1>4, <1>9 DEF FlashAgrees, InPlace, Awaiting
  <2>2. PICK b \in Nat : b = w[2] % 2
    BY <1>2
  <2>3. PICK u : u = [s EXCEPT !.bank = b, !.bankPending = no]
    OBVIOUS
  <2>4. FlashWrite(s, w[1], w[2]) = u
    BY <1>7, <1>9, <2>1, <2>2, <2>3 DEF FlashWrite
  <2>5. u \in FlashChip
    BY <1>1, <2>3 DEF FlashChip
  <2>6. u.data = s.data /\ u.bank = b /\ u.idMode = s.idMode /\ u.erasePrep = s.erasePrep
        /\ u.phase = 0 /\ u.writePending = s.writePending /\ u.bankPending = no
    BY <1>1, <2>1, <2>3 DEF FlashChip
  <2>7. h[3] # <<KeyOne, xA0>>
    BY <1>5, <2>1
  <2>8. Made(t, h, w[1], w[2]) = Forget([t EXCEPT !.bank = u.bank])
    BY <1>4, <2>1, <2>2, <2>6, <2>7, Apart DEF Made
  <2>9. [t EXCEPT !.bank = u.bank] \in FlashTold(u)
    BY <1>1, <2>6, Retold
  <2>10. PICK v : v = Forget([t EXCEPT !.bank = u.bank])
    OBVIOUS
  <2>11. v \in FlashTold(u) /\ v.heard = << >>
    BY <2>9, <2>10, Retold
  <2>12. InPlace(u, v.heard)
    BY <1>7, <1>9, <2>1, <2>6, <2>11 DEF InPlace
  <2>13. QED
    BY <1>6, <2>4, <2>5, <2>8, <2>10, <2>11, <2>12 DEF FlashAgrees
<1>10. QED
  BY <1>8, <1>9

\* A write that is no part of a command, and the first two of one.
LEMMA FollowsReset ==
  ASSUME kind \in Flashes, NEW s, NEW t, FlashAgrees(s, t), NEW w \in Writes,
         ~Awaiting(s), w[2] = xF0
  PROVE  FlashAgrees(FlashWrite(s, w[1], w[2]), Heard(t, w))
<1>1. s \in FlashChip /\ t \in FlashTold(s) /\ t.heard \in Seq(Pairs) /\ Len(t.heard) \in 0..2
  BY DEF FlashAgrees, InPlace, Awaiting, FlashTold
<1>2. w \in Pairs
  BY Written
<1>3. PICK h \in Seq(Pairs) : h = Append(t.heard, w)
  BY <1>1, <1>2, Longer
<1>4. Len(h) \in 1..3 /\ h[Len(h)] = w
  BY <1>1, <1>2, <1>3, Longer
<1>5. ~s.writePending /\ ~s.bankPending
  BY DEF Awaiting
<1>6. PICK no \in BOOLEAN : no = FALSE
  OBVIOUS
<1>0. PICK p \in 0..2 : p = 0
  OBVIOUS
<1>7. PICK u : u = [s EXCEPT !.idMode = no, !.phase = p]
  OBVIOUS
<1>8. FlashWrite(s, w[1], w[2]) = u
  BY <1>0, <1>5, <1>6, <1>7 DEF FlashWrite
<1>9. u \in FlashChip
  BY <1>1, <1>7 DEF FlashChip
<1>10. u.data = s.data /\ u.bank = s.bank /\ u.idMode = no /\ u.erasePrep = s.erasePrep
       /\ u.phase = 0 /\ u.writePending = s.writePending /\ u.bankPending = s.bankPending
  BY <1>0, <1>1, <1>7 DEF FlashChip
<1>11. Heard(t, w) = Made(t, h, w[1], w[2])
  BY <1>3 DEF Heard
<1>12. Made(t, h, w[1], w[2]) = Forget([t EXCEPT !.id = u.idMode])
  <2>1. ~Begins(h) /\ ~Sectors(h) /\ h # Third(<<KeyOne, x90>>) /\ h # Third(<<KeyOne, x80>>) /\ h # Third(<<KeyOne, x10>>)
    BY <1>4, Apart
  <2>2. Len(h) # 4
    BY <1>4
  <2>3. u.idMode = FALSE
    BY <1>6, <1>10
  <2>4. QED
    BY <2>1, <2>2, <2>3 DEF Made
<1>13. [t EXCEPT !.id = u.idMode] \in FlashTold(u)
  BY <1>1, <1>10, Retold
<1>14. PICK v : v = Forget([t EXCEPT !.id = u.idMode])
  OBVIOUS
<1>15. v \in FlashTold(u) /\ v.heard = << >>
  BY <1>13, <1>14, Retold
<1>16. InPlace(u, v.heard)
  BY <1>5, <1>10, <1>15 DEF InPlace
<1>17. QED
  BY <1>8, <1>9, <1>11, <1>12, <1>14, <1>15, <1>16 DEF FlashAgrees

\* The chip back at the start and the history empty, whatever else is unchanged.
LEMMA FollowsNothing ==
  ASSUME NEW s \in FlashChip, NEW t \in FlashTold(s), ~Awaiting(s)
  PROVE  FlashAgrees([s EXCEPT !.phase = 0], Forget(t))
<1>1. PICK u : u = [s EXCEPT !.phase = 0]
  OBVIOUS
<1>2. u \in FlashChip
  BY <1>1 DEF FlashChip
<1>3. u.data = s.data /\ u.bank = s.bank /\ u.idMode = s.idMode /\ u.erasePrep = s.erasePrep
      /\ u.phase = 0 /\ u.writePending = s.writePending /\ u.bankPending = s.bankPending
  BY <1>1 DEF FlashChip
<1>4. t \in FlashTold(u)
  BY <1>3, Retold
<1>5. Forget(t) \in FlashTold(u) /\ Forget(t).heard = << >>
  BY <1>4, Retold
<1>6. InPlace(u, Forget(t).heard)
  BY <1>3, <1>5 DEF InPlace, Awaiting
<1>7. QED
  BY <1>1, <1>2, <1>5, <1>6 DEF FlashAgrees

\* The history goes on to h, and the chip with it.
LEMMA FollowsOn ==
  ASSUME NEW s \in FlashChip, NEW t \in FlashTold(s), NEW h \in Seq(Pairs), NEW u \in FlashChip,
         u.data = s.data, u.bank = s.bank, u.idMode = s.idMode, u.erasePrep = s.erasePrep, InPlace(u, h)
  PROVE  FlashAgrees(u, [t EXCEPT !.heard = h])
<1>1. t \in FlashTold(u)
  BY Retold
<1>2. [t EXCEPT !.heard = h] \in FlashTold(u) /\ [t EXCEPT !.heard = h].heard = h
  BY <1>1, Retold
<1>3. QED
  BY <1>2 DEF FlashAgrees

LEMMA FollowsShort ==
  ASSUME kind \in Flashes, NEW s, NEW t, FlashAgrees(s, t), NEW w \in Writes,
         ~Awaiting(s), w[2] # xF0, s.phase # 2
  PROVE  FlashAgrees(FlashWrite(s, w[1], w[2]), Heard(t, w))
<1>1. s \in FlashChip /\ t \in FlashTold(s) /\ t.heard \in Seq(Pairs) /\ Len(t.heard) \in 0..2
  BY DEF FlashAgrees, InPlace, Awaiting, FlashTold
<1>2. w \in Pairs /\ w[1] \in Offs /\ w[2] \in Nat /\ w = <<w[1], w[2]>>
  BY Written
<1>3. PICK h \in Seq(Pairs) : h = Append(t.heard, w)
  BY <1>1, <1>2, Longer
<1>4. Len(h) = Len(t.heard) + 1 /\ h[Len(t.heard) + 1] = w /\ \A i \in 1..Len(t.heard) : h[i] = t.heard[i]
  BY <1>1, <1>2, <1>3, Longer
<1>5. Len(h) # 4 /\ ~s.writePending /\ ~s.bankPending
  BY <1>1, <1>4 DEF Awaiting
<1>6. s.phase \in 0..1 /\ Len(t.heard) = s.phase
  <2>1. InPlace(s, t.heard)
    BY DEF FlashAgrees
  <2>2. Len(t.heard) = s.phase
    BY <1>5, <2>1 DEF InPlace
  <2>3. QED
    BY <1>1, <2>2
<1>7. s.phase = 1 => t.heard[1] = KeyWrite
  BY <1>5 DEF FlashAgrees, InPlace
<1>8. (s.phase = 0 /\ w[1] = KeyOne /\ w[2] = xAA) <=> (Len(h) = 1 /\ h[1] = KeyWrite)
  BY <1>2, <1>4, <1>6 DEF KeyWrite
<1>9. (s.phase = 1 /\ w[1] = KeyTwo /\ w[2] = x55) <=> (Len(h) = 2 /\ Opened(h))
  BY <1>2, <1>4, <1>6, <1>7 DEF NextWrite, Opened
<1>10. Len(h) # 3
  BY <1>4, <1>6
<1>11. Begins(h) <=> (Len(h) = 1 /\ h[1] = KeyWrite) \/ (Len(h) = 2 /\ Opened(h))
  BY <1>10, Thirds
<1>12. x90 \in Nat /\ x80 \in Nat /\ x10 \in Nat
  BY DEF x90, x80, x10
<1>13. ~Sectors(h) /\ h # Third(<<KeyOne, x90>>) /\ h # Third(<<KeyOne, x80>>) /\ h # Third(<<KeyOne, x10>>)
  BY <1>10, <1>12, Thirds
<1>14. Heard(t, w) = Made(t, h, w[1], w[2])
  BY <1>3 DEF Heard
<1>15. CASE Begins(h)
  <2>1. Made(t, h, w[1], w[2]) = [t EXCEPT !.heard = h]
    BY <1>5, <1>13, <1>15 DEF Made
  <2>2. PICK p \in 0..2 : p = s.phase + 1
    BY <1>6
  <2>3. FlashWrite(s, w[1], w[2]) = [s EXCEPT !.phase = p]
    BY <1>5, <1>6, <1>8, <1>9, <1>11, <1>15, <2>2 DEF FlashWrite
  <2>4. PICK u : u = [s EXCEPT !.phase = p]
    OBVIOUS
  <2>5. u \in FlashChip
    BY <1>1, <2>4 DEF FlashChip
  <2>6. u.data = s.data /\ u.bank = s.bank /\ u.idMode = s.idMode /\ u.erasePrep = s.erasePrep
        /\ u.phase = p /\ u.writePending = s.writePending /\ u.bankPending = s.bankPending
    BY <1>1, <2>4 DEF FlashChip
  <2>7. InPlace(u, h)
    BY <1>4, <1>5, <1>6, <1>11, <1>15, <2>2, <2>6 DEF InPlace
  <2>8. FlashAgrees(u, [t EXCEPT !.heard = h])
    BY <1>1, <2>5, <2>6, <2>7, FollowsOn
  <2>9. QED
    BY <1>14, <2>1, <2>3, <2>4, <2>8
<1>16. CASE ~Begins(h)
  <2>1. Made(t, h, w[1], w[2]) = Forget(t)
    BY <1>5, <1>13, <1>16 DEF Made
  <2>2. FlashWrite(s, w[1], w[2]) = [s EXCEPT !.phase = 0]
    BY <1>5, <1>8, <1>9, <1>11, <1>16 DEF FlashWrite
  <2>3. QED
    BY <1>1, <1>14, <2>1, <2>2, FollowsNothing
<1>17. QED
  BY <1>15, <1>16

\* What the third write does: what ends a command, and what leaves a byte awaited.
LEMMA FollowsEnd ==
  ASSUME NEW u \in FlashChip, NEW v \in FlashTold(u), u.phase = 0, ~u.writePending, ~u.bankPending
  PROVE  FlashAgrees(u, Forget(v))
<1>1. Forget(v) \in FlashTold(u) /\ Forget(v).heard = << >>
  <2>1. << >> \in Seq(Pairs)
    OBVIOUS
  <2>2. QED
    BY <2>1 DEF FlashTold, Forget
<1>2. InPlace(u, Forget(v).heard)
  BY <1>1 DEF InPlace
<1>3. QED
  BY <1>1, <1>2 DEF FlashAgrees

LEMMA FollowsCommand ==
  ASSUME kind \in Flashes, NEW s, NEW t, FlashAgrees(s, t), NEW w \in Writes,
         ~Awaiting(s), w[2] # xF0, s.phase = 2
  PROVE  FlashAgrees(FlashWrite(s, w[1], w[2]), Heard(t, w))
<1>1. s \in FlashChip /\ t \in FlashTold(s) /\ t.heard \in Seq(Pairs) /\ Len(t.heard) = 2 /\ Opened(t.heard)
  BY DEF FlashAgrees, InPlace, Awaiting, FlashTold
<1>2. w \in Pairs /\ w[1] \in Offs /\ w[2] \in Nat /\ w = <<w[1], w[2]>>
  BY Written
<1>3. PICK h \in Seq(Pairs) : h = Append(t.heard, w)
  BY <1>1, <1>2, Longer
<1>4. Len(h) = 3 /\ h[3] = w /\ h[1] = t.heard[1] /\ h[2] = t.heard[2]
  <2>1. Len(h) = Len(t.heard) + 1 /\ h[Len(t.heard) + 1] = w /\ \A i \in 1..Len(t.heard) : h[i] = t.heard[i]
    BY <1>1, <1>2, <1>3, Longer
  <2>2. QED
    BY <1>1, <2>1
<1>5. Opened(h)
  BY <1>1, <1>4 DEF Opened
<1>6. ~s.writePending /\ ~s.bankPending
  BY DEF Awaiting
<1>7. Heard(t, w) = Made(t, h, w[1], w[2])
  BY <1>3 DEF Heard
<1>8. PICK off \in Offs : off = w[1]
  BY <1>2
<1>9. PICK val \in Nat : val = w[2]
  BY <1>2
<1>10. \A x \in Nat : h = Third(<<KeyOne, x>>) <=> off = KeyOne /\ val = x
  <2>1. \A x \in Nat : h = Third(<<KeyOne, x>>) <=> h[3] = <<KeyOne, x>>
    BY <1>4, <1>5, Thirds
  <2>2. \A x \in Nat : h[3] = <<KeyOne, x>> <=> off = KeyOne /\ val = x
    BY <1>2, <1>4, <1>8, <1>9
  <2>3. QED
    BY <2>1, <2>2
<1>11. /\ xA0 \in Nat /\ xB0 \in Nat /\ x90 \in Nat /\ x80 \in Nat /\ x10 \in Nat /\ x30 \in Nat
       /\ xA0 # xB0 /\ xA0 # x90 /\ xA0 # x80 /\ xA0 # x10 /\ xB0 # x90 /\ xB0 # x80 /\ xB0 # x10
       /\ x90 # x80 /\ x90 # x10 /\ x80 # x10
  BY DEF xA0, xB0, x90, x80, x10, x30
<1>12. h = Third(<<KeyOne, x90>>) <=> off = KeyOne /\ val = x90
  BY <1>10, <1>11
<1>13. h = Third(<<KeyOne, x80>>) <=> off = KeyOne /\ val = x80
  BY <1>10, <1>11
<1>14. h = Third(<<KeyOne, x10>>) <=> off = KeyOne /\ val = x10
  BY <1>10, <1>11
<1>15. Begins(h) <=> off = KeyOne /\ (val = xA0 \/ val = xB0)
  <2>1. Begins(h) <=> h[3] = <<KeyOne, xA0>> \/ h[3] = <<KeyOne, xB0>>
    <3>1. Begins(h) <=> \/ Len(h) = 1 /\ h[1] = KeyWrite
                        \/ Len(h) = 2 /\ Opened(h)
                        \/ Len(h) = 3 /\ Opened(h) /\ (h[3] = <<KeyOne, xA0>> \/ h[3] = <<KeyOne, xB0>>)
      BY Thirds
    <3>2. QED
      BY <1>4, <1>5, <3>1
  <2>2. QED
    BY <1>2, <1>4, <1>8, <1>9, <2>1
<1>16. Sectors(h) <=> off # KeyOne /\ val = x30
  <2>1. Sectors(h) <=> \E o \in Offs \ {KeyOne} : h[3] = <<o, x30>>
    BY <1>4, <1>5, Thirds
  <2>2. QED
    BY <1>2, <1>4, <1>8, <1>9, <2>1
<1>17. val # xF0 /\ Len(h) # 4
  BY <1>4, <1>9
<1> DEFINE r == [s EXCEPT !.phase = 0]
<1>18. r \in FlashChip
  BY <1>1 DEF FlashChip
<1>19. r.data = s.data /\ r.bank = s.bank /\ r.idMode = s.idMode /\ r.erasePrep = s.erasePrep
       /\ r.phase = 0 /\ r.writePending = s.writePending /\ r.bankPending = s.bankPending
  BY <1>1 DEF FlashChip
<1>20. FlashWrite(s, off, val) = Command(s, off, val)
  BY <1>6, <1>17 DEF FlashWrite
<1> HIDE DEF r
<1>21. t \in FlashTold(r) /\ t.prepared = s.erasePrep /\ t.image = s.data /\ t.bank = s.bank
       /\ s.erasePrep \in BOOLEAN /\ s.data \in [Cells(kind) -> Nat]
  BY <1>1, <1>19, Retold DEF FlashTold, FlashChip
<1>22. PICK yes \in BOOLEAN : yes = TRUE
  OBVIOUS
<1>23. PICK no \in BOOLEAN : no = FALSE
  OBVIOUS
<1> SUFFICES FlashAgrees(Command(s, off, val), Made(t, h, off, val))
  BY <1>7, <1>8, <1>9, <1>20
<1>24. CASE off = KeyOne /\ val = x90
  <2>1. PICK u : u = [r EXCEPT !.idMode = yes]
    OBVIOUS
  <2>2. Command(s, off, val) = u
    BY <1>11, <1>22, <1>24, <2>1 DEF Command, r
  <2>3. u \in FlashChip
    BY <1>18, <2>1 DEF FlashChip
  <2>4. u.data = r.data /\ u.bank = r.bank /\ u.idMode = yes /\ u.erasePrep = r.erasePrep
        /\ u.phase = 0 /\ u.writePending = r.writePending /\ u.bankPending = r.bankPending
    BY <1>18, <1>19, <2>1 DEF FlashChip
  <2>5. [t EXCEPT !.id = u.idMode] \in FlashTold(u)
    BY <1>21, <2>4, Retold
  <2>6. Made(t, h, off, val) = Forget([t EXCEPT !.id = u.idMode])
    BY <1>11, <1>12, <1>13, <1>14, <1>15, <1>16, <1>17, <1>22, <1>24, <2>4 DEF Made
  <2>7. QED
    BY <1>6, <1>19, <2>2, <2>3, <2>4, <2>5, <2>6, FollowsEnd
<1>25. CASE off = KeyOne /\ val = x80
  <2>1. PICK u : u = [r EXCEPT !.erasePrep = yes]
    OBVIOUS
  <2>2. Command(s, off, val) = u
    BY <1>11, <1>22, <1>25, <2>1 DEF Command, r
  <2>3. u \in FlashChip
    BY <1>18, <2>1 DEF FlashChip
  <2>4. u.data = r.data /\ u.bank = r.bank /\ u.idMode = r.idMode /\ u.erasePrep = yes
        /\ u.phase = 0 /\ u.writePending = r.writePending /\ u.bankPending = r.bankPending
    BY <1>18, <1>19, <2>1 DEF FlashChip
  <2>5. [t EXCEPT !.prepared = u.erasePrep] \in FlashTold(u)
    BY <1>21, <2>4, Retold
  <2>6. Made(t, h, off, val) = Forget([t EXCEPT !.prepared = u.erasePrep])
    BY <1>11, <1>12, <1>13, <1>14, <1>15, <1>16, <1>17, <1>22, <1>25, <2>4 DEF Made
  <2>7. QED
    BY <1>6, <1>19, <2>2, <2>3, <2>4, <2>5, <2>6, FollowsEnd
<1>26. CASE off = KeyOne /\ val = xA0
  <2>1. PICK u : u = [r EXCEPT !.writePending = yes]
    OBVIOUS
  <2>2. Command(s, off, val) = u
    BY <1>11, <1>22, <1>26, <2>1 DEF Command, r
  <2>3. u \in FlashChip
    BY <1>18, <2>1 DEF FlashChip
  <2>4. u.data = r.data /\ u.bank = r.bank /\ u.idMode = r.idMode /\ u.erasePrep = r.erasePrep
        /\ u.phase = 0 /\ u.writePending = yes /\ u.bankPending = r.bankPending
    BY <1>18, <1>19, <2>1 DEF FlashChip
  <2>5. InPlace(u, h)
    BY <1>2, <1>4, <1>5, <1>6, <1>8, <1>9, <1>19, <1>22, <1>26, <2>4 DEF InPlace
  <2>6. Made(t, h, off, val) = [t EXCEPT !.heard = h]
    BY <1>11, <1>12, <1>13, <1>14, <1>15, <1>16, <1>17, <1>26 DEF Made
  <2>7. FlashAgrees(u, [t EXCEPT !.heard = h])
    BY <1>18, <1>21, <2>3, <2>4, <2>5, FollowsOn
  <2>8. QED
    BY <2>2, <2>6, <2>7
<1>27. CASE off = KeyOne /\ val = xB0
  <2>1. PICK u : u = [r EXCEPT !.bankPending = yes]
    OBVIOUS
  <2>2. Command(s, off, val) = u
    BY <1>11, <1>22, <1>27, <2>1 DEF Command, r
  <2>3. u \in FlashChip
    BY <1>18, <2>1 DEF FlashChip
  <2>4. u.data = r.data /\ u.bank = r.bank /\ u.idMode = r.idMode /\ u.erasePrep = r.erasePrep
        /\ u.phase = 0 /\ u.writePending = r.writePending /\ u.bankPending = yes
    BY <1>18, <1>19, <2>1 DEF FlashChip
  <2>5. InPlace(u, h)
    BY <1>2, <1>4, <1>5, <1>6, <1>8, <1>9, <1>19, <1>22, <1>27, <2>4 DEF InPlace
  <2>6. Made(t, h, off, val) = [t EXCEPT !.heard = h]
    BY <1>11, <1>12, <1>13, <1>14, <1>15, <1>16, <1>17, <1>27 DEF Made
  <2>7. FlashAgrees(u, [t EXCEPT !.heard = h])
    BY <1>18, <1>21, <2>3, <2>4, <2>5, FollowsOn
  <2>8. QED
    BY <2>2, <2>6, <2>7
<1>28. CASE off = KeyOne /\ val = x10 /\ s.erasePrep
  <2>1. PICK d \in [Cells(kind) -> Nat] : d = EraseChip(s.data)
    BY <1>21, Stored
  <2>2. PICK u : u = [r EXCEPT !.data = d, !.erasePrep = no]
    OBVIOUS
  <2>3. Command(s, off, val) = u
    BY <1>11, <1>19, <1>23, <1>28, <2>1, <2>2 DEF Command, r
  <2>4. u \in FlashChip
    BY <1>18, <2>2 DEF FlashChip
  <2>5. u.data = d /\ u.bank = r.bank /\ u.idMode = r.idMode /\ u.erasePrep = no
        /\ u.phase = 0 /\ u.writePending = r.writePending /\ u.bankPending = r.bankPending
    BY <1>18, <1>19, <2>2 DEF FlashChip
  <2>6. [t EXCEPT !.image = u.data, !.prepared = u.erasePrep] \in FlashTold(u)
    BY <1>21, <2>5, Retold
  <2>7. EraseChip(t.image) = u.data /\ u.erasePrep = FALSE
    BY <1>21, <1>23, <2>1, <2>5
  <2>8. Made(t, h, off, val) = Forget([t EXCEPT !.image = u.data, !.prepared = u.erasePrep])
    BY <1>11, <1>12, <1>13, <1>14, <1>15, <1>16, <1>17, <1>21, <1>28, <2>7 DEF Made
  <2>9. QED
    BY <1>6, <1>19, <2>3, <2>4, <2>5, <2>6, <2>8, FollowsEnd
<1>29. CASE off # KeyOne /\ val = x30 /\ s.erasePrep
  <2>1. PICK d \in [Cells(kind) -> Nat] : d = EraseSector(s.data, s.bank, off)
    BY <1>21, Stored
  <2>2. PICK u : u = [r EXCEPT !.data = d, !.erasePrep = no]
    OBVIOUS
  <2>3. Command(s, off, val) = u
    BY <1>11, <1>23, <1>29, <2>1, <2>2 DEF Command, r
  <2>4. u \in FlashChip
    BY <1>18, <2>2 DEF FlashChip
  <2>5. u.data = d /\ u.bank = r.bank /\ u.idMode = r.idMode /\ u.erasePrep = no
        /\ u.phase = 0 /\ u.writePending = r.writePending /\ u.bankPending = r.bankPending
    BY <1>18, <1>19, <2>2 DEF FlashChip
  <2>6. [t EXCEPT !.image = u.data, !.prepared = u.erasePrep] \in FlashTold(u)
    BY <1>21, <2>5, Retold
  <2>7. EraseSector(t.image, t.bank, off) = u.data /\ u.erasePrep = FALSE
    BY <1>21, <1>23, <2>1, <2>5
  <2>8. Made(t, h, off, val) = Forget([t EXCEPT !.image = u.data, !.prepared = u.erasePrep])
    BY <1>11, <1>12, <1>13, <1>14, <1>15, <1>16, <1>17, <1>21, <1>29, <2>7 DEF Made
  <2>9. QED
    BY <1>6, <1>19, <2>4, <2>3, <2>5, <2>6, <2>8, FollowsEnd
<1>30. CASE /\ ~(off = KeyOne /\ (val = x90 \/ val = x80 \/ val = xA0 \/ val = xB0))
            /\ ~(off = KeyOne /\ val = x10 /\ s.erasePrep) /\ ~(off # KeyOne /\ val = x30 /\ s.erasePrep)
  <2>1. Command(s, off, val) = r
    BY <1>30 DEF Command, r
  <2>2. Made(t, h, off, val) = Forget(t)
    BY <1>12, <1>13, <1>14, <1>15, <1>16, <1>17, <1>21, <1>30 DEF Made
  <2>3. QED
    BY <1>6, <1>18, <1>19, <1>21, <2>1, <2>2, FollowsEnd
<1>31. QED
  BY <1>24, <1>25, <1>26, <1>27, <1>28, <1>29, <1>30

LEMMA FlashFollows ==
  ASSUME kind \in Flashes, NEW s, NEW t, FlashAgrees(s, t), NEW w \in Writes
  PROVE  FlashAgrees(FlashWrite(s, w[1], w[2]), Heard(t, w))
  BY FollowsAwaited, FollowsReset, FollowsShort, FollowsCommand

-----------------------------------------------------------------------------
(* The save chips: EEPROM *)

Bits == {0, 1}

-----------------------------------------------------------------------------
(* Arithmetic *)

LEMMA Least ==
  ASSUME NEW T \in SUBSET Nat, T # {}
  PROVE  \E n \in T : \A m \in T : n <= m
<1> DEFINE R == OpToRel(<, Nat)
<1>1. IsWellFoundedOn(R, Nat)
  BY NatLessThanWellFounded
<1>2. \A m, n \in Nat : m < n => <<m, n>> \in R
  BY DEF OpToRel
<1> HIDE DEF R
<1>3. PICK x \in T : \A y \in T : ~(<<y, x>> \in R)
  BY <1>1, WFMin
<1>4. \A y \in T : ~(y < x)
  BY <1>2, <1>3
<1>5. QED
  BY <1>4

\* Induction on a set of numbers, as data.
LEMMA Induct ==
  ASSUME NEW S, 0 \in S, \A n \in Nat : n \in S => n + 1 \in S
  PROVE  Nat \subseteq S
<1> SUFFICES ASSUME NEW k \in Nat \ S PROVE FALSE
  OBVIOUS
<1>1. PICK n \in Nat \ S : \A m \in Nat \ S : n <= m
  BY Least
<1>2. n # 0 /\ n - 1 \in Nat
  BY <1>1
<1>3. n - 1 \in S
  BY <1>1, <1>2
<1>4. QED
  BY <1>1, <1>2, <1>3

LEMMA Cancels ==
  ASSUME NEW p \in Nat \ {0}, NEW a \in Int, NEW c \in Int, p * a < p * c
  PROVE  a < c
<1> SUFFICES ASSUME a >= c PROVE FALSE
  OBVIOUS
<1>1. p * (a - c) >= 0
  OBVIOUS
<1>2. p * (a - c) = p * a - p * c
  OBVIOUS
<1>3. QED
  BY <1>1, <1>2

\* A number's bit at p, and the word above it.
LEMMA Halves ==
  ASSUME NEW b \in Nat, NEW p \in Nat \ {0}
  PROVE  b \div p = 2 * (b \div (2 * p)) + ((b \div p) % 2)
<1>1. PICK x \in Nat : x = b \div p
  OBVIOUS
<1>2. p * x <= b /\ b < p * x + p
  BY <1>1
<1>3. PICK q \in Nat \ {0} : q = 2 * p
  OBVIOUS
<1>4. PICK y \in Nat : y = b \div q
  OBVIOUS
<1>5. q * y <= b /\ b < q * y + q
  BY <1>4
<1>6. p * (2 * y) = q * y /\ p * (2 * y + 2) = q * y + q /\ p * (x + 1) = p * x + p
  BY <1>3
<1>7. 2 * y < x + 1
  <2>1. p * (2 * y) < p * (x + 1)
    BY <1>2, <1>5, <1>6
  <2>2. QED
    BY <2>1, Cancels
<1>8. x < 2 * y + 2
  <2>1. p * x < p * (2 * y + 2)
    BY <1>2, <1>5, <1>6
  <2>2. QED
    BY <2>1, Cancels
<1>9. PICK z \in Nat : z = x % 2
  OBVIOUS
<1>10. x = 2 * y + z
  <2>1. x = 2 * y \/ x = 2 * y + 1
    BY <1>7, <1>8
  <2>2. CASE x = 2 * y
    <3>1. z = 0
      BY <1>9, <2>2
    <3>2. QED
      BY <2>2, <3>1
  <2>3. CASE x = 2 * y + 1
    <3>1. z = 1
      BY <1>9, <2>3
    <3>2. QED
      BY <2>3, <3>1
  <2>4. QED
    BY <2>1, <2>2, <2>3
<1>11. b \div p = 2 * (b \div (2 * p)) + z
  BY <1>1, <1>3, <1>4, <1>10
<1>12. (b \div p) % 2 = z
  BY <1>1, <1>9
<1>13. QED
  BY <1>11, <1>12

-----------------------------------------------------------------------------
(* Addresses *)

\* What Value's recursion comes to, given its values.
LEMMA ValueIs ==
  ASSUME NEW word \in Seq(Bits), NEW c \in [0..Len(word) -> Nat], c[0] = 0,
         \A k \in 1..Len(word) : c[k] = 2 * c[k - 1] + word[k]
  PROVE  Value(word) = c[Len(word)]
<1> DEFINE n == Len(word)
<1>1. n \in Nat
  BY LenProperties
<1>2. c = [k \in 0..Len(word) |-> IF k = 0 THEN 0 ELSE 2 * c[k - 1] + word[k]]
  <2>1. \A k \in 0..Len(word) : c[k] = IF k = 0 THEN 0 ELSE 2 * c[k - 1] + word[k]
    BY <1>1
  <2>2. QED
    BY <2>1
<1>3. PICK f : f = [k \in 0..Len(word) |-> IF k = 0 THEN 0 ELSE 2 * f[k - 1] + word[k]]
               /\ Value(word) = f[Len(word)]
  BY <1>2, Zenon DEF Value
<1> DEFINE S == {k \in Nat : k <= n => f[k] = c[k]}
<1>4. 0 \in S
  BY <1>1, <1>3
<1>5. ASSUME NEW k \in Nat, k \in S PROVE k + 1 \in S
  <2>1. SUFFICES ASSUME k + 1 <= n PROVE f[k + 1] = c[k + 1]
    OBVIOUS
  <2>2. k + 1 \in 1..n /\ f[k] = c[k]
    BY <1>1, <1>5, <2>1
  <2>3. f[k + 1] = 2 * f[(k + 1) - 1] + word[k + 1]
    BY <1>3, <2>2
  <2>4. c[k + 1] = 2 * c[(k + 1) - 1] + word[k + 1]
    BY <2>2
  <2>5. (k + 1) - 1 = k
    OBVIOUS
  <2>6. QED
    BY <2>2, <2>3, <2>4, <2>5
<1> HIDE DEF S
<1>6. Nat \subseteq S
  BY <1>4, <1>5, Induct
<1>7. QED
  BY <1>1, <1>3, <1>6 DEF S

\* An address is read as the block it was sent for.
LEMMA AddressRead ==
  ASSUME NEW w \in {Narrow, Wide}, NEW b \in Nat, b < 2 ^ w, NEW word \in Seq(Bits), Len(word) = w,
         \A k \in 1..w : word[k] = AddressBits(b, w)[k]
  PROVE  Value(word) = b
<1>1. w \in Nat \ {0} /\ w <= Wide /\ Wide \in Nat
  BY BackupAssumption
<1>2. \A i \in 0..w : 2 ^ i \in Nat \ {0}
  <2>1. SUFFICES ASSUME NEW i \in 0..w PROVE 2 ^ i \in Nat \ {0}
    OBVIOUS
  <2>2. CASE i = 0
    BY <2>2, BackupAssumption
  <2>3. CASE i # 0
    <3>1. i \in 1..Wide
      BY <1>1, <2>3
    <3>2. PICK p \in Nat \ {0} : p = 2 ^ (i - 1) /\ 2 ^ i = 2 * p
      BY <3>1, BackupAssumption
    <3>3. QED
      BY <3>2
  <2>4. QED
    BY <2>2, <2>3
<1> DEFINE c == [k \in 0..w |-> b \div 2 ^ (w - k)]
<1>3. c \in [0..w -> Nat]
  <2>1. SUFFICES ASSUME NEW k \in 0..w PROVE b \div 2 ^ (w - k) \in Nat
    OBVIOUS
  <2>2. w - k \in 0..w
    BY <1>1
  <2>3. PICK p \in Nat \ {0} : p = 2 ^ (w - k)
    BY <1>2, <2>2
  <2>4. b \div p \in Nat
    OBVIOUS
  <2>5. QED
    BY <2>3, <2>4
<1>4. c[0] = 0
  <2>1. PICK p \in Nat \ {0} : p = 2 ^ w
    BY <1>1, <1>2
  <2>2. b < p
    BY <2>1
  <2>3. b \div p = 0
    BY <2>2
  <2>4. c[0] = b \div 2 ^ (w - 0) /\ w - 0 = w
    BY <1>1
  <2>5. QED
    BY <2>1, <2>3, <2>4
<1>5. ASSUME NEW k \in 1..w PROVE c[k] = 2 * c[k - 1] + word[k]
  <2>1. w - k \in 0..w /\ w - (k - 1) = (w - k) + 1 /\ (w - k) + 1 \in 1..Wide /\ ((w - k) + 1) - 1 = w - k
    BY <1>1
  <2>2. PICK p \in Nat \ {0} : p = 2 ^ (w - k)
    BY <1>2, <2>1
  <2>3. 2 ^ ((w - k) + 1) = 2 * p
    <3>1. PICK i \in 1..Wide : i = (w - k) + 1
      BY <2>1
    <3>2. 2 ^ i = 2 * 2 ^ (i - 1)
      BY BackupAssumption
    <3>3. i - 1 = w - k
      BY <2>1, <3>1
    <3>4. QED
      BY <2>2, <3>1, <3>2, <3>3
  <2>4. c[k] = b \div p
    BY <2>2
  <2>5. c[k - 1] = b \div (2 * p)
    <3>1. k - 1 \in 0..w
      BY <1>1
    <3>2. c[k - 1] = b \div 2 ^ (w - (k - 1))
      BY <3>1
    <3>3. QED
      BY <2>1, <2>3, <3>2
  <2>6. word[k] = (b \div p) % 2
    BY <2>2 DEF AddressBits
  <2>7. QED
    BY <2>4, <2>5, <2>6, Halves
<1>6. c[w] = b
  <2>1. w - w = 0
    BY <1>1
  <2>2. c[w] = b \div 2 ^ 0
    BY <1>1, <2>1
  <2>3. 2 ^ 0 = 1
    BY BackupAssumption
  <2>4. b \div 1 = b
    OBVIOUS
  <2>5. QED
    BY <2>2, <2>3, <2>4
<1> HIDE DEF c
<1>7. QED
  BY <1>3, <1>4, <1>5, <1>6, ValueIs

-----------------------------------------------------------------------------
(* A transfer, bit by bit *)

\* What a transfer leaves, given the chip after each of its word.
LEMMA SendIs ==
  ASSUME NEW s, NEW word \in Seq(Bits), NEW c, c = [k \in 0..Len(word) |-> c[k]], c[0] = s,
         \A k \in 1..Len(word) : c[k] = WriteBit(c[k - 1], word[k])
  PROVE  WriteBits(s, word) = c[Len(word)]
<1> DEFINE n == Len(word)
<1>1. n \in Nat
  BY LenProperties
<1>2. c = [k \in 0..Len(word) |-> IF k = 0 THEN s ELSE WriteBit(c[k - 1], word[k])]
  <2>1. \A k \in 0..Len(word) : k = 0 \/ k \in 1..Len(word)
    BY <1>1
  <2>2. \A k \in 0..Len(word) : c[k] = IF k = 0 THEN s ELSE WriteBit(c[k - 1], word[k])
    BY <2>1, Zenon
  <2>3. QED
    BY <2>2, Zenon
<1>3. PICK f : f = [k \in 0..Len(word) |-> IF k = 0 THEN s ELSE WriteBit(f[k - 1], word[k])]
               /\ WriteBits(s, word) = f[Len(word)]
  BY <1>2, Zenon DEF WriteBits
<1> DEFINE S == {k \in Nat : k <= n => f[k] = c[k]}
<1>4. 0 \in S
  BY <1>1, <1>3
<1>5. ASSUME NEW k \in Nat, k \in S PROVE k + 1 \in S
  <2>1. SUFFICES ASSUME k + 1 <= n PROVE f[k + 1] = c[k + 1]
    OBVIOUS
  <2>2. k + 1 \in 1..n /\ f[k] = c[k]
    BY <1>1, <1>5, <2>1
  <2>3. f[k + 1] = WriteBit(f[(k + 1) - 1], word[k + 1])
    <3>1. k + 1 \in 0..Len(word) /\ k + 1 # 0
      BY <1>1, <2>2
    <3>2. QED
      BY <1>3, <3>1, Zenon
  <2>4. c[k + 1] = WriteBit(c[(k + 1) - 1], word[k + 1])
    BY <2>2
  <2>5. (k + 1) - 1 = k
    OBVIOUS
  <2>6. QED
    BY <2>2, <2>3, <2>4, <2>5
<1> HIDE DEF S
<1>6. Nat \subseteq S
  BY <1>4, <1>5, Induct
<1>7. QED
  BY <1>1, <1>3, <1>6 DEF S

\* And what a read-out brings.
LEMMA ReadIs ==
  ASSUME NEW s, NEW n \in Nat, NEW c, c = [k \in 0..n |-> c[k]], c[0] = s,
         \A k \in 1..n : c[k] = AfterRead(c[k - 1])
  PROVE  ReadBits(s, n) = [bits |-> [k \in 1..n |-> ReadBit(c[k - 1])], chip |-> c[n]]
<1>1. c = [k \in 0..n |-> IF k = 0 THEN s ELSE AfterRead(c[k - 1])]
  <2>1. \A k \in 0..n : k = 0 \/ k \in 1..n
    OBVIOUS
  <2>2. \A k \in 0..n : c[k] = IF k = 0 THEN s ELSE AfterRead(c[k - 1])
    BY <2>1, Zenon
  <2>3. QED
    BY <2>2, Zenon
<1>2. PICK f : f = [k \in 0..n |-> IF k = 0 THEN s ELSE AfterRead(f[k - 1])]
               /\ ReadBits(s, n) = [bits |-> [k \in 1..n |-> ReadBit(f[k - 1])], chip |-> f[n]]
  BY <1>1, Zenon DEF ReadBits
<1> DEFINE S == {k \in Nat : k <= n => f[k] = c[k]}
<1>3. 0 \in S
  BY <1>2
<1>4. ASSUME NEW k \in Nat, k \in S PROVE k + 1 \in S
  <2>1. SUFFICES ASSUME k + 1 <= n PROVE f[k + 1] = c[k + 1]
    OBVIOUS
  <2>2. k + 1 \in 1..n /\ f[k] = c[k]
    BY <1>4, <2>1
  <2>3. f[k + 1] = AfterRead(f[(k + 1) - 1])
    <3>1. k + 1 \in 0..n /\ k + 1 # 0
      BY <2>2
    <3>2. QED
      BY <1>2, <3>1, Zenon
  <2>4. c[k + 1] = AfterRead(c[(k + 1) - 1])
    BY <2>2
  <2>5. (k + 1) - 1 = k
    OBVIOUS
  <2>6. QED
    BY <2>2, <2>3, <2>4, <2>5
<1> HIDE DEF S
<1>5. Nat \subseteq S
  BY <1>3, <1>4, Induct
<1>6. \A k \in 0..n : f[k] = c[k]
  BY <1>5 DEF S
<1>7. f = c
  BY <1>2, <1>6
<1>8. QED
  BY <1>2, <1>7

-----------------------------------------------------------------------------
(* The chip, and what it makes of a command *)

Block == [1..BlockBits -> Bits]
EepromChip ==
  [data : [Blocks -> Block], phase : {0}, idMode : {FALSE}, erasePrep : {FALSE},
   writePending : {FALSE}, bankPending : {FALSE}, bank : {0},
   addrBits : {Narrow, Wide}, expect : Nat, rx : Seq(Bits), queue : Seq(Bits), pos : Nat]

LEMMA Prefix ==
  ASSUME NEW word \in Seq(Bits), NEW k \in 1..Len(word)
  PROVE  /\ SubSeq(word, 1, k - 1) \in Seq(Bits) /\ SubSeq(word, 1, k) \in Seq(Bits)
         /\ Len(SubSeq(word, 1, k)) = k
         /\ Append(SubSeq(word, 1, k - 1), word[k]) = SubSeq(word, 1, k)
<1>1. Len(word) \in Nat /\ k \in Nat /\ k - 1 \in Int /\ k \in Int /\ k - 1 \in Nat /\ 1 \in Int
  BY LenProperties
<1>2. \A i \in 1..Len(word) : word[i] \in Bits
  BY ElementOfSeq
<1>3. \A i \in 1..(k - 1) : word[i] \in Bits
  BY <1>1, <1>2
<1>4. \A i \in 1..k : word[i] \in Bits
  BY <1>1, <1>2
<1>5. /\ SubSeq(word, 1, k - 1) \in Seq(Bits)
      /\ Len(SubSeq(word, 1, k - 1)) = IF 1 <= k - 1 THEN (k - 1) - 1 + 1 ELSE 0
      /\ \A i \in 1..((k - 1) - 1 + 1) : SubSeq(word, 1, k - 1)[i] = word[1 + i - 1]
  BY <1>1, <1>3, SubSeqProperties
<1>6. /\ SubSeq(word, 1, k) \in Seq(Bits)
      /\ Len(SubSeq(word, 1, k)) = IF 1 <= k THEN k - 1 + 1 ELSE 0
      /\ \A i \in 1..(k - 1 + 1) : SubSeq(word, 1, k)[i] = word[1 + i - 1]
  BY <1>1, <1>4, SubSeqProperties
<1>7. PICK a \in Seq(Bits) : a = SubSeq(word, 1, k - 1)
  BY <1>5
<1>8. Len(a) = k - 1 /\ \A i \in 1..(k - 1) : a[i] = word[i]
  <2>1. Len(a) = k - 1
    BY <1>1, <1>5, <1>7
  <2>2. ASSUME NEW i \in 1..(k - 1) PROVE a[i] = word[i]
    <3>1. (k - 1) - 1 + 1 = k - 1 /\ 1 + i - 1 = i
      BY <1>1
    <3>2. QED
      BY <1>5, <1>7, <3>1
  <2>3. QED
    BY <2>1, <2>2
<1>9. PICK d \in Seq(Bits) : d = SubSeq(word, 1, k)
  BY <1>6
<1>10. Len(d) = k /\ \A i \in 1..k : d[i] = word[i]
  <2>1. Len(d) = k
    BY <1>1, <1>6, <1>9
  <2>2. ASSUME NEW i \in 1..k PROVE d[i] = word[i]
    <3>1. k - 1 + 1 = k /\ 1 + i - 1 = i
      BY <1>1
    <3>2. QED
      BY <1>6, <1>9, <3>1
  <2>3. QED
    BY <2>1, <2>2
<1>11. PICK x \in Bits : x = word[k]
  BY <1>2
<1>12. PICK e : e = Append(a, x)
  OBVIOUS
<1>13. /\ e \in Seq(Bits) /\ Len(e) = Len(a) + 1 /\ \A i \in 1..Len(a) : e[i] = a[i]
       /\ e[Len(a) + 1] = x
  BY <1>12, AppendProperties
<1>14. Len(e) = k /\ \A i \in 1..k : e[i] = d[i]
  <2>1. Len(e) = k /\ e[k] = x
    BY <1>1, <1>8, <1>13
  <2>2. ASSUME NEW i \in 1..k PROVE e[i] = d[i]
    <3>1. CASE i = k
      BY <1>10, <1>11, <2>1, <3>1
    <3>2. CASE i # k
      <4>1. i \in 1..(k - 1)
        BY <1>1, <3>2
      <4>2. e[i] = a[i]
        BY <1>8, <1>13, <4>1
      <4>3. QED
        BY <1>8, <1>10, <4>1, <4>2
    <3>3. QED
      BY <3>1, <3>2
  <2>3. QED
    BY <2>1, <2>2
<1>15. e = d
  BY <1>10, <1>13, <1>14, SeqEqual
<1>16. QED
  BY <1>5, <1>6, <1>7, <1>9, <1>10, <1>11, <1>12, <1>15

LEMMA Whole ==
  ASSUME NEW word \in Seq(Bits)
  PROVE  SubSeq(word, 1, Len(word)) = word /\ SubSeq(word, 1, 0) = << >>
<1>1. Len(word) \in Nat
  BY LenProperties
<1>2. \A i \in 1..Len(word) : word[i] \in Bits
  BY ElementOfSeq
<1>3. /\ SubSeq(word, 1, Len(word)) \in Seq(Bits)
      /\ Len(SubSeq(word, 1, Len(word))) = IF 1 <= Len(word) THEN Len(word) - 1 + 1 ELSE 0
      /\ \A i \in 1..(Len(word) - 1 + 1) : SubSeq(word, 1, Len(word))[i] = word[1 + i - 1]
  BY <1>1, <1>2, SubSeqProperties
<1>4. Len(SubSeq(word, 1, Len(word))) = Len(word)
  BY <1>1, <1>3
<1>5. ASSUME NEW i \in 1..Len(word) PROVE SubSeq(word, 1, Len(word))[i] = word[i]
  <2>1. Len(word) - 1 + 1 = Len(word) /\ 1 + i - 1 = i
    BY <1>1
  <2>2. QED
    BY <1>3, <2>1
<1>6. SubSeq(word, 1, Len(word)) = word
  BY <1>3, <1>4, <1>5, SeqEqual
<1>7. SubSeq(word, 1, 0) = << >>
  BY SubSeqEmpty
<1>8. QED
  BY <1>6, <1>7

\* A transfer of the length announced is a command once its last bit is in.
LEMMA Completes ==
  ASSUME NEW s \in EepromChip, NEW word \in Seq(Bits), Len(word) > 0, s.expect = Len(word), s.rx = << >>
  PROVE  WriteBits(s, word) = [Finish([s EXCEPT !.rx = word]) EXCEPT !.expect = 0, !.rx = << >>]
<1>1. PICK n \in Nat : n = Len(word)
  BY LenProperties
<1> DEFINE last == [Finish([s EXCEPT !.rx = word]) EXCEPT !.expect = 0, !.rx = << >>]
           c == [k \in 0..Len(word) |-> IF k < Len(word) THEN [s EXCEPT !.rx = SubSeq(word, 1, k)] ELSE last]
<1>2. c = [k \in 0..Len(word) |-> c[k]]
  OBVIOUS
<1>3. c[0] = s
  <2>1. c[0] = [s EXCEPT !.rx = SubSeq(word, 1, 0)]
    BY <1>1
  <2>2. [s EXCEPT !.rx = << >>] = s
    BY DEF EepromChip
  <2>3. QED
    BY <2>1, <2>2, Whole
<1>4. ASSUME NEW k \in 1..Len(word) PROVE c[k] = WriteBit(c[k - 1], word[k])
  <2>1. k - 1 \in 0..Len(word) /\ k - 1 < Len(word) /\ k \in 0..Len(word)
    BY <1>1
  <2>2. c[k - 1] = [s EXCEPT !.rx = SubSeq(word, 1, k - 1)]
    BY <2>1
  <2>3. PICK a \in Seq(Bits) : a = SubSeq(word, 1, k - 1)
    BY Prefix
  <2>4. PICK d \in Seq(Bits) : d = SubSeq(word, 1, k) /\ Len(d) = k /\ Append(a, word[k]) = d
    BY <2>3, Prefix
  <2>5. PICK r : r = [s EXCEPT !.rx = a]
    OBVIOUS
  <2>6. PICK t : t = [r EXCEPT !.rx = d]
    OBVIOUS
  <2>7. r.rx = a
    BY <2>5 DEF EepromChip
  <2>8. t = [s EXCEPT !.rx = d] /\ t.expect = s.expect /\ t.rx = d
    BY <2>5, <2>6 DEF EepromChip
  <2>9. WriteBit(r, word[k]) = IF t.expect # 0 /\ Len(t.rx) >= t.expect
                               THEN [Finish(t) EXCEPT !.expect = 0, !.rx = << >>] ELSE t
    <3>1. [r EXCEPT !.rx = Append(r.rx, word[k])] = t
      BY <2>4, <2>6, <2>7
    <3>2. QED
      BY <3>1 DEF WriteBit
  <2>10. t.expect = Len(word) /\ Len(t.rx) = k
    BY <2>4, <2>8
  <2>11. CASE k < Len(word)
    <3>1. c[k] = [s EXCEPT !.rx = d]
      BY <2>1, <2>4, <2>11
    <3>2. ~(t.expect # 0 /\ Len(t.rx) >= t.expect)
      BY <1>1, <2>10, <2>11
    <3>3. WriteBit(r, word[k]) = t
      BY <2>9, <3>2
    <3>4. QED
      BY <2>2, <2>3, <2>5, <2>8, <3>1, <3>3
  <2>12. CASE k = Len(word)
    <3>1. d = word
      BY <2>4, <2>12, Whole
    <3>2. c[k] = last
      BY <1>1, <2>1, <2>12
    <3>3. t.expect # 0 /\ Len(t.rx) >= t.expect
      BY <1>1, <2>10, <2>12
    <3>4. t = [s EXCEPT !.rx = word]
      BY <2>8, <3>1
    <3>5. WriteBit(r, word[k]) = [Finish(t) EXCEPT !.expect = 0, !.rx = << >>]
      BY <2>9, <3>3
    <3>6. QED
      BY <2>2, <2>3, <2>5, <3>2, <3>4, <3>5
  <2>13. QED
    BY <1>1, <2>11, <2>12
<1>5. c[Len(word)] = last
  BY <1>1
<1> HIDE DEF c, last
<1>6. WriteBits(s, word) = c[Len(word)]
  BY <1>2, <1>3, <1>4, SendIs
<1>7. QED
  BY <1>5, <1>6 DEF last

-----------------------------------------------------------------------------
(* The commands a game sends *)

LEMMA Joined ==
  ASSUME NEW x \in Seq(Bits), NEW y \in Seq(Bits)
  PROVE  /\ x \o y \in Seq(Bits) /\ Len(x \o y) = Len(x) + Len(y) /\ Len(x) \in Nat /\ Len(y) \in Nat
         /\ \A i \in 1..Len(x) : (x \o y)[i] = x[i]
         /\ \A j \in 1..Len(y) : (x \o y)[Len(x) + j] = y[j]
<1>1. Len(x) \in Nat /\ Len(y) \in Nat
  BY LenProperties
<1>2. /\ x \o y \in Seq(Bits) /\ Len(x \o y) = Len(x) + Len(y)
      /\ \A i \in 1..Len(x) + Len(y) : (x \o y)[i] = IF i <= Len(x) THEN x[i] ELSE y[i - Len(x)]
  BY ConcatProperties
<1>3. PICK z : z = x \o y
  OBVIOUS
<1>4. \A i \in 1..Len(x) : z[i] = x[i]
  BY <1>1, <1>2, <1>3
<1>5. ASSUME NEW j \in 1..Len(y) PROVE z[Len(x) + j] = y[j]
  <2>1. Len(x) + j \in 1..Len(x) + Len(y) /\ ~(Len(x) + j <= Len(x)) /\ (Len(x) + j) - Len(x) = j
    BY <1>1
  <2>2. z[Len(x) + j] = y[(Len(x) + j) - Len(x)]
    BY <1>2, <1>3, <2>1
  <2>3. QED
    BY <2>1, <2>2
<1>6. QED
  BY <1>1, <1>2, <1>3, <1>4, <1>5

LEMMA Addressed ==
  ASSUME NEW w \in {Narrow, Wide}, NEW b \in Nat
  PROVE  AddressBits(b, w) \in Seq(Bits) /\ Len(AddressBits(b, w)) = w
<1>1. w \in Nat /\ w <= Wide /\ Wide \in Nat
  BY BackupAssumption
<1>2. ASSUME NEW k \in 1..w PROVE (b \div 2 ^ (w - k)) % 2 \in Bits
  <2>1. w - k \in 0..(Wide - 1)
    BY <1>1
  <2>2. PICK i \in 1..Wide : i - 1 = w - k
    <3>1. w - k + 1 \in 1..Wide /\ (w - k + 1) - 1 = w - k
      BY <1>1, <2>1
    <3>2. QED
      BY <3>1
  <2>3. 2 ^ (i - 1) \in Nat \ {0}
    BY BackupAssumption
  <2>4. PICK p \in Nat \ {0} : p = 2 ^ (w - k)
    BY <2>2, <2>3
  <2>5. PICK x \in Nat : x = b \div p
    OBVIOUS
  <2>6. x % 2 \in Bits
    BY DEF Bits
  <2>7. QED
    BY <2>4, <2>5, <2>6
<1>3. AddressBits(b, w) \in [1..w -> Bits]
  BY <1>2 DEF AddressBits
<1>4. QED
  BY <1>1, <1>3

LEMMA Stop == <<0>> \in Seq(Bits) /\ Len(<<0>>) = 1
  BY DEF Bits

LEMMA Slice ==
  ASSUME NEW word \in Seq(Bits), NEW m \in Nat \ {0}, NEW n \in Nat, m <= n, n <= Len(word)
  PROVE  /\ SubSeq(word, m, n) \in Seq(Bits) /\ Len(SubSeq(word, m, n)) = n - m + 1
         /\ \A i \in 1..(n - m + 1) : SubSeq(word, m, n)[i] = word[m + i - 1]
<1>1. Len(word) \in Nat /\ m \in Int /\ n \in Int
  BY LenProperties
<1>2. \A i \in 1..Len(word) : word[i] \in Bits
  BY ElementOfSeq
<1>3. \A i \in m..n : word[i] \in Bits
  BY <1>1, <1>2
<1>4. /\ SubSeq(word, m, n) \in Seq(Bits)
      /\ Len(SubSeq(word, m, n)) = IF m <= n THEN n - m + 1 ELSE 0
      /\ \A i \in 1..(n - m + 1) : SubSeq(word, m, n)[i] = word[m + i - 1]
  BY <1>1, <1>3, SubSeqProperties
<1>5. QED
  BY <1>4

\* What of it the chip reads where.
Parts(word, h, b, w, rest) ==
  /\ word \in Seq(Bits) /\ Len(word) = 2 + w + Len(rest)
  /\ SubSeq(word, 1, 2) = h
  /\ Value(SubSeq(word, 3, 2 + w)) = b
  /\ \A j \in 1..Len(rest) : word[2 + w + j] = rest[j]
Framed(h, b, w, rest) == h \o AddressBits(b, w) \o rest

\* The head and the address of a transfer that goes on with what follows them.
LEMMA Begun ==
  ASSUME NEW h \in Seq(Bits), Len(h) = 2, NEW w \in {Narrow, Wide}, NEW b \in Nat, b < 2 ^ w,
         NEW rest \in Seq(Bits), NEW word, word = Framed(h, b, w, rest)
  PROVE  Parts(word, h, b, w, rest)
<1>1. w \in Nat \ {0} /\ Len(rest) \in Nat
  BY BackupAssumption, LenProperties
<1>4. PICK a \in Seq(Bits) : a = AddressBits(b, w)
  BY Addressed
<1>5. Len(a) = w
  BY <1>4, Addressed
<1>6. PICK x \in Seq(Bits) : x = h \o a
  BY Joined
<1>7. /\ Len(x) = 2 + w
      /\ \A i \in 1..2 : x[i] = h[i]
      /\ \A j \in 1..w : x[2 + j] = a[j]
  <2>1. /\ Len(x) = Len(h) + Len(a)
        /\ \A i \in 1..Len(h) : x[i] = h[i]
        /\ \A j \in 1..Len(a) : x[Len(h) + j] = a[j]
    <3>1. /\ Len(h \o a) = Len(h) + Len(a)
          /\ \A i \in 1..Len(h) : (h \o a)[i] = h[i]
          /\ \A j \in 1..Len(a) : (h \o a)[Len(h) + j] = a[j]
      BY Joined
    <3>2. QED
      BY <1>6, <3>1, Zenon
  <2>2. QED
    BY <1>5, <2>1
<1>8. word = x \o rest
  BY <1>4, <1>6 DEF Framed
<1>0. PICK z : z = x \o rest
  OBVIOUS
<1>9. /\ z \in Seq(Bits) /\ Len(z) = Len(x) + Len(rest)
      /\ \A i \in 1..Len(x) : z[i] = x[i]
      /\ \A j \in 1..Len(rest) : z[Len(x) + j] = rest[j]
  BY <1>0, Joined
<1>10. /\ word \in Seq(Bits) /\ Len(word) = 2 + w + Len(rest)
       /\ \A i \in 1..(2 + w) : word[i] = x[i]
       /\ \A j \in 1..Len(rest) : word[2 + w + j] = rest[j]
  BY <1>0, <1>7, <1>8, <1>9
<1>11. \A i \in 1..Len(word) : word[i] \in Bits
  BY <1>10, ElementOfSeq
<1>12. SubSeq(word, 1, 2) = h
  <2>1. PICK m \in Nat \ {0} : m = 1
    OBVIOUS
  <2>2. PICK e \in Nat : e = 2
    OBVIOUS
  <2>0. m <= e /\ e <= Len(word)
    BY <1>1, <1>10, <2>1, <2>2
  <2>3. /\ SubSeq(word, 1, 2) \in Seq(Bits) /\ Len(SubSeq(word, 1, 2)) = 2
        /\ \A i \in 1..2 : SubSeq(word, 1, 2)[i] = word[1 + i - 1]
    <3>1. /\ SubSeq(word, m, e) \in Seq(Bits) /\ Len(SubSeq(word, m, e)) = e - m + 1
          /\ \A i \in 1..(e - m + 1) : SubSeq(word, m, e)[i] = word[m + i - 1]
      BY <1>10, <2>0, Slice
    <3>2. e - m + 1 = 2
      BY <2>1, <2>2
    <3>3. QED
      BY <2>1, <2>2, <3>1, <3>2
  <2>4. ASSUME NEW i \in 1..2 PROVE SubSeq(word, 1, 2)[i] = h[i]
    <3>1. 1 + i - 1 = i /\ i \in 1..(2 + w)
      BY <1>1
    <3>2. SubSeq(word, 1, 2)[i] = word[i]
      BY <2>3, <3>1
    <3>3. QED
      BY <1>7, <1>10, <3>1, <3>2
  <2>5. QED
    BY <2>3, <2>4, SeqEqual
<1>13. Value(SubSeq(word, 3, 2 + w)) = b
  <2>1. \A i \in 3..(2 + w) : word[i] \in Bits
    BY <1>1, <1>10, <1>11
  <2>2. /\ SubSeq(word, 3, 2 + w) \in Seq(Bits)
        /\ Len(SubSeq(word, 3, 2 + w)) = IF 3 <= 2 + w THEN (2 + w) - 3 + 1 ELSE 0
        /\ \A i \in 1..((2 + w) - 3 + 1) : SubSeq(word, 3, 2 + w)[i] = word[3 + i - 1]
    <3>1. PICK e \in Nat : e = 2 + w
      BY <1>1
    <3>2. PICK m \in Nat \ {0} : m = 3
      OBVIOUS
    <3>3. m <= e /\ e <= Len(word)
      BY <1>1, <1>10, <3>1, <3>2
    <3>4. /\ SubSeq(word, m, e) \in Seq(Bits) /\ Len(SubSeq(word, m, e)) = e - m + 1
          /\ \A i \in 1..(e - m + 1) : SubSeq(word, m, e)[i] = word[m + i - 1]
      BY <1>10, <3>3, Slice
    <3>5. QED
      BY <3>1, <3>2, <3>3, <3>4
  <2>3. PICK v \in Seq(Bits) : v = SubSeq(word, 3, 2 + w)
    BY <2>2
  <2>4. Len(v) = w
    BY <1>1, <2>2, <2>3
  <2>5. ASSUME NEW k \in 1..w PROVE v[k] = AddressBits(b, w)[k]
    <3>1. 3 + k - 1 = 2 + k /\ (2 + w) - 3 + 1 = w /\ 2 + k \in 1..(2 + w)
      BY <1>1
    <3>2. v[k] = word[2 + k]
      BY <2>2, <2>3, <3>1
    <3>3. QED
      BY <1>4, <1>7, <1>10, <3>1, <3>2
  <2>6. QED
    BY <2>3, <2>4, <2>5, AddressRead
<1>14. QED
  BY <1>10, <1>12, <1>13 DEF Parts

\* The chip, told the length of a command.
LEMMA Announced ==
  ASSUME NEW s \in EepromChip, NEW w \in {Narrow, Wide}, NEW n \in {Asks(w), Stores(w)}
  PROVE  /\ SetDmaLen(s, n) \in EepromChip /\ n \in Nat
         /\ SetDmaLen(s, n).addrBits = w /\ SetDmaLen(s, n).expect = n /\ SetDmaLen(s, n).rx = << >>
         /\ SetDmaLen(s, n).data = s.data /\ SetDmaLen(s, n).queue = s.queue /\ SetDmaLen(s, n).pos = s.pos
<1>1. Narrow \in Nat /\ Wide \in Nat /\ BlockBits \in Nat /\ 2 <= Narrow /\ Narrow < Wide /\ Wide <= BlockBits
  BY BackupAssumption
<1>2. n \in Nat /\ n # ReadOut
  BY <1>1 DEF Asks, Stores, ReadOut
<1>3. (n \in {Asks(Narrow), Stores(Narrow)} <=> w = Narrow) /\ (n \in {Asks(Wide), Stores(Wide)} <=> w = Wide)
  BY <1>1 DEF Asks, Stores
<1>4. (CASE n \in {Asks(Narrow), Stores(Narrow)} -> Narrow
         [] n \in {Asks(Wide), Stores(Wide)} -> Wide
         [] OTHER -> s.addrBits) = w
  BY <1>1, <1>3
<1>5. PICK t : t = [s EXCEPT !.addrBits = w]
  OBVIOUS
<1>6. t \in EepromChip /\ t.addrBits = w /\ t.data = s.data /\ t.queue = s.queue /\ t.pos = s.pos
  BY <1>5 DEF EepromChip
<1>7. SetDmaLen(s, n) = [t EXCEPT !.expect = n, !.rx = << >>]
  BY <1>2, <1>4, <1>5 DEF SetDmaLen
<1>8. << >> \in Seq(Bits)
  OBVIOUS
<1>9. PICK u : u = [t EXCEPT !.expect = n, !.rx = << >>]
  OBVIOUS
<1>10. u \in EepromChip
  BY <1>2, <1>6, <1>8, <1>9 DEF EepromChip
<1>11. u.addrBits = w /\ u.expect = n /\ u.rx = << >> /\ u.data = s.data /\ u.queue = s.queue /\ u.pos = s.pos
  BY <1>6, <1>9 DEF EepromChip
<1>12. QED
  BY <1>2, <1>7, <1>9, <1>10, <1>11

-----------------------------------------------------------------------------
(* The chip and the history *)

Zeros == <<0, 0, 0, 0>>
EepromTold(s) ==
  [image : {s.data}, bank : {0}, id : {FALSE}, heard : { << >> }, prepared : {FALSE}, asked : SUBSET Blocks]

\* Nothing but a read-out broken off leaves a length the chip still expects, and
\* fewer word of it have come than the game has strayed; a block that was asked for
\* is ready to be read.
Ready(s, b) == s.queue = Zeros \o s.data[b] /\ s.pos = 0
EepromAgrees(s, t, p) ==
  /\ s \in EepromChip /\ t \in EepromTold(s)
  /\ s.expect # 0 => s.expect = ReadOut - 2 /\ Len(s.rx) < p
  /\ \A b \in t.asked : t.asked = {b} /\ Ready(s, b)

LEMMA BlockIsBits ==
  ASSUME NEW s \in EepromChip, NEW b \in Blocks
  PROVE  s.data[b] \in Block /\ s.data[b] \in Seq(Bits) /\ Len(s.data[b]) = BlockBits
<1>1. BlockBits \in Nat
  BY BackupAssumption
<1>2. PICK d \in [Blocks -> Block] : d = s.data
  BY DEF EepromChip
<1>3. PICK e \in [1..BlockBits -> Bits] : e = d[b]
  BY DEF Block
<1>4. e \in Seq(Bits) /\ Len(e) = BlockBits
  BY <1>1
<1>5. QED
  BY <1>2, <1>3, <1>4 DEF Block

LEMMA FourZeros == Zeros \in Seq(Bits) /\ Len(Zeros) = 4
<1>1. Zeros \in Seq(Bits)
  BY DEF Zeros, Bits
<1>2. Len(Zeros) = 4
  BY DEF Zeros
<1>3. QED
  BY <1>1, <1>2

LEMMA Answer ==
  ASSUME NEW s \in EepromChip, NEW b \in Blocks
  PROVE  Zeros \o s.data[b] \in Seq(Bits) /\ Len(Zeros \o s.data[b]) = ReadOut
<1>1. PICK d \in Seq(Bits) : d = s.data[b] /\ Len(d) = BlockBits
  BY BlockIsBits
<1>2. Zeros \o d \in Seq(Bits) /\ Len(Zeros \o d) = Len(Zeros) + Len(d)
  BY FourZeros, Joined
<1>3. QED
  BY <1>1, <1>2, FourZeros DEF ReadOut

LEMMA BlockNumber ==
  ASSUME NEW b \in Blocks
  PROVE  b \in Nat /\ b % BlockCount = b
<1>1. BlockCount \in Nat \ {0}
  BY BackupAssumption
<1>2. QED
  BY <1>1 DEF Blocks

\* A command that has been carried out expects nothing.
LEMMA Carried ==
  ASSUME NEW q \in EepromChip, NEW v, v = [q EXCEPT !.expect = 0, !.rx = << >>]
  PROVE  v \in EepromChip /\ v.expect = 0 /\ v.data = q.data /\ v.queue = q.queue /\ v.pos = q.pos
<1>1. << >> \in Seq(Bits)
  OBVIOUS
<1>2. PICK none \in Nat : none = 0
  OBVIOUS
<1>3. v = [q EXCEPT !.expect = none, !.rx = << >>]
  BY <1>2
<1>4. v \in EepromChip
  BY <1>1, <1>3 DEF EepromChip
<1>5. QED
  BY <1>2, <1>3, <1>4 DEF EepromChip

LEMMA Heads ==
  ASSUME NEW o \in {0, 1}
  PROVE  <<1, o>> \in Seq(Bits) /\ Len(<<1, o>>) = 2
<1>1. <<1, o>> \in Seq(Bits)
  BY DEF Bits
<1>2. Len(<<1, o>>) = 2
  OBVIOUS
<1>3. QED
  BY <1>1, <1>2

Asking(b, w) == <<1, 1>> \o AddressBits(b, w) \o <<0>>
Storing(b, w, c) == <<1, 0>> \o AddressBits(b, w) \o c \o <<0>>

LEMMA AskFollows ==
  ASSUME NEW s, NEW t, NEW p, EepromAgrees(s, t, p), NEW w \in {Narrow, Wide}, NEW b \in Blocks, b < 2 ^ w,
         NEW word, word = Asking(b, w)
  PROVE  EepromAgrees(WriteBits(SetDmaLen(s, Len(word)), word), [t EXCEPT !.asked = {b}], p)
<1>1. s \in EepromChip /\ t \in EepromTold(s)
  BY DEF EepromAgrees
<1>2. b \in Nat /\ b % BlockCount = b
  BY BlockNumber
<1>3. w \in Nat
  BY BackupAssumption
<1>4. /\ word \in Seq(Bits) /\ Len(word) = 2 + w + 1
      /\ SubSeq(word, 1, 2) = <<1, 1>> /\ Value(SubSeq(word, 3, 2 + w)) = b
  <2>1. PICK h \in Seq(Bits) : h = <<1, 1>> /\ Len(h) = 2
    BY Heads
  <2>2. PICK rest \in Seq(Bits) : rest = <<0>> /\ Len(rest) = 1
    BY Stop
  <2>3. word = Framed(h, b, w, rest)
    BY <2>1, <2>2 DEF Framed, Asking
  <2>4. /\ word \in Seq(Bits) /\ Len(word) = 2 + w + Len(rest)
        /\ SubSeq(word, 1, 2) = h /\ Value(SubSeq(word, 3, 2 + w)) = b
    <3>1. Len(h) = 2 /\ b \in Nat
      BY <1>2, <2>1
    <3>2. Parts(word, h, b, w, rest)
      BY <2>3, <3>1, Begun
    <3>3. QED
      BY <3>2 DEF Parts
  <2>5. QED
    BY <2>1, <2>2, <2>4
<1>5. PICK n \in {Asks(w), Stores(w)} : n = Len(word)
  BY <1>4 DEF Asks
<1>6. PICK u \in EepromChip : u = SetDmaLen(s, n)
  BY <1>1, Announced
<1>7. n \in Nat /\ u.addrBits = w /\ u.expect = n /\ u.rx = << >> /\ u.data = s.data
  BY <1>1, <1>6, Announced
<1>8. PICK r : r = [u EXCEPT !.rx = word]
  OBVIOUS
<1>9. r \in EepromChip /\ r.rx = word /\ r.addrBits = w /\ r.data = s.data
  BY <1>4, <1>7, <1>8 DEF EepromChip
<1>10. WriteBits(u, word) = [Finish(r) EXCEPT !.expect = 0, !.rx = << >>]
  <2>1. Len(word) > 0
    BY <1>3, <1>4
  <2>2. u.expect = Len(word) /\ u.rx = << >>
    BY <1>5, <1>7
  <2>3. WriteBits(u, word) = [Finish([u EXCEPT !.rx = word]) EXCEPT !.expect = 0, !.rx = << >>]
    BY <1>4, <2>1, <2>2, Completes
  <2>4. QED
    BY <1>8, <2>3
<1>11. PICK a \in Seq(Bits) : a = Zeros \o r.data[b]
  BY <1>9, Answer
<1>12. PICK q : q = [r EXCEPT !.queue = a, !.pos = 0]
  OBVIOUS
<1>13. Finish(r) = q
  <2>1. SubSeq(r.rx, 1, 2) = <<1, 1>> /\ Value(SubSeq(r.rx, 3, 2 + r.addrBits)) % BlockCount = b
    BY <1>2, <1>4, <1>9
  <2>2. <<1, 1>> # <<1, 0>>
    OBVIOUS
  <2>3. QED
    BY <1>11, <1>12, <2>1, <2>2 DEF Finish, Zeros
<1>14. q \in EepromChip /\ q.data = s.data /\ q.queue = a /\ q.pos = 0
  BY <1>9, <1>11, <1>12 DEF EepromChip
<1>15. PICK v : v = [q EXCEPT !.expect = 0, !.rx = << >>]
  OBVIOUS
<1>16. v \in EepromChip /\ v.expect = 0 /\ v.data = s.data /\ v.queue = a /\ v.pos = 0
  BY <1>14, <1>15, Carried
<1>17. PICK x : x = [t EXCEPT !.asked = {b}]
  OBVIOUS
<1>18. x \in EepromTold(v) /\ x.asked = {b}
  BY <1>1, <1>16, <1>17 DEF EepromTold
<1>19. Ready(v, b)
  BY <1>9, <1>11, <1>16 DEF Ready
<1>20. EepromAgrees(v, x, p)
  BY <1>16, <1>18, <1>19 DEF EepromAgrees
<1>21. QED
  BY <1>5, <1>6, <1>10, <1>13, <1>15, <1>17, <1>20

LEMMA StoreFollows ==
  ASSUME NEW s, NEW t, NEW p, EepromAgrees(s, t, p), NEW w \in {Narrow, Wide}, NEW b \in Blocks, b < 2 ^ w,
         NEW c \in Block, NEW word, word = Storing(b, w, c)
  PROVE  EepromAgrees(WriteBits(SetDmaLen(s, Len(word)), word), [t EXCEPT !.image[b] = c, !.asked = {}], p)
<1>1. s \in EepromChip /\ t \in EepromTold(s)
  BY DEF EepromAgrees
<1>2. b \in Nat /\ b % BlockCount = b
  BY BlockNumber
<1>3. w \in Nat /\ BlockBits \in Nat \ {0}
  BY BackupAssumption
<1>4. c \in Seq(Bits) /\ Len(c) = BlockBits
  BY <1>3 DEF Block
<1>5. PICK rest : rest = c \o <<0>>
  OBVIOUS
<1>6. rest \in Seq(Bits) /\ Len(rest) = BlockBits + 1 /\ \A i \in 1..BlockBits : rest[i] = c[i]
  <2>1. PICK stop \in Seq(Bits) : stop = <<0>> /\ Len(stop) = 1
    BY Stop
  <2>2. /\ c \o stop \in Seq(Bits) /\ Len(c \o stop) = Len(c) + Len(stop)
        /\ \A i \in 1..Len(c) : (c \o stop)[i] = c[i]
    BY <1>4, Joined
  <2>3. rest = c \o stop
    BY <1>5, <2>1
  <2>4. Len(c) = BlockBits /\ Len(stop) = 1
    BY <1>4, <2>1
  <2>5. QED
    BY <2>2, <2>3, <2>4
<1>7. /\ word \in Seq(Bits) /\ Len(word) = 2 + w + (BlockBits + 1)
      /\ SubSeq(word, 1, 2) = <<1, 0>> /\ Value(SubSeq(word, 3, 2 + w)) = b
      /\ \A j \in 1..(BlockBits + 1) : word[2 + w + j] = rest[j]
  <2>1. PICK h \in Seq(Bits) : h = <<1, 0>> /\ Len(h) = 2
    BY Heads
  <2>2. PICK stop \in Seq(Bits) : stop = <<0>>
    BY Stop
  <2>3. PICK a \in Seq(Bits) : a = AddressBits(b, w)
    BY <1>2, Addressed
  <2>4. word = ((h \o a) \o c) \o stop
    BY <2>1, <2>2, <2>3 DEF Storing
  <2>5. h \o a \in Seq(Bits)
    BY Joined
  <2>6. ((h \o a) \o c) \o stop = (h \o a) \o (c \o stop)
    <3>1. c \in Seq(Bits)
      BY <1>4
    <3>2. PICK x \in Seq(Bits) : x = h \o a
      BY <2>5
    <3>3. (x \o c) \o stop = x \o (c \o stop)
      BY <3>1, ConcatAssociative
    <3>4. QED
      BY <3>2, <3>3
  <2>7. word = Framed(h, b, w, rest)
    BY <1>5, <2>2, <2>3, <2>4, <2>6 DEF Framed
  <2>8. Len(h) = 2 /\ b \in Nat
    BY <1>2, <2>1
  <2>9. /\ word \in Seq(Bits) /\ Len(word) = 2 + w + Len(rest)
        /\ SubSeq(word, 1, 2) = h /\ Value(SubSeq(word, 3, 2 + w)) = b
        /\ \A j \in 1..Len(rest) : word[2 + w + j] = rest[j]
    <3>1. rest \in Seq(Bits)
      BY <1>6
    <3>2. Len(h) = 2
      BY <2>8
    <3>3. b \in Nat
      BY <2>8
    <3>4. Parts(word, h, b, w, rest)
      BY <2>7, <3>1, <3>2, <3>3, Begun
    <3>5. QED
      BY <3>4 DEF Parts
  <2>10. QED
    BY <1>6, <2>1, <2>9
<1>8. PICK n \in {Asks(w), Stores(w)} : n = Len(word)
  BY <1>3, <1>7 DEF Stores
<1>9. PICK u \in EepromChip : u = SetDmaLen(s, n)
  BY <1>1, Announced
<1>10. /\ n \in Nat /\ u.addrBits = w /\ u.expect = n /\ u.rx = << >> /\ u.data = s.data
       /\ u.queue = s.queue /\ u.pos = s.pos
  BY <1>1, <1>9, Announced
<1>11. PICK r : r = [u EXCEPT !.rx = word]
  OBVIOUS
<1>12. r \in EepromChip /\ r.rx = word /\ r.addrBits = w /\ r.data = s.data
  BY <1>7, <1>10, <1>11 DEF EepromChip
<1>13. WriteBits(u, word) = [Finish(r) EXCEPT !.expect = 0, !.rx = << >>]
  <2>1. Len(word) > 0
    BY <1>3, <1>7
  <2>2. u.expect = Len(word) /\ u.rx = << >>
    BY <1>8, <1>10
  <2>3. WriteBits(u, word) = [Finish([u EXCEPT !.rx = word]) EXCEPT !.expect = 0, !.rx = << >>]
    BY <1>7, <2>1, <2>2, Completes
  <2>4. QED
    BY <1>11, <2>3
<1>14. SubSeq(word, Len(word) - BlockBits, Len(word) - 1) = c
  <2>1. PICK m \in Nat \ {0} : m = Len(word) - BlockBits
    BY <1>3, <1>7
  <2>2. PICK e \in Nat : e = Len(word) - 1
    BY <1>3, <1>7
  <2>3. m <= e /\ e <= Len(word) /\ e - m + 1 = BlockBits
    BY <1>3, <1>7, <2>1, <2>2
  <2>4. /\ SubSeq(word, m, e) \in Seq(Bits) /\ Len(SubSeq(word, m, e)) = e - m + 1
        /\ \A i \in 1..(e - m + 1) : SubSeq(word, m, e)[i] = word[m + i - 1]
    BY <1>7, <2>3, Slice
  <2>5. PICK d \in Seq(Bits) : d = SubSeq(word, m, e)
    BY <2>4
  <2>6. Len(d) = BlockBits
    BY <2>3, <2>4, <2>5
  <2>7. ASSUME NEW i \in 1..BlockBits PROVE d[i] = c[i]
    <3>1. m + i - 1 = 2 + w + i /\ i \in 1..(BlockBits + 1)
      <4>1. Len(word) = 2 + w + (BlockBits + 1)
        BY <1>7
      <4>2. PICK size \in Nat : size = Len(word)
        BY <1>3, <4>1
      <4>3. m = size - BlockBits /\ size = 2 + w + (BlockBits + 1)
        BY <2>1, <4>1, <4>2
      <4>4. QED
        BY <1>3, <4>3
    <3>2. d[i] = word[m + i - 1]
      BY <2>3, <2>4, <2>5
    <3>3. QED
      BY <1>6, <1>7, <3>1, <3>2
  <2>8. d = c
    BY <1>4, <2>6, <2>7, SeqEqual
  <2>9. QED
    BY <2>1, <2>2, <2>5, <2>8
<1>15. PICK q : q = [r EXCEPT !.data[b] = c]
  OBVIOUS
<1>16. Finish(r) = q
  <2>1. SubSeq(r.rx, 1, 2) = <<1, 0>> /\ Value(SubSeq(r.rx, 3, 2 + r.addrBits)) % BlockCount = b
    BY <1>2, <1>7, <1>12
  <2>2. SubSeq(r.rx, Len(r.rx) - BlockBits, Len(r.rx) - 1) = c
    BY <1>12, <1>14
  <2>3. <<1, 1>> # <<1, 0>>
    OBVIOUS
  <2>4. QED
    BY <1>15, <2>1, <2>2, <2>3 DEF Finish
<1>17. PICK d \in [Blocks -> Block] : d = [s.data EXCEPT ![b] = c]
  BY <1>1 DEF EepromChip
<1>18. q = [r EXCEPT !.data = d]
  BY <1>12, <1>15, <1>17
<1>19. q \in EepromChip /\ q.data = d
  BY <1>12, <1>18 DEF EepromChip
<1>20. PICK v : v = [q EXCEPT !.expect = 0, !.rx = << >>]
  OBVIOUS
<1>21. v \in EepromChip /\ v.expect = 0 /\ v.data = d
  BY <1>19, <1>20, Carried
<1>22. PICK x : x = [t EXCEPT !.image[b] = c, !.asked = {}]
  OBVIOUS
<1>23. x = [t EXCEPT !.image = d, !.asked = {}]
  <2>1. t.image = s.data
    BY <1>1 DEF EepromTold
  <2>2. QED
    BY <1>17, <1>22, <2>1
<1>24. x \in EepromTold(v) /\ x.asked = {}
  BY <1>1, <1>21, <1>23 DEF EepromTold
<1>25. EepromAgrees(v, x, p)
  BY <1>21, <1>24 DEF EepromAgrees
<1>26. QED
  BY <1>8, <1>9, <1>13, <1>16, <1>20, <1>22, <1>25

\* A larger count of stray word is as good.
LEMMA StillAgrees ==
  ASSUME NEW s, NEW t, NEW p \in Nat, NEW n \in Nat, p <= n, EepromAgrees(s, t, p)
  PROVE  EepromAgrees(s, t, n)
<1>1. Len(s.rx) \in Nat
  <2>1. s \in EepromChip
    BY DEF EepromAgrees
  <2>2. s.rx \in Seq(Bits)
    BY <2>1 DEF EepromChip
  <2>3. QED
    BY <2>2, LenProperties
<1>2. QED
  BY <1>1 DEF EepromAgrees

\* An access that only reads: what was asked for is read from here on, if at all.
LEMMA ReadFrom ==
  ASSUME NEW s, NEW t, NEW p, EepromAgrees(s, t, p), NEW v \in EepromChip, v.data = s.data,
         v.expect # 0 => v.expect = ReadOut - 2 /\ Len(v.rx) < p
  PROVE  EepromAgrees(v, [t EXCEPT !.asked = {}], p)
<1>1. s \in EepromChip /\ t \in EepromTold(s)
  BY DEF EepromAgrees
<1>2. PICK x : x = [t EXCEPT !.asked = {}]
  OBVIOUS
<1>3. x \in EepromTold(v) /\ x.asked = {}
  BY <1>1, <1>2 DEF EepromTold
<1>4. QED
  BY <1>2, <1>3 DEF EepromAgrees

LEMMA AfterReading ==
  ASSUME NEW s \in EepromChip
  PROVE  /\ AfterRead(s) \in EepromChip /\ AfterRead(s) = [s EXCEPT !.pos = AfterRead(s).pos]
         /\ AfterRead(s).pos = IF s.pos < Len(s.queue) THEN s.pos + 1 ELSE s.pos
<1>1. s.pos \in Nat
  BY DEF EepromChip
<1>2. PICK n \in Nat : n = s.pos + 1
  BY <1>1
<1>3. CASE s.pos < Len(s.queue)
  <2>1. AfterRead(s) = [s EXCEPT !.pos = n]
    BY <1>2, <1>3 DEF AfterRead
  <2>2. [s EXCEPT !.pos = n] \in EepromChip /\ [s EXCEPT !.pos = n].pos = n
    BY DEF EepromChip
  <2>3. QED
    BY <1>2, <1>3, <2>1, <2>2
<1>4. CASE ~(s.pos < Len(s.queue))
  <2>1. AfterRead(s) = s
    BY <1>4 DEF AfterRead
  <2>2. s = [s EXCEPT !.pos = s.pos]
    BY DEF EepromChip
  <2>3. QED
    BY <1>4, <2>1, <2>2
<1>5. QED
  BY <1>3, <1>4

\* Where a read-out stands after k word.
Stands(s, k) ==
  IF s.pos + k <= Len(s.queue) THEN s.pos + k ELSE IF s.pos > Len(s.queue) THEN s.pos ELSE Len(s.queue)
LEMMA ReadsOut ==
  ASSUME NEW s \in EepromChip, NEW n \in Nat
  PROVE  /\ ReadBits(s, n).bits = [k \in 1..n |-> ReadBit([s EXCEPT !.pos = Stands(s, k - 1)])]
         /\ ReadBits(s, n).chip = [s EXCEPT !.pos = Stands(s, n)]
         /\ ReadBits(s, n).chip \in EepromChip
<1>1. s.pos \in Nat /\ Len(s.queue) \in Nat
  BY DEF EepromChip
<1>2. \A k \in Nat : Stands(s, k) \in Nat
  BY <1>1 DEF Stands
<1> DEFINE c == [k \in 0..n |-> [s EXCEPT !.pos = Stands(s, k)]]
<1>3. c = [k \in 0..n |-> c[k]]
  OBVIOUS
<1>4. c[0] = s
  <2>1. Stands(s, 0) = s.pos
    BY <1>1 DEF Stands
  <2>2. [s EXCEPT !.pos = s.pos] = s
    BY DEF EepromChip
  <2>3. QED
    BY <2>1, <2>2
<1>5. ASSUME NEW k \in 1..n PROVE c[k] = AfterRead(c[k - 1])
  <2>1. k - 1 \in 0..n /\ k \in 0..n /\ k - 1 \in Nat /\ k \in Nat
    OBVIOUS
  <2>2. PICK i \in Nat : i = Stands(s, k - 1)
    BY <1>2, <2>1
  <2>3. PICK r : r = [s EXCEPT !.pos = i]
    OBVIOUS
  <2>4. r \in EepromChip /\ r.pos = i /\ r.queue = s.queue
    BY <2>3 DEF EepromChip
  <2>5. PICK j \in Nat : j = Stands(s, k)
    BY <1>2, <2>1
  <2>6. j = IF i < Len(s.queue) THEN i + 1 ELSE i
    BY <1>1, <2>1, <2>2, <2>5 DEF Stands
  <2>7. AfterRead(r) = [r EXCEPT !.pos = AfterRead(r).pos]
        /\ AfterRead(r).pos = IF r.pos < Len(r.queue) THEN r.pos + 1 ELSE r.pos
    BY <2>4, AfterReading
  <2>8. AfterRead(r).pos = j
    BY <2>4, <2>6, <2>7
  <2>9. [r EXCEPT !.pos = j] = [s EXCEPT !.pos = j]
    BY <2>3 DEF EepromChip
  <2>10. c[k - 1] = r /\ c[k] = [s EXCEPT !.pos = j]
    BY <2>1, <2>2, <2>3, <2>5
  <2>11. QED
    BY <2>7, <2>8, <2>9, <2>10
<1> HIDE DEF c
<1>6. ReadBits(s, n) = [bits |-> [k \in 1..n |-> ReadBit(c[k - 1])], chip |-> c[n]]
  BY <1>3, <1>4, <1>5, ReadIs
<1>7. ReadBits(s, n).chip = [s EXCEPT !.pos = Stands(s, n)]
  BY <1>6 DEF c
<1>8. ReadBits(s, n).bits = [k \in 1..n |-> ReadBit([s EXCEPT !.pos = Stands(s, k - 1)])]
  <2>1. ReadBits(s, n).bits = [k \in 1..n |-> ReadBit(c[k - 1])]
    BY <1>6
  <2>2. \A k \in 1..n : c[k - 1] = [s EXCEPT !.pos = Stands(s, k - 1)]
    BY DEF c
  <2>3. QED
    BY <2>1, <2>2
<1>9. ReadBits(s, n).chip \in EepromChip
  <2>1. PICK i \in Nat : i = Stands(s, n)
    BY <1>2
  <2>2. [s EXCEPT !.pos = i] \in EepromChip
    BY DEF EepromChip
  <2>3. QED
    BY <1>7, <2>1, <2>2
<1>10. QED
  BY <1>7, <1>8, <1>9

\* An answer not yet begun is read from its start.
LEMMA ReadsAnswer ==
  ASSUME NEW s \in EepromChip, NEW n \in Nat, s.pos = 0, n <= Len(s.queue)
  PROVE  ReadBits(s, n).bits = SubSeq(s.queue, 1, n)
<1>1. s.queue \in Seq(Bits) /\ Len(s.queue) \in Nat
  BY DEF EepromChip
<1>2. PICK z \in Seq(Bits) : z = s.queue
  BY <1>1
<1>3. \A i \in 1..Len(z) : z[i] \in Bits
  BY ElementOfSeq
<1>4. PICK o : o = ReadBits(s, n).bits
  OBVIOUS
<1>5. o = [k \in 1..n |-> ReadBit([s EXCEPT !.pos = Stands(s, k - 1)])]
  BY <1>4, ReadsOut
<1>6. ASSUME NEW k \in 1..n PROVE ReadBit([s EXCEPT !.pos = Stands(s, k - 1)]) = z[k]
  <2>1. PICK i \in Nat : i = k - 1
    OBVIOUS
  <2>2. Stands(s, i) = i /\ i < Len(z) /\ i + 1 = k
    BY <1>1, <1>2, <2>1 DEF Stands
  <2>3. PICK r : r = [s EXCEPT !.pos = i]
    OBVIOUS
  <2>4. r.pos = i /\ r.queue = z
    BY <1>2, <2>3 DEF EepromChip
  <2>5. ReadBit(r) = z[k]
    BY <2>2, <2>4 DEF ReadBit
  <2>6. QED
    BY <2>1, <2>2, <2>3, <2>5
<1>7. o = [k \in 1..n |-> z[k]]
  BY <1>5, <1>6
<1>8. o \in [1..n -> Bits]
  BY <1>1, <1>2, <1>3, <1>7
<1>9. o \in Seq(Bits) /\ Len(o) = n
  BY <1>8
<1>10. CASE n = 0
  <2>1. o = << >>
    BY <1>9, <1>10
  <2>2. SubSeq(z, 1, 0) = << >>
    BY Whole
  <2>3. QED
    BY <1>2, <1>4, <1>10, <2>1, <2>2
<1>11. CASE n # 0
  <2>1. PICK m \in Nat \ {0} : m = 1
    OBVIOUS
  <2>2. m <= n /\ n <= Len(z)
    BY <1>2, <1>11, <2>1
  <2>3. /\ SubSeq(z, m, n) \in Seq(Bits) /\ Len(SubSeq(z, m, n)) = n - m + 1
        /\ \A i \in 1..(n - m + 1) : SubSeq(z, m, n)[i] = z[m + i - 1]
    BY <2>2, Slice
  <2>4. PICK d \in Seq(Bits) : d = SubSeq(z, m, n)
    BY <2>3
  <2>5. Len(d) = n
    BY <2>1, <2>3, <2>4
  <2>6. ASSUME NEW i \in 1..n PROVE o[i] = d[i]
    <3>1. n - m + 1 = n /\ m + i - 1 = i
      BY <2>1
    <3>2. QED
      BY <1>7, <2>3, <2>4, <3>1
  <2>7. o = d
    BY <1>9, <2>5, <2>6, SeqEqual
  <2>8. QED
    BY <1>2, <1>4, <2>1, <2>4, <2>7
<1>12. QED
  BY <1>10, <1>11

\* The chip, told the length of a read-out.
LEMMA ToldReadOut ==
  ASSUME NEW s, NEW t, NEW p \in Nat, EepromAgrees(s, t, p), NEW n \in {ReadOut, ReadOut - 2},
         NEW q \in Nat, q = IF n = ReadOut THEN p ELSE p + 1
  PROVE  /\ SetDmaLen(s, n) \in EepromChip /\ n \in Nat /\ n <= ReadOut
         /\ SetDmaLen(s, n).data = s.data /\ SetDmaLen(s, n).queue = s.queue /\ SetDmaLen(s, n).pos = s.pos
         /\ SetDmaLen(s, n).expect # 0 =>
              SetDmaLen(s, n).expect = ReadOut - 2 /\ Len(SetDmaLen(s, n).rx) < q
<1>1. s \in EepromChip
  BY DEF EepromAgrees
<1>2. Narrow \in Nat /\ Wide \in Nat /\ BlockBits \in Nat /\ 2 <= Narrow /\ Narrow < Wide /\ Wide <= BlockBits
  BY BackupAssumption
<1>3. n \in Nat /\ n <= ReadOut /\ ReadOut \in Nat /\ ReadOut - 2 # ReadOut
  BY <1>2 DEF ReadOut
<1>4. PICK w \in {Narrow, Wide} :
        w = (CASE n \in {Asks(Narrow), Stores(Narrow)} -> Narrow
               [] n \in {Asks(Wide), Stores(Wide)} -> Wide
               [] OTHER -> s.addrBits)
  <2>1. s.addrBits \in {Narrow, Wide}
    BY <1>1 DEF EepromChip
  <2>2. ~(n \in {Asks(Narrow), Stores(Narrow)} /\ n \in {Asks(Wide), Stores(Wide)})
    BY <1>2 DEF Asks, Stores
  <2>3. QED
    BY <2>1, <2>2
<1>5. PICK r : r = [s EXCEPT !.addrBits = w]
  OBVIOUS
<1>6. /\ r \in EepromChip /\ r.data = s.data /\ r.queue = s.queue /\ r.pos = s.pos
      /\ r.expect = s.expect /\ r.rx = s.rx
  BY <1>1, <1>5 DEF EepromChip
<1>7. SetDmaLen(s, n) = IF n = ReadOut THEN r ELSE [r EXCEPT !.expect = n, !.rx = << >>]
  BY <1>4, <1>5 DEF SetDmaLen
<1>8. CASE n = ReadOut
  <2>1. SetDmaLen(s, n) = r /\ q = p
    BY <1>7, <1>8
  <2>2. r.expect # 0 => r.expect = ReadOut - 2 /\ Len(r.rx) < p
    BY <1>6 DEF EepromAgrees
  <2>3. QED
    BY <1>3, <1>6, <2>1, <2>2
<1>9. CASE n # ReadOut
  <2>1. << >> \in Seq(Bits) /\ Len(<< >>) = 0
    OBVIOUS
  <2>2. PICK u : u = [r EXCEPT !.expect = n, !.rx = << >>]
    OBVIOUS
  <2>3. u \in EepromChip
    BY <1>3, <1>6, <2>1, <2>2 DEF EepromChip
  <2>4. u.data = s.data /\ u.queue = s.queue /\ u.pos = s.pos /\ u.expect = n /\ u.rx = << >>
    BY <1>6, <2>2 DEF EepromChip
  <2>5. n = ReadOut - 2 /\ q = p + 1
    BY <1>9
  <2>6. Len(u.rx) < q
    BY <2>1, <2>4, <2>5
  <2>7. SetDmaLen(s, n) = u
    BY <1>7, <1>9, <2>2
  <2>8. QED
    BY <1>3, <2>3, <2>4, <2>5, <2>6, <2>7
<1>10. QED
  BY <1>8, <1>9

Unasked(t) == [t EXCEPT !.asked = {}]
\* A read-out of n word brings the block asked for, if one is.
Brings(read, t, n) ==
  \A b \in t.asked :
    /\ t.asked = {b} /\ (CHOOSE x \in t.asked : TRUE) = b
    /\ read.bits = SubSeq(Zeros \o t.image[b], 1, n)
LEMMA ReadFollows ==
  ASSUME NEW s, NEW t, NEW p \in Nat, EepromAgrees(s, t, p), NEW n \in {ReadOut, ReadOut - 2},
         NEW q \in Nat, q = IF n = ReadOut THEN p ELSE p + 1
  PROVE  /\ EepromAgrees(ReadBits(SetDmaLen(s, n), n).chip, Unasked(t), q)
         /\ Brings(ReadBits(SetDmaLen(s, n), n), t, n)
<1>1. s \in EepromChip /\ t \in EepromTold(s)
  BY DEF EepromAgrees
<1>2. PICK u : u = SetDmaLen(s, n)
  OBVIOUS
<1>3. /\ u \in EepromChip /\ n \in Nat /\ n <= ReadOut
      /\ u.data = s.data /\ u.queue = s.queue /\ u.pos = s.pos
      /\ u.expect # 0 => u.expect = ReadOut - 2 /\ Len(u.rx) < q
  BY <1>2, ToldReadOut
<1>4. PICK v \in EepromChip : v = ReadBits(u, n).chip
  BY <1>3, ReadsOut
<1>5. v.data = u.data /\ v.expect = u.expect /\ v.rx = u.rx
  <2>1. v = [u EXCEPT !.pos = Stands(u, n)]
    BY <1>3, <1>4, ReadsOut
  <2>2. QED
    BY <1>3, <2>1 DEF EepromChip
<1>6. EepromAgrees(v, [t EXCEPT !.asked = {}], q)
  <2>1. v.expect # 0 => v.expect = ReadOut - 2 /\ Len(v.rx) < q
    BY <1>3, <1>5
  <2>2. v.data = s.data
    BY <1>3, <1>5
  <2>3. p <= q
    OBVIOUS
  <2>4. EepromAgrees(s, t, q)
    BY <2>3, StillAgrees
  <2>5. QED
    BY <2>1, <2>2, <2>4, ReadFrom
<1>7. ASSUME NEW b \in t.asked
      PROVE  /\ t.asked = {b} /\ (CHOOSE x \in t.asked : TRUE) = b
             /\ ReadBits(u, n).bits = SubSeq(Zeros \o t.image[b], 1, n)
  <2>1. t.asked = {b} /\ Ready(s, b) /\ b \in Blocks /\ t.image = s.data
    BY <1>1 DEF EepromAgrees, EepromTold
  <2>2. (CHOOSE x \in t.asked : TRUE) = b
    BY <2>1
  <2>3. u.queue = Zeros \o s.data[b] /\ u.pos = 0
    BY <1>3, <2>1 DEF Ready
  <2>4. Len(u.queue) = ReadOut
    BY <1>1, <2>1, <2>3, Answer
  <2>5. ReadBits(u, n).bits = SubSeq(u.queue, 1, n)
    BY <1>3, <2>3, <2>4, ReadsAnswer
  <2>6. QED
    BY <2>1, <2>2, <2>3, <2>5
<1>8. EepromAgrees(ReadBits(u, n).chip, Unasked(t), q)
  BY <1>4, <1>6 DEF Unasked
<1>9. Brings(ReadBits(u, n), t, n)
  BY <1>7 DEF Brings
<1>10. QED
  BY <1>2, <1>8, <1>9

LEMMA PollFollows ==
  ASSUME NEW s, NEW t, NEW p \in Nat, EepromAgrees(s, t, p)
  PROVE  EepromAgrees(AfterRead(s), [t EXCEPT !.asked = {}], p)
<1>1. s \in EepromChip
  BY DEF EepromAgrees
<1>2. PICK v \in EepromChip : v = AfterRead(s)
  BY <1>1, AfterReading
<1>3. v.data = s.data /\ v.expect = s.expect /\ v.rx = s.rx
  <2>1. v = [s EXCEPT !.pos = v.pos]
    BY <1>1, <1>2, AfterReading
  <2>2. QED
    BY <1>1, <2>1 DEF EepromChip
<1>4. v.expect # 0 => v.expect = ReadOut - 2 /\ Len(v.rx) < p
  BY <1>3 DEF EepromAgrees
<1>5. QED
  BY <1>2, <1>3, <1>4, ReadFrom

\* A stray bit completes nothing.
LEMMA StrayFollows ==
  ASSUME NEW s, NEW t, NEW p \in Nat, p < MaxPolls, EepromAgrees(s, t, p), NEW b \in {0, 1}
  PROVE  EepromAgrees(WriteBit(s, b), t, p + 1) /\ WriteBit(s, b).data = s.data
<1>1. s \in EepromChip /\ t \in EepromTold(s)
  BY DEF EepromAgrees
<1>2. s.rx \in Seq(Bits) /\ b \in Bits
  BY <1>1 DEF EepromChip, Bits
<1>3. PICK d : d = Append(s.rx, b)
  OBVIOUS
<1>4. d \in Seq(Bits) /\ Len(d) = Len(s.rx) + 1 /\ Len(s.rx) \in Nat
  BY <1>2, <1>3, AppendProperties, LenProperties
<1>5. PICK v : v = [s EXCEPT !.rx = d]
  OBVIOUS
<1>6. v \in EepromChip /\ v.rx = d /\ v.expect = s.expect /\ v.data = s.data /\ v.queue = s.queue /\ v.pos = s.pos
  BY <1>1, <1>4, <1>5 DEF EepromChip
<1>7. s.expect # 0 => s.expect = ReadOut - 2 /\ Len(s.rx) < p
  BY DEF EepromAgrees
<1>8. BlockBits \in Nat /\ MaxPolls \in Nat /\ MaxPolls <= 2 + BlockBits
  BY BackupAssumption
<1>9. v.expect # 0 => v.expect = ReadOut - 2 /\ Len(v.rx) < p + 1 /\ ~(Len(v.rx) >= v.expect)
  BY <1>4, <1>6, <1>7, <1>8 DEF ReadOut
<1>10. WriteBit(s, b) = v
  <2>1. [s EXCEPT !.rx = Append(s.rx, b)] = v
    BY <1>3, <1>5
  <2>2. QED
    BY <1>9, <2>1 DEF WriteBit
<1>11. t \in EepromTold(v)
  BY <1>1, <1>6 DEF EepromTold
<1>12. \A x \in t.asked : t.asked = {x} /\ Ready(v, x)
  BY <1>6 DEF EepromAgrees, Ready
<1>13. EepromAgrees(v, t, p + 1)
  BY <1>6, <1>9, <1>11, <1>12 DEF EepromAgrees
<1>14. QED
  BY <1>6, <1>10, <1>13

-----------------------------------------------------------------------------
(* The invariant *)

Agrees(s, t, p) ==
  /\ kind \in Flashes => FlashAgrees(s, t)
  /\ kind = "eeprom" => EepromAgrees(s, t, p)
BackupInv ==
  /\ kind \in Kinds /\ polls \in Nat /\ polls <= MaxPolls
  /\ Agrees(save, told, polls)
  /\ kept = << >> \/ \E s, t, n : kept = <<s, t, n>> /\ Agrees(s, t, polls)
  /\ BlocksReadBack

LEMMA BackupInitHolds == BackupInit => BackupInv
<1> SUFFICES ASSUME BackupInit PROVE BackupInv
  OBVIOUS
<1>1. kind \in Kinds /\ polls = 0 /\ polls \in Nat /\ polls <= MaxPolls
  BY BackupAssumption DEF BackupInit, Kinds
<1>2. kept = << >> /\ BlocksReadBack
  BY DEF BackupInit, BlocksReadBack, Nothing
<1>3. << >> \in Seq(Pairs) /\ << >> \in Seq(Bits) /\ Len(<< >>) = 0
  OBVIOUS
<1>4. ASSUME kind \in Flashes PROVE FlashAgrees(save, told)
  <2>1. xFF \in Nat
    BY DEF xFF
  <2>2. PICK d \in [Cells(kind) -> Nat] : d = [c \in Cells(kind) |-> xFF]
    BY <2>1
  <2>3. kind # "eeprom"
    BY <1>4 DEF Flashes
  <2>4. save = [data |-> d, phase |-> 0, idMode |-> FALSE, erasePrep |-> FALSE, writePending |-> FALSE,
                bankPending |-> FALSE, bank |-> 0, addrBits |-> Narrow, expect |-> 0, rx |-> << >>,
                queue |-> << >>, pos |-> 0]
    BY <2>2, <2>3 DEF BackupInit, Fresh
  <2>5. save \in FlashChip
    BY <2>4 DEF FlashChip
  <2>6. told \in FlashTold(save) /\ told.heard = << >>
    BY <1>3, <2>4 DEF BackupInit, FlashTold
  <2>7. InPlace(save, told.heard)
    BY <1>3, <2>4, <2>6 DEF InPlace
  <2>8. QED
    BY <2>5, <2>6, <2>7 DEF FlashAgrees
<1>5. ASSUME kind = "eeprom" PROVE EepromAgrees(save, told, polls)
  <2>1. Erased \in Block
    BY DEF Erased, Block, Bits
  <2>2. PICK d \in [Blocks -> Block] : d = [b \in Blocks |-> Erased]
    BY <2>1
  <2>3. save = [data |-> d, phase |-> 0, idMode |-> FALSE, erasePrep |-> FALSE, writePending |-> FALSE,
                bankPending |-> FALSE, bank |-> 0, addrBits |-> Narrow, expect |-> 0, rx |-> << >>,
                queue |-> << >>, pos |-> 0]
    BY <1>5, <2>2 DEF BackupInit, Fresh
  <2>4. save \in EepromChip
    BY <1>3, <2>3 DEF EepromChip
  <2>5. told \in EepromTold(save) /\ told.asked = {}
    BY <2>3 DEF BackupInit, EepromTold
  <2>6. save.expect = 0
    BY <2>3
  <2>7. QED
    BY <2>4, <2>5, <2>6 DEF EepromAgrees
<1>6. Agrees(save, told, polls)
  BY <1>4, <1>5 DEF Agrees
<1>7. QED
  BY <1>1, <1>2, <1>6 DEF BackupInv

\* What was kept stays as good, however many accesses come after it.
LEMMA KeptStays ==
  ASSUME BackupInv, Ages, kind' = kind, polls' \in Nat, polls <= polls'
  PROVE  kept' = << >> \/ \E s, t, n : kept' = <<s, t, n>> /\ Agrees(s, t, polls)'
<1>1. CASE kept = << >>
  BY <1>1 DEF Ages
<1>2. CASE kept # << >>
  <2>1. PICK s, t, n : kept = <<s, t, n>> /\ Agrees(s, t, polls)
    BY <1>2 DEF BackupInv
  <2>2. kept' = [kept EXCEPT ![3] = kept[3] + 1]
    BY <1>2 DEF Ages
  <2>3. kept' = <<s, t, n + 1>>
    BY <2>1, <2>2
  <2>4. FlashAgrees(s, t) => FlashAgrees(s, t)'
    BY DEF FlashAgrees, FlashChip, FlashTold, InPlace, Opened, Cells
  <2>5. polls \in Nat
    BY DEF BackupInv
  <2>6. EepromAgrees(s, t, polls) => EepromAgrees(s, t, polls')
    BY <2>5, StillAgrees
  <2>7. Agrees(s, t, polls)'
    BY <2>1, <2>4, <2>6 DEF Agrees
  <2>8. QED
    BY <2>3, <2>7
<1>3. QED
  BY <1>1, <1>2

\* An access that leaves the chip and what it was told as they agree.
LEMMA StepKeeps ==
  ASSUME BackupInv, kind' = kind, polls' \in Nat, polls <= polls', polls' <= MaxPolls, Agrees(save, told, polls)',
         Ages, BlocksReadBack'
  PROVE  BackupInv'
<1>1. kind' \in Kinds
  BY DEF BackupInv
<1>2. kept' = << >> \/ \E s, t, n : kept' = <<s, t, n>> /\ Agrees(s, t, polls)'
  BY KeptStays
<1>3. QED
  BY <1>1, <1>2 DEF BackupInv

LEMMA NothingRead == ASSUME got' = Nothing PROVE BlocksReadBack'
  BY DEF Nothing, BlocksReadBack

LEMMA WriteKeeps == BackupInv /\ Write => BackupInv'
<1> SUFFICES ASSUME BackupInv, Write PROVE BackupInv'
  OBVIOUS
<1>1. PICK w \in Writes :
        /\ kind # "eeprom" /\ save' = WriteByte(save, w[1], w[2]) /\ told' = ToldWrite(told, w)
        /\ got' = Nothing /\ UNCHANGED <<kind, polls, loads>> /\ Ages
  BY DEF Write
<1>2. kind' = kind /\ polls' = polls /\ polls \in Nat /\ polls <= MaxPolls
  BY <1>1 DEF BackupInv
<1>3. ASSUME kind \in Flashes PROVE FlashAgrees(save, told)'
  <2>1. FlashAgrees(save, told)
    BY <1>3 DEF BackupInv, Agrees
  <2>2. kind # "sram"
    BY <1>3 DEF Flashes
  <2>3. save' = FlashWrite(save, w[1], w[2]) /\ told' = Heard(told, w)
    BY <1>1, <1>3, <2>2 DEF WriteByte, ToldWrite, Flashes
  <2>4. FlashAgrees(save', told')
    BY <1>3, <2>1, <2>3, FlashFollows
  <2>5. QED
    BY <1>2, <2>4 DEF FlashAgrees, FlashChip, FlashTold, InPlace, Opened, Cells
<1>4. Agrees(save, told, polls)'
  BY <1>1, <1>2, <1>3 DEF Agrees
<1>5. QED
  BY <1>1, <1>2, <1>4, NothingRead, StepKeeps

\* A step of the EEPROM's.
LEMMA EepromStep ==
  ASSUME BackupInv, kind = "eeprom", kind' = kind, polls' \in Nat, polls <= polls', polls' <= MaxPolls,
         EepromAgrees(save', told', polls'), Ages, BlocksReadBack'
  PROVE  BackupInv'
<1>1. kind' \notin Flashes
  BY DEF Flashes
<1>2. EepromAgrees(save, told, polls)'
  BY DEF EepromAgrees, EepromChip, EepromTold, Ready
<1>3. Agrees(save, told, polls)'
  BY <1>1, <1>2 DEF Agrees
<1>4. QED
  BY <1>3, StepKeeps

LEMMA AskKeeps == BackupInv /\ AskBlock => BackupInv'
<1> SUFFICES ASSUME BackupInv, AskBlock PROVE BackupInv'
  OBVIOUS
<1>1. PICK w \in {Narrow, Wide}, b \in Asked :
        /\ kind = "eeprom" /\ b < 2^w
        /\ Send(<<1, 1>> \o AddressBits(b, w) \o <<0>>)
        /\ told' = [told EXCEPT !.asked = {b}]
        /\ got' = Nothing /\ UNCHANGED <<kind, polls, loads>> /\ Ages
  BY DEF AskBlock
<1>2. b \in Blocks
  BY BackupAssumption DEF Blocks
<1>3. kind' = kind /\ polls' = polls /\ polls \in Nat /\ polls <= MaxPolls
  BY <1>1 DEF BackupInv
<1>4. EepromAgrees(save, told, polls)
  BY <1>1 DEF BackupInv, Agrees
<1>5. PICK word : word = Asking(b, w)
  OBVIOUS
<1>6. save' = WriteBits(SetDmaLen(save, Len(word)), word)
  BY <1>1, <1>5 DEF Send, Asking
<1>7. EepromAgrees(save', told', polls')
  BY <1>1, <1>2, <1>3, <1>4, <1>5, <1>6, AskFollows
<1>8. QED
  BY <1>1, <1>3, <1>7, NothingRead, EepromStep

LEMMA StoreKeeps == BackupInv /\ StoreBlock => BackupInv'
<1> SUFFICES ASSUME BackupInv, StoreBlock PROVE BackupInv'
  OBVIOUS
<1>1. PICK w \in {Narrow, Wide}, b \in Asked, c \in Contents :
        /\ kind = "eeprom" /\ b < 2^w
        /\ Send(<<1, 0>> \o AddressBits(b, w) \o c \o <<0>>)
        /\ told' = [told EXCEPT !.image[b] = c, !.asked = {}]
        /\ got' = Nothing /\ UNCHANGED <<kind, polls, loads>> /\ Ages
  BY DEF StoreBlock
<1>2. b \in Blocks /\ c \in Block
  BY BackupAssumption DEF Blocks, Block, Bits
<1>3. kind' = kind /\ polls' = polls /\ polls \in Nat /\ polls <= MaxPolls
  BY <1>1 DEF BackupInv
<1>4. EepromAgrees(save, told, polls)
  BY <1>1 DEF BackupInv, Agrees
<1>5. PICK word : word = Storing(b, w, c)
  OBVIOUS
<1>6. save' = WriteBits(SetDmaLen(save, Len(word)), word)
  BY <1>1, <1>5 DEF Send, Storing
<1>7. EepromAgrees(save', [told EXCEPT !.image[b] = c, !.asked = {}], polls)
  BY <1>1, <1>2, <1>4, <1>5, <1>6, StoreFollows
<1>8. EepromAgrees(save', told', polls')
  BY <1>1, <1>3, <1>7
<1>9. QED
  BY <1>1, <1>3, <1>8, NothingRead, EepromStep

LEMMA ReadKeeps == BackupInv /\ ReadBlock => BackupInv'
<1> SUFFICES ASSUME BackupInv, ReadBlock PROVE BackupInv'
  OBVIOUS
<1>1. PICK n \in {ReadOut, ReadOut - 2} :
        LET read == ReadBits(SetDmaLen(save, n), n)
        IN  /\ kind = "eeprom"
            /\ n # ReadOut => polls < MaxPolls
            /\ polls' = IF n = ReadOut THEN polls ELSE polls + 1
            /\ save' = read.chip
            /\ got' = [bits |-> read.bits,
                       due |-> IF told.asked = {} THEN <<>>
                               ELSE SubSeq(<<0, 0, 0, 0>> \o told.image[CHOOSE b \in told.asked : TRUE], 1, n)]
            /\ told' = [told EXCEPT !.asked = {}]
            /\ UNCHANGED <<kind, changes, loads>> /\ Ages
  BY DEF ReadBlock
<1>2. polls \in Nat /\ polls <= MaxPolls /\ MaxPolls \in Nat
  BY BackupAssumption DEF BackupInv
<1>3. kind' = kind /\ polls' \in Nat /\ polls <= polls' /\ polls' <= MaxPolls
  BY <1>1, <1>2
<1>4. EepromAgrees(save, told, polls)
  BY <1>1 DEF BackupInv, Agrees
<1>5. PICK q \in Nat : q = polls'
  BY <1>3
<1>6. q = IF n = ReadOut THEN polls ELSE polls + 1
  BY <1>1, <1>5
<1>7. PICK read : read = ReadBits(SetDmaLen(save, n), n)
  OBVIOUS
<1>8. EepromAgrees(read.chip, Unasked(told), q) /\ Brings(read, told, n)
  BY <1>2, <1>4, <1>6, <1>7, ReadFollows
<1>9. EepromAgrees(save', told', polls')
  <2>1. save' = read.chip /\ told' = Unasked(told)
    BY <1>1, <1>7 DEF Unasked
  <2>2. QED
    BY <1>5, <1>8, <2>1
<1>10. BlocksReadBack'
  <2>1. CASE told.asked = {}
    <3>1. got'.due = <<>>
      BY <1>1, <2>1
    <3>2. QED
      BY <3>1 DEF BlocksReadBack
  <2>2. CASE told.asked # {}
    <3>1. PICK b \in told.asked : TRUE
      BY <2>2
    <3>2. (CHOOSE x \in told.asked : TRUE) = b /\ read.bits = SubSeq(Zeros \o told.image[b], 1, n)
      BY <1>8, <3>1 DEF Brings
    <3>3. got'.bits = read.bits
      BY <1>1, <1>7
    <3>4. got'.due = SubSeq(<<0, 0, 0, 0>> \o told.image[CHOOSE x \in told.asked : TRUE], 1, n)
      BY <1>1, <2>2
    <3>5. got'.due = got'.bits
      BY <3>2, <3>3, <3>4 DEF Zeros
    <3>6. QED
      BY <3>5 DEF BlocksReadBack
  <2>3. QED
    BY <2>1, <2>2
<1>11. QED
  BY <1>1, <1>3, <1>9, <1>10, EepromStep

LEMMA PollKeeps == BackupInv /\ PollBit => BackupInv'
<1> SUFFICES ASSUME BackupInv, PollBit PROVE BackupInv'
  OBVIOUS
<1>1. polls \in Nat /\ MaxPolls \in Nat /\ polls < MaxPolls /\ polls' = polls + 1 /\ kind = "eeprom" /\ kind' = kind /\ Ages
  BY BackupAssumption DEF BackupInv, PollBit
<1>2. polls' \in Nat /\ polls <= polls' /\ polls' <= MaxPolls
  BY <1>1
<1>3. EepromAgrees(save, told, polls)
  BY <1>1 DEF BackupInv, Agrees
<1>4. EepromAgrees(save', told', polls)
  BY <1>1, <1>3, PollFollows DEF PollBit
<1>5. EepromAgrees(save', told', polls')
  BY <1>1, <1>2, <1>4, StillAgrees
<1>6. BlocksReadBack'
  BY DEF PollBit, Nothing, BlocksReadBack
<1>7. QED
  BY <1>1, <1>2, <1>5, <1>6, EepromStep

LEMMA StrayKeeps == BackupInv /\ StrayBit => BackupInv'
<1> SUFFICES ASSUME BackupInv, StrayBit PROVE BackupInv'
  OBVIOUS
<1>1. PICK b \in {0, 1} :
        /\ kind = "eeprom" /\ polls < MaxPolls /\ polls' = polls + 1
        /\ save' = WriteBit(save, b) /\ got' = Nothing /\ UNCHANGED <<kind, told, loads>> /\ Ages
  BY DEF StrayBit
<1>2. polls \in Nat /\ MaxPolls \in Nat
  BY BackupAssumption DEF BackupInv
<1>3. kind' = kind /\ polls' \in Nat /\ polls <= polls' /\ polls' <= MaxPolls
  BY <1>1, <1>2
<1>4. EepromAgrees(save, told, polls)
  BY <1>1 DEF BackupInv, Agrees
<1>5. EepromAgrees(WriteBit(save, b), told, polls + 1)
  BY <1>1, <1>2, <1>4, StrayFollows
<1>6. EepromAgrees(save', told', polls')
  BY <1>1, <1>5
<1>7. QED
  BY <1>1, <1>3, <1>6, NothingRead, EepromStep

LEMMA SerializeKeeps == BackupInv /\ Serialize => BackupInv'
<1> SUFFICES ASSUME BackupInv, Serialize PROVE BackupInv'
  OBVIOUS
<1>1. kept' = <<save, told, 0>> /\ got' = Nothing /\ UNCHANGED <<kind, save, told, polls>>
  BY DEF Serialize
<1>2. Agrees(save, told, polls)
  BY DEF BackupInv
<1>3. PICK s, t : s = save /\ t = told
  OBVIOUS
<1>4. FlashAgrees(s, t) => FlashAgrees(s, t)'
  BY <1>1 DEF FlashAgrees, FlashChip, FlashTold, InPlace, Opened, Cells
<1>5. Agrees(s, t, polls)'
  BY <1>1, <1>2, <1>3, <1>4 DEF Agrees
<1>6. Agrees(save, told, polls)'
  BY <1>1, <1>3, <1>5 DEF Agrees, FlashAgrees, FlashChip, FlashTold, InPlace, Opened, Cells, EepromAgrees, EepromChip, EepromTold, Ready
<1>7. kept' = <<s, t, 0>>
  BY <1>1, <1>3
<1>8. QED
  BY <1>1, <1>5, <1>6, <1>7, NothingRead DEF BackupInv

LEMMA DeserializeKeeps == BackupInv /\ Deserialize => BackupInv'
<1> SUFFICES ASSUME BackupInv, Deserialize PROVE BackupInv'
  OBVIOUS
<1>1. PICK s, t, n : kept = <<s, t, n>> /\ Agrees(s, t, polls)
  BY DEF BackupInv, Deserialize
<1>2. save' = s /\ told' = t /\ kept' = << >> /\ got' = Nothing /\ UNCHANGED <<kind, polls>>
  BY <1>1 DEF Deserialize
<1>3. Agrees(save', told', polls)
  BY <1>1, <1>2
<1>4. Agrees(save, told, polls)'
  BY <1>2, <1>3 DEF Agrees, FlashAgrees, FlashChip, FlashTold, InPlace, Opened, Cells, EepromAgrees, EepromChip, EepromTold, Ready
<1>5. QED
  BY <1>2, <1>4, NothingRead DEF BackupInv

LEMMA BackupUnchanged == BackupInv /\ UNCHANGED backupvars => BackupInv'
<1> SUFFICES ASSUME BackupInv, UNCHANGED backupvars PROVE BackupInv'
  OBVIOUS
<1>1. UNCHANGED <<kind, save, got, kept, told, polls>>
  BY DEF backupvars
<1>2. Agrees(save, told, polls)'
  BY <1>1 DEF BackupInv, Agrees, FlashAgrees, FlashChip, FlashTold, InPlace, Opened, Cells, EepromAgrees, EepromChip, EepromTold, Ready
<1>3. \A s, t : Agrees(s, t, polls) => Agrees(s, t, polls)'
  BY <1>1 DEF Agrees, FlashAgrees, FlashChip, FlashTold, InPlace, Opened, Cells
<1>4. QED
  BY <1>1, <1>2, <1>3 DEF BackupInv, BlocksReadBack

\* The chip reads as its history says.
LEMMA AgreesReads == BackupInv => SavesReadBack
<1> SUFFICES ASSUME BackupInv PROVE SavesReadBack
  OBVIOUS
<1>1. ReadsAsCommanded
  <2>1. SUFFICES ASSUME kind \in Flashes PROVE ReadsAsCommanded
    BY DEF ReadsAsCommanded, Flashes
  <2>2. save \in FlashChip /\ told \in FlashTold(save)
    BY <2>1 DEF BackupInv, Agrees, FlashAgrees
  <2>3. told.image = save.data /\ told.bank = save.bank /\ told.id = save.idMode /\ save.idMode \in BOOLEAN
    BY <2>2 DEF FlashTold, FlashChip
  <2>4. kind = "flash64" \/ kind = "flash128"
    BY <2>1 DEF Flashes
  <2>5. ASSUME NEW off \in Offs
        PROVE  Read(save, off) =
                 IF told.id THEN (CASE off = 0 -> IF kind = "flash128" THEN 98 ELSE 50
                                    [] off = 1 -> IF kind = "flash128" THEN 19 ELSE 27
                                    [] OTHER -> 0)
                 ELSE IF <<told.bank, off>> \in DOMAIN told.image THEN told.image[<<told.bank, off>>] ELSE xFF
    <3>1. CASE save.idMode
      <4>1. Read(save, off) = IF off = 0 THEN (IF kind = "flash128" THEN 98 ELSE 50)
                              ELSE IF off = 1 THEN (IF kind = "flash128" THEN 19 ELSE 27) ELSE 0
        BY <2>4, <3>1 DEF Read
      <4>2. QED
        BY <2>3, <3>1, <4>1
    <3>2. CASE ~save.idMode
      <4>1. Read(save, off) = IF <<save.bank, off>> \in DOMAIN save.data THEN save.data[<<save.bank, off>>] ELSE xFF
        BY <2>4, <3>2 DEF Read
      <4>2. QED
        BY <2>3, <3>2, <4>1
    <3>3. QED
      BY <3>1, <3>2
  <2>6. QED
    BY <2>5 DEF ReadsAsCommanded
<1>2. QED
  BY <1>1 DEF SavesReadBack, BackupInv

\* Whatever commands a game sends, whatever comes between their writes or word, and
\* whenever a state is kept and loaded, a flash chip reads as the commands that were
\* completed have made it, and a read-out brings the block asked for as it was last
\* stored (save.rs 188-210, 255-268).
THEOREM GamesReadBackWhatTheySaved == BackupSpec => []SavesReadBack
<1>1. BackupInv /\ [BackupNext]_backupvars => BackupInv'
  BY WriteKeeps, AskKeeps, StoreKeeps, ReadKeeps, PollKeeps, StrayKeeps, SerializeKeeps, DeserializeKeeps,
     BackupUnchanged DEF BackupNext
<1>2. QED
  BY BackupInitHolds, <1>1, AgreesReads, PTL DEF BackupSpec
=============================================================================
