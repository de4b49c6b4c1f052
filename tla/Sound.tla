------------------------------- MODULE Sound -------------------------------
(***************************************************************************)
(* The sound unit of gba-core/src/apu.rs with the two DMA channels that    *)
(* feed it (memory.rs): four tone channels, two streams of samples, the    *)
(* mixer, and the clock they share with the scanline loop.                 *)
(*                                                                         *)
(* The unit is behind the processor: a line's sound is generated at its    *)
(* end, or up to the cycle a stream's DMA is armed at.  Registers are the  *)
(* hardware's bytes; a queue is the sequence of what it holds.  DMA 1      *)
(* feeds queue "a" and DMA 2 queue "b", as every game sets them up.        *)
(***************************************************************************)
EXTENDS Words, Sequences, FiniteSets, SequencesExt

CONSTANTS
  Sub,         \* SUB_CYCLES, 128: the mixer's step
  PerSample,   \* OVERSAMPLE, 2
  FsPeriod,    \* FS_PERIOD, 32768
  LineCycles,  \* CYCLES_PER_LINE, 1232
  QueueSize,   \* 32
  Request,     \* 16: what a DMA request transfers, and the level that asks for it
  Pcm(_),      \* the signed byte at an address
  Scores,      \* what a game may do, see SoundInit
  MaxLines     \* lines a behaviour lasts

VARIABLES
  score,
  apu,
  dma,     \* of each stream: [on, src, step]
  timer,   \* the cycles between the overflows of timers 0 and 1, 0 when stopped
  at,      \* cycles of the line the processor has run
  line,    \* lines ended
  base,    \* audio_clock: the unit's cycle the line began at
  acts,    \* what the game has acts of its score
  mark,    \* of each stream at its last service: its level, its turns, and whether left alone since
  served,  \* of each stream: what the last service found had been transferred, and what was due
  saved    \* the state kept, and the unit it was taken from; <<>> before

soundvars == <<score, apu, dma, timer, at, line, base, acts, mark, served, saved>>

Streams == {"a", "b"}
SampleCycles == PerSample * Sub
Times(n) == [k \in 1..n |-> k]
Clamped(v, lo, hi) == IF v < lo THEN lo ELSE IF v > hi THEN hi ELSE v

-----------------------------------------------------------------------------
(* Tone channels *)

Env0 == [initial |-> 0, up |-> FALSE, period |-> 0, vol |-> 0, timer |-> 0]
EnvTriggered(e) == [e EXCEPT !.vol = e.initial, !.timer = e.period]
EnvClocked(e) ==
  LET left == IF e.timer > 0 THEN e.timer - 1 ELSE 0
  IN  IF e.period = 0 THEN e
      ELSE IF left > 0 THEN [e EXCEPT !.timer = left]
      ELSE [e EXCEPT !.timer = e.period,
                     !.vol = IF e.up THEN (IF @ < 15 THEN @ + 1 ELSE @) ELSE (IF @ > 0 THEN @ - 1 ELSE @)]

Square0 == [freq |-> 0, duty |-> 0, timer |-> 0, phase |-> 0, length |-> 0, lengthEnable |-> FALSE, env |-> Env0,
            sweepPeriod |-> 0, sweepDown |-> FALSE, sweepShift |-> 0, sweepTimer |-> 0, sweepEnable |-> FALSE,
            sweepShadow |-> 0, enabled |-> FALSE, dacOn |-> FALSE]
Wave0 == [dacOn |-> FALSE, length |-> 0, lengthEnable |-> FALSE, freq |-> 0, volume |-> 0, force75 |-> FALSE,
          mode64 |-> FALSE, bank |-> 0, timer |-> 0, pos |-> 0, enabled |-> FALSE]
Noise0 == [length |-> 0, lengthEnable |-> FALSE, env |-> Env0, div |-> 0, width7 |-> FALSE, shift |-> 0,
           timer |-> 0, lfsr |-> 32767, enabled |-> FALSE, dacOn |-> FALSE]

SquarePeriod(c) == (2048 - c.freq) * 16
WavePeriod(c)   == (2048 - c.freq) * 8
NoisePeriod(c)  == (IF c.div = 0 THEN 8 ELSE 16 * c.div) * 2^(IF c.shift > 14 THEN 14 ELSE c.shift) * 4

\* How often a countdown runs out in n cycles, and where it stands then.
Turns(c, n, period) == IF c.timer > n THEN 0 ELSE (n - c.timer) \div period + 1
Counted(c, n, period) == [c EXCEPT !.timer = c.timer - n + Turns(c, n, period) * period]

SquareAdvanced(c, n) ==
  IF ~c.enabled THEN c
  ELSE [Counted(c, n, SquarePeriod(c)) EXCEPT !.phase = (@ + Turns(c, n, SquarePeriod(c))) % 8]
WaveAdvanced(c, n) ==
  IF ~c.enabled THEN c
  ELSE [Counted(c, n, WavePeriod(c)) EXCEPT !.pos = (@ + Turns(c, n, WavePeriod(c))) % (IF c.mode64 THEN 64 ELSE 32)]
Shifted(c, k) ==
  LET bit  == (c.lfsr + c.lfsr \div 2) % 2
      next == c.lfsr \div 2 + bit * 2^14
  IN  [c EXCEPT !.lfsr = IF c.width7 THEN next - Field(next, 6, 1) * 64 + bit * 64 ELSE next]
NoiseAdvanced(c, n) ==
  IF ~c.enabled THEN c
  ELSE FoldLeft(Shifted, Counted(c, n, NoisePeriod(c)), Times(Turns(c, n, NoisePeriod(c))))

Duty == <<{0}, {0, 7}, {0, 1, 2, 7}, {1, 2, 3, 4, 5, 6}>>   \* the phases a duty is high in
SquareDac(c) ==
  LET high == Duty[c.duty + 1]
  IN  IF ~c.enabled \/ ~c.dacOn THEN 0
      ELSE (IF c.phase \in high THEN c.env.vol * 8 ELSE 0) - Cardinality(high) * c.env.vol
WaveDac(c, ram) ==
  LET idx == IF c.mode64 THEN c.pos ELSE c.bank * 32 + c.pos
      byte == ram[(idx \div 2) % 32]
      centred == ((IF idx % 2 = 0 THEN byte \div 16 ELSE byte % 16) - 8) * 8
  IN  IF ~c.enabled \/ ~c.dacOn \/ c.volume = 0 THEN 0
      ELSE IF c.force75 THEN (centred * 3) \div 4 ELSE centred \div 2^(c.volume - 1)
NoiseDac(c) == IF ~c.enabled \/ ~c.dacOn THEN 0
               ELSE (IF c.lfsr % 2 = 0 THEN c.env.vol * 8 ELSE 0) - 4 * c.env.vol

LengthClocked(c) ==
  IF ~c.lengthEnable \/ c.length = 0 THEN c
  ELSE [c EXCEPT !.length = c.length - 1, !.enabled = @ /\ c.length # 1]

SweepCalc(c) == LET delta == c.sweepShadow \div 2^c.sweepShift
                IN  IF c.sweepDown THEN c.sweepShadow - delta ELSE c.sweepShadow + delta
SweepReload(c) == IF c.sweepPeriod = 0 THEN 8 ELSE c.sweepPeriod
SweepClocked(c) ==
  LET left == IF c.sweepTimer > 0 THEN c.sweepTimer - 1 ELSE 0
      new  == SweepCalc(c)
      d    == [c EXCEPT !.sweepTimer = SweepReload(c)]
      e    == [d EXCEPT !.sweepShadow = new, !.freq = new]
  IN  IF ~c.sweepEnable THEN c
      ELSE IF left > 0 THEN [c EXCEPT !.sweepTimer = left]
      ELSE IF c.sweepPeriod = 0 THEN d
      ELSE IF new > 2047 THEN [d EXCEPT !.enabled = FALSE]
      ELSE IF c.sweepShift = 0 THEN d
      ELSE [e EXCEPT !.enabled = @ /\ SweepCalc(e) <= 2047]

Refreshed(c, full) == IF c.length = 0 THEN full ELSE c.length
SquareTriggered(c) ==
  LET d == [c EXCEPT !.length = Refreshed(c, 64), !.timer = SquarePeriod(c), !.env = EnvTriggered(@),
                     !.sweepShadow = c.freq, !.sweepTimer = SweepReload(c),
                     !.sweepEnable = c.sweepPeriod > 0 \/ c.sweepShift > 0]
  IN  [d EXCEPT !.enabled = c.dacOn /\ (c.sweepShift = 0 \/ SweepCalc(d) <= 2047)]
WaveTriggered(c)  == [c EXCEPT !.enabled = c.dacOn, !.length = Refreshed(c, 256), !.timer = WavePeriod(c), !.pos = 0]
NoiseTriggered(c) == [c EXCEPT !.enabled = c.dacOn, !.length = Refreshed(c, 64), !.timer = NoisePeriod(c),
                               !.lfsr = 32767, !.env = EnvTriggered(@)]

-----------------------------------------------------------------------------
(* Registers *)

Reg16(x, off) == x.reg[off] + 256 * x.reg[off + 1]
Silenced(c) == IF c.dacOn THEN c ELSE [c EXCEPT !.enabled = FALSE]
EnvSet(e, s) == [e EXCEPT !.period = Field(s, 8, 3), !.up = Bit(s, 11), !.initial = s \div 4096]

\* Channels 1 and 2: their registers start at base, and the length is in its low byte.
SquareDecoded(x, c, env, freq, off) ==
  LET s == Reg16(x, env)
      f == Reg16(x, freq)
      d == [c EXCEPT !.env = EnvSet(@, s), !.dacOn = s >= 2048, !.duty = Field(s, 6, 2),
                     !.length = IF off = env THEN 64 - (s % 64) ELSE @,
                     !.freq = f % 2048, !.lengthEnable = Bit(f, 14)]
  IN  Silenced(IF off = freq + 1 /\ Bit(f, 15) THEN SquareTriggered(d) ELSE d)
WaveDecoded(x, off) ==
  LET h == Reg16(x, 114)
      f == Reg16(x, 116)
      d == [x.ch3 EXCEPT !.mode64 = Bit(x.reg[112], 5), !.bank = Field(x.reg[112], 6, 1), !.dacOn = Bit(x.reg[112], 7),
                         !.length = IF off \in {114, 115} THEN 256 - (h % 256) ELSE @,
                         !.volume = Field(h, 13, 2), !.force75 = Bit(h, 15), !.freq = f % 2048, !.lengthEnable = Bit(f, 14)]
  IN  Silenced(IF off = 117 /\ Bit(f, 15) THEN WaveTriggered(d) ELSE d)
NoiseDecoded(x, off) ==
  LET s == Reg16(x, 120)
      f == Reg16(x, 124)
      d == [x.ch4 EXCEPT !.length = 64 - (s % 64), !.env = EnvSet(@, s), !.dacOn = s >= 2048,
                         !.div = f % 8, !.width7 = Bit(f, 3), !.shift = Field(f, 4, 4), !.lengthEnable = Bit(f, 14)]
  IN  Silenced(IF off = 125 /\ Bit(f, 15) THEN NoiseTriggered(d) ELSE d)
\* The reset bits of SOUNDCNT_H empty the queues and read back clear.
QueuesReset(x) ==
  LET r == x.reg[131]
  IN  [x EXCEPT !.ds = [s \in Streams |-> IF Bit(r, IF s = "a" THEN 3 ELSE 7) THEN [x.ds[s] EXCEPT !.queue = <<>>]
                                          ELSE x.ds[s]],
                !.reg[131] = r - Field(r, 3, 1) * 8 - Field(r, 7, 1) * 128]
Decode(x, off) ==
  CASE off \in 96..101 ->
         [x EXCEPT !.ch1 = SquareDecoded(x, [@ EXCEPT !.sweepShift = x.reg[96] % 8, !.sweepDown = Bit(x.reg[96], 3),
                                                      !.sweepPeriod = Field(x.reg[96], 4, 3)], 98, 100, off)]
    [] off \in 104..109 -> [x EXCEPT !.ch2 = SquareDecoded(x, @, 104, 108, off)]
    [] off \in 112..117 -> [x EXCEPT !.ch3 = WaveDecoded(x, off)]
    [] off \in 120..125 -> [x EXCEPT !.ch4 = NoiseDecoded(x, off)]
    [] off = 131 -> QueuesReset(x)
    [] OTHER -> x

Push(q, v) == IF Len(q) < QueueSize THEN Append(q, v) ELSE q
Pushed(x, s, v) == [x EXCEPT !.ds[s].queue = Push(@, v)]
Write8(x, off, val) ==
  CASE off \in 160..163 -> Pushed(x, "a", Signed(val, 8))
    [] off \in 164..167 -> Pushed(x, "b", Signed(val, 8))
    [] off \in 144..159 -> [x EXCEPT !.ram[off - 144] = val]
    [] off = 132 -> IF Bit(val, 7) THEN [x EXCEPT !.master = TRUE]
                    ELSE [x EXCEPT !.master = FALSE, !.ch1 = Square0, !.ch2 = Square0, !.ch3 = Wave0, !.ch4 = Noise0,
                                   !.reg = [o \in DOMAIN @ |-> IF o < 132 THEN 0 ELSE @[o]]]
    [] off < 130 /\ ~x.master -> x
    [] OTHER -> Decode([x EXCEPT !.reg[off] = val], off)

-----------------------------------------------------------------------------
(* The mixer *)

\* A stream's level: its sample, led to the next by how far its time has come.
\* mutant: the time left is not held to the period it is a part of
DsLevelUnheld(x, s) ==
  LET d == x.ds[s]
      left == IF d.next > x.cycle THEN d.next - x.cycle ELSE 0
      frac == ((d.period - left) * (2^24 \div d.period)) \div 2^16
  IN  IF d.queue = <<>> \/ d.period = 0 THEN d.cur * 32
      ELSE d.cur * 32 + ((Head(d.queue) - d.cur) * 32 * frac) \div 256
DsLevel(x, s) ==
  LET d == x.ds[s]
      left == Clamped(d.next - x.cycle, 0, d.period)
      frac == ((d.period - left) * (2^24 \div d.period)) \div 2^16
  IN  IF d.queue = <<>> \/ d.period = 0 THEN d.cur * 32
      ELSE d.cur * 32 + ((Head(d.queue) - d.cur) * 32 * frac) \div 256

\* The output stage: the bias, the ten bits of the converter, and sixteen again.
Converted(x, mix) == LET bias == (Reg16(x, 136) % 1024) * 8
                     IN  (Clamped(mix + bias, 0, 8191) - bias) * 8
Sides2 == {"l", "r"}
MixRaw(x) ==
  LET l == Reg16(x, 128)
      h == Reg16(x, 130)
      dac == <<SquareDac(x.ch1), SquareDac(x.ch2), WaveDac(x.ch3, x.ram), NoiseDac(x.ch4)>>
      Heard(side, n) == IF Bit(l, n - 1 + IF side = "l" THEN 12 ELSE 8) THEN dac[n] ELSE 0
      Volume(side) == IF side = "l" THEN Field(l, 4, 3) ELSE Field(l, 0, 3)
      Psg(side) == ((Heard(side, 1) + Heard(side, 2) + Heard(side, 3) + Heard(side, 4)) * (Volume(side) + 1) * 4)
                   \div (CASE h % 4 = 0 -> 8 [] h % 4 = 1 -> 4 [] OTHER -> 2)
      Level(s) == IF Bit(h, IF s = "a" THEN 2 ELSE 3) THEN DsLevel(x, s) ELSE DsLevel(x, s) \div 2
      Direct2(side, s) == IF Bit(h, (IF s = "a" THEN 8 ELSE 12) + (IF side = "l" THEN 1 ELSE 0)) THEN Level(s) ELSE 0
  IN  [side \in Sides2 |-> IF ~x.master THEN 0
                           ELSE Converted(x, Psg(side) + Direct2(side, "a") + Direct2(side, "b"))]

\* The DC blocker, its state in 4096ths.
Blocked(f, v) == LET y == f.y + (v - f.x) * 4096 IN [f EXCEPT !.x = v, !.y = y - y \div 4096]

-----------------------------------------------------------------------------
(* The clock *)

TickFrameSeq(x) ==
  LET n == x.fsStep
      Lengths(y) == [y EXCEPT !.ch1 = LengthClocked(@), !.ch2 = LengthClocked(@),
                              !.ch3 = LengthClocked(@), !.ch4 = LengthClocked(@)]
      y == IF n % 2 = 0 THEN Lengths(x) ELSE x
      z == IF n \in {2, 6} THEN [y EXCEPT !.ch1 = SweepClocked(@)] ELSE y
      w == IF n = 7 THEN [z EXCEPT !.ch1.env = EnvClocked(@), !.ch2.env = EnvClocked(@), !.ch4.env = EnvClocked(@)]
           ELSE z
  IN  [w EXCEPT !.fsStep = (n + 1) % 8]

\* One stream in the cycles up to end: a sample a period, late ones never made up.
Pop(d, k) == IF d.queue = <<>> THEN [d EXCEPT !.turns = @ + 1]
             ELSE [d EXCEPT !.turns = @ + 1, !.cur = Head(d.queue), !.queue = Tail(d.queue)]
PopDs(d, period, start, end) ==
  LET from == IF d.next < start THEN start ELSE d.next
      n    == IF from >= end THEN 0 ELSE (end - 1 - from) \div period + 1
  IN  IF period = 0 THEN [d EXCEPT !.period = 0]
      ELSE [FoldLeft(Pop, d, Times(n)) EXCEPT !.period = period, !.next = from + n * period]
TimerOf(x, s) == Field(Reg16(x, 130), IF s = "a" THEN 10 ELSE 14, 1)

Streamed(x, periods) ==
  [x EXCEPT !.cycle = @ + Sub,
            !.ds = [s \in Streams |-> PopDs(x.ds[s], periods[TimerOf(x, s)], x.cycle, x.cycle + Sub)]]
Chunk(x, periods) ==
  LET y == [x EXCEPT !.ch1 = SquareAdvanced(@, Sub), !.ch2 = SquareAdvanced(@, Sub),
                     !.ch3 = WaveAdvanced(@, Sub), !.ch4 = NoiseAdvanced(@, Sub),
                     !.fsCycle = (@ + Sub) % FsPeriod]
      ticks == (x.fsCycle + Sub) \div FsPeriod
  IN  Streamed(FoldLeft(LAMBDA a, k : TickFrameSeq(a), y, Times(ticks)), periods)
\* A sample: the mean of its chunks through the blocker, and the mean with the last.
Accumulated(x, sum) == LET v == MixRaw(x) IN [x |-> x, sum |-> [side \in Sides2 |-> sum[side] + v[side]]]
TowardsZero(v, n) == IF v < 0 THEN -((-v) \div n) ELSE v \div n
HighPassed(c) ==
  [c.x EXCEPT !.hp = [side \in Sides2 |-> Blocked(@[side], TowardsZero(c.sum[side], PerSample))]]
Smoothed(x) ==
  LET now == [side \in Sides2 |-> x.hp[side].y \div 4096]
  IN  [x EXCEPT !.ma = now,
                !.out = [side \in Sides2 |-> Clamped(TowardsZero(now[side] + x.ma[side], 2), -32768, 32767)]]
Sample(x, periods) ==
  Smoothed(HighPassed(FoldLeft(LAMBDA c, k : Accumulated(Chunk(c.x, periods), c.sum),
                               [x |-> x, sum |-> [side \in Sides2 |-> 0]], Times(PerSample))))
Resync(x, cycle) == [x EXCEPT !.cycle = cycle, !.ds = [s \in Streams |-> [x.ds[s] EXCEPT !.next = cycle]]]
Generate(x, periods, target) ==
  LET y == IF target > x.cycle + 300000 THEN Resync(x, target) ELSE x
  IN  FoldLeft(LAMBDA a, k : Sample(a, periods), y, Times((target - y.cycle) \div SampleCycles))

-----------------------------------------------------------------------------
(* The streams' DMA *)

\* One request: the bytes the pointer leads over, into the queue.
RunSoundDma(x, m, s) ==
  [x |-> FoldLeft(LAMBDA a, k : Pushed(a, s, Pcm(m.src + m.step * 4 * ((k - 1) \div 4) + ((k - 1) % 4))),
                 x, Times(Request)),
   m |-> [m EXCEPT !.src = @ + m.step * Request]]
RefillFifo(x, m, s) == IF ~m.on \/ Len(x.ds[s].queue) > Request THEN [x |-> x, m |-> m] ELSE RunSoundDma(x, m, s)

\* The level and the transfers of a stream that is asked at every turn, as the
\* hardware asks, after n turns from a level; and at its service once more.
Asked(on, c) == IF on /\ c.level <= Request THEN [level |-> c.level + Request, sent |-> c.sent + Request] ELSE c
Due(on, level, n) ==
  Asked(on, FoldLeft(LAMBDA c, k : Asked(on, [c EXCEPT !.level = IF @ > 0 THEN @ - 1 ELSE 0]),
                     [level |-> level, sent |-> 0], Times(n)))
\* The service of a stream whose turns are so many, with what it found to compare.
Compared(x, m, s, turns, r) ==
  LET level == Len(r.x.ds[s].queue)
  IN  [x |-> r.x, m |-> r.m,
       mark |-> [level |-> level, turns |-> r.x.ds[s].turns, alone |-> m.on],
       served |-> IF mark[s].alone
                  THEN [found |-> [level |-> level, sent |-> IF level = Len(x.ds[s].queue) THEN 0 ELSE Request],
                        due |-> Due(m.on, mark[s].level, turns - mark[s].turns)]
                  ELSE [found |-> <<>>, due |-> <<>>]]
Service(x, m, s, turns) == Compared(x, m, s, turns, RefillFifo(x, m, s))

-----------------------------------------------------------------------------
(* Saved states *)

\* What a saved state keeps.
Serialized(x) ==
  [reg |-> x.reg, ram |-> x.ram, master |-> x.master, fsCycle |-> x.fsCycle, fsStep |-> x.fsStep, cycle |-> x.cycle,
   ds |-> [s \in Streams |-> [next |-> x.ds[s].next, cur |-> x.ds[s].cur, queue |-> x.ds[s].queue]],
   hp |-> x.hp, ma |-> x.ma,
   run |-> <<x.ch1.timer, x.ch1.phase, x.ch2.timer, x.ch2.phase, x.ch3.timer, x.ch3.pos, x.ch4.timer, x.ch4.lfsr>>]
Loaded(x, k, version) ==
  [x EXCEPT !.reg = IF version < 2 THEN [k.reg EXCEPT ![136] = 0, ![137] = 2] ELSE k.reg,
            !.ram = k.ram, !.master = k.master, !.fsCycle = k.fsCycle, !.fsStep = k.fsStep, !.cycle = k.cycle,
            !.ds = [s \in Streams |-> [x.ds[s] EXCEPT !.next = k.ds[s].next, !.cur = k.ds[s].cur, !.queue = k.ds[s].queue]],
            !.hp = k.hp, !.ma = k.ma]
Redecoded(x) == FoldLeft(Decode, x, <<101, 109, 117, 125, 131>>)
Patched(x, k) ==
  [x EXCEPT !.ch1.timer = k.run[1], !.ch1.phase = k.run[2], !.ch2.timer = k.run[3], !.ch2.phase = k.run[4],
            !.ch3.timer = k.run[5], !.ch3.pos = k.run[6], !.ch4.timer = k.run[7], !.ch4.lfsr = k.run[8]]
\* Into the running unit: what a state does not keep stays as it was.
\* mutant: the registers are decoded last
DeserializedLast(x, k, version) == Redecoded(Patched(Loaded(x, k, version), k))
Deserialized(x, k, version) == Patched(Redecoded(Loaded(x, k, version)), k)

-----------------------------------------------------------------------------
(* The machine around it *)

Apu0 == [reg |-> [o \in 96..143 |-> IF o = 137 THEN 2 ELSE 0], ram |-> [k \in 0..31 |-> 0], master |-> FALSE,
         fsCycle |-> 0, fsStep |-> 0, ch1 |-> Square0, ch2 |-> Square0, ch3 |-> Wave0, ch4 |-> Noise0,
         ds |-> [s \in Streams |-> [queue |-> <<>>, cur |-> 0, next |-> 0, period |-> 0, turns |-> 0]],
         cycle |-> 0, hp |-> [side \in Sides2 |-> [x |-> 0, y |-> 0]], ma |-> [side \in Sides2 |-> 0],
         out |-> [side \in Sides2 |-> 0]]

\* The sizes are the code's constants; a game writes bytes at offsets.
ASSUME SoundAssumption ==
  /\ {Sub, PerSample, FsPeriod} \subseteq Nat \ {0}
  /\ {LineCycles, QueueSize, Request} \subseteq Nat
  /\ \A game \in Scores :
       /\ game.setup \in Seq(Int \X Int) /\ game.writes \subseteq Int \X Int
       /\ game.dma \in [Streams -> [on : BOOLEAN, src : Int, step : Int]] /\ game.buffers \subseteq Int
       /\ game.timer \in [0..1 -> Nat] /\ game.periods \subseteq Nat /\ game.runs \subseteq Nat

\* A score: the registers written before, the streams' DMA and the timers then, and
\* the writes, timer periods and buffers a game may choose from, so many times, at
\* these cycles of a line.
SoundInit ==
  /\ score \in Scores
  /\ apu = FoldLeft(LAMBDA x, w : Write8(x, w[1], w[2]), Apu0, score.setup)
  /\ dma = score.dma /\ timer = score.timer /\ at = 0 /\ line = 0 /\ base = 0 /\ acts = 0 /\ saved = <<>>
  /\ mark = [s \in Streams |-> [level |-> 0, turns |-> 0, alone |-> FALSE]]
  /\ served = [s \in Streams |-> [found |-> <<>>, due |-> <<>>]]

Act == line < MaxLines /\ acts < score.most /\ acts' = acts + 1
CpuRuns == \E n \in score.runs :
  /\ line < MaxLines /\ at < n /\ n < LineCycles
  /\ at' = n
  /\ UNCHANGED <<score, apu, dma, timer, line, base, acts, mark, served, saved>>
WriteSound == \E w \in score.writes :
  /\ Act
  /\ apu' = Write8(apu, w[1], w[2])
  /\ mark' = [s \in Streams |-> [mark[s] EXCEPT !.alone = @ /\ apu'.ds[s] = apu.ds[s]]]
  /\ UNCHANGED <<score, dma, timer, at, line, base, served, saved>>
SetTimer == \E t \in 0..1, p \in score.periods :
  /\ Act
  /\ timer' = [timer EXCEPT ![t] = p]
  /\ UNCHANGED <<score, apu, dma, at, line, base, mark, served, saved>>
\* Enable cleared and set again: sound up to this cycle first, then the buffer's start.
\* mutant: a stream is armed without catching up
CaughtUpNever(periods) == apu
CaughtUp(periods) == Generate(apu, periods, base + at)
Arm == \E s \in Streams, b \in score.buffers :
  /\ Act
  /\ \E x \in {CaughtUp(timer)} :
     \E r \in {Service(x, [dma[s] EXCEPT !.on = TRUE], s, Generate(apu, timer, base + at).ds[s].turns)} :
        /\ apu' = r.x
        /\ dma' = [dma EXCEPT ![s] = [r.m EXCEPT !.src = b]]
        /\ mark' = [mark EXCEPT ![s] = r.mark]
        /\ served' = [served EXCEPT ![s] = r.served]
  /\ UNCHANGED <<score, timer, at, line, base, saved>>
Disarm == \E s \in Streams :
  /\ Act /\ score.buffers # {} /\ dma[s].on
  /\ dma' = [dma EXCEPT ![s].on = FALSE]
  /\ mark' = [mark EXCEPT ![s].alone = FALSE]
  /\ UNCHANGED <<score, apu, timer, at, line, base, served, saved>>
EndLine ==
  /\ line < MaxLines
  /\ \E x \in {Generate(apu, timer, base + LineCycles)} :
     \E a \in {Service(x, dma["a"], "a", x.ds["a"].turns)} :
     \E b \in {Service(a.x, dma["b"], "b", x.ds["b"].turns)} :
        /\ apu' = b.x
        /\ dma' = [a |-> a.m, b |-> b.m]
        /\ mark' = [a |-> a.mark, b |-> b.mark]
        /\ served' = [a |-> a.served, b |-> b.served]
  /\ line' = line + 1 /\ base' = base + LineCycles /\ at' = 0
  /\ UNCHANGED <<score, timer, acts, saved>>
SaveSound ==
  /\ Act /\ score.saves /\ at = 0 /\ saved = <<>>
  /\ saved' = <<Serialized(apu)>>
  /\ UNCHANGED <<score, apu, dma, timer, at, line, base, mark, served>>
\* The front end loads between frames, and the line clock goes back with the unit's.
LoadSound == \E version \in 1..2 :
  /\ Act /\ saved # <<>> /\ at = 0
  /\ apu' = Deserialized(apu, saved[1], version)
  /\ mark' = [s \in Streams |-> [mark[s] EXCEPT !.alone = FALSE]]
  /\ base' = apu'.cycle
  /\ UNCHANGED <<score, dma, timer, at, line, served, saved>>

SoundNext == CpuRuns \/ WriteSound \/ SetTimer \/ Arm \/ Disarm \/ EndLine \/ SaveSound \/ LoadSound
SoundSpec == SoundInit /\ [][SoundNext]_soundvars

-----------------------------------------------------------------------------
(* Properties *)

\* A stream left alone, streaming from one buffer or restarted on the next, gets
\* at each service the bytes that a request at every turn would have brought it,
\* none more, none less and none dropped by a full queue, although it is served
\* once a line and when it is armed (memory.rs 925-942: a re-arm serviced at the
\* line's end reads sixteen bytes past the buffer).
AsServed == \A s \in Streams : served[s].found = served[s].due

\* What the mixer hears of a stream lies between its sample and the next, however
\* the timer's period changes between two turns, and on the sample when there is
\* no next (apu.rs 938-940).
LevelIsBetween ==
  \A s \in Streams :
    LET d == apu.ds[s]
        next == IF d.queue = <<>> THEN d.cur ELSE Head(d.queue)
    IN  DsLevel(apu, s) \in IF d.cur <= next THEN (d.cur * 32)..(next * 32) ELSE (next * 32)..(d.cur * 32)

\* Loading a state puts the clock, the streams, the filters and every channel's
\* place in its waveform back where they were saved, although decoding the
\* registers starts the channels whose trigger bit they keep.  A state is loaded
\* here by the run that saved it, later: the clock goes back.
LoadsWhatWasSaved ==
  [][apu'.cycle < apu.cycle => [Serialized(apu') EXCEPT !.reg = <<>>] = [saved[1] EXCEPT !.reg = <<>>]]_soundvars
=============================================================================
