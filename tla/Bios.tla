-------------------------------- MODULE Bios --------------------------------
(***************************************************************************)
(* The calls of the BIOS that compute, copy and unpack, as the emulator    *)
(* answers them without a BIOS image (gba-core/src/cpu/hle.rs).  The calls *)
(* that wait and reset belong to Console.                                  *)
(*                                                                         *)
(* A job is one call of a game: its arguments, the memory it is made in,   *)
(* and, for a stream to unpack, what was packed into it.  Registers are    *)
(* words of NumberWidth bits where they are numbers, of sixteen where they *)
(* are angles or points; memory is bytes of eight.  A source is aligned,   *)
(* as the calls require of it, and so is a destination unless it is        *)
(* written by bytes.                                                       *)
(***************************************************************************)
EXTENDS Words, SequencesExt

CONSTANTS
  NumberWidth,     \* of a register; 32 in the code
  Jobs

VARIABLES
  job,
  memory,    \* address -> byte
  r,         \* r0 to r3
  returned   \* has the call come back

biosvars == <<job, memory, r, returned>>

-----------------------------------------------------------------------------
(* Arithmetic *)

Magnitude(a) == IF a < 0 THEN -a ELSE a
Towards0(a, b) == IF (a < 0) = (b < 0) THEN Magnitude(a) \div Magnitude(b) ELSE -(Magnitude(a) \div Magnitude(b))
\* mutant: the quotient rounded down
DivFloor(x, number, denom) ==
  IF denom = 0 THEN x
  ELSE LET q == (IF denom < 0 THEN -number ELSE number) \div Magnitude(denom)
       IN  [x EXCEPT ![0] = Wrapped(q, NumberWidth), ![1] = Wrapped(number - q * denom, NumberWidth), ![3] = Wrapped(Magnitude(q), NumberWidth)]
Div(x, number, denom) ==
  IF denom = 0 THEN (IF number = 0 THEN [x EXCEPT ![0] = 1, ![1] = 0, ![3] = 1] ELSE x)
  ELSE LET q == Towards0(number, denom)
       IN  [x EXCEPT ![0] = Wrapped(q, NumberWidth), ![1] = Wrapped(number - q * denom, NumberWidth), ![3] = Wrapped(Magnitude(q), NumberWidth)]

\* saturating_mul of a word by itself.
Squared(x) == IF x >= 2^(NumberWidth \div 2) THEN 2^NumberWidth - 1 ELSE x * x
\* What the two correcting loops stop at, none when the second does not stop:
\* it adds 1 to a word of NumberWidth bits, wrapping, while the square fits.
Isqrt(v, guess) ==
  LET low == CHOOSE x \in 0..guess : Squared(x) <= v /\ \A y \in x+1..guess : Squared(y) > v
  IN  {x \in low..2^NumberWidth - 1 : Squared(x + 1) > v /\ \A y \in low+1..x : Squared(y) <= v}
\* The floating root, right or off by one at a boundary.
Guesses(v) == LET root == CHOOSE x \in 0..2^(NumberWidth \div 2) : x * x <= v /\ (x + 1) * (x + 1) > v
              IN  {g \in root-1..root+1 : g >= 0}

Arctan(a) ==
  LET b == -((a * a) \div 2^14)
      Term(c, k) == (c * b) \div 2^14 + k
  IN  Wrapped((a * FoldLeft(Term, 169, <<912, 2332, 4022, 5802, 8321, 13905, 41721>>)) \div 2^16, 16)
Arctan2(x, y) ==
  IF y = 0 THEN (IF x < 0 THEN 32768 ELSE 0)
  ELSE IF x = 0 THEN (IF y < 0 THEN 49152 ELSE 16384)
  ELSE IF Magnitude(y) > Magnitude(x)
  THEN Wrapped((IF y < 0 THEN 49152 ELSE 16384) + Arctan(Towards0(x * 2^14, y)), 16)
  ELSE Wrapped((IF x < 0 THEN 32768 ELSE 0) + Arctan(Towards0(y * 2^14, x)), 16)

-----------------------------------------------------------------------------
(* Copies *)

Unit(mem, a, size) == [k \in 0..size-1 |-> mem[a + k]]
Store(mem, a, unit) == [x \in DOMAIN mem |-> IF x - a \in DOMAIN unit THEN unit[x - a] ELSE mem[x]]

\* mutant: the whole source is read before anything is stored
CopySnapshot(mem, src, dst, size, count, fill) ==
  Store(mem, dst, [k \in 0..size * count - 1 |-> mem[src + (IF fill THEN k % size ELSE k)]])
Copy(mem, src, dst, size, count, fill) ==
  LET first == Unit(mem, src, size)
  IN  FoldLeft(LAMBDA x, k : Store(x, dst + k * size, IF fill THEN first ELSE Unit(x, src + size * k, size)),
               mem, [k \in 1..count |-> k - 1])
CpuSet(mem, c) == Copy(mem, c.src, c.dst, IF c.word THEN 4 ELSE 2, c.count, c.fill)
CpuFastSet(mem, c) == Copy(mem, c.src, c.dst, 4, 8 * ((c.count + 7) \div 8), c.fill)

Cleared(mem, c) == [a \in DOMAIN mem |-> IF \E f \in c.flags : a \in c.region[f] THEN 0 ELSE mem[a]]
\* mutant: the display is blanked only by a call that clears something
RegisterRamResetUnblanked(mem, c) ==
  IF c.flags = {} THEN mem ELSE Store(Cleared(mem, c), c.dispcnt, [k \in 0..1 |-> IF k = 0 THEN 128 ELSE 0])
\* The memories named by the flags are cleared, and the display is blanked whatever they are.
RegisterRamReset(mem, c) == Store(Cleared(mem, c), c.dispcnt, [k \in 0..1 |-> IF k = 0 THEN 128 ELSE 0])

-----------------------------------------------------------------------------
(* Unpacking: a round of each decoder takes [src, out] to the same, with at *)
(* least a unit more of output.                                            *)

Size(mem, src) == mem[src + 1] + 256 * mem[src + 2] + 65536 * mem[src + 3]
WhileShort(Round(_), size, rounds, start) ==
  FoldLeft(LAMBDA s, k : IF Len(s.out) < size THEN Round(s) ELSE s, start, [k \in 1..rounds |-> k])
Emit(s, byte, size) == IF Len(s.out) < size THEN [s EXCEPT !.out = Append(@, byte)] ELSE s
Take(s, byte) == [s EXCEPT !.out = Append(@, byte), !.src = @ + 1]

\* A halfword at a time to video memory, the last padded with a zero.
WriteOut(mem, dst, data, vram) ==
  Store(mem, dst, [k \in 0..Len(data) - 1 + (IF vram THEN Len(data) % 2 ELSE 0) |->
                     IF k < Len(data) THEN data[k + 1] ELSE 0])

\* mutant: a reference does not reach what it has itself put out
BackBefore(s, len, disp, size) ==
  FoldLeft(LAMBDA x, k : LET n == Len(s.out) - disp + k
                         IN  Emit(x, IF n \in 1..Len(s.out) THEN s.out[n] ELSE 0, size), s, [k \in 1..len |-> k])
Back(s, len, disp, size) ==
  FoldLeft(LAMBDA x, k : Emit(x, IF disp <= Len(x.out) THEN x.out[Len(x.out) - disp + 1] ELSE 0, size),
           s, [k \in 1..len |-> k])
Lz77(mem, c) ==
  LET size == Size(mem, c.src)
      Block(s, flag) ==
        IF Len(s.out) >= size THEN s
        ELSE IF flag
        THEN Back([s EXCEPT !.src = @ + 2], mem[s.src] \div 16 + 3, (mem[s.src] % 16) * 256 + mem[s.src + 1] + 1, size)
        ELSE Take(s, mem[s.src])
      Group(s) == FoldLeft(LAMBDA x, n : Block(x, Bit(mem[s.src], 8 - n)), [s EXCEPT !.src = @ + 1],
                           [n \in 1..8 |-> n])
  IN  WriteOut(mem, c.dst, WhileShort(Group, size, size, [src |-> c.src + 4, out |-> <<>>]).out, c.vram)

Rl(mem, c) ==
  LET size == Size(mem, c.src)
      Run(s) ==
        LET flag == mem[s.src]
            from == [s EXCEPT !.src = @ + 1]
        IN  IF flag >= 128
            THEN FoldLeft(LAMBDA x, k : Emit(x, mem[s.src + 1], size), [s EXCEPT !.src = @ + 2], [k \in 1..flag - 125 |-> k])
            ELSE FoldLeft(LAMBDA x, k : IF Len(x.out) < size THEN Take(x, mem[x.src]) ELSE x, from, [k \in 1..flag + 1 |-> k])
  IN  WriteOut(mem, c.dst, WhileShort(Run, size, size, [src |-> c.src + 4, out |-> <<>>]).out, c.vram)

Diff8(mem, c) ==
  LET size == Size(mem, c.src)
      Next8(s) == LET sum == (s.acc + mem[s.src]) % 256 IN [Take(s, sum) EXCEPT !.acc = sum]
  IN  WriteOut(mem, c.dst, WhileShort(Next8, size, size, [src |-> c.src + 4, out |-> <<>>, acc |-> 0]).out, c.vram)
Diff16(mem, c) ==
  LET size == Size(mem, c.src)
      Next16(s) == LET sum == (s.acc + mem[s.src] + 256 * mem[s.src + 1]) % 65536
                   IN  [src |-> s.src + 2, out |-> s.out \o <<sum % 256, sum \div 256>>, acc |-> sum]
  IN  WriteOut(mem, c.dst, WhileShort(Next16, size, size, [src |-> c.src + 4, out |-> <<>>, acc |-> 0]).out, TRUE)

\* The bits of the stream, by little-endian words, the top bit first.
StreamBit(mem, stream, n) == Bit(mem[stream + 4 * (n \div 32) + 3 - (n % 32) \div 8], 7 - (n % 8))
\* Down the tree from the node at s.cur to a leaf, a bit at a time.
Descend(mem, stream, s) ==
  IF s.leaf THEN s
  ELSE LET one   == StreamBit(mem, stream, s.bit)
           node  == mem[s.cur]
           child == (s.cur \div 2) * 2 + 2 * (node % 64) + 2 + (IF one THEN 1 ELSE 0)
       IN  [cur |-> child, bit |-> s.bit + 1, leaf |-> Bit(node, IF one THEN 6 ELSE 7)]
Symbol(s, data, bits) ==
  IF bits = 8 THEN [s EXCEPT !.out = Append(@, data)]
  ELSE IF s.hi THEN [s EXCEPT !.out = Append(@, s.pending + 16 * (data % 16)), !.hi = FALSE]
  ELSE [s EXCEPT !.pending = data % 16, !.hi = TRUE]
Huff(mem, c) ==
  LET size   == Size(mem, c.src)
      tree   == c.src + 4
      stream == tree + 2 * (mem[tree] + 1)
      Round(s) ==
        LET end == FoldLeft(LAMBDA x, k : Descend(mem, stream, x), [cur |-> tree + 1, bit |-> s.bit, leaf |-> FALSE],
                            [k \in 1..mem[tree] + 1 |-> k])
        IN  Symbol([s EXCEPT !.bit = end.bit], mem[end.cur], mem[c.src] % 16)
  IN  WriteOut(mem, c.dst,
               WhileShort(Round, size, 2 * size, [out |-> <<>>, bit |-> 0, hi |-> FALSE, pending |-> 0]).out, TRUE)

SumOfBits(word, from) == SumSet({2^b : b \in {b \in 0..7 : from + b \in word}})
\* Words as the sets of their bits: units or'ed in, carried past a unit's width if
\* the offset makes them wider, dropped past the word's.  A byte of the source is
\* read once, whole, so its own output may go over it.
\* The offset is its low sixteen bits.
BitUnpack(mem, c) ==
  LET Word(a) == [k \in 0..3 |-> mem[a + k]]
      len == mem[c.param] + 256 * mem[c.param + 1]
      srcW == mem[c.param + 2]
      dstW == mem[c.param + 3]
      offset == mem[c.param + 4] + 256 * mem[c.param + 5]
      zeroToo == Bit(mem[c.param + 7], 7)
      Bytes(word) == [k \in 0..3 |-> SumOfBits(word, 8 * k)]
      One(s, unit) ==
        LET val  == IF unit # 0 \/ zeroToo THEN unit + offset ELSE 0
            out  == s.out \cup {s.bits + b : b \in {b \in 0..20 : s.bits + b < 32 /\ Bit(val, b)}}
        IN  IF s.bits + dstW >= 32
            THEN [mem |-> Store(s.mem, s.dst, Bytes(out)), dst |-> s.dst + 4, out |-> {}, bits |-> 0]
            ELSE [s EXCEPT !.out = out, !.bits = @ + dstW]
      Byte(s, n) ==
        LET byte == s.mem[c.src + n - 1]
        IN  FoldLeft(One, s, [u \in 1..(7 + srcW) \div srcW |-> Field(byte, (u - 1) * srcW, srcW)])
      end == FoldLeft(Byte, [mem |-> mem, dst |-> c.dst, out |-> {}, bits |-> 0], [n \in 1..len |-> n])
  IN  IF srcW = 0 \/ dstW = 0 THEN mem
      ELSE IF end.bits > 0 THEN Store(end.mem, end.dst, Bytes(end.out)) ELSE end.mem

-----------------------------------------------------------------------------
(* Calls *)

Called == memory = job.memory /\ r = job.r /\ returned = FALSE
BiosInit == job \in Jobs /\ Called

Returns == returned = FALSE /\ returned' = TRUE /\ UNCHANGED job
Answers(call, regs) == job.call = call /\ Returns /\ r' = regs /\ UNCHANGED memory
Leaves(call, mem) == job.call = call /\ Returns /\ memory' = mem /\ UNCHANGED r

Number == Signed(job.r[0], NumberWidth)
Denom  == Signed(job.r[1], NumberWidth)
SwiDiv    == Answers("div", Div(r, Number, Denom))
SwiDivArm == Answers("divarm", Div(r, Denom, Number))
\* With a BIOS: answered here by zero, seeded otherwise, and divided by the BIOS,
\* which leaves r3 alone and never comes back from another division by zero.
OpenBiosDiv(x, number, denom) == [Div(x, number, denom) EXCEPT ![3] = x[3]]
PatchDiv ==
  /\ Denom # 0 \/ Number = 0
  /\ Answers("patched", IF Denom = 0 THEN Div(r, Number, Denom)
                        ELSE OpenBiosDiv([r EXCEPT ![3] = Wrapped(Magnitude(Towards0(Number, Denom)), NumberWidth)], Number, Denom))
SwiSqrt == job.call = "sqrt" /\ \E g \in Guesses(r[0]) : \E x \in Isqrt(r[0], g) : Answers("sqrt", [r EXCEPT ![0] = x])
SwiArctan == Answers("arctan", [r EXCEPT ![0] = Arctan(Signed(r[0], 16))])
SwiArctan2 == Answers("arctan2", [r EXCEPT ![0] = Arctan2(Signed(r[0], 16), Signed(r[1], 16))])
SwiCpuSet == Leaves("cpuset", CpuSet(memory, job))
SwiCpuFastSet == Leaves("cpufastset", CpuFastSet(memory, job))
SwiRegisterRamReset == Leaves("ramreset", RegisterRamReset(memory, job))
SwiBitUnPack == Leaves("bitunpack", BitUnpack(memory, job))
SwiLz77 == Leaves("lz77", Lz77(memory, job))
SwiHuff == Leaves("huff", Huff(memory, job))
SwiRl == Leaves("rl", Rl(memory, job))
SwiDiff8 == Leaves("diff8", Diff8(memory, job))
SwiDiff16 == Leaves("diff16", Diff16(memory, job))

BiosNext == SwiDiv \/ SwiDivArm \/ PatchDiv \/ SwiSqrt \/ SwiArctan \/ SwiArctan2 \/ SwiCpuSet \/ SwiCpuFastSet
            \/ SwiRegisterRamReset \/ SwiBitUnPack \/ SwiLz77 \/ SwiHuff \/ SwiRl \/ SwiDiff8 \/ SwiDiff16

-----------------------------------------------------------------------------
(* What was packed *)

\* Every kind of packing told a byte at a time: the k-th byte of what it stands for.
Expanded(c) ==
  CASE c.call = "lz77" ->
         \* each block <<byte>> or <<len, disp>>
         FoldLeft(LAMBDA out, b : IF Len(b) = 1 THEN out \o b
                                  ELSE out \o [k \in 1..b[1] |-> LET n == Len(out) - b[2] + ((k - 1) % b[2]) + 1
                                                                 IN  IF n > 0 THEN out[n] ELSE 0],
                  <<>>, c.packed)
    [] c.call = "rl" ->
         \* each run [len, byte], or the bytes themselves
         FoldLeft(LAMBDA out, b : out \o (IF b[1] = "run" THEN [k \in 1..b[2] |-> b[3]] ELSE b[2]), <<>>, c.packed)
    [] c.call \in {"diff8", "diff16", "huff"} -> c.packed
    [] c.call = "bitunpack" ->
         \* units, each in c.dstW bits
         LET Val(n) == IF n > Len(c.packed) THEN 0
                       ELSE IF c.packed[n] # 0 \/ c.zeroToo THEN c.packed[n] + c.offset ELSE 0
             Byte(k) == IF c.dstW < 8
                        THEN SumSet({Val(k * (8 \div c.dstW) + n) * 2^(c.dstW * (n - 1)) : n \in 1..8 \div c.dstW})
                        ELSE (Val((8 * k) \div c.dstW + 1) \div 2^((8 * k) % c.dstW)) % 256
         IN  [k \in 1..4 * ((Len(c.packed) * c.dstW + 31) \div 32) |-> Byte(k - 1)]

-----------------------------------------------------------------------------
(* Properties *)

\* A division gives the quotient rounded towards zero, a remainder of the
\* dividend's sign and the quotient's magnitude, whoever divided, the least number
\* by -1 and zero by zero included (hle.rs 201-205, 215-217); a root is the
\* greatest whose square fits.
ArithmeticIsExact ==
  LET Divided(n, d) ==
        LET q == Signed(r[0], NumberWidth)
            rem == Signed(r[1], NumberWidth)
        IN  IF d = 0 THEN (IF n = 0 THEN <<r[0], r[1], r[3]>> = <<1, 0, 1>> ELSE r = job.r)
            ELSE /\ (q * d + rem - n) % 2^NumberWidth = 0
                 /\ Magnitude(rem) < Magnitude(d)
                 /\ rem # 0 => (rem < 0) = (n < 0)
                 /\ r[3] = Magnitude(q)
  IN  returned => CASE job.call \in {"div", "patched"} -> Divided(Number, Denom)
                    [] job.call = "divarm" -> Divided(Denom, Number)
                    [] job.call = "sqrt" -> r[0] * r[0] <= job.r[0] /\ job.r[0] < (r[0] + 1) * (r[0] + 1)
                    [] OTHER -> TRUE

\* The destination holds what was packed, as far as the header's size, and no
\* other byte has changed but the one that fills up the last halfword or word;
\* that is so even when the stream lies where the output goes, as it is decoded
\* before anything is stored (hle.rs 382-384), and for units to unpack while no
\* byte that is still to be read is written over (hle.rs 548).
UnpacksWhatWasPacked ==
  returned /\ "packed" \in DOMAIN job =>
    LET size == IF job.call = "bitunpack" THEN Len(Expanded(job)) ELSE Size(job.memory, job.src)
        pad  == IF job.vram THEN size % 2 ELSE 0
    IN  \A a \in DOMAIN memory :
          memory[a] = IF a - job.dst \in 0..size-1 THEN Expanded(job)[a - job.dst + 1]
                      ELSE IF a - job.dst \in size..size+pad-1 THEN 0 ELSE job.memory[a]

\* A copy gives the source, repeated where it runs into its own output, a fill its
\* first unit, both to the last unit of the count (of eight for CpuFastSet); a
\* reset zeroes the memories its flags name and leaves the display blanked
\* (hle.rs 99-100); and nothing else changes.
CopiesAsTold ==
  returned =>
    LET size == IF job.call = "cpuset" /\ ~job.word THEN 2 ELSE 4
        len  == size * (IF job.call = "cpuset" THEN job.count ELSE 8 * ((job.count + 7) \div 8))
        gap  == job.dst - job.src
        Of(k) == job.src + (IF job.fill THEN k % size ELSE IF gap \in 1..len-1 THEN k % gap ELSE k)
    IN  CASE job.call \in {"cpuset", "cpufastset"} ->
               \A a \in DOMAIN memory :
                 memory[a] = job.memory[IF a - job.dst \in 0..len-1 THEN Of(a - job.dst) ELSE a]
          [] job.call = "ramreset" ->
               \A a \in DOMAIN memory :
                 memory[a] = CASE a = job.dispcnt -> 128
                               [] a = job.dispcnt + 1 -> 0
                               [] OTHER -> IF \E f \in job.flags : a \in job.region[f] THEN 0 ELSE job.memory[a]
          [] OTHER -> TRUE

\* All three: a call that divides, takes a root, copies, clears or unpacks gives
\* what was asked of it.  Nothing is said here of the arctangents, of which
\* AngleInQuadrant has the second, and no root of the largest word is asked for:
\* its correcting loop (hle.rs 283) never ends.
CallsAnswerExactly == ArithmeticIsExact /\ UnpacksWhatWasPacked /\ CopiesAsTold

\* "full-circle angle of (x, y) in BIOS units (0..0xFFFF)" (hle.rs 305): the angle
\* of a point lies in the point's quadrant.
AngleInQuadrant ==
  returned /\ job.call = "arctan2" =>
    LET x == Signed(job.r[0], 16)
        y == Signed(job.r[1], 16)
    IN  /\ x > 0 /\ y > 0 => r[0] \in 0..16384
        /\ x < 0 /\ y > 0 => r[0] \in 16384..32768
        /\ x < 0 /\ y < 0 => r[0] \in 32768..49152
        /\ x > 0 /\ y < 0 => r[0] \in 49152..65535
=============================================================================
