-------------------------------- MODULE MCBios --------------------------------
(* Model-checking instance of Bios: registers of eight bits for numbers, and  *)
(* streams of a few units, each beside its output and on top of it.           *)
EXTENDS Bios

Blank == [a \in 0..127 |-> (7 * a + 3) % 256]
Regs(a, b) == [k \in 0..3 |-> IF k = 0 THEN a ELSE IF k = 1 THEN b ELSE 90 + k]
Laid(bytes) == [a \in DOMAIN Blank |-> IF a < Len(bytes) THEN bytes[a + 1] ELSE Blank[a]]

Word8 == WordsOf(8)
Edges == {0, 1, 2, 3, 7, 100, 126, 127, 128, 129, 130, 200, 254, 255}
Sums ==
        {[memory |-> <<>>, r |-> Regs(a, b), call |-> k] : k \in {"div", "divarm", "patched"}, a \in Edges, b \in Edges}
        \cup {[memory |-> <<>>, r |-> Regs(v, 0), call |-> "sqrt"] : v \in Word8 \ {255}}
        \cup {[memory |-> <<>>, r |-> Regs(v, 0), call |-> "arctan"] : v \in {0, 1, 8192, 16384, 49152, 65535}}

Copies == {[memory |-> Blank, r |-> Regs(0, 0), call |-> k, src |-> s, dst |-> d, word |-> w, fill |-> f, count |-> n] :
             k \in {"cpuset"}, s \in {16, 32, 40}, d \in {8, 32, 36, 40}, w \in BOOLEAN, f \in BOOLEAN, n \in {0, 1, 3, 8}}
          \cup {[memory |-> Blank, r |-> Regs(0, 0), call |-> "cpufastset", src |-> s, dst |-> d, fill |-> f, count |-> n] :
                  s \in {8, 16}, d \in {8, 20, 56}, f \in BOOLEAN, n \in {0, 1, 7, 8, 9}}
          \cup {[memory |-> Blank, r |-> Regs(0, 0), call |-> "ramreset", flags |-> f,
                 region |-> [n \in 0..2 |-> (32 * n)..(32 * n + 31 - 4 * n)], dispcnt |-> 124] : f \in SUBSET (0..2)}

\* Packages.
Header(kind, size) == <<kind, size, 0, 0>>
LzBytes(b) == IF Len(b) = 1 THEN b ELSE <<16 * (b[1] - 3) + (b[2] - 1) \div 256, (b[2] - 1) % 256>>
Grouped(blocks) ==
  LET group == SubSeq(blocks, 1, IF Len(blocks) < 8 THEN Len(blocks) ELSE 8)
  IN  <<SumSet({2^(8 - n) : n \in {n \in 1..Len(group) : Len(group[n]) = 2}})>> \o FlattenSeq([n \in 1..Len(group) |-> LzBytes(group[n])])
LzStream(blocks) == Grouped(blocks) \o (IF Len(blocks) > 8 THEN Grouped(SubSeq(blocks, 9, Len(blocks))) ELSE <<>>)
Pieces == {<<5>>, <<200>>, <<3, 1>>, <<4, 2>>, <<18, 1>>, <<5, 3>>}
Packs == {<<a>> : a \in Pieces} \cup (Pieces \X Pieces) \cup ({<<9>>} \X Pieces \X Pieces)
         \cup {[k \in 1..7 |-> <<k>>] \o b : b \in (Pieces \X Pieces)}
Runs == {<<"run", 3, 7>>, <<"run", 10, 250>>, <<"bytes", <<4>> >>, <<"bytes", <<9, 8, 7>> >>}
RlBytes(b) == IF b[1] = "run" THEN <<128 + b[2] - 3, b[3]>> ELSE <<Len(b[2]) - 1>> \o b[2]
Data == {<<1, 2, 3>>, <<250, 3, 3, 200>>, <<0, 255, 0, 1, 9, 9>>, <<17>>}
Delta8(d) == [k \in 1..Len(d) |-> (d[k] - (IF k = 1 THEN 0 ELSE d[k - 1])) % 256]
Half(d, k) == d[2 * k - 1] + 256 * d[2 * k]
Delta16(d) == FlattenSeq([k \in 1..Len(d) \div 2 |->
                LET v == (Half(d, k) - (IF k = 1 THEN 0 ELSE Half(d, k - 1))) % 65536 IN <<v % 256, v \div 256>>])

\* A tree of four leaves, 1 and 01 and 000 and 001 in paths, for bytes and nibbles.
Codes == [b \in {"1", "01", "000", "001"} |->
            CASE b = "1" -> <<1>> [] b = "01" -> <<0, 1>> [] b = "000" -> <<0, 0, 0>> [] OTHER -> <<0, 0, 1>>]
Leaf(bits) == [b \in DOMAIN Codes |-> IF bits = 8 THEN (CASE b = "1" -> 65 [] b = "01" -> 200 [] b = "000" -> 0 [] OTHER -> 17)
                                      ELSE (CASE b = "1" -> 1 [] b = "01" -> 14 [] b = "000" -> 0 [] OTHER -> 7)]
Tree(bits) == <<3, 64, 64, Leaf(bits)["1"], 192, Leaf(bits)["01"], Leaf(bits)["000"], Leaf(bits)["001"]>>
WordsOfBits(bits) ==
  FlattenSeq([w \in 1..(Len(bits) + 31) \div 32 |->
    [k \in 1..4 |-> SumSet({2^(7 - n) : n \in {n \in 0..7 : LET p == 32 * (w - 1) + 8 * (4 - k) + n + 1
                                                            IN  p <= Len(bits) /\ bits[p] = 1}})]])
HuffBits(path) == WordsOfBits(FlattenSeq([k \in 1..Len(path) |-> Codes[path[k]]]))
Paths == {[k \in 1..4 |-> p[k]] : p \in [1..4 -> DOMAIN Codes]}
         \cup {[k \in 1..16 |-> IF k % 3 = 0 THEN "01" ELSE "001"]}
Bytes8(path) == [k \in 1..Len(path) |-> Leaf(8)[path[k]]]
Bytes4(path) == [k \in 1..Len(path) \div 2 |-> Leaf(4)[path[2 * k - 1]] + 16 * Leaf(4)[path[2 * k]]]

Job(call, stream, packed, dst, vram) ==
  [call |-> call, memory |-> Laid(stream), r |-> Regs(0, 0), src |-> 0, dst |-> dst, vram |-> vram, packed |-> packed]
Sized(call, blocks) == Len(Expanded([call |-> call, packed |-> blocks]))
Packages ==
  {Job("lz77", Header(16, Sized("lz77", b) - cut) \o LzStream(b), b, d, v) :
     b \in Packs, cut \in {0, 1}, d \in {6, 64}, v \in BOOLEAN}
  \cup {Job("rl", Header(48, Sized("rl", b) - cut) \o FlattenSeq([k \in 1..Len(b) |-> RlBytes(b[k])]), b, d, v) :
          b \in (Runs \X Runs) \cup (Runs \X Runs \X Runs), cut \in {0, 1}, d \in {6, 64}, v \in BOOLEAN}
  \cup {Job("diff8", Header(129, Len(p)) \o Delta8(p), p, d, v) : p \in Data, d \in {4, 64}, v \in BOOLEAN}
  \cup {Job("diff16", Header(130, Len(p)) \o Delta16(p), p, d, TRUE) : p \in {p \in Data : Len(p) % 2 = 0}, d \in {4, 64}}
  \cup {Job("huff", Header(40, Len(p)) \o Tree(8) \o HuffBits(p), Bytes8(p), d, TRUE) : p \in Paths, d \in {6, 64}}
  \cup {Job("huff", Header(36, Len(p) \div 2) \o Tree(4) \o HuffBits(p), Bytes4(p), d, TRUE) : p \in Paths, d \in {6, 64}}

Units == [1..8 -> {0, 1}]
Packings == {[call |-> "bitunpack", memory |-> Laid(<<SumSet({2^(k - 1) : k \in {k \in 1..8 : u[k] = 1}}), 0, 0, 0, 1, 0, 1, w, o, 0, 0, IF z THEN 128 ELSE 0>>),
              r |-> Regs(0, 0), src |-> 0, dst |-> d, param |-> 4, vram |-> FALSE, packed |-> u, dstW |-> w, offset |-> o, zeroToo |-> z] :
               d \in {0, 64}, u \in {u \in Units : u[4] = u[3] /\ u[7] = u[8]}, w \in {2, 4, 8, 16, 32}, o \in {0, 2}, z \in BOOLEAN}
            \cup {[call |-> "bitunpack", memory |-> Laid(<<27, 228, 0, 0, 2, 0, 4, w, o, 0, 0, IF z THEN 128 ELSE 0>>),
                   r |-> Regs(0, 0), src |-> 0, dst |-> d, param |-> 4, vram |-> FALSE, packed |-> <<11, 1, 4, 14>>,
                   dstW |-> w, offset |-> o, zeroToo |-> z] :
                    <<d, w>> \in {<<0, 8>>, <<64, 8>>, <<64, 16>>, <<64, 32>>}, o \in {0, 200}, z \in BOOLEAN}

MCJobs == Sums \cup Copies \cup Packages \cup Packings
Points == {[memory |-> <<>>, r |-> Regs(x % 65536, y % 65536), call |-> "arctan2"] :
             x \in {-300, -20, 0, 1, 20, 300}, y \in {-300, -20, 0, 1, 20, 300}}
BiosSpec == BiosInit /\ [][BiosNext]_biosvars
=============================================================================
