------------------------------ MODULE Picture ------------------------------
(***************************************************************************)
(* The LCD controller of gba-core/src/ppu.rs as the scanline loop drives   *)
(* it: a line begins, its H-blank begins, it is drawn; the game writes     *)
(* between.                                                                *)
(*                                                                         *)
(* Drawing a line lays the enabled layers over each other pixel by pixel,  *)
(* keeping the two that win, and mixes the two.  A scene is what the game  *)
(* has set up for a frame: the fields of its registers and its objects.    *)
(* Addresses and sizes are the hardware's; the screen is Wide by High, and *)
(* Vram and Palette are what memory holds, a palette entry as its three    *)
(* channels.                                                               *)
(***************************************************************************)
EXTENDS Words, Sequences, FiniteSets, SequencesExt

CONSTANTS
  Wide, High, Lines,  \* 240, 160 and 228
  Vram(_),            \* the byte at an offset below 0x18000
  Palette(_),         \* the colour of an entry below 512, <<red, green, blue>>
  Scenes,             \* what a frame may show
  Halves,             \* the halfwords a game writes to a reference point
  MaxWrites           \* how many times it writes to a register

VARIABLES
  scene,
  lcd,     \* the registers and counters the lines move
  row,     \* the line drawn last
  loaded,  \* for each affine background, the line its reference was last loaded on
  writes

lcdvars == <<scene, lcd, row, loaded, writes>>

Columns == 0 .. Wide - 1
Affines == {2, 3}
LastDrawn == High - 1
Point == [1..4 -> WordsOf(16)]   \* the halfwords of BGxX and BGxY

ASSUME PictureAssumption ==
  /\ High \in Nat \ {0} /\ Lines \in Nat /\ High < Lines
  /\ Halves \subseteq WordsOf(16)
  /\ \A s \in Scenes : /\ s.halves \in [Affines -> Point]
                       /\ \A bg \in Affines : s.bg[bg].pb \in Int /\ s.bg[bg].pd \in Int

-----------------------------------------------------------------------------
(* Pixels *)

\* The window wraps at 128 KB and its last 32 KB mirror the 32 before them.
VramFold(o) == LET w == o % 131072 IN IF w >= 98304 THEN w - 32768 ELSE w
At(o) == Vram(VramFold(o))
Nibble(b, n) == IF n % 2 = 0 THEN b % 16 ELSE b \div 16
Direct(o) == LET v == Vram(o) + 256 * Vram(o + 1) IN <<Field(v, 0, 5), Field(v, 5, 5), Field(v, 10, 5)>>

Clear == <<>>   \* a pixel a layer leaves to those behind it
Backdrop == [id |-> 5, key |-> 4 * 256 + 5, col |-> Palette(0), semi |-> FALSE]
Key(prio, rank) == prio * 256 + rank

\* The two layers in front, <<first, second>>; second is kept only if two is.
Threshold(pair, two) == IF two THEN pair[2].key ELSE pair[1].key
\* mutant: the layer that loses the first place is forgotten
PlaceForgetting(pair, p, two) ==
  IF p.key < pair[1].key THEN <<p, pair[2]>>
  ELSE IF two /\ p.key < pair[2].key THEN <<pair[1], p>> ELSE pair
Place(pair, p, two) ==
  IF p.key < pair[1].key THEN <<p, IF two THEN pair[1] ELSE pair[2]>>
  ELSE IF two /\ p.key < pair[2].key THEN <<pair[1], p>> ELSE pair

-----------------------------------------------------------------------------
(* Backgrounds.  A layer is a function from columns to colours or Clear. *)

BlocksWide(size) == IF size \in {1, 3} THEN 2 ELSE 1
BlocksHigh(size) == IF size \in {2, 3} THEN 2 ELSE 1

\* Walked a tile at a time: every column of a run reads the tile its first does.
RunStart(x, h) == IF x < 8 - (h % 8) THEN 0 ELSE x - ((x + h) % 8)
TextBgLine(s, bg, line) ==
  LET b    == s.bg[bg]
      bgy  == (line + b.v) % (256 * BlocksHigh(b.size))
      sby  == bgy \div 256
      ty   == (bgy % 256) \div 8
      py   == bgy % 8
  IN  [x \in Columns |->
         LET start == RunStart(x, b.h)
             bgx   == (start + b.h) % (256 * BlocksWide(b.size))
             sbx   == bgx \div 256
             sb    == CASE b.size = 0 -> 0 [] b.size = 1 -> sbx [] b.size = 2 -> sby
                        [] b.size = 3 -> sby * 2 + sbx
             map   == b.screen * 2048 + sb * 2048 + (ty * 32 + ((bgx % 256) \div 8)) * 2
             entry == At(map) + 256 * At(map + 1)
             tile  == entry % 1024
             tpy   == IF Bit(entry, 11) THEN 7 - py ELSE py
             bx    == (bgx % 8) + (x - start)
             px    == IF Bit(entry, 10) THEN 7 - bx ELSE bx
             idx   == IF b.deep THEN At(b.char * 16384 + tile * 64 + tpy * 8 + px)
                      ELSE Nibble(At(b.char * 16384 + tile * 32 + tpy * 4 + px \div 2), px)
         IN  IF idx = 0 THEN Clear
             ELSE Palette(IF b.deep THEN idx ELSE (entry \div 4096) * 16 + idx)]

\* The reference point is the first column's; PA and PC lead to the next.
AffineBgLine(s, bg, ref) ==
  LET b == s.bg[bg]
      side == 8 * 2^(4 + b.size)
  IN  [x \in Columns |->
         LET cx == (ref[1] + x * b.pa) \div 256
             cy == (ref[2] + x * b.pc) \div 256
             tx == IF b.wrap THEN cx % side ELSE cx
             ty == IF b.wrap THEN cy % side ELSE cy
             tile == At(b.screen * 2048 + (ty \div 8) * (side \div 8) + tx \div 8)
             idx == At(b.char * 16384 + tile * 64 + (ty % 8) * 8 + (tx % 8))
         IN  IF tx \notin 0..(side - 1) \/ ty \notin 0..(side - 1) THEN Clear
             ELSE IF idx = 0 THEN Clear ELSE Palette(idx)]

\* BG2 of the modes 3 to 5; the picture of mode 5 is smaller.
BitmapLine(s, ref) ==
  LET b == s.bg[2]
      w == IF s.mode = 5 THEN 160 ELSE 240
      h == IF s.mode = 5 THEN 128 ELSE 160
      frame == IF s.frame THEN 40960 ELSE 0
  IN  [x \in Columns |->
         LET tx == (ref[1] + x * b.pa) \div 256
             ty == (ref[2] + x * b.pc) \div 256
         IN  IF tx \notin 0..(w - 1) \/ ty \notin 0..(h - 1) THEN Clear
             ELSE CASE s.mode = 3 -> Direct((ty * w + tx) * 2)
                    [] s.mode = 4 -> Palette(Vram(frame + ty * w + tx))
                    [] s.mode = 5 -> Direct(frame + (ty * w + tx) * 2)]

-----------------------------------------------------------------------------
(* Objects *)

Sides == << <<8, 16, 32, 64>>, <<16, 32, 32, 64>>, <<8, 8, 16, 32>> >>
WidthOf(o)  == Sides[o.shape + 1][o.size + 1]
HeightOf(o) == Sides[IF o.shape = 0 THEN 1 ELSE 4 - o.shape][o.size + 1]
Disabled(o) == o.flag /\ ~o.affine     \* of an affine object the flag doubles the box
Drawable(o) == ~Disabled(o) /\ o.shape # 3

\* The colour index an object has at a column of a line; 0 is none.
ObjectIndex(s, o, line, x) ==
  LET w   == WidthOf(o)
      h   == HeightOf(o)
      bw  == IF o.affine /\ o.flag THEN 2 * w ELSE w
      bh  == IF o.affine /\ o.flag THEN 2 * h ELSE h
      r   == (line - o.y) % 256
      col == x - (IF o.x >= 256 THEN o.x - 512 ELSE o.x)
      ox  == col - bw \div 2
      oy  == r - bh \div 2
      tx  == IF o.affine THEN (o.matrix[1] * ox + o.matrix[2] * oy) \div 256 + w \div 2
             ELSE IF o.hflip THEN w - 1 - col ELSE col
      ty  == IF o.affine THEN (o.matrix[3] * ox + o.matrix[4] * oy) \div 256 + h \div 2
             ELSE IF o.vflip THEN h - 1 - r ELSE r
      unit == o.tile + (ty \div 8) * (IF s.oneDim THEN (w \div 8) * (IF o.deep THEN 2 ELSE 1) ELSE 32)
              + (tx \div 8) * (IF o.deep THEN 2 ELSE 1)
      base == 65536 + unit * 32
  IN  IF r >= bh \/ col \notin 0..(bw - 1) \/ tx \notin 0..(w - 1) \/ ty \notin 0..(h - 1) THEN 0
      ELSE IF o.deep THEN At(base + (ty % 8) * 8 + (tx % 8))
      ELSE Nibble(At(base + (ty % 8) * 4 + (tx % 8) \div 2), tx % 8)

ObjWindowCoverage(s, line) ==
  {x \in Columns : \E k \in DOMAIN s.oam :
     s.oam[k].kind = "window" /\ Drawable(s.oam[k]) /\ ObjectIndex(s, s.oam[k], line, x) # 0}
AnySemiObj(s) == \E k \in DOMAIN s.oam : ~Disabled(s.oam[k]) /\ s.oam[k].kind = "semi"

ObjectPixel(o, idx) ==
  [id |-> 4, key |-> Key(o.prio, 0), semi |-> o.kind = "semi",
   col |-> Palette(256 + IF o.deep THEN idx ELSE o.bank * 16 + idx)]

-----------------------------------------------------------------------------
(* A line *)

\* The layers a window leaves on: 0 to 3 the backgrounds, 4 the objects, 5 the effects.
Inside(range, n, limit) ==
  LET last == IF range[2] > limit \/ range[2] < range[1] THEN limit ELSE range[2]
  IN  n >= range[1] /\ n < last
\* Painted from the back: outside, the objects' window, window 1, window 0.
BuildWindowMask(s, line) ==
  LET cover == IF s.objwin THEN ObjWindowCoverage(s, line) ELSE {}
      Painted(mask, w) ==
        IF w \in s.win /\ Inside(s.winv[w], line, High)
        THEN [x \in Columns |-> IF Inside(s.winh[w], x, Wide) THEN s.winin[w] ELSE mask[x]] ELSE mask
  IN  IF s.win = {} /\ ~s.objwin THEN [x \in Columns |-> 0..5]
      ELSE FoldLeft(Painted, [x \in Columns |-> IF x \in cover THEN s.winobj ELSE s.winout], <<1, 0>>)

Text(s, bg)   == s.mode = 0 \/ (s.mode = 1 /\ bg < 2)
Affine(s, bg) == (s.mode = 1 /\ bg = 2) \/ (s.mode = 2 /\ bg >= 2)
LayerLine(s, ref, line, bg) == CASE s.mode \in 3..5 -> BitmapLine(s, ref[2])
                                 [] Affine(s, bg) -> AffineBgLine(s, bg, ref[bg])
                                 [] OTHER -> TextBgLine(s, bg, line)
\* Front to back.
LayerOrder(s) ==
  LET shown == IF s.mode \in 3..5 THEN s.on \cap {2} ELSE {bg \in s.on : Text(s, bg) \/ Affine(s, bg)}
  IN  SetToSortSeq(shown, LAMBDA a, b : Key(s.bg[a].prio, a) < Key(s.bg[b].prio, b))
LayerKey(s, bg) == Key(s.bg[bg].prio, IF s.mode \in 3..5 THEN 1 ELSE bg + 1)

Alpha(s, a, b) == [n \in 1..3 |-> LET v == (a[n] * s.eva + b[n] * s.evb) \div 16 IN IF v > 31 THEN 31 ELSE v]
Brighten(s, a) == [n \in 1..3 |-> a[n] + ((31 - a[n]) * s.evy) \div 16]
Darken(s, a)   == [n \in 1..3 |-> a[n] - (a[n] * s.evy) \div 16]

Effects(s, semiObj) == s.blend # 0 \/ semiObj
ResolvePixel(s, pair, mask) ==
  LET top    == pair[1]
      effect == 5 \in mask
      first  == effect /\ (top.semi \/ top.id \in s.first)
      over   == pair[2].id \in s.second
      mode   == IF top.semi /\ effect /\ over THEN 1 ELSE s.blend
  IN  CASE mode = 1 /\ first /\ over -> Alpha(s, top.col, pair[2].col)
        [] mode = 2 /\ first -> Brighten(s, top.col)
        [] mode = 3 /\ first -> Darken(s, top.col)
        [] OTHER -> top.col

RenderedRow(s, ref, line) ==
  LET mask == BuildWindowMask(s, line)
      two  == Effects(s, s.obj /\ AnySemiObj(s))
      Draw(comp, bg) ==
        LET layer == LayerLine(s, ref, line, bg)
            key   == LayerKey(s, bg)
        IN  [x \in Columns |->
               IF key >= Threshold(comp[x], two) \/ layer[x] = Clear \/ bg \notin mask[x] THEN comp[x]
               ELSE Place(comp[x], [id |-> bg, key |-> key, col |-> layer[x], semi |-> FALSE], two)]
      \* best is the priority of the object in front so far.
      DrawObject(c, o) ==
        IF ~Drawable(o) \/ o.kind \in {"window", "prohibited"} THEN c
        ELSE LET idx == [x \in Columns |-> ObjectIndex(s, o, line, x)]
                 Won(x) == idx[x] # 0 /\ o.prio < c.best[x]
             IN  [best |-> [x \in Columns |-> IF Won(x) THEN o.prio ELSE c.best[x]],
                  comp |-> [x \in Columns |-> IF Won(x) /\ 4 \in mask[x]
                                              THEN Place(c.comp[x], ObjectPixel(o, idx[x]), two)
                                              ELSE c.comp[x]]]
      grounds == FoldLeft(Draw, [x \in Columns |-> <<Backdrop, Backdrop>>], LayerOrder(s))
      all     == IF s.obj
                 THEN FoldLeft(DrawObject, [best |-> [x \in Columns |-> 255], comp |-> grounds], s.oam).comp
                 ELSE grounds
  IN  [x \in Columns |-> IF s.forced THEN <<31, 31, 31>>
                         ELSE IF two THEN ResolvePixel(s, all[x], mask[x]) ELSE all[x][1].col]

-----------------------------------------------------------------------------
(* Registers and lines *)

SignExtend28(v) == Signed(v % 2^28, 28)
\* BGxX and BGxY from their four halfwords.
ReloadBgRef(h) == <<SignExtend28(h[1] + 65536 * h[2]), SignExtend28(h[3] + 65536 * h[4])>>

LcdInit ==
  /\ scene \in Scenes
  /\ lcd = [line |-> Lines - 1, phase |-> "drawn", vblank |-> FALSE, hblank |-> FALSE, match |-> FALSE,
            vcount |-> 0, halves |-> scene.halves,
            ref |-> [bg \in Affines |-> ReloadBgRef(scene.halves[bg])]]
  /\ row = <<>> /\ loaded = [bg \in Affines |-> Lines] /\ writes = 0

NextLine == (lcd.line + 1) % Lines
\* mutant: the step along a line is taken between lines
Advanced28Along(bg, line, ref) ==
  IF line \in 1..LastDrawn THEN <<ref[1] + scene.bg[bg].pa, ref[2] + scene.bg[bg].pc>> ELSE ref
Advanced28(bg, line, ref) ==
  IF line \in 1..LastDrawn THEN <<ref[1] + scene.bg[bg].pb, ref[2] + scene.bg[bg].pd>> ELSE ref
BeginLine ==
  /\ lcd.phase = "drawn"
  /\ lcd' = [lcd EXCEPT !.line = NextLine, !.phase = "draw", !.hblank = FALSE,
                        !.vblank = NextLine >= High /\ NextLine # Lines - 1,
                        !.match = NextLine = lcd.vcount,
                        !.ref = [bg \in Affines |-> IF NextLine = 0 THEN ReloadBgRef(lcd.halves[bg])
                                                    ELSE Advanced28(bg, NextLine, lcd.ref[bg])]]
  /\ loaded' = IF NextLine = 0 THEN [bg \in Affines |-> 0] ELSE loaded
  /\ UNCHANGED <<scene, row, writes>>
EnterHblank ==
  /\ lcd.phase = "draw"
  /\ lcd' = [lcd EXCEPT !.phase = "hblank", !.hblank = TRUE]
  /\ UNCHANGED <<scene, row, loaded, writes>>
RenderLine ==
  /\ lcd.phase = "hblank"
  /\ lcd' = [lcd EXCEPT !.phase = "drawn"]
  /\ row' = IF lcd.line < High THEN RenderedRow(scene, lcd.ref, lcd.line) ELSE row
  /\ UNCHANGED <<scene, loaded, writes>>

Writing == lcd.phase # "drawn" /\ scene.moves /\ writes < MaxWrites /\ writes' = writes + 1
\* Any half of BGxX or BGxY reloads both.
WriteReference == \E bg \in Affines, k \in 1..4, v \in Halves :
  /\ Writing
  /\ lcd' = [lcd EXCEPT !.halves[bg][k] = v, !.ref[bg] = ReloadBgRef([lcd.halves[bg] EXCEPT ![k] = v])]
  /\ loaded' = [loaded EXCEPT ![bg] = lcd.line]
  /\ UNCHANGED <<scene, row>>
\* The status bits are read-only; the compare value is the rest.
WriteDispstat == \E v \in 0 .. Lines - 1 :
  /\ Writing
  /\ lcd' = [lcd EXCEPT !.vcount = v]
  /\ UNCHANGED <<scene, row, loaded>>

LcdNext == BeginLine \/ EnterHblank \/ RenderLine \/ WriteReference \/ WriteDispstat
PictureSpec == LcdInit /\ [][LcdNext]_lcdvars

-----------------------------------------------------------------------------
(* What a line must show *)

\* The pixels of every layer at a column, in no order.
TextIndex(b, line, x) ==
  LET X == (x + b.h) % (256 * BlocksWide(b.size))
      Y == (line + b.v) % (256 * BlocksHigh(b.size))
      block == X \div 256 + (Y \div 256) * BlocksWide(b.size)
      map   == (b.screen + block) * 2048 + 2 * (((Y % 256) \div 8) * 32 + ((X % 256) \div 8))
      entry == At(map) + 256 * At(map + 1)
      px    == IF Bit(entry, 10) THEN 7 - (X % 8) ELSE X % 8
      py    == IF Bit(entry, 11) THEN 7 - (Y % 8) ELSE Y % 8
      texel == py * 8 + px
  IN  IF b.deep THEN [idx |-> At(b.char * 16384 + (entry % 1024) * 64 + texel), bank |-> 0]
      ELSE [idx |-> Nibble(At(b.char * 16384 + (entry % 1024) * 32 + texel \div 2), texel),
            bank |-> entry \div 4096]
TextColour(b, line, x) == LET t == TextIndex(b, line, x)
                          IN  IF t.idx = 0 THEN Clear ELSE Palette(t.bank * 16 + t.idx)
Ground(s, ref, line, bg, x) ==
  IF s.mode \in 3..5 \/ Affine(s, bg) THEN LayerLine(s, ref, line, bg)[x] ELSE TextColour(s.bg[bg], line, x)
\* Objects hide those behind them that come later, whatever their priority; those
\* that come earlier are hidden only by a smaller priority.
InFront(s, line, x, k) ==
  LET Solid(j) == /\ Drawable(s.oam[j]) /\ s.oam[j].kind \in {"normal", "semi"}
                  /\ ObjectIndex(s, s.oam[j], line, x) # 0
  IN  Solid(k) /\ \A j \in 1..(k - 1) : Solid(j) => s.oam[k].prio < s.oam[j].prio
Visible(s, line, x) ==
  IF s.win = {} /\ ~s.objwin THEN 0..5
  ELSE IF 0 \in s.win /\ Inside(s.winh[0], x, Wide) /\ Inside(s.winv[0], line, High) THEN s.winin[0]
  ELSE IF 1 \in s.win /\ Inside(s.winh[1], x, Wide) /\ Inside(s.winv[1], line, High) THEN s.winin[1]
  ELSE IF s.objwin /\ x \in ObjWindowCoverage(s, line) THEN s.winobj ELSE s.winout
Pixels(s, ref, line, x) ==
  LET on == Visible(s, line, x)
  IN  {[id |-> bg, key |-> LayerKey(s, bg), col |-> Ground(s, ref, line, bg, x), semi |-> FALSE] :
         bg \in {b \in Range(LayerOrder(s)) \cap on : Ground(s, ref, line, b, x) # Clear}}
      \cup {ObjectPixel(s.oam[k], ObjectIndex(s, s.oam[k], line, x)) :
              k \in {j \in DOMAIN s.oam : s.obj /\ 4 \in on /\ InFront(s, line, x, j)}}
      \cup {Backdrop}
Frontmost(ps) == CHOOSE p \in ps : \A q \in ps : p.key <= q.key
\* The mix of the first two: alpha where the first is a target, or a translucent
\* object, and the second a target below it; else the fade of the first target.
Mixed(s, on, first, second) ==
  LET alpha == /\ second.id \in s.second
               /\ first.semi \/ (s.blend = 1 /\ first.id \in s.first)
      fade  == first.semi \/ first.id \in s.first
  IN  IF 5 \notin on THEN first.col
      ELSE IF alpha THEN Alpha(s, first.col, second.col)
      ELSE IF fade /\ s.blend = 2 THEN Brighten(s, first.col)
      ELSE IF fade /\ s.blend = 3 THEN Darken(s, first.col) ELSE first.col
PixelShown(s, ref, line, x) ==
  LET ps     == Pixels(s, ref, line, x)
      first  == Frontmost(ps)
      second == IF ps = {first} THEN Backdrop ELSE Frontmost(ps \ {first})
  IN  Mixed(s, Visible(s, line, x), first, second)

\* A drawn line shows at every pixel the two frontmost layers there, mixed as the
\* colour effects say, whatever order the layers were drawn in, what was pruned
\* because something stood in front, how the tiles were walked, in what order the
\* windows were painted, and in every mode: bitmaps mix as tiled backgrounds do
\* ("goes through the same path to prove it", ppu.rs 412-414).
LineShown ==
  lcd.phase = "drawn" /\ lcd.line < High /\ row # <<>> =>
    \A x \in Columns :
      row[x] = IF scene.forced THEN <<31, 31, 31>> ELSE PixelShown(scene, lcd.ref, lcd.line, x)

\* An affine background is drawn from the reference its registers hold, both
\* halves of both coordinates, moved by one step for every drawn line since the
\* reference was last loaded, at the top of the frame or by a write in the middle
\* of it; the V-blank moves nothing.
AffineFollows ==
  \A bg \in Affines :
    LET at == ReloadBgRef(lcd.halves[bg])
        upto == IF lcd.line < High THEN lcd.line ELSE LastDrawn
        n == IF loaded[bg] > upto THEN 0 ELSE upto - loaded[bg]
    IN  lcd.ref[bg] = <<at[1] + n * scene.bg[bg].pb, at[2] + n * scene.bg[bg].pd>>
=============================================================================
