----------------------------- MODULE MCPicture -----------------------------
(* Model-checking instance of Picture: a screen of 12 by 3, frames of 5 lines. *)
EXTENDS Picture

\* Bytes and colours without a pattern a coordinate could hide in; every
\* third nibble of a tile is clear.
MCVram(o) == LET v == (o * 7 + (o \div 3) * 5 + o \div 64) % 251
             IN  IF o % 3 = 0 THEN 16 * (v \div 16) ELSE v
MCPalette(e) == <<(e * 7) % 32, (e * 3 + 11) % 32, (e * 13 + e \div 32) % 32>>

Bg(n) == [prio |-> n, deep |-> FALSE, size |-> 0, h |-> 3 * n, v |-> 5 * n, screen |-> 8 + n, char |-> 0,
          wrap |-> FALSE, pa |-> 256, pb |-> 0, pc |-> 0, pd |-> 256]
Obj == [y |-> 0, x |-> 2, shape |-> 0, size |-> 0, affine |-> FALSE, flag |-> FALSE, kind |-> "normal",
        prio |-> 1, tile |-> 5, deep |-> FALSE, bank |-> 2, hflip |-> FALSE, vflip |-> FALSE,
        matrix |-> <<256, 0, 0, 256>>]
Plain == [mode |-> 0, forced |-> FALSE, on |-> 0..3, obj |-> FALSE, frame |-> FALSE, oneDim |-> FALSE,
          win |-> {}, objwin |-> FALSE, winh |-> [w \in 0..1 |-> <<3 + 2 * w, 7 + 3 * w>>],
          winv |-> [w \in 0..1 |-> <<w, 2 + w>>], winin |-> [w \in 0..1 |-> IF w = 0 THEN {0, 4, 5} ELSE {1, 2}],
          winout |-> {2, 3, 4}, winobj |-> {1, 3, 5}, blend |-> 0, first |-> {0, 2}, second |-> {1, 3, 4, 5},
          eva |-> 11, evb |-> 9, evy |-> 6, oam |-> <<>>, bg |-> [n \in 0..3 |-> Bg(n)],
          halves |-> [b \in Affines |-> <<300 + b, 0, 65100 + b, 4095>>], moves |-> FALSE]

Grounds == {[Plain EXCEPT !.bg[0].h = h, !.bg[0].v = v, !.bg[0].size = z, !.bg[0].deep = d] :
              h \in {0, 250, 506}, v \in {254, 510}, z \in 0..3, d \in BOOLEAN}
Mixes == {[Plain EXCEPT !.blend = b, !.bg[0].prio = p, !.on = o, !.mode = md, !.obj = TRUE, !.oam = <<ob>>] :
            b \in 0..3, p \in {0, 3}, o \in {{}, {2}, 0..3}, md \in {0, 1},
            ob \in {Obj, [Obj EXCEPT !.kind = "semi"]}}
Windows == {[Plain EXCEPT !.win = w, !.objwin = ow, !.blend = b, !.winh[0] = h, !.obj = TRUE,
                          !.oam = <<Obj, [Obj EXCEPT !.kind = "window", !.tile = 9, !.x = 6, !.flag = f]>>] :
              w \in SUBSET (0..1), ow \in BOOLEAN, b \in {1, 2}, h \in {<<3, 7>>, <<8, 2>>, <<4, 255>>}, f \in BOOLEAN}
Affined == {[Plain EXCEPT !.mode = md, !.on = {2, 3}, !.bg[2].wrap = w, !.bg[2].size = z, !.bg[2].pa = a,
                          !.bg[2].pc = c, !.bg[2].pb = 60, !.blend = 1, !.first = {2}, !.second = {3, 5}] :
              md \in {1, 2}, w \in BOOLEAN, z \in 0..3, a \in {256, -300}, c \in {0, 90}}
Bitmaps == {[Plain EXCEPT !.mode = md, !.on = o, !.frame = f, !.obj = TRUE, !.blend = b, !.bg[2].pa = a,
                          !.bg[2].pc = 30, !.first = {2}, !.oam = <<Obj>>, !.halves[2] = <<0, 0, 256, 0>>] :
              md \in {3, 4, 5}, o \in {{}, {2}}, f \in BOOLEAN, b \in {0, 1, 3}, a \in {256, -128}}
Crowds == {[Plain EXCEPT !.on = {3}, !.obj = TRUE, !.oneDim = d, !.blend = 1, !.first = {4}, !.second = {3, 5},
                         !.oam = <<[Obj EXCEPT !.prio = p], [Obj EXCEPT !.prio = q, !.x = 508, !.tile = 40, !.size = 1,
                                                                        !.shape = s, !.kind = k],
                                   [Obj EXCEPT !.x = 4, !.y = 254, !.affine = TRUE, !.flag = g, !.deep = TRUE,
                                               !.matrix = <<200, 60, 320, 256>>]>>] :
             d \in BOOLEAN, p \in {0, 2}, q \in {0, 3}, s \in 0..3, k \in {"normal", "semi", "prohibited"}, g \in BOOLEAN}
Flips == {[Plain EXCEPT !.on = {}, !.obj = TRUE, !.oam = <<[Obj EXCEPT !.hflip = h, !.vflip = v, !.deep = d, !.flag = f]>>] :
            h \in BOOLEAN, v \in BOOLEAN, d \in BOOLEAN, f \in BOOLEAN}
Moving == {[Plain EXCEPT !.mode = 2, !.on = {2}, !.moves = TRUE, !.bg[2].pb = 70, !.bg[2].pd = 200, !.bg[3].pb = -9]}
MCScenes == Grounds \cup Mixes \cup Windows \cup Affined \cup Bitmaps \cup Crowds \cup Flips \cup Moving
            \cup {[Plain EXCEPT !.forced = TRUE], [Plain EXCEPT !.mode = 6]}
=============================================================================
