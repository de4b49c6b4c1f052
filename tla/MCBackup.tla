------------------------------ MODULE MCBackup ------------------------------
(* Model-checking instance of Backup: two sectors of four offsets, eight      *)
(* blocks of four bits.                                                       *)
EXTENDS Backup

GameWrites == {<<5, xAA>>, <<2, x55>>, <<4, x30>>, <<0, xF0>>, <<0, 1>>}
              \cup {<<5, c>> : c \in {x90, x80, xA0, xB0, x10}}
GameBlocks == {<<0, 1, 1, 0>>, <<1, 0, 1, 1>>}
=============================================================================
