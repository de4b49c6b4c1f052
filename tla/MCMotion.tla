------------------------------ MODULE MCMotion ------------------------------
(* Model-checking instance of Motion: samples of two bits.                    *)
EXTENDS Motion

Centers == <<20, 30>>
GameStores == {{}, {1}, {0, 1}, {0, 1, 3}}
GameRates == {-1, 3}
=============================================================================
