----------------------------- MODULE MCRfuWords -----------------------------
(* Model-checking instance of RfuWords: a frame of two lines, as a word.     *)
EXTENDS RfuWords

GameCommands == {<<"sysver", 1>>, <<"syscfg", 1>>, <<"concompl", 0>>, <<"hoststart", 0>>,
                 <<"hoststop", 0>>, <<"connect", 1>>, <<"recv", 0>>, <<"wait", 0>>, <<"sendw", 2>>, <<"rtx", 0>>}
GameSettings == {<<"settings", 0, 1>>}
GameBlocks == {<< <<"block">> >>}
=============================================================================
