--------------------------- MODULE MCCablePacing ---------------------------
(* Model-checking instance of CablePacing.                                 *)
EXTENDS CablePacing
=============================================================================
