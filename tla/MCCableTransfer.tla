-------------------------- MODULE MCCableTransfer --------------------------
(* Model-checking instances of CableTransfer.                              *)
EXTENDS CableTransfer
=============================================================================
