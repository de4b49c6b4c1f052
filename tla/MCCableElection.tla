-------------------------- MODULE MCCableElection --------------------------
(* Model-checking instance of CableElection.                               *)
EXTENDS CableElection
=============================================================================
