------------------------------ MODULE MCCable ------------------------------
(* A session over the cable: its ends elect their roles, with sessions that   *)
(* start, stop and restart, or they have them and their games transfer words. *)
EXTENDS MCCableElection, MCCableTransfer

VARIABLE stage
cablevars == <<stage, sessionvars, vars>>

CableInit ==
  /\ stage \in {"electing", "transferring"}
  /\ ElectionInit /\ Init

Electing(A) == stage = "electing" /\ A /\ UNCHANGED <<stage, vars>>
Transferring(A) == stage = "transferring" /\ A /\ UNCHANGED <<stage, sessionvars>>
CableNext == Electing(ElectionNext) \/ Transferring(Next)

\* The elections are fair as FairElection is; of the transfers nothing has to happen here.
CableSpec == CableInit /\ [][CableNext]_cablevars
  /\ \A e \in End : WF_cablevars(Electing(Frame(e))) /\ WF_cablevars(Electing(Receive(e)))
  /\ WF_cablevars(Electing(Tick))
=============================================================================
