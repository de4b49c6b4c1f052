------------------------------- MODULE MCLink -------------------------------
(* What is plugged into the serial port: a cable, over which two games        *)
(* transfer words, or the wireless adapter, with which the game talks.        *)
EXTENDS MCCableTransfer, MCRfuWords

VARIABLE plugged
linkvars == <<plugged, vars, adaptervars>>

LinkInit ==
  /\ plugged \in {"cable", "adapter"}
  /\ Init /\ WordsInit

CableRuns == plugged = "cable" /\ Next /\ UNCHANGED <<plugged, adaptervars>>
AdapterRuns == plugged = "adapter" /\ WordsNext /\ UNCHANGED <<plugged, vars>>
LinkNext == CableRuns \/ AdapterRuns
LinkSpec == LinkInit /\ [][LinkNext]_linkvars
=============================================================================
