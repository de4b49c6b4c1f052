---------------------------- MODULE MCRfuAdapter ----------------------------
(* Model-checking instance of RfuAdapter: a room and two guests, or one guest, *)
(* with a few commands each.                                                   *)
EXTENDS RfuAdapter, TLC

OneGuest == {"h", "a"}
TwoGuests == {"h", "a", "b"}
CommandsOfOne == "h" :> 3 @@ "a" :> 3
CommandsOfTwo == "h" :> 3 @@ "a" :> 2 @@ "b" :> 1
=============================================================================
