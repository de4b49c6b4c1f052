--------------------------- MODULE LinkExchange ---------------------------
(***************************************************************************)
(* What the link cable promises the two games: a Multi-Player transfer is  *)
(* an exchange of words.  The child answers each transfer once at most; a  *)
(* transfer that lands on the parent is one the child answered, and shows  *)
(* the parent the two words the child saw; the child's game runs it once   *)
(* at most, with the same two words.  Nothing promises that both games run *)
(* it: the parent may give up on a transfer its peer answered.             *)
(* CableTransfer is shown to implement this.                               *)
(***************************************************************************)
EXTENDS Naturals, Sequences

CONSTANT Words      \* what SIOMLT_SEND may hold

VARIABLES
  result,    \* what the parent's game was told of each transfer
  answered,  \* transfers the child answered: number, parent's and child's word
  ran        \* those its game ran

vars == <<result, answered, ran>>

Exchange == [n : 1..Len(result), pw : Words, cw : Words]

Init == result = <<>> /\ answered = {} /\ ran = {}

\* The parent's game starts a transfer, in place of any still running.
Begin ==
  /\ result' = Append(result, [kind |-> "begun", own |-> 0, peer |-> 0])
  /\ UNCHANGED <<answered, ran>>

Answer ==
  /\ UNCHANGED <<result, ran>>
  /\ \E t \in Exchange :
       /\ \A u \in answered : u.n # t.n
       /\ answered' = answered \cup {t}

\* Only the newest transfer can still be running.
Running == result # <<>> /\ result[Len(result)].kind = "begun"

Land ==
  /\ Running
  /\ UNCHANGED <<answered, ran>>
  /\ \E t \in answered :
       /\ t.n = Len(result)
       /\ result' = [result EXCEPT ![t.n] =
                       [kind |-> "landed", own |-> t.pw, peer |-> t.cw]]

Fail ==
  /\ Running
  /\ UNCHANGED <<answered, ran>>
  /\ \E kind \in {"late", "gone"}, word \in Words :
       result' = [result EXCEPT ![Len(result)] =
                    [kind |-> kind, own |-> word, peer |-> 0]]

Run ==
  /\ UNCHANGED <<result, answered>>
  /\ \E t \in answered \ ran : ran' = ran \cup {t}

Next == Begin \/ Answer \/ Land \/ Fail \/ Run

Spec == Init /\ [][Next]_vars
=============================================================================
