----------------------------- MODULE MCIdleLoop -----------------------------
(* Model-checking instance of IdleLoop, with the words of MCProcessor: the    *)
(* wait for a flag of idle.rs 6-16, a wait for a line, the search for the end *)
(* of a string that idle.rs 132-135 tells of, run again and again, a wait     *)
(* that stores as it waits, and one in ARM code.                              *)
EXTENDS IdleLoop, MCProcessor

LoadAt(rd, rb, imm)  == [op |-> "t9", load |-> TRUE, byte |-> FALSE, imm |-> imm, rb |-> rb, rd |-> rd]
StoreAt(rd, rb, imm) == [op |-> "t9", load |-> FALSE, byte |-> FALSE, imm |-> imm, rb |-> rb, rd |-> rd]
Move(alu, rd, v)   == [op |-> "t3", alu |-> alu, rd |-> rd, imm |-> v]
Plus(rd, rs, v)    == [op |-> "t2", imm |-> TRUE, sub |-> FALSE, operand |-> v, rs |-> rs, rd |-> rd]
BackTo(cond, n)      == [op |-> "t16", cond |-> cond, offset |-> Wrap(-2 * n - 4)]
Again(n)           == [op |-> "t18", offset |-> Wrap(-2 * n - 4)]

\* A routine's code from address 256.
Placed(code) == [a \in {254 + 2 * k : k \in DOMAIN code} |-> code[(a - 254) \div 2]]

MCRoutines == [
  wait   |-> Placed(<<LoadAt(1, 2, 0), Plus(0, 3, 0), [op |-> "t4", alu |-> "and", rd |-> 0, rs |-> 1],
                      Move("cmp", 0, 0), BackTo("Eq", 4), StoreAt(4, 2, 0), Again(6)>>),
  vcount |-> Placed(<<LoadAt(1, 2, 1), Move("cmp", 1, 1), BackTo("Ne", 2), Move("mov", 5, 1), Again(4)>>),
  scan   |-> Placed(<<Plus(0, 6, 0), [op |-> "t9", load |-> TRUE, byte |-> TRUE, imm |-> 0, rb |-> 0, rd |-> 1],
                      Plus(0, 0, 1), Move("cmp", 1, 0), BackTo("Ne", 3), Again(5)>>),
  once   |-> Placed(<<Plus(0, 7, 0), [op |-> "t9", load |-> TRUE, byte |-> TRUE, imm |-> 0, rb |-> 0, rd |-> 1],
                      Plus(0, 0, 1), Move("cmp", 1, 0), BackTo("Ne", 3), Plus(0, 7, 0), Again(6)>>),
  alarm  |-> Placed(<<LoadAt(1, 2, 0), StoreAt(3, 2, 2), Move("cmp", 1, 0), BackTo("Eq", 3), StoreAt(4, 2, 0), Again(5)>>),
  arm    |-> (256 :> BranchTo("Al", Wrap(-8)))]

\* The flag at 64, the line at 68, a string of one byte at 80 and none at 84.
Waiting(t) == [Machine([Usual EXCEPT !.t = t],
                       (0 :> 0) @@ (1 :> 0) @@ (2 :> 64) @@ (3 :> 1) @@ (4 :> 0) @@ (6 :> 80) @@ (7 :> 84))
               EXCEPT !.mem = [a \in MCRam |-> IF a = 80 THEN 1 ELSE 0]]
MCSpinners == [k \in DOMAIN MCRoutines |-> Waiting(k # "arm")]
=============================================================================
