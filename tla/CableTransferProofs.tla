------------------------ MODULE CableTransferProofs ------------------------
(***************************************************************************)
(* What is proved of CableTransfer for every bound, queue length, window   *)
(* and sequence modulus: type correctness, and that no transfer lands on   *)
(* the parent with a word the child did not answer it with; then the       *)
(* promise of the link cable: each clock is answered once, the child's     *)
(* game is given each exchange once and in order, nothing survives a       *)
(* flush, an offset between the two streams is counted, and the protocol   *)
(* implements LinkExchange.                                                *)
(***************************************************************************)
EXTENDS CableTransfer, SequenceTheorems, TLAPS

-----------------------------------------------------------------------------
(* Sequences                                                               *)

\* A packet delivered from anywhere in a channel leaves a channel.
LEMMA WithoutType ==
  ASSUME NEW S, NEW s \in Seq(S), NEW i \in 1..Len(s)
  PROVE  Without(s, i) \in Seq(S)
  BY DEF Without

\* What is left was there before.
LEMMA WithoutElements ==
  ASSUME NEW S, NEW s \in Seq(S), NEW i \in 1..Len(s), NEW t, t = Without(s, i)
  PROVE  \A j \in 1..Len(t) : \E k \in 1..Len(s) : t[j] = s[k]
<1>1. Len(t) = Len(s) - 1 /\ Len(s) \in Nat BY LenProperties DEF Without
<1>2. \A j \in 1..Len(t) : t[j] = s[j] \/ t[j] = s[j + 1]
  BY <1>1 DEF Without
<1> QED BY <1>1, <1>2

LEMMA AppendType ==
  ASSUME NEW S, NEW s \in Seq(S), NEW e \in S
  PROVE  /\ Append(s, e) \in Seq(S)
         /\ Len(Append(s, e)) = Len(s) + 1
         /\ \A j \in 1..Len(s) : Append(s, e)[j] = s[j]
         /\ Append(s, e)[Len(s) + 1] = e
  BY AppendProperties

-----------------------------------------------------------------------------
(* Type correctness                                                        *)

\* A core blocked in parent_result found the circuit closed, and one timeout
\* is all it can add: this is what keeps the failure count in its type.
BlockedUnderLimit == phase = "waiting" => failures < OpenAfter
TypeInv == TypeOK /\ BlockedUnderLimit

LEMMA TypeInit == Init => TypeInv
<1> SUFFICES ASSUME Init PROVE TypeInv OBVIOUS
<1> USE DEF Init
<1>1. /\ pOut \in Nat /\ phase \in Phase /\ awaiting \in Nat /\ pendingOut \in Nat
      /\ reply \in Nat \cup {NoWord}
      /\ mode \in {"multi", "parked"} /\ parks \in Nat /\ own \in Nat
  BY DEF Absent, Phase
<1>2. failures \in 0..OpenAfter /\ BlockedUnderLimit
  BY CableAssumption DEF BlockedUnderLimit
<1>3. armed \in BOOLEAN /\ onBus \in BOOLEAN /\ shifted \in BOOLEAN /\ cold \in BOOLEAN
  BY Zenon
<1>4. deferred \in Transfer /\ words \in Transfer
  BY DEF NoTransfer, Transfer
<1>5. /\ outcome \in Seq(Outcome) /\ queue \in Seq(Transfer)
      /\ answers \in Seq(Answer) /\ delivered \in Seq(Transfer)
      /\ p2c \in Seq([tag : {"clock", "gaveup"}, n : Nat, word : Nat])
      /\ c2p \in Seq([n : Nat, word : Nat]) /\ flushed \subseteq Nat
  BY EmptySeq
<1> QED BY <1>1, <1>2, <1>3, <1>4, <1>5 DEF TypeInv, TypeOK

LEMMA ConcludeType ==
  ASSUME TypeOK, NEW kind \in {"landed", "late", "gone"},
         NEW o \in Nat, NEW p \in Nat, Conclude(kind, o, p)
  PROVE  outcome' \in Seq(Outcome)
<1> DEFINE e == [kind |-> kind, own |-> o, peer |-> p]
<1>1. outcome \in Seq(Outcome) /\ e \in Outcome
  BY DEF TypeOK, Outcome
<1>2. outcome' = [outcome EXCEPT ![awaiting] = e]
  BY DEF Conclude
<1> HIDE DEF e
<1>3. CASE awaiting \in 1..Len(outcome)
  BY <1>1, <1>2, <1>3, ExceptSeq
<1>4. CASE awaiting \notin 1..Len(outcome)
  BY <1>1, <1>2, <1>4, LenProperties
<1> QED BY <1>3, <1>4

LEMMA ParentType ==
  ASSUME TypeInv, ParentNext
  PROVE  TypeInv'
<1> USE CableAssumption DEF TypeInv, TypeOK, BlockedUnderLimit, childVars, Phase
<1>1. CASE ParentStore
  BY <1>1, LenProperties DEF ParentStore, Begun
<1>2. CASE ParentStart
  <2>1. Begun \in Nat BY LenProperties DEF Begun
  <2>2. outcome' \in Seq(Outcome)
    BY <1>2, AppendType DEF ParentStart, BeginExchange, Outcome
  <2>3. p2c' \in Seq([tag : {"clock", "gaveup"}, n : Nat, word : Nat])
    BY <1>2, <2>1, AppendType DEF ParentStart, BeginExchange, Clock
  <2> QED BY <1>2, <2>1, <2>2, <2>3 DEF ParentStart, BeginExchange, NoWord
<1>3. CASE ParentCollect
  BY <1>3 DEF ParentCollect
<1>4. CASE ParentOpenCircuit
  <2>1. outcome' \in Seq(Outcome)
    BY <1>4, ConcludeType DEF ParentOpenCircuit, Absent
  <2>2. p2c' \in Seq([tag : {"clock", "gaveup"}, n : Nat, word : Nat])
    BY <1>4, AppendType DEF ParentOpenCircuit, Abandon, GaveUp
  <2> QED BY <1>4, <2>1, <2>2 DEF ParentOpenCircuit, Abandon, NoWord
<1>5. CASE ParentLand
  <2>1. outcome' \in Seq(Outcome)
    BY <1>5, ConcludeType DEF ParentLand, NoWord
  <2> QED BY <1>5, <2>1 DEF ParentLand, NoWord
<1>6. CASE ParentRetry
  <2>1. p2c' \in Seq([tag : {"clock", "gaveup"}, n : Nat, word : Nat])
    BY <1>6, AppendType DEF ParentRetry, Clock
  <2> QED BY <1>6, <2>1 DEF ParentRetry, parentVars
<1>7. CASE ParentTimeout
  <2>1. outcome' \in Seq(Outcome)
    BY <1>7, ConcludeType DEF ParentTimeout, Absent
  <2>2. p2c' \in Seq([tag : {"clock", "gaveup"}, n : Nat, word : Nat])
    BY <1>7, AppendType DEF ParentTimeout, Abandon, GaveUp
  <2> QED BY <1>7, <2>1, <2>2 DEF ParentTimeout, Abandon, NoWord
<1>8. CASE ParentSelectMulti
  BY <1>8 DEF ParentSelectMulti, NoWord
<1>9. CASE ParentReceive
  <2> PICK i \in 1..Len(c2p) :
        /\ c2p' = Without(c2p, i)
        /\ failures' = 0
        /\ reply' \in {c2p[i].word, reply}
        /\ UNCHANGED <<pOut, phase, awaiting, pendingOut, outcome, childVars, p2c>>
    BY <1>9 DEF ParentReceive, Deliverable
  <2>1. c2p' \in Seq([n : Nat, word : Nat]) BY WithoutType
  <2>2. c2p[i] \in [n : Nat, word : Nat] BY ElementOfSeq
  <2>3. reply' \in Nat \cup {NoWord} BY <2>2
  <2>4. failures' \in 0..OpenAfter /\ BlockedUnderLimit' BY <2>1
  <2> QED BY <2>1, <2>3, <2>4
<1>10. CASE ParentHearsPeer
  BY <1>10 DEF ParentHearsPeer
<1> QED BY <1>1, <1>2, <1>3, <1>4, <1>5, <1>6, <1>7, <1>8, <1>9, <1>10
     DEF ParentNext

LEMMA PushedType ==
  ASSUME TypeOK, NEW t \in Transfer
  PROVE  Pushed(t) \in Seq(Transfer)
<1>1. queue \in Seq(Transfer) BY DEF TypeOK
<1>2. Kept \in Seq(Transfer)
  <2>1. CASE Len(queue) >= QueueMax
    <3>1. queue # <<>> BY <2>1, CableAssumption, EmptySeq
    <3> QED BY <1>1, <2>1, <3>1, HeadTailProperties DEF Kept
  <2>2. CASE ~(Len(queue) >= QueueMax)
    BY <1>1, <2>2 DEF Kept
  <2> QED BY <2>1, <2>2
<1> QED BY <1>2, AppendType DEF Pushed

\* What accepting a clock does to the variables it writes.
LEMMA AcceptType ==
  ASSUME TypeOK, NEW t \in Transfer, NEW word \in Nat,
         NEW isArmed \in BOOLEAN, NEW held \in BOOLEAN,
         Accept(t, word, isArmed, held)
  PROVE  /\ c2p' \in Seq([n : Nat, word : Nat])
         /\ answers' \in Seq(Answer)
         /\ cold' \in BOOLEAN /\ armed' \in BOOLEAN
         /\ queue' \in Seq(Transfer)
<1> DEFINE cw == IF onBus THEN word ELSE Absent
           a  == [n |-> t.n, pw |-> t.pw, cw |-> cw, bus |-> onBus, held |-> held]
           q  == [n |-> t.n, pw |-> t.pw, cw |-> cw]
<1>1. t.n \in Nat /\ t.pw \in Nat BY DEF Transfer
<1>2. cw \in Nat BY DEF Absent
<1>3. onBus \in BOOLEAN BY DEF TypeOK
<1>4. a \in Answer BY <1>1, <1>2, <1>3 DEF Answer
<1>5. q \in Transfer BY <1>1, <1>2 DEF Transfer
<1>6. Reply(t.n, cw) \in [n : Nat, word : Nat] BY <1>1, <1>2 DEF Reply
<1>7. /\ c2p' = Append(c2p, Reply(t.n, cw))
      /\ answers' = Append(answers, a)
      /\ cold' = (cold \/ Cold(isArmed))
      /\ armed' = (isArmed /\ ~onBus)
      /\ queue' = IF onBus THEN Pushed(q) ELSE queue
  BY DEF Accept
<1>8. cold' \in BOOLEAN /\ armed' \in BOOLEAN
  BY <1>7, Zenon
<1> HIDE DEF a, q, cw
<1>9. c2p' \in Seq([n : Nat, word : Nat])
  BY <1>6, <1>7, AppendType DEF TypeOK
<1>10. answers' \in Seq(Answer)
  BY <1>4, <1>7, AppendType DEF TypeOK
<1>11. queue' \in Seq(Transfer)
  BY <1>5, <1>7, PushedType DEF TypeOK
<1> QED BY <1>8, <1>9, <1>10, <1>11

LEMMA ClockType ==
  ASSUME TypeOK, NEW i \in Deliverable(p2c),
         \/ ClockSeen(p2c[i]) \/ ClockHeld(p2c[i])
         \/ ClockAlreadyHeld(p2c[i]) \/ ClockAccepted(p2c[i])
  PROVE  /\ c2p' \in Seq([n : Nat, word : Nat])
         /\ answers' \in Seq(Answer)
         /\ cold' \in BOOLEAN /\ armed' \in BOOLEAN
         /\ queue' \in Seq(Transfer) /\ deferred' \in Transfer
<1> DEFINE p == p2c[i]
<1>1. i \in 1..Len(p2c) BY DEF Deliverable
<1>2. p \in [tag : {"clock", "gaveup"}, n : Nat, word : Nat]
  BY <1>1, ElementOfSeq DEF TypeOK
<1>3. p.n \in Nat /\ p.word \in Nat BY <1>2
<1> HIDE DEF p
<1>4. CASE ClockSeen(p)
  <2>1. CASE SeenBefore(p.n) /\ c2p' = Append(c2p, Reply(LastReply.n, LastReply.cw))
    <3>1. answers # <<>>
      BY <2>1, EmptySeq DEF SeenBefore, SeenEntries
    <3>2. Len(answers) \in 1..Len(answers)
      BY <3>1, EmptySeq, LenProperties DEF TypeOK
    <3>3. LastReply \in Answer
      BY <3>2, ElementOfSeq DEF TypeOK, LastReply
    <3>4. Reply(LastReply.n, LastReply.cw) \in [n : Nat, word : Nat]
      BY <3>3 DEF Answer, Reply
    <3>5. c2p' \in Seq([n : Nat, word : Nat])
      BY <2>1, <3>4, AppendType DEF TypeOK
    <3> QED BY <1>4, <3>5 DEF ClockSeen, TypeOK
  <2>2. CASE UNCHANGED c2p
    BY <1>4, <2>2 DEF ClockSeen, TypeOK
  <2> QED BY <1>4, <2>1, <2>2 DEF ClockSeen
<1>5. CASE ClockHeld(p)
  BY <1>3, <1>5 DEF ClockHeld, Transfer, TypeOK
<1>6. CASE ClockAlreadyHeld(p)
  BY <1>6 DEF ClockAlreadyHeld, TypeOK
<1>7. CASE ClockAccepted(p)
  <2>1. [n |-> p.n, pw |-> p.word, cw |-> 0] \in Transfer
    BY <1>3 DEF Transfer
  <2>2. own \in Nat /\ armed \in BOOLEAN /\ FALSE \in BOOLEAN
    BY DEF TypeOK
  <2>3. Accept([n |-> p.n, pw |-> p.word, cw |-> 0], own, armed, FALSE)
    BY <1>7 DEF ClockAccepted
  <2> QED BY <1>7, <2>1, <2>2, <2>3, AcceptType DEF ClockAccepted, TypeOK
<1> QED BY <1>4, <1>5, <1>6, <1>7 DEF p

LEMMA GaveUpType ==
  ASSUME TypeOK, NEW i \in Deliverable(p2c),
         IF \E j \in 1..Len(queue) : SameSeq(queue[j].n, p2c[i].n)
         THEN TakeBack(p2c[i].n) /\ UNCHANGED shifted
         ELSE /\ shifted' = (shifted \/ (LastAccepted # 0
                                         /\ AtOrPast(LastAccepted, p2c[i].n)))
              /\ UNCHANGED queue
  PROVE  queue' \in Seq(Transfer) /\ shifted' \in BOOLEAN
<1>1. CASE TakeBack(p2c[i].n) /\ UNCHANGED shifted
  <2>0. PICK k \in 0..Len(queue) : \E f \in [1..k -> 1..Len(queue)] :
          queue' = [j \in 1..k |-> queue[f[j]]]
    BY <1>1 DEF TakeBack
  <2>1. PICK f \in [1..k -> 1..Len(queue)] :
          queue' = [j \in 1..k |-> queue[f[j]]]
    BY <2>0
  <2>2. queue \in Seq(Transfer) /\ Len(queue) \in Nat
    BY LenProperties DEF TypeOK
  <2>3. \A j \in 1..k : queue[f[j]] \in Transfer
    BY <2>2, ElementOfSeq
  <2> HIDE DEF Transfer
  <2>4. queue' \in Seq(Transfer)
    BY <2>1, <2>2, <2>3
  <2> QED BY <1>1, <2>4 DEF TypeOK
<1>2. CASE /\ shifted' = (shifted \/ (LastAccepted # 0
                                         /\ AtOrPast(LastAccepted, p2c[i].n)))
           /\ UNCHANGED queue
  <2>1. shifted' \in BOOLEAN BY <1>2, Zenon
  <2> QED BY <1>2, <2>1 DEF TypeOK
<1> QED BY <1>1, <1>2

LEMMA StepType ==
  ASSUME TypeOK, ChildStep
  PROVE  /\ queue' \in Seq(Transfer) /\ words' \in Transfer
         /\ delivered' \in Seq(Transfer) /\ onBus' \in BOOLEAN
<1>1. PICK lands \in BOOLEAN, takes \in BOOLEAN, free \in BOOLEAN :
        /\ takes => queue # <<>>
        /\ delivered' = IF lands THEN Append(delivered, words) ELSE delivered
        /\ onBus' = (mode = "multi")
        /\ words' = IF takes THEN Head(queue)
                    ELSE IF free THEN NoTransfer ELSE words
        /\ queue' = IF takes THEN Tail(queue) ELSE queue
  <2>1. PICK finished \in {TRUE, FALSE} :
          LET lands == finished /\ words # NoTransfer
              free  == lands \/ words = NoTransfer
              takes == free /\ mode = "multi" /\ queue # <<>>
          IN  /\ delivered' = IF lands THEN Append(delivered, words) ELSE delivered
              /\ onBus' = (mode = "multi")
              /\ words' = IF takes THEN Head(queue)
                          ELSE IF free THEN NoTransfer ELSE words
              /\ queue' = IF takes THEN Tail(queue) ELSE queue
    BY DEF ChildStep
  <2> DEFINE lands == finished /\ words # NoTransfer
             free  == lands \/ words = NoTransfer
             takes == free /\ mode = "multi" /\ queue # <<>>
  <2>2. lands \in BOOLEAN /\ takes \in BOOLEAN /\ free \in BOOLEAN
    BY Zenon
  <2>3. takes => queue # <<>> OBVIOUS
  <2>4. /\ delivered' = IF lands THEN Append(delivered, words) ELSE delivered
        /\ onBus' = (mode = "multi")
        /\ words' = IF takes THEN Head(queue)
                    ELSE IF free THEN NoTransfer ELSE words
        /\ queue' = IF takes THEN Tail(queue) ELSE queue
    BY <2>1
  <2> HIDE DEF lands, takes, free
  <2> QED BY <2>2, <2>3, <2>4, Zenon
<1>2. onBus' \in BOOLEAN BY <1>1, Zenon
<1>3. NoTransfer \in Transfer BY DEF NoTransfer, Transfer
<1>4. delivered' \in Seq(Transfer) BY <1>1, AppendType DEF TypeOK
<1>5. words' \in Transfer BY <1>1, <1>3, HeadTailProperties DEF TypeOK
<1>6. queue' \in Seq(Transfer) BY <1>1, HeadTailProperties DEF TypeOK
<1> QED BY <1>2, <1>4, <1>5, <1>6

LEMMA ChildType ==
  ASSUME TypeInv, ChildNext
  PROVE  TypeInv'
<1> SUFFICES ASSUME UNCHANGED parentVars PROVE TypeOK'
  <2>1. UNCHANGED parentVars
    BY DEF ChildNext, ChildStore, DeferralExpires, ChildClocked, ChildToldGaveUp,
       ChildStep, ChildPark, ChildUnpark, ChildSelectMulti, parentVars
  <2> QED BY <2>1 DEF parentVars, TypeInv, BlockedUnderLimit
<1>0. TypeOK BY DEF TypeInv
<1>1. NoTransfer \in Transfer BY DEF NoTransfer, Transfer
<1>2. CASE ChildStore
  <2>1. own' \in Nat /\ own + 1 \in Nat
    BY <1>0, <1>2 DEF ChildStore, TypeOK
  <2>2. CASE deferred = NoTransfer
    <3>1. armed' \in BOOLEAN BY <1>2, <2>2, Zenon DEF ChildStore
    <3> QED BY <1>0, <1>1, <1>2, <2>1, <2>2, <3>1 DEF ChildStore, TypeOK, parentVars
  <2>3. CASE deferred # NoTransfer
    <3>1. Accept(deferred, own + 1, TRUE, TRUE) /\ deferred \in Transfer
      BY <1>0, <1>2, <2>3 DEF ChildStore, TypeOK
    <3>2. TRUE \in BOOLEAN OBVIOUS
    <3>3. /\ c2p' \in Seq([n : Nat, word : Nat]) /\ answers' \in Seq(Answer)
          /\ cold' \in BOOLEAN /\ armed' \in BOOLEAN /\ queue' \in Seq(Transfer)
      BY <1>0, <2>1, <3>1, <3>2, AcceptType
    <3> QED BY <1>0, <1>1, <1>2, <2>1, <3>3 DEF ChildStore, TypeOK, parentVars
  <2> QED BY <2>2, <2>3
<1>3. CASE DeferralExpires
  <2>1. /\ Accept(deferred, own, armed, TRUE) /\ deferred \in Transfer
        /\ own \in Nat /\ armed \in BOOLEAN /\ TRUE \in BOOLEAN
    BY <1>0, <1>3 DEF DeferralExpires, TypeOK
  <2>2. /\ c2p' \in Seq([n : Nat, word : Nat]) /\ answers' \in Seq(Answer)
        /\ cold' \in BOOLEAN /\ armed' \in BOOLEAN /\ queue' \in Seq(Transfer)
    BY <1>0, <2>1, AcceptType
  <2> QED BY <1>0, <1>1, <1>3, <2>2 DEF DeferralExpires, TypeOK, parentVars
<1>4. CASE ChildClocked
  <2> PICK i \in Deliverable(p2c) :
        /\ \/ ClockSeen(p2c[i]) \/ ClockHeld(p2c[i])
           \/ ClockAlreadyHeld(p2c[i]) \/ ClockAccepted(p2c[i])
        /\ p2c' = Without(p2c, i)
        /\ UNCHANGED <<mode, parks, own, onBus, words, shifted, delivered, flushed>>
    BY <1>4 DEF ChildClocked
  <2>1. /\ c2p' \in Seq([n : Nat, word : Nat]) /\ answers' \in Seq(Answer)
        /\ cold' \in BOOLEAN /\ armed' \in BOOLEAN
        /\ queue' \in Seq(Transfer) /\ deferred' \in Transfer
    BY <1>0, ClockType
  <2>2. p2c' \in Seq([tag : {"clock", "gaveup"}, n : Nat, word : Nat])
    BY <1>0, WithoutType DEF TypeOK, Deliverable
  <2> QED BY <1>0, <2>1, <2>2 DEF TypeOK, parentVars
<1>5. CASE ChildToldGaveUp
  <2> PICK i \in Deliverable(p2c) :
        /\ IF \E j \in 1..Len(queue) : SameSeq(queue[j].n, p2c[i].n)
           THEN TakeBack(p2c[i].n) /\ UNCHANGED shifted
           ELSE /\ shifted' = (shifted \/ (LastAccepted # 0
                                           /\ AtOrPast(LastAccepted, p2c[i].n)))
                /\ UNCHANGED queue
        /\ p2c' = Without(p2c, i)
        /\ UNCHANGED <<mode, parks, own, armed, onBus, deferred, words, cold,
                       answers, delivered, flushed, c2p>>
    BY <1>5 DEF ChildToldGaveUp
  <2>1. queue' \in Seq(Transfer) /\ shifted' \in BOOLEAN BY <1>0, GaveUpType
  <2>2. p2c' \in Seq([tag : {"clock", "gaveup"}, n : Nat, word : Nat])
    BY <1>0, WithoutType DEF TypeOK, Deliverable
  <2> QED BY <1>0, <2>1, <2>2 DEF TypeOK, parentVars
<1>6. CASE ChildStep
  <2>1. /\ queue' \in Seq(Transfer) /\ words' \in Transfer
        /\ delivered' \in Seq(Transfer) /\ onBus' \in BOOLEAN
    BY <1>0, <1>6, StepType
  <2> QED BY <1>0, <1>6, <2>1 DEF ChildStep, TypeOK, parentVars
<1>7. CASE ChildPark
  BY <1>0, <1>7 DEF ChildPark, TypeOK, parentVars
<1>8. CASE ChildUnpark
  BY <1>0, <1>8 DEF ChildUnpark, TypeOK, parentVars
<1>9. CASE ChildSelectMulti
  <2>1. queue' \in Seq(Transfer) /\ words' \in Transfer
    BY <1>1, <1>9, EmptySeq DEF ChildSelectMulti
  <2>2. flushed' \subseteq Nat
    <3>1. \A i \in 1..Len(queue) : queue[i].n \in Nat
      <4>1. \A i \in 1..Len(queue) : queue[i] \in Transfer
        BY <1>0, ElementOfSeq DEF TypeOK
      <4> QED BY <4>1 DEF Transfer
    <3>2. words.n \in Nat /\ deferred.n \in Nat
      BY <1>0 DEF TypeOK, Transfer
    <3> QED BY <1>0, <1>9, <3>1, <3>2 DEF ChildSelectMulti, TypeOK
  <2> QED BY <1>0, <1>9, <2>1, <2>2 DEF ChildSelectMulti, TypeOK, parentVars
<1> QED BY <1>2, <1>3, <1>4, <1>5, <1>6, <1>7, <1>8, <1>9 DEF ChildNext

LEMMA LoseType ==
  ASSUME TypeInv, Lose
  PROVE  TypeInv'
<1> USE DEF TypeInv, BlockedUnderLimit, parentVars, childVars
<1>1. CASE \E i \in 1..Len(p2c) : p2c' = Without(p2c, i) /\ UNCHANGED c2p
  <2>1. p2c' \in Seq([tag : {"clock", "gaveup"}, n : Nat, word : Nat])
    BY <1>1, WithoutType DEF TypeOK
  <2> QED BY <1>1, <2>1 DEF Lose, TypeOK
<1>2. CASE \E i \in 1..Len(c2p) : c2p' = Without(c2p, i) /\ UNCHANGED p2c
  <2>1. c2p' \in Seq([n : Nat, word : Nat])
    BY <1>2, WithoutType DEF TypeOK
  <2> QED BY <1>2, <2>1 DEF Lose, TypeOK
<1> QED BY <1>1, <1>2 DEF Lose

LEMMA TypeNext ==
  ASSUME TypeInv, [Next]_vars
  PROVE  TypeInv'
<1>1. CASE ParentNext BY <1>1, ParentType
<1>2. CASE ChildNext BY <1>2, ChildType
<1>3. CASE Lose BY <1>3, LoseType
<1>4. CASE UNCHANGED vars
  <2>1. UNCHANGED parentVars /\ UNCHANGED childVars /\ UNCHANGED <<p2c, c2p>>
    BY <1>4 DEF vars
  <2> QED BY <2>1 DEF parentVars, childVars, TypeInv, TypeOK, BlockedUnderLimit
<1> QED BY <1>1, <1>2, <1>3, <1>4 DEF Next

\* Type correctness: whatever the window, the queue length, the modulus and the
\* transport do, every variable of the protocol keeps its type.
THEOREM TypeCorrect == Spec => []TypeOK
<1>1. TypeInv /\ [Next]_vars => TypeInv' BY TypeNext
<1>2. TypeInv => TypeOK BY DEF TypeInv
<1> QED BY TypeInit, <1>1, <1>2, PTL DEF Spec

-----------------------------------------------------------------------------
(* Sequence numbers                                                        *)

LEMMA DivMod ==
  ASSUME NEW M \in Nat, M >= 2, NEW a \in Nat
  PROVE /\ a \div M \in Int
        /\ a % M \in Int
        /\ a = M * (a \div M) + (a % M)
  OBVIOUS

\* Two numbers less than one turn apart that agree modulo the turn are one.
LEMMA ModUnique ==
  ASSUME NEW M \in Nat, M >= 2, NEW a \in Nat, NEW b \in Nat,
         a <= b, b - a < M, a % M = b % M
  PROVE  a = b
<1> DEFINE k == (b \div M) - (a \div M)
<1>1. k \in Int BY DivMod
<1>2. b - a = M * k
  <2>1. a = M * (a \div M) + (a % M) /\ a \div M \in Int BY DivMod
  <2>2. b = M * (b \div M) + (b % M) /\ b \div M \in Int BY DivMod
  <2>3. \A x, y \in Int : M * (y - x) = M * y - M * x OBVIOUS
  <2>4. a % M \in Int BY DivMod
  <2> QED BY <2>1, <2>2, <2>3, <2>4
<1> HIDE DEF k
<1>3. \A j \in Int : j >= 1 => M * j >= M OBVIOUS
<1>4. k <= 0 => M * k <= 0 BY <1>1
<1> QED BY <1>1, <1>2, <1>3, <1>4

\* Equality of u8 sequence numbers is equality of exchanges, among exchanges
\* of the last turn.
LEMMA SameSeqUnique ==
  ASSUME NEW m \in Nat \ {0}, NEW n \in Nat \ {0}, m <= n, n - m < SeqMod,
         SameSeq(m, n)
  PROVE  m = n
<1> DEFINE a == m - 1
           b == n - 1
<1>1. a \in Nat /\ b \in Nat OBVIOUS
<1>2. SeqMod \in Nat /\ SeqMod >= 2 BY CableAssumption
<1>3. a <= b /\ b - a < SeqMod BY <1>2
<1>4. a % SeqMod = b % SeqMod BY DEF SameSeq, SeqOf
<1>5. a = b => m = n OBVIOUS
<1> HIDE DEF a, b
<1> QED BY <1>1, <1>2, <1>3, <1>4, <1>5, ModUnique

-----------------------------------------------------------------------------
(* A transfer that lands is one the child answered                         *)

\* The child's answer to exchange n, clocked with pw, was cw.
AnsweredWith(n, pw, cw) ==
  \E i \in 1..Len(answers) :
    answers[i].n = n /\ answers[i].pw = pw /\ answers[i].cw = cw

Recent(n) == n \in 1..Begun /\ Begun - n < SeqMod

\* Only the newest exchange is awaited, and the core blocks on no other.
AwaitsNewest ==
  /\ awaiting \in {0, Begun}
  /\ phase # "idle" => awaiting # 0

\* Whatever still names the awaited exchange names it with the latched word:
\* its clocks, the clock held back and the answer.
ClocksCarryLatched ==
  \A i \in 1..Len(p2c) :
    /\ Recent(p2c[i].n)
    /\ (p2c[i].tag = "clock" /\ p2c[i].n = awaiting) => p2c[i].word = pendingOut
HeldCarriesLatched ==
  deferred # NoTransfer =>
    /\ Recent(deferred.n)
    /\ deferred.n = awaiting => deferred.pw = pendingOut
AnswersCarryLatched ==
  \A i \in 1..Len(answers) :
    /\ answers[i].n \in 1..Begun
    /\ answers[i].n = awaiting => answers[i].pw = pendingOut
    /\ i \in SeenEntries => Recent(answers[i].n)

\* Every reply on the wire repeats an answer.
RepliesAnswer ==
  \A i \in 1..Len(c2p) :
    /\ Recent(c2p[i].n)
    /\ \E j \in 1..Len(answers) :
         answers[j].n = c2p[i].n /\ answers[j].cw = c2p[i].word

\* And so does the reply in hand, to the exchange awaited.
ReplyAnswers ==
  reply # NoWord => awaiting # 0 /\ AnsweredWith(awaiting, pendingOut, reply)

PairedInv ==
  /\ TypeInv /\ AwaitsNewest
  /\ ClocksCarryLatched /\ HeldCarriesLatched /\ AnswersCarryLatched
  /\ RepliesAnswer /\ ReplyAnswers /\ Paired

LEMMA PairedInit == Init => PairedInv
<1> SUFFICES ASSUME Init PROVE PairedInv OBVIOUS
<1>1. TypeInv BY TypeInit
<1>2. Len(outcome) = 0 /\ Len(answers) = 0 /\ Len(p2c) = 0 /\ Len(c2p) = 0
  BY DEF Init
<1>3. AwaitsNewest BY DEF Init, AwaitsNewest
<1>4. HeldCarriesLatched /\ ReplyAnswers BY DEF Init, HeldCarriesLatched, ReplyAnswers
<1>5. Begun = 0 BY <1>2 DEF Begun
<1>6. ClocksCarryLatched BY <1>2 DEF ClocksCarryLatched
<1>7. AnswersCarryLatched BY <1>2 DEF AnswersCarryLatched
<1>8. RepliesAnswer BY <1>2 DEF RepliesAnswer
<1>9. Paired BY <1>5 DEF Paired
<1> QED BY <1>1, <1>3, <1>4, <1>6, <1>7, <1>8, <1>9 DEF PairedInv

\* Answers are only ever added.
LEMMA AnswersGrow ==
  ASSUME TypeOK, NEW a \in Answer, answers' = Append(answers, a)
  PROVE  /\ Len(answers) \in Nat
         /\ Len(answers') = Len(answers) + 1
         /\ \A i \in 1..Len(answers) : answers'[i] = answers[i]
         /\ answers'[Len(answers) + 1] = a
  BY AppendType, LenProperties DEF TypeOK

LEMMA OutcomeKept ==
  ASSUME TypeOK, awaiting \in 1..Begun, NEW kind \in {"landed", "late", "gone"},
         NEW o \in Nat, NEW p \in Nat, Conclude(kind, o, p)
  PROVE  /\ Begun' = Begun
         /\ outcome'[awaiting] = [kind |-> kind, own |-> o, peer |-> p]
         /\ \A n \in 1..Begun : n # awaiting => outcome'[n] = outcome[n]
<1> DEFINE e == [kind |-> kind, own |-> o, peer |-> p]
<1>1. outcome \in Seq(Outcome) /\ e \in Outcome BY DEF TypeOK, Outcome
<1>2. outcome' = [outcome EXCEPT ![awaiting] = e] BY DEF Conclude
<1> HIDE DEF e
<1>3. /\ Begun' = Begun /\ outcome'[awaiting] = e
      /\ \A n \in 1..Begun : n # awaiting => outcome'[n] = outcome[n]
  BY <1>1, <1>2, ExceptSeq DEF Begun
<1> QED BY <1>3 DEF e

\* Steps that touch neither the answers nor the outcomes, nor what the latched
\* word belongs to, and at most take packets off the wire.
LEMMA PairedQuiet ==
  ASSUME PairedInv, TypeInv',
         UNCHANGED <<awaiting, pendingOut, outcome, answers, phase>>,
         deferred' = deferred, reply' = reply,
         \A i \in 1..Len(p2c') : \E k \in 1..Len(p2c) : p2c'[i] = p2c[k],
         \A i \in 1..Len(c2p') : \E k \in 1..Len(c2p) : c2p'[i] = c2p[k]
  PROVE  PairedInv'
<1> USE DEF PairedInv
<1>1. Begun' = Begun BY DEF Begun
<1>2. \A n : Recent(n)' <=> Recent(n) BY <1>1 DEF Recent
<1>3. AwaitsNewest' BY <1>1 DEF AwaitsNewest
<1>4. ClocksCarryLatched' BY <1>1 DEF ClocksCarryLatched, Recent
<1>5. HeldCarriesLatched' BY <1>1 DEF HeldCarriesLatched, Recent
<1>6. AnswersCarryLatched' BY <1>1 DEF AnswersCarryLatched, Recent, SeenEntries
<1>7. RepliesAnswer' BY <1>1 DEF RepliesAnswer, Recent
<1>8. ReplyAnswers' BY DEF ReplyAnswers, AnsweredWith
<1>9. Paired' BY <1>1 DEF Paired, AnswerTo
<1> QED BY <1>3, <1>4, <1>5, <1>6, <1>7, <1>8, <1>9

\* A transfer that begins is the newest, and nothing older than a turn is left.
LEMMA PairedStart ==
  ASSUME PairedInv, TypeInv', ~LongOutages, ParentStart
  PROVE  PairedInv'
<1> USE DEF PairedInv
<1> DEFINE e == [kind |-> "begun", own |-> 0, peer |-> 0]
           c == Clock(Begun + 1, pOut)
<1>1. /\ outcome \in Seq(Outcome) /\ e \in Outcome
      /\ p2c \in Seq([tag : {"clock", "gaveup"}, n : Nat, word : Nat])
      /\ Len(answers) \in Nat
  BY LenProperties DEF TypeInv, TypeOK, Outcome
<1>2. /\ outcome' = Append(outcome, e) /\ p2c' = Append(p2c, c)
      /\ awaiting' = Begun + 1 /\ pendingOut' = pOut
      /\ reply' = NoWord /\ phase' = "shifting"
      /\ WithinWrap
      /\ UNCHANGED <<deferred, answers, c2p>>
  BY DEF ParentStart, BeginExchange, childVars
<1>3. Begun \in Nat BY <1>1, LenProperties DEF Begun
<1>4. c \in [tag : {"clock", "gaveup"}, n : Nat, word : Nat]
  BY <1>3 DEF Clock, TypeInv, TypeOK
<1>5. c.n = Begun + 1 /\ c.word = pOut BY DEF Clock
<1> HIDE DEF e, c
<1>6. /\ Begun' = Begun + 1
      /\ \A n \in 1..Begun : outcome'[n] = outcome[n]
      /\ outcome'[Begun + 1] = e
  BY <1>1, <1>2, AppendType DEF Begun
<1>7. /\ Len(p2c') = Len(p2c) + 1 /\ Len(p2c) \in Nat
      /\ \A i \in 1..Len(p2c) : p2c'[i] = p2c[i]
      /\ p2c'[Len(p2c) + 1] = c
  BY <1>1, <1>2, <1>4, AppendType, LenProperties
<1>8. \A n \in 1..Begun : n # awaiting' BY <1>2, <1>3
<1>9. \A n \in 1..Begun : Begun + 1 - n < SeqMod =>
                          n \in 1..Begun' /\ Begun' - n < SeqMod
  BY <1>3, <1>6
<1>10. SeqMod \in Nat /\ SeqMod >= 2 BY CableAssumption
<1>0. \A m \in InPlay : Begun + 1 - m < SeqMod
  BY <1>2 DEF WithinWrap, WithinTurn
<1>11. AwaitsNewest' BY <1>2, <1>3, <1>6 DEF AwaitsNewest
<1>12. ClocksCarryLatched'
  <2> SUFFICES ASSUME NEW i \in 1..Len(p2c')
               PROVE  /\ p2c'[i].n \in 1..Begun' /\ Begun' - p2c'[i].n < SeqMod
                      /\ (p2c'[i].tag = "clock" /\ p2c'[i].n = awaiting')
                           => p2c'[i].word = pendingOut'
    BY DEF ClocksCarryLatched, Recent
  <2>1. CASE i \in 1..Len(p2c)
    <3>1. p2c[i].n \in 1..Begun BY <2>1 DEF ClocksCarryLatched, Recent
    <3>2. Begun + 1 - p2c[i].n < SeqMod
      <4>1. p2c[i].n \in InPlay BY <2>1 DEF InPlay
      <4> QED BY <1>0, <4>1
    <3> QED BY <1>7, <1>8, <1>9, <2>1, <3>1, <3>2
  <2>2. CASE i = Len(p2c) + 1
    BY <1>2, <1>3, <1>5, <1>6, <1>7, <1>10, <2>2 DEF Recent
  <2> QED BY <1>7, <2>1, <2>2
<1>13. HeldCarriesLatched'
  <2> SUFFICES ASSUME deferred # NoTransfer
               PROVE  /\ deferred.n \in 1..Begun' /\ Begun' - deferred.n < SeqMod
                      /\ deferred.n # awaiting'
    BY <1>2 DEF HeldCarriesLatched, Recent
  <2>1. deferred.n \in 1..Begun BY DEF HeldCarriesLatched, Recent
  <2>2. Begun + 1 - deferred.n < SeqMod
    <3>1. deferred.n \in InPlay BY DEF InPlay
    <3> QED BY <1>0, <3>1
  <2> QED BY <1>8, <1>9, <2>1, <2>2
<1>14. AnswersCarryLatched'
  <2> SUFFICES ASSUME NEW i \in 1..Len(answers)
               PROVE  /\ answers[i].n \in 1..Begun' /\ answers[i].n # awaiting'
                      /\ i \in SeenEntries => Begun' - answers[i].n < SeqMod
    BY <1>2 DEF AnswersCarryLatched, SeenEntries, Recent
  <2>1. answers[i].n \in 1..Begun BY DEF AnswersCarryLatched
  <2>2. i \in SeenEntries => Begun + 1 - answers[i].n < SeqMod
    <3>1. ASSUME i \in SeenEntries PROVE answers[i].n \in {answers[j].n : j \in SeenEntries}
      BY <3>1
    <3>2. \A m \in {answers[j].n : j \in SeenEntries} : Begun + 1 - m < SeqMod
      BY <1>2 DEF WithinWrap, WithinTurn
    <3> QED BY <3>1, <3>2
  <2> QED BY <1>3, <1>6, <1>8, <1>9, <2>1, <2>2
<1>15. RepliesAnswer'
  <2> SUFFICES ASSUME NEW i \in 1..Len(c2p) 
               PROVE  c2p[i].n \in 1..Begun' /\ Begun' - c2p[i].n < SeqMod
    BY <1>2 DEF RepliesAnswer, Recent
  <2>1. c2p[i].n \in 1..Begun BY DEF RepliesAnswer, Recent
  <2>2. Begun + 1 - c2p[i].n < SeqMod
    <3>1. c2p[i].n \in InPlay BY DEF InPlay
    <3> QED BY <1>0, <3>1
  <2> QED BY <1>9, <2>1, <2>2
<1>16. ReplyAnswers' BY <1>2 DEF ReplyAnswers
<1>17. Paired'
  <2>1. e.kind # "landed" BY DEF e
  <2>2. \A n \in 1..Begun' : n \in 1..Begun \/ outcome'[n].kind # "landed"
    BY <1>3, <1>6, <2>1
  <2>3. \A n \in 1..Begun' : outcome'[n].kind = "landed" =>
          n \in 1..Begun /\ outcome'[n] = outcome[n]
    BY <1>6, <2>2
  <2>4. UNCHANGED answers BY <1>2
  <2>5. \A n \in 1..Begun : outcome[n].kind = "landed" =>
          \E i \in 1..Len(answers) :
            /\ answers[i].n = n /\ answers[i].cw = outcome[n].peer
            /\ answers[i].pw = outcome[n].own
    BY DEF Paired, AnswerTo
  <2>6. \A n \in 1..Begun' : outcome'[n].kind = "landed" =>
          \E i \in 1..Len(answers) :
            /\ answers[i].n = n /\ answers[i].cw = outcome'[n].peer
            /\ answers[i].pw = outcome'[n].own
    BY <2>3, <2>5
  <2> QED BY <2>4, <2>6 DEF Paired, AnswerTo
<1> QED BY <1>11, <1>12, <1>13, <1>14, <1>15, <1>16, <1>17

\* A transfer that ends, landed with an answer or failed, leaves nothing
\* awaited; at most its give-up goes out.
LEMMA PairedConcluded ==
  ASSUME PairedInv, TypeInv', phase # "idle",
         NEW kind \in {"landed", "late", "gone"}, NEW o \in Nat, NEW p \in Nat,
         Conclude(kind, o, p),
         kind = "landed" => AnsweredWith(awaiting, o, p),
         awaiting' = 0, reply' = NoWord, phase' = "idle",
         UNCHANGED <<deferred, answers, c2p>>,
         p2c' = p2c \/ p2c' = Append(p2c, GaveUp(awaiting))
  PROVE  PairedInv'
<1> USE DEF PairedInv
<1>1. Begun \in Nat BY LenProperties DEF Begun, TypeInv, TypeOK
<1>2. awaiting = Begun /\ awaiting \in 1..Begun
  BY <1>1 DEF AwaitsNewest
<1>3. TypeOK BY DEF TypeInv
<1>4. /\ Begun' = Begun
      /\ outcome'[awaiting] = [kind |-> kind, own |-> o, peer |-> p]
      /\ \A n \in 1..Begun : n # awaiting => outcome'[n] = outcome[n]
  BY <1>2, <1>3, OutcomeKept
<1>5. SeqMod \in Nat /\ SeqMod >= 2 BY CableAssumption
<1>6. AwaitsNewest' BY DEF AwaitsNewest
<1>7. ClocksCarryLatched'
  <2>1. \A i \in 1..Len(p2c') : p2c'[i] = GaveUp(awaiting) \/ \E k \in 1..Len(p2c) : p2c'[i] = p2c[k]
    <3>1. GaveUp(awaiting) \in [tag : {"clock", "gaveup"}, n : Nat, word : Nat]
      BY <1>1, <1>2 DEF GaveUp
    <3>2. Len(p2c) \in Nat BY LenProperties DEF TypeInv, TypeOK
    <3>3. CASE p2c' = Append(p2c, GaveUp(awaiting))
      <4>1. /\ Len(p2c') = Len(p2c) + 1 /\ p2c'[Len(p2c) + 1] = GaveUp(awaiting)
            /\ \A k \in 1..Len(p2c) : p2c'[k] = p2c[k]
        BY <1>3, <3>1, <3>3, AppendType DEF TypeOK
      <4> QED BY <3>2, <4>1
    <3> QED BY <3>3
  <2>2. Recent(awaiting) BY <1>1, <1>2, <1>5 DEF Recent
  <2>3. \A i \in 1..Len(p2c') : Recent(p2c'[i].n)
    BY <2>1, <2>2 DEF ClocksCarryLatched, GaveUp
  <2> QED BY <1>4, <2>3 DEF ClocksCarryLatched, Recent
<1>8. HeldCarriesLatched' BY <1>4 DEF HeldCarriesLatched, Recent
<1>9. AnswersCarryLatched' BY <1>4 DEF AnswersCarryLatched, Recent, SeenEntries
<1>10. RepliesAnswer' BY <1>4 DEF RepliesAnswer, Recent
<1>11. ReplyAnswers' BY DEF ReplyAnswers
<1>12. Paired'
  <2> SUFFICES ASSUME NEW n \in 1..Begun, outcome'[n].kind = "landed"
               PROVE  \E i \in 1..Len(answers) :
                        /\ answers[i].n = n /\ answers[i].cw = outcome'[n].peer
                        /\ answers[i].pw = outcome'[n].own
    BY <1>4 DEF Paired, AnswerTo
  <2>1. CASE n = awaiting BY <1>4, <2>1 DEF AnsweredWith
  <2>2. CASE n # awaiting BY <1>4, <2>2 DEF Paired, AnswerTo
  <2> QED BY <2>1, <2>2
<1> QED BY <1>6, <1>7, <1>8, <1>9, <1>10, <1>11, <1>12

\* What is awaited, and the word latched for it, may go out again.
LEMMA PairedRetried ==
  ASSUME PairedInv, TypeInv', ParentRetry
  PROVE  PairedInv'
<1> USE DEF PairedInv
<1> DEFINE c == Clock(awaiting, pendingOut)
<1>1. Begun \in Nat BY LenProperties DEF Begun, TypeInv, TypeOK
<1>2. /\ p2c' = Append(p2c, c) /\ phase = "waiting"
      /\ UNCHANGED <<deferred, answers, c2p>> /\ UNCHANGED parentVars
  BY DEF ParentRetry, childVars
<1>3. UNCHANGED <<outcome, awaiting, pendingOut, reply, phase>>
  BY <1>2 DEF parentVars
<1>4. Begun' = Begun BY <1>3 DEF Begun
<1>5. awaiting = Begun /\ awaiting \in 1..Begun
  BY <1>1, <1>2 DEF AwaitsNewest
<1>6. SeqMod \in Nat /\ SeqMod >= 2 BY CableAssumption
<1>7. Recent(awaiting) BY <1>1, <1>5, <1>6 DEF Recent
<1>8. c \in [tag : {"clock", "gaveup"}, n : Nat, word : Nat]
  BY <1>1, <1>5 DEF Clock, TypeInv, TypeOK
<1>9. c.n = awaiting /\ c.word = pendingOut BY DEF Clock
<1> HIDE DEF c
<1>10. /\ Len(p2c') = Len(p2c) + 1 /\ Len(p2c) \in Nat
       /\ \A i \in 1..Len(p2c) : p2c'[i] = p2c[i]
       /\ p2c'[Len(p2c) + 1] = c
  BY <1>2, <1>8, AppendType, LenProperties DEF TypeInv, TypeOK
<1>11. AwaitsNewest' BY <1>3, <1>4 DEF AwaitsNewest
<1>12. ClocksCarryLatched'
  BY <1>3, <1>4, <1>7, <1>9, <1>10 DEF ClocksCarryLatched, Recent
<1>13. HeldCarriesLatched' BY <1>2, <1>3, <1>4 DEF HeldCarriesLatched, Recent
<1>14. AnswersCarryLatched'
  BY <1>2, <1>3, <1>4 DEF AnswersCarryLatched, Recent, SeenEntries
<1>15. RepliesAnswer' BY <1>2, <1>4 DEF RepliesAnswer, Recent
<1>16. ReplyAnswers' BY <1>2, <1>3 DEF ReplyAnswers, AnsweredWith
<1>17. Paired' BY <1>2, <1>3, <1>4 DEF Paired, AnswerTo
<1> QED BY <1>11, <1>12, <1>13, <1>14, <1>15, <1>16, <1>17

\* A reply is taken only for the exchange awaited: within a turn, one that
\* carries its sequence number is one that answers it.
LEMMA PairedReceived ==
  ASSUME PairedInv, TypeInv', ParentReceive
  PROVE  PairedInv'
<1> USE DEF PairedInv
<1>1. PICK i \in 1..Len(c2p) :
        /\ c2p' = Without(c2p, i)
        /\ reply' = IF AnswersAwaited(c2p[i]) THEN c2p[i].word ELSE reply
        /\ UNCHANGED <<phase, awaiting, pendingOut, outcome, deferred, answers, p2c>>
  BY DEF ParentReceive, Deliverable, childVars
<1>2. c2p \in Seq([n : Nat, word : Nat]) BY DEF TypeInv, TypeOK
<1>3. \A j \in 1..Len(c2p') : \E k \in 1..Len(c2p) : c2p'[j] = c2p[k]
  <2> DEFINE S == [n : Nat, word : Nat]
  <2>1. c2p \in Seq(S) BY <1>2
  <2>2. c2p' = Without(c2p, i) BY <1>1
  <2> HIDE DEF S, PairedInv
  <2> QED BY <2>1, <2>2, WithoutElements, SMTT(60)
<1>4. Begun' = Begun BY <1>1 DEF Begun
<1>5. ReplyAnswers'
  <2>1. CASE AnswersAwaited(c2p[i])
    <3>1. Begun \in Nat BY LenProperties DEF Begun, TypeInv, TypeOK
    <3>2. awaiting = Begun /\ awaiting # 0
      BY <2>1 DEF AnswersAwaited, AwaitsNewest
    <3>3. c2p[i].n \in 1..Begun /\ Begun - c2p[i].n < SeqMod
      BY DEF RepliesAnswer, Recent
    <3>4. SameSeq(c2p[i].n, awaiting) BY <2>1 DEF AnswersAwaited
    <3>5. c2p[i].n = awaiting
      BY <3>1, <3>2, <3>3, <3>4, SameSeqUnique
    <3>6. PICK j \in 1..Len(answers) :
            answers[j].n = c2p[i].n /\ answers[j].cw = c2p[i].word
      BY DEF RepliesAnswer
    <3>7. answers[j].pw = pendingOut BY <3>5, <3>6 DEF AnswersCarryLatched
    <3>8. AnsweredWith(awaiting, pendingOut, c2p[i].word)
      BY <3>5, <3>6, <3>7 DEF AnsweredWith
    <3> QED BY <1>1, <2>1, <3>2, <3>8 DEF ReplyAnswers, AnsweredWith
  <2>2. CASE ~AnswersAwaited(c2p[i])
    BY <1>1, <2>2 DEF ReplyAnswers, AnsweredWith
  <2> QED BY <2>1, <2>2
<1>6. AwaitsNewest' BY <1>1, <1>4 DEF AwaitsNewest
<1>7. ClocksCarryLatched' BY <1>1, <1>4 DEF ClocksCarryLatched, Recent
<1>8. HeldCarriesLatched' BY <1>1, <1>4 DEF HeldCarriesLatched, Recent
<1>9. AnswersCarryLatched'
  BY <1>1, <1>4 DEF AnswersCarryLatched, Recent, SeenEntries
<1>10. RepliesAnswer' BY <1>1, <1>3, <1>4 DEF RepliesAnswer, Recent
<1>11. Paired' BY <1>1, <1>4 DEF Paired, AnswerTo
<1> QED BY <1>5, <1>6, <1>7, <1>8, <1>9, <1>10, <1>11

\* A clock of the last turn that carries the latched word may be answered.
LEMMA PairedAnswered ==
  ASSUME PairedInv, TypeInv', UNCHANGED parentVars,
         NEW t \in Transfer, Recent(t.n), t.n = awaiting => t.pw = pendingOut,
         NEW word \in Nat, NEW isArmed \in BOOLEAN, NEW held \in BOOLEAN,
         Accept(t, word, isArmed, held),
         deferred' \in {deferred, NoTransfer},
         \A i \in 1..Len(p2c') : \E k \in 1..Len(p2c) : p2c'[i] = p2c[k]
  PROVE  PairedInv'
<1> USE DEF PairedInv
<1>1. UNCHANGED <<outcome, awaiting, pendingOut, reply, phase>> BY DEF parentVars
<1>2. Begun' = Begun BY <1>1 DEF Begun
<1>3. PICK cw \in Nat, q \in BOOLEAN :
        /\ c2p' = Append(c2p, Reply(t.n, cw))
        /\ answers' = Append(answers, [n |-> t.n, pw |-> t.pw, cw |-> cw,
                                       bus |-> q, held |-> held])
  <2>1. (IF onBus THEN word ELSE Absent) \in Nat BY DEF Absent
  <2>2. onBus \in BOOLEAN BY DEF TypeInv, TypeOK
  <2> QED BY <2>1, <2>2 DEF Accept
<1> DEFINE a == [n |-> t.n, pw |-> t.pw, cw |-> cw, bus |-> q, held |-> held]
           r == Reply(t.n, cw)
<1>4. a \in Answer /\ r \in [n : Nat, word : Nat] BY DEF Transfer, Answer, Reply
<1>5. /\ a.n = t.n /\ a.pw = t.pw /\ a.cw = cw
      /\ r.n = t.n /\ r.word = cw
  BY DEF Reply
<1>6. answers' = Append(answers, a) /\ c2p' = Append(c2p, r) BY <1>3
<1> HIDE DEF a, r
<1>7. /\ Len(answers) \in Nat /\ Len(answers') = Len(answers) + 1
      /\ \A i \in 1..Len(answers) : answers'[i] = answers[i]
      /\ answers'[Len(answers) + 1] = a
  <2>1. TypeOK BY DEF TypeInv
  <2> QED BY <1>4, <1>6, <2>1, AnswersGrow
<1>8. /\ Len(c2p) \in Nat /\ Len(c2p') = Len(c2p) + 1
      /\ \A i \in 1..Len(c2p) : c2p'[i] = c2p[i]
      /\ c2p'[Len(c2p) + 1] = r
  BY <1>4, <1>6, AppendType, LenProperties DEF TypeInv, TypeOK
<1>9. AwaitsNewest' BY <1>1, <1>2 DEF AwaitsNewest
<1>10. ClocksCarryLatched' BY <1>1, <1>2 DEF ClocksCarryLatched, Recent
<1>11. HeldCarriesLatched' BY <1>1, <1>2 DEF HeldCarriesLatched, Recent
<1>12. AnswersCarryLatched'
  <2> SUFFICES \A i \in 1..Len(answers') :
                  /\ answers'[i].n \in 1..Begun'
                  /\ answers'[i].n = awaiting' => answers'[i].pw = pendingOut'
                  /\ i \in SeenEntries' => Begun' - answers'[i].n < SeqMod
    BY Zenon DEF AnswersCarryLatched, Recent
  <2> SUFFICES ASSUME NEW i \in 1..Len(answers')
               PROVE  /\ answers'[i].n \in 1..Begun'
                      /\ answers'[i].n = awaiting' => answers'[i].pw = pendingOut'
                      /\ i \in SeenEntries' => Begun' - answers'[i].n < SeqMod
    OBVIOUS
  <2>1. CASE i \in 1..Len(answers)
    <3>1. SeenWindow \in Nat BY CableAssumption
    <3>2. i \in SeenEntries' => i \in SeenEntries
      BY <1>7, <2>1, <3>1 DEF SeenEntries
    <3> QED BY <1>1, <1>2, <1>7, <2>1, <3>2 DEF AnswersCarryLatched, Recent
  <2>2. CASE i = Len(answers) + 1
    BY <1>1, <1>2, <1>5, <1>7, <2>2 DEF Recent
  <2> QED BY <1>7, <2>1, <2>2
<1>13. RepliesAnswer'
  <2> SUFFICES ASSUME NEW i \in 1..Len(c2p')
               PROVE  /\ Recent(c2p'[i].n)
                      /\ \E j \in 1..Len(answers') :
                           answers'[j].n = c2p'[i].n /\ answers'[j].cw = c2p'[i].word
    BY <1>2 DEF RepliesAnswer, Recent
  <2>1. CASE i \in 1..Len(c2p)
    <3>1. c2p'[i] = c2p[i] BY <1>8, <2>1
    <3>2. PICK j \in 1..Len(answers) :
            answers[j].n = c2p[i].n /\ answers[j].cw = c2p[i].word
      BY <2>1 DEF RepliesAnswer
    <3>3. j \in 1..Len(answers') /\ answers'[j] = answers[j] BY <1>7
    <3> QED BY <2>1, <3>1, <3>2, <3>3 DEF RepliesAnswer
  <2>2. CASE i = Len(c2p) + 1
    BY <1>5, <1>7, <1>8, <2>2
  <2> QED BY <1>8, <2>1, <2>2
<1>14. ReplyAnswers' BY <1>1, <1>7 DEF ReplyAnswers, AnsweredWith
<1>15. Paired' BY <1>1, <1>2, <1>7 DEF Paired, AnswerTo
<1> QED BY <1>9, <1>10, <1>11, <1>12, <1>13, <1>14, <1>15

\* A clock may be held back, and the newest answer given again.
LEMMA PairedUnanswered ==
  ASSUME PairedInv, TypeInv', UNCHANGED parentVars, UNCHANGED answers,
         NEW i \in 1..Len(p2c), p2c[i].tag = "clock", p2c' = Without(p2c, i),
         ClockSeen(p2c[i]) \/ ClockHeld(p2c[i]) \/ ClockAlreadyHeld(p2c[i])
  PROVE  PairedInv'
<1> USE DEF PairedInv
<1>1. UNCHANGED <<outcome, awaiting, pendingOut, reply, phase>> BY DEF parentVars
<1>2. Begun' = Begun BY <1>1 DEF Begun
<1>3. \A j \in 1..Len(p2c') : \E k \in 1..Len(p2c) : p2c'[j] = p2c[k]
  <2> DEFINE S == [tag : {"clock", "gaveup"}, n : Nat, word : Nat]
  <2>1. p2c \in Seq(S) BY DEF TypeInv, TypeOK
  <2>2. p2c' = Without(p2c, i) OBVIOUS
  <2> HIDE DEF S, PairedInv
  <2> QED BY <2>1, <2>2, WithoutElements, SMTT(60)
<1>4. AwaitsNewest' BY <1>1, <1>2 DEF AwaitsNewest
<1>5. ClocksCarryLatched' BY <1>1, <1>2, <1>3 DEF ClocksCarryLatched, Recent
<1>6. HeldCarriesLatched'
  <2>1. CASE deferred' = [n |-> p2c[i].n, pw |-> p2c[i].word, cw |-> 0]
    BY <1>1, <1>2, <2>1 DEF HeldCarriesLatched, ClocksCarryLatched, Recent
  <2>2. CASE deferred' = deferred
    BY <1>1, <1>2, <2>2 DEF HeldCarriesLatched, Recent
  <2> QED BY <2>1, <2>2 DEF ClockSeen, ClockHeld, ClockAlreadyHeld
<1>7. AnswersCarryLatched'
  BY <1>1, <1>2 DEF AnswersCarryLatched, Recent, SeenEntries
<1>8. RepliesAnswer'
  <2>1. CASE /\ SeenBefore(p2c[i].n)
             /\ c2p' = Append(c2p, Reply(LastReply.n, LastReply.cw))
    <3> DEFINE r == Reply(LastReply.n, LastReply.cw)
               m == Len(answers)
    <3>1. answers \in Seq(Answer) /\ m \in Nat BY LenProperties DEF TypeInv, TypeOK
    <3>2. m \in 1..Len(answers) /\ m \in SeenEntries
      BY <2>1, <3>1, CableAssumption DEF SeenBefore, SeenEntries
    <3>3. Recent(answers[m].n) BY <3>2 DEF AnswersCarryLatched
    <3>4. answers[m] \in Answer BY <3>1, <3>2, ElementOfSeq
    <3>5. r \in [n : Nat, word : Nat] /\ r.n = answers[m].n /\ r.word = answers[m].cw
      BY <3>4 DEF Reply, LastReply, Answer
    <3>6. c2p' = Append(c2p, r) BY <2>1
    <3> HIDE DEF r, m
    <3>7. /\ Len(c2p) \in Nat /\ Len(c2p') = Len(c2p) + 1
          /\ \A j \in 1..Len(c2p) : c2p'[j] = c2p[j]
          /\ c2p'[Len(c2p) + 1] = r
      BY <3>5, <3>6, AppendType, LenProperties DEF TypeInv, TypeOK
    <3>8. \A j \in 1..Len(c2p') : c2p'[j] = r \/ \E k \in 1..Len(c2p) : c2p'[j] = c2p[k]
      BY <3>7
    <3>9. \A j \in 1..Len(c2p') : Recent(c2p'[j].n)
      BY <3>3, <3>5, <3>8 DEF RepliesAnswer
    <3>10. \A j \in 1..Len(c2p') : \E l \in 1..Len(answers) :
             answers[l].n = c2p'[j].n /\ answers[l].cw = c2p'[j].word
      <4> TAKE j \in 1..Len(c2p')
      <4>1. CASE c2p'[j] = r
        BY <3>2, <3>5, <4>1
      <4>2. CASE \E k \in 1..Len(c2p) : c2p'[j] = c2p[k]
        <5> PICK k \in 1..Len(c2p) : c2p'[j] = c2p[k] BY <4>2
        <5> QED BY DEF RepliesAnswer
      <4> QED BY <3>8, <4>1, <4>2
    <3> QED BY <1>2, <3>9, <3>10 DEF RepliesAnswer, Recent
  <2>2. CASE UNCHANGED c2p
    BY <1>2, <2>2 DEF RepliesAnswer, Recent
  <2> QED BY <2>1, <2>2 DEF ClockSeen, ClockHeld, ClockAlreadyHeld
<1>9. ReplyAnswers' BY <1>1 DEF ReplyAnswers, AnsweredWith
<1>10. Paired' BY <1>1, <1>2 DEF Paired, AnswerTo
<1> QED BY <1>4, <1>5, <1>6, <1>7, <1>8, <1>9, <1>10

LEMMA PairedParent ==
  ASSUME PairedInv, TypeInv', ~LongOutages, ParentNext
  PROVE  PairedInv'
<1> DEFINE Quiet ==
      /\ UNCHANGED <<awaiting, pendingOut, outcome, answers, phase>>
      /\ deferred' = deferred /\ reply' = reply
      /\ p2c' = p2c /\ c2p' = c2p
<1>1. ASSUME Quiet PROVE PairedInv'
  BY <1>1, PairedQuiet
<1>2. CASE ParentStore BY <1>1, <1>2 DEF ParentStore, childVars
<1>3. CASE ParentStart BY <1>3, PairedStart
<1>4. CASE ParentCollect
  <2>1. AwaitsNewest' /\ UNCHANGED <<awaiting, pendingOut, outcome, answers, deferred,
                                     reply, p2c, c2p>>
    BY <1>4 DEF ParentCollect, PairedInv, AwaitsNewest, childVars, Begun
  <2> QED BY <2>1 DEF PairedInv, ClocksCarryLatched, HeldCarriesLatched,
                AnswersCarryLatched, RepliesAnswer, ReplyAnswers, Paired, Recent, Begun,
                SeenEntries, AnsweredWith, AnswerTo
<1>5. CASE ParentOpenCircuit
  <2>1. pendingOut \in Nat BY DEF PairedInv, TypeInv, TypeOK
  <2> QED BY <1>5, <2>1, PairedConcluded
       DEF ParentOpenCircuit, Abandon, childVars, Absent
<1>6. CASE ParentLand
  <2>1. pendingOut \in Nat /\ reply \in Nat
    BY <1>6 DEF PairedInv, TypeInv, TypeOK, ParentLand
  <2>2. AnsweredWith(awaiting, pendingOut, reply)
    BY <1>6 DEF PairedInv, ReplyAnswers, ParentLand
  <2> QED BY <1>6, <2>1, <2>2, PairedConcluded DEF ParentLand, childVars
<1>7. CASE ParentRetry BY <1>7, PairedRetried
<1>8. CASE ParentTimeout
  <2>1. pendingOut \in Nat BY DEF PairedInv, TypeInv, TypeOK
  <2> QED BY <1>8, <2>1, PairedConcluded
       DEF ParentTimeout, Abandon, childVars, Absent
<1>9. CASE ParentSelectMulti
  <2>1. /\ awaiting' = 0 /\ reply' = NoWord /\ phase' = "idle"
        /\ UNCHANGED <<pendingOut, outcome, answers, deferred, p2c, c2p>>
    BY <1>9 DEF ParentSelectMulti, childVars
  <2> QED BY <2>1 DEF PairedInv, AwaitsNewest, ClocksCarryLatched, HeldCarriesLatched,
                AnswersCarryLatched, RepliesAnswer, ReplyAnswers, Paired, Recent, Begun,
                SeenEntries, AnswerTo
<1>10. CASE ParentReceive BY <1>10, PairedReceived
<1>11. CASE ParentHearsPeer BY <1>1, <1>11 DEF ParentHearsPeer, childVars
<1> QED BY <1>2, <1>3, <1>4, <1>5, <1>6, <1>7, <1>8, <1>9, <1>10, <1>11
     DEF ParentNext

\* A clock the child takes off the wire, or held back, is one it may answer.
LEMMA PairedChild ==
  ASSUME PairedInv, TypeInv', ChildNext
  PROVE  PairedInv'
<1>1. UNCHANGED parentVars
  BY DEF ChildNext, ChildStore, DeferralExpires, ChildClocked, ChildToldGaveUp,
     ChildStep, ChildPark, ChildUnpark, ChildSelectMulti, parentVars
<1>2. UNCHANGED <<awaiting, pendingOut, outcome, phase, reply>>
  BY <1>1 DEF parentVars
<1>3. /\ own \in Nat /\ own + 1 \in Nat /\ armed \in BOOLEAN
      /\ TRUE \in BOOLEAN /\ FALSE \in BOOLEAN /\ deferred \in Transfer
  BY DEF PairedInv, TypeInv, TypeOK
<1>4. deferred # NoTransfer =>
        Recent(deferred.n) /\ (deferred.n = awaiting => deferred.pw = pendingOut)
  BY DEF PairedInv, HeldCarriesLatched
<1>5. ASSUME NEW i \in 1..Len(p2c), p2c' = Without(p2c, i)
      PROVE  \A j \in 1..Len(p2c') : \E k \in 1..Len(p2c) : p2c'[j] = p2c[k]
  <2> DEFINE S == [tag : {"clock", "gaveup"}, n : Nat, word : Nat]
  <2>1. p2c \in Seq(S) BY DEF PairedInv, TypeInv, TypeOK
  <2> HIDE DEF S
  <2> QED BY <1>5, <2>1, WithoutElements
<1>6. ASSUME UNCHANGED <<answers, deferred, c2p>>,
             \A j \in 1..Len(p2c') : \E k \in 1..Len(p2c) : p2c'[j] = p2c[k]
      PROVE  PairedInv'
  BY <1>2, <1>6, PairedQuiet
<1>7. CASE ChildStore
  <2>1. CASE deferred = NoTransfer
    BY <1>6, <1>7, <2>1 DEF ChildStore
  <2>2. CASE deferred # NoTransfer
    <3>1. /\ Accept(deferred, own + 1, TRUE, TRUE)
          /\ deferred' = NoTransfer /\ p2c' = p2c
      BY <1>7, <2>2 DEF ChildStore
    <3> QED BY <1>1, <1>3, <1>4, <2>2, <3>1, PairedAnswered
  <2> QED BY <2>1, <2>2
<1>8. CASE DeferralExpires
  <2>1. /\ Accept(deferred, own, armed, TRUE) /\ deferred # NoTransfer
        /\ deferred' = NoTransfer /\ p2c' = p2c
    BY <1>8 DEF DeferralExpires, DeferralAges
  <2> QED BY <1>1, <1>3, <1>4, <2>1, PairedAnswered
<1>9. CASE ChildClocked
  <2> PICK i \in 1..Len(p2c) :
        /\ p2c[i].tag = "clock"
        /\ \/ ClockSeen(p2c[i]) \/ ClockHeld(p2c[i])
           \/ ClockAlreadyHeld(p2c[i]) \/ ClockAccepted(p2c[i])
        /\ p2c' = Without(p2c, i)
    BY <1>9 DEF ChildClocked, Deliverable
  <2>1. CASE ClockSeen(p2c[i]) \/ ClockHeld(p2c[i]) \/ ClockAlreadyHeld(p2c[i])
    <3>1. UNCHANGED answers
      BY <2>1 DEF ClockSeen, ClockHeld, ClockAlreadyHeld
    <3> QED BY <1>1, <2>1, <3>1, PairedUnanswered
  <2>2. CASE ClockAccepted(p2c[i])
    <3> DEFINE t == [n |-> p2c[i].n, pw |-> p2c[i].word, cw |-> 0]
    <3>1. Accept(t, own, armed, FALSE) /\ deferred' = deferred
      BY <2>2 DEF ClockAccepted
    <3>2. p2c[i] \in [tag : {"clock", "gaveup"}, n : Nat, word : Nat]
      BY ElementOfSeq DEF PairedInv, TypeInv, TypeOK
    <3>3. t \in Transfer BY <3>2 DEF Transfer
    <3>4. Recent(t.n) /\ (t.n = awaiting => t.pw = pendingOut)
      BY DEF PairedInv, ClocksCarryLatched
    <3> HIDE DEF t
    <3>5. \A j \in 1..Len(p2c') : \E k \in 1..Len(p2c) : p2c'[j] = p2c[k]
      BY <1>5
    <3> QED BY <1>1, <1>3, <3>1, <3>3, <3>4, <3>5, PairedAnswered
  <2> QED BY <2>1, <2>2
<1>10. CASE ChildToldGaveUp
  <2> PICK i \in 1..Len(p2c) :
        p2c' = Without(p2c, i) /\ UNCHANGED <<answers, deferred, c2p>>
    BY <1>10 DEF ChildToldGaveUp, Deliverable
  <2> QED BY <1>5, <1>6
<1>11. CASE ChildStep
  <2>1. UNCHANGED <<answers, deferred, p2c, c2p>> BY <1>11 DEF ChildStep
  <2> QED BY <1>6, <2>1
<1>12. CASE ChildPark BY <1>6, <1>12 DEF ChildPark
<1>13. CASE ChildUnpark BY <1>6, <1>13 DEF ChildUnpark
<1>14. CASE ChildSelectMulti BY <1>6, <1>14 DEF ChildSelectMulti
<1> QED BY <1>7, <1>8, <1>9, <1>10, <1>11, <1>12, <1>13, <1>14 DEF ChildNext

LEMMA PairedLose ==
  ASSUME PairedInv, TypeInv', Lose
  PROVE  PairedInv'
<1>1. /\ UNCHANGED <<awaiting, pendingOut, outcome, answers, phase>>
      /\ deferred' = deferred /\ reply' = reply
  BY DEF Lose, parentVars, childVars
<1>2. CASE \E i \in 1..Len(p2c) : p2c' = Without(p2c, i) /\ UNCHANGED c2p
  <2> PICK i \in 1..Len(p2c) : p2c' = Without(p2c, i) /\ UNCHANGED c2p BY <1>2
  <2> DEFINE S == [tag : {"clock", "gaveup"}, n : Nat, word : Nat]
  <2>1. p2c \in Seq(S) BY DEF PairedInv, TypeInv, TypeOK
  <2> HIDE DEF S
  <2>2. \A j \in 1..Len(p2c') : \E k \in 1..Len(p2c) : p2c'[j] = p2c[k]
    BY <2>1, WithoutElements
  <2> QED BY <1>1, <2>2, PairedQuiet
<1>3. CASE \E i \in 1..Len(c2p) : c2p' = Without(c2p, i) /\ UNCHANGED p2c
  <2> PICK i \in 1..Len(c2p) : c2p' = Without(c2p, i) /\ UNCHANGED p2c BY <1>3
  <2> DEFINE S == [n : Nat, word : Nat]
  <2>1. c2p \in Seq(S) BY DEF PairedInv, TypeInv, TypeOK
  <2> HIDE DEF S
  <2>2. \A j \in 1..Len(c2p') : \E k \in 1..Len(c2p) : c2p'[j] = c2p[k]
    BY <2>1, WithoutElements
  <2> QED BY <1>1, <2>2, PairedQuiet
<1> QED BY <1>2, <1>3 DEF Lose

LEMMA PairedNext ==
  ASSUME PairedInv, ~LongOutages, [Next]_vars
  PROVE  PairedInv'
<1>1. TypeInv' BY TypeNext DEF PairedInv
<1>2. CASE ParentNext BY <1>1, <1>2, PairedParent
<1>3. CASE ChildNext BY <1>1, <1>3, PairedChild
<1>4. CASE Lose BY <1>1, <1>4, PairedLose
<1>5. CASE UNCHANGED vars
  <2>1. UNCHANGED parentVars /\ UNCHANGED childVars /\ UNCHANGED <<p2c, c2p>>
    BY <1>5 DEF vars
  <2> QED BY <1>1, <2>1, PairedQuiet DEF parentVars, childVars
<1> QED BY <1>2, <1>3, <1>4, <1>5 DEF Next

\* On any transport, however lossy and however much it reorders, for any window,
\* queue and modulus: a transfer that lands on the parent shows it the word the
\* child answered that very transfer with, and the word the child was clocked
\* with.  The one assumption is that the wire is not dead for a whole turn of
\* the sequence counter.
THEOREM PairedAlways ==
  ASSUME ~LongOutages
  PROVE  Spec => []Paired
<1>1. PairedInv /\ [Next]_vars => PairedInv' BY PairedNext
<1>2. PairedInv => Paired BY DEF PairedInv
<1> QED BY PairedInit, <1>1, <1>2, PTL DEF Spec
-----------------------------------------------------------------------------
(* Sequences                                                               *)

\* What is left of a sequence, in its order.
Keeps(t, s) ==
  \A j, k \in 1..Len(t) :
    \E a, b \in 1..Len(s) : t[j] = s[a] /\ t[k] = s[b] /\ (j < k => a < b)

LEMMA KeepsAll ==
  ASSUME NEW S, NEW s \in Seq(S)
  PROVE  Keeps(s, s)
  BY DEF Keeps

\* A packet taken from anywhere leaves the others in their order.
LEMMA KeepsWithout ==
  ASSUME NEW S, NEW s \in Seq(S), NEW i \in 1..Len(s)
  PROVE  Keeps(Without(s, i), s)
<1> DEFINE t == Without(s, i)
           at(j) == IF j < i THEN j ELSE j + 1
<1>1. Len(t) = Len(s) - 1 /\ Len(s) \in Nat
  BY LenProperties DEF Without
<1>2. \A j \in 1..Len(t) : t[j] = s[at(j)] /\ at(j) \in 1..Len(s)
  BY <1>1 DEF Without
<1>3. \A j, k \in 1..Len(t) : j < k => at(j) < at(k)
  BY <1>1
<1> HIDE DEF t, at
<1>4. Keeps(t, s)
  BY <1>2, <1>3 DEF Keeps
<1> QED
  BY <1>4 DEF t

\* So does taking the oldest.
LEMMA KeepsTail ==
  ASSUME NEW S, NEW s \in Seq(S), s # <<>>
  PROVE  /\ Tail(s) \in Seq(S)
         /\ Keeps(Tail(s), s)
         /\ Head(s) = s[1] /\ 1 \in 1..Len(s)
         /\ \A j \in 1..Len(Tail(s)) : Tail(s)[j] = s[j + 1] /\ j + 1 \in 1..Len(s)
<1>1. /\ Tail(s) \in Seq(S)
      /\ Len(s) \in Nat /\ Len(s) # 0 /\ Len(Tail(s)) = Len(s) - 1
      /\ Head(s) = s[1]
      /\ \A j \in 1..Len(Tail(s)) : Tail(s)[j] = s[j + 1]
  BY HeadTailProperties, LenProperties, EmptySeq
<1>2. \A j \in 1..Len(Tail(s)) : j + 1 \in 1..Len(s)
  BY <1>1
<1>3. Keeps(Tail(s), s)
  BY <1>1, <1>2 DEF Keeps
<1> QED
  BY <1>1, <1>2, <1>3

\* child_input keeps its order when the oldest entry makes room, and when a
\* transfer is taken back.
LEMMA KeepsKept ==
  ASSUME TypeInv
  PROVE  Kept \in Seq(Transfer) /\ Keeps(Kept, queue)
<1>1. queue \in Seq(Transfer)
  BY DEF TypeInv, TypeOK
<1>2. CASE Len(queue) >= QueueMax
  <2>1. queue # <<>>
    BY <1>2, CableAssumption, EmptySeq
  <2> QED
    BY <1>1, <1>2, <2>1, KeepsTail DEF Kept
<1>3. CASE ~(Len(queue) >= QueueMax)
  BY <1>1, <1>3, KeepsAll DEF Kept
<1> QED
  BY <1>2, <1>3

LEMMA KeepsTaken ==
  ASSUME TypeInv, NEW gone, TakeBack(gone)
  PROVE  /\ Keeps(queue', queue)
         /\ \A j \in 1..Len(queue') : ~SameSeq(queue'[j].n, gone)
<1> DEFINE kept == {j \in 1..Len(queue) : ~SameSeq(queue[j].n, gone)}
<1>1. PICK k \in 0..Len(queue) : \E f \in [1..k -> 1..Len(queue)] :
        /\ \A i, j \in 1..k : i < j => f[i] < f[j]
        /\ {f[i] : i \in 1..k} = kept
        /\ queue' = [i \in 1..k |-> queue[f[i]]]
  BY DEF TakeBack
<1>1a. PICK f \in [1..k -> 1..Len(queue)] :
        /\ \A i, j \in 1..k : i < j => f[i] < f[j]
        /\ {f[i] : i \in 1..k} = kept
        /\ queue' = [i \in 1..k |-> queue[f[i]]]
  BY <1>1
<1>2. Len(queue) \in Nat
  BY LenProperties DEF TypeInv, TypeOK
<1>3. Len(queue') = k /\ \A i \in 1..k : queue'[i] = queue[f[i]] /\ f[i] \in 1..Len(queue)
  BY <1>1a, <1>2
<1>4. \A i \in 1..k : f[i] \in kept
  BY <1>1a
<1>5. \A i \in 1..k : ~SameSeq(queue[f[i]].n, gone)
  BY <1>4
<1> HIDE DEF kept
<1>6. Keeps(queue', queue)
  BY <1>1a, <1>3 DEF Keeps
<1> QED
  BY <1>3, <1>5, <1>6

-----------------------------------------------------------------------------
(* What a step does to the answers                                         *)

\* accept_clock of the clock t, held back or not: an answer is recorded, and
\* queued for the game if the child is on the bus.
Answering(t, held) ==
  /\ \E cw \in Nat :
       /\ answers' = Append(answers, [n |-> t.n, pw |-> t.pw, cw |-> cw,
                                      bus |-> onBus, held |-> held])
       /\ queue' = IF onBus THEN Pushed([n |-> t.n, pw |-> t.pw, cw |-> cw]) ELSE queue
       /\ onBus => cw <= own'
       /\ ~onBus => cw = 0
  /\ UNCHANGED <<parentVars, words, shifted, delivered, flushed>>

\* The clock held back is answered: the store came, or the deferral expired.
HeldAnswered ==
  /\ deferred # NoTransfer /\ deferred' = NoTransfer
  /\ Answering(deferred, TRUE)
  /\ p2c' = p2c

\* A clock the child has not seen is taken off the wire, and answered ...
ClockTaken(i) ==
  /\ p2c[i].tag = "clock"
  /\ ~SeenBefore(p2c[i].n)
  /\ p2c' = Without(p2c, i)

ClockAnswered ==
  \E i \in Deliverable(p2c) :
    /\ ClockTaken(i)
    /\ deferred # NoTransfer => deferred.n # p2c[i].n
    /\ deferred' = deferred
    /\ Answering([n |-> p2c[i].n, pw |-> p2c[i].word, cw |-> 0], FALSE)

\* ... or held back.
ClockDeferred ==
  \E i \in Deliverable(p2c) :
    /\ ClockTaken(i)
    /\ deferred = NoTransfer
    /\ deferred' = [n |-> p2c[i].n, pw |-> p2c[i].word, cw |-> 0]
    /\ UNCHANGED <<parentVars, answers, queue, words, shifted, delivered, flushed>>

\* Any other step leaves both alone.  The line to the child's game then moves
\* on, loses a transfer taken back or flushed, or stays.
NoAnswer ==
  /\ UNCHANGED <<answers, deferred>>
  /\ \/ ChildStep
     \/ ChildToldGaveUp
     \/ ChildSelectMulti
     \/ UNCHANGED <<queue, words, shifted, delivered, flushed>>

LEMMA DeliverableIndex ==
  ASSUME NEW S, NEW s \in Seq(S), NEW i \in Deliverable(s)
  PROVE  i \in 1..Len(s) /\ (~Reordering => i = 1)
  BY DEF Deliverable

LEMMA WireType ==
  ASSUME TypeInv
  PROVE  /\ p2c \in Seq([tag : {"clock", "gaveup"}, n : Nat, word : Nat])
         /\ Len(p2c) \in Nat /\ Len(answers) \in Nat /\ Len(queue) \in Nat
         /\ Len(delivered) \in Nat /\ Begun \in Nat
         /\ \A i \in 1..Len(p2c) :
              p2c[i].n \in Nat /\ p2c[i].word \in Nat /\ p2c[i].tag \in {"clock", "gaveup"}
         /\ \A i \in 1..Len(answers) : answers[i] \in Answer
         /\ \A i \in 1..Len(queue) : queue[i] \in Transfer
         /\ \A i \in 1..Len(delivered) : delivered[i] \in Transfer
         /\ deferred \in Transfer /\ words \in Transfer
<1>1. /\ p2c \in Seq([tag : {"clock", "gaveup"}, n : Nat, word : Nat])
      /\ answers \in Seq(Answer) /\ queue \in Seq(Transfer)
      /\ delivered \in Seq(Transfer) /\ outcome \in Seq(Outcome)
      /\ deferred \in Transfer /\ words \in Transfer
  BY DEF TypeInv, TypeOK
<1>2. \A i \in 1..Len(p2c) : p2c[i] \in [tag : {"clock", "gaveup"}, n : Nat, word : Nat]
  BY <1>1, ElementOfSeq
<1>3. /\ \A i \in 1..Len(answers) : answers[i] \in Answer
      /\ \A i \in 1..Len(queue) : queue[i] \in Transfer
      /\ \A i \in 1..Len(delivered) : delivered[i] \in Transfer
  BY <1>1, ElementOfSeq
<1> QED
  BY <1>1, <1>2, <1>3, LenProperties DEF Begun

\* accept_clock, whoever calls it.
LEMMA AcceptAnswers ==
  ASSUME TypeInv, NEW t, NEW w \in Nat, NEW armd \in BOOLEAN,
         NEW held \in BOOLEAN, Accept(t, w, armd, held), onBus => w <= own',
         UNCHANGED <<parentVars, words, shifted, delivered, flushed>>
  PROVE  Answering(t, held)
<1> DEFINE cw == IF onBus THEN w ELSE Absent
<1>1. cw \in Nat /\ (onBus => cw <= own') /\ (~onBus => cw = 0)
  BY DEF Absent
<1>2. /\ answers' = Append(answers, [n |-> t.n, pw |-> t.pw, cw |-> cw,
                                     bus |-> onBus, held |-> held])
      /\ queue' = IF onBus THEN Pushed([n |-> t.n, pw |-> t.pw, cw |-> cw]) ELSE queue
  BY DEF Accept
<1> HIDE DEF cw
<1> QED
  BY <1>1, <1>2 DEF Answering

\* Every step is one of the four.
LEMMA StepKinds ==
  ASSUME TypeInv, [Next]_vars
  PROVE  HeldAnswered \/ ClockAnswered \/ ClockDeferred \/ NoAnswer
<1>0. /\ own \in Nat /\ own + 1 \in Nat /\ own <= own /\ own + 1 <= own + 1
      /\ armed \in BOOLEAN /\ TRUE \in BOOLEAN /\ FALSE \in BOOLEAN
  BY DEF TypeInv, TypeOK
<1>1. CASE ParentNext \/ Lose \/ UNCHANGED vars
  <2>1. UNCHANGED childVars
    BY <1>1 DEF ParentNext, ParentStore, ParentStart, ParentCollect, ParentOpenCircuit,
                ParentLand, ParentRetry, ParentTimeout, ParentSelectMulti,
                ParentReceive, ParentHearsPeer, Lose, vars
  <2> QED
    BY <2>1 DEF childVars, NoAnswer
<1>2. CASE ChildStore
  <2>1. CASE deferred = NoTransfer
    BY <1>2, <2>1 DEF ChildStore, NoAnswer
  <2>2. CASE deferred # NoTransfer
    <3>1. /\ Accept(deferred, own + 1, TRUE, TRUE)
          /\ own' = own + 1 /\ deferred' = NoTransfer /\ p2c' = p2c
          /\ UNCHANGED <<parentVars, words, shifted, delivered, flushed>>
      BY <1>2, <2>2 DEF ChildStore
    <3>2. Answering(deferred, TRUE)
      BY <1>0, <3>1, AcceptAnswers
    <3> QED
      BY <2>2, <3>1, <3>2 DEF HeldAnswered
  <2> QED
    BY <2>1, <2>2
<1>3. CASE DeferralExpires
  <2>1. /\ Accept(deferred, own, armed, TRUE) /\ deferred # NoTransfer
        /\ own' = own /\ deferred' = NoTransfer /\ p2c' = p2c
        /\ UNCHANGED <<parentVars, words, shifted, delivered, flushed>>
    BY <1>3 DEF DeferralExpires, DeferralAges
  <2>2. Answering(deferred, TRUE)
    BY <1>0, <2>1, AcceptAnswers
  <2> QED
    BY <2>1, <2>2 DEF HeldAnswered
<1>4. CASE ChildClocked
  <2> PICK i \in Deliverable(p2c) :
        /\ p2c[i].tag = "clock"
        /\ \/ ClockSeen(p2c[i]) \/ ClockHeld(p2c[i])
           \/ ClockAlreadyHeld(p2c[i]) \/ ClockAccepted(p2c[i])
        /\ p2c' = Without(p2c, i)
        /\ UNCHANGED <<parentVars, mode, parks, own, onBus, words, shifted, delivered,
                       flushed>>
    BY <1>4 DEF ChildClocked
  <2>1. CASE ClockSeen(p2c[i]) \/ ClockAlreadyHeld(p2c[i])
    BY <2>1 DEF ClockSeen, ClockAlreadyHeld, NoAnswer
  <2>2. CASE ClockHeld(p2c[i])
    <3>1. /\ ~SeenBefore(p2c[i].n) /\ deferred = NoTransfer
          /\ deferred' = [n |-> p2c[i].n, pw |-> p2c[i].word, cw |-> 0]
          /\ UNCHANGED <<answers, queue>>
      BY <2>2 DEF ClockHeld, MustHold
    <3> QED
      BY <3>1 DEF ClockDeferred, ClockTaken
  <2>3. CASE ClockAccepted(p2c[i])
    <3> DEFINE t == [n |-> p2c[i].n, pw |-> p2c[i].word, cw |-> 0]
    <3>1. /\ ~SeenBefore(p2c[i].n)
          /\ Accept(t, own, armed, FALSE) /\ deferred' = deferred
      BY <2>3 DEF ClockAccepted
    <3>2. deferred # NoTransfer => deferred.n # p2c[i].n
      BY <2>3 DEF ClockAccepted, SameSeq
    <3> HIDE DEF t
    <3>3. Answering(t, FALSE)
      BY <1>0, <3>1, AcceptAnswers
    <3> QED
      BY <3>1, <3>2, <3>3 DEF ClockAnswered, ClockTaken, t
  <2> QED
    BY <2>1, <2>2, <2>3
<1>5. CASE ChildToldGaveUp
  <2>1. UNCHANGED <<answers, deferred>>
    BY <1>5 DEF ChildToldGaveUp
  <2> QED
    BY <1>5, <2>1 DEF NoAnswer
<1>6. CASE ChildStep \/ ChildSelectMulti
  <2>1. UNCHANGED <<answers, deferred>>
    BY <1>6 DEF ChildStep, ChildSelectMulti
  <2> QED
    BY <1>6, <2>1 DEF NoAnswer
<1>7. CASE ChildPark \/ ChildUnpark
  BY <1>7 DEF ChildPark, ChildUnpark, NoAnswer
<1> QED
  BY <1>1, <1>2, <1>3, <1>4, <1>5, <1>6, <1>7 DEF Next, ChildNext

\* An answer is added behind the others, which stay as they are.
LEMMA AnsweringAdds ==
  ASSUME TypeInv, TypeInv', NEW t, NEW held, Answering(t, held)
  PROVE  /\ Len(answers) \in Nat /\ Len(answers') = Len(answers) + 1
         /\ \A i \in 1..Len(answers) : answers'[i] = answers[i]
         /\ answers'[Len(answers) + 1].n = t.n
         /\ answers'[Len(answers) + 1].pw = t.pw
         /\ answers'[Len(answers) + 1].bus = onBus
         /\ answers'[Len(answers) + 1].held = held
         /\ answers'[Len(answers) + 1].cw \in Nat
         /\ queue' = IF onBus
                     THEN Pushed([n |-> t.n, pw |-> t.pw,
                                  cw |-> answers'[Len(answers) + 1].cw])
                     ELSE queue
         /\ onBus => answers'[Len(answers) + 1].cw <= own'
         /\ ~onBus => answers'[Len(answers) + 1].cw = 0
<1> PICK cw \in Nat :
       /\ answers' = Append(answers, [n |-> t.n, pw |-> t.pw, cw |-> cw,
                                      bus |-> onBus, held |-> held])
       /\ queue' = IF onBus THEN Pushed([n |-> t.n, pw |-> t.pw, cw |-> cw]) ELSE queue
       /\ onBus => cw <= own'
       /\ ~onBus => cw = 0
  BY DEF Answering
<1> DEFINE a == [n |-> t.n, pw |-> t.pw, cw |-> cw, bus |-> onBus, held |-> held]
<1>1. answers \in Seq(Answer) /\ answers' \in Seq(Answer) /\ answers' = Append(answers, a)
  BY DEF TypeInv, TypeOK
<1>2. a.n = t.n /\ a.pw = t.pw /\ a.cw = cw /\ a.bus = onBus /\ a.held = held
  OBVIOUS
<1> HIDE DEF a
<1>3. /\ Len(answers) \in Nat /\ Len(answers') = Len(answers) + 1
      /\ \A i \in 1..Len(answers) : answers'[i] = answers[i]
      /\ answers'[Len(answers) + 1] = a
  BY <1>1, LenProperties
<1> QED
  BY <1>2, <1>3

-----------------------------------------------------------------------------
(* Each clock is answered once                                             *)

\* A clock on the wire that has been answered is still remembered: what
\* SEEN_WINDOW is for.
ClocksInWindow ==
  \A i \in 1..Len(p2c), j \in 1..Len(answers) :
    p2c[i].tag = "clock" /\ answers[j].n = p2c[i].n => j \in SeenEntries

HeldUnanswered ==
  deferred # NoTransfer => \A i \in 1..Len(answers) : answers[i].n # deferred.n

OnceInv == TypeInv /\ AnsweredOnce /\ HeldUnanswered

LEMMA TakenUnanswered ==
  ASSUME TypeInv, ClocksInWindow, NEW i \in 1..Len(p2c), ClockTaken(i)
  PROVE  \A j \in 1..Len(answers) : answers[j].n # p2c[i].n
  BY DEF ClockTaken, ClocksInWindow, SeenBefore, SameSeq

LEMMA OnceInit == Init => OnceInv
<1> SUFFICES ASSUME Init
             PROVE  OnceInv
  OBVIOUS
<1>1. Len(answers) = 0
  BY DEF Init
<1> QED
  BY <1>1, TypeInit DEF OnceInv, AnsweredOnce, HeldUnanswered

LEMMA OnceNext ==
  ASSUME OnceInv, ClocksInWindow, [Next]_vars
  PROVE  OnceInv'
<1>1. TypeInv /\ TypeInv' /\ AnsweredOnce /\ HeldUnanswered
  BY TypeNext DEF OnceInv
<1>2. ASSUME NEW t, NEW held, Answering(t, held),
             \A j \in 1..Len(answers) : answers[j].n # t.n
      PROVE  AnsweredOnce'
  <2>1. /\ Len(answers) \in Nat /\ Len(answers') = Len(answers) + 1
        /\ \A i \in 1..Len(answers) : answers'[i] = answers[i]
        /\ answers'[Len(answers) + 1].n = t.n
    BY <1>1, <1>2, AnsweringAdds
  <2> QED
    BY <1>1, <1>2, <2>1 DEF AnsweredOnce
<1>3. CASE HeldAnswered
  BY <1>1, <1>2, <1>3 DEF HeldAnswered, HeldUnanswered, OnceInv
<1>4. CASE ClockAnswered
  <2>1. PICK i \in 1..Len(p2c) :
          /\ ClockTaken(i)
          /\ deferred # NoTransfer => deferred.n # p2c[i].n
          /\ deferred' = deferred
          /\ Answering([n |-> p2c[i].n, pw |-> p2c[i].word, cw |-> 0], FALSE)
    BY <1>1, <1>4, WireType, DeliverableIndex DEF ClockAnswered
  <2> DEFINE t == [n |-> p2c[i].n, pw |-> p2c[i].word, cw |-> 0]
  <2>2. t.n = p2c[i].n /\ Answering(t, FALSE)
    BY <2>1
  <2> HIDE DEF t
  <2>3. \A j \in 1..Len(answers) : answers[j].n # t.n
    BY <1>1, <2>1, <2>2, TakenUnanswered
  <2>4. AnsweredOnce'
    BY <1>2, <2>2, <2>3
  <2>5. HeldUnanswered'
    <3>1. /\ Len(answers) \in Nat /\ Len(answers') = Len(answers) + 1
          /\ \A j \in 1..Len(answers) : answers'[j] = answers[j]
          /\ answers'[Len(answers) + 1].n = t.n
      BY <1>1, <2>2, AnsweringAdds
    <3> QED
      BY <1>1, <2>1, <2>2, <3>1 DEF HeldUnanswered
  <2> QED
    BY <1>1, <2>4, <2>5 DEF OnceInv
<1>5. CASE ClockDeferred
  <2>1. PICK i \in 1..Len(p2c) :
          /\ ClockTaken(i)
          /\ deferred'.n = p2c[i].n
          /\ UNCHANGED answers
    BY <1>1, <1>5, WireType, DeliverableIndex DEF ClockDeferred
  <2>2. \A j \in 1..Len(answers) : answers[j].n # p2c[i].n
    BY <1>1, <2>1, TakenUnanswered
  <2> QED
    BY <1>1, <2>1, <2>2 DEF OnceInv, AnsweredOnce, HeldUnanswered
<1>6. CASE NoAnswer
  BY <1>1, <1>6 DEF NoAnswer, OnceInv, AnsweredOnce, HeldUnanswered
<1> QED
  BY <1>1, <1>3, <1>4, <1>5, <1>6, StepKinds

\* However the transport loses, repeats and reorders, and however long a clock
\* is held back: as long as no clock outlives the window of answers remembered,
\* the child answers each once at most (cable.rs seen, deferred).
THEOREM AnsweredOnceInWindow == Spec /\ []ClocksInWindow => []AnsweredOnce
<1>1. OnceInv /\ ClocksInWindow /\ [Next]_vars => OnceInv'
  BY OnceNext
<1>2. OnceInv => AnsweredOnce
  BY DEF OnceInv
<1> QED
  BY OnceInit, <1>1, <1>2, PTL DEF Spec

-----------------------------------------------------------------------------
(* The wire and the line to the child's game                               *)

\* A transfer queued for the game goes behind what is kept.
LEMMA PushedLine ==
  ASSUME TypeInv, NEW t \in Transfer, queue' = Pushed(t)
  PROVE  /\ Keeps(Kept, queue)
         /\ Len(Kept) \in Nat /\ Len(queue') = Len(Kept) + 1
         /\ \A j \in 1..Len(Kept) : queue'[j] = Kept[j]
         /\ queue'[Len(Kept) + 1] = t
<1>1. Kept \in Seq(Transfer) /\ Keeps(Kept, queue)
  BY KeepsKept
<1> QED
  BY <1>1, AppendType, LenProperties DEF Pushed

LEMMA NoAnswerQueue ==
  ASSUME TypeInv, NoAnswer
  PROVE  Keeps(queue', queue)
<1>0. queue \in Seq(Transfer)
  BY DEF TypeInv, TypeOK
<1>1. CASE ChildStep
  <2>1. queue' = queue \/ (queue # <<>> /\ queue' = Tail(queue))
    BY <1>1 DEF ChildStep
  <2> QED
    BY <1>0, <2>1, KeepsAll, KeepsTail
<1>2. CASE ChildToldGaveUp
  <2>1. (\E gone : TakeBack(gone)) \/ queue' = queue
    BY <1>2 DEF ChildToldGaveUp
  <2> QED
    BY <1>0, <2>1, KeepsAll, KeepsTaken
<1>3. CASE ChildSelectMulti
  <2>1. queue' = <<>>
    BY <1>3 DEF ChildSelectMulti
  <2> QED
    BY <2>1 DEF Keeps
<1>4. CASE UNCHANGED <<queue, words, shifted, delivered, flushed>>
  BY <1>0, <1>4, KeepsAll
<1> QED
  BY <1>1, <1>2, <1>3, <1>4 DEF NoAnswer

\* The exchange awaited has not been concluded.
AwaitedRuns == awaiting # 0 => outcome[awaiting].kind = "begun"

\* Everything that names an exchange names one the parent began, and but for
\* the child's memory of its answers, one of the last turn.
InPlayRecent ==
  /\ \A i \in 1..Len(p2c) : Recent(p2c[i].n)
  /\ deferred # NoTransfer => Recent(deferred.n)
  /\ \A i \in 1..Len(queue) : Recent(queue[i].n)
  /\ \A i \in 1..Len(answers) : answers[i].n \in 1..Begun
GaveUpNotAwaited ==
  \A i \in 1..Len(p2c) : p2c[i].tag = "gaveup" => p2c[i].n # awaiting

WireInv == TypeInv /\ AwaitsNewest /\ AwaitedRuns /\ InPlayRecent /\ GaveUpNotAwaited

\* What a step does to the wire and to the exchanges' numbers.
WireQuiet ==
  /\ Begun' = Begun /\ awaiting' \in {awaiting, 0}
  /\ AwaitsNewest' /\ AwaitedRuns'
  /\ Keeps(p2c', p2c)
WireGaveUp ==
  /\ Begun' = Begun /\ awaiting = Begun /\ awaiting # 0 /\ awaiting' = 0
  /\ AwaitsNewest' /\ AwaitedRuns'
  /\ p2c' = Append(p2c, GaveUp(awaiting))
  /\ UNCHANGED <<childVars, c2p>>
WireRetried ==
  /\ UNCHANGED <<parentVars, childVars>> /\ awaiting = Begun /\ awaiting # 0
  /\ p2c' = Append(p2c, Clock(awaiting, pendingOut))
WireStarted ==
  /\ Begun' = Begun + 1 /\ awaiting' = Begun + 1
  /\ AwaitsNewest' /\ AwaitedRuns'
  /\ WithinWrap
  /\ p2c' = Append(p2c, Clock(Begun + 1, pOut))
  /\ UNCHANGED <<childVars, c2p>>

LEMMA ConcludeKeeps ==
  ASSUME TypeInv, AwaitsNewest, phase # "idle", phase' = "idle", awaiting' = 0,
         NEW kind \in {"landed", "late", "gone"}, NEW o \in Nat, NEW p \in Nat,
         Conclude(kind, o, p)
  PROVE  /\ Begun' = Begun /\ awaiting = Begun /\ awaiting \in 1..Begun
         /\ AwaitsNewest' /\ AwaitedRuns'
         /\ outcome'[awaiting] = [kind |-> kind, own |-> o, peer |-> p]
         /\ \A n \in 1..Begun : n # awaiting => outcome'[n] = outcome[n]
<1>1. Begun \in Nat
  BY WireType
<1>2. awaiting = Begun /\ awaiting \in 1..Begun
  BY <1>1 DEF AwaitsNewest
<1>3. TypeOK
  BY DEF TypeInv
<1> QED
  BY <1>2, <1>3, OutcomeKept DEF AwaitsNewest, AwaitedRuns

LEMMA WireKinds ==
  ASSUME TypeInv, AwaitsNewest, AwaitedRuns, [Next]_vars
  PROVE  WireQuiet \/ WireGaveUp \/ WireRetried \/ WireStarted
<1>0. /\ p2c \in Seq([tag : {"clock", "gaveup"}, n : Nat, word : Nat])
      /\ Begun \in Nat /\ pendingOut \in Nat /\ Absent \in Nat
      /\ outcome \in Seq(Outcome)
  BY WireType DEF TypeInv, TypeOK, Absent
<1>1. ASSUME p2c' = p2c, UNCHANGED <<outcome, awaiting, phase>>
      PROVE  WireQuiet
  BY <1>0, <1>1, KeepsAll DEF WireQuiet, AwaitsNewest, AwaitedRuns, Begun
<1>2. ASSUME NEW i \in 1..Len(p2c), p2c' = Without(p2c, i), UNCHANGED parentVars
      PROVE  WireQuiet
  BY <1>0, <1>2, KeepsWithout DEF WireQuiet, AwaitsNewest, AwaitedRuns, Begun, parentVars
<1>3. CASE ParentStore
  BY <1>1, <1>3 DEF ParentStore
<1>4. CASE ParentStart
  <2> DEFINE e == [kind |-> "begun", own |-> 0, peer |-> 0]
  <2>1. /\ outcome' = Append(outcome, e) /\ awaiting' = Begun + 1
        /\ phase' = "shifting" /\ WithinWrap
        /\ p2c' = Append(p2c, Clock(Begun + 1, pOut))
        /\ UNCHANGED <<childVars, c2p>>
    BY <1>4 DEF ParentStart, BeginExchange
  <2>2. e \in Outcome /\ e.kind = "begun"
    BY DEF Outcome
  <2> HIDE DEF e
  <2>3. Len(outcome') = Len(outcome) + 1 /\ outcome'[Len(outcome) + 1] = e
    BY <1>0, <2>1, <2>2, AppendType
  <2>4. Begun' = Begun + 1 /\ AwaitsNewest' /\ AwaitedRuns'
    BY <1>0, <2>1, <2>2, <2>3 DEF Begun, AwaitsNewest, AwaitedRuns
  <2> QED
    BY <2>1, <2>4 DEF WireStarted
<1>5. CASE ParentCollect
  <2>1. p2c' = p2c /\ UNCHANGED <<outcome, awaiting>> /\ phase = "shifting"
    BY <1>5 DEF ParentCollect
  <2> QED
    BY <1>0, <2>1, KeepsAll DEF WireQuiet, AwaitsNewest, AwaitedRuns, Begun
<1>6. CASE ParentOpenCircuit
  <2>1. /\ phase # "idle" /\ phase' = "idle" /\ awaiting' = 0
        /\ Conclude("gone", pendingOut, Absent)
        /\ p2c' = Append(p2c, GaveUp(awaiting)) /\ UNCHANGED <<childVars, c2p>>
    BY <1>6 DEF ParentOpenCircuit, Abandon
  <2>2. Begun' = Begun /\ awaiting = Begun /\ awaiting \in 1..Begun /\ AwaitsNewest' /\ AwaitedRuns'
    BY <1>0, <2>1, ConcludeKeeps
  <2> QED
    BY <1>0, <2>1, <2>2 DEF WireGaveUp
<1>7. CASE ParentTimeout
  <2>1. /\ phase # "idle" /\ phase' = "idle" /\ awaiting' = 0
        /\ Conclude("late", pendingOut, Absent)
        /\ p2c' = Append(p2c, GaveUp(awaiting)) /\ UNCHANGED <<childVars, c2p>>
    BY <1>7 DEF ParentTimeout, Abandon
  <2>2. Begun' = Begun /\ awaiting = Begun /\ awaiting \in 1..Begun /\ AwaitsNewest' /\ AwaitedRuns'
    BY <1>0, <2>1, ConcludeKeeps
  <2> QED
    BY <1>0, <2>1, <2>2 DEF WireGaveUp
<1>8. CASE ParentLand
  <2>1. /\ phase # "idle" /\ phase' = "idle" /\ awaiting' = 0 /\ reply \in Nat
        /\ Conclude("landed", pendingOut, reply) /\ p2c' = p2c
    BY <1>8 DEF ParentLand, TypeInv, TypeOK
  <2>2. Begun' = Begun /\ AwaitsNewest' /\ AwaitedRuns'
    BY <1>0, <2>1, ConcludeKeeps
  <2> QED
    BY <1>0, <2>1, <2>2, KeepsAll DEF WireQuiet
<1>9. CASE ParentRetry
  <2>1. /\ UNCHANGED <<parentVars, childVars>> /\ phase = "waiting"
        /\ p2c' = Append(p2c, Clock(awaiting, pendingOut))
    BY <1>9 DEF ParentRetry
  <2> QED
    BY <2>1 DEF WireRetried, AwaitsNewest
<1>10. CASE ParentSelectMulti
  <2>1. awaiting' = 0 /\ phase' = "idle" /\ UNCHANGED <<outcome, p2c>>
    BY <1>10 DEF ParentSelectMulti
  <2> QED
    BY <1>0, <2>1, KeepsAll DEF WireQuiet, AwaitsNewest, AwaitedRuns, Begun
<1>11. CASE ParentReceive \/ ParentHearsPeer
  BY <1>1, <1>11 DEF ParentReceive, ParentHearsPeer
<1>12. CASE ChildClocked \/ ChildToldGaveUp
  <2>1. PICK i \in Deliverable(p2c) : p2c' = Without(p2c, i) /\ UNCHANGED parentVars
    BY <1>12 DEF ChildClocked, ChildToldGaveUp
  <2> QED
    BY <1>2, <2>1, DeliverableIndex, <1>0
<1>13. CASE \/ ChildStore \/ DeferralExpires \/ ChildStep \/ ChildPark \/ ChildUnpark
            \/ ChildSelectMulti \/ UNCHANGED vars
  <2>1. UNCHANGED <<parentVars, p2c>>
    BY <1>13 DEF ChildStore, DeferralExpires, ChildStep, ChildPark, ChildUnpark,
                 ChildSelectMulti, vars
  <2> QED
    BY <1>1, <2>1 DEF parentVars
<1>14. CASE Lose
  <2>1. UNCHANGED parentVars /\ (p2c' = p2c \/ \E i \in 1..Len(p2c) : p2c' = Without(p2c, i))
    BY <1>14 DEF Lose
  <2> QED
    BY <1>1, <1>2, <2>1 DEF parentVars
<1> QED
  BY <1>3, <1>4, <1>5, <1>6, <1>7, <1>8, <1>9, <1>10, <1>11, <1>12, <1>13, <1>14
     DEF Next, ParentNext, ChildNext

\* One more packet.
LEMMA WireAppended ==
  ASSUME TypeInv, NEW e \in [tag : {"clock", "gaveup"}, n : Nat, word : Nat],
         p2c' = Append(p2c, e)
  PROVE  /\ Len(p2c) \in Nat /\ Len(p2c') = Len(p2c) + 1
         /\ \A i \in 1..Len(p2c) : p2c'[i] = p2c[i]
         /\ p2c'[Len(p2c) + 1] = e
  BY WireType, AppendType

LEMMA WireInit == Init => WireInv
<1> SUFFICES ASSUME Init
             PROVE  WireInv
  OBVIOUS
<1>1. TypeInv
  BY TypeInit
<1>2. /\ Len(p2c) = 0 /\ Len(queue) = 0 /\ Len(answers) = 0
      /\ deferred = NoTransfer /\ awaiting = 0 /\ phase = "idle"
  BY DEF Init
<1> QED
  BY <1>1, <1>2 DEF WireInv, AwaitsNewest, AwaitedRuns, InPlayRecent, GaveUpNotAwaited

\* Recent, once the step is taken.
StaysRecent(n) == n \in 1..Begun' /\ Begun' - n < SeqMod

LEMMA RecentWire ==
  ASSUME WireInv, TypeInv', WireQuiet \/ WireGaveUp \/ WireRetried \/ WireStarted
  PROVE  /\ \A n : Recent(n) /\ (WireStarted => n \in InPlay) => StaysRecent(n)
         /\ Begun' \in {Begun, Begun + 1} /\ Begun \in Nat
         /\ \A i \in 1..Len(p2c') : StaysRecent(p2c'[i].n)
         /\ GaveUpNotAwaited'
         /\ AwaitsNewest' /\ AwaitedRuns'
<1> USE DEF WireInv
<1>0. /\ Begun \in Nat /\ SeqMod \in Nat /\ SeqMod >= 2
      /\ pOut \in Nat /\ pendingOut \in Nat /\ awaiting \in Nat
  BY WireType, CableAssumption DEF TypeInv, TypeOK
<1>1. CASE WireQuiet
  <2>1. /\ Begun' = Begun /\ awaiting' \in {awaiting, 0} /\ Keeps(p2c', p2c)
        /\ AwaitsNewest' /\ AwaitedRuns'
    BY <1>1 DEF WireQuiet
  <2>2. \A i \in 1..Len(p2c') : \E a \in 1..Len(p2c) : p2c'[i] = p2c[a]
    BY <2>1 DEF Keeps
  <2>3. \A i \in 1..Len(p2c') : Recent(p2c'[i].n)
    BY <2>2 DEF InPlayRecent
  <2>4. \A n : Recent(n) => StaysRecent(n)
    BY <2>1 DEF Recent, StaysRecent
  <2>5. GaveUpNotAwaited'
    <3>1. \A a \in 1..Len(p2c) : p2c[a].n # 0
      BY DEF InPlayRecent, Recent, StaysRecent
    <3> QED
      BY <2>1, <2>2, <3>1 DEF GaveUpNotAwaited
  <2>6. \A i \in 1..Len(p2c') : StaysRecent(p2c'[i].n)
    BY <2>1, <2>3 DEF Recent, StaysRecent
  <2> QED
    BY <1>0, <2>1, <2>4, <2>5, <2>6
<1>2. ASSUME NEW e \in [tag : {"clock", "gaveup"}, n : Nat, word : Nat],
             p2c' = Append(p2c, e), e.n = Begun', Begun' >= 1,
             \A i \in 1..Len(p2c) : StaysRecent(p2c[i].n),
             e.tag = "gaveup" => awaiting' = 0,
             Begun' \in {Begun, Begun + 1}, awaiting' \in {awaiting, 0, Begun + 1}
      PROVE  (\A i \in 1..Len(p2c') : StaysRecent(p2c'[i].n)) /\ GaveUpNotAwaited'
  <2>1. /\ Len(p2c) \in Nat /\ Len(p2c') = Len(p2c) + 1
        /\ \A i \in 1..Len(p2c) : p2c'[i] = p2c[i]
        /\ p2c'[Len(p2c) + 1] = e
    BY <1>2, WireAppended
  <2>1a. Begun' \in Nat
    BY <1>0, <1>2
  <2>1b. \A m \in Nat : m >= 1 => m \in 1..m /\ m - m < SeqMod
    BY <1>0
  <2>2. StaysRecent(e.n)
    BY <1>2, <2>1a, <2>1b DEF Recent, StaysRecent
  <2>3. \A i \in 1..Len(p2c) : p2c[i].n \in 1..Begun
    BY DEF InPlayRecent, Recent, StaysRecent
  <2>4. GaveUpNotAwaited'
    BY <1>0, <1>2, <2>1, <2>3 DEF GaveUpNotAwaited
  <2>5. \A i \in 1..Len(p2c') : StaysRecent(p2c'[i].n)
    <3> TAKE i \in 1..Len(p2c')
    <3>1. CASE i \in 1..Len(p2c)
      BY <1>2, <2>1, <3>1 DEF Recent, StaysRecent
    <3>2. CASE i = Len(p2c) + 1
      BY <2>1, <2>2, <3>2 DEF Recent, StaysRecent
    <3> QED
      BY <2>1, <3>1, <3>2
  <2> QED
    BY <2>4, <2>5
<1>3. CASE WireGaveUp
  <2> DEFINE e == GaveUp(awaiting)
  <2>1. /\ Begun' = Begun /\ awaiting = Begun /\ awaiting # 0 /\ awaiting' = 0
        /\ AwaitsNewest' /\ AwaitedRuns' /\ p2c' = Append(p2c, e)
    BY <1>3 DEF WireGaveUp
  <2>2. e \in [tag : {"clock", "gaveup"}, n : Nat, word : Nat] /\ e.n = awaiting
    BY <1>0 DEF GaveUp
  <2> HIDE DEF e
  <2>3. \A n : Recent(n) => StaysRecent(n)
    BY <2>1 DEF Recent, StaysRecent
  <2>4. \A i \in 1..Len(p2c) : StaysRecent(p2c[i].n)
    BY <2>1 DEF InPlayRecent, Recent, StaysRecent
  <2>5. (\A i \in 1..Len(p2c') : StaysRecent(p2c'[i].n)) /\ GaveUpNotAwaited'
    BY <1>0, <1>2, <2>1, <2>2, <2>4
  <2> QED
    BY <1>0, <2>1, <2>3, <2>5
<1>4. CASE WireRetried
  <2> DEFINE e == Clock(awaiting, pendingOut)
  <2>1. /\ awaiting = Begun /\ awaiting # 0 /\ p2c' = Append(p2c, e)
        /\ UNCHANGED <<awaiting, phase, outcome>>
    BY <1>4 DEF WireRetried, parentVars
  <2>2. /\ e \in [tag : {"clock", "gaveup"}, n : Nat, word : Nat]
        /\ e.n = awaiting /\ e.tag = "clock"
    BY <1>0 DEF Clock
  <2> HIDE DEF e
  <2>3. Begun' = Begun /\ AwaitsNewest' /\ AwaitedRuns'
    BY <2>1 DEF Begun, AwaitsNewest, AwaitedRuns
  <2>4. \A n : Recent(n) => StaysRecent(n)
    BY <2>3 DEF Recent, StaysRecent
  <2>5. \A i \in 1..Len(p2c) : StaysRecent(p2c[i].n)
    BY <2>3 DEF InPlayRecent, Recent, StaysRecent
  <2>6. (\A i \in 1..Len(p2c') : StaysRecent(p2c'[i].n)) /\ GaveUpNotAwaited'
    BY <1>0, <1>2, <2>1, <2>2, <2>3, <2>5
  <2> QED
    BY <1>0, <2>3, <2>4, <2>6
<1>5. CASE WireStarted
  <2> DEFINE e == Clock(Begun + 1, pOut)
  <2>1. /\ Begun' = Begun + 1 /\ awaiting' = Begun + 1 /\ p2c' = Append(p2c, e)
        /\ AwaitsNewest' /\ AwaitedRuns' /\ WithinWrap
    BY <1>5 DEF WireStarted
  <2>2. /\ e \in [tag : {"clock", "gaveup"}, n : Nat, word : Nat]
        /\ e.n = Begun + 1 /\ e.tag = "clock"
    BY <1>0 DEF Clock
  <2> HIDE DEF e
  <2>3. \A m \in InPlay : Begun + 1 - m < SeqMod
    BY <2>1 DEF WithinWrap, WithinTurn
  <2>4. \A n : Recent(n) /\ n \in InPlay => StaysRecent(n)
    BY <1>0, <2>1, <2>3 DEF Recent, StaysRecent
  <2>5. \A i \in 1..Len(p2c) : p2c[i].n \in InPlay
    BY DEF InPlay
  <2>6. \A i \in 1..Len(p2c) : StaysRecent(p2c[i].n)
    BY <1>0, <2>1, <2>3, <2>5 DEF InPlayRecent, Recent, StaysRecent
  <2>7. (\A i \in 1..Len(p2c') : StaysRecent(p2c'[i].n)) /\ GaveUpNotAwaited'
    BY <1>0, <1>2, <2>1, <2>2, <2>6
  <2> QED
    BY <1>0, <1>5, <2>1, <2>4, <2>7
<1> QED
  BY <1>1, <1>3, <1>4, <1>5

LEMMA WireNext ==
  ASSUME WireInv, [Next]_vars
  PROVE  WireInv'
<1>1. TypeInv /\ TypeInv' /\ AwaitsNewest /\ AwaitedRuns
  BY TypeNext DEF WireInv
<1>2. WireQuiet \/ WireGaveUp \/ WireRetried \/ WireStarted
  BY <1>1, WireKinds
<1>3. /\ \A n : Recent(n) /\ (WireStarted => n \in InPlay) => StaysRecent(n)
      /\ Begun' \in {Begun, Begun + 1} /\ Begun \in Nat
      /\ \A i \in 1..Len(p2c') : StaysRecent(p2c'[i].n)
      /\ GaveUpNotAwaited'
      /\ AwaitsNewest' /\ AwaitedRuns'
  BY <1>1, <1>2, RecentWire
<1>4. /\ deferred # NoTransfer => StaysRecent(deferred.n)
      /\ \A i \in 1..Len(queue) : StaysRecent(queue[i].n)
      /\ \A i \in 1..Len(p2c) : StaysRecent(p2c[i].n)
  <2>1. /\ deferred # NoTransfer => Recent(deferred.n) /\ deferred.n \in InPlay
        /\ \A i \in 1..Len(queue) : Recent(queue[i].n) /\ queue[i].n \in InPlay
        /\ \A i \in 1..Len(p2c) : Recent(p2c[i].n) /\ p2c[i].n \in InPlay
    BY DEF WireInv, InPlayRecent, InPlay
  <2> QED
    BY <1>3, <2>1
<1>5. \A n \in 1..Begun : n \in 1..Begun'
  BY <1>3
<1>6. ASSUME NEW t, NEW held, Answering(t, held), StaysRecent(t.n),
             t.n \in Nat, t.pw \in Nat
      PROVE  /\ \A i \in 1..Len(queue') : StaysRecent(queue'[i].n)
             /\ \A i \in 1..Len(answers') : answers'[i].n \in 1..Begun'
  <2> DEFINE a == answers'[Len(answers) + 1]
             u == [n |-> t.n, pw |-> t.pw, cw |-> a.cw]
  <2>1. /\ Len(answers) \in Nat /\ Len(answers') = Len(answers) + 1
        /\ \A i \in 1..Len(answers) : answers'[i] = answers[i]
        /\ a.n = t.n /\ a.cw \in Nat
        /\ queue' = IF onBus THEN Pushed(u) ELSE queue
    BY <1>1, <1>6, AnsweringAdds
  <2>2. u \in Transfer /\ u.n = t.n
    BY <1>6, <2>1 DEF Transfer
  <2> HIDE DEF a, u
  <2>3. \A i \in 1..Len(answers') : answers'[i].n \in 1..Begun'
    <3> TAKE i \in 1..Len(answers')
    <3>1. CASE i \in 1..Len(answers)
      BY <1>5, <2>1, <3>1 DEF WireInv, InPlayRecent
    <3>2. CASE i = Len(answers) + 1
      BY <1>6, <2>1, <3>2 DEF Recent, StaysRecent, a
    <3> QED
      BY <2>1, <3>1, <3>2
  <2>4. CASE ~onBus
    BY <1>4, <2>1, <2>3, <2>4 DEF Recent, StaysRecent
  <2>5. CASE onBus
    <3>1. /\ Keeps(Kept, queue)
          /\ Len(Kept) \in Nat /\ Len(queue') = Len(Kept) + 1
          /\ \A j \in 1..Len(Kept) : queue'[j] = Kept[j]
          /\ queue'[Len(Kept) + 1] = u
      BY <1>1, <2>1, <2>2, <2>5, PushedLine
    <3>2. \A j \in 1..Len(Kept) : \E k \in 1..Len(queue) : Kept[j] = queue[k]
      BY <3>1 DEF Keeps
    <3>3. \A i \in 1..Len(queue') : queue'[i] = u \/ \E k \in 1..Len(queue) : queue'[i] = queue[k]
      BY <3>1, <3>2
    <3> QED
      BY <1>4, <1>6, <2>2, <2>3, <3>3 DEF Recent, StaysRecent
  <2> QED
    BY <2>4, <2>5
<1>7. CASE HeldAnswered
  <2>1. /\ deferred # NoTransfer /\ deferred' = NoTransfer
        /\ Answering(deferred, TRUE) /\ StaysRecent(deferred.n)
        /\ deferred.n \in Nat /\ deferred.pw \in Nat
    BY <1>1, <1>4, <1>7, WireType DEF HeldAnswered, Transfer
  <2>2. /\ \A i \in 1..Len(queue') : StaysRecent(queue'[i].n)
        /\ \A i \in 1..Len(answers') : answers'[i].n \in 1..Begun'
    BY <1>6, <2>1
  <2> QED
    BY <1>1, <1>3, <2>1, <2>2 DEF WireInv, InPlayRecent, Recent, StaysRecent
<1>8. CASE ClockAnswered
  <2>1. PICK i \in 1..Len(p2c) :
          /\ deferred' = deferred
          /\ Answering([n |-> p2c[i].n, pw |-> p2c[i].word, cw |-> 0], FALSE)
    BY <1>1, <1>8, WireType, DeliverableIndex DEF ClockAnswered
  <2> DEFINE t == [n |-> p2c[i].n, pw |-> p2c[i].word, cw |-> 0]
  <2>2. /\ t.n = p2c[i].n /\ t.pw = p2c[i].word /\ Answering(t, FALSE)
        /\ t.n \in Nat /\ t.pw \in Nat
    BY <1>1, <2>1, WireType
  <2> HIDE DEF t
  <2>3. StaysRecent(t.n)
    BY <1>4, <2>2 DEF Recent, StaysRecent
  <2>4. /\ \A j \in 1..Len(queue') : StaysRecent(queue'[j].n)
        /\ \A j \in 1..Len(answers') : answers'[j].n \in 1..Begun'
    BY <1>6, <2>2, <2>3
  <2> QED
    BY <1>1, <1>3, <1>4, <2>1, <2>4 DEF WireInv, InPlayRecent, Recent, StaysRecent
<1>9. CASE ClockDeferred
  <2>1. PICK i \in 1..Len(p2c) : deferred'.n = p2c[i].n /\ UNCHANGED <<answers, queue>>
    BY <1>1, <1>9, WireType, DeliverableIndex DEF ClockDeferred
  <2> QED
    BY <1>1, <1>3, <1>4, <1>5, <2>1 DEF WireInv, InPlayRecent, Recent, StaysRecent
<1>10. CASE NoAnswer
  <2>1. UNCHANGED <<answers, deferred>>
    BY <1>10 DEF NoAnswer
  <2>2. \A i \in 1..Len(queue') : \E k \in 1..Len(queue) : queue'[i] = queue[k]
    BY <1>1, <1>10, NoAnswerQueue DEF Keeps
  <2>3. \A i \in 1..Len(answers) : answers[i].n \in 1..Begun
    BY DEF WireInv, InPlayRecent
  <2> QED
    BY <1>1, <1>3, <1>4, <1>5, <2>1, <2>2, <2>3 DEF WireInv, InPlayRecent, Recent, StaysRecent
<1> QED
  BY <1>1, <1>7, <1>8, <1>9, <1>10, StepKinds

-----------------------------------------------------------------------------
(* A wire that keeps its order                                             *)

\* Packets travel in the order of their exchanges, a give-up behind the clocks
\* of its own.
WireOrdered ==
  \A i, j \in 1..Len(p2c) :
    i < j => /\ p2c[i].n <= p2c[j].n
             /\ (p2c[i].tag = "gaveup" /\ p2c[j].tag = "clock") => p2c[i].n < p2c[j].n

\* The child has answered nothing newer than n, and if it has answered n it has
\* answered nothing since, but for a clock it was holding back.
AheadOfAnswers(n) ==
  /\ deferred # NoTransfer => deferred.n <= n
  /\ \A i \in 1..Len(answers) :
       /\ answers[i].n <= n
       /\ answers[i].n = n =>
            i = Len(answers) \/ (i = Len(answers) - 1 /\ deferred = NoTransfer)

AnswersBehind ==
  /\ AheadOfAnswers(Begun)
  /\ \A i \in 1..Len(p2c) : AheadOfAnswers(p2c[i].n)

\* Clocks answered as they arrived are answered in order.
AnswersOrdered ==
  \A i, j \in 1..Len(answers) :
    i < j /\ ~answers[j].held => answers[i].n < answers[j].n

OrderInv ==
  WireInv /\ AnsweredOnce /\ HeldUnanswered /\ WireOrdered /\ AnswersBehind /\ AnswersOrdered

LEMMA OrderInit == Init => OrderInv
<1> SUFFICES ASSUME Init
             PROVE  OrderInv
  OBVIOUS
<1>1. Len(p2c) = 0 /\ Len(answers) = 0 /\ deferred = NoTransfer
  BY DEF Init
<1>2. WireInv /\ AnsweredOnce /\ HeldUnanswered
  BY WireInit, OnceInit DEF OnceInv
<1> QED
  BY <1>1, <1>2 DEF OrderInv, WireOrdered, AnswersBehind, AheadOfAnswers, AnswersOrdered

\* Two answers remembered are enough.
LEMMA OrderWindow ==
  ASSUME OrderInv, SeenWindow >= 2
  PROVE  ClocksInWindow
<1>1. Len(answers) \in Nat /\ SeenWindow \in Nat
  BY WireType, CableAssumption DEF OrderInv, WireInv
<1>2. ASSUME NEW i \in 1..Len(p2c), NEW j \in 1..Len(answers), answers[j].n = p2c[i].n
      PROVE  j \in SeenEntries
  <2>1. j = Len(answers) \/ j = Len(answers) - 1
    BY <1>2 DEF OrderInv, AnswersBehind, AheadOfAnswers
  <2>2. j > Len(answers) - SeenWindow
    BY <1>1, <2>1
  <2> QED
    BY <2>2 DEF SeenEntries
<1> QED
  BY <1>2 DEF ClocksInWindow

LEMMA WireOrderedNext ==
  ASSUME OrderInv, TypeInv', WireQuiet \/ WireGaveUp \/ WireRetried \/ WireStarted
  PROVE  WireOrdered'
<1> USE DEF OrderInv, WireInv
<1>0. /\ pOut \in Nat /\ pendingOut \in Nat /\ awaiting \in Nat /\ Begun \in Nat
      /\ \A i \in 1..Len(p2c) : p2c[i].n \in 1..Begun
      /\ \A i \in 1..Len(p2c) : p2c[i].tag = "gaveup" => p2c[i].n # awaiting
  BY WireType DEF TypeInv, TypeOK, InPlayRecent, Recent, GaveUpNotAwaited
<1>1. CASE WireQuiet
  <2>1. ASSUME NEW i \in 1..Len(p2c'), NEW j \in 1..Len(p2c'), i < j
        PROVE  /\ p2c'[i].n <= p2c'[j].n
               /\ (p2c'[i].tag = "gaveup" /\ p2c'[j].tag = "clock") => p2c'[i].n < p2c'[j].n
    <3>1. PICK a \in 1..Len(p2c), b \in 1..Len(p2c) :
            p2c'[i] = p2c[a] /\ p2c'[j] = p2c[b] /\ a < b
      BY <1>1, <2>1 DEF WireQuiet, Keeps
    <3>2. /\ p2c[a].n <= p2c[b].n
          /\ (p2c[a].tag = "gaveup" /\ p2c[b].tag = "clock") => p2c[a].n < p2c[b].n
      BY <3>1 DEF WireOrdered
    <3> QED
      BY <3>1, <3>2
  <2> QED
    BY <2>1 DEF WireOrdered
<1>2. ASSUME NEW e \in [tag : {"clock", "gaveup"}, n : Nat, word : Nat],
             p2c' = Append(p2c, e), e.n \in {Begun, Begun + 1},
             e.tag = "clock" => e.n = awaiting \/ e.n = Begun + 1
      PROVE  WireOrdered'
  <2>1. /\ Len(p2c) \in Nat /\ Len(p2c') = Len(p2c) + 1
        /\ \A i \in 1..Len(p2c) : p2c'[i] = p2c[i]
        /\ p2c'[Len(p2c) + 1] = e
    BY <1>2, WireAppended
  <2>2. ASSUME NEW i \in 1..Len(p2c)
        PROVE  /\ p2c[i].n <= e.n
               /\ (p2c[i].tag = "gaveup" /\ e.tag = "clock") => p2c[i].n < e.n
    BY <1>0, <1>2
  <2>3. ASSUME NEW i \in 1..Len(p2c'), NEW j \in 1..Len(p2c'), i < j
        PROVE  /\ p2c'[i].n <= p2c'[j].n
               /\ (p2c'[i].tag = "gaveup" /\ p2c'[j].tag = "clock") => p2c'[i].n < p2c'[j].n
    <3>1. i \in 1..Len(p2c)
      BY <2>1, <2>3
    <3>2. CASE j \in 1..Len(p2c)
      BY <2>1, <2>3, <3>1, <3>2 DEF WireOrdered
    <3>3. CASE j = Len(p2c) + 1
      BY <2>1, <2>2, <3>1, <3>3
    <3> QED
      BY <2>1, <3>2, <3>3
  <2> QED
    BY <2>3 DEF WireOrdered
<1>3. CASE WireGaveUp
  <2>1. GaveUp(awaiting) \in [tag : {"clock", "gaveup"}, n : Nat, word : Nat]
    BY <1>0 DEF GaveUp
  <2>2. GaveUp(awaiting).n = Begun /\ GaveUp(awaiting).tag = "gaveup"
    BY <1>3 DEF WireGaveUp, GaveUp
  <2> QED
    BY <1>2, <1>3, <2>1, <2>2 DEF WireGaveUp
<1>4. CASE WireRetried
  <2> DEFINE e == Clock(awaiting, pendingOut)
  <2>1. e \in [tag : {"clock", "gaveup"}, n : Nat, word : Nat]
    BY <1>0 DEF Clock
  <2>2. e.n = Begun /\ e.n = awaiting /\ p2c' = Append(p2c, e)
    BY <1>4 DEF WireRetried, Clock
  <2> HIDE DEF e
  <2> QED
    BY <1>2, <2>1, <2>2
<1>5. CASE WireStarted
  <2> DEFINE e == Clock(Begun + 1, pOut)
  <2>1. e \in [tag : {"clock", "gaveup"}, n : Nat, word : Nat]
    BY <1>0 DEF Clock
  <2>2. e.n = Begun + 1 /\ p2c' = Append(p2c, e)
    BY <1>5 DEF WireStarted, Clock
  <2> HIDE DEF e
  <2> QED
    BY <1>2, <2>1, <2>2
<1> QED
  BY <1>1, <1>3, <1>4, <1>5

LEMMA OrderNext ==
  ASSUME ~Reordering, SeenWindow >= 2, OrderInv, [Next]_vars
  PROVE  OrderInv'
<1>1. /\ TypeInv /\ WireInv /\ AnsweredOnce /\ HeldUnanswered /\ WireOrdered
      /\ AnswersBehind /\ AnswersOrdered /\ ClocksInWindow
      /\ AwaitsNewest /\ AwaitedRuns
  BY OrderWindow DEF OrderInv, WireInv
<1>2. WireInv' /\ TypeInv' /\ AnsweredOnce' /\ HeldUnanswered'
  BY <1>1, WireNext, OnceNext DEF OnceInv, WireInv
<1>3. WireQuiet \/ WireGaveUp \/ WireRetried \/ WireStarted
  BY <1>1, WireKinds
<1>4. WireOrdered'
  BY <1>2, <1>3, WireOrderedNext
<1>5. /\ Len(answers) \in Nat /\ Begun \in Nat /\ Len(p2c) \in Nat
      /\ \A i \in 1..Len(p2c) : p2c[i].n \in 1..Begun
      /\ \A i \in 1..Len(answers) : answers[i].n \in 1..Begun
      /\ deferred # NoTransfer => deferred.n \in 1..Begun
  BY <1>1, WireType DEF WireInv, InPlayRecent, Recent
\* Taking the oldest packet i = 1: what is left is not older.
<1>6. ASSUME NEW i \in Deliverable(p2c), p2c' = Without(p2c, i)
      PROVE  /\ i \in 1..Len(p2c)
             /\ \A j \in 1..Len(p2c') :
                  \E k \in 1..Len(p2c) : p2c'[j] = p2c[k] /\ p2c[i].n <= p2c[k].n
  <2>1. i = 1 /\ i \in 1..Len(p2c)
    BY <1>1, <1>6, WireType, DeliverableIndex
  <2>2. Len(p2c') = Len(p2c) - 1 /\ \A j \in 1..Len(p2c') : p2c'[j] = p2c[j + 1]
    BY <1>5, <1>6, <2>1 DEF Without
  <2>3. \A j \in 1..Len(p2c') : j + 1 \in 1..Len(p2c) /\ i < j + 1
    BY <1>5, <2>1, <2>2
  <2> QED
    BY <1>1, <2>1, <2>2, <2>3 DEF WireOrdered
<1>7. CASE HeldAnswered
  <2>1. /\ deferred # NoTransfer /\ deferred' = NoTransfer /\ p2c' = p2c /\ Begun' = Begun
        /\ Len(answers') = Len(answers) + 1
        /\ \A i \in 1..Len(answers) : answers'[i] = answers[i]
        /\ answers'[Len(answers) + 1].n = deferred.n
        /\ answers'[Len(answers) + 1].held = TRUE
    BY <1>1, <1>2, <1>7, AnsweringAdds DEF HeldAnswered, Answering, parentVars, Begun
  <2>2. \A n : AheadOfAnswers(n) => AheadOfAnswers(n)'
    BY <1>5, <2>1 DEF AheadOfAnswers
  <2>3. AnswersBehind'
    BY <1>1, <2>1, <2>2 DEF AnswersBehind, AheadOfAnswers
  <2>4. ASSUME NEW i \in 1..Len(answers'), NEW j \in 1..Len(answers'), i < j,
               ~answers'[j].held
        PROVE  answers'[i].n < answers'[j].n
    <3>1. j # Len(answers) + 1
      BY <2>1, <2>4
    <3>2. Len(answers) \in Nat /\ Len(answers') = Len(answers) + 1
      BY <1>5, <2>1
    <3>3. i \in Nat /\ j \in Nat /\ 1 <= i /\ i < j /\ j <= Len(answers')
      BY <2>4, <3>2
    <3>4. i \in 1..Len(answers) /\ j \in 1..Len(answers)
      <4> DEFINE last == Len(answers)
                 now  == Len(answers')
      <4>1. last \in Nat /\ now = last + 1 /\ j # last + 1 /\ j <= now
        BY <3>1, <3>2, <3>3
      <4> HIDE DEF last, now
      <4>2. i \in 1..last /\ j \in 1..last
        BY <3>3, <4>1
      <4> QED
        BY <4>2 DEF last
    <3> QED
      BY <1>1, <2>1, <2>4, <3>4 DEF AnswersOrdered
  <2>4a. AnswersOrdered'
    BY <2>4 DEF AnswersOrdered
  <2> QED
    BY <1>2, <1>4, <2>3, <2>4a DEF OrderInv
<1>8. CASE ClockAnswered
  <2>1. PICK i \in Deliverable(p2c) :
          /\ ClockTaken(i) /\ deferred' = deferred
          /\ Answering([n |-> p2c[i].n, pw |-> p2c[i].word, cw |-> 0], FALSE)
    BY <1>8 DEF ClockAnswered
  <2> DEFINE p == p2c[i].n
  <2>2. p2c' = Without(p2c, i)
    BY <2>1 DEF ClockTaken
  <2>3. /\ i \in 1..Len(p2c)
        /\ \A j \in 1..Len(p2c') :
             \E k \in 1..Len(p2c) : p2c'[j] = p2c[k] /\ p <= p2c[k].n
    BY <1>6, <2>2
  <2>4. /\ Len(answers') = Len(answers) + 1
        /\ \A j \in 1..Len(answers) : answers'[j] = answers[j]
        /\ answers'[Len(answers) + 1].n = p
        /\ Begun' = Begun
    BY <1>1, <1>2, <2>1, AnsweringAdds DEF Answering, parentVars, Begun
  <2>5. \A j \in 1..Len(answers) : answers[j].n # p /\ answers[j].n <= p
    BY <1>1, <2>1, <2>3, TakenUnanswered DEF AnswersBehind, AheadOfAnswers
  <2>6. p \in 1..Begun
    BY <1>5, <2>3
  <2> HIDE DEF p
  <2>7. ASSUME NEW n \in Nat, p <= n, AheadOfAnswers(n)
        PROVE  /\ deferred' # NoTransfer => deferred'.n <= n
               /\ \A j \in 1..Len(answers') :
                    /\ answers'[j].n <= n
                    /\ answers'[j].n = n => j = Len(answers')
    BY <1>5, <2>1, <2>4, <2>5, <2>6, <2>7 DEF AheadOfAnswers
  <2>8. AnswersBehind'
    <3>0. Begun \in Nat /\ p <= Begun /\ AheadOfAnswers(Begun)
      BY <1>1, <1>5, <2>6 DEF AnswersBehind
    <3>1. AheadOfAnswers(Begun)'
      BY <2>4, <2>7, <3>0 DEF AheadOfAnswers
    <3>2. \A j \in 1..Len(p2c') : AheadOfAnswers(p2c[j].n)'
      <4> TAKE j \in 1..Len(p2c')
      <4>1. PICK k \in 1..Len(p2c) : p2c'[j] = p2c[k] /\ p <= p2c[k].n
        BY <2>3
      <4>2. p2c[k].n \in Nat /\ AheadOfAnswers(p2c[k].n)
        BY <1>1, <1>5 DEF AnswersBehind
      <4> QED
        BY <2>7, <4>1, <4>2 DEF AheadOfAnswers
    <3> QED
      BY <3>1, <3>2 DEF AnswersBehind
  <2>9. ASSUME NEW k \in 1..Len(answers'), NEW j \in 1..Len(answers'), k < j,
               ~answers'[j].held
        PROVE  answers'[k].n < answers'[j].n
    <3>1. k \in 1..Len(answers)
      BY <1>5, <2>4, <2>9
    <3>2. CASE j \in 1..Len(answers)
      BY <1>1, <2>4, <2>9, <3>1, <3>2 DEF AnswersOrdered
    <3>3. CASE j = Len(answers) + 1
      <4>1. answers[k].n \in 1..Begun /\ answers[k].n # p /\ answers[k].n <= p
        BY <1>5, <2>5, <3>1
      <4> QED
        BY <1>5, <2>4, <2>6, <3>1, <3>3, <4>1
    <3> QED
      BY <1>5, <2>4, <3>2, <3>3
  <2>9a. AnswersOrdered'
    BY <2>9 DEF AnswersOrdered
  <2> QED
    BY <1>2, <1>4, <2>8, <2>9a DEF OrderInv
<1>9. CASE ClockDeferred
  <2>1. PICK i \in Deliverable(p2c) :
          /\ ClockTaken(i) /\ deferred'.n = p2c[i].n
          /\ UNCHANGED <<answers, parentVars>>
    BY <1>9 DEF ClockDeferred
  <2> DEFINE p == p2c[i].n
  <2>2. p2c' = Without(p2c, i)
    BY <2>1 DEF ClockTaken
  <2>3. /\ i \in 1..Len(p2c)
        /\ \A j \in 1..Len(p2c') :
             \E k \in 1..Len(p2c) : p2c'[j] = p2c[k] /\ p <= p2c[k].n
    BY <1>6, <2>2
  <2>4. Begun' = Begun
    BY <2>1 DEF parentVars, Begun
  <2>5. \A j \in 1..Len(answers) : answers[j].n # p /\ answers[j].n <= p
    BY <1>1, <2>1, <2>3, TakenUnanswered DEF AnswersBehind, AheadOfAnswers
  <2>6. p \in 1..Begun /\ deferred'.n = p
    BY <1>5, <2>1, <2>3
  <2> HIDE DEF p
  <2>7. ASSUME NEW n \in Nat, p <= n
        PROVE  /\ deferred' # NoTransfer => deferred'.n <= n
               /\ \A j \in 1..Len(answers') :
                    answers'[j].n <= n /\ answers'[j].n # n
    BY <1>5, <2>1, <2>5, <2>6, <2>7
  <2>8. AnswersBehind'
    <3>1. AheadOfAnswers(Begun)'
      BY <1>5, <2>4, <2>6, <2>7 DEF AheadOfAnswers
    <3>2. \A j \in 1..Len(p2c') : AheadOfAnswers(p2c[j].n)'
      <4> TAKE j \in 1..Len(p2c')
      <4>1. PICK k \in 1..Len(p2c) : p2c'[j] = p2c[k] /\ p <= p2c[k].n
        BY <2>3
      <4>2. p2c[k].n \in Nat
        BY <1>5
      <4> QED
        BY <2>7, <4>1, <4>2 DEF AheadOfAnswers
    <3> QED
      BY <3>1, <3>2 DEF AnswersBehind
  <2>9. AnswersOrdered'
    BY <1>1, <2>1 DEF AnswersOrdered
  <2> QED
    BY <1>2, <1>4, <2>8, <2>9 DEF OrderInv
<1>10. CASE NoAnswer
  <2>1. UNCHANGED <<answers, deferred>>
    BY <1>10 DEF NoAnswer
  <2>2. AnswersOrdered'
    BY <1>1, <2>1 DEF AnswersOrdered
  <2>3. AheadOfAnswers(Begun + 1)
    BY <1>5 DEF AheadOfAnswers
  <2>4. Begun' \in {Begun, Begun + 1}
    BY <1>3, <1>5 DEF WireQuiet, WireGaveUp, WireRetried, WireStarted, parentVars, Begun
  <2>5. ASSUME NEW j \in 1..Len(p2c')
        PROVE  p2c'[j].n \in {Begun, Begun + 1} \/ \E k \in 1..Len(p2c) : p2c'[j] = p2c[k]
    <3>0. pOut \in Nat /\ pendingOut \in Nat /\ awaiting \in Nat
      BY <1>1 DEF TypeInv, TypeOK
    <3>1. ASSUME NEW e \in [tag : {"clock", "gaveup"}, n : Nat, word : Nat],
                 p2c' = Append(p2c, e), e.n \in {Begun, Begun + 1}
          PROVE  p2c'[j].n \in {Begun, Begun + 1} \/ \E k \in 1..Len(p2c) : p2c'[j] = p2c[k]
      <4>1. /\ Len(p2c) \in Nat /\ Len(p2c') = Len(p2c) + 1
            /\ \A i \in 1..Len(p2c) : p2c'[i] = p2c[i]
            /\ p2c'[Len(p2c) + 1] = e
        BY <1>1, <3>1, WireAppended
      <4>2. j \in 1..Len(p2c) \/ j = Len(p2c) + 1
        BY <4>1
      <4> QED
        BY <3>1, <4>1, <4>2
    <3>2. CASE WireQuiet
      BY <3>2 DEF WireQuiet, Keeps
    <3>3. CASE WireGaveUp
      <4>1. GaveUp(awaiting) \in [tag : {"clock", "gaveup"}, n : Nat, word : Nat]
        BY <3>0 DEF GaveUp
      <4>2. GaveUp(awaiting).n \in {Begun, Begun + 1} /\ p2c' = Append(p2c, GaveUp(awaiting))
        BY <3>3 DEF WireGaveUp, GaveUp
      <4> QED
        BY <3>1, <4>1, <4>2
    <3>4. CASE WireRetried
      <4> DEFINE e == Clock(awaiting, pendingOut)
      <4>1. e \in [tag : {"clock", "gaveup"}, n : Nat, word : Nat]
        BY <3>0 DEF Clock
      <4>2. e.n \in {Begun, Begun + 1} /\ p2c' = Append(p2c, e)
        BY <3>4 DEF WireRetried, Clock
      <4> HIDE DEF e
      <4> QED
        BY <3>1, <4>1, <4>2
    <3>5. CASE WireStarted
      <4> DEFINE e == Clock(Begun + 1, pOut)
      <4>1. e \in [tag : {"clock", "gaveup"}, n : Nat, word : Nat]
        BY <1>5, <3>0 DEF Clock
      <4>2. e.n \in {Begun, Begun + 1} /\ p2c' = Append(p2c, e)
        BY <3>5 DEF WireStarted, Clock
      <4> HIDE DEF e
      <4> QED
        BY <3>1, <4>1, <4>2
    <3> QED
      BY <1>3, <3>2, <3>3, <3>4, <3>5
  <2>6. AheadOfAnswers(Begun) /\ \A k \in 1..Len(p2c) : AheadOfAnswers(p2c[k].n)
    BY <1>1 DEF AnswersBehind
  <2>7. AheadOfAnswers(Begun)'
    BY <2>1, <2>3, <2>4, <2>6 DEF AheadOfAnswers
  <2>8. \A j \in 1..Len(p2c') : AheadOfAnswers(p2c[j].n)'
    <3> TAKE j \in 1..Len(p2c')
    <3>1. CASE p2c'[j].n \in {Begun, Begun + 1}
      BY <2>1, <2>3, <2>6, <3>1 DEF AheadOfAnswers
    <3>2. CASE \E k \in 1..Len(p2c) : p2c'[j] = p2c[k]
      BY <2>1, <2>6, <3>2 DEF AheadOfAnswers
    <3> QED
      BY <2>5, <3>1, <3>2
  <2>9. AnswersBehind'
    BY <2>7, <2>8 DEF AnswersBehind
  <2> QED
    BY <1>2, <1>4, <2>2, <2>9 DEF OrderInv
<1> QED
  BY <1>1, <1>7, <1>8, <1>9, <1>10, StepKinds

\* On a wire that keeps its order the window need hold two answers: "anything
\* past a couple is slack" (cable.rs SEEN_WINDOW).
THEOREM AnsweredOnceInOrder ==
  ASSUME ~Reordering, SeenWindow >= 2
  PROVE  Spec => []AnsweredOnce
<1>1. OrderInv /\ [Next]_vars => OrderInv'
  BY OrderNext
<1>2. OrderInv => AnsweredOnce
  BY DEF OrderInv
<1> QED
  BY OrderInit, <1>1, <1>2, PTL DEF Spec

-----------------------------------------------------------------------------
(* The line to the child's game: what it has been given, what its serial   *)
(* engine is shifting, what is queued                                      *)

LineLen == Len(delivered) + 1 + Len(queue)
Line(k) ==
  IF k <= Len(delivered) THEN delivered[k]
  ELSE IF k = Len(delivered) + 1 THEN words
  ELSE queue[k - Len(delivered) - 1]
InLine == {k \in 1..LineLen : Line(k) # NoTransfer}

\* Every transfer in the line was answered on the bus.
AnswerOf(t) ==
  \E i \in 1..Len(answers) :
    answers[i].n = t.n /\ answers[i].pw = t.pw /\ answers[i].cw = t.cw /\ answers[i].bus
LineAnswered == \A k \in InLine : AnswerOf(Line(k))

\* No exchange is in the line twice.
LineDistinct == \A k, l \in InLine : Line(k).n = Line(l).n => k = l

\* Those answered as they arrived stand in the parent's order.
LineOrdered ==
  \A k, l \in InLine :
    k < l /\ ~IsHeld(Line(k).n) /\ ~IsHeld(Line(l).n) => Line(k).n < Line(l).n

\* The line keeps its order, and gains nothing.
LineKeeps ==
  \A k, l \in InLine' :
    \E a, b \in InLine : Line(k)' = Line(a) /\ Line(l)' = Line(b) /\ (k < l => a < b)

LEMMA LineKeptBy ==
  ASSUME TypeInv, TypeInv', delivered' = delivered, words' \in {words, NoTransfer},
         Keeps(queue', queue)
  PROVE  LineKeeps
<1> DEFINE d == Len(delivered)
<1>1. d \in Nat /\ Len(queue) \in Nat /\ Len(queue') \in Nat /\ Len(delivered') = d
  BY LenProperties DEF TypeInv, TypeOK
<1>2. \A k \in InLine' :
        /\ k \in 1..(d + 1 + Len(queue'))
        /\ k <= d => k \in InLine /\ Line(k)' = Line(k)
        /\ k = d + 1 => k \in InLine /\ Line(k)' = Line(k)
        /\ k > d + 1 => Line(k)' = queue'[k - d - 1] /\ Line(k)' # NoTransfer
                        /\ k - d - 1 \in 1..Len(queue')
  BY <1>1 DEF InLine, Line, LineLen
<1>3. \A j \in 1..Len(queue) : Line(d + 1 + j) = queue[j] /\ d + 1 + j \in 1..LineLen
  BY <1>1 DEF Line, LineLen
<1> HIDE DEF d
<1>4. ASSUME NEW k \in InLine', NEW l \in InLine'
      PROVE  \E a, b \in InLine : Line(k)' = Line(a) /\ Line(l)' = Line(b) /\ (k < l => a < b)
  <2>1. CASE k <= d + 1 /\ l <= d + 1
    BY <1>1, <1>2, <1>4, <2>1
  <2>2. ASSUME NEW m \in InLine', m > d + 1
        PROVE  \E c \in InLine : c > d + 1 /\ Line(m)' = Line(c)
    <3>1. PICK c \in 1..Len(queue) : queue'[m - d - 1] = queue[c]
      BY <1>2, <2>2 DEF Keeps
    <3> QED
      BY <1>1, <1>2, <1>3, <2>2, <3>1 DEF InLine
  <2>3. CASE k <= d + 1 /\ l > d + 1
    <3>1. PICK c \in InLine : c > d + 1 /\ Line(l)' = Line(c)
      BY <1>4, <2>2, <2>3
    <3> QED
      BY <1>1, <1>2, <1>4, <2>3, <3>1 DEF InLine
  <2>4. CASE k > d + 1 /\ l <= d + 1
    <3>1. PICK c \in InLine : c > d + 1 /\ Line(k)' = Line(c)
      BY <1>4, <2>2, <2>4
    <3> QED
      BY <1>1, <1>2, <1>4, <2>4, <3>1
  <2>5. CASE k > d + 1 /\ l > d + 1
    <3>0. k - d - 1 \in 1..Len(queue') /\ l - d - 1 \in 1..Len(queue')
      BY <1>2, <1>4, <2>5
    <3>1. PICK a \in 1..Len(queue), b \in 1..Len(queue) :
            /\ queue'[k - d - 1] = queue[a] /\ queue'[l - d - 1] = queue[b]
            /\ (k - d - 1 < l - d - 1 => a < b)
      <4> DEFINE x == k - d - 1
                 y == l - d - 1
      <4>1. x \in 1..Len(queue') /\ y \in 1..Len(queue')
        BY <3>0
      <4> HIDE DEF x, y
      <4>2. \E a, b \in 1..Len(queue) :
              queue'[x] = queue[a] /\ queue'[y] = queue[b] /\ (x < y => a < b)
        BY <4>1 DEF Keeps
      <4> QED
        BY <4>2 DEF x, y
    <3>2. /\ d + 1 + a \in InLine /\ d + 1 + b \in InLine
          /\ Line(k)' = Line(d + 1 + a) /\ Line(l)' = Line(d + 1 + b)
      BY <1>2, <1>3, <1>4, <2>5, <3>1 DEF InLine
    <3>3. k < l => d + 1 + a < d + 1 + b
      BY <1>1, <1>2, <1>4, <3>1
    <3> QED
      BY <3>2, <3>3
  <2> QED
    BY <1>1, <1>2, <2>1, <2>3, <2>4, <2>5
<1> QED
  BY <1>4 DEF LineKeeps

\* The serial engine moves it on.
LEMMA LineStepped ==
  ASSUME TypeInv, TypeInv', ChildStep
  PROVE  LineKeeps
<1> DEFINE d == Len(delivered)
           q == Len(queue)
<1>1. PICK finished \in {TRUE, FALSE} :
        LET lands == finished /\ words # NoTransfer
            free  == lands \/ words = NoTransfer
            takes == free /\ mode = "multi" /\ queue # <<>>
        IN  /\ delivered' = IF lands THEN Append(delivered, words) ELSE delivered
            /\ words' = IF takes THEN Head(queue) ELSE IF free THEN NoTransfer ELSE words
            /\ queue' = IF takes THEN Tail(queue) ELSE queue
  BY DEF ChildStep
<1>2. d \in Nat /\ q \in Nat /\ queue \in Seq(Transfer)
  BY LenProperties DEF TypeInv, TypeOK
<1>3. LineLen = d + 1 + q
  BY DEF LineLen
<1>4. ASSUME queue # <<>>, queue' = Tail(queue), words' = Head(queue)
      PROVE  /\ q >= 1 /\ Len(queue') = q - 1 /\ words' = queue[1]
             /\ \A j \in 1..(q - 1) : queue'[j] = queue[j + 1]
  BY <1>2, <1>4, HeadTailProperties, EmptySeq
<1>5. ASSUME delivered' = Append(delivered, words)
      PROVE  /\ Len(delivered') = d + 1 /\ delivered'[d + 1] = words
             /\ \A j \in 1..d : delivered'[j] = delivered[j]
  BY <1>5, AppendType, LenProperties DEF TypeInv, TypeOK
<1> HIDE DEF d, q
<1>6. CASE /\ delivered' = Append(delivered, words)
           /\ queue # <<>> /\ queue' = Tail(queue) /\ words' = Head(queue)
  <2>1. ASSUME NEW k \in InLine'
        PROVE  k \in InLine /\ Line(k)' = Line(k)
    <3>1. k \in 1..(d + 1 + q) /\ Line(k)' # NoTransfer
      BY <1>2, <1>4, <1>5, <1>6, <2>1 DEF InLine, LineLen
    <3>2. CASE k <= d
      BY <1>2, <1>3, <1>5, <1>6, <3>1, <3>2 DEF InLine, Line, d
    <3>3. CASE k = d + 1
      BY <1>2, <1>3, <1>5, <1>6, <3>1, <3>3 DEF InLine, Line, d
    <3>4. CASE k = d + 2
      <4>1. Line(k)' = words' /\ Line(k) = queue[1]
        BY <1>2, <1>5, <1>6, <3>4 DEF Line, d
      <4> QED
        BY <1>3, <1>4, <1>6, <3>1, <4>1 DEF InLine
    <3>5. CASE k > d + 2
      <4>1. Line(k)' = queue'[k - (d + 1) - 1] /\ Line(k) = queue[k - d - 1]
        <5>1. k \in Int /\ ~(k <= d + 1) /\ k # (d + 1) + 1 /\ ~(k <= d) /\ k # d + 1
          BY <1>2, <3>1, <3>5
        <5>2. Len(delivered') = d + 1 /\ Len(delivered) = d
          BY <1>5, <1>6 DEF d
        <5> QED
          BY <5>1, <5>2 DEF Line
      <4>2. /\ k - (d + 1) - 1 \in 1..(q - 1) /\ (k - (d + 1) - 1) + 1 = k - d - 1
        BY <1>2, <3>1, <3>5
      <4> QED
        BY <1>3, <1>4, <1>6, <3>1, <4>1, <4>2 DEF InLine
    <3> QED
      BY <1>2, <3>1, <3>2, <3>3, <3>4, <3>5
  <2> QED
    BY <2>1 DEF LineKeeps
<1>7. CASE delivered' = Append(delivered, words) /\ queue' = queue /\ words' = NoTransfer
  <2>1. ASSUME NEW k \in InLine'
        PROVE  \/ k <= d + 1 /\ k \in InLine /\ Line(k)' = Line(k)
               \/ k > d + 2 /\ k - 1 \in InLine /\ Line(k)' = Line(k - 1)
    BY <1>2, <1>3, <1>5, <1>7, <2>1 DEF InLine, Line, LineLen, d, q
  <2>2. InLine' \subseteq Int
    BY DEF InLine
  <2> QED
    BY <1>2, <2>1, <2>2 DEF LineKeeps
<1>8. CASE /\ delivered' = delivered /\ words = NoTransfer
           /\ queue # <<>> /\ queue' = Tail(queue) /\ words' = Head(queue)
  <2>1. ASSUME NEW k \in InLine'
        PROVE  \/ k <= d /\ k \in InLine /\ Line(k)' = Line(k)
               \/ k > d /\ k + 1 \in InLine /\ Line(k)' = Line(k + 1)
    BY <1>2, <1>3, <1>4, <1>8, <2>1 DEF InLine, Line, LineLen, d, q
  <2>2. InLine' \subseteq Int
    BY DEF InLine
  <2> QED
    BY <1>2, <2>1, <2>2 DEF LineKeeps
<1>9. CASE delivered' = delivered /\ queue' = queue /\ words' \in {words, NoTransfer}
  BY <1>2, <1>9, KeepsAll, LineKeptBy
<1> QED
  BY <1>1, <1>6, <1>7, <1>8, <1>9

\* Whatever answers no clock keeps the line ...
LEMMA LineNoAnswer ==
  ASSUME TypeInv, TypeInv', NoAnswer
  PROVE  LineKeeps
<1>1. CASE ChildStep
  BY <1>1, LineStepped
<1>2. CASE ChildToldGaveUp \/ ChildSelectMulti \/ UNCHANGED <<queue, words, shifted, delivered, flushed>>
  <2>1. delivered' = delivered /\ words' \in {words, NoTransfer}
    BY <1>2 DEF ChildToldGaveUp, ChildSelectMulti
  <2> QED
    BY <2>1, NoAnswerQueue, LineKeptBy
<1> QED
  BY <1>1, <1>2 DEF NoAnswer

\* ... and an answer given on the bus adds its transfer at the end.
LEMMA LineAdds ==
  ASSUME TypeInv, TypeInv', NEW t, t.n \in Nat, t.pw \in Nat, NEW held,
         Answering(t, held)
  PROVE  \/ LineKeeps
         \/ \E e \in Transfer :
              /\ e.n = t.n /\ e.pw = t.pw /\ e.cw = answers'[Len(answers) + 1].cw /\ onBus
              /\ \A k \in InLine' :
                   \/ k = LineLen' /\ Line(k)' = e
                   \/ k < LineLen' /\ \E a \in InLine : Line(k)' = Line(a)
              /\ \A k, l \in InLine' :
                   k < LineLen' /\ l < LineLen' =>
                     \E a, b \in InLine :
                       Line(k)' = Line(a) /\ Line(l)' = Line(b) /\ (k < l => a < b)
<1> DEFINE e == [n |-> t.n, pw |-> t.pw, cw |-> answers'[Len(answers) + 1].cw]
           d == Len(delivered)
<1>1. /\ queue' = IF onBus THEN Pushed(e) ELSE queue
      /\ answers'[Len(answers) + 1].cw \in Nat
      /\ UNCHANGED <<words, delivered>>
  BY AnsweringAdds DEF Answering
<1>2. e \in Transfer /\ e.n = t.n /\ e.pw = t.pw /\ e.cw = answers'[Len(answers) + 1].cw
  BY <1>1 DEF Transfer
<1>3. queue \in Seq(Transfer) /\ d \in Nat
  BY LenProperties DEF TypeInv, TypeOK
<1> HIDE DEF e, d
<1>4. CASE ~onBus
  BY <1>1, <1>3, <1>4, KeepsAll, LineKeptBy
<1>5. CASE onBus
  <2>1. /\ Keeps(Kept, queue) /\ Len(queue) \in Nat
        /\ Len(Kept) \in Nat /\ Len(queue') = Len(Kept) + 1
        /\ \A j \in 1..Len(Kept) : queue'[j] = Kept[j]
        /\ queue'[Len(Kept) + 1] = e
    BY <1>1, <1>2, <1>5, PushedLine, WireType
  <2>1a. /\ delivered' = delivered /\ Len(delivered') = d /\ d = Len(delivered)
         /\ words' = words
    BY <1>1 DEF d
  <2>2. LineLen' = d + 2 + Len(Kept) /\ Line(LineLen)' = e
    <3>1. LineLen' = d + 2 + Len(Kept)
      BY <1>3, <2>1, <2>1a DEF LineLen
    <3>2. Line(LineLen)' = queue'[LineLen' - d - 1]
      BY <1>3, <2>1, <2>1a, <3>1 DEF Line
    <3>3. LineLen' - d - 1 = Len(Kept) + 1
      BY <1>3, <2>1, <3>1
    <3> QED
      BY <2>1, <3>1, <3>2, <3>3
  <2>3. \A k \in InLine' : k < LineLen' =>
          \/ k \in 1..(d + 1) /\ k \in InLine /\ Line(k)' = Line(k)
          \/ /\ k - d - 1 \in 1..Len(Kept) /\ Line(k)' = Kept[k - d - 1] /\ k > d + 1
             /\ Line(k)' # NoTransfer
    <3> SUFFICES ASSUME NEW k \in InLine', k < LineLen'
                 PROVE  \/ k \in 1..(d + 1) /\ k \in InLine /\ Line(k)' = Line(k)
                        \/ /\ k - d - 1 \in 1..Len(Kept) /\ Line(k)' = Kept[k - d - 1] /\ k > d + 1
                           /\ Line(k)' # NoTransfer
      OBVIOUS
    <3>1. k \in 1..(d + 1 + Len(Kept)) /\ Line(k)' # NoTransfer
      BY <1>3, <2>1, <2>2 DEF InLine
    <3>2. CASE k <= d + 1
      BY <1>3, <2>1, <2>1a, <3>1, <3>2 DEF InLine, Line, LineLen
    <3>3. CASE k > d + 1
      <4>1. k - d - 1 \in 1..Len(Kept)
        BY <1>3, <2>1, <3>1, <3>3
      <4>2. Line(k)' = queue'[k - d - 1]
        BY <1>3, <2>1a, <3>1, <3>3 DEF Line
      <4> QED
        BY <2>1, <3>1, <3>3, <4>1, <4>2
    <3> QED
      BY <1>3, <3>1, <3>2, <3>3
  <2>4. \A j \in 1..Len(queue) :
          Line(d + 1 + j) = queue[j] /\ d + 1 + j \in 1..LineLen
    BY <1>3, <2>1 DEF Line, LineLen, d
  <2>5. InLine' \subseteq 1..LineLen' /\ InLine \subseteq Int
    BY DEF InLine
  <2>6. ASSUME NEW k \in InLine', NEW l \in InLine', k < LineLen', l < LineLen'
        PROVE  \E a, b \in InLine : Line(k)' = Line(a) /\ Line(l)' = Line(b) /\ (k < l => a < b)
    <3>1. ASSUME NEW m \in InLine', m < LineLen', m > d + 1
          PROVE  \E c \in InLine : c > d + 1 /\ Line(m)' = Line(c)
      <4>1. m - d - 1 \in 1..Len(Kept) /\ Line(m)' = Kept[m - d - 1] /\ Line(m)' # NoTransfer
        BY <1>3, <2>3, <3>1
      <4>2. PICK c \in 1..Len(queue) : Kept[m - d - 1] = queue[c]
        BY <2>1, <4>1 DEF Keeps
      <4> QED
        BY <1>3, <2>4, <4>1, <4>2 DEF InLine
    <3>2. CASE k <= d + 1 /\ l <= d + 1
      <4>1. /\ k \in InLine /\ Line(k)' = Line(k) /\ l \in InLine /\ Line(l)' = Line(l)
        <5>1. ~(k > d + 1) /\ ~(l > d + 1)
          BY <1>3, <2>5, <2>6, <3>2
        <5> QED
          BY <2>3, <2>6, <5>1
      <4> QED
        BY <4>1
    <3>3. CASE k <= d + 1 /\ l > d + 1
      <4>1. PICK c \in InLine : c > d + 1 /\ Line(l)' = Line(c)
        BY <2>6, <3>1, <3>3
      <4> QED
        BY <1>3, <2>3, <2>5, <2>6, <3>3, <4>1
    <3>4. CASE k > d + 1 /\ l <= d + 1
      <4>1. PICK c \in InLine : c > d + 1 /\ Line(k)' = Line(c)
        BY <2>6, <3>1, <3>4
      <4> QED
        BY <1>3, <2>3, <2>5, <2>6, <3>4, <4>1
    <3>5. CASE k > d + 1 /\ l > d + 1
      <4>0. /\ k - d - 1 \in 1..Len(Kept) /\ Line(k)' = Kept[k - d - 1] /\ Line(k)' # NoTransfer
            /\ l - d - 1 \in 1..Len(Kept) /\ Line(l)' = Kept[l - d - 1] /\ Line(l)' # NoTransfer
        BY <1>3, <2>3, <2>6, <3>5
      <4>1. PICK a \in 1..Len(queue), b \in 1..Len(queue) :
              /\ Kept[k - d - 1] = queue[a] /\ Kept[l - d - 1] = queue[b]
              /\ (k - d - 1 < l - d - 1 => a < b)
        <5> DEFINE x == k - d - 1
                   y == l - d - 1
        <5>1. x \in 1..Len(Kept) /\ y \in 1..Len(Kept)
          BY <4>0
        <5> HIDE DEF x, y
        <5>2. \E a, b \in 1..Len(queue) :
                Kept[x] = queue[a] /\ Kept[y] = queue[b] /\ (x < y => a < b)
          BY <2>1, <5>1 DEF Keeps
        <5> QED
          BY <5>2 DEF x, y
      <4>2. /\ d + 1 + a \in InLine /\ d + 1 + b \in InLine
            /\ Line(k)' = Line(d + 1 + a) /\ Line(l)' = Line(d + 1 + b)
        BY <2>4, <4>0, <4>1 DEF InLine
      <4>3. k < l => d + 1 + a < d + 1 + b
        <5>1. k \in Int /\ l \in Int /\ a \in Int /\ b \in Int
          BY <2>5, <2>6
        <5> QED
          BY <1>3, <4>1, <5>1
      <4> QED
        BY <4>2, <4>3
    <3> QED
      BY <1>3, <2>5, <2>6, <3>2, <3>3, <3>4, <3>5
  <2>7. ASSUME NEW k \in InLine'
        PROVE  \/ k = LineLen' /\ Line(k)' = e
               \/ k < LineLen' /\ \E a \in InLine : Line(k)' = Line(a)
    <3>1. k = LineLen' \/ k < LineLen'
      BY <1>3, <2>1, <2>2, <2>5
    <3> QED
      BY <2>2, <2>6, <3>1
  <2> QED
    BY <1>2, <1>5, <2>6, <2>7
<1> QED
  BY <1>4, <1>5

\* An answer is never forgotten.
AnswersKept ==
  \A i \in 1..Len(answers) : i \in 1..Len(answers') /\ answers'[i] = answers[i]

LEMMA AnswersKeptNext ==
  ASSUME TypeInv, [Next]_vars
  PROVE  AnswersKept
<1>0. TypeInv' /\ Len(answers) \in Nat
  BY TypeNext, WireType
<1>1. ASSUME NEW t, NEW held, Answering(t, held)
      PROVE  AnswersKept
  <2>1. /\ Len(answers') = Len(answers) + 1
        /\ \A i \in 1..Len(answers) : answers'[i] = answers[i]
    BY <1>0, <1>1, AnsweringAdds
  <2>2. \A i \in 1..Len(answers) : i \in 1..Len(answers')
    BY <1>0, <2>1
  <2> QED
    BY <2>1, <2>2 DEF AnswersKept
<1>2. CASE HeldAnswered
  BY <1>1, <1>2 DEF HeldAnswered
<1>3. CASE ClockAnswered
  <2> PICK i \in Deliverable(p2c) :
        Answering([n |-> p2c[i].n, pw |-> p2c[i].word, cw |-> 0], FALSE)
    BY <1>3 DEF ClockAnswered
  <2> DEFINE t == [n |-> p2c[i].n, pw |-> p2c[i].word, cw |-> 0]
  <2>1. Answering(t, FALSE)
    OBVIOUS
  <2> HIDE DEF t
  <2> QED
    BY <1>1, <2>1
<1>4. CASE ClockDeferred
  BY <1>4 DEF ClockDeferred, AnswersKept
<1>5. CASE NoAnswer
  BY <1>5 DEF NoAnswer, AnswersKept
<1> QED
  BY <1>2, <1>3, <1>4, <1>5, StepKinds

LEMMA LineKept ==
  ASSUME LineAnswered, LineDistinct, LineKeeps, AnswersKept
  PROVE  LineAnswered' /\ LineDistinct'
<1>1. ASSUME NEW k \in InLine'
      PROVE  AnswerOf(Line(k))'
  <2>1. PICK a \in InLine : Line(k)' = Line(a)
    BY <1>1 DEF LineKeeps
  <2>2. AnswerOf(Line(a))
    BY <2>1 DEF LineAnswered
  <2> QED
    BY <2>1, <2>2 DEF AnswerOf, AnswersKept
<1>2. ASSUME NEW k \in InLine', NEW l \in InLine', Line(k)'.n = Line(l)'.n, k < l
      PROVE  FALSE
  <2>1. PICK a \in InLine, b \in InLine : Line(k)' = Line(a) /\ Line(l)' = Line(b) /\ a < b
    BY <1>2 DEF LineKeeps
  <2>2. a = b
    BY <1>2, <2>1 DEF LineDistinct
  <2>3. a \in Int /\ b \in Int
    BY DEF InLine
  <2> QED
    BY <2>1, <2>2, <2>3
<1>3. InLine' \subseteq Int
  BY DEF InLine
<1>4. LineDistinct'
  BY <1>2, <1>3 DEF LineDistinct
<1> QED
  BY <1>1, <1>4 DEF LineAnswered

LEMMA LineGrown ==
  ASSUME TypeInv, TypeInv', LineAnswered, LineDistinct, AnswersKept,
         NEW t, t.n \in Nat, t.pw \in Nat, NEW held, Answering(t, held),
         \A j \in 1..Len(answers) : answers[j].n # t.n
  PROVE  LineAnswered' /\ LineDistinct'
<1>1. CASE LineKeeps
  BY <1>1, LineKept
<1>2. ASSUME NEW e \in Transfer,
             e.n = t.n, e.pw = t.pw, e.cw = answers'[Len(answers) + 1].cw, onBus,
             \A k \in InLine' :
               \/ k = LineLen' /\ Line(k)' = e
               \/ k < LineLen' /\ \E a \in InLine : Line(k)' = Line(a),
             \A k, l \in InLine' :
               k < LineLen' /\ l < LineLen' =>
                 \E a, b \in InLine :
                   Line(k)' = Line(a) /\ Line(l)' = Line(b) /\ (k < l => a < b)
      PROVE  LineAnswered' /\ LineDistinct'
  <2>1. /\ Len(answers) \in Nat /\ Len(answers') = Len(answers) + 1
        /\ answers'[Len(answers) + 1].n = t.n /\ answers'[Len(answers) + 1].pw = t.pw
        /\ answers'[Len(answers) + 1].bus = onBus
    BY AnsweringAdds
  <2>2. ASSUME NEW a \in InLine
        PROVE  Line(a).n # e.n
    <3>1. PICK i \in 1..Len(answers) : answers[i].n = Line(a).n
      BY DEF LineAnswered, AnswerOf
    <3> QED
      BY <1>2, <3>1
  <2>3. ASSUME NEW k \in InLine'
        PROVE  AnswerOf(Line(k))'
    <3>1. CASE k = LineLen' /\ Line(k)' = e
      <4>1. Len(answers) + 1 \in 1..Len(answers')
        BY <2>1
      <4> QED
        BY <1>2, <2>1, <3>1, <4>1 DEF AnswerOf
    <3>2. CASE k < LineLen' /\ \E a \in InLine : Line(k)' = Line(a)
      <4>1. PICK a \in InLine : Line(k)' = Line(a)
        BY <3>2
      <4>2. AnswerOf(Line(a))
        BY DEF LineAnswered
      <4> QED
        BY <4>1, <4>2 DEF AnswerOf, AnswersKept
    <3> QED
      BY <1>2, <3>1, <3>2
  <2>4. InLine' \subseteq Int /\ InLine \subseteq Int
    BY DEF InLine
  <2>5. ASSUME NEW k \in InLine', NEW l \in InLine', Line(k)'.n = Line(l)'.n, k < l
        PROVE  FALSE
    <3>0. k < LineLen'
      <4>1. k <= LineLen' /\ l <= LineLen'
        BY DEF InLine
      <4>2. LineLen' \in Int
        BY LenProperties DEF LineLen, TypeInv, TypeOK
      <4> QED
        BY <2>4, <2>5, <4>1, <4>2
    <3>1. CASE l < LineLen'
      <4>1. PICK a \in InLine, b \in InLine : Line(k)' = Line(a) /\ Line(l)' = Line(b) /\ a < b
        BY <1>2, <2>5, <3>0, <3>1
      <4>2. a = b
        BY <2>5, <4>1 DEF LineDistinct
      <4> QED
        BY <2>4, <4>1, <4>2
    <3>2. CASE l = LineLen' /\ Line(l)' = e
      <4>1. PICK a \in InLine : Line(k)' = Line(a)
        BY <1>2, <2>5, <3>0
      <4> QED
        BY <2>2, <2>5, <3>2, <4>1
    <3> QED
      BY <1>2, <2>5, <3>1, <3>2
  <2>6. LineDistinct'
    BY <2>4, <2>5 DEF LineDistinct
  <2> QED
    BY <2>3, <2>6 DEF LineAnswered
<1> QED
  BY <1>1, <1>2, LineAdds

\* Only the serial engine lands a transfer.
LEMMA DeliveredGrows ==
  ASSUME TypeInv, [Next]_vars
  PROVE  \/ delivered' = delivered
         \/ words # NoTransfer /\ delivered' = Append(delivered, words)
<1>1. CASE ChildStep
  BY <1>1 DEF ChildStep
<1>2. CASE ~ChildStep
  BY <1>2, StepKinds
     DEF HeldAnswered, ClockAnswered, ClockDeferred, NoAnswer, Answering,
         ChildToldGaveUp, ChildSelectMulti
<1> QED
  BY <1>1, <1>2

LineInv ==
  /\ OnceInv
  /\ LineAnswered
  /\ LineDistinct
  /\ \A i \in 1..Len(delivered) : delivered[i] # NoTransfer

LEMMA LineInit == Init => LineInv
<1> SUFFICES ASSUME Init
             PROVE  LineInv
  OBVIOUS
<1>1. Len(delivered) = 0 /\ Len(queue) = 0 /\ words = NoTransfer
  BY DEF Init
<1>2. InLine = {}
  BY <1>1 DEF InLine, LineLen, Line
<1> QED
  BY <1>1, <1>2, OnceInit DEF LineInv, LineAnswered, LineDistinct

LEMMA LineNext ==
  ASSUME LineInv, ClocksInWindow, [Next]_vars
  PROVE  LineInv'
<1>1. /\ OnceInv /\ OnceInv' /\ TypeInv /\ TypeInv' /\ HeldUnanswered /\ AnswersKept
      /\ LineAnswered /\ LineDistinct
  BY OnceNext, AnswersKeptNext DEF LineInv, OnceInv
<1>2. \A i \in 1..Len(delivered') : delivered'[i] # NoTransfer
  <2>1. delivered' = delivered \/ (words # NoTransfer /\ delivered' = Append(delivered, words))
    BY <1>1, DeliveredGrows
  <2>2. delivered \in Seq(Transfer) /\ words \in Transfer /\ Len(delivered) \in Nat
    BY <1>1, LenProperties DEF TypeInv, TypeOK
  <2>3. CASE delivered' = delivered
    BY <2>3 DEF LineInv
  <2>4. CASE words # NoTransfer /\ delivered' = Append(delivered, words)
    <3>1. /\ Len(delivered') = Len(delivered) + 1
          /\ \A j \in 1..Len(delivered) : delivered'[j] = delivered[j]
          /\ delivered'[Len(delivered) + 1] = words
      BY <2>2, <2>4, AppendType
    <3>2. \A i \in 1..Len(delivered') : i \in 1..Len(delivered) \/ i = Len(delivered) + 1
      BY <2>2, <3>1
    <3> QED
      BY <2>4, <3>1, <3>2 DEF LineInv
  <2> QED
    BY <2>1, <2>3, <2>4
<1>3. CASE HeldAnswered
  <2>1. /\ deferred.n \in Nat /\ deferred.pw \in Nat
        /\ Answering(deferred, TRUE) /\ TRUE \in BOOLEAN
        /\ \A j \in 1..Len(answers) : answers[j].n # deferred.n
    BY <1>1, <1>3, WireType DEF HeldAnswered, HeldUnanswered, Transfer
  <2> QED
    BY <1>1, <1>2, <2>1, LineGrown DEF LineInv
<1>4. CASE ClockAnswered
  <2>1. PICK i \in 1..Len(p2c) :
          /\ ClockTaken(i)
          /\ Answering([n |-> p2c[i].n, pw |-> p2c[i].word, cw |-> 0], FALSE)
    BY <1>1, <1>4, WireType, DeliverableIndex DEF ClockAnswered
  <2> DEFINE t == [n |-> p2c[i].n, pw |-> p2c[i].word, cw |-> 0]
  <2>2. /\ t.n = p2c[i].n /\ Answering(t, FALSE)
        /\ t.n \in Nat /\ t.pw \in Nat
    BY <1>1, <2>1, WireType
  <2> HIDE DEF t
  <2>3. \A j \in 1..Len(answers) : answers[j].n # t.n
    BY <1>1, <2>1, <2>2, TakenUnanswered
  <2> QED
    BY <1>1, <1>2, <2>2, <2>3, LineGrown DEF LineInv
<1>5. CASE ClockDeferred
  <2>1. UNCHANGED <<queue, words, delivered>>
    BY <1>5 DEF ClockDeferred
  <2>2. Keeps(queue', queue)
    BY <1>1, <2>1, KeepsAll DEF TypeInv, TypeOK
  <2>3. LineKeeps
    BY <1>1, <2>1, <2>2, LineKeptBy
  <2> QED
    BY <1>1, <1>2, <2>3, LineKept DEF LineInv
<1>6. CASE NoAnswer
  BY <1>1, <1>2, <1>6, LineNoAnswer, LineKept DEF LineInv
<1> QED
  BY <1>1, <1>3, <1>4, <1>5, <1>6, StepKinds

\* What the child's game is given is in the line.
LEMMA DeliveredInLine ==
  ASSUME LineInv
  PROVE  \A i \in 1..Len(delivered) : i \in InLine /\ Line(i) = delivered[i]
<1>1. Len(delivered) \in Nat /\ Len(queue) \in Nat
  BY WireType DEF LineInv, OnceInv
<1> QED
  BY <1>1 DEF LineInv, InLine, Line, LineLen

LEMMA LineGivesOnce ==
  ASSUME LineInv
  PROVE  DeliveredOnce
<1>1. \A i \in 1..Len(delivered) : i \in InLine /\ Line(i) = delivered[i]
  BY DeliveredInLine
<1>2. \A i, j \in 1..Len(delivered) : delivered[i].n = delivered[j].n => i = j
  BY <1>1 DEF LineInv, LineDistinct
<1>3. ASSUME NEW i \in 1..Len(delivered)
      PROVE  \E j \in AnswerTo(delivered[i].n) :
               answers[j].cw = delivered[i].cw /\ answers[j].pw = delivered[i].pw
  BY <1>1 DEF LineInv, LineAnswered, AnswerOf, AnswerTo
<1> QED
  BY <1>2, <1>3 DEF DeliveredOnce

\* The child's game is given each exchange once at most, with the words it was
\* answered with, whatever the transport does, as long as no clock outlives the
\* window of answers remembered (cable.rs child_clock, take_child_transfer).
THEOREM DeliveredOnceInWindow == Spec /\ []ClocksInWindow => []DeliveredOnce
<1>1. LineInv /\ ClocksInWindow /\ [Next]_vars => LineInv'
  BY LineNext
<1>2. LineInv => DeliveredOnce
  BY LineGivesOnce
<1> QED
  BY LineInit, <1>1, <1>2, PTL DEF Spec

-----------------------------------------------------------------------------
(* In the parent's order, on a wire that keeps its own                     *)

LEMMA LineKeepsOrder ==
  ASSUME LineOrdered, LineKeeps, AnswersKept
  PROVE  LineOrdered'
<1>1. ASSUME NEW k \in InLine', NEW l \in InLine', k < l,
             ~IsHeld(Line(k).n)', ~IsHeld(Line(l).n)'
      PROVE  Line(k)'.n < Line(l)'.n
  <2>1. PICK a \in InLine, b \in InLine : Line(k)' = Line(a) /\ Line(l)' = Line(b) /\ a < b
    BY <1>1 DEF LineKeeps
  <2>2. ~IsHeld(Line(a).n)
    BY <1>1, <2>1 DEF IsHeld, AnswerTo, AnswersKept
  <2>3. ~IsHeld(Line(b).n)
    BY <1>1, <2>1 DEF IsHeld, AnswerTo, AnswersKept
  <2> QED
    BY <2>1, <2>2, <2>3 DEF LineOrdered
<1> QED
  BY <1>1 DEF LineOrdered

LEMMA LineGrowsInOrder ==
  ASSUME TypeInv, TypeInv', LineAnswered, LineOrdered, AnswersKept,
         NEW t, t.n \in Nat, t.pw \in Nat, NEW held, Answering(t, held),
         held = TRUE \/ \A j \in 1..Len(answers) : answers[j].n < t.n
  PROVE  LineOrdered'
<1>1. CASE LineKeeps
  BY <1>1, LineKeepsOrder
<1>2. ASSUME NEW e \in Transfer,
             e.n = t.n, e.pw = t.pw, e.cw = answers'[Len(answers) + 1].cw, onBus,
             \A k \in InLine' :
               \/ k = LineLen' /\ Line(k)' = e
               \/ k < LineLen' /\ \E a \in InLine : Line(k)' = Line(a),
             \A k, l \in InLine' :
               k < LineLen' /\ l < LineLen' =>
                 \E a, b \in InLine :
                   Line(k)' = Line(a) /\ Line(l)' = Line(b) /\ (k < l => a < b)
      PROVE  LineOrdered'
  <2>1. /\ Len(answers) \in Nat /\ Len(answers') = Len(answers) + 1
        /\ answers'[Len(answers) + 1].n = t.n /\ answers'[Len(answers) + 1].held = held
    BY AnsweringAdds
  <2>2. ASSUME NEW k \in InLine', NEW l \in InLine', k < l,
               ~IsHeld(Line(k).n)', ~IsHeld(Line(l).n)'
        PROVE  Line(k)'.n < Line(l)'.n
    <3>0. k < LineLen'
      <4>1. k <= LineLen' /\ l <= LineLen' /\ k \in Int /\ l \in Int
        BY DEF InLine
      <4>2. LineLen' \in Int
        BY LenProperties DEF LineLen, TypeInv, TypeOK
      <4> QED
        BY <2>2, <4>1, <4>2
    <3>1. CASE l < LineLen'
      <4>1. PICK a \in InLine, b \in InLine : Line(k)' = Line(a) /\ Line(l)' = Line(b) /\ a < b
        BY <1>2, <2>2, <3>0, <3>1
      <4>2. ~IsHeld(Line(a).n)
        BY <2>2, <4>1 DEF IsHeld, AnswerTo, AnswersKept
      <4>3. ~IsHeld(Line(b).n)
        BY <2>2, <4>1 DEF IsHeld, AnswerTo, AnswersKept
      <4> QED
        BY <4>1, <4>2, <4>3 DEF LineOrdered
    <3>2. CASE l = LineLen' /\ Line(l)' = e
      <4>1. PICK a \in InLine : Line(k)' = Line(a)
        BY <1>2, <2>2, <3>0
      <4>2. PICK i \in 1..Len(answers) : answers[i].n = Line(a).n
        BY DEF LineAnswered, AnswerOf
      <4>3. held # TRUE
        <5>1. SUFFICES ASSUME held = TRUE
                       PROVE  IsHeld(Line(l).n)'
          BY <2>2
        <5>2. Len(answers) + 1 \in 1..Len(answers')
          BY <2>1
        <5> QED
          BY <1>2, <2>1, <3>2, <5>1, <5>2 DEF IsHeld, AnswerTo
      <4> QED
        BY <1>2, <3>2, <4>1, <4>2, <4>3
    <3> QED
      BY <1>2, <2>2, <3>1, <3>2
  <2> QED
    BY <2>2 DEF LineOrdered
<1> QED
  BY <1>1, <1>2, LineAdds

OrderedInv == OrderInv /\ LineInv /\ LineOrdered

LEMMA OrderedInit == Init => OrderedInv
<1> SUFFICES ASSUME Init
             PROVE  OrderedInv
  OBVIOUS
<1>1. Len(delivered) = 0 /\ Len(queue) = 0 /\ words = NoTransfer
  BY DEF Init
<1>2. InLine = {}
  BY <1>1 DEF InLine, LineLen, Line
<1> QED
  BY <1>2, OrderInit, LineInit DEF OrderedInv, LineOrdered

LEMMA OrderedNext ==
  ASSUME ~Reordering, SeenWindow >= 2, OrderedInv, [Next]_vars
  PROVE  OrderedInv'
<1>1. /\ OrderInv /\ LineInv /\ LineOrdered /\ ClocksInWindow /\ LineAnswered
      /\ AnswersBehind
  BY OrderWindow DEF OrderedInv, LineInv, OrderInv
<1>2. OrderInv' /\ LineInv'
  BY <1>1, OrderNext, LineNext
<1>3. TypeInv /\ TypeInv' /\ AnswersKept
  BY <1>1, <1>2, AnswersKeptNext DEF LineInv, OnceInv
<1>4. CASE HeldAnswered
  <2>1. deferred.n \in Nat /\ deferred.pw \in Nat /\ Answering(deferred, TRUE)
    BY <1>3, <1>4, WireType DEF HeldAnswered, Transfer
  <2> QED
    BY <1>1, <1>2, <1>3, <2>1, LineGrowsInOrder DEF OrderedInv
<1>5. CASE ClockAnswered
  <2>1. PICK i \in 1..Len(p2c) :
          /\ ClockTaken(i)
          /\ Answering([n |-> p2c[i].n, pw |-> p2c[i].word, cw |-> 0], FALSE)
    BY <1>3, <1>5, WireType, DeliverableIndex DEF ClockAnswered
  <2> DEFINE t == [n |-> p2c[i].n, pw |-> p2c[i].word, cw |-> 0]
  <2>2. /\ t.n = p2c[i].n /\ Answering(t, FALSE)
        /\ t.n \in Nat /\ t.pw \in Nat
    BY <1>3, <2>1, WireType
  <2> HIDE DEF t
  <2>3. \A j \in 1..Len(answers) : answers[j].n # t.n
    BY <1>1, <1>3, <2>1, <2>2, TakenUnanswered
  <2>4. \A j \in 1..Len(answers) : answers[j].n <= t.n /\ answers[j].n \in Nat
    BY <1>1, <1>3, <2>1, <2>2, WireType DEF AnswersBehind, AheadOfAnswers, Answer
  <2>5. \A j \in 1..Len(answers) : answers[j].n < t.n
    BY <2>2, <2>3, <2>4
  <2> QED
    BY <1>1, <1>2, <1>3, <2>2, <2>5, LineGrowsInOrder DEF OrderedInv
<1>6. CASE ClockDeferred
  <2>1. UNCHANGED <<queue, words, delivered>>
    BY <1>6 DEF ClockDeferred
  <2>2. Keeps(queue', queue)
    BY <1>3, <2>1, KeepsAll DEF TypeInv, TypeOK
  <2>3. LineKeeps
    BY <1>3, <2>1, <2>2, LineKeptBy
  <2> QED
    BY <1>1, <1>2, <1>3, <2>3, LineKeepsOrder DEF OrderedInv
<1>7. CASE NoAnswer
  BY <1>1, <1>2, <1>3, <1>7, LineNoAnswer, LineKeepsOrder DEF OrderedInv
<1> QED
  BY <1>3, <1>4, <1>5, <1>6, <1>7, StepKinds

LEMMA LineGivesInOrder ==
  ASSUME OrderedInv
  PROVE  DeliveredInOrder
<1>1. \A i \in 1..Len(delivered) : i \in InLine /\ Line(i) = delivered[i]
  BY DeliveredInLine DEF OrderedInv
<1> QED
  BY <1>1 DEF OrderedInv, LineOrdered, DeliveredInOrder

-----------------------------------------------------------------------------
(* A stale word is counted                                                 *)

\* Until a word has been sent twice, every word sent on the bus is one the
\* child's game stored earlier, and armed means it has stored another since.
WordsSpent ==
  ~cold => \A i \in 1..Len(answers) :
             answers[i].bus => answers[i].cw <= own /\ (armed => answers[i].cw < own)
StaleInv == TypeInv /\ WordsSpent /\ StaleWordCounted

LEMMA StaleAnswered ==
  ASSUME StaleInv, TypeInv', NEW t \in Transfer, NEW word \in Nat, NEW isArmed \in BOOLEAN,
         NEW held \in BOOLEAN, Accept(t, word, isArmed, held), own' = word,
         ~cold => \A i \in 1..Len(answers) :
                    answers[i].bus => answers[i].cw <= word /\ (isArmed => answers[i].cw < word)
  PROVE  StaleInv'
<1> DEFINE cw == IF onBus THEN word ELSE Absent
           a  == [n |-> t.n, pw |-> t.pw, cw |-> cw, bus |-> onBus, held |-> held]
<1>1. TypeOK /\ onBus \in BOOLEAN /\ t.n \in Nat /\ t.pw \in Nat
  BY DEF StaleInv, TypeInv, TypeOK, Transfer
<1>2. a \in Answer /\ a.bus = onBus /\ (onBus => a.cw = word)
  BY <1>1 DEF Answer, Absent
<1>3. /\ answers' = Append(answers, a)
      /\ cold' = (cold \/ Cold(isArmed)) /\ armed' = (isArmed /\ ~onBus)
  BY DEF Accept
<1> HIDE DEF cw, a
<1>4. /\ Len(answers) \in Nat /\ Len(answers') = Len(answers) + 1
      /\ \A i \in 1..Len(answers) : answers'[i] = answers[i]
      /\ answers'[Len(answers) + 1] = a
  BY <1>1, <1>2, <1>3, AnswersGrow
<1>5. \A i \in 1..Len(answers') : i \in 1..Len(answers) \/ i = Len(answers) + 1
  BY <1>4
<1>6. \A i \in 1..Len(answers) : answers[i].cw \in Nat
  BY <1>1, WireType DEF StaleInv, Answer
<1>7. WordsSpent'
  <2>1. ASSUME ~cold', NEW i \in 1..Len(answers'), answers'[i].bus
        PROVE  answers'[i].cw <= own' /\ (armed' => answers'[i].cw < own')
    <3>1. ~cold
      BY <1>3, <2>1
    <3>2. CASE i \in 1..Len(answers)
      BY <1>3, <1>4, <2>1, <3>1, <3>2
    <3>3. CASE i = Len(answers) + 1
      BY <1>2, <1>3, <1>4, <2>1, <3>3
    <3> QED
      BY <1>5, <2>1, <3>2, <3>3
  <2> QED
    BY <2>1 DEF WordsSpent
<1>8. StaleWordCounted'
  <2>1. ASSUME ~cold', NEW i \in 1..Len(answers), answers[i].bus, onBus
        PROVE  answers[i].cw # word
    <3>1. ~cold /\ ~Cold(isArmed)
      BY <1>3, <2>1
    <3>2. answers # <<>>
      BY <2>1, <1>4
    <3>3. isArmed
      BY <2>1, <3>1, <3>2 DEF Cold
    <3> QED
      BY <1>6, <2>1, <3>1, <3>3
  <2>2. ASSUME ~cold', NEW i \in 1..Len(answers'), NEW j \in 1..Len(answers'),
               answers'[i].bus, answers'[j].bus, answers'[i].cw = answers'[j].cw
        PROVE  i = j
    <3>1. CASE i \in 1..Len(answers) /\ j \in 1..Len(answers)
      BY <1>3, <1>4, <2>2, <3>1 DEF StaleInv, StaleWordCounted
    <3>2. CASE i \in 1..Len(answers) /\ j = Len(answers) + 1
      BY <1>2, <1>4, <2>1, <2>2, <3>2
    <3>3. CASE i = Len(answers) + 1 /\ j \in 1..Len(answers)
      BY <1>2, <1>4, <2>1, <2>2, <3>3
    <3> QED
      BY <1>5, <3>1, <3>2, <3>3
  <2> QED
    BY <2>2 DEF StaleWordCounted
<1> QED
  BY <1>7, <1>8 DEF StaleInv

LEMMA StaleInit == Init => StaleInv
<1> SUFFICES ASSUME Init
             PROVE  StaleInv
  OBVIOUS
<1>1. Len(answers) = 0
  BY DEF Init
<1> QED
  BY <1>1, TypeInit DEF StaleInv, WordsSpent, StaleWordCounted

LEMMA StaleNext ==
  ASSUME StaleInv, [Next]_vars
  PROVE  StaleInv'
<1>1. TypeInv /\ TypeInv'
  BY TypeNext DEF StaleInv
<1>2. /\ own \in Nat /\ own + 1 \in Nat /\ armed \in BOOLEAN
      /\ TRUE \in BOOLEAN /\ FALSE \in BOOLEAN
      /\ deferred \in Transfer
  BY <1>1 DEF TypeInv, TypeOK
<1>2a. \A i \in 1..Len(answers) : answers[i].cw \in Nat
  BY <1>1, WireType DEF Answer
<1>3. ASSUME UNCHANGED <<answers, own, armed, cold>>
      PROVE  StaleInv'
  BY <1>1, <1>3 DEF StaleInv, WordsSpent, StaleWordCounted
<1>4. CASE ParentNext \/ Lose \/ UNCHANGED vars
  <2>1. UNCHANGED childVars
    BY <1>4 DEF ParentNext, ParentStore, ParentStart, ParentCollect, ParentOpenCircuit,
                ParentLand, ParentRetry, ParentTimeout, ParentSelectMulti,
                ParentReceive, ParentHearsPeer, Lose, vars
  <2> QED
    BY <1>3, <2>1 DEF childVars
<1>5. CASE ChildStore
  <2>1. CASE deferred = NoTransfer
    <3>1. own' = own + 1 /\ armed' = TRUE /\ UNCHANGED <<answers, cold>>
      BY <1>5, <2>1 DEF ChildStore
    <3>2. WordsSpent'
      BY <1>2, <1>2a, <3>1 DEF StaleInv, WordsSpent
    <3> QED
      BY <1>1, <3>1, <3>2 DEF StaleInv, StaleWordCounted
  <2>2. CASE deferred # NoTransfer
    <3>1. Accept(deferred, own + 1, TRUE, TRUE) /\ own' = own + 1
      BY <1>5, <2>2 DEF ChildStore
    <3>2. ~cold => \A i \in 1..Len(answers) :
            answers[i].bus => answers[i].cw <= own + 1 /\ (TRUE => answers[i].cw < own + 1)
      BY <1>2, <1>2a DEF StaleInv, WordsSpent
    <3> QED
      BY <1>1, <1>2, <3>1, <3>2, StaleAnswered
  <2> QED
    BY <2>1, <2>2
<1>6. CASE DeferralExpires
  <2>1. Accept(deferred, own, armed, TRUE) /\ own' = own
    BY <1>6 DEF DeferralExpires
  <2> QED
    BY <1>1, <1>2, <2>1, StaleAnswered DEF StaleInv, WordsSpent
<1>7. CASE ChildClocked
  <2> PICK i \in Deliverable(p2c) :
        /\ \/ ClockSeen(p2c[i]) \/ ClockHeld(p2c[i])
           \/ ClockAlreadyHeld(p2c[i]) \/ ClockAccepted(p2c[i])
        /\ own' = own
    BY <1>7 DEF ChildClocked
  <2>1. CASE ClockSeen(p2c[i]) \/ ClockHeld(p2c[i]) \/ ClockAlreadyHeld(p2c[i])
    BY <1>3, <2>1 DEF ClockSeen, ClockHeld, ClockAlreadyHeld
  <2>2. CASE ClockAccepted(p2c[i])
    <3> DEFINE t == [n |-> p2c[i].n, pw |-> p2c[i].word, cw |-> 0]
    <3>1. t \in Transfer
      BY <1>1, WireType, DeliverableIndex DEF Transfer
    <3>2. Accept(t, own, armed, FALSE)
      BY <2>2 DEF ClockAccepted
    <3> HIDE DEF t
    <3> QED
      BY <1>1, <1>2, <3>1, <3>2, StaleAnswered DEF StaleInv, WordsSpent
  <2> QED
    BY <2>1, <2>2
<1>8. CASE ChildToldGaveUp \/ ChildStep \/ ChildPark \/ ChildUnpark \/ ChildSelectMulti
  BY <1>3, <1>8 DEF ChildToldGaveUp, ChildStep, ChildPark, ChildUnpark, ChildSelectMulti
<1> QED
  BY <1>4, <1>5, <1>6, <1>7, <1>8 DEF Next, ChildNext

\* Two transfers are never answered on the bus with one store of the child's
\* game unless answered_cold counts one of them (cable.rs accept_clock): on any
\* wire, whatever the two games do.
THEOREM StaleWordAlwaysCounted == Spec => []StaleWordCounted
<1>1. StaleInv /\ [Next]_vars => StaleInv'
  BY StaleNext
<1>2. StaleInv => StaleWordCounted
  BY DEF StaleInv
<1> QED
  BY StaleInit, <1>1, <1>2, PTL DEF Spec

\* On a wire that keeps its order the child's game is given each exchange once,
\* in the parent's order but for clocks held back, and with words whose
\* staleness is counted (cable.rs child_clock, child_input, answered_cold).
THEOREM DeliveredAsClockedInOrder ==
  ASSUME ~Reordering, SeenWindow >= 2
  PROVE  Spec => []DeliveredAsClocked
<1>1. OrderedInv /\ [Next]_vars => OrderedInv'
  BY OrderedNext
<1>2. StaleInv /\ [Next]_vars => StaleInv'
  BY StaleNext
<1>3. OrderedInv /\ StaleInv => DeliveredAsClocked
  BY LineGivesOnce, LineGivesInOrder DEF OrderedInv, StaleInv, DeliveredAsClocked
<1> QED
  BY OrderedInit, StaleInit, <1>1, <1>2, <1>3, PTL DEF Spec

-----------------------------------------------------------------------------
(* A flush is final                                                        *)

\* A transfer dropped by a flush has been answered, or its clock is held back;
\* and none is shifting or queued again, unless its clock was held back.
FlushedAnswered ==
  \A n \in flushed :
    n # 0 /\ ((deferred # NoTransfer /\ n = deferred.n) \/ AnswerTo(n) # {})
FlushedStopped ==
  /\ words.n \in flushed => IsHeld(words.n)
  /\ \A i \in 1..Len(queue) : queue[i].n \in flushed => IsHeld(queue[i].n)
FlushInv == WireInv /\ LineInv /\ FlushedAnswered /\ FlushedStopped

\* What an answer leaves in the queue.
LEMMA QueueAdds ==
  ASSUME TypeInv, TypeInv', NEW t, t.n \in Nat, t.pw \in Nat, NEW held, Answering(t, held)
  PROVE  \A i \in 1..Len(queue') :
           \/ queue'[i].n = t.n
           \/ \E k \in 1..Len(queue) : queue'[i] = queue[k]
<1> DEFINE e == [n |-> t.n, pw |-> t.pw, cw |-> answers'[Len(answers) + 1].cw]
<1>1. /\ queue' = IF onBus THEN Pushed(e) ELSE queue
      /\ answers'[Len(answers) + 1].cw \in Nat
  BY AnsweringAdds
<1>2. e \in Transfer /\ e.n = t.n
  BY <1>1 DEF Transfer
<1> HIDE DEF e
<1>3. CASE ~onBus
  BY <1>1, <1>3
<1>4. CASE onBus
  <2>1. /\ Keeps(Kept, queue)
        /\ Len(Kept) \in Nat /\ Len(queue') = Len(Kept) + 1
        /\ \A j \in 1..Len(Kept) : queue'[j] = Kept[j]
        /\ queue'[Len(Kept) + 1] = e
    BY <1>1, <1>2, <1>4, PushedLine
  <2>2. \A j \in 1..Len(Kept) : \E k \in 1..Len(queue) : Kept[j] = queue[k]
    BY <2>1 DEF Keeps
  <2>3. \A j \in 1..Len(queue') : j \in 1..Len(Kept) \/ j = Len(Kept) + 1
    BY <2>1
  <2> QED
    BY <1>2, <2>1, <2>2, <2>3
<1> QED
  BY <1>3, <1>4

LEMMA FlushInit == Init => FlushInv
<1> SUFFICES ASSUME Init
             PROVE  FlushInv
  OBVIOUS
<1>1. flushed = {}
  BY DEF Init
<1> QED
  BY <1>1, WireInit, LineInit DEF FlushInv, FlushedAnswered, FlushedStopped

\* A transfer answered stays answered, and one held back stays so.
LEMMA AnswerStays ==
  ASSUME AnswersKept, NEW n
  PROVE  /\ AnswerTo(n) # {} => AnswerTo(n)' # {}
         /\ IsHeld(n) => IsHeld(n)'
  BY DEF AnswersKept, AnswerTo, IsHeld

LEMMA FlushAnswered ==
  ASSUME FlushInv, TypeInv', AnswersKept,
         NEW t, t.n \in Nat, t.pw \in Nat, NEW held, Answering(t, held),
         t.n \in flushed => held = TRUE
  PROVE  FlushedStopped'
<1>1. TypeInv /\ FlushedStopped
  BY DEF FlushInv, LineInv, OnceInv
<1>2. UNCHANGED <<words, flushed>>
  BY DEF Answering
<1>3. t.n \in flushed => IsHeld(t.n)'
  <2>1. /\ Len(answers) \in Nat /\ Len(answers') = Len(answers) + 1
        /\ answers'[Len(answers) + 1].n = t.n /\ answers'[Len(answers) + 1].held = held
    BY <1>1, AnsweringAdds
  <2>2. Len(answers) + 1 \in 1..Len(answers')
    BY <2>1
  <2>3. PICK m : m = t.n
    OBVIOUS
  <2>4. m \in flushed => IsHeld(m)'
    BY <2>1, <2>2, <2>3 DEF IsHeld, AnswerTo
  <2> QED
    BY <2>1, <2>2 DEF IsHeld, AnswerTo
<1>4. words'.n \in flushed' => IsHeld(words.n)'
  BY <1>1, <1>2 DEF FlushedStopped, AnswersKept, AnswerTo, IsHeld
<1>5. ASSUME NEW i \in 1..Len(queue'), queue'[i].n \in flushed
      PROVE  IsHeld(queue[i].n)'
  <2>1. CASE queue'[i].n = t.n
    BY <1>3, <1>5, <2>1
  <2>2. CASE \E k \in 1..Len(queue) : queue'[i] = queue[k]
    BY <1>1, <1>5, <2>2 DEF FlushedStopped, AnswersKept, AnswerTo, IsHeld
  <2> QED
    BY <1>1, <2>1, <2>2, QueueAdds
<1> QED
  BY <1>2, <1>4, <1>5 DEF FlushedStopped

LEMMA FlushNext ==
  ASSUME FlushInv, ClocksInWindow, [Next]_vars
  PROVE  FlushInv'
<1>1. /\ WireInv /\ WireInv' /\ LineInv /\ LineInv' /\ TypeInv /\ TypeInv' /\ HeldUnanswered /\ AnswersKept
      /\ FlushedAnswered /\ FlushedStopped /\ LineAnswered
  BY WireNext, LineNext, AnswersKeptNext DEF FlushInv, LineInv, OnceInv
<1>2. ASSUME deferred' = deferred, flushed' = flushed
      PROVE  FlushedAnswered'
  BY <1>1, <1>2 DEF FlushedAnswered, AnswersKept, AnswerTo
<1>3. CASE HeldAnswered
  <2>1. /\ deferred # NoTransfer /\ deferred' = NoTransfer /\ flushed' = flushed
        /\ Answering(deferred, TRUE) /\ deferred.n \in Nat /\ deferred.pw \in Nat
    BY <1>1, <1>3, WireType DEF HeldAnswered, Answering, Transfer
  <2>2. FlushedStopped'
    BY <1>1, <2>1, FlushAnswered DEF FlushInv
  <2>3. FlushedAnswered'
    <3>1. /\ Len(answers) \in Nat /\ Len(answers') = Len(answers) + 1
          /\ answers'[Len(answers) + 1].n = deferred.n
      BY <1>1, <2>1, AnsweringAdds
    <3>2. Len(answers) + 1 \in 1..Len(answers')
      BY <3>1
    <3> QED
      BY <1>1, <2>1, <3>1, <3>2 DEF FlushedAnswered, AnswersKept, AnswerTo
  <2> QED
    BY <1>1, <2>2, <2>3 DEF FlushInv
<1>4. CASE ClockAnswered
  <2>1. PICK i \in 1..Len(p2c) :
          /\ ClockTaken(i)
          /\ deferred # NoTransfer => deferred.n # p2c[i].n
          /\ deferred' = deferred
          /\ Answering([n |-> p2c[i].n, pw |-> p2c[i].word, cw |-> 0], FALSE)
    BY <1>1, <1>4, WireType, DeliverableIndex DEF ClockAnswered
  <2> DEFINE t == [n |-> p2c[i].n, pw |-> p2c[i].word, cw |-> 0]
  <2>2. /\ t.n = p2c[i].n /\ Answering(t, FALSE)
        /\ t.n \in Nat /\ t.pw \in Nat /\ flushed' = flushed
    BY <1>1, <2>1, WireType DEF Answering
  <2> HIDE DEF t
  <2>3. \A j \in 1..Len(answers) : answers[j].n # t.n
    BY <1>1, <2>1, <2>2, TakenUnanswered
  <2>4. t.n \notin flushed
    BY <1>1, <2>1, <2>2, <2>3 DEF FlushedAnswered, AnswerTo
  <2>5. FlushedStopped'
    BY <1>1, <2>2, <2>4, FlushAnswered DEF FlushInv
  <2> QED
    BY <1>1, <1>2, <2>1, <2>2, <2>5 DEF FlushInv
<1>5. CASE ClockDeferred
  <2>1. deferred = NoTransfer /\ UNCHANGED <<answers, queue, words, flushed>>
    BY <1>5 DEF ClockDeferred
  <2> QED
    BY <1>1, <2>1 DEF FlushInv, FlushedAnswered, FlushedStopped, AnswerTo, IsHeld
<1>6. CASE NoAnswer
  <2>1. UNCHANGED <<answers, deferred>>
    BY <1>6 DEF NoAnswer
  <2>2. \A i \in 1..Len(queue') : \E k \in 1..Len(queue) : queue'[i] = queue[k]
    BY <1>1, <1>6, NoAnswerQueue DEF Keeps
  <2>3. CASE ChildSelectMulti
    <3>1. /\ flushed' = flushed \cup {queue[i].n : i \in 1..Len(queue)}
                                \cup ({words.n, deferred.n} \ {0})
          /\ words' = NoTransfer /\ Len(queue') = 0
      BY <2>3 DEF ChildSelectMulti
    <3>2. Len(delivered) \in Nat /\ Len(queue) \in Nat
      BY <1>1, WireType
    <3>3. ASSUME NEW k \in InLine
          PROVE  AnswerTo(Line(k).n) # {}
      <4>1. PICK i \in 1..Len(answers) : answers[i].n = Line(k).n
        BY <1>1, <3>3 DEF LineAnswered, AnswerOf
      <4> QED
        BY <4>1 DEF AnswerTo
    <3>4. ASSUME NEW i \in 1..Len(queue)
          PROVE  queue[i].n # 0 /\ AnswerTo(queue[i].n) # {}
      <4>1. queue[i].n # 0
        BY <1>1 DEF WireInv, InPlayRecent, Recent
      <4>2. Len(delivered) + 1 + i \in InLine /\ Line(Len(delivered) + 1 + i) = queue[i]
        BY <3>2, <4>1 DEF InLine, Line, LineLen, NoTransfer
      <4>3. AnswerTo(Line(Len(delivered) + 1 + i).n) # {}
        BY <3>3, <4>2
      <4> QED
        BY <4>1, <4>2, <4>3
    <3>5. words.n # 0 => AnswerTo(words.n) # {}
      <4>1. words.n # 0 => Len(delivered) + 1 \in InLine /\ Line(Len(delivered) + 1) = words
        BY <3>2 DEF InLine, Line, LineLen, NoTransfer
      <4>2. words.n # 0 => AnswerTo(Line(Len(delivered) + 1).n) # {}
        BY <3>3, <4>1
      <4> QED
        BY <4>1, <4>2
    <3>6. ASSUME NEW n \in flushed'
          PROVE  n # 0 /\ ((deferred # NoTransfer /\ n = deferred.n) \/ AnswerTo(n) # {})
      <4>1. CASE n \in flushed
        BY <1>1, <4>1 DEF FlushedAnswered
      <4>2. CASE \E i \in 1..Len(queue) : n = queue[i].n
        BY <3>4, <4>2
      <4>3. CASE n = words.n /\ n # 0
        BY <3>5, <4>3
      <4>4. CASE n = deferred.n /\ n # 0
        BY <4>4 DEF NoTransfer
      <4> QED
        BY <3>1, <3>6, <4>1, <4>2, <4>3, <4>4
    <3>7. FlushedAnswered'
      BY <2>1, <3>6 DEF FlushedAnswered, AnswerTo
    <3>8. FlushedStopped'
      BY <3>1, <3>7 DEF FlushedStopped, NoTransfer, FlushedAnswered
    <3> QED
      BY <1>1, <3>7, <3>8 DEF FlushInv
  <2>4. CASE ChildStep
    <3>1. queue \in Seq(Transfer)
      BY <1>1 DEF TypeInv, TypeOK
    <3>2. flushed' = flushed /\ (words' \in {words, NoTransfer} \/ (queue # <<>> /\ words' = Head(queue)))
      BY <2>4 DEF ChildStep
    <3>3. queue # <<>> => Head(queue) = queue[1] /\ 1 \in 1..Len(queue)
      BY <3>1, KeepsTail
    <3>4. words' \in {words, NoTransfer} \/ (1 \in 1..Len(queue) /\ words' = queue[1])
      BY <3>2, <3>3
    <3>5. words'.n \in flushed => IsHeld(words.n)'
      <4>1. NoTransfer.n \notin flushed
        BY <1>1 DEF FlushedAnswered, NoTransfer
      <4> QED
        BY <1>1, <2>1, <3>4, <4>1 DEF FlushedStopped, AnswerTo, IsHeld
    <3>6. FlushedStopped'
      BY <1>1, <2>1, <2>2, <3>2, <3>5 DEF FlushedStopped, AnswerTo, IsHeld
    <3> QED
      BY <1>1, <1>2, <2>1, <3>2, <3>6 DEF FlushInv
  <2>5. CASE ChildToldGaveUp \/ UNCHANGED <<queue, words, shifted, delivered, flushed>>
    <3>1. UNCHANGED <<words, flushed>>
      BY <2>5 DEF ChildToldGaveUp
    <3>2. FlushedStopped'
      BY <1>1, <2>1, <2>2, <3>1 DEF FlushedStopped, AnswerTo, IsHeld
    <3> QED
      BY <1>1, <1>2, <2>1, <3>1, <3>2 DEF FlushInv
  <2> QED
    BY <1>6, <2>3, <2>4, <2>5 DEF NoAnswer
<1> QED
  BY <1>1, <1>3, <1>4, <1>5, <1>6, StepKinds

LEMMA FlushStep ==
  ASSUME FlushInv, [Next]_vars
  PROVE  \A n \in flushed : Ran(n)' => (Ran(n) \/ IsHeld(n))
<1>1. TypeInv
  BY DEF FlushInv, LineInv, OnceInv
<1> SUFFICES ASSUME NEW n \in flushed, Ran(n)'
             PROVE  Ran(n) \/ IsHeld(n)
  OBVIOUS
<1>2. CASE delivered' = delivered
  BY <1>2 DEF Ran
<1>3. CASE words # NoTransfer /\ delivered' = Append(delivered, words)
  <2>1. delivered \in Seq(Transfer) /\ words \in Transfer /\ Len(delivered) \in Nat
    BY <1>1, LenProperties DEF TypeInv, TypeOK
  <2>2. /\ Len(delivered') = Len(delivered) + 1
        /\ \A j \in 1..Len(delivered) : delivered'[j] = delivered[j]
        /\ delivered'[Len(delivered) + 1] = words
    BY <1>3, <2>1, AppendType
  <2>3. PICK i \in 1..Len(delivered') : delivered'[i].n = n
    BY DEF Ran
  <2>4. CASE i \in 1..Len(delivered)
    BY <2>2, <2>3, <2>4 DEF Ran
  <2>5. CASE i = Len(delivered) + 1
    BY <2>2, <2>3, <2>5 DEF FlushInv, FlushedStopped
  <2> QED
    BY <2>1, <2>2, <2>4, <2>5
<1> QED
  BY <1>1, <1>2, <1>3, DeliveredGrows

\* A transfer in flight when the game selected Multi-Player mode is never run
\* afterwards, unless its clock was being held back: as long as no clock
\* outlives the window (cable.rs flush_pending, memory.rs io_write) ...
THEOREM FlushIsFinalInWindow == Spec /\ []ClocksInWindow => FlushIsFinal
<1>1. FlushInv /\ ClocksInWindow /\ [Next]_vars => FlushInv'
  BY FlushNext
<1>2. FlushInv /\ [Next]_vars => [\A n \in flushed : Ran(n)' => (Ran(n) \/ IsHeld(n))]_vars
  BY FlushStep
<1> QED
  BY FlushInit, <1>1, <1>2, PTL DEF Spec, FlushIsFinal

\* ... which a wire that keeps its order ensures.
THEOREM FlushIsFinalInOrder ==
  ASSUME ~Reordering, SeenWindow >= 2
  PROVE  Spec => FlushIsFinal
<1>1. OrderInv /\ [Next]_vars => OrderInv'
  BY OrderNext
<1>2. OrderInv => ClocksInWindow
  BY OrderWindow
<1> QED
  BY OrderInit, <1>1, <1>2, FlushIsFinalInWindow, PTL DEF Spec

-----------------------------------------------------------------------------
(* An offset between the two streams is counted                            *)

\* The parent has given up on exchange n, and the child has been told.
Settled(n) == GivenUp(n) /\ ~GiveUpOnWire(n)

\* Of such an exchange nothing is left on the wire, nor queued unless it was
\* held back, and if the child's game is running it the child knows.
SettledKnown ==
  \A n \in 1..Begun :
    Settled(n) =>
      /\ \A i \in 1..Len(p2c) : p2c[i].n # n
      /\ \A i \in 1..Len(queue) : queue[i].n = n => HeldSince(n)
      /\ words.n = n => shifted \/ HeldSince(n)
      /\ Ran(n) => shifted \/ HeldSince(n)

OffsetInv == OrderInv /\ LineInv /\ SettledKnown

\* The packets that are not taken stay.
LEMMA WithoutStays ==
  ASSUME NEW S, NEW s \in Seq(S), NEW i \in 1..Len(s), NEW k \in 1..Len(s), k # i,
         NEW t, t = Without(s, i)
  PROVE  \E j \in 1..Len(t) : t[j] = s[k]
<1>1. Len(t) = Len(s) - 1 /\ Len(s) \in Nat
  BY LenProperties DEF Without
<1>2. CASE k < i
  BY <1>1, <1>2 DEF Without
<1>3. CASE k > i
  <2>1. k - 1 \in 1..Len(t) /\ ~(k - 1 < i) /\ (k - 1) + 1 = k
    BY <1>1, <1>3
  <2>2. t[k - 1] = s[k]
    BY <1>1, <2>1 DEF Without
  <2> QED
    BY <2>1, <2>2
<1> QED
  BY <1>2, <1>3

\* Giving up on an exchange puts it on the wire.
LEMMA GivenUpIsTold ==
  ASSUME TypeInv, AwaitsNewest, [Next]_vars, NEW n \in 1..Begun', GivenUp(n)',
         ~GiveUpOnWire(n)'
  PROVE  n \in 1..Begun /\ GivenUp(n)
<1>0. /\ p2c \in Seq([tag : {"clock", "gaveup"}, n : Nat, word : Nat])
      /\ Begun \in Nat /\ pendingOut \in Nat /\ Absent \in Nat
      /\ outcome \in Seq(Outcome) /\ awaiting \in Nat
  BY WireType DEF TypeInv, TypeOK, Absent
<1>1. CASE outcome' = outcome
  BY <1>1 DEF GivenUp, Begun
<1>2. CASE ParentStart
  <2> DEFINE e == [kind |-> "begun", own |-> 0, peer |-> 0]
  <2>1. outcome' = Append(outcome, e)
    BY <1>2 DEF ParentStart, BeginExchange
  <2>2. e \in Outcome /\ e.kind = "begun"
    BY DEF Outcome
  <2> HIDE DEF e
  <2>3. /\ Len(outcome') = Len(outcome) + 1 /\ outcome'[Len(outcome) + 1] = e
        /\ \A m \in 1..Len(outcome) : outcome'[m] = outcome[m]
    BY <1>0, <2>1, <2>2, AppendType
  <2>4. n \in 1..Begun \/ n = Begun + 1
    BY <1>0, <2>3 DEF Begun
  <2> QED
    BY <2>2, <2>3, <2>4 DEF GivenUp, Begun
<1>3. ASSUME NEW kind \in {"landed", "late", "gone"}, NEW o \in Nat, NEW p \in Nat,
             Conclude(kind, o, p), phase # "idle", phase' = "idle", awaiting' = 0,
             kind = "landed" \/ p2c' = Append(p2c, GaveUp(awaiting))
      PROVE  n \in 1..Begun /\ GivenUp(n)
  <2>0. AwaitsNewest
    OBVIOUS
  <2>1. /\ Begun' = Begun
        /\ outcome'[awaiting] = [kind |-> kind, own |-> o, peer |-> p]
        /\ \A m \in 1..Begun : m # awaiting => outcome'[m] = outcome[m]
    BY <1>3, <2>0, ConcludeKeeps
  <2>2. n # awaiting
    <3>1. CASE kind = "landed"
      BY <2>1, <3>1 DEF GivenUp
    <3>2. CASE p2c' = Append(p2c, GaveUp(awaiting))
      <4>1. GaveUp(awaiting) \in [tag : {"clock", "gaveup"}, n : Nat, word : Nat]
        BY <1>0 DEF GaveUp
      <4>2. /\ Len(p2c) \in Nat /\ Len(p2c') = Len(p2c) + 1
            /\ p2c'[Len(p2c) + 1] = GaveUp(awaiting)
        BY <3>2, <4>1, WireAppended
      <4>3. Len(p2c) + 1 \in 1..Len(p2c')
        BY <4>2
      <4> QED
        BY <4>2, <4>3 DEF GiveUpOnWire, GaveUp
    <3> QED
      BY <1>3, <3>1, <3>2
  <2> QED
    BY <2>1, <2>2 DEF GivenUp
<1>4. CASE ParentLand
  <2>1. /\ Conclude("landed", pendingOut, reply) /\ phase # "idle" /\ phase' = "idle"
        /\ awaiting' = 0 /\ reply \in Nat
    BY <1>4 DEF ParentLand, TypeInv, TypeOK
  <2> QED
    BY <1>0, <1>3, <2>1
<1>5. CASE ParentOpenCircuit
  <2>1. /\ Conclude("gone", pendingOut, Absent) /\ phase # "idle" /\ phase' = "idle"
        /\ awaiting' = 0 /\ p2c' = Append(p2c, GaveUp(awaiting))
    BY <1>5 DEF ParentOpenCircuit, Abandon
  <2> QED
    BY <1>0, <1>3, <2>1
<1>6. CASE ParentTimeout
  <2>1. /\ Conclude("late", pendingOut, Absent) /\ phase # "idle" /\ phase' = "idle"
        /\ awaiting' = 0 /\ p2c' = Append(p2c, GaveUp(awaiting))
    BY <1>6 DEF ParentTimeout, Abandon
  <2> QED
    BY <1>0, <1>3, <2>1
<1>7. CASE ParentStore \/ ParentCollect \/ ParentRetry \/ ParentSelectMulti
           \/ ParentReceive \/ ParentHearsPeer \/ ChildNext \/ Lose \/ UNCHANGED vars
  <2>1. outcome' = outcome
    BY <1>7 DEF ParentStore, ParentCollect, ParentRetry, ParentSelectMulti, ParentReceive,
                ParentHearsPeer, ChildNext, ChildStore, DeferralExpires, ChildClocked,
                ChildToldGaveUp, ChildStep, ChildPark, ChildUnpark, ChildSelectMulti,
                Lose, parentVars, vars
  <2> QED
    BY <1>1, <2>1
<1> QED
  BY <1>2, <1>4, <1>5, <1>6, <1>7 DEF Next, ParentNext

\* A give-up leaves the wire when the child reads it.
LEMMA GiveUpIsRead ==
  ASSUME ~Lossy, TypeInv, AwaitsNewest, AwaitedRuns, [Next]_vars, NEW n,
         GiveUpOnWire(n), ~GiveUpOnWire(n)'
  PROVE  \E i \in Deliverable(p2c) :
           /\ p2c[i].n = n /\ p2c[i].tag = "gaveup" /\ p2c' = Without(p2c, i)
           /\ IF \E j \in 1..Len(queue) : SameSeq(queue[j].n, n)
              THEN TakeBack(n) /\ UNCHANGED shifted
              ELSE /\ shifted' = (shifted \/ (LastAccepted # 0 /\ AtOrPast(LastAccepted, n)))
                   /\ UNCHANGED queue
           /\ UNCHANGED <<parentVars, words, delivered, answers, deferred>>
<1>0. p2c \in Seq([tag : {"clock", "gaveup"}, n : Nat, word : Nat]) /\ Len(p2c) \in Nat
  BY WireType
<1>1. PICK k \in 1..Len(p2c) : p2c[k].tag = "gaveup" /\ p2c[k].n = n
  BY DEF GiveUpOnWire
<1>2. ~(\E j \in 1..Len(p2c') : p2c'[j] = p2c[k])
  BY <1>1 DEF GiveUpOnWire
<1>3. ASSUME NEW e \in [tag : {"clock", "gaveup"}, n : Nat, word : Nat], p2c' = Append(p2c, e)
      PROVE  FALSE
  <2>1. Len(p2c') = Len(p2c) + 1 /\ p2c'[k] = p2c[k]
    BY <1>3, WireAppended
  <2>2. k \in 1..Len(p2c')
    BY <1>0, <2>1
  <2> QED
    BY <1>2, <2>1, <2>2
<1>4. pOut \in Nat /\ pendingOut \in Nat /\ awaiting \in Nat /\ Begun \in Nat
  BY WireType DEF TypeInv, TypeOK
<1>6. p2c' # p2c
  BY <1>0, <1>2
<1>7. CASE ParentNext
  <2>1. p2c' = p2c \/ (\E e \in [tag : {"clock", "gaveup"}, n : Nat, word : Nat] : p2c' = Append(p2c, e))
    <3>1. /\ GaveUp(awaiting) \in [tag : {"clock", "gaveup"}, n : Nat, word : Nat]
          /\ Clock(awaiting, pendingOut) \in [tag : {"clock", "gaveup"}, n : Nat, word : Nat]
          /\ Clock(Begun + 1, pOut) \in [tag : {"clock", "gaveup"}, n : Nat, word : Nat]
      BY <1>4 DEF GaveUp, Clock
    <3> QED
      BY <1>7, <3>1 DEF ParentNext, ParentStore, ParentStart, ParentCollect, ParentOpenCircuit,
                        ParentLand, ParentRetry, ParentTimeout, ParentSelectMulti,
                        ParentReceive, ParentHearsPeer, BeginExchange, Abandon
  <2> QED
    BY <1>3, <1>6, <2>1
<1>8. CASE \/ ChildStore \/ DeferralExpires \/ ChildStep \/ ChildPark \/ ChildUnpark
           \/ ChildSelectMulti \/ UNCHANGED vars
  BY <1>6, <1>8 DEF ChildStore, DeferralExpires, ChildStep, ChildPark, ChildUnpark,
                    ChildSelectMulti, vars
<1>9. CASE ChildClocked
  <2>1. PICK i \in 1..Len(p2c) : p2c[i].tag = "clock" /\ p2c' = Without(p2c, i)
    BY <1>0, <1>9, DeliverableIndex DEF ChildClocked
  <2>2. k # i
    BY <1>1, <2>1
  <2> QED
    BY <1>0, <1>2, <2>1, <2>2, WithoutStays
<1>10. CASE ChildToldGaveUp
  <2>1. PICK i \in Deliverable(p2c) :
          /\ p2c[i].tag = "gaveup"
          /\ IF \E j \in 1..Len(queue) : SameSeq(queue[j].n, p2c[i].n)
             THEN TakeBack(p2c[i].n) /\ UNCHANGED shifted
             ELSE /\ shifted' = (shifted \/ (LastAccepted # 0 /\ AtOrPast(LastAccepted, p2c[i].n)))
                  /\ UNCHANGED queue
          /\ p2c' = Without(p2c, i)
          /\ UNCHANGED <<parentVars, words, delivered, answers, deferred>>
    BY <1>10 DEF ChildToldGaveUp
  <2>2. i \in 1..Len(p2c)
    BY <1>0, <2>1, DeliverableIndex
  <2>3. k = i
    BY <1>0, <1>2, <2>1, <2>2, WithoutStays
  <2>4. p2c[i].n = n
    BY <1>1, <2>3
  <2> QED
    BY <2>1, <2>4
<1>11. CASE Lose
  BY <1>11 DEF Lose
<1> QED
  BY <1>7, <1>8, <1>9, <1>10, <1>11 DEF Next, ChildNext

\* `shifted` and what has been answered since are never forgotten.
LEMMA KnownStays ==
  ASSUME TypeInv, AnswersKept, [Next]_vars, NEW n
  PROVE  /\ shifted => shifted'
         /\ HeldSince(n) => HeldSince(n)'
<1>1. shifted => shifted'
  BY StepKinds DEF HeldAnswered, ClockAnswered, ClockDeferred, NoAnswer, Answering,
                   ChildStep, ChildToldGaveUp, ChildSelectMulti
<1>2. ASSUME HeldSince(n)
      PROVE  HeldSince(n)'
  <2>1. PICK i \in AnswerTo(n) : \E j \in i..Len(answers) : answers[j].held
    BY <1>2 DEF HeldSince
  <2>2. PICK j \in i..Len(answers) : answers[j].held
    BY <2>1
  <2>3. i \in 1..Len(answers) /\ j \in 1..Len(answers) /\ answers[i].n = n
    BY <2>1, <2>2, WireType DEF AnswerTo
  <2>4. /\ i \in 1..Len(answers') /\ answers'[i] = answers[i]
        /\ j \in 1..Len(answers') /\ answers'[j] = answers[j]
    BY <2>3 DEF AnswersKept
  <2>5. j \in i..Len(answers')
    BY <2>2, <2>4
  <2> QED
    BY <2>2, <2>3, <2>4, <2>5 DEF HeldSince, AnswerTo
<1> QED
  BY <1>1, <1>2

\* A settled exchange stays known ...
LEMMA SettledStays ==
  ASSUME OffsetInv, OrderInv', [Next]_vars, NEW n \in 1..Begun, Settled(n)
  PROVE  /\ \A i \in 1..Len(p2c') : p2c'[i].n # n
         /\ \A i \in 1..Len(queue') : queue'[i].n = n => HeldSince(n)'
         /\ words'.n = n => shifted' \/ HeldSince(n)'
         /\ Ran(n)' => shifted' \/ HeldSince(n)'
<1>1. /\ TypeInv /\ TypeInv' /\ AwaitsNewest /\ AwaitedRuns /\ AnswersKept
      /\ Begun \in Nat /\ pOut \in Nat /\ pendingOut \in Nat /\ awaiting \in Nat
  <2>1. TypeInv /\ TypeInv' /\ AwaitsNewest /\ AwaitedRuns
    BY DEF OffsetInv, OrderInv, WireInv
  <2> QED
    BY <2>1, AnswersKeptNext, WireType DEF TypeInv, TypeOK
<1>2. /\ shifted => shifted'
      /\ HeldSince(n) => HeldSince(n)'
  BY <1>1, KnownStays
<1>3. /\ \A i \in 1..Len(p2c) : p2c[i].n # n
      /\ \A i \in 1..Len(queue) : queue[i].n = n => HeldSince(n)
      /\ words.n = n => shifted \/ HeldSince(n)
      /\ Ran(n) => shifted \/ HeldSince(n)
  BY DEF OffsetInv, SettledKnown
<1>4. n # awaiting \/ awaiting = 0
  BY DEF Settled, GivenUp, AwaitedRuns, OffsetInv, OrderInv, WireInv
<1>5. \A i \in 1..Len(p2c') : p2c'[i].n # n
  <2>1. ASSUME NEW e \in [tag : {"clock", "gaveup"}, n : Nat, word : Nat],
               p2c' = Append(p2c, e), e.n # n, NEW i \in 1..Len(p2c')
        PROVE  p2c'[i].n # n
    <3>1. /\ Len(p2c) \in Nat /\ Len(p2c') = Len(p2c) + 1
          /\ \A j \in 1..Len(p2c) : p2c'[j] = p2c[j]
          /\ p2c'[Len(p2c) + 1] = e
      BY <1>1, <2>1, WireAppended
    <3>2. i \in 1..Len(p2c) \/ i = Len(p2c) + 1
      BY <2>1, <3>1
    <3> QED
      BY <1>3, <2>1, <3>1, <3>2
  <2>2. /\ GaveUp(awaiting) \in [tag : {"clock", "gaveup"}, n : Nat, word : Nat]
        /\ Clock(awaiting, pendingOut) \in [tag : {"clock", "gaveup"}, n : Nat, word : Nat]
        /\ Clock(Begun + 1, pOut) \in [tag : {"clock", "gaveup"}, n : Nat, word : Nat]
        /\ GaveUp(awaiting).n = awaiting /\ Clock(awaiting, pendingOut).n = awaiting
        /\ Clock(Begun + 1, pOut).n = Begun + 1
    BY <1>1 DEF GaveUp, Clock
  <2>3. CASE WireQuiet
    BY <1>3, <2>3 DEF WireQuiet, Keeps
  <2>4. CASE WireGaveUp \/ WireRetried
    <3>1. awaiting # n
      BY <1>1, <1>4, <2>4 DEF WireGaveUp, WireRetried
    <3> QED
      BY <2>1, <2>2, <2>4, <3>1 DEF WireGaveUp, WireRetried
  <2>5. CASE WireStarted
    <3>1. Begun + 1 # n
      BY <1>1
    <3> QED
      BY <2>1, <2>2, <2>5, <3>1 DEF WireStarted
  <2> QED
    BY <1>1, <2>3, <2>4, <2>5, WireKinds
<1>6. \A i \in 1..Len(queue') : queue'[i].n = n => HeldSince(n)'
  <2>1. CASE HeldAnswered
    <3>1. /\ Answering(deferred, TRUE) /\ deferred.n \in Nat /\ deferred.pw \in Nat
      BY <1>1, <2>1, WireType DEF HeldAnswered, Transfer
    <3>2. /\ Len(answers) \in Nat /\ Len(answers') = Len(answers) + 1
          /\ answers'[Len(answers) + 1].n = deferred.n
          /\ answers'[Len(answers) + 1].held = TRUE
      BY <1>1, <3>1, AnsweringAdds
    <3>3. deferred.n = n => HeldSince(n)'
      <4>1. /\ Len(answers) + 1 \in 1..Len(answers')
            /\ Len(answers) + 1 \in (Len(answers) + 1)..Len(answers')
        BY <3>2
      <4> QED
        BY <3>2, <4>1 DEF HeldSince, AnswerTo
    <3>4. \A i \in 1..Len(queue') :
            queue'[i].n = deferred.n \/ \E k \in 1..Len(queue) : queue'[i] = queue[k]
      BY <1>1, <3>1, QueueAdds
    <3> QED
      BY <1>2, <1>3, <3>3, <3>4
  <2>2. CASE ClockAnswered
    <3>1. PICK k \in 1..Len(p2c) :
            Answering([n |-> p2c[k].n, pw |-> p2c[k].word, cw |-> 0], FALSE)
      BY <1>1, <2>2, WireType, DeliverableIndex DEF ClockAnswered
    <3> DEFINE t == [n |-> p2c[k].n, pw |-> p2c[k].word, cw |-> 0]
    <3>2. t.n = p2c[k].n /\ Answering(t, FALSE) /\ t.n \in Nat /\ t.pw \in Nat
      BY <1>1, <3>1, WireType
    <3> HIDE DEF t
    <3>3. \A i \in 1..Len(queue') :
            queue'[i].n = t.n \/ \E j \in 1..Len(queue) : queue'[i] = queue[j]
      BY <1>1, <3>2, QueueAdds
    <3> QED
      BY <1>2, <1>3, <3>2, <3>3
  <2>3. CASE ClockDeferred
    BY <1>2, <1>3, <2>3 DEF ClockDeferred
  <2>4. CASE NoAnswer
    <3>1. \A i \in 1..Len(queue') : \E k \in 1..Len(queue) : queue'[i] = queue[k]
      BY <1>1, <2>4, NoAnswerQueue DEF Keeps
    <3> QED
      BY <1>2, <1>3, <3>1
  <2> QED
    BY <1>1, <2>1, <2>2, <2>3, <2>4, StepKinds
<1>7. words'.n = n => shifted' \/ HeldSince(n)'
  <2>1. CASE ChildStep
    <3>1. queue \in Seq(Transfer)
      BY <1>1 DEF TypeInv, TypeOK
    <3>2. words' \in {words, NoTransfer} \/ (queue # <<>> /\ words' = Head(queue))
      BY <2>1 DEF ChildStep
    <3>3. queue # <<>> => Head(queue) = queue[1] /\ 1 \in 1..Len(queue)
      BY <3>1, KeepsTail
    <3>4. NoTransfer.n # n
      BY DEF NoTransfer
    <3> QED
      BY <1>2, <1>3, <3>2, <3>3, <3>4
  <2>2. CASE ~ChildStep
    <3>1. words' \in {words, NoTransfer}
      BY <1>1, <2>2, StepKinds
         DEF HeldAnswered, ClockAnswered, ClockDeferred, NoAnswer, Answering,
             ChildToldGaveUp, ChildSelectMulti
    <3>2. NoTransfer.n # n
      BY DEF NoTransfer
    <3> QED
      BY <1>2, <1>3, <3>1, <3>2
  <2> QED
    BY <2>1, <2>2
<1>8. Ran(n)' => shifted' \/ HeldSince(n)'
  <2>1. delivered \in Seq(Transfer) /\ words \in Transfer /\ Len(delivered) \in Nat
    BY <1>1, LenProperties DEF TypeInv, TypeOK
  <2>2. CASE delivered' = delivered
    BY <1>2, <1>3, <2>2 DEF Ran
  <2>3. CASE delivered' = Append(delivered, words)
    <3>1. /\ Len(delivered') = Len(delivered) + 1
          /\ \A j \in 1..Len(delivered) : delivered'[j] = delivered[j]
          /\ delivered'[Len(delivered) + 1] = words
      BY <2>1, <2>3, AppendType
    <3>2. \A i \in 1..Len(delivered') : i \in 1..Len(delivered) \/ i = Len(delivered) + 1
      BY <2>1, <3>1
    <3>3. Ran(n)' => Ran(n) \/ words.n = n
      BY <3>1, <3>2 DEF Ran
    <3> QED
      BY <1>2, <1>3, <3>3
  <2> QED
    BY <1>1, <2>2, <2>3, DeliveredGrows
<1> QED
  BY <1>5, <1>6, <1>7, <1>8

\* When the give-up on n is read and n is not in the queue, the answer to n is
\* the last the child gave on the bus, or a held clock was answered after it.
LEMMA LastIsGone ==
  ASSUME OrderInv, NEW k \in 1..Len(p2c), NEW n, p2c[k].n = n, n \in Nat \ {0},
         NEW a \in 1..Len(answers), answers[a].n = n, answers[a].bus
  PROVE  (LastAccepted # 0 /\ AtOrPast(LastAccepted, n)) \/ HeldSince(n)
<1>1. /\ TypeInv /\ AnsweredOnce /\ AnswersOrdered /\ AheadOfAnswers(n)
      /\ Len(answers) \in Nat
  BY WireType DEF OrderInv, WireInv, AnswersBehind
<1>2. a = Len(answers) \/ a = Len(answers) - 1
  BY <1>1 DEF AheadOfAnswers
<1>3. ASSUME \A j \in OnBusAnswers : j <= a
      PROVE  LastAccepted # 0 /\ AtOrPast(LastAccepted, n)
  <2>1. a \in OnBusAnswers
    BY DEF OnBusAnswers
  <2>2. \A j \in OnBusAnswers : (\A i \in OnBusAnswers : i <= j) => j = a
    <3>1. OnBusAnswers \subseteq Int
      BY DEF OnBusAnswers
    <3> QED
      BY <1>3, <2>1, <3>1
  <2>3. a = CHOOSE i \in OnBusAnswers : \A j \in OnBusAnswers : j <= i
    BY <1>3, <2>1, <2>2
  <2>4. LastAccepted = n
    BY <2>1, <2>3 DEF LastAccepted
  <2>5. AtOrPast(n, n)
    <3>1. SeqOf(n) - SeqOf(n) = 0
      <4>1. SeqMod \in Nat /\ SeqMod >= 2 /\ n - 1 \in Nat
        BY CableAssumption
      <4>2. (n - 1) % SeqMod \in Int
        BY <4>1, DivMod
      <4> QED
        BY <4>2 DEF SeqOf
    <3>2. 0 % SeqMod = 0 /\ 0 < SeqMod \div 2
      BY CableAssumption
    <3> QED
      BY <3>1, <3>2 DEF AtOrPast
  <2> QED
    BY <2>4, <2>5
<1>4. CASE \A j \in OnBusAnswers : j <= a
  BY <1>3, <1>4
<1>5. CASE \E j \in OnBusAnswers : ~(j <= a)
  <2>1. PICK j \in 1..Len(answers) : ~(j <= a)
    BY <1>5 DEF OnBusAnswers
  <2>2. a = Len(answers) - 1 /\ j = Len(answers) /\ a < j
    BY <1>1, <1>2, <2>1
  <2>3. answers[j].n <= n /\ answers[j].n \in Nat
    BY <1>1, WireType DEF AheadOfAnswers, Answer
  <2>4. answers[j].held
    <3>1. SUFFICES ASSUME ~answers[j].held
                   PROVE  FALSE
      OBVIOUS
    <3>2. answers[a].n < answers[j].n
      BY <1>1, <2>2, <3>1 DEF AnswersOrdered
    <3> QED
      BY <2>3, <3>2
  <2>5. j \in a..Len(answers)
    BY <1>1, <2>2
  <2> QED
    BY <2>4, <2>5 DEF HeldSince, AnswerTo
<1> QED
  BY <1>4, <1>5

\* ... and it becomes known when the give-up is read.
LEMMA SettledIsKnown ==
  ASSUME ~Reordering, ~Lossy, OffsetInv, OrderInv', LineInv', [Next]_vars,
         NEW n \in 1..Begun, ~Settled(n), GivenUp(n), ~GiveUpOnWire(n)'
  PROVE  /\ \A i \in 1..Len(p2c') : p2c'[i].n # n
         /\ \A i \in 1..Len(queue') : queue'[i].n = n => HeldSince(n)'
         /\ words'.n = n => shifted' \/ HeldSince(n)'
         /\ Ran(n)' => shifted' \/ HeldSince(n)'
<1>1. /\ TypeInv /\ AwaitsNewest /\ AwaitedRuns /\ InPlayRecent /\ AnswersKept
      /\ WireOrdered /\ OrderInv /\ LineInv /\ LineAnswered /\ LineDistinct
      /\ Begun \in Nat
  <2>1. TypeInv /\ AwaitsNewest /\ AwaitedRuns /\ InPlayRecent
    BY DEF OffsetInv, OrderInv, WireInv
  <2> QED
    BY <2>1, AnswersKeptNext, WireType DEF OffsetInv, OrderInv, LineInv
<1>2. GiveUpOnWire(n)
  BY DEF Settled
<1>3. PICK i \in Deliverable(p2c) :
        /\ p2c[i].n = n /\ p2c[i].tag = "gaveup" /\ p2c' = Without(p2c, i)
        /\ IF \E j \in 1..Len(queue) : SameSeq(queue[j].n, n)
           THEN TakeBack(n) /\ UNCHANGED shifted
           ELSE /\ shifted' = (shifted \/ (LastAccepted # 0 /\ AtOrPast(LastAccepted, n)))
                /\ UNCHANGED queue
        /\ UNCHANGED <<parentVars, words, delivered, answers, deferred>>
  BY <1>1, <1>2, GiveUpIsRead
<1>4. i = 1 /\ i \in 1..Len(p2c) /\ Len(p2c) \in Nat
  BY <1>1, WireType, DeliverableIndex
<1>5. ASSUME NEW j \in 1..Len(p2c')
      PROVE  p2c'[j].n # n
  <2>1. Len(p2c') = Len(p2c) - 1 /\ p2c'[j] = p2c[j + 1]
    BY <1>3, <1>4, <1>5 DEF Without
  <2>2. j + 1 \in 1..Len(p2c) /\ i < j + 1
    BY <1>4, <1>5, <2>1
  <2>3. p2c[j + 1].tag \in {"clock", "gaveup"} /\ p2c[j + 1].n \in Nat
    BY <1>1, <2>2, WireType
  <2>4. CASE p2c[j + 1].tag = "clock"
    <3>1. p2c[i].n < p2c[j + 1].n
      BY <1>1, <1>3, <1>4, <2>2, <2>4 DEF WireOrdered
    <3> QED
      BY <1>3, <2>1, <2>3, <3>1
  <2>5. CASE p2c[j + 1].tag = "gaveup"
    BY <2>1, <2>5, <1>5 DEF GiveUpOnWire
  <2> QED
    BY <2>3, <2>4, <2>5
<1>6. \A j \in 1..Len(queue') : queue'[j].n # n
  BY <1>3, <1>1, KeepsTaken DEF SameSeq
<1>7. \A k \in InLine : Line(k).n = n =>
        (LastAccepted # 0 /\ AtOrPast(LastAccepted, n)) \/ HeldSince(n)
  <2>1. SUFFICES ASSUME NEW k \in InLine, Line(k).n = n
                 PROVE  (LastAccepted # 0 /\ AtOrPast(LastAccepted, n)) \/ HeldSince(n)
    OBVIOUS
  <2>2. PICK a \in 1..Len(answers) : answers[a].n = n /\ answers[a].bus
    BY <1>1, <2>1 DEF LineAnswered, AnswerOf
  <2>3. n \in Nat \ {0}
    BY <1>1
  <2> QED
    BY <1>1, <1>3, <1>4, <2>2, <2>3, LastIsGone
<1>8. ASSUME NEW k \in InLine, Line(k).n = n, k <= Len(delivered) + 1
      PROVE  shifted' \/ HeldSince(n)'
  <2>1. CASE \E j \in 1..Len(queue) : SameSeq(queue[j].n, n)
    <3>1. PICK j \in 1..Len(queue) : SameSeq(queue[j].n, n)
      BY <2>1
    <3>2. queue[j].n = n
      <4>1. /\ queue[j].n \in Nat \ {0} /\ Begun - queue[j].n < SeqMod /\ queue[j].n <= Begun
            /\ Begun - n < SeqMod /\ n \in Nat \ {0} /\ n <= Begun
        BY <1>1, <1>3, <1>4, <3>1 DEF InPlayRecent, Recent
      <4>2. SeqMod \in Nat
        BY CableAssumption
      <4>3. SameSeq(n, queue[j].n)
        BY <3>1 DEF SameSeq
      <4>4. CASE queue[j].n <= n
        <5>1. n - queue[j].n < SeqMod
          BY <1>1, <4>1, <4>2
        <5> QED
          BY <3>1, <4>1, <4>4, <5>1, SameSeqUnique
      <4>5. CASE n <= queue[j].n
        <5>1. queue[j].n - n < SeqMod
          BY <1>1, <4>1, <4>2
        <5> QED
          BY <4>1, <4>3, <4>5, <5>1, SameSeqUnique
      <4> QED
        BY <4>1, <4>4, <4>5
    <3>3. /\ Len(delivered) + 1 + j \in InLine /\ Line(Len(delivered) + 1 + j) = queue[j]
          /\ k # Len(delivered) + 1 + j
      <4>1. Len(delivered) \in Nat /\ Len(queue) \in Nat /\ k \in Int
        BY <1>1, WireType DEF InLine
      <4> QED
        BY <1>8, <3>2, <4>1 DEF InLine, Line, LineLen, NoTransfer
    <3> QED
      BY <1>1, <1>8, <3>2, <3>3 DEF LineDistinct
  <2>2. CASE ~(\E j \in 1..Len(queue) : SameSeq(queue[j].n, n))
    <3>1. shifted' = (shifted \/ (LastAccepted # 0 /\ AtOrPast(LastAccepted, n)))
      BY <1>3, <2>2
    <3>2. HeldSince(n) => HeldSince(n)'
      BY <1>1, KnownStays
    <3> QED
      BY <1>7, <1>8, <3>1, <3>2
  <2> QED
    BY <2>1, <2>2
<1>9. Len(delivered) \in Nat /\ Len(queue) \in Nat
  BY <1>1, WireType
<1>10. words'.n = n => shifted' \/ HeldSince(n)'
  <2>1. words.n = n => Len(delivered) + 1 \in InLine /\ Line(Len(delivered) + 1) = words
    BY <1>9 DEF InLine, Line, LineLen, NoTransfer
  <2> QED
    BY <1>3, <1>8, <1>9, <2>1
<1>11. Ran(n)' => shifted' \/ HeldSince(n)'
  <2>1. SUFFICES ASSUME Ran(n)
                 PROVE  shifted' \/ HeldSince(n)'
    BY <1>3 DEF Ran
  <2>2. PICK k \in 1..Len(delivered) : delivered[k].n = n
    BY <2>1 DEF Ran
  <2>3. k \in InLine /\ Line(k) = delivered[k] /\ k <= Len(delivered) + 1
    BY <1>1, <1>9, DeliveredInLine
  <2> QED
    BY <1>8, <2>2, <2>3
<1> QED
  BY <1>5, <1>6, <1>10, <1>11

LEMMA OffsetInit == Init => OffsetInv
<1> SUFFICES ASSUME Init
             PROVE  OffsetInv
  OBVIOUS
<1>1. Begun = 0
  BY DEF Init, Begun
<1> QED
  BY <1>1, OrderInit, LineInit DEF OffsetInv, SettledKnown

LEMMA OffsetNext ==
  ASSUME ~Reordering, ~Lossy, SeenWindow >= 2, OffsetInv, [Next]_vars
  PROVE  OffsetInv'
<1>1. OrderInv /\ LineInv /\ ClocksInWindow /\ TypeInv /\ AwaitsNewest
  BY OrderWindow DEF OffsetInv, OrderInv, WireInv
<1>2. OrderInv' /\ LineInv'
  BY <1>1, OrderNext, LineNext
<1>3. ASSUME NEW n \in 1..Begun', Settled(n)'
      PROVE  /\ \A i \in 1..Len(p2c') : p2c'[i].n # n
             /\ \A i \in 1..Len(queue') : queue'[i].n = n => HeldSince(n)'
             /\ words'.n = n => shifted' \/ HeldSince(n)'
             /\ Ran(n)' => shifted' \/ HeldSince(n)'
  <2>1. GivenUp(n)' /\ ~GiveUpOnWire(n)'
    BY <1>3 DEF Settled
  <2>2. n \in 1..Begun /\ GivenUp(n)
    BY <1>1, <2>1, GivenUpIsTold
  <2>3. CASE Settled(n)
    BY <1>2, <2>2, <2>3, SettledStays
  <2>4. CASE ~Settled(n)
    BY <1>2, <2>1, <2>2, <2>4, SettledIsKnown
  <2> QED
    BY <2>3, <2>4
<1>4. SettledKnown'
  BY <1>3 DEF SettledKnown
<1> QED
  BY <1>2, <1>4 DEF OffsetInv

LEMMA OffsetKnown ==
  ASSUME OffsetInv
  PROVE  OffsetCounted
<1>1. ASSUME NEW i \in 1..Len(delivered), NEW n, n = delivered[i].n,
             GivenUp(n), ~GiveUpOnWire(n), ~HeldSince(n)
      PROVE  shifted
  <2>1. PICK a \in 1..Len(answers) : answers[a].n = n
    BY <1>1, DeliveredInLine DEF OffsetInv, LineInv, LineAnswered, AnswerOf
  <2>2. n \in 1..Begun
    BY <2>1 DEF OffsetInv, OrderInv, WireInv, InPlayRecent
  <2> QED
    BY <1>1, <2>2 DEF OffsetInv, SettledKnown, Settled, Ran
<1> QED
  BY <1>1 DEF OffsetCounted

\* On a wire that keeps its order and loses nothing: a transfer the parent gave
\* up on and the child's game ran all the same is counted in `shifted` once the
\* give-up has been read, unless a held clock was answered after it (cable.rs
\* on_packet, TAG_GAVE_UP).
THEOREM OffsetCountedInOrder ==
  ASSUME ~Reordering, ~Lossy, SeenWindow >= 2
  PROVE  Spec => []OffsetCounted
<1>1. OffsetInv /\ [Next]_vars => OffsetInv'
  BY OffsetNext
<1>2. OffsetInv => OffsetCounted
  BY OffsetKnown
<1> QED
  BY OffsetInit, <1>1, <1>2, PTL DEF Spec

-----------------------------------------------------------------------------
(* The protocol implements LinkExchange                                    *)

\* Every word on its way is one a game stored.
WordsInRange ==
  /\ own <= MaxStores /\ Begun <= MaxExchanges
  /\ pOut <= MaxExchanges + 1 /\ pendingOut <= MaxExchanges + 1
  /\ \A i \in 1..Len(p2c) : p2c[i].word <= MaxExchanges + 1
  /\ deferred.pw <= MaxExchanges + 1
  /\ \A i \in 1..Len(answers) : answers[i].pw \in Words /\ answers[i].cw \in Words

LEMMA RangeInit == Init => WordsInRange
<1> SUFFICES ASSUME Init
             PROVE  WordsInRange
  OBVIOUS
<1>1. /\ own = 0 /\ pOut = 0 /\ pendingOut = 0 /\ deferred.pw = 0
      /\ Len(p2c) = 0 /\ Len(answers) = 0 /\ Begun = 0
  BY DEF Init, Absent, NoTransfer, Begun
<1> QED
  BY <1>1, CableAssumption DEF WordsInRange

\* The parent's words.
LEMMA RangeParent ==
  ASSUME WireInv, WordsInRange, [Next]_vars
  PROVE  /\ Begun' <= MaxExchanges
         /\ pOut' <= MaxExchanges + 1 /\ pendingOut' <= MaxExchanges + 1
         /\ own' <= MaxStores
<1>1. /\ TypeInv /\ AwaitsNewest /\ AwaitedRuns
      /\ Begun \in Nat /\ pOut \in Nat /\ pendingOut \in Nat /\ own \in Nat
      /\ MaxExchanges \in Nat /\ MaxStores \in Nat
      /\ own <= MaxStores /\ Begun <= MaxExchanges
      /\ pOut <= MaxExchanges + 1 /\ pendingOut <= MaxExchanges + 1
  BY WireType, CableAssumption DEF WireInv, TypeInv, TypeOK, WordsInRange
<1>2. own' <= MaxStores
  <2>1. CASE ChildStore
    BY <1>1, <2>1 DEF ChildStore
  <2>2. CASE ~ChildStore
    <3>1. own' = own
      BY <2>2 DEF Next, ParentNext, ChildNext, ParentStore, ParentStart, ParentCollect,
           ParentOpenCircuit, ParentLand, ParentRetry, ParentTimeout, ParentSelectMulti,
           ParentReceive, ParentHearsPeer, DeferralExpires, ChildClocked, ChildToldGaveUp,
           ChildStep, ChildPark, ChildUnpark, ChildSelectMulti, Lose, childVars, vars
    <3> QED
      BY <1>1, <3>1
  <2> QED
    BY <2>1, <2>2
<1>3. CASE ParentStart
  <2>1. /\ Begun < MaxExchanges /\ pendingOut' = pOut /\ pOut' = pOut
        /\ outcome' = Append(outcome, [kind |-> "begun", own |-> 0, peer |-> 0])
    BY <1>3 DEF ParentStart, BeginExchange
  <2>2. Begun' = Begun + 1
    BY <1>1, <2>1 DEF Begun, TypeInv, TypeOK
  <2> QED
    BY <1>1, <1>2, <2>1, <2>2
<1>4. CASE ~ParentStart
  <2>1. /\ pOut' \in {pOut, Begun + 1} /\ pendingOut' = pendingOut
    BY <1>4 DEF Next, ParentNext, ChildNext, ParentStore, ParentCollect,
         ParentOpenCircuit, ParentLand, ParentRetry, ParentTimeout, ParentSelectMulti,
         ParentReceive, ParentHearsPeer, ChildStore, DeferralExpires, ChildClocked,
         ChildToldGaveUp, ChildStep, ChildPark, ChildUnpark, ChildSelectMulti, Lose,
         parentVars, vars
  <2>2. Begun' = Begun
    <3>1. WireQuiet \/ WireGaveUp \/ WireRetried \/ WireStarted
      BY <1>1, WireKinds
    <3>2. CASE WireStarted
      <4>1. \/ outcome' = outcome
            \/ \E kind, o, p : Conclude(kind, o, p)
        BY <1>4 DEF Next, ParentNext, ChildNext, ParentStore, ParentCollect,
             ParentOpenCircuit, ParentLand, ParentRetry, ParentTimeout, ParentSelectMulti,
             ParentReceive, ParentHearsPeer, ChildStore, DeferralExpires, ChildClocked,
             ChildToldGaveUp, ChildStep, ChildPark, ChildUnpark, ChildSelectMulti, Lose,
             parentVars, vars
      <4>2. outcome \in Seq(Outcome)
        BY <1>1 DEF TypeInv, TypeOK
      <4> QED
        BY <4>1, <4>2 DEF Conclude, Begun
    <3> QED
      BY <3>1, <3>2 DEF WireQuiet, WireGaveUp, WireRetried, parentVars, Begun
  <2> QED
    BY <1>1, <1>2, <2>1, <2>2
<1> QED
  BY <1>3, <1>4

LEMMA RangeNext ==
  ASSUME WireInv, WordsInRange, [Next]_vars
  PROVE  WordsInRange'
<1>1. /\ Begun' <= MaxExchanges
      /\ pOut' <= MaxExchanges + 1 /\ pendingOut' <= MaxExchanges + 1
      /\ own' <= MaxStores
  BY RangeParent
<1>2. /\ TypeInv /\ TypeInv' /\ AwaitsNewest /\ AwaitedRuns
      /\ MaxExchanges \in Nat /\ MaxStores \in Nat
      /\ pOut <= MaxExchanges + 1 /\ pendingOut <= MaxExchanges + 1
  BY TypeNext, CableAssumption DEF WireInv, WordsInRange
<1>2a. pOut \in Nat /\ pendingOut \in Nat /\ awaiting \in Nat /\ Begun \in Nat /\ own' \in Nat
  BY <1>2, WireType DEF TypeInv, TypeOK
<1>3. \A i \in 1..Len(p2c') : p2c'[i].word <= MaxExchanges + 1
  <2>1. ASSUME NEW e \in [tag : {"clock", "gaveup"}, n : Nat, word : Nat],
               p2c' = Append(p2c, e), e.word <= MaxExchanges + 1, NEW i \in 1..Len(p2c')
        PROVE  p2c'[i].word <= MaxExchanges + 1
    <3>1. /\ Len(p2c) \in Nat /\ Len(p2c') = Len(p2c) + 1
          /\ \A j \in 1..Len(p2c) : p2c'[j] = p2c[j]
          /\ p2c'[Len(p2c) + 1] = e
      BY <1>2, <2>1, WireAppended
    <3>2. i \in 1..Len(p2c) \/ i = Len(p2c) + 1
      BY <2>1, <3>1
    <3> QED
      BY <2>1, <3>1, <3>2 DEF WordsInRange
  <2>2. /\ GaveUp(awaiting) \in [tag : {"clock", "gaveup"}, n : Nat, word : Nat]
        /\ Clock(awaiting, pendingOut) \in [tag : {"clock", "gaveup"}, n : Nat, word : Nat]
        /\ Clock(Begun + 1, pOut) \in [tag : {"clock", "gaveup"}, n : Nat, word : Nat]
        /\ GaveUp(awaiting).word <= MaxExchanges + 1
        /\ Clock(awaiting, pendingOut).word <= MaxExchanges + 1
        /\ Clock(Begun + 1, pOut).word <= MaxExchanges + 1
    BY <1>2, <1>2a DEF GaveUp, Clock
  <2>3. CASE WireQuiet
    BY <2>3 DEF WireQuiet, Keeps, WordsInRange
  <2>4. CASE WireGaveUp \/ WireRetried \/ WireStarted
    BY <2>1, <2>2, <2>4 DEF WireGaveUp, WireRetried, WireStarted
  <2> QED
    BY <1>2, <2>3, <2>4, WireKinds
<1>4. \A w \in Nat : w <= MaxExchanges + 1 \/ w <= MaxStores => w \in Words
  BY <1>2 DEF Words
<1>5. ASSUME NEW t, NEW held, Answering(t, held), t.pw \in Nat, t.pw <= MaxExchanges + 1
      PROVE  \A i \in 1..Len(answers') : answers'[i].pw \in Words /\ answers'[i].cw \in Words
  <2>1. /\ Len(answers) \in Nat /\ Len(answers') = Len(answers) + 1
        /\ \A i \in 1..Len(answers) : answers'[i] = answers[i]
        /\ answers'[Len(answers) + 1].pw = t.pw
        /\ answers'[Len(answers) + 1].cw \in Nat
        /\ onBus => answers'[Len(answers) + 1].cw <= own'
        /\ ~onBus => answers'[Len(answers) + 1].cw = 0
    BY <1>2, <1>5, AnsweringAdds
  <2>2. answers'[Len(answers) + 1].pw \in Words
    BY <1>4, <1>5, <2>1
  <2>3. answers'[Len(answers) + 1].cw <= MaxStores
    <3> DEFINE cw == answers'[Len(answers) + 1].cw
    <3>1. cw \in Nat /\ (onBus => cw <= own') /\ (~onBus => cw = 0)
      BY <2>1
    <3> HIDE DEF cw
    <3>2. cw <= MaxStores
      BY <1>1, <1>2, <1>2a, <3>1
    <3> QED
      BY <3>2 DEF cw
  <2>4. answers'[Len(answers) + 1].cw \in Words
    BY <1>4, <2>1, <2>3
  <2>5. \A i \in 1..Len(answers') : i \in 1..Len(answers) \/ i = Len(answers) + 1
    BY <2>1
  <2> QED
    BY <2>1, <2>2, <2>4, <2>5 DEF WordsInRange
<1>6. /\ deferred'.pw <= MaxExchanges + 1
      /\ \A i \in 1..Len(answers') : answers'[i].pw \in Words /\ answers'[i].cw \in Words
  <2>1. CASE HeldAnswered
    <3>1. /\ Answering(deferred, TRUE) /\ deferred' = NoTransfer
          /\ deferred.pw \in Nat /\ deferred.pw <= MaxExchanges + 1
      BY <1>2, <2>1, WireType DEF HeldAnswered, WordsInRange, Transfer
    <3>2. deferred'.pw = 0
      BY <3>1 DEF NoTransfer
    <3>3. \A i \in 1..Len(answers') : answers'[i].pw \in Words /\ answers'[i].cw \in Words
      BY <1>5, <3>1
    <3> QED
      BY <1>2, <3>2, <3>3
  <2>2. CASE ClockAnswered
    <3>1. PICK k \in 1..Len(p2c) :
            /\ Answering([n |-> p2c[k].n, pw |-> p2c[k].word, cw |-> 0], FALSE)
            /\ deferred' = deferred
      BY <1>2, <2>2, WireType, DeliverableIndex DEF ClockAnswered
    <3> DEFINE t == [n |-> p2c[k].n, pw |-> p2c[k].word, cw |-> 0]
    <3>2. t.pw = p2c[k].word /\ Answering(t, FALSE) /\ t.pw \in Nat
      BY <1>2, <3>1, WireType
    <3> HIDE DEF t
    <3> QED
      BY <1>5, <3>1, <3>2 DEF WordsInRange
  <2>3. CASE ClockDeferred
    <3>1. PICK k \in 1..Len(p2c) : deferred'.pw = p2c[k].word /\ answers' = answers
      BY <1>2, <2>3, WireType, DeliverableIndex DEF ClockDeferred
    <3> QED
      BY <3>1 DEF WordsInRange
  <2>4. CASE NoAnswer
    BY <2>4 DEF NoAnswer, WordsInRange
  <2> QED
    BY <1>2, <2>1, <2>2, <2>3, <2>4, StepKinds
<1> QED
  BY <1>1, <1>3, <1>6 DEF WordsInRange

\* One more entry is one more exchange.
LEMMA ExchangesAppend ==
  ASSUME NEW s \in Seq(Transfer), NEW e \in Transfer
  PROVE  Exchanges(Append(s, e)) = Exchanges(s) \cup {[n |-> e.n, pw |-> e.pw, cw |-> e.cw]}
<1> DEFINE t == Append(s, e)
<1>1. /\ Len(t) = Len(s) + 1 /\ Len(s) \in Nat
      /\ \A j \in 1..Len(s) : t[j] = s[j]
      /\ t[Len(s) + 1] = e
  BY AppendType, LenProperties
<1> HIDE DEF t
<1>2. \A i \in 1..Len(t) : i \in 1..Len(s) \/ i = Len(s) + 1
  BY <1>1
<1>3. \A i \in 1..Len(s) : i \in 1..Len(t)
  BY <1>1
<1>4. Len(s) + 1 \in 1..Len(t)
  BY <1>1
<1>5. Exchanges(t) \subseteq Exchanges(s) \cup {[n |-> e.n, pw |-> e.pw, cw |-> e.cw]}
  BY <1>1, <1>2 DEF Exchanges
<1>6. Exchanges(s) \subseteq Exchanges(t)
  BY <1>1, <1>3 DEF Exchanges
<1>7. [n |-> e.n, pw |-> e.pw, cw |-> e.cw] \in Exchanges(t)
  BY <1>1, <1>4 DEF Exchanges
<1> QED
  BY <1>5, <1>6, <1>7 DEF t

LEMMA ExchangeAnswered ==
  ASSUME NEW t \in Transfer, AnswerOf(t)
  PROVE  t \in Exchanges(answers) /\ t = [n |-> t.n, pw |-> t.pw, cw |-> t.cw]
<1>1. PICK i \in 1..Len(answers) :
        answers[i].n = t.n /\ answers[i].pw = t.pw /\ answers[i].cw = t.cw
  BY DEF AnswerOf
<1>2. t = [n |-> t.n, pw |-> t.pw, cw |-> t.cw]
  BY DEF Transfer
<1> QED
  BY <1>1, <1>2 DEF Exchanges

\* An answer recorded is the promise's Answer.
LEMMA AnsweringIsAnswer ==
  ASSUME TypeInv, TypeInv', WordsInRange', NEW t, t.n \in 1..Begun, NEW held,
         Answering(t, held), \A j \in 1..Len(answers) : answers[j].n # t.n
  PROVE  Promise!Answer
<1> DEFINE a == answers'[Len(answers) + 1]
           e == [n |-> a.n, pw |-> a.pw, cw |-> a.cw]
<1>1. /\ answers \in Seq(Answer) /\ answers' \in Seq(Answer)
      /\ Len(answers) \in Nat /\ Len(answers') = Len(answers) + 1
      /\ \A i \in 1..Len(answers) : answers'[i] = answers[i]
      /\ a.n = t.n
  BY AnsweringAdds DEF TypeInv, TypeOK
<1>2. Len(answers) + 1 \in 1..Len(answers')
  BY <1>1
<1>3. a.pw \in Words /\ a.cw \in Words
  BY <1>2 DEF WordsInRange
<1>4. Exchanges(answers') = Exchanges(answers) \cup {e}
  <2>1. \A i \in 1..Len(answers') : i \in 1..Len(answers) \/ i = Len(answers) + 1
    BY <1>1
  <2>2. \A i \in 1..Len(answers) : i \in 1..Len(answers')
    BY <1>1
  <2>3. Exchanges(answers') \subseteq Exchanges(answers) \cup {e}
    BY <1>1, <2>1 DEF Exchanges
  <2>4. Exchanges(answers) \subseteq Exchanges(answers')
    BY <1>1, <2>2 DEF Exchanges
  <2>5. e \in Exchanges(answers')
    BY <1>2 DEF Exchanges
  <2> QED
    BY <2>3, <2>4, <2>5
<1>5. e \in [n : 1..Len(outcome), pw : Words, cw : Words] /\ e.n = t.n
  BY <1>1, <1>3 DEF Begun
<1> HIDE DEF a, e
<1>6. \A u \in Exchanges(answers) : u.n # e.n
  BY <1>5 DEF Exchanges
<1>7. outcome' = outcome /\ Exchanges(delivered)' = Exchanges(delivered)
  BY DEF Answering, parentVars, Exchanges
<1>8. Exchanges(answers)' = Exchanges(answers) \cup {e}
  BY <1>4 DEF Exchanges
<1> QED
  BY <1>5, <1>6, <1>7, <1>8 DEF Promise!Answer, Promise!Exchange

\* A transfer that ends on the parent.
LEMMA ConcludesPromise ==
  ASSUME TypeInv, AwaitsNewest, AwaitedRuns, phase # "idle"
  PROVE  /\ awaiting = Len(outcome) /\ awaiting # 0 /\ awaiting \in Nat
         /\ Promise!Running
<1>1. awaiting = Len(outcome) /\ awaiting # 0 /\ awaiting \in Nat
  BY DEF AwaitsNewest, Begun, TypeInv, TypeOK
<1>2. outcome # <<>>
  BY <1>1
<1> QED
  BY <1>1, <1>2 DEF Promise!Running, AwaitedRuns

PromiseInv == PairedInv /\ WireInv /\ LineInv /\ WordsInRange

LEMMA PromiseStep ==
  ASSUME PromiseInv, PromiseInv', ClocksInWindow, [Next]_vars
  PROVE  [Promise!Next]_(Promise!vars)
<1>1. /\ TypeInv /\ TypeInv' /\ AwaitsNewest /\ AwaitedRuns /\ InPlayRecent
      /\ HeldUnanswered /\ WordsInRange /\ WordsInRange'
      /\ LineAnswered /\ LineDistinct /\ ReplyAnswers
      /\ Begun \in Nat /\ pendingOut \in Nat
  <2>1. TypeInv /\ TypeInv'
    BY DEF PromiseInv, WireInv
  <2>2. Begun \in Nat /\ pendingOut \in Nat
    BY <2>1, WireType DEF TypeInv, TypeOK
  <2> QED
    BY <2>1, <2>2 DEF PromiseInv, PairedInv, WireInv, LineInv, OnceInv
<1>2. pendingOut \in Words
  BY <1>1, CableAssumption DEF WordsInRange, Words
<1>3. ASSUME UNCHANGED <<outcome, answers, delivered>>
      PROVE  [Promise!Next]_(Promise!vars)
  BY <1>3 DEF Promise!vars, Exchanges
<1>4. ASSUME UNCHANGED childVars
      PROVE  Exchanges(answers)' = Exchanges(answers) /\ Exchanges(delivered)' = Exchanges(delivered)
  BY <1>4 DEF childVars, Exchanges
<1>5. CASE ParentStart
  <2>1. /\ outcome' = Append(outcome, [kind |-> "begun", own |-> 0, peer |-> 0])
        /\ UNCHANGED childVars
    BY <1>5 DEF ParentStart, BeginExchange
  <2> QED
    BY <1>4, <2>1 DEF Promise!Begin, Promise!Next
<1>6. CASE ParentLand
  <2>1. /\ phase # "idle" /\ reply # NoWord /\ UNCHANGED childVars
        /\ outcome' = [outcome EXCEPT ![awaiting] =
                         [kind |-> "landed", own |-> pendingOut, peer |-> reply]]
    BY <1>6 DEF ParentLand, Conclude
  <2>2. awaiting = Len(outcome) /\ Promise!Running
    BY <1>1, <2>1, ConcludesPromise
  <2>3. PICK i \in 1..Len(answers) :
          answers[i].n = awaiting /\ answers[i].pw = pendingOut /\ answers[i].cw = reply
    BY <1>1, <2>1 DEF ReplyAnswers, AnsweredWith
  <2> DEFINE t == [n |-> awaiting, pw |-> pendingOut, cw |-> reply]
  <2>4. t \in Exchanges(answers)
    BY <2>3 DEF Exchanges
  <2>5. t.n = Len(outcome) /\ t.n = awaiting /\ t.pw = pendingOut /\ t.cw = reply
    BY <2>2
  <2> HIDE DEF t
  <2> QED
    BY <1>4, <2>1, <2>2, <2>4, <2>5 DEF Promise!Land, Promise!Next
<1>7. CASE ParentTimeout \/ ParentOpenCircuit
  <2>1. PICK kind \in {"late", "gone"} :
          /\ phase # "idle" /\ UNCHANGED childVars
          /\ outcome' = [outcome EXCEPT ![awaiting] =
                           [kind |-> kind, own |-> pendingOut, peer |-> 0]]
    BY <1>7 DEF ParentTimeout, ParentOpenCircuit, Conclude, Absent
  <2>2. awaiting = Len(outcome) /\ Promise!Running
    BY <1>1, <2>1, ConcludesPromise
  <2>3. Promise!Fail
    BY <1>2, <1>4, <2>1, <2>2 DEF Promise!Fail
  <2> QED
    BY <2>3 DEF Promise!Next
<1>8. CASE \/ ParentStore \/ ParentCollect \/ ParentRetry \/ ParentSelectMulti
           \/ ParentReceive \/ ParentHearsPeer \/ Lose \/ UNCHANGED vars
  <2>1. UNCHANGED childVars /\ outcome' = outcome
    BY <1>8 DEF ParentStore, ParentCollect, ParentRetry, ParentSelectMulti, ParentReceive,
                ParentHearsPeer, Lose, parentVars, vars
  <2> QED
    BY <1>3, <2>1 DEF childVars
<1>9. CASE ChildNext
  <2>0. outcome' = outcome
    BY <1>9 DEF ChildNext, ChildStore, DeferralExpires, ChildClocked, ChildToldGaveUp,
                ChildStep, ChildPark, ChildUnpark, ChildSelectMulti, parentVars
  <2>1. CASE HeldAnswered
    <3>1. /\ Answering(deferred, TRUE) /\ deferred.n \in 1..Begun
          /\ \A j \in 1..Len(answers) : answers[j].n # deferred.n
      BY <1>1, <2>1 DEF HeldAnswered, HeldUnanswered, InPlayRecent, Recent
    <3>2. Promise!Answer
      BY <1>1, <3>1, AnsweringIsAnswer
    <3> QED
      BY <3>2 DEF Promise!Next
  <2>2. CASE ClockAnswered
    <3>1. PICK i \in 1..Len(p2c) :
            /\ ClockTaken(i)
            /\ Answering([n |-> p2c[i].n, pw |-> p2c[i].word, cw |-> 0], FALSE)
      BY <1>1, <2>2, WireType, DeliverableIndex DEF ClockAnswered
    <3> DEFINE t == [n |-> p2c[i].n, pw |-> p2c[i].word, cw |-> 0]
    <3>2. t.n = p2c[i].n /\ Answering(t, FALSE) /\ t.n \in 1..Begun
      BY <1>1, <3>1 DEF InPlayRecent, Recent
    <3> HIDE DEF t
    <3>3. \A j \in 1..Len(answers) : answers[j].n # t.n
      BY <1>1, <3>1, <3>2, TakenUnanswered
    <3>4. Promise!Answer
      BY <1>1, <3>2, <3>3, AnsweringIsAnswer
    <3> QED
      BY <3>4 DEF Promise!Next
  <2>3. CASE ClockDeferred
    BY <1>3, <2>0, <2>3 DEF ClockDeferred
  <2>4. CASE NoAnswer
    <3>1. answers' = answers
      BY <2>4 DEF NoAnswer
    <3>2. CASE delivered' = delivered
      BY <1>3, <2>0, <3>1, <3>2
    <3>3. CASE words # NoTransfer /\ delivered' = Append(delivered, words)
      <4>1. delivered \in Seq(Transfer) /\ words \in Transfer
        BY <1>1 DEF TypeInv, TypeOK
      <4>2. Len(delivered) \in Nat /\ Len(queue) \in Nat
        BY <1>1, WireType
      <4>3. Len(delivered) + 1 \in InLine /\ Line(Len(delivered) + 1) = words
        BY <3>3, <4>2 DEF InLine, Line, LineLen
      <4>4. AnswerOf(words)
        BY <1>1, <4>3 DEF LineAnswered
      <4>5. /\ words \in Exchanges(answers)
            /\ words = [n |-> words.n, pw |-> words.pw, cw |-> words.cw]
        BY <4>1, <4>4, ExchangeAnswered
      <4>6. words \notin Exchanges(delivered)
        <5>1. SUFFICES ASSUME NEW i \in 1..Len(delivered), delivered[i].n = words.n
                       PROVE  FALSE
          BY <4>5 DEF Exchanges
        <5>2. i \in InLine /\ Line(i) = delivered[i] /\ i # Len(delivered) + 1
          BY <4>2, DeliveredInLine DEF PromiseInv
        <5> QED
          BY <1>1, <4>3, <5>1, <5>2 DEF LineDistinct
      <4>7. Exchanges(delivered') = Exchanges(delivered) \cup {words}
        <5>1. Exchanges(delivered') = Exchanges(delivered)
                \cup {[n |-> words.n, pw |-> words.pw, cw |-> words.cw]}
          BY <3>3, <4>1, ExchangesAppend
        <5> QED
          BY <4>5, <5>1
      <4>8. Exchanges(delivered)' = Exchanges(delivered) \cup {words}
        BY <4>7 DEF Exchanges
      <4>9. Exchanges(answers)' = Exchanges(answers)
        BY <3>1 DEF Exchanges
      <4>10. Promise!Run
        BY <2>0, <4>5, <4>6, <4>8, <4>9 DEF Promise!Run
      <4> QED
        BY <4>10 DEF Promise!Next
    <3> QED
      BY <1>1, <3>2, <3>3, DeliveredGrows
  <2> QED
    BY <1>1, <2>1, <2>2, <2>3, <2>4, StepKinds
<1> QED
  BY <1>5, <1>6, <1>7, <1>8, <1>9 DEF Next, ParentNext

LEMMA PromiseInit == Init => PromiseInv /\ Promise!Init
<1> SUFFICES ASSUME Init
             PROVE  PromiseInv /\ Promise!Init
  OBVIOUS
<1>1. PromiseInv
  BY PairedInit, WireInit, LineInit, RangeInit DEF PromiseInv
<1>2. outcome = <<>> /\ Len(answers) = 0 /\ Len(delivered) = 0
  BY DEF Init
<1>3. Exchanges(answers) = {} /\ Exchanges(delivered) = {}
  BY <1>2 DEF Exchanges
<1> QED
  BY <1>1, <1>2, <1>3 DEF Promise!Init

LEMMA PromiseNext ==
  ASSUME ~LongOutages, PromiseInv, ClocksInWindow, [Next]_vars
  PROVE  PromiseInv'
BY PairedNext, WireNext, LineNext, RangeNext DEF PromiseInv

\* Every step of the protocol is a step of the promise or none at all: as long
\* as no clock outlives the window of answers remembered and the wire is never
\* dead for a whole turn of the sequence number ...
THEOREM ExchangeImplementedInWindow ==
  ASSUME ~LongOutages
  PROVE  Spec /\ []ClocksInWindow => ImplementsExchange
<1>1. PromiseInv /\ ClocksInWindow /\ [Next]_vars => PromiseInv'
  BY PromiseNext
<1>2. PromiseInv /\ PromiseInv' /\ ClocksInWindow /\ [Next]_vars
        => [Promise!Next]_(Promise!vars)
  BY PromiseStep
<1> QED
  BY PromiseInit, <1>1, <1>2, PTL DEF Spec, ImplementsExchange, Promise!Spec

\* ... and so on a wire that keeps its order.
THEOREM ExchangeImplementedInOrder ==
  ASSUME ~LongOutages, ~Reordering, SeenWindow >= 2
  PROVE  Spec => ImplementsExchange
<1>1. OrderInv /\ [Next]_vars => OrderInv'
  BY OrderNext
<1>2. OrderInv => ClocksInWindow
  BY OrderWindow
<1>3. Spec /\ []ClocksInWindow => ImplementsExchange
  BY ExchangeImplementedInWindow
<1> QED
  BY OrderInit, <1>1, <1>2, <1>3, PTL DEF Spec

=============================================================================
