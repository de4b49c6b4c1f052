---------------------------- MODULE DeviceProofs ----------------------------
(***************************************************************************)
(* What is proved of the devices about the processor.                      *)
(*                                                                         *)
(* The election of CableElection, for every number of identities and every *)
(* bound: the state is well typed; over a wire that loses no announcement  *)
(* two ends that both have a role have not the same one; and two ends that *)
(* know each other are silent for no longer than packets were lost.        *)
(*                                                                         *)
(* RfuWords, for every value of its constants: whatever a game says,       *)
(* whenever it turns round and whatever the air does, each word it takes   *)
(* is the one its place in the conversation calls for, and a wait ends     *)
(* when it was told to.                                                    *)
(*                                                                         *)
(* Picture, for every screen, scene and write to the reference points: an  *)
(* affine background is drawn from the point its registers hold, moved by  *)
(* the lines drawn since it was loaded.                                    *)
(*                                                                         *)
(* Sound, for every score and cartridge: what is heard of a stream lies    *)
(* between two of its samples, and a load brings back what was saved.      *)
(***************************************************************************)
EXTENDS CableElection, RfuWords, Picture, Sound, SequenceTheorems, FiniteSetTheorems, TLAPS

-----------------------------------------------------------------------------
(* What a stream of packets says last.                                         *)

\* The last announcement of s, if it has any, is i.
Announces(s, i) ==
  \A k \in 1..Len(s) : s[k] \notin {Ping, i} => \E m \in k+1..Len(s) : s[m] # Ping

\* Nothing in s but pings and i.
Only(s, i) == \A k \in 1..Len(s) : s[k] \in {Ping, i}

LEMMA Joined ==
  ASSUME NEW s \in Seq(Packet), NEW t \in Seq(Packet)
  PROVE  /\ s \o t \in Seq(Packet) /\ Len(s \o t) = Len(s) + Len(t)
         /\ \A k \in 1..Len(s) : (s \o t)[k] = s[k]
         /\ \A k \in 1..Len(t) : (s \o t)[Len(s) + k] = t[k]
         /\ \A k \in 1..Len(s \o t) : k > Len(s) => k - Len(s) \in 1..Len(t)
                                                 /\ (s \o t)[k] = t[k - Len(s)]
<1>1. s \o t \in Seq(Packet) /\ Len(s \o t) = Len(s) + Len(t) /\ Len(s) \in Nat /\ Len(t) \in Nat
  BY ConcatProperties
<1>2. \A k \in 1..Len(s \o t) : (s \o t)[k] = IF k <= Len(s) THEN s[k] ELSE t[k - Len(s)]
  BY ConcatProperties
<1> QED
  BY <1>1, <1>2

\* What is said last stays so when it is only repeated.
LEMMA SaysMore ==
  ASSUME NEW s \in Seq(Packet), NEW t \in Seq(Packet), NEW i, Announces(s, i), Only(t, i)
  PROVE  Announces(s \o t, i)
<1>1. SUFFICES ASSUME NEW k \in 1..Len(s \o t), (s \o t)[k] \notin {Ping, i}
               PROVE  \E m \in k+1..Len(s \o t) : (s \o t)[m] # Ping
  BY DEF Announces
<1>2. Len(s) \in Nat /\ Len(t) \in Nat /\ Len(s \o t) = Len(s) + Len(t)
  BY Joined
<1>3. k <= Len(s)
  BY <1>1, <1>2, Joined DEF Only
<1>4. PICK m \in k+1..Len(s) : s[m] # Ping
  BY <1>1, <1>2, <1>3, Joined DEF Announces
<1>5. m \in k+1..Len(s \o t) /\ m \in 1..Len(s)
  BY <1>2, <1>4
<1>6. (s \o t)[m] # Ping
  BY <1>4, <1>5, Joined
<1> QED
  BY <1>5, <1>6

\* A repetition settles what is said last, whatever came before.
LEMMA SaysAnew ==
  ASSUME NEW s \in Seq(Packet), NEW t \in Seq(Packet), NEW i, Only(t, i), Hellos(t)
  PROVE  Announces(s \o t, i) /\ Hellos(s \o t)
<1>1. Len(s) \in Nat /\ Len(t) \in Nat /\ Len(s \o t) = Len(s) + Len(t)
  BY Joined
<1>2. PICK h \in 1..Len(t) : t[h] # Ping
  BY DEF Hellos
<1>3. Len(s) + h \in 1..Len(s \o t) /\ (s \o t)[Len(s) + h] # Ping
  BY <1>1, <1>2, Joined
<1>4. ASSUME NEW k \in 1..Len(s \o t), (s \o t)[k] \notin {Ping, i}
      PROVE  \E m \in k+1..Len(s \o t) : (s \o t)[m] # Ping
  <2>1. k <= Len(s)
    BY <1>1, <1>4, Joined DEF Only
  <2>2. Len(s) + h \in k+1..Len(s \o t)
    BY <1>1, <1>3, <2>1
  <2> QED
    BY <1>3, <2>2
<1> QED
  BY <1>3, <1>4 DEF Announces, Hellos

LEMMA HellosMore ==
  ASSUME NEW s \in Seq(Packet), NEW t \in Seq(Packet)
  PROVE  Hellos(s \o t) <=> Hellos(s) \/ Hellos(t)
<1>1. Len(s) \in Nat /\ Len(t) \in Nat /\ Len(s \o t) = Len(s) + Len(t)
  BY Joined
<1>2. ASSUME Hellos(s) PROVE Hellos(s \o t)
  BY <1>1, <1>2, Joined DEF Hellos
<1>3. ASSUME Hellos(t) PROVE Hellos(s \o t)
  <2>1. PICK h \in 1..Len(t) : t[h] # Ping
    BY <1>3 DEF Hellos
  <2>2. Len(s) + h \in 1..Len(s \o t) /\ (s \o t)[Len(s) + h] # Ping
    BY <1>1, <2>1, Joined
  <2> QED
    BY <2>2 DEF Hellos
<1>4. ASSUME Hellos(s \o t) PROVE Hellos(s) \/ Hellos(t)
  <2>1. PICK h \in 1..Len(s \o t) : (s \o t)[h] # Ping
    BY <1>4 DEF Hellos
  <2>2. CASE h <= Len(s)
    BY <1>1, <2>1, <2>2, Joined DEF Hellos
  <2>3. CASE h > Len(s)
    BY <1>1, <2>1, <2>3, Joined DEF Hellos
  <2> QED
    BY <1>1, <2>2, <2>3
<1> QED
  BY <1>2, <1>3, <1>4

\* The packet at the head was the last word, or another follows.
LEMMA SaysOn ==
  ASSUME NEW s \in Seq(Packet), s # <<>>, NEW i, Announces(s, i)
  PROVE  /\ Head(s) \in Packet /\ Tail(s) \in Seq(Packet) /\ Announces(Tail(s), i)
         /\ Head(s) \in {Ping, i} \/ Hellos(Tail(s))
         /\ Hellos(s) => Head(s) # Ping \/ Hellos(Tail(s))
<1>1. /\ Len(s) \in Nat \ {0} /\ Head(s) = s[1] /\ s[1] \in Packet /\ Tail(s) \in Seq(Packet)
      /\ Len(Tail(s)) = Len(s) - 1 /\ \A k \in 1..Len(Tail(s)) : Tail(s)[k] = s[k + 1]
  BY HeadTailProperties, ElementOfSeq, LenProperties
<1>2. \A m \in 2..Len(s) : m - 1 \in 1..Len(Tail(s)) /\ Tail(s)[m - 1] = s[m]
  BY <1>1
<1>3. Announces(Tail(s), i)
  <2>1. SUFFICES ASSUME NEW k \in 1..Len(Tail(s)), Tail(s)[k] \notin {Ping, i}
                 PROVE  \E m \in k+1..Len(Tail(s)) : Tail(s)[m] # Ping
    BY DEF Announces
  <2>2. k + 1 \in 1..Len(s) /\ s[k + 1] \notin {Ping, i}
    BY <1>1, <2>1
  <2>3. PICK m \in k+2..Len(s) : s[m] # Ping
    BY <1>1, <2>2 DEF Announces
  <2>4. m \in 2..Len(s) /\ m - 1 \in k+1..Len(Tail(s))
    BY <1>1, <2>3
  <2> QED
    BY <1>2, <2>3, <2>4
<1>4. Head(s) \in {Ping, i} \/ Hellos(Tail(s))
  <2>1. SUFFICES ASSUME s[1] \notin {Ping, i} PROVE Hellos(Tail(s))
    BY <1>1
  <2>2. PICK m \in 2..Len(s) : s[m] # Ping
    BY <1>1, <2>1 DEF Announces
  <2> QED
    BY <1>2, <2>2 DEF Hellos
<1>5. Hellos(s) => Head(s) # Ping \/ Hellos(Tail(s))
  <2>1. SUFFICES ASSUME Hellos(s), s[1] = Ping PROVE Hellos(Tail(s))
    BY <1>1
  <2>2. PICK m \in 1..Len(s) : s[m] # Ping
    BY <2>1 DEF Hellos
  <2>3. m \in 2..Len(s)
    BY <1>1, <2>1, <2>2
  <2> QED
    BY <1>2, <2>2, <2>3 DEF Hellos
<1> QED
  BY <1>1, <1>3, <1>4, <1>5

-----------------------------------------------------------------------------
(* Types.                                                                      *)

LEMMA Ends == /\ \A e \in End : Other(e) \in End /\ Other(e) # e /\ Other(Other(e)) = e
              /\ \A e, x \in End : x = e \/ x = Other(e)
  BY DEF End, Other

LEMMA PacketsAre == Packet = 0..N /\ Ping \in Packet /\ Identity \subseteq Packet
                    /\ N \in Nat \ {0} /\ 1 \in Identity
  BY ElectionAssumption DEF Packet, Ping, Identity

\* What is sent reaches a live end behind what was in flight.
LEMMA SendType ==
  ASSUME ElectionTypeOK, NEW e \in End, NEW w \in [End -> Seq(Packet)], NEW p \in Seq(Packet), Send(e, w, p)
  PROVE  /\ wire' \in [End -> Seq(Packet)] /\ quiet' \in [End -> BOOLEAN]
         /\ wire'[e] = w[e]
         /\ active[Other(e)] => wire'[Other(e)] = w[Other(e)] \o p
         /\ ~active[Other(e)] => wire'[Other(e)] = w[Other(e)]
<1>1. Other(e) \in End /\ Other(e) # e
  BY Ends
<1>2. w[Other(e)] \o p \in Seq(Packet)
  BY <1>1, ConcatProperties
<1>3. wire' = IF active[Other(e)] THEN [w EXCEPT ![Other(e)] = w[Other(e)] \o p] ELSE w
  BY DEF Send
<1>4. quiet' \in [End -> BOOLEAN]
  BY DEF Send, ElectionTypeOK
<1> QED
  BY <1>1, <1>2, <1>3, <1>4

LEMMA ResetType ==
  ASSUME ElectionTypeOK, NEW e \in End, Reset(e)
  PROVE  /\ peer' \in [End -> 0..N] /\ ties' \in [End -> BOOLEAN]
         /\ cableFailures' \in [End -> 0..FailuresMax] /\ silence' \in [End -> 0..Silent]
         /\ quiet' \in [End -> BOOLEAN]
         /\ peer'[e] = None /\ peer'[Other(e)] = peer[Other(e)]
  BY Ends, ElectionAssumption DEF ElectionTypeOK, Reset, None

LEMMA StartType ==
  ASSUME ElectionTypeOK, NEW e \in End, Start(e)
  PROVE  ElectionTypeOK'
<1>1. Reset(e) /\ UNCHANGED <<wire, losses, giveUps>>
  BY DEF Start
<1>2. PICK i \in Fresh(e) : identity' = [identity EXCEPT ![e] = i] /\ outbox' = [outbox EXCEPT ![e] = <<i>>]
  BY DEF Start
<1>3. i \in Identity /\ i \in 0..N /\ i \in Packet
  BY PacketsAre DEF Fresh, Identity
<1>4. identity' \in [End -> 0..N]
  BY <1>2, <1>3 DEF ElectionTypeOK
<1>5. outbox' \in [End -> Seq(Packet)]
  <2>1. <<i>> \in Seq(Packet)
    BY <1>3
  <2> QED
    BY <1>2, <2>1 DEF ElectionTypeOK
<1>6. sessions' \in 0..MaxSessions
  BY ElectionAssumption DEF Start, ElectionTypeOK
<1>7. active' \in [End -> BOOLEAN] /\ framed' \in [End -> BOOLEAN]
  BY DEF Start, ElectionTypeOK
<1> QED
  BY <1>1, <1>4, <1>5, <1>6, <1>7, ResetType DEF ElectionTypeOK

LEMMA StopType ==
  ASSUME ElectionTypeOK, NEW e \in End, Stop(e)
  PROVE  ElectionTypeOK'
<1>1. Reset(e) /\ UNCHANGED <<identity, framed, sessions, losses, giveUps>>
  BY DEF Stop
<1>2. active' \in [End -> BOOLEAN]
  BY DEF Stop, ElectionTypeOK
<1>3. outbox' \in [End -> Seq(Packet)] /\ wire' \in [End -> Seq(Packet)]
  BY EmptySeq DEF Stop, ElectionTypeOK
<1> QED
  BY <1>1, <1>2, <1>3, ResetType DEF ElectionTypeOK

LEMMA FrameType ==
  ASSUME ElectionTypeOK, NEW e \in End, Frame(e)
  PROVE  ElectionTypeOK' /\ outbox[e] \o Asks(e) \o Pings(e) \in Seq(Packet)
<1> DEFINE said == outbox[e] \o Asks(e) \o Pings(e)
<1>1. Asks(e) \in Seq(Packet) /\ Pings(e) \in Seq(Packet) /\ outbox[e] \in Seq(Packet)
  <2>1. identity[e] \in Packet /\ Ping \in Packet
    BY PacketsAre DEF ElectionTypeOK
  <2> QED
    BY <2>1 DEF Asks, Pings, ElectionTypeOK
<1>2. said \in Seq(Packet)
  BY <1>1, ConcatProperties
<1>3. Send(e, wire, said)
  BY DEF Frame
<1>4. wire \in [End -> Seq(Packet)]
  BY DEF ElectionTypeOK
<1> HIDE DEF said
<1>5. wire' \in [End -> Seq(Packet)] /\ quiet' \in [End -> BOOLEAN]
  BY <1>2, <1>3, <1>4, SendType
<1>6. outbox' \in [End -> Seq(Packet)] /\ framed' \in [End -> BOOLEAN]
  BY EmptySeq DEF Frame, ElectionTypeOK
<1>7. UNCHANGED <<core, cableFailures, silence, sessions, losses, giveUps>>
  BY DEF Frame
<1> QED
  BY <1>2, <1>5, <1>6, <1>7 DEF ElectionTypeOK, core, said

LEMMA RerollType == \A i \in 0..N : Reroll(i) \in Identity
<1> TAKE i \in 0..N
<1>1. i % N \in 0..N - 1
  BY ElectionAssumption
<1> QED
  BY <1>1, ElectionAssumption DEF Reroll, Identity

\* The arrival of a packet: its end keeps what it had to send, and says more of
\* nothing but its identity.
LEMMA ReceiveType ==
  ASSUME ElectionTypeOK, NEW e \in End, Receive(e)
  PROVE  /\ ElectionTypeOK' /\ active' = active /\ outbox' = [outbox EXCEPT ![e] = <<>>]
         /\ \E more \in Seq(Packet) :
              /\ Only(more, identity'[e])
              /\ identity'[e] # identity[e] => Hellos(more)
              /\ Send(e, [wire EXCEPT ![e] = Tail(@)], outbox[e] \o more)
         /\ [wire EXCEPT ![e] = Tail(@)] \in [End -> Seq(Packet)]
<1> DEFINE p == Head(wire[e])
           w == [wire EXCEPT ![e] = Tail(@)]
<1>1. wire[e] \in Seq(Packet) /\ wire[e] # <<>> /\ outbox[e] \in Seq(Packet)
  BY DEF Receive, ElectionTypeOK
<1>2. p \in Packet /\ Tail(wire[e]) \in Seq(Packet)
  BY <1>1, HeadTailProperties
<1>3. w \in [End -> Seq(Packet)]
  BY <1>2 DEF ElectionTypeOK
<1>4. cableFailures' \in [End -> 0..FailuresMax] /\ silence' \in [End -> 0..Silent]
  BY ElectionAssumption DEF Receive, Revived, ElectionTypeOK
<1>5. UNCHANGED <<active, framed, sessions, losses, giveUps>>
  BY DEF Receive
<1>6. identity[e] \in Packet
  BY PacketsAre DEF ElectionTypeOK
<1>7. /\ peer' \in [End -> 0..N] /\ identity' \in [End -> 0..N] /\ ties' \in [End -> BOOLEAN]
      /\ outbox' = [outbox EXCEPT ![e] = <<>>]
      /\ \E more \in Seq(Packet) : /\ Only(more, identity'[e])
                                   /\ identity'[e] # identity[e] => Hellos(more)
                                   /\ Send(e, w, outbox[e] \o more)
  <2>1. CASE p = Ping /\ Heard(e)
    <3>1. outbox[e] \o <<>> = outbox[e] /\ <<>> \in Seq(Packet)
      BY <1>1, ConcatEmptySeq, EmptySeq
    <3>2. Send(e, w, outbox[e] \o <<>>) /\ UNCHANGED <<identity, ties, peer>>
      BY <2>1, <3>1 DEF Heard
    <3>3. Only(<<>>, identity'[e])
      BY DEF Only
    <3> HIDE DEF w
    <3> QED
      BY <2>1, <3>1, <3>2, <3>3 DEF Heard, ElectionTypeOK
  <2>2. CASE p # Ping /\ p = identity[e] /\ Tied(e)
    <3> DEFINE own == Reroll(identity[e])
    <3>1. own \in Identity /\ own \in 0..N /\ own \in Packet /\ own # Ping
      <4>1. own \in Identity
        BY RerollType DEF ElectionTypeOK
      <4> HIDE DEF own
      <4> QED
        BY <4>1, PacketsAre DEF Identity, Ping
    <3>2. /\ identity' = [identity EXCEPT ![e] = own] /\ peer' = [peer EXCEPT ![e] = None]
          /\ ties' = [ties EXCEPT ![e] = TRUE] /\ outbox' = [outbox EXCEPT ![e] = <<>>]
          /\ Send(e, w, Append(outbox[e], own))
      BY <2>2 DEF Tied
    <3> HIDE DEF own
    <3>3. Append(outbox[e], own) = outbox[e] \o <<own>> /\ <<own>> \in Seq(Packet)
      BY <1>1, <3>1, AppendIsConcat
    <3>4. Only(<<own>>, own) /\ Hellos(<<own>>)
      BY <3>1 DEF Only, Hellos
    <3>5. identity'[e] = own /\ identity' \in [End -> 0..N]
      BY <3>1, <3>2 DEF ElectionTypeOK
    <3>6. peer' \in [End -> 0..N] /\ ties' \in [End -> BOOLEAN]
      BY <3>2, ElectionAssumption DEF ElectionTypeOK, None
    <3> HIDE DEF w
    <3> QED
      BY <3>2, <3>3, <3>4, <3>5, <3>6
  <2>3. CASE p # Ping /\ p # identity[e] /\ Told(e, p)
    <3>1. /\ peer' = [peer EXCEPT ![e] = p] /\ outbox' = [outbox EXCEPT ![e] = <<>>]
          /\ Send(e, w, outbox[e] \o Answers(e, p)) /\ UNCHANGED <<identity, ties>>
      BY <2>3 DEF Told
    <3>2. Answers(e, p) \in Seq(Packet) /\ Only(Answers(e, p), identity'[e])
      BY <1>6, <3>1, EmptySeq DEF Answers, Only
    <3>3. peer' \in [End -> 0..N]
      BY <1>2, <3>1, PacketsAre DEF ElectionTypeOK
    <3> HIDE DEF w, p
    <3> QED
      BY <3>1, <3>2, <3>3 DEF ElectionTypeOK
  <2> QED
    BY <2>1, <2>2, <2>3 DEF Receive
<1>8. PICK more \in Seq(Packet) : Send(e, w, outbox[e] \o more)
  BY <1>7
<1>9. outbox[e] \o more \in Seq(Packet)
  BY <1>1, ConcatProperties
<1> HIDE DEF w
<1>10. wire' \in [End -> Seq(Packet)] /\ quiet' \in [End -> BOOLEAN]
  BY <1>3, <1>8, <1>9, SendType
<1>11. outbox' \in [End -> Seq(Packet)]
  BY <1>7, EmptySeq DEF ElectionTypeOK
<1>12. ElectionTypeOK'
  BY <1>4, <1>5, <1>7, <1>10, <1>11 DEF ElectionTypeOK
<1> QED
  BY <1>3, <1>5, <1>7, <1>12 DEF w

LEMMA GiveUpType ==
  ASSUME ElectionTypeOK, NEW e \in End, GiveUp(e)
  PROVE  ElectionTypeOK' /\ Append(outbox[e], Ping) = outbox[e] \o <<Ping>> /\ <<Ping>> \in Seq(Packet)
<1>1. outbox[e] \in Seq(Packet) /\ Ping \in Packet
  BY PacketsAre DEF ElectionTypeOK
<1>2. Append(outbox[e], Ping) = outbox[e] \o <<Ping>> /\ <<Ping>> \in Seq(Packet)
  BY <1>1, AppendIsConcat
<1>3. Append(outbox[e], Ping) \in Seq(Packet)
  BY <1>1, AppendProperties
<1>4. Send(e, wire, Append(outbox[e], Ping)) /\ wire \in [End -> Seq(Packet)]
  BY DEF GiveUp, ElectionTypeOK
<1>5. wire' \in [End -> Seq(Packet)] /\ quiet' \in [End -> BOOLEAN]
  BY <1>3, <1>4, SendType
<1>6. cableFailures' \in [End -> 0..FailuresMax]
  <2>1. cableFailures[e] < FailuresMax
    BY DEF GiveUp, Units
  <2>2. cableFailures[e] + 1 \in 0..FailuresMax
    BY <2>1, ElectionAssumption DEF ElectionTypeOK
  <2> QED
    BY <2>2 DEF GiveUp, ElectionTypeOK
<1>7. giveUps' \in 0..MaxGiveUps
  BY ElectionAssumption DEF GiveUp, ElectionTypeOK
<1>8. outbox' \in [End -> Seq(Packet)]
  BY EmptySeq DEF GiveUp, ElectionTypeOK
<1> QED
  BY <1>2, <1>5, <1>6, <1>7, <1>8 DEF GiveUp, ElectionTypeOK, core

LEMMA LoseType ==
  ASSUME ElectionTypeOK, NEW e \in End, LosePacket(e)
  PROVE  ElectionTypeOK' /\ Tail(wire[e]) \in Seq(Packet)
<1>1. wire[e] \in Seq(Packet) /\ wire[e] # <<>>
  BY DEF LosePacket, ElectionTypeOK
<1>2. Tail(wire[e]) \in Seq(Packet)
  BY <1>1, HeadTailProperties
<1>3. wire' \in [End -> Seq(Packet)]
  BY <1>2 DEF LosePacket, ElectionTypeOK
<1>4. losses' \in 0..MaxLosses
  BY ElectionAssumption DEF LosePacket, ElectionTypeOK
<1> QED
  BY <1>2, <1>3, <1>4 DEF LosePacket, ElectionTypeOK, core, liveness

LEMMA TickType ==
  ASSUME ElectionTypeOK, Tick
  PROVE  ElectionTypeOK'
<1>1. \A e \in End : silence'[e] \in 0..Silent
  BY ElectionAssumption DEF Tick, ElectionTypeOK
<1>2. silence' \in [End -> 0..Silent]
  BY <1>1 DEF Tick
<1>3. quiet' \in [End -> BOOLEAN] /\ framed' \in [End -> BOOLEAN]
  BY DEF Tick
<1> QED
  BY <1>2, <1>3 DEF Tick, ElectionTypeOK, core

LEMMA StepType == ElectionTypeOK /\ [ElectionNext]_sessionvars => ElectionTypeOK'
<1> SUFFICES ASSUME ElectionTypeOK, [ElectionNext]_sessionvars PROVE ElectionTypeOK'
  OBVIOUS
<1>1. CASE \E e \in End : Start(e) \/ Stop(e) \/ Frame(e) \/ Receive(e) \/ GiveUp(e) \/ LosePacket(e)
  BY <1>1, StartType, StopType, FrameType, ReceiveType, GiveUpType, LoseType
<1>2. CASE Tick
  BY <1>2, TickType
<1>3. CASE UNCHANGED sessionvars
  BY <1>3 DEF sessionvars, core, liveness, ElectionTypeOK
<1> QED
  BY <1>1, <1>2, <1>3 DEF ElectionNext

LEMMA InitType == ElectionInit => ElectionTypeOK
  BY EmptySeq, ElectionAssumption DEF ElectionInit, ElectionTypeOK, None

\* Whatever the sessions, the losses and the time that goes by, the state stays well
\* typed: identities are drawn from 1..N and failures do not pass the open circuit.
THEOREM ElectionTyped == ElectionSpec => []ElectionTypeOK
  BY InitType, StepType, PTL DEF ElectionSpec

-----------------------------------------------------------------------------
(* What each end has been told.                                                *)

\* What of end e's is still to be heard by its peer, in order.
Underway(e) == wire[Other(e)] \o outbox[e]

\* Between two live ends, the last announcement under way is the identity its
\* sender has; where none is, the other knows it or knows none.
Informed(e) ==
  (\A x \in End : active[x]) =>
    /\ Announces(Underway(e), identity[e])
    /\ Hellos(Underway(e)) \/ peer[Other(e)] \in {None, identity[e]}

AllInformed ==
  \A e \in End :
    /\ Informed(e)
    /\ Only(outbox[e], identity[e])
    /\ ~active[e] => wire[e] = <<>>

LEMMA Associative ==
  ASSUME NEW s \in Seq(Packet), NEW t \in Seq(Packet), NEW u \in Seq(Packet)
  PROVE  (s \o t) \o u = s \o (t \o u)
  BY ConcatAssociative

LEMMA OnlyAnnounces == ASSUME NEW s, NEW i, Only(s, i) PROVE Announces(s, i)
  BY DEF Only, Announces

LEMMA TailJoined ==
  ASSUME NEW s \in Seq(Packet), NEW t \in Seq(Packet), s # <<>>
  PROVE  /\ s \o t # <<>> /\ Head(s \o t) = Head(s)
         /\ Tail(s) \in Seq(Packet) /\ Tail(s \o t) = Tail(s) \o t
<1>1. /\ Len(s) \in Nat \ {0} /\ Len(t) \in Nat /\ Head(s) = s[1] /\ Tail(s) \in Seq(Packet)
      /\ Len(Tail(s)) = Len(s) - 1 /\ \A k \in 1..Len(Tail(s)) : Tail(s)[k] = s[k + 1]
  BY HeadTailProperties, LenProperties
<1>2. s \o t \in Seq(Packet) /\ Len(s \o t) = Len(s) + Len(t) /\ (s \o t)[1] = s[1]
  BY <1>1, Joined
<1>3. s \o t # <<>>
  BY <1>1, <1>2
<1>4. /\ Head(s \o t) = (s \o t)[1] /\ Tail(s \o t) \in Seq(Packet)
      /\ Len(Tail(s \o t)) = Len(s) + Len(t) - 1
      /\ \A k \in 1..Len(Tail(s \o t)) : Tail(s \o t)[k] = (s \o t)[k + 1]
  BY <1>2, <1>3, HeadTailProperties
<1>5. Tail(s) \o t \in Seq(Packet) /\ Len(Tail(s) \o t) = Len(s) - 1 + Len(t)
  BY <1>1, Joined
<1>6. ASSUME NEW k \in 1..Len(Tail(s \o t))
      PROVE  Tail(s \o t)[k] = (Tail(s) \o t)[k]
  <2>1. CASE k <= Len(s) - 1
    <3>1. k \in 1..Len(Tail(s)) /\ k + 1 \in 1..Len(s)
      BY <1>1, <2>1
    <3>2. (Tail(s) \o t)[k] = Tail(s)[k] /\ (s \o t)[k + 1] = s[k + 1]
      BY <1>1, <3>1, Joined
    <3> QED
      BY <1>1, <1>4, <3>1, <3>2
  <2>2. CASE k > Len(s) - 1
    <3>1. /\ k \in 1..Len(Tail(s) \o t) /\ k > Len(Tail(s))
          /\ k + 1 \in 1..Len(s \o t) /\ k + 1 > Len(s)
      BY <1>1, <1>2, <1>4, <1>5, <2>2
    <3>2. (Tail(s) \o t)[k] = t[k - Len(Tail(s))] /\ (s \o t)[k + 1] = t[k + 1 - Len(s)]
      BY <1>1, <3>1, Joined
    <3>3. k - Len(Tail(s)) = k + 1 - Len(s)
      BY <1>1
    <3> QED
      BY <1>4, <3>2, <3>3
  <2> QED
    BY <1>1, <1>4, <2>1, <2>2
<1>7. Tail(s \o t) = Tail(s) \o t
  BY <1>4, <1>5, <1>6, SeqEqual
<1> QED
  BY <1>1, <1>2, <1>3, <1>4, <1>7

\* The stream of e seen from the variables it depends on.
LEMMA InformedKept ==
  ASSUME NEW e \in End, Informed(e), (\A x \in End : active'[x]) => \A x \in End : active[x],
         Underway(e)' = Underway(e), identity'[e] = identity[e], peer'[Other(e)] = peer[Other(e)]
  PROVE  Informed(e)'
  BY DEF Informed

LEMMA UnderwayType ==
  ASSUME ElectionTypeOK, NEW e \in End
  PROVE  Underway(e) \in Seq(Packet) /\ wire[Other(e)] \in Seq(Packet) /\ outbox[e] \in Seq(Packet)
  BY Ends, ConcatProperties DEF Underway, ElectionTypeOK

\* More of the same is sent behind what is coming.
LEMMA InformedMore ==
  ASSUME ElectionTypeOK, NEW e \in End, Informed(e), NEW more \in Seq(Packet), Only(more, identity'[e]),
         active' = active, Underway(e)' = Underway(e) \o more,
         \/ identity'[e] = identity[e]
         \/ Hellos(more),
         peer'[Other(e)] = peer[Other(e)]
  PROVE  Informed(e)'
<1>1. SUFFICES ASSUME \A x \in End : active[x]
               PROVE  /\ Announces(Underway(e) \o more, identity'[e])
                      /\ \/ Hellos(Underway(e) \o more)
                         \/ peer'[Other(e)] \in {None, identity'[e]}
  BY DEF Informed
<1>2. Underway(e) \in Seq(Packet)
  BY UnderwayType
<1>3. CASE Hellos(more)
  BY <1>2, <1>3, SaysAnew
<1>4. CASE ~Hellos(more)
  BY <1>1, <1>2, <1>4, SaysMore, HellosMore DEF Informed
<1> QED
  BY <1>3, <1>4

\* What an arrival or a loss takes off the stream.
LEMMA InformedTail ==
  ASSUME ElectionTypeOK, NEW e \in End, Informed(e), wire[Other(e)] # <<>>,
         active' = active, identity'[e] = identity[e],
         Underway(e)' = Tail(wire[Other(e)]) \o outbox[e],
         LET p == Head(wire[Other(e)])
         IN  \/ p = Ping /\ peer'[Other(e)] = peer[Other(e)]
             \/ peer'[Other(e)] \in {None, p}
  PROVE  Informed(e)'
<1> DEFINE p == Head(wire[Other(e)])
<1>1. SUFFICES ASSUME \A x \in End : active[x]
               PROVE  /\ Announces(Tail(Underway(e)), identity[e])
                      /\ Hellos(Tail(Underway(e))) \/ peer'[Other(e)] \in {None, identity[e]}
  <2>1. Underway(e)' = Tail(Underway(e))
    BY UnderwayType, TailJoined DEF Underway
  <2> QED
    BY <2>1 DEF Informed
<1>2. Underway(e) \in Seq(Packet) /\ Underway(e) # <<>> /\ Head(Underway(e)) = p
  BY UnderwayType, TailJoined DEF Underway
<1>3. /\ Announces(Underway(e), identity[e])
      /\ Hellos(Underway(e)) \/ peer[Other(e)] \in {None, identity[e]}
  BY <1>1 DEF Informed
<1>4. /\ Announces(Tail(Underway(e)), identity[e])
      /\ p \in {Ping, identity[e]} \/ Hellos(Tail(Underway(e)))
      /\ Hellos(Underway(e)) => p # Ping \/ Hellos(Tail(Underway(e)))
  BY <1>2, <1>3, SaysOn
<1>5. CASE p = Ping /\ peer'[Other(e)] = peer[Other(e)]
  BY <1>3, <1>4, <1>5
<1>6. CASE peer'[Other(e)] \in {None, p}
  BY <1>4, <1>6 DEF Ping, None
<1> QED
  BY <1>5, <1>6

\* An end that has just started has nothing to unlearn, and its own news is last.
LEMMA StartInformed ==
  ASSUME ElectionTypeOK, AllInformed, NEW e \in End, Start(e)
  PROVE  AllInformed'
<1> DEFINE o == Other(e)
<1>1. o \in End /\ o # e /\ Other(o) = e /\ \A x \in End : x \in {e, o}
  BY Ends
<1>2. PICK i \in Fresh(e) : identity' = [identity EXCEPT ![e] = i] /\ outbox' = [outbox EXCEPT ![e] = <<i>>]
  BY DEF Start
<1>3. i \in Packet /\ i # Ping
  BY PacketsAre DEF Fresh, Identity, Ping
<1>4. Reset(e) /\ UNCHANGED wire /\ active' = [active EXCEPT ![e] = TRUE]
  BY DEF Start
<1>5. <<i>> \in Seq(Packet) /\ Only(<<i>>, i) /\ Hellos(<<i>>)
  BY <1>3 DEF Only, Hellos
<1>6. /\ outbox'[e] = <<i>> /\ outbox'[o] = outbox[o]
      /\ identity'[e] = i /\ identity'[o] = identity[o] /\ peer'[e] = None
  BY <1>1, <1>2, <1>4, ResetType DEF ElectionTypeOK
<1>7. Informed(e)'
  <2>1. Underway(e)' = wire[o] \o <<i>> /\ wire[o] \in Seq(Packet)
    BY <1>1, <1>4, <1>6 DEF Underway, ElectionTypeOK
  <2>2. Announces(wire[o] \o <<i>>, i) /\ Hellos(wire[o] \o <<i>>)
    BY <1>5, <2>1, SaysAnew
  <2> QED
    BY <1>6, <2>1, <2>2 DEF Informed
<1>8. Informed(o)'
  <2>1. Underway(o)' = Underway(o)
    BY <1>1, <1>4, <1>6 DEF Underway
  <2>2. SUFFICES ASSUME active[o] PROVE Announces(Underway(o), identity[o])
    BY <1>1, <1>4, <1>6, <2>1 DEF Informed, ElectionTypeOK
  <2>3. CASE active[e]
    BY <1>1, <2>2, <2>3 DEF AllInformed, Informed
  <2>4. CASE ~active[e]
    <3>1. wire[e] = <<>> /\ outbox[o] \in Seq(Packet) /\ Only(outbox[o], identity[o])
      BY <1>1, <2>4 DEF AllInformed, ElectionTypeOK
    <3>2. Underway(o) = outbox[o]
      BY <1>1, <3>1, ConcatEmptySeq DEF Underway
    <3> QED
      BY <3>1, <3>2, OnlyAnnounces
  <2> QED
    BY <2>3, <2>4
<1>9. \A x \in End : Only(outbox[x], identity[x])' /\ (~active'[x] => wire'[x] = <<>>)
  BY <1>1, <1>4, <1>5, <1>6 DEF AllInformed, ElectionTypeOK
<1> QED
  BY <1>1, <1>7, <1>8, <1>9 DEF AllInformed

LEMMA StopInformed ==
  ASSUME ElectionTypeOK, AllInformed, NEW e \in End, Stop(e)
  PROVE  AllInformed'
<1>1. /\ active' = [active EXCEPT ![e] = FALSE] /\ wire' = [wire EXCEPT ![e] = <<>>]
      /\ outbox' = [outbox EXCEPT ![e] = <<>>] /\ identity' = identity
  BY DEF Stop
<1>2. \A x \in End : Informed(x)'
  BY <1>1 DEF Informed, ElectionTypeOK
<1>3. \A x \in End : Only(outbox[x], identity[x])'
  BY <1>1 DEF AllInformed, Only, ElectionTypeOK
<1>4. \A x \in End : ~active'[x] => wire'[x] = <<>>
  BY <1>1 DEF AllInformed, ElectionTypeOK
<1> QED
  BY <1>2, <1>3, <1>4 DEF AllInformed

\* What a live end sends, whatever it has just taken off its own wire.
LEMMA SendInformed ==
  ASSUME ElectionTypeOK, AllInformed, NEW e \in End, active[e], active' = active,
         NEW w \in [End -> Seq(Packet)], w[Other(e)] = wire[Other(e)],
         NEW more \in Seq(Packet), Send(e, w, outbox[e] \o more),
         outbox' = [outbox EXCEPT ![e] = <<>>], Only(more, identity'[e]),
         identity'[e] # identity[e] => Hellos(more), peer'[Other(e)] = peer[Other(e)]
  PROVE  /\ Informed(e)'
         /\ Underway(Other(e))' = w[e] \o outbox[Other(e)]
         /\ ~active[Other(e)] => wire'[Other(e)] = <<>>
         /\ wire'[e] = w[e]
         /\ outbox'[e] = <<>> /\ outbox'[Other(e)] = outbox[Other(e)]
<1> DEFINE o == Other(e)
<1>1. o \in End /\ o # e /\ Other(o) = e
  BY Ends
<1>2. outbox[e] \in Seq(Packet) /\ outbox[e] \o more \in Seq(Packet) /\ wire[o] \in Seq(Packet)
  BY UnderwayType, ConcatProperties
<1>3. /\ wire'[e] = w[e]
      /\ active[o] => wire'[o] = wire[o] \o (outbox[e] \o more)
      /\ ~active[o] => wire'[o] = wire[o]
  <2>1. \A p \in Seq(Packet) : Send(e, w, p) =>
          /\ wire'[e] = w[e]
          /\ active[o] => wire'[o] = w[o] \o p
          /\ ~active[o] => wire'[o] = w[o]
    BY SendType
  <2> QED
    BY <1>2, <2>1
<1>4. outbox'[e] = <<>> /\ outbox'[o] = outbox[o]
  BY <1>1 DEF ElectionTypeOK
<1>5. Underway(o)' = w[e] \o outbox[o]
  BY <1>1, <1>3, <1>4 DEF Underway
<1>6. Informed(e)'
  <2>1. CASE active[o]
    <3>1. Underway(e)' = (wire[o] \o (outbox[e] \o more)) \o <<>>
      BY <1>3, <1>4, <2>1 DEF Underway
    <3>2. wire[o] \o (outbox[e] \o more) \in Seq(Packet)
      BY <1>2, ConcatProperties
    <3>3. Underway(e)' = wire[o] \o (outbox[e] \o more)
      BY <3>1, <3>2, ConcatEmptySeq
    <3>4. Underway(e)' = Underway(e) \o more
      BY <1>2, <3>3, Associative DEF Underway
    <3>5. Informed(e)
      BY DEF AllInformed
    <3> QED
      BY <3>4, <3>5, InformedMore
  <2>2. CASE ~active[o]
    BY <1>1, <2>2 DEF Informed
  <2> QED
    BY <2>1, <2>2
<1> QED
  BY <1>1, <1>3, <1>4, <1>5, <1>6 DEF AllInformed

LEMMA FrameInformed ==
  ASSUME ElectionTypeOK, AllInformed, NEW e \in End, Frame(e)
  PROVE  AllInformed'
<1> DEFINE o == Other(e)
           more == Asks(e) \o Pings(e)
<1>1. o \in End /\ o # e /\ Other(o) = e /\ \A x \in End : x \in {e, o}
  BY Ends
<1>2. /\ active[e] /\ outbox' = [outbox EXCEPT ![e] = <<>>]
      /\ active' = active /\ identity' = identity /\ peer' = peer
  BY DEF Frame, core
<1>3. identity[e] \in Packet /\ Ping \in Packet
  BY PacketsAre DEF ElectionTypeOK
<1>4. Asks(e) \in Seq(Packet) /\ Pings(e) \in Seq(Packet)
      /\ Only(Asks(e), identity[e]) /\ Only(Pings(e), identity[e])
  BY <1>3, EmptySeq DEF Asks, Pings, Only
<1>5. more \in Seq(Packet) /\ Only(more, identity[e])
  <2>1. more \in Seq(Packet)
    BY <1>4, ConcatProperties
  <2>2. ASSUME NEW k \in 1..Len(more) PROVE more[k] \in {Ping, identity[e]}
    <3>1. CASE k <= Len(Asks(e))
      <4>1. k \in 1..Len(Asks(e))
        BY <1>4, <3>1, LenProperties
      <4> QED
        BY <1>4, <4>1, Joined DEF Only
    <3>2. CASE k > Len(Asks(e))
      BY <1>4, <2>2, <3>2, Joined DEF Only
    <3> QED
      BY <1>4, <3>1, <3>2, LenProperties
  <2> QED
    BY <2>1, <2>2 DEF Only
<1>6. Send(e, wire, outbox[e] \o more)
  <2>1. outbox[e] \o Asks(e) \o Pings(e) = outbox[e] \o more
    BY <1>4, UnderwayType, Associative
  <2> QED
    BY <2>1 DEF Frame
<1>7. wire \in [End -> Seq(Packet)]
  BY DEF ElectionTypeOK
<1> HIDE DEF more
<1>8. /\ Informed(e)' /\ Underway(o)' = wire[e] \o outbox[o]
      /\ ~active[o] => wire'[o] = <<>>
      /\ outbox'[e] = <<>> /\ outbox'[o] = outbox[o]
  BY <1>2, <1>5, <1>6, <1>7, SendInformed
<1>9. Informed(o)'
  <2>1. Underway(o)' = Underway(o)
    BY <1>1, <1>8 DEF Underway
  <2> QED
    BY <1>1, <1>2, <2>1 DEF AllInformed, Informed
<1>10. \A x \in End : Only(outbox[x], identity[x])' /\ (~active'[x] => wire'[x] = <<>>)
  BY <1>1, <1>2, <1>8 DEF AllInformed, Only
<1> QED
  BY <1>1, <1>8, <1>9, <1>10 DEF AllInformed

LEMMA ReceiveInformed ==
  ASSUME ElectionTypeOK, AllInformed, NEW e \in End, Receive(e)
  PROVE  AllInformed'
<1> DEFINE o == Other(e)
           p == Head(wire[e])
<1>1. o \in End /\ o # e /\ Other(o) = e /\ \A x \in End : x \in {e, o}
  BY Ends
<1>0. PICK w \in [End -> Seq(Packet)] : w = [wire EXCEPT ![e] = Tail(@)]
  BY ReceiveType
<1>2. PICK more \in Seq(Packet) :
        /\ Only(more, identity'[e])
        /\ identity'[e] # identity[e] => Hellos(more)
        /\ Send(e, w, outbox[e] \o more)
  BY <1>0, ReceiveType
<1>3. /\ active' = active /\ outbox' = [outbox EXCEPT ![e] = <<>>]
      /\ active[e] /\ wire[e] # <<>>
  BY ReceiveType DEF Receive
<1>4. w[o] = wire[o] /\ w[e] = Tail(wire[e])
  BY <1>1, <1>0 DEF ElectionTypeOK
<1>5. /\ peer'[o] = peer[o] /\ identity'[o] = identity[o]
      /\ \/ p = Ping /\ peer'[e] = peer[e]
         \/ peer'[e] \in {None, p}
  <2>1. CASE p = Ping /\ Heard(e)
    BY <2>1 DEF Heard
  <2>2. CASE Tied(e)
    BY <1>1, <2>2 DEF Tied, ElectionTypeOK
  <2>3. CASE Told(e, p)
    BY <1>1, <2>3 DEF Told, ElectionTypeOK
  <2> QED
    BY <2>1, <2>2, <2>3 DEF Receive
<1>6. /\ Informed(e)' /\ Underway(o)' = w[e] \o outbox[o]
      /\ ~active[o] => wire'[o] = <<>>
      /\ outbox'[e] = <<>> /\ outbox'[o] = outbox[o]
  <2>1. w[Other(e)] = wire[Other(e)] /\ peer'[Other(e)] = peer[Other(e)]
    BY <1>4, <1>5
  <2> QED
    BY <1>2, <1>3, <2>1, SendInformed
<1>7. Informed(o)'
  <2>1. Informed(o)
    BY <1>1 DEF AllInformed
  <2> QED
    BY <1>1, <1>3, <1>4, <1>5, <1>6, <2>1, InformedTail
<1>8. \A x \in End : Only(outbox[x], identity[x])' /\ (~active'[x] => wire'[x] = <<>>)
  BY <1>1, <1>3, <1>5, <1>6 DEF AllInformed, Only
<1> QED
  BY <1>1, <1>6, <1>7, <1>8 DEF AllInformed

LEMMA GiveUpInformed ==
  ASSUME ElectionTypeOK, AllInformed, NEW e \in End, GiveUp(e)
  PROVE  AllInformed'
<1> DEFINE o == Other(e)
<1>1. o \in End /\ o # e /\ Other(o) = e /\ \A x \in End : x \in {e, o}
  BY Ends
<1>2. /\ active[e] /\ outbox' = [outbox EXCEPT ![e] = <<>>]
      /\ active' = active /\ identity' = identity /\ peer' = peer
  BY DEF GiveUp, Units, core
<1>3. <<Ping>> \in Seq(Packet) /\ Send(e, wire, outbox[e] \o <<Ping>>)
  BY GiveUpType DEF GiveUp
<1>4. Only(<<Ping>>, identity[e]) /\ wire \in [End -> Seq(Packet)]
  BY DEF Only, ElectionTypeOK
<1>5. /\ Informed(e)' /\ Underway(o)' = wire[e] \o outbox[o]
      /\ ~active[o] => wire'[o] = <<>>
      /\ outbox'[e] = <<>> /\ outbox'[o] = outbox[o]
  BY <1>2, <1>3, <1>4, SendInformed
<1>6. Informed(o)'
  <2>1. Underway(o)' = Underway(o)
    BY <1>1, <1>5 DEF Underway
  <2> QED
    BY <1>1, <1>2, <2>1 DEF AllInformed, Informed
<1>7. \A x \in End : Only(outbox[x], identity[x])' /\ (~active'[x] => wire'[x] = <<>>)
  BY <1>1, <1>2, <1>5 DEF AllInformed, Only
<1> QED
  BY <1>1, <1>5, <1>6, <1>7 DEF AllInformed

LEMMA LoseInformed ==
  ASSUME ElectionTypeOK, AllInformed, ~HelloLoss, NEW e \in End, LosePacket(e)
  PROVE  AllInformed'
<1> DEFINE o == Other(e)
<1>1. o \in End /\ o # e /\ Other(o) = e /\ \A x \in End : x \in {e, o}
  BY Ends
<1>2. /\ wire[e] # <<>> /\ Head(wire[e]) = Ping /\ wire' = [wire EXCEPT ![e] = Tail(wire[e])]
      /\ active' = active /\ identity' = identity /\ peer' = peer /\ outbox' = outbox
  BY DEF LosePacket, core
<1>3. wire'[e] = Tail(wire[e]) /\ wire'[o] = wire[o]
  BY <1>1, <1>2 DEF ElectionTypeOK
<1>4. Underway(e)' = Underway(e) /\ Underway(o)' = Tail(wire[e]) \o outbox[o]
  BY <1>1, <1>2, <1>3 DEF Underway
<1>5. Informed(e) /\ Informed(o)
  BY <1>1 DEF AllInformed
<1>6. Informed(e)'
  BY <1>2, <1>4, <1>5, InformedKept
<1>7. Informed(o)'
  BY <1>1, <1>2, <1>4, <1>5, InformedTail
<1>8. \A x \in End : Only(outbox[x], identity[x])' /\ (~active'[x] => wire'[x] = <<>>)
  BY <1>1, <1>2, <1>3 DEF AllInformed, Only
<1> QED
  BY <1>1, <1>6, <1>7, <1>8 DEF AllInformed

LEMMA UnchangedInformed ==
  ASSUME AllInformed, UNCHANGED <<core, outbox, wire>>
  PROVE  AllInformed'
  BY DEF AllInformed, Informed, Underway, Only, core

LEMMA StepInformed ==
  ASSUME ElectionTypeOK, AllInformed, ~HelloLoss, [ElectionNext]_sessionvars
  PROVE  AllInformed'
<1>1. CASE \E e \in End : Start(e) \/ Stop(e) \/ Frame(e) \/ Receive(e) \/ GiveUp(e) \/ LosePacket(e)
  BY <1>1, StartInformed, StopInformed, FrameInformed, ReceiveInformed, GiveUpInformed, LoseInformed
<1>2. CASE Tick
  BY <1>2, UnchangedInformed DEF Tick
<1>3. CASE UNCHANGED sessionvars
  BY <1>3, UnchangedInformed DEF sessionvars
<1> QED
  BY <1>1, <1>2, <1>3 DEF ElectionNext

LEMMA InitInformed == ElectionInit => AllInformed
  BY DEF ElectionInit, AllInformed, Informed, Only, End

LEMMA InformedDiffer == ElectionTypeOK /\ AllInformed => RolesDiffer
<1> SUFFICES ASSUME ElectionTypeOK, AllInformed, Settled, Elected(0), Elected(1)
             PROVE  Role(0) # Role(1)
  BY DEF RolesDiffer
<1>1. 0 \in End /\ 1 \in End /\ Other(0) = 1 /\ Other(1) = 0
  BY DEF End, Other
<1>2. \A e \in End : ~Hellos(Underway(e))
  BY UnderwayType, HellosMore, Ends DEF Settled, Underway
<1>3. \A e \in End : peer[Other(e)] \in {None, identity[e]}
  BY <1>2 DEF AllInformed, Informed, Settled
<1>4. peer[0] = identity[1] /\ peer[1] = identity[0] /\ identity[0] # identity[1]
  BY <1>1, <1>3 DEF Elected
<1>5. identity[0] \in 0..N /\ identity[1] \in 0..N
  BY <1>1 DEF ElectionTypeOK
<1> QED
  BY <1>4, <1>5, ElectionAssumption DEF Role

\* Two live ends with nothing more to tell each other have one role each, however
\* often either end restarted its session and however identities collided, as long
\* as the wire loses no announcement (role and the hello half of on_packet).
THEOREM RolesNeverAlike ==
  ASSUME ~HelloLoss
  PROVE  ElectionSpec => []RolesDiffer
<1>1. ElectionInit => ElectionTypeOK /\ AllInformed
  BY InitType, InitInformed
<1>2. (ElectionTypeOK /\ AllInformed) /\ [ElectionNext]_sessionvars => (ElectionTypeOK /\ AllInformed)'
  BY StepType, StepInformed
<1>3. ElectionTypeOK /\ AllInformed => RolesDiffer
  BY InformedDiffer
<1> QED
  BY <1>1, <1>2, <1>3, PTL DEF ElectionSpec

-----------------------------------------------------------------------------
(* How long a live end goes unheard.                                           *)

\* What e knows of a live peer is no staler than the losses, one interval more while
\* the peer has not spoken in this one; or it knows an earlier session's identity,
\* and has nothing to say that could make that the identity again.
Heeded(e) ==
  active[e] /\ active[Other(e)] /\ peer[e] # None =>
    \/ /\ silence[e] <= losses + 1
       /\ ~quiet[Other(e)] /\ wire[e] = <<>> => silence[e] <= losses
    \/ peer[e] # identity[Other(e)] /\ ~Hellos(wire[Other(e)])

WarmInv ==
  /\ \A e \in End : ~active[e] => wire[e] = <<>>
  /\ \A e \in End : peer[e] # None => outbox[e] = <<>>
  /\ \A e \in End : active[e] /\ framed[e] => ~quiet[e]
  /\ \A e \in End : Heeded(e)

\* The ends that know each other have heard from each other lately.
SilenceIsLoss ==
  \A e \in End : (\A x \in End : active[x] /\ Knows(x)) => silence[e] <= losses + 1

LEMMA Numbers ==
  ASSUME ElectionTypeOK
  PROVE  losses \in Nat /\ \A e \in End : silence[e] \in Nat
  BY ElectionAssumption DEF ElectionTypeOK

\* e sends: its peer goes on heeding it, and is not told another identity
\* unless it said one.
LEMMA SendHeeded ==
  ASSUME ElectionTypeOK, WarmInv, NEW e \in End, active[e], active' = active, losses' = losses,
         NEW w \in [End -> Seq(Packet)], w[Other(e)] = wire[Other(e)],
         NEW p \in Seq(Packet), Send(e, w, p), outbox' = [outbox EXCEPT ![e] = <<>>],
         peer'[Other(e)] = peer[Other(e)], silence'[Other(e)] = silence[Other(e)],
         identity'[e] # identity[e] \/ Hellos(w[e]) => Hellos(wire[e])
  PROVE  /\ Heeded(Other(e))'
         /\ \A x \in End : ~active'[x] => wire'[x] = <<>> \/ x = e
         /\ peer'[Other(e)] # None => outbox'[Other(e)] = <<>>
         /\ outbox'[e] = <<>> /\ quiet'[Other(e)] = quiet[Other(e)]
         /\ ~quiet[e] => ~quiet'[e]
         /\ p # <<>> => ~quiet'[e]
         /\ wire'[e] = w[e] /\ (active[Other(e)] => wire'[Other(e)] = wire[Other(e)] \o p)
<1> DEFINE o == Other(e)
<1>1. o \in End /\ o # e /\ Other(o) = e /\ \A x \in End : x \in {e, o}
  BY Ends
<1>2. /\ wire'[e] = w[e]
      /\ active[o] => wire'[o] = wire[o] \o p
      /\ ~active[o] => wire'[o] = wire[o]
  BY SendType
<1>3. quiet' = IF p = <<>> THEN quiet ELSE [quiet EXCEPT ![e] = FALSE]
  BY DEF Send
<1>4. quiet'[o] = quiet[o] /\ (~quiet[e] => ~quiet'[e]) /\ (p # <<>> => ~quiet'[e])
  BY <1>1, <1>3 DEF ElectionTypeOK
<1>5. outbox'[e] = <<>> /\ outbox'[o] = outbox[o]
  BY <1>1 DEF ElectionTypeOK
<1>6. Heeded(o)'
  <2>1. SUFFICES ASSUME active[o], peer[o] # None
                 PROVE  \/ /\ silence[o] <= losses + 1
                           /\ ~quiet'[e] /\ wire'[o] = <<>> => silence[o] <= losses
                        \/ peer[o] # identity'[e] /\ ~Hellos(wire'[e])
    BY <1>1 DEF Heeded
  <2>2. \/ /\ silence[o] <= losses + 1
           /\ ~quiet[e] /\ wire[o] = <<>> => silence[o] <= losses
        \/ peer[o] # identity[e] /\ ~Hellos(wire[e])
    BY <1>1, <2>1 DEF WarmInv, Heeded
  <2>3. wire'[o] = <<>> => wire[o] = <<>> /\ p = <<>>
    <3>1. wire[o] \in Seq(Packet) /\ Len(wire[o]) \in Nat /\ Len(p) \in Nat
      BY <1>1, LenProperties DEF ElectionTypeOK
    <3>2. Len(wire[o] \o p) = Len(wire[o]) + Len(p)
      BY <3>1, Joined
    <3>3. wire[o] \o p = <<>> => Len(wire[o]) = 0 /\ Len(p) = 0
      BY <3>1, <3>2
    <3>4. wire[o] \o p = <<>> => wire[o] = <<>> /\ p = <<>>
      BY <3>1, <3>3, EmptySeq
    <3> QED
      BY <1>2, <2>1, <3>4
  <2> QED
    BY <1>2, <1>3, <2>2, <2>3
<1> QED
  BY <1>1, <1>2, <1>4, <1>5, <1>6 DEF WarmInv

LEMMA NoHellosIn ==
  ASSUME NEW s \in Seq(Packet), ~Hellos(s), s # <<>>
  PROVE  Head(s) = Ping /\ Tail(s) \in Seq(Packet) /\ ~Hellos(Tail(s))
<1>1. /\ Len(s) \in Nat \ {0} /\ Head(s) = s[1] /\ Tail(s) \in Seq(Packet)
      /\ Len(Tail(s)) = Len(s) - 1 /\ \A k \in 1..Len(Tail(s)) : Tail(s)[k] = s[k + 1]
  BY HeadTailProperties, LenProperties
<1>2. \A k \in 1..Len(Tail(s)) : k + 1 \in 1..Len(s)
  BY <1>1
<1> QED
  BY <1>1, <1>2 DEF Hellos

LEMMA StartWarm ==
  ASSUME ElectionTypeOK, WarmInv, NEW e \in End, Start(e)
  PROVE  WarmInv'
<1> DEFINE o == Other(e)
<1>1. o \in End /\ o # e /\ Other(o) = e /\ \A x \in End : x \in {e, o}
  BY Ends
<1>2. PICK i \in Fresh(e) : identity' = [identity EXCEPT ![e] = i] /\ outbox' = [outbox EXCEPT ![e] = <<i>>]
  BY DEF Start
<1>3. /\ active' = [active EXCEPT ![e] = TRUE] /\ peer' = [peer EXCEPT ![e] = None]
      /\ silence' = [silence EXCEPT ![e] = Silent] /\ quiet' = [quiet EXCEPT ![e] = TRUE]
      /\ framed' = [framed EXCEPT ![e] = FALSE] /\ UNCHANGED <<wire, losses>>
  BY DEF Start, Reset
<1>4. /\ active'[e] /\ active'[o] = active[o] /\ peer'[e] = None /\ peer'[o] = peer[o]
      /\ silence'[o] = silence[o] /\ quiet'[e] /\ quiet'[o] = quiet[o]
      /\ ~framed'[e] /\ framed'[o] = framed[o] /\ outbox'[o] = outbox[o]
      /\ identity'[e] = i /\ i # peer[o]
  BY <1>1, <1>2, <1>3 DEF ElectionTypeOK, Fresh
<1>5. Heeded(o)'
  <2>1. CASE active[e]
    BY <1>1, <1>3, <1>4, <2>1 DEF WarmInv, Heeded
  <2>2. CASE ~active[e]
    <3>1. ~Hellos(wire[e])
      BY <2>2 DEF WarmInv, Hellos
    <3> QED
      BY <1>1, <1>3, <1>4, <3>1 DEF Heeded
  <2> QED
    BY <2>1, <2>2
<1>6. Heeded(e)'
  BY <1>4 DEF Heeded
<1> QED
  BY <1>1, <1>3, <1>4, <1>5, <1>6 DEF WarmInv

LEMMA StopWarm ==
  ASSUME ElectionTypeOK, WarmInv, NEW e \in End, Stop(e)
  PROVE  WarmInv'
<1> DEFINE o == Other(e)
<1>1. o \in End /\ o # e /\ Other(o) = e /\ \A x \in End : x \in {e, o}
  BY Ends
<1>2. /\ ~active'[e] /\ active'[o] = active[o] /\ peer'[o] = peer[o] /\ quiet'[o] = quiet[o]
      /\ framed' = framed /\ outbox'[e] = <<>> /\ outbox'[o] = outbox[o]
      /\ wire'[e] = <<>> /\ wire'[o] = wire[o]
  BY <1>1 DEF Stop, Reset, ElectionTypeOK
<1>3. Heeded(e)' /\ Heeded(o)'
  BY <1>1, <1>2 DEF Heeded
<1> QED
  BY <1>1, <1>2, <1>3 DEF WarmInv

\* Whatever a frame adds, an end that knows an identity announces nothing.
LEMMA FrameWarm ==
  ASSUME ElectionTypeOK, WarmInv, NEW e \in End, Frame(e)
  PROVE  WarmInv'
<1> DEFINE o == Other(e)
<1>0. PICK said \in Seq(Packet) : said = outbox[e] \o Asks(e) \o Pings(e)
  BY FrameType
<1>1. o \in End /\ o # e /\ Other(o) = e /\ \A x \in End : x \in {e, o}
  BY Ends
<1>2. /\ active[e] /\ outbox' = [outbox EXCEPT ![e] = <<>>] /\ Send(e, wire, said)
      /\ framed' = [framed EXCEPT ![e] = TRUE]
      /\ UNCHANGED <<active, identity, peer, silence, losses>>
  BY <1>0 DEF Frame, core
<1>3. wire \in [End -> Seq(Packet)]
  BY DEF ElectionTypeOK
<1>4. /\ Heeded(o)'
      /\ \A x \in End : ~active'[x] => wire'[x] = <<>> \/ x = e
      /\ peer'[o] # None => outbox'[o] = <<>>
      /\ outbox'[e] = <<>> /\ quiet'[o] = quiet[o] /\ (~quiet[e] => ~quiet'[e])
      /\ said # <<>> => ~quiet'[e]
      /\ wire'[e] = wire[e] /\ (active[o] => wire'[o] = wire[o] \o said)
  <2>1. PICK w \in [End -> Seq(Packet)] : w = wire
    BY <1>3
  <2>2. /\ w[o] = wire[o] /\ w[e] = wire[e] /\ Send(e, w, said)
        /\ peer'[o] = peer[o] /\ silence'[o] = silence[o]
        /\ identity'[e] # identity[e] \/ Hellos(w[e]) => Hellos(wire[e])
        /\ active[e] /\ active' = active /\ losses' = losses
        /\ outbox' = [outbox EXCEPT ![e] = <<>>]
        /\ said \in Seq(Packet) /\ w \in [End -> Seq(Packet)]
    BY <1>2, <2>1
  <2>3. Heeded(o)'
    BY <2>2, SendHeeded
  <2>4. \A x \in End : ~active'[x] => wire'[x] = <<>> \/ x = e
    BY <2>2, SendHeeded
  <2>5. (peer'[o] # None => outbox'[o] = <<>>) /\ outbox'[e] = <<>> /\ quiet'[o] = quiet[o]
    BY <2>2, SendHeeded
  <2>6. (~quiet[e] => ~quiet'[e]) /\ (said # <<>> => ~quiet'[e])
    BY <2>2 DEF Send, ElectionTypeOK
  <2>7. wire'[e] = w[e] /\ (active[o] => wire'[o] = w[o] \o said)
    <3>1. Send(e, w, said)
      BY <2>2
    <3> QED
      BY <3>1, SendType
  <2> QED
    BY <2>2, <2>3, <2>4, <2>5, <2>6, <2>7
<1>5. quiet[e] => said # <<>>
  <2>1. outbox[e] \in Seq(Packet) /\ Asks(e) \in Seq(Packet) /\ <<Ping>> \in Seq(Packet)
    <3>1. identity[e] \in Packet /\ Ping \in Packet
      BY PacketsAre DEF ElectionTypeOK
    <3> QED
      BY <3>1, EmptySeq DEF Asks, ElectionTypeOK
  <2>2. outbox[e] \o Asks(e) \in Seq(Packet)
    BY <2>1, ConcatProperties
  <2>3. Len((outbox[e] \o Asks(e)) \o <<Ping>>) = Len(outbox[e] \o Asks(e)) + 1
        /\ Len(outbox[e] \o Asks(e)) \in Nat
    BY <2>1, <2>2, Joined
  <2>4. Len((outbox[e] \o Asks(e)) \o <<Ping>>) # 0
    BY <2>3
  <2> QED
    BY <1>0, <2>4 DEF Pings
<1>6. ~quiet'[e]
  BY <1>4, <1>5
<1>7. peer[e] # None => ~Hellos(said)
  <2>1. SUFFICES ASSUME peer[e] # None PROVE ~Hellos(said)
    OBVIOUS
  <2>2. outbox[e] = <<>> /\ Asks(e) = <<>>
    BY <2>1 DEF WarmInv, Asks
  <2>3. <<>> \o <<>> \o Pings(e) = Pings(e)
    BY DEF Pings
  <2> QED
    BY <1>0, <2>2, <2>3 DEF Pings, Hellos
<1>8. Heeded(e)'
  <2>1. SUFFICES ASSUME active[e], active[o], peer[e] # None
                 PROVE  \/ /\ silence[e] <= losses + 1
                           /\ ~quiet[o] /\ wire[e] = <<>> => silence[e] <= losses
                        \/ peer[e] # identity[o] /\ ~Hellos(wire'[o])
    BY <1>2, <1>4 DEF Heeded
  <2>2. ~Hellos(wire[o]) => ~Hellos(wire[o] \o said)
    <3>1. wire[o] \in Seq(Packet)
      BY <1>1, <1>3
    <3> QED
      BY <1>7, <2>1, <3>1, HellosMore
  <2> QED
    BY <1>4, <2>1, <2>2 DEF WarmInv, Heeded
<1>9. framed'[o] = framed[o]
  BY <1>1, <1>2 DEF ElectionTypeOK
<1> QED
  BY <1>1, <1>2, <1>4, <1>6, <1>8, <1>9 DEF WarmInv

LEMMA GiveUpWarm ==
  ASSUME ElectionTypeOK, WarmInv, NEW e \in End, GiveUp(e)
  PROVE  WarmInv'
<1> DEFINE o == Other(e)
<1>0. PICK said \in Seq(Packet) : said = outbox[e] \o <<Ping>>
  BY GiveUpType, ConcatProperties DEF ElectionTypeOK
<1>1. o \in End /\ o # e /\ Other(o) = e /\ \A x \in End : x \in {e, o}
  BY Ends
<1>2. /\ active[e] /\ outbox' = [outbox EXCEPT ![e] = <<>>] /\ Send(e, wire, said)
      /\ UNCHANGED <<active, identity, peer, silence, losses, framed>>
  <2>1. Append(outbox[e], Ping) = said
    BY <1>0, GiveUpType
  <2>2. active[e]
    BY DEF GiveUp, Units
  <2> QED
    BY <2>1, <2>2 DEF GiveUp, core
<1>3. wire \in [End -> Seq(Packet)]
  BY DEF ElectionTypeOK
<1>4. /\ Heeded(o)'
      /\ \A x \in End : ~active'[x] => wire'[x] = <<>> \/ x = e
      /\ peer'[o] # None => outbox'[o] = <<>>
      /\ outbox'[e] = <<>> /\ quiet'[o] = quiet[o] /\ (~quiet[e] => ~quiet'[e])
      /\ wire'[e] = wire[e] /\ (active[o] => wire'[o] = wire[o] \o said)
  <2>1. PICK w \in [End -> Seq(Packet)] : w = wire
    BY <1>3
  <2>2. /\ w[o] = wire[o] /\ w[e] = wire[e] /\ Send(e, w, said)
        /\ peer'[o] = peer[o] /\ silence'[o] = silence[o]
        /\ identity'[e] # identity[e] \/ Hellos(w[e]) => Hellos(wire[e])
        /\ active[e] /\ active' = active /\ losses' = losses
        /\ outbox' = [outbox EXCEPT ![e] = <<>>]
        /\ said \in Seq(Packet) /\ w \in [End -> Seq(Packet)]
    BY <1>2, <2>1
  <2>3. Heeded(o)'
    BY <2>2, SendHeeded
  <2>4. \A x \in End : ~active'[x] => wire'[x] = <<>> \/ x = e
    BY <2>2, SendHeeded
  <2>5. (peer'[o] # None => outbox'[o] = <<>>) /\ outbox'[e] = <<>> /\ quiet'[o] = quiet[o]
    BY <2>2, SendHeeded
  <2>6. ~quiet[e] => ~quiet'[e]
    BY <2>2 DEF Send, ElectionTypeOK
  <2>7. wire'[e] = w[e] /\ (active[o] => wire'[o] = w[o] \o said)
    <3>1. Send(e, w, said)
      BY <2>2
    <3> QED
      BY <3>1, SendType
  <2> QED
    BY <2>2, <2>3, <2>4, <2>5, <2>6, <2>7
<1>5. peer[e] # None => ~Hellos(said)
  <2>1. outbox[e] = <<>> => said = <<Ping>>
    BY <1>0
  <2> QED
    BY <2>1 DEF WarmInv, Hellos
<1>6. Heeded(e)'
  <2>1. SUFFICES ASSUME active[e], active[o], peer[e] # None
                 PROVE  \/ /\ silence[e] <= losses + 1
                           /\ ~quiet[o] /\ wire[e] = <<>> => silence[e] <= losses
                        \/ peer[e] # identity[o] /\ ~Hellos(wire'[o])
    BY <1>2, <1>4 DEF Heeded
  <2>2. ~Hellos(wire[o]) => ~Hellos(wire[o] \o said)
    <3>1. wire[o] \in Seq(Packet)
      BY <1>1, <1>3
    <3> QED
      BY <1>5, <2>1, <3>1, HellosMore
  <2> QED
    BY <1>4, <2>1, <2>2 DEF WarmInv, Heeded
<1> QED
  BY <1>1, <1>2, <1>4, <1>6 DEF WarmInv

LEMMA ReceiveWarm ==
  ASSUME ElectionTypeOK, WarmInv, NEW e \in End, Receive(e)
  PROVE  WarmInv'
<1> DEFINE o == Other(e)
<1>1. o \in End /\ o # e /\ Other(o) = e /\ \A x \in End : x \in {e, o}
  BY Ends
<1>2. PICK w \in [End -> Seq(Packet)] : w = [wire EXCEPT ![e] = Tail(@)]
  BY ReceiveType
<1>3. PICK more \in Seq(Packet) : Send(e, w, outbox[e] \o more)
  BY <1>2, ReceiveType
<1>4. /\ active[e] /\ wire[e] # <<>> /\ silence' = [silence EXCEPT ![e] = 0]
      /\ UNCHANGED <<active, framed, losses>> /\ outbox' = [outbox EXCEPT ![e] = <<>>]
  BY ReceiveType DEF Receive
<1>5. outbox[e] \o more \in Seq(Packet)
  BY ConcatProperties DEF ElectionTypeOK
<1>6. w[o] = wire[o] /\ w[e] = Tail(wire[e]) /\ silence'[o] = silence[o] /\ silence'[e] = 0
  BY <1>1, <1>2, <1>4 DEF ElectionTypeOK
<1>7. peer'[o] = peer[o] /\ (Head(wire[e]) = Ping => identity' = identity)
  BY <1>1 DEF Receive, Heard, Tied, Told, ElectionTypeOK
<1>8. identity'[e] # identity[e] \/ Hellos(w[e]) => Hellos(wire[e])
  BY <1>4, <1>6, <1>7, NoHellosIn DEF ElectionTypeOK
<1>9. /\ Heeded(o)'
      /\ \A x \in End : ~active'[x] => wire'[x] = <<>> \/ x = e
      /\ peer'[o] # None => outbox'[o] = <<>>
      /\ outbox'[e] = <<>> /\ quiet'[o] = quiet[o] /\ (~quiet[e] => ~quiet'[e])
  BY <1>3, <1>4, <1>5, <1>6, <1>7, <1>8, SendHeeded
<1>10. Heeded(e)'
  BY <1>4, <1>6, Numbers DEF Heeded
<1> QED
  BY <1>1, <1>4, <1>9, <1>10 DEF WarmInv

LEMMA LoseWarm ==
  ASSUME ElectionTypeOK, WarmInv, NEW e \in End, LosePacket(e)
  PROVE  WarmInv'
<1> DEFINE o == Other(e)
<1>1. o \in End /\ o # e /\ Other(o) = e /\ \A x \in End : x \in {e, o}
  BY Ends
<1>2. /\ UNCHANGED <<active, peer, identity, silence, quiet, outbox, framed>>
      /\ losses' = losses + 1 /\ wire[e] # <<>> /\ wire'[e] = Tail(wire[e]) /\ wire'[o] = wire[o]
  BY <1>1 DEF LosePacket, core, liveness, ElectionTypeOK
<1>3. Hellos(wire'[e]) => Hellos(wire[e])
  BY <1>2, NoHellosIn DEF ElectionTypeOK
<1>4. Heeded(e)'
  BY <1>1, <1>2, Numbers DEF WarmInv, Heeded
<1>5. Heeded(o)'
  BY <1>1, <1>2, <1>3, Numbers DEF WarmInv, Heeded
<1> QED
  BY <1>1, <1>2, <1>4, <1>5 DEF WarmInv

LEMMA TickWarm ==
  ASSUME ElectionTypeOK, WarmInv, Tick
  PROVE  WarmInv'
<1>1. /\ \A e \in End : silence'[e] <= silence[e] + 1 /\ quiet'[e] /\ ~framed'[e]
      /\ UNCHANGED <<active, peer, identity, outbox, wire, losses>>
      /\ \A e \in End : active[e] => framed[e] /\ wire[e] = <<>>
  <2>1. \A e \in End : silence[e] \in 0..Silent /\ Silent \in Nat
    BY ElectionAssumption DEF ElectionTypeOK
  <2>2. \A e \in End : silence'[e] = IF silence[e] < Silent THEN silence[e] + 1 ELSE Silent
    BY DEF Tick
  <2>3. \A e \in End : silence'[e] <= silence[e] + 1
    BY <2>1, <2>2
  <2> QED
    BY <2>3 DEF Tick, core
<1>2. ASSUME NEW e \in End PROVE Heeded(e)'
  <2>1. Other(e) \in End
    BY Ends
  <2>2. SUFFICES ASSUME active[e], active[Other(e)], peer[e] # None
                 PROVE  \/ silence'[e] <= losses + 1
                        \/ peer[e] # identity[Other(e)] /\ ~Hellos(wire[Other(e)])
    BY <1>1, <2>1 DEF Heeded
  <2>3. ~quiet[Other(e)] /\ wire[e] = <<>>
    BY <1>1, <2>1, <2>2 DEF WarmInv
  <2>4. \/ silence[e] <= losses
        \/ peer[e] # identity[Other(e)] /\ ~Hellos(wire[Other(e)])
    BY <2>2, <2>3 DEF WarmInv, Heeded
  <2>5. silence'[e] \in Nat
    BY TickType DEF ElectionTypeOK
  <2> QED
    BY <1>1, <2>4, <2>5, Numbers
<1> QED
  BY <1>1, <1>2 DEF WarmInv

LEMMA InitWarm == ElectionInit => WarmInv
  BY DEF ElectionInit, WarmInv, Heeded

LEMMA StepWarm ==
  ElectionTypeOK /\ WarmInv /\ [ElectionNext]_sessionvars => WarmInv'
<1> SUFFICES ASSUME ElectionTypeOK, WarmInv, [ElectionNext]_sessionvars PROVE WarmInv'
  OBVIOUS
<1>1. CASE \E e \in End : Start(e) \/ Stop(e) \/ Frame(e) \/ Receive(e) \/ GiveUp(e) \/ LosePacket(e)
  BY <1>1, StartWarm, StopWarm, FrameWarm, ReceiveWarm, GiveUpWarm, LoseWarm
<1>2. CASE Tick
  BY <1>2, TickWarm
<1>3. CASE UNCHANGED sessionvars
  BY <1>3 DEF sessionvars, core, liveness, WarmInv, Heeded, Hellos
<1> QED
  BY <1>1, <1>2, <1>3 DEF ElectionNext

LEMMA WarmSilence == ElectionTypeOK /\ WarmInv => SilenceIsLoss
  BY Ends DEF WarmInv, Heeded, SilenceIsLoss, Knows, Elected

\* Ends that know each other have heard from each other within as many intervals as
\* packets were lost, and one more, whatever sessions there were before: the ping of
\* cable_keepalive does not depend on the role, nor on a game's transfers.
THEOREM UnheardOnlyForLosses == ElectionSpec => []SilenceIsLoss
<1>1. ElectionInit => ElectionTypeOK /\ WarmInv
  BY InitType, InitWarm
<1>2. ElectionTypeOK /\ WarmInv /\ [ElectionNext]_sessionvars => ElectionTypeOK' /\ WarmInv'
  BY StepType, StepWarm
<1>3. ElectionTypeOK /\ WarmInv => SilenceIsLoss
  BY WarmSilence
<1> QED
  BY <1>1, <1>2, <1>3, PTL DEF ElectionSpec

\* So they go on reporting two units while fewer pings are lost than PEER_SILENT
\* allows for, unless a parent has counted the circuit open.
THEOREM QuietLinkStays ==
  ASSUME MaxLosses + 1 < Silent
  PROVE  ElectionSpec => []QuietLinkStaysUp
<1>1. ElectionTypeOK /\ SilenceIsLoss => QuietLinkStaysUp
  <2> SUFFICES ASSUME ElectionTypeOK, SilenceIsLoss, NEW e \in End,
                      \A x \in End : active[x] /\ Knows(x), cableFailures[e] < FailuresMax
               PROVE  Units(e) = 2
    BY DEF QuietLinkStaysUp
  <2>1. silence[e] <= losses + 1 /\ losses <= MaxLosses
    BY DEF SilenceIsLoss, ElectionTypeOK
  <2>2. silence[e] < Silent
    BY <2>1, Numbers, ElectionAssumption
  <2> QED
    BY <2>2 DEF Units, Knows
<1> QED
  BY <1>1, ElectionTyped, UnheardOnlyForLosses, PTL

-----------------------------------------------------------------------------
(* The words of the wireless adapter *)

Names == {i[1] : i \in Issued}
Links == {"idle", "host", "client", "connecting"}
Events == {"gone", "data", "round", "timeout"}

\* What an adapter may say.
Talk ==
  {Zero, Idle, Ones, Error, Firmware, <<"echo">>, <<"1">>, <<"0">>, <<"slot">>, <<"slots">>, <<"unanswered">>}
  \cup {Ack(c, n) : c \in Names, n \in Nat}
  \cup {Event(k, n) : k \in {"disconnected", "data", "timeout"}, n \in 0..1}
  \cup {Length(n) : n \in Nat}
  \cup {<<c, l, g>> : c \in Names, l \in Links, g \in BOOLEAN}
  \cup Seq(STRING)

\* A word is on its way to the game; and the words that follow it, which lie where
\* the adapter's state says.  So it is unless the game was talked over.
Flying == IF port.pending > 0 THEN 1 ELSE 0
Left ==
  CASE com = "respcmd" -> len + 1
    [] com \in {"respdat", "waitresp"} -> len - pos
    [] com = "resperr" -> 2
    [] com = "resperr2" -> 1
    [] OTHER -> 0
Word(k) ==
  CASE com = "respcmd" -> IF k = 1 THEN Ack(cmd, len) ELSE buf[k - 1]
    [] com \in {"respdat", "waitresp"} -> buf[pos + k]
    [] com = "resperr" /\ k = 1 -> Error
    [] OTHER -> <<"1">>
Coming ==
  /\ Len(due) = Flying + Left
  /\ Flying = 1 => due[1] = port.data
  /\ \A k \in 1..Left : due[Flying + k] = Word(k)

\* Where the conversation is.
Places == {"reset", "handshake", "waitcmd", "waitdat", "respcmd", "respdat",
           "resperr", "resperr2", "waitevent", "waitresp"}
Shape ==
  /\ com \in Places /\ len \in Nat /\ pos \in Nat /\ DOMAIN buf = 1..BufWords
  /\ com \in {"respdat", "waitresp"} => pos < len /\ len <= BufWords
  /\ com = "respcmd" => pos = 0 /\ len <= BufWords /\ (cmd \in HandsOver => len = 0)
  /\ com \in {"resperr", "resperr2"} => cmd = "1"
  /\ com \in {"waitdat", "respcmd"} => cmd \in Names
  /\ com = "waitdat" => pos < len /\ (cmd = "syscfg" /\ pos > 0 => buf[1] \in Settings)

\* A game that is talked over is told the rest, or is about to say a command.
Astray ==
  /\ talkedOver \in BOOLEAN
  /\ talkedOver => com \in {"waitcmd", "waitresp"}
  /\ com = "waitresp" => \A k \in 1..len : buf[k] \in Talk

\* A word is in flight only while the game is at the clock, or has let it go.
PortShape ==
  /\ port \in [master : BOOLEAN, so : BOOLEAN, si : BOOLEAN, start : BOOLEAN, data : Talk, pending : Nat]
  /\ port.start /\ port.pending > 0 => port.master \/ talkedOver

\* What the timers hold of the wait that is under way.
Clocks ==
  /\ timeout = told /\ told \in Nat /\ timeoutLeft \in Nat
  /\ com = "waitevent" =>
       /\ wait.listened + timeoutLeft <= told * FrameLines
       /\ wait.ended = "not"
       /\ wait.since >= Bounded(told * FrameLines - timeoutLeft, Horizon)
  /\ com \notin {"waitevent", "waitresp"} => wait = NotWaiting
WaitTyped == wait \in [since : 0..Horizon, listened : Nat, ended : {"not", "nothing"} \cup Events]

AirTyped == link \in Links /\ guest \in BOOLEAN /\ inbox \in Seq(Arriving)
DueTyped == due \in Seq(Talk)

WordsInv ==
  /\ AirTyped /\ DueTyped /\ WaitTyped /\ (~talkedOver => Coming)
  /\ Shape /\ Astray /\ PortShape /\ Clocks
  /\ RepliesInPlace /\ WaitIsKept

-----------------------------------------------------------------------------
(* Sequences of words                                                      *)

LEMMA TwoJoined ==
  ASSUME NEW S, NEW s \in Seq(S), NEW t \in Seq(S)
  PROVE  /\ s \o t \in Seq(S) /\ Len(s) \in Nat /\ Len(t) \in Nat
         /\ Len(s \o t) = Len(s) + Len(t)
         /\ \A k \in 1..Len(s) : (s \o t)[k] = s[k]
         /\ \A k \in 1..Len(t) : (s \o t)[Len(s) + k] = t[k]
<1>1. s \o t \in Seq(S) /\ Len(s) \in Nat /\ Len(t) \in Nat /\ Len(s \o t) = Len(s) + Len(t)
  BY ConcatProperties, LenProperties
<1>2. \A k \in 1..(Len(s) + Len(t)) : (s \o t)[k] = IF k <= Len(s) THEN s[k] ELSE t[k - Len(s)]
  BY ConcatProperties
<1>3. \A k \in 1..Len(s) : k \in 1..(Len(s) + Len(t)) /\ k <= Len(s)
  BY <1>1
<1>4. \A k \in 1..Len(t) : /\ Len(s) + k \in 1..(Len(s) + Len(t))
                           /\ ~(Len(s) + k <= Len(s)) /\ (Len(s) + k) - Len(s) = k
  BY <1>1
<1>5. QED
  BY <1>1, <1>2, <1>3, <1>4

LEMMA Alone ==
  ASSUME NEW S, NEW w \in S
  PROVE  <<w>> \in Seq(S) /\ Len(<<w>>) = 1 /\ <<w>>[1] = w
  OBVIOUS

LEMMA Ahead ==
  ASSUME NEW S, NEW w \in S, NEW t \in Seq(S)
  PROVE  /\ <<w>> \o t \in Seq(S) /\ Len(t) \in Nat
         /\ Len(<<w>> \o t) = 1 + Len(t)
         /\ (<<w>> \o t)[1] = w
         /\ \A k \in 1..Len(t) : (<<w>> \o t)[1 + k] = t[k]
<1>1. PICK s : s = <<w>>
  OBVIOUS
<1>2. s \in Seq(S) /\ Len(s) = 1 /\ s[1] = w
  BY <1>1, Alone
<1>3. /\ s \o t \in Seq(S) /\ Len(t) \in Nat
      /\ Len(s \o t) = Len(s) + Len(t)
      /\ \A k \in 1..Len(s) : (s \o t)[k] = s[k]
      /\ \A k \in 1..Len(t) : (s \o t)[Len(s) + k] = t[k]
  BY <1>2, TwoJoined
<1>4. (s \o t)[1] = w
  BY <1>2, <1>3
<1>5. QED
  BY <1>1, <1>2, <1>3, <1>4

LEMMA Behind ==
  ASSUME NEW S, NEW w \in S, NEW t \in Seq(S)
  PROVE  /\ t \o <<w>> \in Seq(S) /\ Len(t) \in Nat
         /\ Len(t \o <<w>>) = Len(t) + 1
         /\ (t \o <<w>>)[Len(t) + 1] = w
         /\ \A k \in 1..Len(t) : (t \o <<w>>)[k] = t[k]
<1>1. Append(t, w) = t \o <<w>>
  BY AppendIsConcat
<1>2. /\ Append(t, w) \in Seq(S) /\ Len(Append(t, w)) = Len(t) + 1 /\ Len(t) \in Nat
      /\ \A k \in 1..Len(t) : Append(t, w)[k] = t[k]
      /\ Append(t, w)[Len(t) + 1] = w
  BY AppendProperties, LenProperties
<1>3. QED
  BY <1>1, <1>2

LEMMA Empty ==
  ASSUME NEW S
  PROVE  <<>> \in Seq(S) /\ Len(<<>>) = 0
  OBVIOUS

LEMMA FirstOf ==
  ASSUME NEW S, NEW s \in Seq(S), Len(s) > 0
  PROVE  s[1] \in S
  OBVIOUS

LEMMA Taken ==
  ASSUME NEW S, NEW s \in Seq(S), Len(s) > 0
  PROVE  /\ s # <<>> /\ Head(s) = s[1] /\ Tail(s) \in Seq(S)
         /\ Len(s) \in Nat /\ Len(Tail(s)) = Len(s) - 1
         /\ \A k \in 1..(Len(s) - 1) : Tail(s)[k] = s[k + 1]
<1>1. s # <<>>
  OBVIOUS
<1>2. QED
  BY <1>1, HeadTailProperties, LenProperties

-----------------------------------------------------------------------------
(* What is said                                                            *)

LEMMA TalkHas ==
  /\ {Zero, Idle, Ones, Error, Firmware, <<"echo">>, <<"1">>, <<"0">>, <<"slot">>, <<"slots">>, <<"unanswered">>} \subseteq Talk
  /\ \A c \in Names, n \in Nat : Ack(c, n) \in Talk
  /\ \A k \in {"disconnected", "data", "timeout"}, n \in 0..1 : Event(k, n) \in Talk
  /\ \A n \in Nat : Length(n) \in Talk
  /\ \A c \in Names, l \in Links, g \in BOOLEAN : <<c, l, g>> \in Talk
  /\ Seq(STRING) \subseteq Talk
  BY DEF Talk

LEMMA SaysTyped ==
  ASSUME NEW kind \in Events
  PROVE  Says(kind) \in Seq(Talk) /\ Len(Says(kind)) \in 2..3
<1>1. /\ Event("disconnected", 1) \in Talk /\ Event("data", 0) \in Talk /\ Event("data", 1) \in Talk
      /\ Event("timeout", 0) \in Talk /\ <<"slots">> \in Talk /\ Idle \in Talk /\ <<"unanswered">> \in Talk
  BY TalkHas
<1>2. ASSUME NEW a \in Talk, NEW b \in Talk, NEW c \in Talk
      PROVE  /\ <<a, b>> \in Seq(Talk) /\ Len(<<a, b>>) = 2
             /\ <<a, b, c>> \in Seq(Talk) /\ Len(<<a, b, c>>) = 3
  OBVIOUS
<1>3. CASE kind = "gone"
  BY <1>1, <1>2, <1>3 DEF Says
<1>4. CASE kind = "data"
  BY <1>1, <1>2, <1>4 DEF Says
<1>5. CASE kind = "round"
  BY <1>1, <1>2, <1>5 DEF Says
<1>6. CASE kind = "timeout"
  BY <1>1, <1>2, <1>6 DEF Says
<1>7. QED
  BY <1>3, <1>4, <1>5, <1>6 DEF Events

\* An answer fits the buffer, and a command that gives the clock away has none.
LEMMA AnswerTyped ==
  ASSUME AirTyped, NEW c \in Names
  PROVE  /\ Answered(c) \in Seq(Talk) /\ Len(Answered(c)) \in 0..BufWords
         /\ c \in HandsOver => Len(Answered(c)) = 0
<1>0. BufWords \in Nat /\ BufWords >= 3
  BY WordsAssumption
<1>1. ASSUME Available
      PROVE  Head(inbox) \in Seq(Talk) /\ Len(Head(inbox)) \in Nat /\ Len(Head(inbox)) < BufWords
  <2>1. inbox \in Seq(Arriving) /\ inbox # <<>>
    BY <1>1 DEF AirTyped, Available
  <2>2. Head(inbox) \in Arriving
    BY <2>1
  <2>3. Head(inbox) \in Seq(Seq(STRING)) /\ Len(Head(inbox)) < BufWords
    BY <2>2, WordsAssumption
  <2>4. Len(Head(inbox)) \in Nat
    BY <2>3
  <2>5. Seq(STRING) \subseteq Talk
    BY TalkHas
  <2>6. Head(inbox) \in Seq(Talk)
    BY <2>3, <2>5, SeqMonotonic
  <2>7. QED
    BY <2>3, <2>4, <2>6
<1>2. ASSUME NEW w \in Talk, Answered(c) = <<w>>
      PROVE  Answered(c) \in Seq(Talk) /\ Len(Answered(c)) \in 0..BufWords
  <2>1. <<w>> \in Seq(Talk) /\ Len(<<w>>) = 1
    BY Alone
  <2>2. QED
    BY <1>0, <1>2, <2>1
<1>3. CASE c = "sysver"
  BY <1>2, <1>3, TalkHas DEF Answered, HandsOver
<1>4. CASE c = "recv" /\ Available
  <2> DEFINE b == Head(inbox)
  <2>1. b \in Seq(Talk) /\ Len(b) \in Nat /\ Len(b) < BufWords
    BY <1>1, <1>4
  <2>2. Length(Len(b)) \in Talk
    BY <2>1, TalkHas
  <2>3. Answered(c) = <<Length(Len(b))>> \o b
    BY <1>4 DEF Answered
  <2> HIDE DEF b
  <2>4. Answered(c) \in Seq(Talk) /\ Len(Answered(c)) = 1 + Len(b)
    BY <2>1, <2>2, <2>3, Alone, TwoJoined
  <2>5. QED
    BY <1>0, <1>4, <2>1, <2>4 DEF HandsOver
<1>5. CASE c = "recv" /\ ~Available /\ link \in {"client", "host"}
  <2>1. Answered(c) = <<Length(0)>> /\ Length(0) \in Talk
    BY <1>5, TalkHas DEF Answered
  <2>2. QED
    BY <1>2, <1>5, <2>1 DEF HandsOver
<1>6. CASE c \in {"sysstat", "linkpwr", "isconnected", "concompl"}
  <2>1. Answered(c) = << <<c, link, guest>> >>
    BY <1>6 DEF Answered
  <2>2. <<c, link, guest>> \in Talk
    BY TalkHas DEF AirTyped
  <2>3. QED
    BY <1>2, <1>6, <2>1, <2>2 DEF HandsOver
<1>7. CASE c = "slotstat" /\ link = "host"
  <2>1. Answered(c) = IF guest THEN << <<"1">>, <<"slot">> >> ELSE << <<"0">> >>
    BY <1>7 DEF Answered
  <2>2. <<"1">> \in Talk /\ <<"slot">> \in Talk /\ <<"0">> \in Talk
    BY TalkHas
  <2>3. << <<"1">>, <<"slot">> >> \in Seq(Talk) /\ Len(<< <<"1">>, <<"slot">> >>) = 2
    BY <2>2
  <2>4. QED
    <3>1. CASE guest
      <4>1. PICK s : s = << <<"1">>, <<"slot">> >>
        OBVIOUS
      <4>2. Answered(c) = s /\ s \in Seq(Talk) /\ Len(s) = 2
        BY <2>1, <2>3, <3>1, <4>1
      <4>3. 2 \in 0..BufWords /\ c \notin HandsOver
        BY <1>0, <1>7 DEF HandsOver
      <4>4. QED
        BY <4>2, <4>3
    <3>2. CASE ~guest
      BY <1>2, <1>7, <2>1, <2>2, <3>2 DEF HandsOver
    <3>3. QED
      BY <3>1, <3>2
<1>8. CASE c = "hostaccept" /\ guest
  <2>1. Answered(c) = << <<"slot">> >> /\ <<"slot">> \in Talk
    BY <1>8, TalkHas DEF Answered
  <2>2. QED
    BY <1>2, <1>8, <2>1 DEF HandsOver
<1>9. CASE /\ c # "sysver" /\ ~(c = "recv" /\ Available)
           /\ ~(c = "recv" /\ ~Available /\ link \in {"client", "host"})
           /\ c \notin {"sysstat", "linkpwr", "isconnected", "concompl"}
           /\ ~(c = "slotstat" /\ link = "host") /\ ~(c = "hostaccept" /\ guest)
  <2>1. Answered(c) = <<>>
    BY <1>9 DEF Answered
  <2>2. QED
    BY <1>0, <2>1, Empty
<1>10. QED
  BY <1>3, <1>4, <1>5, <1>6, <1>7, <1>8, <1>9
\* What a refusal and an answer are, word by word.
LEMMA PromisedTyped ==
  ASSUME AirTyped, NEW c \in Names, NEW n
  PROVE  /\ Promised(c, n) \in Seq(Talk)
         /\ Refused(c, n) => /\ Len(Promised(c, n)) = 2
                             /\ Promised(c, n)[1] = Error /\ Promised(c, n)[2] = <<"1">>
         /\ ~Refused(c, n) => /\ Len(Promised(c, n)) = Len(Answered(c)) + 1
                              /\ Promised(c, n)[1] = Ack(c, Len(Answered(c)))
                              /\ \A k \in 1..Len(Answered(c)) : Promised(c, n)[1 + k] = Answered(c)[k]
<1>1. CASE Refused(c, n)
  <2>1. Error \in Talk /\ <<"1">> \in Talk
    BY TalkHas
  <2>2. PICK e : e = Error
    OBVIOUS
  <2>3. PICK o : o = <<"1">>
    OBVIOUS
  <2>4. Promised(c, n) = <<e, o>>
    BY <1>1, <2>2, <2>3 DEF Promised
  <2>5. e \in Talk /\ o \in Talk
    BY <2>1, <2>2, <2>3
  <2>6. <<e, o>> \in Seq(Talk) /\ Len(<<e, o>>) = 2 /\ <<e, o>>[1] = e /\ <<e, o>>[2] = o
    BY <2>5
  <2>7. QED
    BY <1>1, <2>2, <2>3, <2>4, <2>6
<1>2. CASE ~Refused(c, n)
  <2>1. Answered(c) \in Seq(Talk) /\ Len(Answered(c)) \in Nat
    BY AnswerTyped, WordsAssumption
  <2>2. PICK a : a = Ack(c, Len(Answered(c)))
    OBVIOUS
  <2>3. a \in Talk
    BY <2>1, <2>2, TalkHas
  <2>4. Promised(c, n) = <<a>> \o Answered(c)
    BY <1>2, <2>2 DEF Promised
  <2>5. /\ <<a>> \o Answered(c) \in Seq(Talk)
        /\ Len(<<a>> \o Answered(c)) = 1 + Len(Answered(c))
        /\ (<<a>> \o Answered(c))[1] = a
        /\ \A k \in 1..Len(Answered(c)) : (<<a>> \o Answered(c))[1 + k] = Answered(c)[k]
    <3>1. PICK t : t = Answered(c)
      OBVIOUS
    <3>2. t \in Seq(Talk)
      BY <2>1, <3>1
    <3>3. QED
      BY <2>3, <3>1, <3>2, Ahead
  <2>6. Len(Promised(c, n)) = Len(Answered(c)) + 1
    BY <2>1, <2>4, <2>5
  <2>7. QED
    BY <1>2, <2>2, <2>4, <2>5, <2>6
<1>3. QED
  BY <1>1, <1>2

LEMMA Overwritten ==
  ASSUME NEW in, NEW out, NEW n \in Nat, Len(out) = n, n <= BufWords
  PROVE  /\ DOMAIN Over(in, out) = 1..BufWords
         /\ \A k \in 1..n : Over(in, out)[k] = out[k]
<1>1. BufWords \in Nat
  BY WordsAssumption
<1>2. QED
  BY <1>1 DEF Over

LEMMA SettingsTyped ==
  ASSUME NEW w \in Settings
  PROVE  w[2] \in Nat
  BY WordsAssumption

\* A command that has run: what is promised of it is what the adapter is about to say.
LEMMA Ran ==
  ASSUME AirTyped, timeout = told, told \in Nat, NEW c \in Names, NEW n, NEW in,
         DOMAIN in = 1..BufWords, c = "syscfg" => in[1] \in Settings,
         pos' = 0, guest' = guest, Run(c, n, in)
  PROVE  /\ com' \in {"respcmd", "resperr"} /\ Shape'
         /\ Left' = Len(Promised(c, n)) /\ \A k \in 1..Left' : Promised(c, n)[k] = Word(k)'
         /\ AirTyped' /\ timeout' = told' /\ told' \in Nat
<1> DEFINE a == Answered(c)  p == Promised(c, n)
<1>0. BufWords \in Nat /\ BufWords >= 3
  BY WordsAssumption
<1>1. a \in Seq(Talk) /\ Len(a) \in 0..BufWords /\ (c \in HandsOver => Len(a) = 0)
  BY AnswerTyped
<1>2. /\ Refused(c, n) => Len(p) = 2 /\ p[1] = Error /\ p[2] = <<"1">>
      /\ ~Refused(c, n) => /\ Len(p) = Len(a) + 1 /\ p[1] = Ack(c, Len(a))
                           /\ \A k \in 1..Len(a) : p[1 + k] = a[k]
  BY PromisedTyped
<1> HIDE DEF p
<1>3. CASE Refused(c, n)
  <2>1. /\ com' = "resperr" /\ cmd' = "1" /\ len' = 1 /\ buf' = in
        /\ UNCHANGED <<link, inbox, timeout, rtxMax, told>>
    BY <1>3 DEF Run
  <2>2. Shape'
    BY <2>1 DEF Shape, Places
  <2>3. Left' = 2 /\ Word(1)' = Error /\ Word(2)' = <<"1">>
    BY <2>1 DEF Left, Word
  <2>4. \A k \in 1..2 : p[k] = Word(k)'
    BY <1>2, <1>3, <2>3
  <2>5. AirTyped'
    BY <2>1 DEF AirTyped
  <2>6. QED
    BY <1>2, <1>3, <2>1, <2>2, <2>3, <2>4, <2>5 DEF p
<1>4. CASE ~Refused(c, n)
  <2>1. /\ com' = "respcmd" /\ cmd' = c /\ len' = Len(a) /\ buf' = Over(in, a)
        /\ Effect(c, in)
    BY <1>4 DEF Run
  <2>2. DOMAIN buf' = 1..BufWords /\ \A k \in 1..Len(a) : buf'[k] = a[k]
    BY <1>1, <2>1, Overwritten
  <2>3. Shape'
    BY <1>0, <1>1, <2>1, <2>2 DEF Shape, Places
  <2> HIDE DEF a
  <2>4. Left' = Len(a) + 1
    BY <2>1 DEF Left
  <2>5. \A k \in 1..(Len(a) + 1) : p[k] = Word(k)'
    <3>1. Word(1)' = Ack(c, Len(a))
      BY <2>1 DEF Word
    <3>2. \A k \in 1..Len(a) : Word(1 + k)' = a[k]
      <4>1. ASSUME NEW k \in 1..Len(a) PROVE Word(1 + k)' = a[k]
        <5>1. 1 + k # 1 /\ (1 + k) - 1 = k
          OBVIOUS
        <5>2. Word(1 + k)' = buf'[(1 + k) - 1]
          BY <2>1, <5>1 DEF Word
        <5>3. QED
          BY <2>2, <5>1, <5>2
      <4>2. QED
        BY <4>1
    <3>3. \A k \in 1..(Len(a) + 1) : k = 1 \/ \E j \in 1..Len(a) : k = 1 + j
      <4>1. ASSUME NEW k \in 1..(Len(a) + 1), k # 1 PROVE \E j \in 1..Len(a) : k = 1 + j
        <5>1. k - 1 \in 1..Len(a) /\ k = 1 + (k - 1)
          BY <1>1, <4>1
        <5>2. QED
          BY <5>1
      <4>2. QED
        BY <4>1
    <3>4. QED
      BY <1>2, <1>4, <3>1, <3>2, <3>3
  <2>6. AirTyped'
    <3>1. link' \in Links
      BY <2>1 DEF Effect, AirTyped, Links
    <3>2. inbox' \in Seq(Arriving)
      <4>1. inbox \in Seq(Arriving)
        BY DEF AirTyped
      <4>2. inbox # <<>> => Tail(inbox) \in Seq(Arriving)
        BY <4>1
      <4>3. CASE c = "recv" /\ Available /\ Head(inbox) # <<>>
        <5>1. inbox' = Tail(inbox)
          BY <2>1, <4>3 DEF Effect
        <5>2. QED
          BY <4>2, <4>3, <5>1 DEF Available
      <4>4. CASE ~(c = "recv" /\ Available /\ Head(inbox) # <<>>)
        <5>1. inbox' \in {inbox, <<>>}
          BY <2>1, <4>4 DEF Effect
        <5>2. QED
          BY <4>1, <5>1, Empty
      <4>5. QED
        BY <4>3, <4>4
    <3>3. QED
      BY <3>1, <3>2 DEF AirTyped
  <2>7. timeout' = told' /\ told' \in Nat
    <3>1. CASE c = "syscfg"
      BY <2>1, <3>1, SettingsTyped DEF Effect
    <3>2. CASE c # "syscfg"
      BY <2>1, <3>2 DEF Effect
    <3>3. QED
      BY <3>1, <3>2
  <2>8. QED
    BY <1>2, <1>4, <2>1, <2>3, <2>4, <2>5, <2>6, <2>7 DEF p
<1>5. QED
  BY <1>3, <1>4

-----------------------------------------------------------------------------
(* A word clocked by the game                                              *)

\* What a word exchanged leaves behind it: the reply, and what follows.
Goes ==
  /\ due' \in Seq(Talk) /\ Len(due') = 1 + Left'
  /\ due'[1] = ReplyWord
  /\ \A k \in 1..Left' : due'[1 + k] = Word(k)'
  /\ Shape' /\ AirTyped' /\ WaitTyped' /\ Clocks' /\ WaitIsKept'

\* Between words, and where the game speaks, nothing is due.
LEMMA Quiet ==
  ASSUME WordsInv, ~talkedOver, port.pending = 0
  PROVE  /\ Flying = 0 /\ Left \in Nat /\ Len(due) = Left
         /\ \A k \in 1..Left : due[k] = Word(k)
         /\ com \in {"reset", "handshake", "waitcmd", "waitdat", "waitevent"} => Left = 0 /\ due = <<>>
<1>1. Flying = 0
  BY DEF Flying
<1>2. Left \in Nat
  BY DEF WordsInv, Shape, Left
<1>3. Len(due) = Left /\ \A k \in 1..Left : due[k] = Word(k)
  <2>1. Len(due) = 0 + Left /\ \A k \in 1..Left : due[0 + k] = Word(k)
    BY <1>1 DEF WordsInv, Coming
  <2>2. \A k \in 1..Left : 0 + k = k
    OBVIOUS
  <2>3. QED
    BY <1>2, <2>1, <2>2
<1>4. ASSUME com \in {"reset", "handshake", "waitcmd", "waitdat", "waitevent"}
      PROVE  Left = 0 /\ due = <<>>
  <2>1. Left = 0
    BY <1>4 DEF Left
  <2>2. due \in Seq(Talk) /\ Len(due) = 0
    BY <1>3, <2>1 DEF WordsInv, DueTyped
  <2>3. QED
    BY <2>1, <2>2
<1>5. QED
  BY <1>1, <1>2, <1>3, <1>4

LEMMA Product ==
  ASSUME NEW a \in Nat, NEW b \in Nat
  PROVE  a * b \in Nat
  OBVIOUS

LEMMA HorizonNat == Horizon \in Nat /\ Horizon > 0
<1>1. DefTimeout * FrameLines \in Nat
  BY WordsAssumption, Product
<1>2. QED
  BY <1>1 DEF Horizon

LEMMA NotWaitingTyped ==
  NotWaiting \in [since : 0..Horizon, listened : Nat, ended : {"not", "nothing"} \cup Events]
<1>1. Horizon \in Nat /\ Horizon > 0
  BY HorizonNat
<1>2. QED
  BY <1>1 DEF NotWaiting

\* A wait that is over, and one that has not begun, keep to any configuration.
LEMMA NoWaitKeeps ==
  ASSUME timeout' = told', told' \in Nat, timeoutLeft' \in Nat,
         com' \notin {"waitevent", "waitresp"}, wait' = NotWaiting
  PROVE  WaitTyped' /\ Clocks' /\ WaitIsKept'
<1>1. WaitTyped'
  BY NotWaitingTyped DEF WaitTyped
<1>2. Clocks'
  BY DEF Clocks
<1>3. WaitIsKept'
  BY DEF WaitIsKept, NotWaiting
<1>4. QED
  BY <1>1, <1>2, <1>3

LEMMA SpeaksGoes ==
  ASSUME WordsInv, ~talkedOver, port.pending = 0, UNCHANGED guest, NEW sent,
         Wakes(sent) \/ Shakes(sent) \/ Ignores(sent)
  PROVE  Goes
<1>1. /\ com \in {"reset", "handshake", "waitcmd"} /\ com' \in {"reset", "handshake", "waitcmd", "waitdat"}
      /\ com' # "waitdat" /\ due' = due \o <<ReplyWord>> /\ NothingElse /\ NoWait
  BY DEF Wakes, Shakes, Ignores, ReplyWord
<1>2. ReplyWord \in Talk
  BY <1>1, TalkHas DEF ReplyWord
<1>3. due = <<>> /\ due \in Seq(Talk) /\ Len(due) = 0
  BY <1>1, Quiet DEF WordsInv, DueTyped
<1>4. due' \in Seq(Talk) /\ Len(due') = 1 /\ due'[1] = ReplyWord
  <2>1. PICK r : r = ReplyWord
    OBVIOUS
  <2>2. r \in Talk /\ due' = due \o <<r>>
    BY <1>1, <1>2, <2>1
  <2>3. due' \in Seq(Talk) /\ Len(due') = Len(due) + 1 /\ due'[Len(due) + 1] = r
    BY <1>3, <2>2, Behind
  <2>4. QED
    BY <1>3, <2>1, <2>3
<1>5. Left' = 0
  BY <1>1 DEF Left
<1>6. Shape'
  BY <1>1 DEF NothingElse, WordsInv, Shape, Places
<1>7. AirTyped'
  BY <1>1 DEF NothingElse, SessionKept, WordsInv, AirTyped
<1>8. WaitTyped' /\ Clocks' /\ WaitIsKept'
  <2>1. wait = NotWaiting /\ timeout = told /\ told \in Nat /\ timeoutLeft \in Nat
    BY <1>1 DEF WordsInv, Clocks
  <2>2. QED
    BY <1>1, <2>1, NoWaitKeeps DEF NothingElse, SessionKept, NoWait
<1>9. QED
  BY <1>4, <1>5, <1>6, <1>7, <1>8 DEF Goes

\* A command that has run, after the word that completed it.
LEMMA RanGoes ==
  ASSUME WordsInv, UNCHANGED guest, ReplyWord = Idle, NEW c \in Names, NEW n, NEW in,
         com \in {"waitcmd", "waitdat"}, DOMAIN in = 1..BufWords, c = "syscfg" => in[1] \in Settings,
         pos' = 0, Run(c, n, in), due' = <<>> \o <<Idle>> \o Promised(c, n), NoWait
  PROVE  Goes
<1>1. AirTyped /\ timeout = told /\ told \in Nat /\ timeoutLeft \in Nat /\ wait = NotWaiting
  BY DEF WordsInv, Clocks
<1>2. /\ com' \in {"respcmd", "resperr"} /\ Shape'
      /\ Left' = Len(Promised(c, n)) /\ \A k \in 1..Left' : Promised(c, n)[k] = Word(k)'
      /\ AirTyped' /\ timeout' = told' /\ told' \in Nat
  BY <1>1, Ran
<1>3. Promised(c, n) \in Seq(Talk)
  BY <1>1, PromisedTyped
<1>4. due' = <<Idle>> \o Promised(c, n)
  <2>2. Idle \in Talk
    BY TalkHas
  <2>3. PICK s : s = <<Idle>>
    OBVIOUS
  <2>4. s \in Seq(Talk)
    BY <2>2, <2>3, Alone
  <2>5. <<>> \o s = s
    BY <2>4, ConcatEmptySeq
  <2>6. QED
    BY <2>3, <2>5
<1>5. /\ due' \in Seq(Talk) /\ Len(due') = 1 + Len(Promised(c, n)) /\ due'[1] = Idle
      /\ \A k \in 1..Len(Promised(c, n)) : due'[1 + k] = Promised(c, n)[k]
  <2>1. PICK t : t = Promised(c, n)
    OBVIOUS
  <2>2. PICK w : w = Idle
    OBVIOUS
  <2>3. t \in Seq(Talk) /\ w \in Talk /\ due' = <<w>> \o t
    BY <1>3, <1>4, <2>1, <2>2, TalkHas
  <2>4. /\ due' \in Seq(Talk) /\ Len(due') = 1 + Len(t) /\ due'[1] = w
        /\ \A k \in 1..Len(t) : due'[1 + k] = t[k]
    <3>1. /\ <<w>> \o t \in Seq(Talk) /\ Len(<<w>> \o t) = 1 + Len(t) /\ (<<w>> \o t)[1] = w
          /\ \A k \in 1..Len(t) : (<<w>> \o t)[1 + k] = t[k]
      BY <2>3, Ahead
    <3>2. QED
      BY <2>3, <3>1
  <2>5. QED
    BY <2>1, <2>2, <2>4
<1>6. WaitTyped' /\ Clocks' /\ WaitIsKept'
  BY <1>1, <1>2, NoWaitKeeps DEF NoWait
<1>7. QED
  BY <1>2, <1>5, <1>6 DEF Goes

\* A word of which more are to come, and the command that goes with them.
LEMMA WaitsGoes ==
  ASSUME WordsInv, UNCHANGED guest, ReplyWord = Idle,
         com \in {"waitcmd", "waitdat"}, com' = "waitdat", Shape',
         due' = <<>> \o <<Idle>>, SessionKept, NoWait
  PROVE  Goes
<1>2. due' \in Seq(Talk) /\ Len(due') = 1 /\ due'[1] = Idle
  <2>1. PICK r : r = Idle
    OBVIOUS
  <2>2. r \in Talk /\ due' = <<>> \o <<r>>
    BY <2>1, TalkHas
  <2>3. <<r>> \in Seq(Talk) /\ Len(<<r>>) = 1 /\ <<r>>[1] = r
    BY <2>2, Alone
  <2>4. due' = <<r>>
    BY <2>2, <2>3, ConcatEmptySeq
  <2>5. QED
    BY <2>1, <2>3, <2>4
<1>3. Left' = 0
  BY DEF Left
<1>4. AirTyped'
  BY DEF SessionKept, WordsInv, AirTyped
<1>5. WaitTyped' /\ Clocks' /\ WaitIsKept'
  <2>1. wait = NotWaiting /\ timeout = told /\ told \in Nat /\ timeoutLeft \in Nat
    BY DEF WordsInv, Clocks
  <2>2. QED
    BY <2>1, NoWaitKeeps DEF SessionKept, NoWait
<1>6. QED
  BY <1>2, <1>3, <1>4, <1>5 DEF Goes

\* What the game says: a command it issues, and for SYSCFG a setting.
LEMMA SaidIs ==
  ASSUME NEW sent \in Said
  PROVE  /\ (com = "waitcmd" /\ IsCommandWord(sent)) =>
              sent[2] \in Names /\ sent[3] \in Nat /\ (sent[2] = "syscfg" => sent[3] > 0)
         /\ (com = "waitdat" /\ cmd = "syscfg") => sent \in Settings
<1>1. ASSUME com = "waitcmd", IsCommandWord(sent)
      PROVE  sent[2] \in Names /\ sent[3] \in Nat /\ (sent[2] = "syscfg" => sent[3] > 0)
  <2>1. sent \in {CommandWord(i[1], i[2]) : i \in Issued} \cup {Zero}
    BY <1>1 DEF Said
  <2>2. sent # Zero
    BY <1>1 DEF IsCommandWord, Zero
  <2>3. PICK i \in Issued : sent = CommandWord(i[1], i[2])
    BY <2>1, <2>2
  <2>4. sent[2] = i[1] /\ sent[3] = i[2]
    BY <2>3 DEF CommandWord
  <2>5. QED
    BY <2>4, WordsAssumption DEF Names
<1>2. (com = "waitdat" /\ cmd = "syscfg") => sent \in Settings
  BY DEF Said
<1>3. QED
  BY <1>1, <1>2

LEMMA TakesCommandGoes ==
  ASSUME WordsInv, port.pending = 0, UNCHANGED guest, NEW sent \in Said, TakesCommand(sent)
  PROVE  Goes
<1>1. /\ com = "waitcmd" /\ IsCommandWord(sent) /\ pos' = 0 /\ NoWait
      /\ ReplyWord = Idle
  BY DEF TakesCommand, ReplyWord
<1>0. Owed = <<>>
  BY <1>1, Quiet DEF Owed, WordsInv, Astray
<1>2. sent[2] \in Names /\ sent[3] \in Nat /\ (sent[2] = "syscfg" => sent[3] > 0)
  BY <1>1, SaidIs
<1>3. CASE sent[3] = 0
  <2>1. Run(sent[2], 0, buf) /\ due' = <<>> \o <<Idle>> \o Promised(sent[2], 0)
    BY <1>0, <1>3 DEF TakesCommand
  <2>2. DOMAIN buf = 1..BufWords /\ sent[2] # "syscfg"
    BY <1>2, <1>3 DEF WordsInv, Shape
  <2>3. QED
    BY <1>1, <1>2, <2>1, <2>2, RanGoes
<1>4. CASE sent[3] # 0
  <2>1. /\ com' = "waitdat" /\ cmd' = sent[2] /\ len' = sent[3] /\ due' = <<>> \o <<Idle>>
        /\ UNCHANGED buf /\ SessionKept
    BY <1>0, <1>4 DEF TakesCommand
  <2>2. Shape'
    BY <1>1, <1>2, <1>4, <2>1 DEF WordsInv, Shape, Places
  <2>3. QED
    BY <1>1, <2>1, <2>2, WaitsGoes
<1>5. QED
  BY <1>3, <1>4

LEMMA TakesPayloadGoes ==
  ASSUME WordsInv, ~talkedOver, port.pending = 0, UNCHANGED guest, NEW sent \in Said, TakesPayload(sent)
  PROVE  Goes
<1> DEFINE in == [buf EXCEPT ![pos + 1] = sent]
<1>1. /\ com = "waitdat" /\ NoWait /\ ReplyWord = Idle
      /\ cmd \in Names /\ pos \in Nat /\ len \in Nat /\ pos < len
      /\ DOMAIN buf = 1..BufWords /\ BufWords \in Nat /\ BufWords >= 3
  BY WordsAssumption DEF TakesPayload, ReplyWord, WordsInv, Shape
<1>0. due = <<>>
  BY <1>1, Quiet
<1>2. DOMAIN in = 1..BufWords
  BY <1>1
<1>3. cmd = "syscfg" => in[1] \in Settings
  <2>1. cmd = "syscfg" => sent \in Settings /\ (pos > 0 => buf[1] \in Settings)
    BY <1>1, SaidIs DEF WordsInv, Shape
  <2>2. 1 \in DOMAIN buf
    BY <1>1
  <2>3. in[1] = IF pos = 0 THEN sent ELSE buf[1]
    BY <1>1, <2>2
  <2>4. QED
    BY <1>1, <2>1, <2>3
<1>4. CASE pos + 1 >= len
  <2>1. pos' = 0 /\ Run(cmd, len, in) /\ due' = <<>> \o <<Idle>> \o Promised(cmd, len)
    BY <1>0, <1>4 DEF TakesPayload
  <2> HIDE DEF in
  <2>2. QED
    BY <1>1, <1>2, <1>3, <2>1, RanGoes
<1>5. CASE ~(pos + 1 >= len)
  <2>1. /\ pos' = pos + 1 /\ buf' = in /\ due' = <<>> \o <<Idle>>
        /\ UNCHANGED <<com, cmd, len>> /\ SessionKept
    BY <1>0, <1>5 DEF TakesPayload
  <2> HIDE DEF in
  <2>2. Shape'
    <3>1. pos' < len' /\ pos' \in Nat /\ len' \in Nat
      BY <1>1, <1>5, <2>1
    <3>2. QED
      BY <1>1, <1>2, <1>3, <2>1, <3>1 DEF Shape, Places
  <2>3. QED
    BY <1>1, <2>1, <2>2, WaitsGoes
<1>6. QED
  BY <1>4, <1>5

\* The rest of the adapter's state, where a word changes none of it.
LEMMA KeepsSession ==
  ASSUME WordsInv, UNCHANGED guest, SessionKept
  PROVE  AirTyped' /\ timeout' = told' /\ told' \in Nat
  BY DEF WordsInv, AirTyped, Clocks, SessionKept

LEMMA AcksGoes ==
  ASSUME WordsInv, ~talkedOver, port.pending = 0, UNCHANGED guest, Acks
  PROVE  Goes
<1>1. /\ com = "respcmd" /\ due' = due /\ NothingElse /\ ReplyWord = Ack(cmd, len)
      /\ pos = 0 /\ len \in Nat /\ len <= BufWords /\ (cmd \in HandsOver => len = 0)
  BY DEF Acks, ReplyWord, WordsInv, Shape
<1>2. due \in Seq(Talk) /\ Len(due) = len + 1 /\ due[1] = ReplyWord
      /\ \A k \in 1..len : due[1 + k] = buf[k]
  <2>1. Left = len + 1 /\ Word(1) = Ack(cmd, len)
    BY <1>1 DEF Left, Word
  <2>2. ASSUME NEW k \in 1..len PROVE 1 + k \in 1..Left /\ Word(1 + k) = buf[k]
    <3>1. 1 + k \in 1..Left /\ 1 + k # 1 /\ (1 + k) - 1 = k
      BY <1>1, <2>1
    <3>2. Word(1 + k) = buf[(1 + k) - 1]
      BY <1>1, <3>1 DEF Word
    <3>3. QED
      BY <3>1, <3>2
  <2>3. 1 \in 1..Left
    BY <1>1, <2>1
  <2>4. Len(due) = Left /\ \A k \in 1..Left : due[k] = Word(k)
    BY Quiet
  <2>5. due \in Seq(Talk)
    BY DEF WordsInv, DueTyped
  <2>6. QED
    BY <1>1, <2>1, <2>2, <2>3, <2>4, <2>5
<1>3. AirTyped' /\ timeout' = told' /\ told' \in Nat
  BY <1>1, KeepsSession DEF NothingElse
<1>4. UNCHANGED <<cmd, len, pos, buf>>
  BY <1>1 DEF NothingElse
<1>5. CASE cmd \in HandsOver
  <2>1. /\ com' = "waitevent"
        /\ timeoutLeft' = timeout * FrameLines /\ wait' = NotWaiting /\ told' = told
    BY <1>1, <1>5 DEF Acks, NothingElse, SessionKept
  <2>2. Left' = 0
    BY <2>1 DEF Left
  <2>3. Shape'
    BY <1>4, <2>1 DEF WordsInv, Shape, Places
  <2>4. WaitTyped'
    BY <2>1, NotWaitingTyped DEF WaitTyped
  <2>5. Clocks'
    <3> DEFINE n == told * FrameLines
    <3>1. n \in Nat /\ timeout = told /\ Horizon \in Nat /\ Horizon > 0
      <4>1. told \in Nat /\ timeout = told /\ FrameLines \in Nat
        BY WordsAssumption DEF WordsInv, Clocks
      <4>2. QED
        BY <4>1, Product, HorizonNat
    <3>2. timeoutLeft' = n /\ told' * FrameLines = n
      BY <2>1, <3>1
    <3> HIDE DEF n
    <3>3. NotWaiting.listened + n <= n /\ NotWaiting.since >= Bounded(n - n, Horizon) /\ NotWaiting.ended = "not"
      BY <3>1 DEF NotWaiting, Bounded
    <3>4. /\ wait'.listened + timeoutLeft' <= told' * FrameLines
          /\ wait'.since >= Bounded(told' * FrameLines - timeoutLeft', Horizon)
          /\ wait'.ended = "not"
      BY <2>1, <3>2, <3>3
    <3>5. Horizon' = Horizon /\ timeoutLeft' \in Nat
      BY <3>1, <3>2 DEF Horizon
    <3>6. QED
      BY <1>3, <2>1, <3>4, <3>5 DEF Clocks
  <2>6. WaitIsKept'
    BY <2>1 DEF WaitIsKept, NotWaiting
  <2>7. due' \in Seq(Talk) /\ Len(due') = 1 + Left' /\ due'[1] = ReplyWord
    BY <1>1, <1>2, <1>5, <2>2
  <2>8. \A k \in 1..Left' : due'[1 + k] = Word(k)'
    BY <2>2
  <2>9. QED
    BY <1>3, <2>3, <2>4, <2>5, <2>6, <2>7, <2>8 DEF Goes
<1>6. CASE cmd \notin HandsOver
  <2>1. com' = (IF len > 0 THEN "respdat" ELSE "waitcmd") /\ NoWait
    BY <1>1, <1>6 DEF Acks
  <2>2. WaitTyped' /\ Clocks' /\ WaitIsKept'
    <3>1. wait = NotWaiting /\ timeoutLeft \in Nat
      BY <1>1 DEF WordsInv, Clocks
    <3>2. QED
      BY <1>3, <2>1, <3>1, NoWaitKeeps DEF NoWait
  <2>3. Shape'
    BY <1>1, <1>4, <2>1 DEF WordsInv, Shape, Places
  <2>4. Left' = len
    <3>1. CASE len > 0
      BY <1>1, <1>4, <2>1, <3>1 DEF Left
    <3>2. CASE ~(len > 0)
      BY <1>1, <1>4, <2>1, <3>2 DEF Left
    <3>3. QED
      BY <3>1, <3>2
  <2>5. ASSUME NEW k \in 1..len PROVE Word(k)' = buf[k]
    <3>1. com' = "respdat" /\ 0 + k = k
      BY <1>1, <2>1, <2>5
    <3>2. Word(k)' = buf'[pos' + k]
      BY <3>1 DEF Word
    <3>3. QED
      BY <1>1, <1>4, <3>1, <3>2
  <2>6. Len(due') = 1 + len
    BY <1>1, <1>2
  <2>7. QED
    BY <1>1, <1>2, <1>3, <2>2, <2>3, <2>4, <2>5, <2>6 DEF Goes
<1>7. QED
  BY <1>5, <1>6

LEMMA RespondsGoes ==
  ASSUME WordsInv, ~talkedOver, port.pending = 0, UNCHANGED guest, Responds
  PROVE  Goes
<1>1. /\ com = "respdat" /\ due' = due /\ SessionKept /\ NoWait /\ ReplyWord = buf[pos + 1]
      /\ com' = (IF pos + 1 >= len THEN "waitcmd" ELSE com)
      /\ pos' = pos + 1 /\ UNCHANGED <<cmd, len, buf>>
      /\ pos \in Nat /\ len \in Nat /\ pos < len /\ len <= BufWords
  BY DEF Responds, ReplyWord, WordsInv, Shape
<1>2. due \in Seq(Talk) /\ Len(due) = len - pos /\ \A k \in 1..(len - pos) : due[k] = buf[pos + k]
  <2>1. Left = len - pos /\ \A k : Word(k) = buf[pos + k]
    BY <1>1 DEF Left, Word
  <2>2. QED
    BY <2>1, Quiet DEF WordsInv, DueTyped
<1>3. due[1] = ReplyWord
  <2>1. 1 \in 1..(len - pos)
    BY <1>1
  <2>2. QED
    BY <1>1, <1>2, <2>1
<1>4. Left' = (len - pos) - 1
  <2>1. CASE pos + 1 >= len
    BY <1>1, <2>1 DEF Left
  <2>2. CASE ~(pos + 1 >= len)
    BY <1>1, <2>2 DEF Left
  <2>3. QED
    BY <2>1, <2>2
<1>5. ASSUME NEW k \in 1..Left' PROVE due'[1 + k] = Word(k)'
  <2>1. k \in 1..((len - pos) - 1)
    BY <1>4, <1>5
  <2>2. 1 + k \in 1..(len - pos) /\ pos + (1 + k) = (pos + 1) + k /\ ~(pos + 1 >= len)
    BY <1>1, <2>1
  <2>3. Word(k)' = buf[(pos + 1) + k]
    BY <1>1, <2>2 DEF Word
  <2>4. due[1 + k] = buf[pos + (1 + k)]
    BY <1>2, <2>2
  <2>5. QED
    BY <1>1, <2>2, <2>3, <2>4
<1>6. Shape'
  BY <1>1 DEF WordsInv, Shape, Places
<1>7. AirTyped' /\ timeout' = told' /\ told' \in Nat
  BY <1>1, KeepsSession
<1>8. WaitTyped' /\ Clocks' /\ WaitIsKept'
  <2>1. wait = NotWaiting /\ timeoutLeft \in Nat
    BY <1>1 DEF WordsInv, Clocks
  <2>2. QED
    BY <1>1, <1>7, <2>1, NoWaitKeeps DEF NoWait
<1>9. Len(due') = 1 + Left'
  BY <1>1, <1>2, <1>4
<1>10. QED
  BY <1>1, <1>2, <1>3, <1>5, <1>6, <1>7, <1>8, <1>9 DEF Goes

LEMMA RefusesGoes ==
  ASSUME WordsInv, ~talkedOver, port.pending = 0, UNCHANGED guest, Refuses
  PROVE  Goes
<1>1. /\ com \in {"resperr", "resperr2"} /\ due' = due /\ NothingElse /\ NoWait
      /\ com' = (IF com = "resperr" THEN "resperr2" ELSE "waitcmd") /\ cmd = "1" /\ cmd' = "1"
  BY DEF Refuses, WordsInv, Shape, NothingElse
<1>2. due \in Seq(Talk) /\ Len(due) = Left /\ \A k \in 1..Left : due[k] = Word(k)
  BY Quiet DEF WordsInv, DueTyped
<1>3. Shape'
  BY <1>1 DEF WordsInv, Shape, Places, NothingElse
<1>4. AirTyped' /\ timeout' = told' /\ told' \in Nat
  BY <1>1, KeepsSession DEF NothingElse
<1>5. WaitTyped' /\ Clocks' /\ WaitIsKept'
  <2>1. wait = NotWaiting /\ timeoutLeft \in Nat
    BY <1>1 DEF WordsInv, Clocks
  <2>2. QED
    BY <1>1, <1>4, <2>1, NoWaitKeeps DEF NoWait
<1>6. CASE com = "resperr"
  <2>1. Left = 2 /\ Left' = 1 /\ Word(1) = Error /\ Word(2) = <<"1">> /\ Word(1)' = <<"1">> /\ ReplyWord = Error
    BY <1>1, <1>6 DEF Left, Word, ReplyWord
  <2>2. Len(due) = 2 /\ due[1] = Error /\ due[2] = <<"1">>
    BY <1>2, <2>1
  <2>3. \A k \in 1..1 : due'[1 + k] = Word(k)'
    BY <1>1, <2>1, <2>2
  <2>4. QED
    BY <1>1, <1>2, <1>3, <1>4, <1>5, <2>1, <2>2, <2>3 DEF Goes
<1>7. CASE com = "resperr2"
  <2>1. Left = 1 /\ Left' = 0 /\ Word(1) = <<"1">> /\ ReplyWord = <<"1">>
    BY <1>1, <1>7 DEF Left, Word, ReplyWord
  <2>2. Len(due) = 1 /\ due[1] = <<"1">>
    BY <1>2, <2>1
  <2>3. QED
    BY <1>1, <1>2, <1>3, <1>4, <1>5, <2>1, <2>2 DEF Goes
<1>8. QED
  BY <1>1, <1>6, <1>7

LEMMA CollidesGoes ==
  ASSUME WordsInv, ~talkedOver, port.pending = 0, UNCHANGED guest, Collides
  PROVE  Goes
<1>1. /\ com \in {"waitevent", "waitresp"} /\ due' = <<Idle>> \o due /\ NothingElse /\ NoWait
      /\ com' = com /\ ReplyWord = Idle
  BY DEF Collides, ReplyWord
<1>2. due \in Seq(Talk) /\ Len(due) = Left /\ Left \in Nat /\ \A k \in 1..Left : due[k] = Word(k)
  BY Quiet DEF WordsInv, DueTyped
<1>3. UNCHANGED <<cmd, len, pos, buf, link, inbox, timeout, told, timeoutLeft, wait>>
  BY <1>1 DEF NothingElse, SessionKept, NoWait
<1>4. Left' = Left /\ \A k : Word(k)' = Word(k)
  BY <1>1, <1>3 DEF Left, Word
<1>5. Shape'
  BY <1>1, <1>3 DEF WordsInv, Shape
<1>6. AirTyped' /\ WaitTyped'
  BY <1>3 DEF WordsInv, AirTyped, WaitTyped
<1>7. Clocks' /\ WaitIsKept'
  BY <1>1, <1>3 DEF WordsInv, Clocks, WaitIsKept, Horizon
<1>8. /\ due' \in Seq(Talk) /\ Len(due') = 1 + Len(due) /\ due'[1] = Idle
      /\ \A k \in 1..Len(due) : due'[1 + k] = due[k]
  <2>1. PICK w : w = Idle
    OBVIOUS
  <2>2. w \in Talk /\ due' = <<w>> \o due
    BY <1>1, <2>1, TalkHas
  <2>3. /\ <<w>> \o due \in Seq(Talk) /\ Len(<<w>> \o due) = 1 + Len(due) /\ (<<w>> \o due)[1] = w
        /\ \A k \in 1..Len(due) : (<<w>> \o due)[1 + k] = due[k]
    BY <1>2, <2>2, Ahead
  <2>4. QED
    BY <2>1, <2>2, <2>3
<1>9. QED
  BY <1>1, <1>2, <1>4, <1>5, <1>6, <1>7, <1>8 DEF Goes

\* Only a command puts a game that was talked over in step again.
LEMMA ExchangeStrays ==
  ASSUME WordsInv, NEW sent \in Said, Exchange(sent)
  PROVE  /\ Astray' /\ (talkedOver' => talkedOver)
         /\ talkedOver /\ ~talkedOver' => TakesCommand(sent)
<1>1. Astray
  BY DEF WordsInv
<1>2. CASE Wakes(sent) \/ Shakes(sent) \/ Acks \/ Responds \/ Refuses
  BY <1>1, <1>2 DEF Astray, Wakes, Shakes, Acks, Responds, Refuses, NothingElse
<1>3. CASE Ignores(sent) \/ Collides
  BY <1>1, <1>3 DEF Astray, Ignores, Collides, NothingElse
<1>4. CASE TakesCommand(sent)
  BY <1>4 DEF Astray, TakesCommand, Run
<1>5. CASE TakesPayload(sent)
  BY <1>1, <1>5 DEF Astray, TakesPayload, Run
<1>6. QED
  BY <1>2, <1>3, <1>4, <1>5 DEF Exchange

LEMMA ExchangeGoes ==
  ASSUME WordsInv, port.pending = 0, UNCHANGED guest, NEW sent \in Said, Exchange(sent), ~talkedOver'
  PROVE  Goes
<1>1. CASE TakesCommand(sent)
  BY <1>1, TakesCommandGoes
<1>2. CASE ~TakesCommand(sent)
  <2>1. ~talkedOver
    BY <1>2, ExchangeStrays
  <2>2. QED
    BY <1>2, <2>1, SpeaksGoes, TakesPayloadGoes, AcksGoes, RespondsGoes, RefusesGoes, CollidesGoes
       DEF Exchange
<1>3. QED
  BY <1>1, <1>2

\* A word clocked by a game that stays out of step changes nothing that lasts.
LEMMA ExchangeAstray ==
  ASSUME WordsInv, UNCHANGED guest, NEW sent \in Said, Exchange(sent), talkedOver'
  PROVE  /\ ReplyWord = Idle /\ due' \in Seq(Talk)
         /\ AirTyped' /\ Shape' /\ WaitTyped' /\ Clocks' /\ WaitIsKept'
<1>1. /\ com \in {"waitcmd", "waitresp"} /\ (Ignores(sent) \/ Collides)
  <2>1. talkedOver /\ Astray
    BY ExchangeStrays DEF WordsInv
  <2>2. ~TakesCommand(sent)
    BY DEF TakesCommand
  <2>3. QED
    BY <2>1, <2>2 DEF Astray, Exchange, Wakes, Shakes, TakesPayload, Acks, Responds, Refuses
<1>2. /\ com' = com /\ NothingElse /\ NoWait
      /\ due' = due \o <<Idle>> \/ due' = <<Idle>> \o due
  BY <1>1 DEF Ignores, Collides
<1>3. UNCHANGED <<cmd, len, pos, buf, link, inbox, timeout, told, timeoutLeft, wait>>
  BY <1>2 DEF NothingElse, SessionKept, NoWait
<1>4. due' \in Seq(Talk)
  <2>1. PICK w : w = Idle
    OBVIOUS
  <2>2. w \in Talk /\ due \in Seq(Talk) /\ (due' = due \o <<w>> \/ due' = <<w>> \o due)
    BY <1>2, <2>1, TalkHas DEF WordsInv, DueTyped
  <2>3. QED
    BY <2>2, Ahead, Behind
<1>5. AirTyped' /\ WaitTyped' /\ Shape'
  BY <1>2, <1>3 DEF WordsInv, AirTyped, WaitTyped, Horizon, Shape
<1>6. Clocks' /\ WaitIsKept'
  BY <1>2, <1>3 DEF WordsInv, Clocks, WaitIsKept, Horizon
<1>7. QED
  BY <1>1, <1>4, <1>5, <1>6 DEF ReplyWord

-----------------------------------------------------------------------------
(* The serial port                                                         *)

\* What a game that was talked over takes is not held to its place.
LEMMA HearsAstray ==
  ASSUME WordsInv, talkedOver', NEW w, Hears(w, due)
  PROVE  DueTyped' /\ RepliesInPlace'
<1>1. due \in Seq(Talk) /\ inPlace
  BY DEF WordsInv, DueTyped, RepliesInPlace
<1>2. due # <<>> => Tail(due) \in Seq(Talk)
  BY <1>1
<1>3. due' = (IF due = <<>> THEN <<>> ELSE Tail(due)) /\ inPlace'
  BY <1>1 DEF Hears
<1>4. due' \in Seq(Talk)
  BY <1>2, <1>3, Empty
<1>5. QED
  BY <1>3, <1>4 DEF DueTyped, RepliesInPlace

LEMMA StoreControlKeeps ==
  ASSUME WordsInv, StoreControl
  PROVE  WordsInv'
<1>1. PICK master \in BOOLEAN, so \in BOOLEAN, start \in BOOLEAN :
        LET set == [port EXCEPT !.master = master, !.so = so, !.si = Si(master, so), !.start = start]
        IN  /\ start => port.pending = 0 \/ (talkedOver /\ ~port.start)
            /\ \/ /\ start /\ master /\ port.pending = 0
                  /\ \E sent \in Said : Exchange(sent)
                  /\ port' = [set EXCEPT !.data = ReplyWord, !.pending = WordLines]
                  /\ UNCHANGED inPlace
               \/ /\ start /\ master /\ port.pending # 0
                  /\ port' = [set EXCEPT !.start = FALSE, !.si = TRUE, !.data = Ones]
                  /\ Rest /\ Hears(Ones, due)
               \/ ~(start /\ master) /\ port' = set /\ Rest /\ UNCHANGED <<due, inPlace>>
            /\ UNCHANGED <<guest, airs, resets>>
  BY DEF StoreControl
<1> DEFINE set == [port EXCEPT !.master = master, !.so = so, !.si = Si(master, so), !.start = start]
<1>2. /\ port \in [master : BOOLEAN, so : BOOLEAN, si : BOOLEAN, start : BOOLEAN, data : Talk, pending : Nat]
      /\ Si(master, so) \in BOOLEAN
  <2>1. port \in [master : BOOLEAN, so : BOOLEAN, si : BOOLEAN, start : BOOLEAN, data : Talk, pending : Nat]
    BY DEF WordsInv, PortShape
  <2>2. port.si \in BOOLEAN
    BY <2>1
  <2>3. QED
    BY <2>1, <2>2 DEF Si
<1>3. /\ set \in [master : BOOLEAN, so : BOOLEAN, si : BOOLEAN, start : BOOLEAN, data : Talk, pending : Nat]
      /\ set.master = master /\ set.start = start /\ set.data = port.data /\ set.pending = port.pending
  BY <1>2
<1>4. CASE start /\ master /\ port.pending = 0
  <2>0. PICK sent \in Said : Exchange(sent)
    BY <1>1, <1>4
  <2>1. port.pending = 0 /\ UNCHANGED <<guest, inPlace>>
    BY <1>1, <1>4
  <2>2. WordLines \in Nat /\ WordLines > 0
    BY WordsAssumption
  <2>3. port' = [set EXCEPT !.data = ReplyWord, !.pending = WordLines]
    BY <1>1, <1>4
  <2>4. Astray' /\ (talkedOver' => talkedOver)
    BY <2>0, ExchangeStrays
  <2> HIDE DEF set
  <2>5. ASSUME ReplyWord \in Talk
        PROVE  PortShape' /\ Flying' = 1 /\ port'.data = ReplyWord
    BY <1>3, <1>4, <2>2, <2>3, <2>5 DEF PortShape, Flying
  <2>6. RepliesInPlace'
    BY <1>1, <1>4 DEF WordsInv, RepliesInPlace
  <2>7. CASE ~talkedOver'
    <3>1. Goes
      BY <1>4, <2>0, <2>1, <2>7, ExchangeGoes
    <3>2. Left' \in Nat
      BY <3>1 DEF Goes, Shape, Left
    <3>3. ReplyWord \in Talk
      <4>1. PICK n \in Nat : n = Left'
        BY <3>2
      <4>2. due' \in Seq(Talk) /\ Len(due') = 1 + n
        BY <3>1, <4>1 DEF Goes
      <4>3. due' \in Seq(Talk) /\ Len(due') > 0
        BY <4>2
      <4>4. due'[1] \in Talk
        BY <4>3, FirstOf
      <4>5. QED
        BY <3>1, <4>4 DEF Goes
    <3>4. Coming'
      BY <2>5, <3>1, <3>3 DEF Coming, Goes
    <3>5. QED
      BY <2>4, <2>5, <2>6, <3>1, <3>3, <3>4 DEF Goes, WordsInv, DueTyped
  <2>8. CASE talkedOver'
    <3>1. /\ ReplyWord = Idle /\ due' \in Seq(Talk)
          /\ AirTyped' /\ Shape' /\ WaitTyped' /\ Clocks' /\ WaitIsKept'
      BY <2>0, <2>1, <2>8, ExchangeAstray
    <3>2. ReplyWord \in Talk
      BY <3>1, TalkHas
    <3>3. QED
      BY <2>4, <2>5, <2>6, <2>8, <3>1, <3>2 DEF WordsInv, DueTyped
  <2>9. QED
    BY <2>7, <2>8
<1>5. CASE start /\ master /\ port.pending # 0
  <2>1. /\ port' = [set EXCEPT !.start = FALSE, !.si = TRUE, !.data = Ones]
        /\ Rest /\ Hears(Ones, due) /\ UNCHANGED guest /\ talkedOver
    BY <1>1, <1>5
  <2>2. talkedOver' /\ Astray'
    BY <2>1 DEF Rest, WordsInv, Astray
  <2>3. DueTyped' /\ RepliesInPlace'
    BY <2>1, <2>2, HearsAstray
  <2> HIDE DEF set
  <2>4. PortShape'
    BY <1>3, <2>1, TalkHas DEF PortShape
  <2>5. AirTyped' /\ WaitTyped' /\ Shape'
    BY <2>1 DEF Rest, WordsInv, AirTyped, WaitTyped, Horizon, Shape
  <2>6. Clocks' /\ WaitIsKept'
    BY <2>1 DEF Rest, WordsInv, Clocks, WaitIsKept, Horizon
  <2>7. QED
    BY <2>2, <2>3, <2>4, <2>5, <2>6 DEF WordsInv
<1>6. CASE ~(start /\ master)
  <2>1. /\ port' = set /\ Rest /\ UNCHANGED <<guest, due, inPlace>>
        /\ start => port.pending = 0 \/ talkedOver
    BY <1>1, <1>6
  <2> HIDE DEF set
  <2>2. PortShape' /\ Astray'
    BY <1>3, <1>6, <2>1 DEF PortShape, Astray, Rest, WordsInv
  <2>3. Flying' = Flying /\ port'.data = port.data
    BY <1>3, <2>1 DEF Flying
  <2>4. Left' = Left /\ \A k : Word(k)' = Word(k)
    BY <2>1 DEF Rest, Left, Word
  <2>5. ~talkedOver' => Coming'
    BY <2>1, <2>3, <2>4 DEF Rest, WordsInv, Coming
  <2>6. AirTyped' /\ DueTyped' /\ WaitTyped' /\ RepliesInPlace'
    BY <2>1 DEF Rest, WordsInv, AirTyped, DueTyped, WaitTyped, RepliesInPlace, Horizon
  <2>7. Shape'
    BY <2>1 DEF Rest, WordsInv, Shape
  <2>8. Clocks' /\ WaitIsKept'
    BY <2>1 DEF Rest, WordsInv, Clocks, WaitIsKept, Horizon
  <2>9. QED
    BY <2>2, <2>5, <2>6, <2>7, <2>8 DEF WordsInv
<1>7. QED
  BY <1>1, <1>4, <1>5, <1>6

LEMMA ResetPulseKeeps ==
  ASSUME WordsInv, ResetPulse
  PROVE  WordsInv'
<1>1. /\ port.pending = 0 /\ com' = "reset" /\ len' = 0 /\ pos' = 0 /\ buf' = Repeat(Zero, BufWords)
      /\ link' = "idle" /\ guest' = FALSE /\ inbox' = <<>>
      /\ timeout' = DefTimeout /\ timeoutLeft' = 0
      /\ due' = <<>> /\ talkedOver' = FALSE /\ told' = DefTimeout /\ wait' = NotWaiting
      /\ UNCHANGED <<port, inPlace>>
  BY DEF ResetPulse
<1>2. Left' = 0 /\ Flying' = 0
  BY <1>1 DEF Left, Flying
<1>3. DueTyped' /\ AirTyped' /\ Len(due') = 0
  BY <1>1, Empty DEF DueTyped, AirTyped, Links
<1>4. Coming'
  BY <1>2, <1>3 DEF Coming
<1>5. Shape' /\ Astray'
  BY <1>1 DEF Shape, Places, Repeat, Astray
<1>6. PortShape' /\ RepliesInPlace'
  BY <1>1 DEF WordsInv, PortShape, RepliesInPlace
<1>7. WaitTyped' /\ Clocks' /\ WaitIsKept'
  <2>1. told' \in Nat /\ timeout' = told' /\ timeoutLeft' \in Nat
    BY <1>1, WordsAssumption
  <2>2. QED
    BY <1>1, <2>1, NoWaitKeeps
<1>8. QED
  BY <1>3, <1>4, <1>5, <1>6, <1>7 DEF WordsInv

LEMMA AirKeeps ==
  ASSUME WordsInv, Joins \/ Parts \/ Arrives
  PROVE  WordsInv'
<1>1. Untouched /\ AirTyped'
  <2>1. CASE Joins
    BY <2>1, Empty DEF Joins, WordsInv, AirTyped, Links
  <2>2. CASE Parts
    BY <2>2, Empty DEF Parts, WordsInv, AirTyped, Links
  <2>3. CASE Arrives
    <3>1. PICK b \in Arriving : inbox' = Append(inbox, b) /\ UNCHANGED <<link, guest>> /\ Untouched
      BY <2>3 DEF Arrives
    <3>2. inbox' \in Seq(Arriving)
      BY <3>1 DEF WordsInv, AirTyped
    <3>3. QED
      BY <3>1, <3>2 DEF WordsInv, AirTyped
  <2>4. QED
    BY <2>1, <2>2, <2>3
<1>2. UNCHANGED <<com, cmd, len, pos, buf, port, due, inPlace, talkedOver, timeout, timeoutLeft, told, wait>>
  BY <1>1 DEF Untouched
<1>3. (~talkedOver' => Coming') /\ Astray' /\ DueTyped' /\ PortShape' /\ RepliesInPlace'
  BY <1>2 DEF WordsInv, Coming, Astray, Flying, Left, Word, DueTyped, PortShape, RepliesInPlace
<1>4. Shape' /\ Clocks' /\ WaitIsKept' /\ WaitTyped'
  BY <1>2 DEF WordsInv, Shape, Clocks, WaitIsKept, WaitTyped, Horizon
<1>5. QED
  BY <1>1, <1>3, <1>4 DEF WordsInv

\* What a line does to the word in flight: a game in step listens only when there is none.
LEMMA LandedIs ==
  ASSUME WordsInv
  PROVE  /\ Landed \in [master : BOOLEAN, so : BOOLEAN, si : BOOLEAN, start : BOOLEAN, data : Talk, pending : Nat]
         /\ Landed.start /\ Landed.pending > 0 => Landed.master \/ talkedOver
         /\ Listens(Landed) /\ ~talkedOver => port.pending = 0
         /\ port.pending = 0 => Landed.pending = 0
         /\ Finishes => Landed.pending = 0 /\ Flying = 1
         /\ ~Finishes => Landed.data = port.data /\ (Landed.pending > 0 <=> port.pending > 0)
<1>1. /\ port \in [master : BOOLEAN, so : BOOLEAN, si : BOOLEAN, start : BOOLEAN, data : Talk, pending : Nat]
      /\ port.start /\ port.pending > 0 => port.master \/ talkedOver
  BY DEF WordsInv, PortShape
<1>2. CASE port.pending = 0
  BY <1>1, <1>2 DEF Landed, Finishes
<1>3. CASE port.pending = 1
  <2>1. Landed = [port EXCEPT !.pending = 0, !.start = FALSE, !.si = TRUE, !.data = Zero]
    BY <1>3 DEF Landed, Finishes
  <2>2. Zero \in Talk
    BY TalkHas
  <2>3. /\ Landed \in [master : BOOLEAN, so : BOOLEAN, si : BOOLEAN, start : BOOLEAN, data : Talk, pending : Nat]
        /\ ~Landed.start /\ Landed.si /\ Landed.pending = 0
    BY <1>1, <2>1, <2>2
  <2>4. QED
    BY <1>3, <2>3 DEF Listens, Hearing, Finishes, Flying
<1>4. CASE port.pending > 1
  <2>1. Landed = [port EXCEPT !.pending = port.pending - 1]
    BY <1>1, <1>4 DEF Landed, Finishes
  <2>2. port.pending - 1 \in Nat /\ port.pending - 1 > 0
    BY <1>1, <1>4
  <2>3. /\ Landed \in [master : BOOLEAN, so : BOOLEAN, si : BOOLEAN, start : BOOLEAN, data : Talk, pending : Nat]
        /\ Landed.start = port.start /\ Landed.master = port.master /\ Landed.data = port.data
        /\ Landed.pending = port.pending - 1
    BY <1>1, <2>1, <2>2
  <2>4. QED
    BY <1>1, <1>4, <2>2, <2>3 DEF Listens, Hearing, Finishes
<1>5. QED
  BY <1>1, <1>2, <1>3, <1>4

\* A line of a wait: the time that is left and the time that has gone.
LEMMA Elapses ==
  ASSUME WordsInv, com = "waitevent"
  PROVE  LET t     == Less(timeoutLeft)
             since == Bounded(wait.since + 1, Horizon)
         IN  /\ t \in Nat /\ since \in 0..Horizon /\ wait.listened \in Nat
             /\ wait.listened + t <= told * FrameLines
             /\ t > 0 => wait.listened + 1 + t <= told * FrameLines
             /\ since >= Bounded(told * FrameLines - t, Horizon)
<1> DEFINE n == told * FrameLines
<1>1. /\ n \in Nat /\ Horizon \in Nat /\ Horizon > 0
      /\ timeoutLeft \in Nat /\ wait.since \in 0..Horizon /\ wait.listened \in Nat
      /\ wait.listened + timeoutLeft <= n
      /\ wait.since >= Bounded(n - timeoutLeft, Horizon)
  <2>1. told \in Nat /\ FrameLines \in Nat
    BY WordsAssumption DEF WordsInv, Clocks
  <2>2. wait.since \in 0..Horizon /\ wait.listened \in Nat
    BY DEF WordsInv, WaitTyped
  <2>3. QED
    BY <2>1, <2>2, Product, HorizonNat DEF WordsInv, Clocks
<1> HIDE DEF n
<1> DEFINE t == Less(timeoutLeft)
           since == Bounded(wait.since + 1, Horizon)
<1>2. t \in Nat /\ (timeoutLeft = 0 => t = 0) /\ (timeoutLeft > 0 => t = timeoutLeft - 1)
  BY <1>1 DEF Less
<1> HIDE DEF t
<1>3. since \in 0..Horizon /\ since >= wait.since /\ (since = wait.since + 1 \/ since = Horizon)
  BY <1>1 DEF Bounded
<1> HIDE DEF since
<1>4. since >= Bounded(n - t, Horizon)
  BY <1>1, <1>2, <1>3 DEF Bounded
<1>5. wait.listened + t <= n /\ (t > 0 => wait.listened + 1 + t <= n)
  BY <1>1, <1>2
<1>6. QED
  BY <1>1, <1>2, <1>3, <1>4, <1>5 DEF n, t, since

\* An adapter with nothing to say has time left.
LEMMA Pending ==
  ASSUME AirTyped, NEW t \in Nat, NEW r
  PROVE  /\ Happened(t, r) \in Events \cup {"nothing"}
         /\ Happened(t, r) = "nothing" => t > 0
         /\ Happened(t, r) = "timeout" => t = 0
<1>1. CASE link = "idle"
  BY <1>1 DEF Happened, Events
<1>2. CASE link # "idle" /\ Available
  BY <1>2 DEF Happened, Events
<1>3. CASE link = "host" /\ ~Available /\ r = 0
  BY <1>3 DEF Happened, Events
<1>4. CASE link # "idle" /\ ~Available /\ ~(link = "host" /\ r = 0) /\ t = 0
  BY <1>4 DEF Happened, Events
<1>5. CASE link # "idle" /\ ~Available /\ ~(link = "host" /\ r = 0) /\ t # 0
  BY <1>5 DEF Happened, Events
<1>6. QED
  BY <1>1, <1>2, <1>3, <1>4, <1>5

-----------------------------------------------------------------------------
(* A line                                                                  *)

Kind == IF com = "waitevent" /\ ~Landed.master THEN Happened(Less(timeoutLeft), Less(respLeft)) ELSE "nothing"
Pushes == (com = "waitresp" \/ Kind # "nothing") /\ Hearing(Landed)
Since == Bounded(wait.since + 1, Horizon)

LEMMA KindIs ==
  ASSUME WordsInv
  PROVE  /\ Kind \in Events \cup {"nothing"}
         /\ Kind # "nothing" => com = "waitevent" /\ ~Landed.master
         /\ com = "waitevent" /\ Kind = "nothing" /\ Listens(Landed) => Less(timeoutLeft) > 0
         /\ Kind = "timeout" => Less(timeoutLeft) = 0
<1>1. CASE com = "waitevent" /\ ~Landed.master
  <2>1. Kind = Happened(Less(timeoutLeft), Less(respLeft))
    BY <1>1 DEF Kind
  <2>2. Less(timeoutLeft) \in Nat /\ AirTyped
    BY <1>1, Elapses DEF WordsInv
  <2>3. QED
    BY <1>1, <2>1, <2>2, Pending
<1>2. CASE ~(com = "waitevent" /\ ~Landed.master)
  BY <1>2 DEF Kind, Listens
<1>3. QED
  BY <1>1, <1>2

\* The air and the configuration are as they were.
LEMMA StepLeaves ==
  ASSUME WordsInv, StepSerial
  PROVE  /\ AirTyped' /\ timeout' = told' /\ told' = told /\ told \in Nat /\ UNCHANGED cmd
         /\ IF com = "waitevent" THEN timeoutLeft' = Less(timeoutLeft) ELSE timeoutLeft' = timeoutLeft
         /\ timeoutLeft' \in Nat
<1>1. /\ UNCHANGED <<cmd, link, guest, inbox, timeout, told>>
      /\ IF com = "waitevent" THEN timeoutLeft' = Less(timeoutLeft) ELSE timeoutLeft' = timeoutLeft
  BY DEF StepSerial
<1>2. timeout = told /\ told \in Nat /\ timeoutLeft \in Nat
  BY DEF WordsInv, Clocks
<1>3. QED
  BY <1>1, <1>2 DEF WordsInv, AirTyped, Less

\* A line on which the adapter has nothing to say to the game, or no ear for it.
LEMMA StepPasses ==
  ASSUME WordsInv, StepSerial, ~talkedOver, Kind = "nothing", ~Pushes
  PROVE  WordsInv'
<1>0. talkedOver' = FALSE
  BY DEF StepSerial, Kind, Pushes
<1>1. /\ UNCHANGED <<com, cmd, len, pos, buf>> /\ port' = Landed
      /\ IF Finishes THEN Hears(port.data, due) ELSE due' = due /\ UNCHANGED inPlace
      /\ wait' = IF com # "waitevent" THEN (IF com' = "waitcmd" THEN NotWaiting ELSE wait)
                 ELSE [since |-> Since, listened |-> IF Listens(Landed) THEN wait.listened + 1 ELSE 0,
                       ended |-> "not"]
  BY DEF StepSerial, Kind, Pushes, Since
<1>2. /\ AirTyped' /\ timeout' = told' /\ told' = told /\ told \in Nat /\ timeoutLeft' \in Nat
      /\ IF com = "waitevent" THEN timeoutLeft' = Less(timeoutLeft) ELSE timeoutLeft' = timeoutLeft
  BY StepLeaves
<1>3. Left' = Left /\ (\A k : Word(k)' = Word(k)) /\ Left \in Nat
  BY <1>1 DEF Left, Word, WordsInv, Shape
<1>4. PortShape'
  BY <1>1, LandedIs DEF PortShape
<1>5. DueTyped' /\ Coming' /\ RepliesInPlace'
  <2>0. /\ due \in Seq(Talk) /\ Len(due) = Flying + Left /\ (Flying = 1 => due[1] = port.data)
        /\ \A k \in 1..Left : due[Flying + k] = Word(k)
        /\ inPlace
    BY DEF WordsInv, DueTyped, Coming, RepliesInPlace
  <2>1. CASE Finishes
    <3>1. Flying = 1 /\ Flying' = 0
      BY <1>1, <2>1, LandedIs DEF Flying
    <3>2. Len(due) = 1 + Left /\ due[1] = port.data /\ \A k \in 1..Left : due[1 + k] = Word(k)
      BY <2>0, <3>1
    <3>3. Len(due) > 0 /\ Len(due) - 1 = Left
      BY <1>3, <3>2
    <3>4. /\ due # <<>> /\ Head(due) = due[1] /\ Tail(due) \in Seq(Talk) /\ Len(Tail(due)) = Len(due) - 1
          /\ \A k \in 1..(Len(due) - 1) : Tail(due)[k] = due[k + 1]
      BY <2>0, <3>3, Taken
    <3>5. due' = Tail(due) /\ inPlace'
      BY <1>1, <2>0, <2>1, <3>2, <3>4 DEF Hears
    <3>6. due' \in Seq(Talk) /\ Len(due') = Left
      BY <3>3, <3>4, <3>5
    <3>7. ASSUME NEW k \in 1..Left PROVE due'[0 + k] = Word(k)
      <4>1. 0 + k = k /\ k + 1 = 1 + k /\ k \in 1..(Len(due) - 1)
        BY <1>3, <3>3, <3>7
      <4>2. due'[k] = due[k + 1]
        BY <3>4, <3>5, <4>1
      <4>3. QED
        BY <3>2, <4>1, <4>2
    <3>8. Coming'
      <4>1. Len(due') = Flying' + Left' /\ ~(Flying' = 1)
        BY <1>3, <3>1, <3>6
      <4>2. \A k \in 1..Left' : due'[Flying' + k] = Word(k)'
        BY <1>3, <3>1, <3>7
      <4>3. QED
        BY <4>1, <4>2 DEF Coming
    <3>9. QED
      BY <3>5, <3>6, <3>8 DEF DueTyped, RepliesInPlace
  <2>2. CASE ~Finishes
    <3>1. Flying' = Flying /\ port'.data = port.data /\ due' = due /\ inPlace'
      BY <1>1, <2>0, <2>2, LandedIs DEF Flying
    <3>2. QED
      BY <1>3, <2>0, <3>1 DEF DueTyped, Coming, RepliesInPlace
  <2>3. QED
    BY <2>1, <2>2
<1>6. Shape' /\ Astray'
  BY <1>0, <1>1 DEF WordsInv, Shape, Astray
<1>7. WaitTyped' /\ Clocks' /\ WaitIsKept'
  <2>1. CASE com # "waitevent"
    <3>1. wait' = wait
      BY <1>1, <2>1 DEF WordsInv, Clocks
    <3>2. UNCHANGED <<com, told, timeoutLeft>> /\ timeout' = told'
      BY <1>1, <1>2, <2>1
    <3>3. QED
      BY <2>1, <3>1, <3>2, <1>2 DEF WordsInv, WaitTyped, Clocks, WaitIsKept, Horizon
  <2>2. CASE com = "waitevent"
    <3>1. /\ Less(timeoutLeft) \in Nat /\ Since \in 0..Horizon /\ wait.listened \in Nat
          /\ wait.listened + Less(timeoutLeft) <= told * FrameLines
          /\ Less(timeoutLeft) > 0 => wait.listened + 1 + Less(timeoutLeft) <= told * FrameLines
          /\ Since >= Bounded(told * FrameLines - Less(timeoutLeft), Horizon)
      BY <2>2, Elapses DEF Since
    <3>2. Listens(Landed) => Less(timeoutLeft) > 0
      BY <2>2, KindIs
    <3>3. PICK n : n = told * FrameLines
      OBVIOUS
    <3>4. PICK t : t = Less(timeoutLeft)
      OBVIOUS
    <3>5. n \in Nat
      BY <1>2, <3>3, WordsAssumption, Product
    <3>6. PICK l : l = IF Listens(Landed) THEN wait.listened + 1 ELSE 0
      OBVIOUS
    <3>7. l \in Nat /\ l + t <= n /\ (l = 0 \/ l < n)
      BY <3>1, <3>2, <3>3, <3>4, <3>5, <3>6
    <3>8. wait' = [since |-> Since, listened |-> l, ended |-> "not"]
      BY <1>1, <2>2, <3>6
    <3>9. WaitTyped'
      BY <3>1, <3>7, <3>8 DEF WaitTyped, Horizon
    <3>10. Clocks'
      <4>1. timeoutLeft' = t /\ told' * FrameLines = n /\ Horizon' = Horizon /\ com' = "waitevent"
        BY <1>1, <1>2, <2>2, <3>3, <3>4 DEF Horizon
      <4>2. Since >= Bounded(n - t, Horizon)
        BY <3>1, <3>3, <3>4
      <4>3. QED
        BY <1>2, <3>7, <3>8, <4>1, <4>2 DEF Clocks
    <3>11. WaitIsKept'
      <4>1. told' * FrameLines = n
        BY <1>2, <3>3
      <4>2. QED
        BY <3>7, <3>8, <4>1 DEF WaitIsKept
    <3>12. QED
      BY <3>9, <3>10, <3>11
  <2>3. QED
    BY <2>1, <2>2
<1>8. QED
  BY <1>2, <1>4, <1>5, <1>6, <1>7 DEF WordsInv

\* A word of what happened, heard by a game that listens.
LEMMA StepResponds ==
  ASSUME WordsInv, StepSerial, ~talkedOver', Kind = "nothing", Pushes
  PROVE  WordsInv'
<1>0. talkedOver' = (talkedOver \/ (Pushes /\ Landed.master))
  BY DEF StepSerial, Kind, Pushes
<1>1. com = "waitresp" /\ Listens(Landed) /\ ~talkedOver /\ talkedOver' = FALSE
  BY <1>0 DEF Pushes, Listens
<1>2. /\ UNCHANGED <<cmd, len, buf>> /\ port' = [Landed EXCEPT !.start = FALSE, !.data = IF Landed.pending = 0 THEN @ ELSE buf[pos + 1]]
      /\ com' = (IF pos + 1 >= len THEN "waitcmd" ELSE "waitresp") /\ pos' = pos + 1
      /\ Hears(buf[pos + 1], due)
      /\ wait' = IF com' = "waitcmd" THEN NotWaiting ELSE wait
  BY <1>1 DEF StepSerial, Kind, Pushes
<1>3. /\ AirTyped' /\ timeout' = told' /\ told' = told /\ told \in Nat
      /\ timeoutLeft' = timeoutLeft /\ timeoutLeft' \in Nat
  BY <1>1, StepLeaves
<1>4. port.pending = 0 /\ Landed.pending = 0
  BY <1>1, LandedIs
<1>5. pos \in Nat /\ len \in Nat /\ pos < len /\ len <= BufWords
  BY <1>1 DEF WordsInv, Shape
<1>6. /\ due \in Seq(Talk) /\ Len(due) = len - pos /\ \A k \in 1..(len - pos) : due[k] = buf[pos + k]
      /\ inPlace
  <2>1. Left = len - pos /\ \A k : Word(k) = buf[pos + k]
    BY <1>1 DEF Left, Word
  <2>2. QED
    BY <1>1, <1>4, <2>1, Quiet DEF WordsInv, DueTyped, RepliesInPlace
<1>7. /\ due # <<>> /\ Head(due) = buf[pos + 1] /\ Tail(due) \in Seq(Talk)
      /\ Len(Tail(due)) = (len - pos) - 1
      /\ \A k \in 1..((len - pos) - 1) : Tail(due)[k] = due[k + 1]
  <2>1. Len(due) > 0 /\ 1 \in 1..(len - pos)
    BY <1>5, <1>6
  <2>2. QED
    BY <1>6, <2>1, Taken
<1>8. due' = Tail(due) /\ inPlace'
  BY <1>2, <1>6, <1>7 DEF Hears
<1>9. PortShape' /\ Flying' = 0
  <2>1. Landed \in [master : BOOLEAN, so : BOOLEAN, si : BOOLEAN, start : BOOLEAN, data : Talk, pending : Nat]
    BY LandedIs
  <2>2. /\ port' \in [master : BOOLEAN, so : BOOLEAN, si : BOOLEAN, start : BOOLEAN, data : Talk, pending : Nat]
        /\ ~port'.start /\ port'.pending = 0
    BY <1>2, <1>4, <2>1
  <2>3. QED
    BY <2>2 DEF PortShape, Flying
<1>10. Left' = (len - pos) - 1
  <2>1. CASE pos + 1 >= len
    BY <1>2, <1>5, <2>1 DEF Left
  <2>2. CASE ~(pos + 1 >= len)
    BY <1>2, <1>5, <2>2 DEF Left
  <2>3. QED
    BY <2>1, <2>2
<1>11. ASSUME NEW k \in 1..((len - pos) - 1) PROVE due'[0 + k] = Word(k)'
  <2>1. k + 1 \in 1..(len - pos) /\ pos + (k + 1) = (pos + 1) + k /\ ~(pos + 1 >= len) /\ 0 + k = k
    BY <1>5, <1>11
  <2>2. Word(k)' = buf[(pos + 1) + k]
    BY <1>2, <2>1 DEF Word
  <2>3. due[k + 1] = buf[pos + (k + 1)]
    BY <1>6, <2>1
  <2>4. due'[k] = due[k + 1]
    BY <1>7, <1>8, <1>11
  <2>5. QED
    BY <2>1, <2>2, <2>3, <2>4
<1>12. Coming' /\ DueTyped'
  <2>1. due' \in Seq(Talk) /\ Len(due') = Flying' + Left' /\ ~(Flying' = 1)
    BY <1>5, <1>7, <1>8, <1>9, <1>10
  <2>2. \A k \in 1..Left' : due'[Flying' + k] = Word(k)'
    BY <1>9, <1>10, <1>11
  <2>3. QED
    BY <2>1, <2>2 DEF Coming, DueTyped
<1>13. Shape' /\ Astray'
  <2>1. Shape'
    BY <1>1, <1>2, <1>5 DEF WordsInv, Shape, Places
  <2>2. Astray'
    BY <1>1, <1>2 DEF WordsInv, Astray
  <2>3. QED
    BY <2>1, <2>2
<1>14. WaitTyped' /\ Clocks' /\ WaitIsKept'
  <2>1. CASE com' = "waitcmd"
    BY <1>2, <1>3, <2>1, NoWaitKeeps
  <2>2. CASE com' = "waitresp"
    BY <1>1, <1>2, <1>3, <2>2 DEF WordsInv, WaitTyped, Clocks, WaitIsKept, Horizon
  <2>3. QED
    BY <1>2, <2>1, <2>2
<1>15. QED
  BY <1>3, <1>8, <1>9, <1>12, <1>13, <1>14 DEF WordsInv, RepliesInPlace

\* A line on which a game is talked over, or stays so.
LEMMA StepStrays ==
  ASSUME WordsInv, StepSerial, talkedOver'
  PROVE  WordsInv'
<1>1. /\ Kind = "nothing" /\ com \in {"waitcmd", "waitresp"}
      /\ Pushes => com = "waitresp"
  <2>1. talkedOver' = (talkedOver \/ (Pushes /\ Landed.master))
    BY DEF StepSerial, Kind, Pushes
  <2>2. Astray
    BY DEF WordsInv
  <2>3. QED
    BY <2>1, <2>2, KindIs DEF Astray, Pushes
<1>2. /\ UNCHANGED <<cmd, len, buf>>
      /\ com' = (IF Pushes /\ pos + 1 >= len THEN "waitcmd" ELSE com)
      /\ pos' = (IF Pushes THEN pos + 1 ELSE pos)
      /\ port' = IF Pushes
                 THEN [Landed EXCEPT !.start = FALSE, !.data = IF Landed.pending = 0 THEN @ ELSE buf[pos + 1]]
                 ELSE Landed
      /\ CASE Pushes -> Hears(buf[pos + 1], due)
           [] ~Pushes /\ Finishes -> Hears(port.data, due)
           [] OTHER -> due' = due /\ UNCHANGED inPlace
      /\ wait' = IF com' = "waitcmd" THEN NotWaiting ELSE wait
  BY <1>1 DEF StepSerial, Kind, Pushes
<1>3. /\ AirTyped' /\ timeout' = told' /\ told' = told /\ told \in Nat
      /\ timeoutLeft' = timeoutLeft /\ timeoutLeft' \in Nat
  BY <1>1, StepLeaves
<1>4. DueTyped' /\ RepliesInPlace'
  <2>1. CASE \E w : Hears(w, due)
    BY <2>1, HearsAstray
  <2>2. CASE due' = due /\ UNCHANGED inPlace
    BY <2>2 DEF WordsInv, DueTyped, RepliesInPlace
  <2>3. QED
    BY <1>2, <2>1, <2>2
<1>5. /\ pos \in Nat /\ len \in Nat
      /\ com = "waitresp" => pos < len /\ len <= BufWords /\ \A k \in 1..len : buf[k] \in Talk
  BY DEF WordsInv, Shape, Astray
<1>6. Shape' /\ Astray'
  BY <1>1, <1>2, <1>5 DEF WordsInv, Shape, Places, Astray
<1>7. PortShape'
  <2>1. Landed \in [master : BOOLEAN, so : BOOLEAN, si : BOOLEAN, start : BOOLEAN, data : Talk, pending : Nat]
    BY LandedIs
  <2>2. Pushes => buf[pos + 1] \in Talk
    BY <1>1, <1>5
  <2>3. QED
    BY <1>2, <2>1, <2>2 DEF PortShape
<1>8. WaitTyped' /\ Clocks' /\ WaitIsKept'
  <2>1. CASE com' = "waitcmd"
    <3>1. wait' = NotWaiting
      BY <1>2, <2>1
    <3>2. QED
      BY <1>3, <2>1, <3>1, NoWaitKeeps
  <2>2. CASE com' # "waitcmd"
    <3>1. com = "waitresp" /\ com' = com /\ wait' = wait
      BY <1>1, <1>2, <2>2
    <3>2. QED
      BY <1>3, <3>1 DEF WordsInv, WaitTyped, Clocks, WaitIsKept, Horizon
  <2>3. QED
    BY <2>1, <2>2
<1>9. QED
  BY <1>3, <1>4, <1>6, <1>7, <1>8 DEF WordsInv

\* A line on which it has: what happened, behind what the game is yet to be given.
LEMMA StepTells ==
  ASSUME WordsInv, StepSerial, Kind # "nothing"
  PROVE  WordsInv'
<1> DEFINE says == Says(Kind)
<1>0. com = "waitevent" /\ ~Landed.master /\ Kind \in Events /\ ~talkedOver
  BY KindIs DEF WordsInv, Astray
<1>1. com = "waitevent" /\ ~Landed.master /\ Kind \in Events /\ (Hearing(Landed) <=> Listens(Landed))
  BY <1>0 DEF Listens
<1>2. says \in Seq(Talk) /\ Len(says) \in 2..3 /\ 3 <= BufWords /\ BufWords \in Nat
  BY <1>1, SaysTyped, WordsAssumption
<1>2a. talkedOver' = FALSE
  BY <1>0 DEF StepSerial, Kind
<1>3. /\ buf' = Over(buf, says) /\ len' = Len(says) /\ UNCHANGED cmd
      /\ com' = CASE Pushes /\ 0 + 1 >= Len(says) -> "waitcmd"
                  [] ~(Pushes /\ 0 + 1 >= Len(says)) -> "waitresp"
      /\ pos' = (IF Pushes THEN 1 ELSE 0)
      /\ port' = (IF Pushes THEN [Landed EXCEPT !.start = FALSE, !.data = IF Landed.pending = 0 THEN @ ELSE buf'[0 + 1]]
                ELSE Landed)
      /\ CASE Pushes -> Hears(buf'[0 + 1], due \o says)
           [] ~Pushes /\ Finishes -> Hears(port.data, due \o says)
           [] OTHER -> due' = due \o says /\ UNCHANGED inPlace
      /\ wait' = [since |-> Since, listened |-> IF Listens(Landed) /\ ~Pushes THEN wait.listened + 1 ELSE 0,
                  ended |-> Kind]
  <2>1. (com = "waitresp" \/ Kind # "nothing") /\ Hearing(Landed) <=> Pushes
    BY DEF Pushes
  <2>2. QED
    BY <1>1, <2>1 DEF StepSerial, Kind, Since
<1>4. com' = "waitresp" /\ (Listens(Landed) => Pushes)
  <2>1. ~(0 + 1 >= Len(says))
    BY <1>2
  <2>2. QED
    BY <1>1, <1>3, <2>1 DEF Pushes
<1>5. \A k \in 1..Len(says) : buf'[k] = says[k]
  <2>1. PICK n : n = Len(says)
    OBVIOUS
  <2>2. n \in Nat /\ n <= BufWords
    BY <1>2, <2>1
  <2> HIDE DEF says
  <2>3. \A k \in 1..n : Over(buf, says)[k] = says[k]
    BY <2>1, <2>2, Overwritten
  <2>4. QED
    BY <1>3, <2>1, <2>3
<1>6. DOMAIN buf' = 1..BufWords
  BY <1>3 DEF Over
<1> HIDE DEF says
<1>7. /\ AirTyped' /\ timeout' = told' /\ told' = told /\ told \in Nat
      /\ timeoutLeft' = Less(timeoutLeft) /\ timeoutLeft' \in Nat
  BY <1>1, StepLeaves
<1>8. due \in Seq(Talk) /\ Len(due) = Flying /\ (Flying = 1 => due[1] = port.data) /\ inPlace
  <2>1. Left = 0 /\ Flying \in Nat
    BY <1>1 DEF Left, Flying
  <2>2. QED
    BY <1>0, <2>1 DEF WordsInv, DueTyped, Coming, RepliesInPlace
<1>9. WaitTyped' /\ Clocks' /\ WaitIsKept'
  <2>1. /\ Less(timeoutLeft) \in Nat /\ Since \in 0..Horizon
        /\ Since >= Bounded(told * FrameLines - Less(timeoutLeft), Horizon)
    BY <1>1, Elapses DEF Since
  <2>2. wait' = [since |-> Since, listened |-> 0, ended |-> Kind]
    BY <1>3, <1>4
  <2>3. WaitTyped'
    BY <1>1, <2>1, <2>2 DEF WaitTyped, Horizon
  <2>4. Clocks'
    BY <1>4, <1>7 DEF Clocks
  <2>5. WaitIsKept'
    <3>1. PICK n \in Nat : n = told * FrameLines
      BY <1>7, WordsAssumption, Product
    <3>2. Kind = "timeout" => Less(timeoutLeft) = 0
      BY KindIs
    <3>3. Kind = "timeout" => Since >= Bounded(n, Horizon)
      BY <2>1, <3>1, <3>2
    <3>4. told' * FrameLines = n /\ Horizon' = Horizon
      BY <1>7, <3>1 DEF Horizon
    <3>5. QED
      BY <2>2, <3>3, <3>4 DEF WaitIsKept
  <2>6. QED
    BY <2>3, <2>4, <2>5
<1>10. Shape' /\ Astray'
  <2>1. \A k \in 1..Len(says) : says[k] \in Talk
    BY <1>2
  <2>2. Shape'
    BY <1>2, <1>3, <1>4, <1>6 DEF WordsInv, Shape, Places
  <2>3. Astray'
    BY <1>2a, <1>3, <1>4, <1>5, <2>1 DEF Astray
  <2>4. QED
    BY <2>2, <2>3
<1>11. PortShape' /\ Flying' = IF Landed.pending > 0 THEN 1 ELSE 0
  <2>1. /\ Landed \in [master : BOOLEAN, so : BOOLEAN, si : BOOLEAN, start : BOOLEAN, data : Talk, pending : Nat]
        /\ Landed.start /\ Landed.pending > 0 => Landed.master
        /\ Pushes => Landed.pending = 0
    BY <1>0, <1>1, LandedIs DEF Pushes
  <2>2. /\ port' \in [master : BOOLEAN, so : BOOLEAN, si : BOOLEAN, start : BOOLEAN, data : Talk, pending : Nat]
        /\ port'.pending = Landed.pending /\ port'.master = Landed.master
        /\ port'.start => Landed.start
    BY <1>3, <2>1
  <2>3. QED
    BY <2>1, <2>2 DEF PortShape, Flying
<1>12. Left' = Len(says) - pos' /\ \A k : Word(k)' = buf'[pos' + k]
  BY <1>3, <1>4 DEF Left, Word
<1>13. CASE Pushes
  <2>1. Landed.pending = 0 /\ Len(due) = 0 /\ Flying' = 0 /\ pos' = 1
    <3>1. port.pending = 0 /\ Landed.pending = 0
      BY <1>0, <1>1, <1>13, LandedIs DEF Pushes
    <3>2. QED
      BY <1>3, <1>8, <1>11, <1>13, <3>1 DEF Flying
  <2>2. due \o says = says
    BY <1>2, <1>8, <2>1
  <2>3. /\ says # <<>> /\ Head(says) = says[1] /\ Tail(says) \in Seq(Talk) /\ Len(Tail(says)) = Len(says) - 1
        /\ \A k \in 1..(Len(says) - 1) : Tail(says)[k] = says[k + 1]
    <3>1. Len(says) > 0
      BY <1>2
    <3>2. QED
      BY <1>2, <3>1, Taken
  <2>4. buf'[0 + 1] = Head(says)
    <3>1. 1 \in 1..Len(says) /\ 0 + 1 = 1
      BY <1>2
    <3>2. QED
      BY <1>5, <2>3, <3>1
  <2>5. due' = Tail(says) /\ inPlace'
    BY <1>3, <1>8, <1>13, <2>2, <2>3, <2>4 DEF Hears
  <2>6. Left' = Len(says) - 1
    BY <1>12, <2>1
  <2>7. ASSUME NEW k \in 1..(Len(says) - 1) PROVE due'[0 + k] = Word(k)'
    <3>1. 0 + k = k /\ 1 + k = k + 1 /\ k + 1 \in 1..Len(says)
      BY <1>2, <2>7
    <3>2. QED
      BY <1>5, <1>12, <2>1, <2>3, <2>5, <3>1
  <2>8. Coming' /\ DueTyped'
    <3>1. due' \in Seq(Talk) /\ Len(due') = Flying' + Left' /\ ~(Flying' = 1)
      BY <1>2, <2>1, <2>3, <2>5, <2>6
    <3>2. \A k \in 1..Left' : due'[Flying' + k] = Word(k)'
      BY <2>1, <2>6, <2>7
    <3>3. QED
      BY <3>1, <3>2 DEF Coming, DueTyped
  <2>9. QED
    BY <1>7, <1>9, <1>10, <1>11, <2>5, <2>8 DEF WordsInv, RepliesInPlace
<1>14. CASE ~Pushes
  <2>1. pos' = 0 /\ port' = Landed
    BY <1>3, <1>14
  <2>2. /\ due \o says \in Seq(Talk) /\ Len(due \o says) = Len(due) + Len(says)
        /\ \A k \in 1..Len(due) : (due \o says)[k] = due[k]
        /\ \A k \in 1..Len(says) : (due \o says)[Len(due) + k] = says[k]
    <3>1. due \in Seq(Talk) /\ says \in Seq(Talk)
      BY <1>2, <1>8
    <3>2. QED
      BY <3>1, TwoJoined
  <2>3. Left' = Len(says) /\ \A k \in 1..Len(says) : Word(k)' = says[k]
    <3>1. Len(says) - 0 = Len(says) /\ \A k \in 1..Len(says) : 0 + k = k
      BY <1>2
    <3>2. QED
      BY <1>5, <1>12, <2>1, <3>1
  <2>4. CASE Finishes
    <3>1. Flying = 1 /\ Flying' = 0
      BY <1>11, <2>4, LandedIs
    <3>2. Len(due) = 1 /\ due[1] = port.data
      BY <1>8, <3>1
    <3>3. PICK all : all = due \o says
      OBVIOUS
    <3>4. /\ all \in Seq(Talk) /\ Len(all) = 1 + Len(says) /\ all[1] = port.data
          /\ \A k \in 1..Len(says) : all[1 + k] = says[k]
      <4>1. 1 \in 1..Len(due)
        BY <3>2
      <4>2. QED
        BY <2>2, <3>2, <3>3, <4>1
    <3>5. /\ all # <<>> /\ Head(all) = all[1] /\ Tail(all) \in Seq(Talk) /\ Len(Tail(all)) = Len(all) - 1
          /\ \A k \in 1..(Len(all) - 1) : Tail(all)[k] = all[k + 1]
      <4>1. Len(all) > 0
        BY <1>2, <3>4
      <4>2. QED
        BY <3>4, <4>1, Taken
    <3>6. due' = Tail(all) /\ inPlace'
      <4>1. Hears(port.data, all)
        BY <1>3, <1>14, <2>4, <3>3
      <4>2. QED
        BY <1>8, <3>4, <3>5, <4>1 DEF Hears
    <3>7. ASSUME NEW k \in 1..Len(says) PROVE due'[0 + k] = Word(k)'
      <4>1. 0 + k = k /\ k + 1 = 1 + k /\ k \in 1..(Len(all) - 1)
        BY <1>2, <3>4, <3>7
      <4>2. due'[k] = all[k + 1]
        BY <3>5, <3>6, <4>1
      <4>3. QED
        BY <2>3, <3>4, <4>1, <4>2
    <3>8. Coming' /\ DueTyped'
      <4>1. due' \in Seq(Talk) /\ Len(due') = Flying' + Left' /\ ~(Flying' = 1)
        BY <1>2, <2>3, <3>1, <3>4, <3>5, <3>6
      <4>2. \A k \in 1..Left' : due'[Flying' + k] = Word(k)'
        BY <2>3, <3>1, <3>7
      <4>3. QED
        BY <4>1, <4>2 DEF Coming, DueTyped
    <3>9. QED
      BY <1>7, <1>9, <1>10, <1>11, <3>6, <3>8 DEF WordsInv, RepliesInPlace
  <2>5. CASE ~Finishes
    <3>1. due' = due \o says /\ inPlace'
      BY <1>3, <1>8, <1>14, <2>5
    <3>2. Flying' = Flying /\ port'.data = port.data
      BY <1>11, <2>1, <2>5, LandedIs DEF Flying
    <3>3. Flying' = 1 => due'[1] = port'.data
      <4>1. ASSUME Flying = 1 PROVE (due \o says)[1] = port.data
        <5>1. Len(due) = 1 /\ 1 \in 1..Len(due)
          BY <1>8, <4>1
        <5>2. QED
          BY <1>8, <2>2, <4>1, <5>1
      <4>2. QED
        BY <3>1, <3>2, <4>1
    <3>4. Len(due') = Flying' + Left' /\ \A k \in 1..Left' : due'[Flying' + k] = Word(k)'
      BY <1>8, <2>2, <2>3, <3>1, <3>2
    <3>5. Coming' /\ DueTyped'
      BY <2>2, <3>1, <3>3, <3>4 DEF Coming, DueTyped
    <3>6. QED
      BY <1>7, <1>9, <1>10, <1>11, <3>1, <3>5 DEF WordsInv, RepliesInPlace
  <2>6. QED
    BY <2>4, <2>5
<1>15. QED
  BY <1>13, <1>14

-----------------------------------------------------------------------------
(* Theorems                                                                *)

LEMMA WordsInitHolds == WordsInit => WordsInv
<1> SUFFICES ASSUME WordsInit PROVE WordsInv
  OBVIOUS
<1>1. Left = 0 /\ Flying = 0
  BY DEF WordsInit, Left, Flying
<1>2. DueTyped /\ Len(due) = 0 /\ AirTyped
  BY Empty DEF WordsInit, DueTyped, AirTyped, Links
<1>3. Coming
  BY <1>1, <1>2 DEF Coming
<1>4. Shape /\ Astray
  BY DEF WordsInit, Shape, Places, Repeat, Astray
<1>5. PortShape
  BY TalkHas DEF WordsInit, PortShape
<1>6. WaitTyped /\ Clocks /\ WaitIsKept
  BY NotWaitingTyped, WordsAssumption DEF WordsInit, WaitTyped, Clocks, WaitIsKept, NotWaiting
<1>7. QED
  BY <1>2, <1>3, <1>4, <1>5, <1>6 DEF WordsInv, WordsInit, RepliesInPlace

LEMMA WordsNextKeeps == WordsInv /\ [WordsNext]_adaptervars => WordsInv'
<1> SUFFICES ASSUME WordsInv, [WordsNext]_adaptervars PROVE WordsInv'
  OBVIOUS
<1>1. CASE StoreControl
  BY <1>1, StoreControlKeeps
<1>2. CASE ResetPulse
  BY <1>2, ResetPulseKeeps
<1>3. CASE StepSerial
  <2>1. CASE Kind # "nothing"
    BY <1>3, <2>1, StepTells
  <2>2. CASE talkedOver'
    BY <1>3, <2>2, StepStrays
  <2>3. CASE ~talkedOver' /\ Kind = "nothing" /\ Pushes
    BY <1>3, <2>3, StepResponds
  <2>4. CASE ~talkedOver' /\ Kind = "nothing" /\ ~Pushes
    <3>1. ~talkedOver
      BY <1>3, <2>4 DEF StepSerial
    <3>2. QED
      BY <1>3, <2>4, <3>1, StepPasses
  <2>5. QED
    BY <2>1, <2>2, <2>3, <2>4
<1>4. CASE Joins \/ Parts \/ Arrives
  BY <1>4, AirKeeps
<1>5. CASE UNCHANGED adaptervars
  <2>1. UNCHANGED <<com, cmd, len, pos, buf, link, guest, inbox>>
    BY <1>5 DEF adaptervars
  <2>2. UNCHANGED <<port, due, inPlace, talkedOver, timeout, timeoutLeft, told, wait>>
    BY <1>5 DEF adaptervars
  <2>3. AirTyped' /\ DueTyped' /\ WaitTyped'
    BY <2>1, <2>2 DEF WordsInv, AirTyped, DueTyped, WaitTyped, Horizon
  <2>4. (~talkedOver' => Coming') /\ Astray' /\ PortShape' /\ RepliesInPlace'
    BY <2>1, <2>2 DEF WordsInv, Coming, Astray, Flying, Left, Word, PortShape, RepliesInPlace
  <2>5. Shape' /\ Clocks' /\ WaitIsKept'
    BY <2>1, <2>2 DEF WordsInv, Shape, Clocks, WaitIsKept, Horizon
  <2>6. QED
    BY <2>3, <2>4, <2>5 DEF WordsInv
<1>6. QED
  BY <1>1, <1>2, <1>3, <1>4, <1>5 DEF WordsNext

\* Whatever a game says and whenever it turns round, and whatever the air does,
\* every word it takes from the port is the one its place in the conversation
\* calls for, but from a word of its own that was talked over (rfu.rs 1534) to its
\* next command; and a wait it has given the clock away for is answered before
\* the time it configured is out, with a timeout no earlier
\* (rfu.rs 617-700, 1497-1542; memory.rs step_serial).
THEOREM AdapterKeepsPlaceAndTime == WordsSpec => []AdapterAnswers
<1>1. WordsInv => AdapterAnswers
  BY DEF WordsInv, AdapterAnswers
<1>2. QED
  BY WordsInitHolds, WordsNextKeeps, <1>1, PTL DEF WordsSpec


-----------------------------------------------------------------------------
(* Reference points                                                        *)

\* A reference point as its halfwords give it is a pair of integers.
LEMMA ReloadType ==
  ASSUME NEW h \in Point
  PROVE  ReloadBgRef(h)[1] \in Int /\ ReloadBgRef(h)[2] \in Int
<1>1. 2^28 \in Int /\ 2^28 > 0 /\ 2^16 \in Int
  OBVIOUS
<1>2. ASSUME NEW v \in Int PROVE SignExtend28(v) \in Int
  <2>1. v % 2^28 \in Int
    BY <1>1
  <2>. QED  BY <1>1, <2>1 DEF SignExtend28, Signed
<1>3. \A k \in 1..4 : h[k] \in Int
  <2>1. WordsOf(16) \subseteq Int
    BY <1>1 DEF WordsOf
  <2>. QED  BY <2>1 DEF Point
<1>4. h[1] + 65536 * h[2] \in Int /\ h[3] + 65536 * h[4] \in Int
  BY <1>3
<1>5. SignExtend28(h[1] + 65536 * h[2]) \in Int /\ SignExtend28(h[3] + 65536 * h[4]) \in Int
  BY <1>2, <1>4
<1>. QED  BY <1>5 DEF ReloadBgRef

\* The point a background has reached on a line, n steps after it was loaded.
Lead(n, from) == LET upto == IF n < High THEN n ELSE LastDrawn
                    IN  IF from > upto THEN 0 ELSE upto - from
Reached(h, bg, n) == LET p == ReloadBgRef(h)
                     IN  <<p[1] + n * scene.bg[bg].pb, p[2] + n * scene.bg[bg].pd>>

\* The invariant in these terms.
LEMMA FollowsIsReached ==
  AffineFollows <=> \A bg \in Affines : lcd.ref[bg] = Reached(lcd.halves[bg], bg, Lead(lcd.line, loaded[bg]))
  BY DEF AffineFollows, Reached, Lead

\* Where it was loaded it has made no step.
LEMMA ReachedAtOnce ==
  ASSUME scene \in Scenes, NEW bg \in Affines, NEW h \in Point
  PROVE  Reached(h, bg, 0) = ReloadBgRef(h)
<1>1. scene.bg[bg].pb \in Int /\ scene.bg[bg].pd \in Int
  BY PictureAssumption DEF Affines
<1>2. ReloadBgRef(h)[1] + 0 * scene.bg[bg].pb = ReloadBgRef(h)[1]
  BY <1>1, ReloadType
<1>3. ReloadBgRef(h)[2] + 0 * scene.bg[bg].pd = ReloadBgRef(h)[2]
  BY <1>1, ReloadType
<1>4. ReloadBgRef(h) = <<ReloadBgRef(h)[1], ReloadBgRef(h)[2]>>
  BY DEF ReloadBgRef
<1>. QED  BY <1>2, <1>3, <1>4 DEF Reached

\* Multiplied out.
LEMMA OneMoreStep ==
  ASSUME NEW a \in Int, NEW p \in Int, NEW n \in Nat
  PROVE  (a + n * p) + p = a + (n + 1) * p
<1>1. (n + 1) * p = n * p + p
  OBVIOUS
<1>2. n * p \in Int
  OBVIOUS
<1>. QED  BY <1>1, <1>2

\* The step between two lines.
LEMMA ReachedNext ==
  ASSUME scene \in Scenes, NEW bg \in Affines, NEW h \in Point, NEW n \in Nat,
         NEW l \in 1..LastDrawn
  PROVE  Advanced28(bg, l, Reached(h, bg, n)) = Reached(h, bg, n + 1)
<1>1. scene.bg[bg].pb \in Int /\ scene.bg[bg].pd \in Int
  BY PictureAssumption DEF Affines
<1>2. (ReloadBgRef(h)[1] + n * scene.bg[bg].pb) + scene.bg[bg].pb = ReloadBgRef(h)[1] + (n + 1) * scene.bg[bg].pb
  BY <1>1, ReloadType, OneMoreStep
<1>3. (ReloadBgRef(h)[2] + n * scene.bg[bg].pd) + scene.bg[bg].pd = ReloadBgRef(h)[2] + (n + 1) * scene.bg[bg].pd
  BY <1>1, ReloadType, OneMoreStep
<1>. QED  BY <1>2, <1>3 DEF Reached, Advanced28

-----------------------------------------------------------------------------
(* The invariant                                                           *)

\* What the lines and the writes keep of the registers.  A reference was loaded
\* on this line or before it in this frame; or the frame is over, and the next
\* line loads it.
LcdType ==
  /\ scene \in Scenes
  /\ lcd \in [line : 0..(Lines - 1), phase : {"drawn", "draw", "hblank"},
             vblank : BOOLEAN, hblank : BOOLEAN, match : BOOLEAN, vcount : Nat,
             halves : [Affines -> Point], ref : [Affines -> Int \X Int]]
  /\ loaded \in [Affines -> 0..Lines]
LoadedBefore == \A bg \in Affines : loaded[bg] <= lcd.line \/ lcd.line = Lines - 1
LcdInv == LcdType /\ LoadedBefore /\ AffineFollows

LEMMA ReloadPair ==
  ASSUME NEW h \in Point
  PROVE  ReloadBgRef(h) \in Int \X Int
<1>1. ReloadBgRef(h)[1] \in Int /\ ReloadBgRef(h)[2] \in Int
  BY ReloadType
<1>2. ReloadBgRef(h) = <<ReloadBgRef(h)[1], ReloadBgRef(h)[2]>>
  BY DEF ReloadBgRef
<1>. QED  BY <1>1, <1>2

\* A frame begins with its last line drawn: the next line loads every reference.
LEMMA InitLcd == LcdInit => LcdInv
<1>. SUFFICES ASSUME LcdInit PROVE LcdInv
  OBVIOUS
<1>. USE PictureAssumption
<1>h. scene \in Scenes /\ scene.halves \in [Affines -> Point]
  BY DEF LcdInit
<1>r. lcd.ref = [bg \in Affines |-> ReloadBgRef(scene.halves[bg])]
  BY DEF LcdInit
<1>t. [bg \in Affines |-> ReloadBgRef(scene.halves[bg])] \in [Affines -> Int \X Int]
  BY <1>h, ReloadPair
<1>1. LcdType
  <2>1. Lines - 1 \in 0..(Lines - 1) /\ 0 \in Nat
    OBVIOUS
  <2>2. lcd \in [line : 0..(Lines - 1), phase : {"drawn", "draw", "hblank"},
                 vblank : BOOLEAN, hblank : BOOLEAN, match : BOOLEAN, vcount : Nat,
                 halves : [Affines -> Point], ref : [Affines -> Int \X Int]]
    BY <1>h, <1>t, <2>1 DEF LcdInit
  <2>3. loaded \in [Affines -> 0..Lines]
    BY DEF LcdInit
  <2>. QED  BY <1>h, <2>2, <2>3 DEF LcdType
<1>2. LoadedBefore
  BY DEF LcdInit, LoadedBefore
<1>3. AffineFollows
  <2>. SUFFICES ASSUME NEW bg \in Affines
                PROVE  lcd.ref[bg] = Reached(lcd.halves[bg], bg, Lead(lcd.line, loaded[bg]))
    BY FollowsIsReached
  <2>1. lcd.halves[bg] \in Point /\ lcd.ref[bg] = ReloadBgRef(lcd.halves[bg])
    BY <1>h, <1>r DEF LcdInit
  <2>2. Lead(lcd.line, loaded[bg]) = 0
    BY DEF LcdInit, Lead, LastDrawn
  <2>. QED  BY <1>h, <2>1, <2>2, ReachedAtOnce
<1>. QED  BY <1>1, <1>2, <1>3 DEF LcdInv

\* A line begins.
LEMMA BeginLineLcd ==
  ASSUME LcdInv, BeginLine
  PROVE  LcdInv'
<1>a. High \in Nat \ {0} /\ Lines \in Nat /\ High < Lines
  BY PictureAssumption
<1>s. scene \in Scenes /\ scene' = scene
  BY DEF LcdInv, LcdType, BeginLine
<1>h. lcd.halves \in [Affines -> Point] /\ lcd.ref \in [Affines -> Int \X Int] /\ lcd.line \in 0..(Lines - 1)
  BY DEF LcdInv, LcdType
<1>i. lcd.line \in Int /\ 0 <= lcd.line /\ lcd.line <= Lines - 1
  BY <1>a, <1>h
<1>n. NextLine \in 0..(Lines - 1) /\ NextLine = IF lcd.line = Lines - 1 THEN 0 ELSE lcd.line + 1
  <2>. DEFINE l == lcd.line + 1
  <2>1. l \in 1..Lines /\ (l = Lines <=> lcd.line = Lines - 1)
    BY <1>a, <1>i
  <2>2. l % Lines = IF l = Lines THEN 0 ELSE l
    <3>. HIDE DEF l
    <3>1. CASE l = Lines
      BY <1>a, <3>1, <2>1
    <3>2. CASE l < Lines
      BY <1>a, <3>2, <2>1
    <3>. QED  BY <1>a, <2>1, <3>1, <3>2
  <2>. QED  BY <1>a, <1>i, <2>1, <2>2 DEF NextLine
<1>l. lcd'.line = NextLine /\ lcd'.halves = lcd.halves
  BY DEF BeginLine, LcdInv, LcdType
<1>r. lcd'.ref = [bg \in Affines |-> IF NextLine = 0 THEN ReloadBgRef(lcd.halves[bg])
                                     ELSE Advanced28(bg, NextLine, lcd.ref[bg])]
  BY DEF BeginLine, LcdInv, LcdType
<1>t. ASSUME NEW bg \in Affines
      PROVE  /\ Advanced28(bg, NextLine, lcd.ref[bg]) \in Int \X Int
             /\ ReloadBgRef(lcd.halves[bg]) \in Int \X Int
  <2>1. scene.bg[bg].pb \in Int /\ scene.bg[bg].pd \in Int
    BY <1>s, PictureAssumption
  <2>2. lcd.ref[bg] \in Int \X Int
    BY <1>h
  <2>3. Advanced28(bg, NextLine, lcd.ref[bg]) \in Int \X Int
    BY <2>1, <2>2 DEF Advanced28
  <2>. QED  BY <1>h, <2>3, ReloadPair
<1>1. LcdType'
  <2>1. lcd'.ref \in [Affines -> Int \X Int]
    BY <1>r, <1>t
  <2>2. lcd' \in [line : 0..(Lines - 1), phase : {"drawn", "draw", "hblank"},
                 vblank : BOOLEAN, hblank : BOOLEAN, match : BOOLEAN, vcount : Nat,
                 halves : [Affines -> Point], ref : [Affines -> Int \X Int]]
    <3>1. PICK ref \in [Affines -> Int \X Int] :
            lcd' = [lcd EXCEPT !.line = NextLine, !.phase = "draw", !.hblank = FALSE,
                               !.vblank = NextLine >= High /\ NextLine # Lines - 1,
                               !.match = NextLine = lcd.vcount, !.ref = ref]
      BY <1>t DEF BeginLine
    <3>. QED  BY <3>1, <1>n DEF LcdInv, LcdType
  <2>3. loaded' \in [Affines -> 0..Lines]
    BY <1>a DEF BeginLine, LcdInv, LcdType
  <2>. QED  BY <1>s, <2>2, <2>3 DEF LcdType
<1>2. LoadedBefore'
  BY <1>a, <1>i, <1>n, <1>l DEF BeginLine, LcdInv, LcdType, LoadedBefore
<1>3. AffineFollows'
  <2>. SUFFICES ASSUME NEW bg \in Affines
                PROVE  lcd'.ref[bg] = Reached(lcd.halves[bg], bg, Lead(NextLine, loaded'[bg]))
    BY <1>l, <1>s DEF AffineFollows, Reached, Lead
  <2>. DEFINE h == lcd.halves[bg]
  <2>1. h \in Point
    BY <1>h
  <2>2. lcd.ref[bg] = Reached(h, bg, Lead(lcd.line, loaded[bg]))
    BY FollowsIsReached DEF LcdInv
  <2>3. loaded[bg] \in 0..Lines /\ (loaded[bg] <= lcd.line \/ lcd.line = Lines - 1)
    BY DEF LcdInv, LcdType, LoadedBefore
  <2>4. CASE NextLine = 0
    <3>1. lcd'.ref[bg] = ReloadBgRef(h)
      BY <1>r, <2>4
    <3>2. Lead(NextLine, loaded'[bg]) = 0
      BY <1>a, <2>4 DEF BeginLine, Lead, LastDrawn
    <3>. QED  BY <1>s, <2>1, <3>1, <3>2, ReachedAtOnce
  <2>5. CASE NextLine \in 1..LastDrawn
    <3>1. loaded'[bg] = loaded[bg] /\ lcd'.ref[bg] = Advanced28(bg, NextLine, lcd.ref[bg])
      BY <1>r, <2>5 DEF BeginLine, LastDrawn
    <3>2. Lead(lcd.line, loaded[bg]) \in Nat /\ Lead(NextLine, loaded[bg]) = Lead(lcd.line, loaded[bg]) + 1
      BY <1>a, <1>i, <1>n, <2>3, <2>5 DEF Lead, LastDrawn
    <3>. QED  BY <1>s, <2>1, <2>2, <2>5, <3>1, <3>2, ReachedNext
  <2>6. CASE NextLine # 0 /\ NextLine \notin 1..LastDrawn
    <3>1. loaded'[bg] = loaded[bg] /\ lcd'.ref[bg] = lcd.ref[bg]
      BY <1>r, <2>6 DEF BeginLine, Advanced28
    <3>2. NextLine = lcd.line + 1 /\ ~(NextLine < High) /\ lcd.line >= LastDrawn
      BY <1>a, <1>i, <1>n, <2>6 DEF LastDrawn
    <3>3. Lead(NextLine, loaded[bg]) = Lead(lcd.line, loaded[bg])
      <4>1. CASE lcd.line < High
        <5>1. lcd.line = LastDrawn
          BY <1>a, <1>i, <3>2, <4>1 DEF LastDrawn
        <5>. QED  BY <3>2, <4>1, <5>1 DEF Lead
      <4>2. CASE ~(lcd.line < High)
        BY <3>2, <4>2 DEF Lead
      <4>. QED  BY <4>1, <4>2
    <3>. QED  BY <2>2, <3>1, <3>3
  <2>. QED  BY <2>4, <2>5, <2>6
<1>. QED  BY <1>1, <1>2, <1>3 DEF LcdInv

\* What moves nothing keeps the invariant.
LEMMA StillLcd ==
  ASSUME LcdInv, LcdType', UNCHANGED <<scene, loaded>>,
         lcd'.line = lcd.line, lcd'.halves = lcd.halves, lcd'.ref = lcd.ref
  PROVE  LcdInv'
<1>1. LoadedBefore' /\ AffineFollows'
  BY DEF LcdInv, LoadedBefore, AffineFollows
<1>. QED  BY <1>1 DEF LcdInv

LEMMA EnterHblankLcd ==
  ASSUME LcdInv, EnterHblank
  PROVE  LcdInv'
<1>1. LcdType'
  BY DEF EnterHblank, LcdInv, LcdType
<1>2. lcd'.line = lcd.line /\ lcd'.halves = lcd.halves /\ lcd'.ref = lcd.ref
  BY DEF EnterHblank, LcdInv, LcdType
<1>. QED  BY <1>1, <1>2, StillLcd DEF EnterHblank

LEMMA RenderLineLcd ==
  ASSUME LcdInv, RenderLine
  PROVE  LcdInv'
<1>0. lcd' = [lcd EXCEPT !.phase = "drawn"] /\ UNCHANGED <<scene, loaded>>
  BY DEF RenderLine
<1>1. LcdType'
  BY <1>0 DEF LcdInv, LcdType
<1>2. lcd'.line = lcd.line /\ lcd'.halves = lcd.halves /\ lcd'.ref = lcd.ref
  BY <1>0 DEF LcdInv, LcdType
<1>. QED  BY <1>0, <1>1, <1>2, StillLcd

LEMMA WriteDispstatLcd ==
  ASSUME LcdInv, WriteDispstat
  PROVE  LcdInv'
<1>0. PICK v \in 0..(Lines - 1) : lcd' = [lcd EXCEPT !.vcount = v]
  BY DEF WriteDispstat
<1>1. LcdType'
  BY <1>0 DEF WriteDispstat, LcdInv, LcdType
<1>2. lcd'.line = lcd.line /\ lcd'.halves = lcd.halves /\ lcd'.ref = lcd.ref
  BY <1>0 DEF LcdInv, LcdType
<1>. QED  BY <1>1, <1>2, StillLcd DEF WriteDispstat

\* A write to a reference point, in the middle of a frame.
LEMMA WriteReferenceLcd ==
  ASSUME LcdInv, WriteReference
  PROVE  LcdInv'
<1>. USE PictureAssumption
<1>h. /\ lcd.halves \in [Affines -> Point] /\ lcd.ref \in [Affines -> Int \X Int]
      /\ lcd.line \in 0..(Lines - 1) /\ scene \in Scenes
  BY DEF LcdInv, LcdType
<1>0. PICK bg \in Affines, k \in 1..4, v \in Halves :
        /\ lcd' = [lcd EXCEPT !.halves[bg][k] = v,
                              !.ref[bg] = ReloadBgRef([lcd.halves[bg] EXCEPT ![k] = v])]
        /\ loaded' = [loaded EXCEPT ![bg] = lcd.line]
        /\ scene' = scene
  BY DEF WriteReference
<1>. DEFINE p == [lcd.halves[bg] EXCEPT ![k] = v]
<1>p. p \in Point
  BY <1>h DEF Point
<1>1. lcd' = [lcd EXCEPT !.halves = [lcd.halves EXCEPT ![bg] = p],
                         !.ref = [lcd.ref EXCEPT ![bg] = ReloadBgRef(p)]]
  BY <1>0, <1>h
<1>. HIDE DEF p
<1>2. LcdType'
  <2>1. [lcd.halves EXCEPT ![bg] = p] \in [Affines -> Point]
    BY <1>h, <1>p
  <2>2. [lcd.ref EXCEPT ![bg] = ReloadBgRef(p)] \in [Affines -> Int \X Int]
    BY <1>h, <1>p, ReloadPair
  <2>3. loaded' \in [Affines -> 0..Lines]
    BY <1>0, <1>h DEF LcdInv, LcdType
  <2>. QED  BY <1>0, <1>1, <2>1, <2>2, <2>3 DEF LcdInv, LcdType
<1>3. /\ lcd'.line = lcd.line
      /\ lcd'.halves = [lcd.halves EXCEPT ![bg] = p]
      /\ lcd'.ref = [lcd.ref EXCEPT ![bg] = ReloadBgRef(p)]
  BY <1>1 DEF LcdInv, LcdType
<1>4. loaded \in [Affines -> 0..Lines]
  BY DEF LcdInv, LcdType
<1>5. LoadedBefore'
  BY <1>0, <1>3, <1>4, <1>h DEF LcdInv, LoadedBefore
<1>6. AffineFollows'
  <2>. SUFFICES ASSUME NEW b \in Affines
                PROVE  lcd'.ref[b] = Reached(lcd'.halves[b], b, Lead(lcd.line, loaded'[b]))
    BY <1>0, <1>3 DEF AffineFollows, Reached, Lead
  <2>1. CASE b = bg
    <3>1. lcd'.ref[b] = ReloadBgRef(p) /\ lcd'.halves[b] = p /\ loaded'[b] = lcd.line
      BY <1>0, <1>3, <1>4, <1>h, <2>1
    <3>2. Lead(lcd.line, loaded'[b]) = 0
      BY <1>h, <3>1 DEF Lead, LastDrawn
    <3>. QED  BY <1>h, <1>p, <3>1, <3>2, ReachedAtOnce
  <2>2. CASE b # bg
    <3>1. lcd'.ref[b] = lcd.ref[b] /\ lcd'.halves[b] = lcd.halves[b] /\ loaded'[b] = loaded[b]
      BY <1>0, <1>3, <1>4, <1>h, <2>2
    <3>. QED  BY <3>1, FollowsIsReached DEF LcdInv
  <2>. QED  BY <2>1, <2>2
<1>. QED  BY <1>2, <1>5, <1>6 DEF LcdInv

LEMMA NextLcd == LcdInv /\ [LcdNext]_lcdvars => LcdInv'
<1>. SUFFICES ASSUME LcdInv, [LcdNext]_lcdvars PROVE LcdInv'
  OBVIOUS
<1>1. CASE BeginLine
  BY <1>1, BeginLineLcd
<1>2. CASE EnterHblank
  BY <1>2, EnterHblankLcd
<1>3. CASE RenderLine
  BY <1>3, RenderLineLcd
<1>4. CASE WriteReference
  BY <1>4, WriteReferenceLcd
<1>5. CASE WriteDispstat
  BY <1>5, WriteDispstatLcd
<1>6. CASE UNCHANGED lcdvars
  <2>1. LcdType' /\ UNCHANGED <<scene, lcd, loaded>>
    BY <1>6 DEF lcdvars, LcdInv, LcdType
  <2>. QED  BY <2>1, StillLcd
<1>. QED  BY <1>1, <1>2, <1>3, <1>4, <1>5, <1>6 DEF LcdNext

\* Every line of an affine background is drawn from the point its registers hold,
\* moved by one step for each line drawn since they were loaded, whenever in a frame
\* a game writes them and however often (ppu.rs, begin_line and reload_bg_ref).
THEOREM BackgroundsFollow == PictureSpec => []AffineFollows
<1>1. LcdInv => AffineFollows
  BY DEF LcdInv
<1>. QED  BY InitLcd, NextLcd, <1>1, PTL DEF PictureSpec

-----------------------------------------------------------------------------
(* Sound *)

\* A sequence of n numbers, n of them or none when n is below 0.
LEMMA TimesLength ==
  ASSUME NEW n \in Int
  PROVE  \E c \in Nat : DOMAIN Times(n) = 1..c /\ \A k \in 1..c : Times(n)[k] = k
<1>1. CASE n >= 0
  BY <1>1 DEF Times
<1>2. CASE n < 0
  <2>1. 1..n = {} /\ 1..0 = {}
    BY <1>2
  <2>. QED  BY <2>1 DEF Times
<1>. QED  BY <1>1, <1>2

UnitParts == {"reg", "ram", "master", "fsCycle", "fsStep", "ch1", "ch2", "ch3", "ch4", "ds",
              "cycle", "hp", "ma", "out"}
SquarePlaces == {"timer", "phase", "env"}
WavePlaces == {"timer", "pos"}
NoisePlaces == {"timer", "lfsr", "env", "div", "shift"}
HasPlace(c, places) == places \subseteq DOMAIN c
IsNoise(c) == HasPlace(c, NoisePlaces) /\ c.timer \in Int /\ c.div \in 0..7 /\ c.shift \in 0..15
HasPlaces(x) == /\ HasPlace(x.ch1, SquarePlaces) /\ HasPlace(x.ch2, SquarePlaces)
                /\ HasPlace(x.ch3, WavePlaces) /\ IsNoise(x.ch4)
HasRegisters(x) == DOMAIN x.reg = 96..143 /\ \A o \in 96..143 : x.reg[o] \in Int
IsStream(d) ==
  /\ DOMAIN d = {"queue", "cur", "next", "period", "turns"}
  /\ d.queue \in Seq(Int) /\ d.cur \in Int /\ d.next \in Int /\ d.period \in Nat
HasStreams(x) == DOMAIN x.ds = Streams /\ \A s \in Streams : IsStream(x.ds[s])
HasClock(x) == x.fsCycle \in Nat /\ x.cycle \in Int
ResetsRead(x) == ~Bit(x.reg[131], 3) /\ ~Bit(x.reg[131], 7)
\* The unit whatever its registers hold: its streams are numbers and each channel
\* has a place in its waveform.
IsUnit(x) == DOMAIN x = UnitParts /\ HasPlaces(x) /\ HasRegisters(x) /\ HasStreams(x) /\ HasClock(x)
\* Between two calls the reset bits of SOUNDCNT_H read clear.
Steady(x) == IsUnit(x) /\ ResetsRead(x)

-----------------------------------------------------------------------------
(* Channels *)

LEMMA ChannelUnit ==
  ASSUME NEW x, IsUnit(x), NEW c
  PROVE  /\ HasPlace(c, SquarePlaces) => IsUnit([x EXCEPT !.ch1 = c]) /\ IsUnit([x EXCEPT !.ch2 = c])
         /\ HasPlace(c, WavePlaces) => IsUnit([x EXCEPT !.ch3 = c])
         /\ IsNoise(c) => IsUnit([x EXCEPT !.ch4 = c])
<1>1. ASSUME HasPlace(c, SquarePlaces) PROVE IsUnit([x EXCEPT !.ch1 = c])
  BY <1>1 DEF IsUnit, UnitParts, HasPlaces, HasRegisters, HasStreams, HasClock
<1>2. ASSUME HasPlace(c, SquarePlaces) PROVE IsUnit([x EXCEPT !.ch2 = c])
  BY <1>2 DEF IsUnit, UnitParts, HasPlaces, HasRegisters, HasStreams, HasClock
<1>3. ASSUME HasPlace(c, WavePlaces) PROVE IsUnit([x EXCEPT !.ch3 = c])
  BY <1>3 DEF IsUnit, UnitParts, HasPlaces, HasRegisters, HasStreams, HasClock
<1>4. ASSUME IsNoise(c) PROVE IsUnit([x EXCEPT !.ch4 = c])
  BY <1>4 DEF IsUnit, UnitParts, HasPlaces, HasRegisters, HasStreams, HasClock
<1>. QED  BY <1>1, <1>2, <1>3, <1>4

LEMMA PlacesKept ==
  ASSUME NEW c, NEW places, HasPlace(c, places)
  PROVE  /\ HasPlace(LengthClocked(c), places) /\ HasPlace(SweepClocked(c), places)
         /\ HasPlace(SquareTriggered(c), places) /\ HasPlace(WaveTriggered(c), places)
         /\ HasPlace(Silenced(c), places)
         /\ \A n : HasPlace(SquareAdvanced(c, n), places) /\ HasPlace(WaveAdvanced(c, n), places)
         /\ \A e : HasPlace([c EXCEPT !.env = e], places)
<1>1. HasPlace(LengthClocked(c), places) /\ HasPlace(Silenced(c), places)
  BY DEF HasPlace, LengthClocked, Silenced
<1>2. HasPlace(SweepClocked(c), places)
  BY DEF HasPlace, SweepClocked
<1>3. HasPlace(SquareTriggered(c), places) /\ HasPlace(WaveTriggered(c), places)
  BY DEF HasPlace, SquareTriggered, WaveTriggered
<1>4. \A n : HasPlace(SquareAdvanced(c, n), places) /\ HasPlace(WaveAdvanced(c, n), places)
  BY DEF HasPlace, SquareAdvanced, WaveAdvanced, Counted
<1>5. \A e : HasPlace([c EXCEPT !.env = e], places)
  BY DEF HasPlace
<1>. QED  BY <1>1, <1>2, <1>3, <1>4, <1>5

LEMMA PowerOf == ASSUME NEW k \in 0..14 PROVE 2^k \in Nat /\ 2^k > 0
<1>1. \/ k = 0 \/ k = 1 \/ k = 2 \/ k = 3 \/ k = 4 \/ k = 5 \/ k = 6 \/ k = 7
      \/ k = 8 \/ k = 9 \/ k = 10 \/ k = 11 \/ k = 12 \/ k = 13 \/ k = 14
  OBVIOUS
<1>2. /\ (k = 0 => 2^k = 2^0) /\ (k = 1 => 2^k = 2^1) /\ (k = 2 => 2^k = 2^2) /\ (k = 3 => 2^k = 2^3)
      /\ (k = 4 => 2^k = 2^4) /\ (k = 5 => 2^k = 2^5) /\ (k = 6 => 2^k = 2^6) /\ (k = 7 => 2^k = 2^7)
      /\ (k = 8 => 2^k = 2^8) /\ (k = 9 => 2^k = 2^9) /\ (k = 10 => 2^k = 2^10) /\ (k = 11 => 2^k = 2^11)
      /\ (k = 12 => 2^k = 2^12) /\ (k = 13 => 2^k = 2^13) /\ (k = 14 => 2^k = 2^14)
  BY Zenon
<1>3. /\ 2^0 \in Nat /\ 2^0 > 0 /\ 2^1 \in Nat /\ 2^1 > 0 /\ 2^2 \in Nat /\ 2^2 > 0 /\ 2^3 \in Nat /\ 2^3 > 0
      /\ 2^4 \in Nat /\ 2^4 > 0 /\ 2^5 \in Nat /\ 2^5 > 0 /\ 2^6 \in Nat /\ 2^6 > 0 /\ 2^7 \in Nat /\ 2^7 > 0
      /\ 2^8 \in Nat /\ 2^8 > 0 /\ 2^9 \in Nat /\ 2^9 > 0 /\ 2^10 \in Nat /\ 2^10 > 0 /\ 2^11 \in Nat /\ 2^11 > 0
      /\ 2^12 \in Nat /\ 2^12 > 0 /\ 2^13 \in Nat /\ 2^13 > 0 /\ 2^14 \in Nat /\ 2^14 > 0
  OBVIOUS
<1>. QED  BY <1>1, <1>2, <1>3, Zenon

LEMMA NoisePeriodType ==
  ASSUME NEW c, IsNoise(c)
  PROVE  NoisePeriod(c) \in Nat /\ NoisePeriod(c) > 0
<1> DEFINE d == IF c.div = 0 THEN 8 ELSE 16 * c.div
           k == IF c.shift > 14 THEN 14 ELSE c.shift
<1>1. d \in Nat /\ d > 0 /\ k \in 0..14
  BY DEF IsNoise
<1>2. 2^k \in Nat /\ 2^k > 0
  BY <1>1, PowerOf
<1>3. NoisePeriod(c) = d * 2^k * 4
  BY DEF NoisePeriod
<1> HIDE DEF d, k
<1>4. \A p, q \in Nat : p > 0 /\ q > 0 => p * q * 4 \in Nat /\ p * q * 4 > 0
  OBVIOUS
<1>. QED  BY <1>1, <1>2, <1>3, <1>4

LEMMA NoiseKept ==
  ASSUME NEW c, IsNoise(c)
  PROVE  /\ IsNoise(LengthClocked(c)) /\ IsNoise(Silenced(c)) /\ IsNoise(NoiseTriggered(c))
         /\ \A e : IsNoise([c EXCEPT !.env = e]) /\ IsNoise([c EXCEPT !.lfsr = e])
<1>1. IsNoise(LengthClocked(c)) /\ IsNoise(Silenced(c))
  BY DEF HasPlace, IsNoise, NoisePlaces, LengthClocked, Silenced
<1>2. NoisePeriod(c) \in Int
  BY NoisePeriodType
<1>3. IsNoise(NoiseTriggered(c))
  BY <1>2 DEF HasPlace, IsNoise, NoisePlaces, NoiseTriggered
<1>4. \A e : IsNoise([c EXCEPT !.env = e]) /\ IsNoise([c EXCEPT !.lfsr = e])
  BY DEF HasPlace, IsNoise, NoisePlaces
<1>. QED  BY <1>1, <1>3, <1>4

NoiseStep(e, c, k) == Shifted(c, k)
NoiseHolds(e, c) == IsNoise(c)
NoiseFold == INSTANCE FoldProofs WITH Op <- NoiseStep, Holds <- NoiseHolds

LEMMA NoiseAdvances ==
  ASSUME NEW c, IsNoise(c), NEW n \in Int
  PROVE  IsNoise(NoiseAdvanced(c, n))
<1> DEFINE p == NoisePeriod(c)
           t == Turns(c, n, p)
           d == Counted(c, n, p)
<1>1. p \in Nat /\ p > 0 /\ c.timer \in Int
  BY NoisePeriodType DEF IsNoise
<1> HIDE DEF p
<1>2. t \in Int
  <2>1. (n - c.timer) \div p \in Int
    BY <1>1
  <2>. QED  BY <2>1 DEF Turns
<1>3. c.timer - n + t * p \in Int
  BY <1>1, <1>2
<1>4. NoiseHolds(c, d)
  BY <1>3 DEF NoiseHolds, IsNoise, HasPlace, NoisePlaces, Counted
<1>5. PICK k \in Nat : DOMAIN Times(t) = 1..k
  BY <1>2, TimesLength
<1>6. \A a, j : NoiseHolds(c, a) => NoiseHolds(c, NoiseStep(c, a, j))
  BY NoiseKept DEF NoiseHolds, NoiseStep, Shifted
<1> HIDE DEF t, d
<1>7. NoiseHolds(c, NoiseFold!Folded(c, d, Times(t)))
  BY <1>4, <1>5, <1>6, NoiseFold!FoldKeeps
<1>8. NoiseAdvanced(c, n) = IF ~c.enabled THEN c ELSE NoiseFold!Folded(c, d, Times(t))
  BY DEF NoiseAdvanced, NoiseStep, d, t, p, NoiseFold!Folded, FoldLeft,
         NoiseFold!MapThenFoldSet, MapThenFoldSet, NoiseFold!Greatest, Max
<1>. QED  BY <1>7, <1>8 DEF NoiseHolds

-----------------------------------------------------------------------------
(* Registers *)

\* From x to y nothing is changed but the channels, the registers and what is left
\* out of a saved state.
Aside(x, y) ==
  /\ IsUnit(y)
  /\ y.ram = x.ram /\ y.master = x.master /\ y.fsCycle = x.fsCycle /\ y.fsStep = x.fsStep
  /\ y.cycle = x.cycle /\ y.hp = x.hp /\ y.ma = x.ma /\ \A s \in Streams : y.ds[s] = x.ds[s]

LEMMA ChannelAside ==
  ASSUME NEW x, IsUnit(x), NEW c
  PROVE  /\ HasPlace(c, SquarePlaces) => /\ Aside(x, [x EXCEPT !.ch1 = c]) /\ [x EXCEPT !.ch1 = c].reg = x.reg
                                         /\ Aside(x, [x EXCEPT !.ch2 = c]) /\ [x EXCEPT !.ch2 = c].reg = x.reg
         /\ HasPlace(c, WavePlaces) => Aside(x, [x EXCEPT !.ch3 = c]) /\ [x EXCEPT !.ch3 = c].reg = x.reg
         /\ IsNoise(c) => Aside(x, [x EXCEPT !.ch4 = c]) /\ [x EXCEPT !.ch4 = c].reg = x.reg
  BY ChannelUnit DEF Aside, IsUnit, UnitParts

LEMMA RegisterType ==
  ASSUME NEW x, IsUnit(x), NEW off \in 96..142
  PROVE  Reg16(x, off) \in Int
<1>1. off \in 96..143 /\ off + 1 \in 96..143
  OBVIOUS
<1>2. x.reg[off] \in Int /\ x.reg[off + 1] \in Int
  BY <1>1 DEF IsUnit, HasRegisters
<1>. QED  BY <1>2 DEF Reg16

LEMMA SquareDecodedPlace ==
  ASSUME NEW x, NEW c, HasPlace(c, SquarePlaces), NEW env, NEW freq, NEW off
  PROVE  HasPlace(SquareDecoded(x, c, env, freq, off), SquarePlaces)
<1> DEFINE d == [c EXCEPT !.env = EnvSet(@, Reg16(x, env)), !.dacOn = Reg16(x, env) >= 2048,
                          !.duty = Field(Reg16(x, env), 6, 2),
                          !.length = IF off = env THEN 64 - (Reg16(x, env) % 64) ELSE @,
                          !.freq = Reg16(x, freq) % 2048, !.lengthEnable = Bit(Reg16(x, freq), 14)]
<1>1. HasPlace(d, SquarePlaces)
  BY DEF HasPlace
<1>2. SquareDecoded(x, c, env, freq, off) =
        Silenced(IF off = freq + 1 /\ Bit(Reg16(x, freq), 15) THEN SquareTriggered(d) ELSE d)
  BY DEF SquareDecoded
<1> HIDE DEF d
<1>. QED  BY <1>1, <1>2, PlacesKept
LEMMA WaveDecodedPlace ==
  ASSUME NEW x, IsUnit(x), NEW off
  PROVE  HasPlace(WaveDecoded(x, off), WavePlaces)
<1> DEFINE h == Reg16(x, 114)
           f == Reg16(x, 116)
           d == [x.ch3 EXCEPT !.mode64 = Bit(x.reg[112], 5), !.bank = Field(x.reg[112], 6, 1), !.dacOn = Bit(x.reg[112], 7),
                              !.length = IF off \in {114, 115} THEN 256 - (h % 256) ELSE @,
                              !.volume = Field(h, 13, 2), !.force75 = Bit(h, 15), !.freq = f % 2048,
                              !.lengthEnable = Bit(f, 14)]
<1>1. HasPlace(d, WavePlaces)
  BY DEF HasPlace, IsUnit, HasPlaces
<1>2. WaveDecoded(x, off) = Silenced(IF off = 117 /\ Bit(f, 15) THEN WaveTriggered(d) ELSE d)
  BY DEF WaveDecoded
<1> HIDE DEF d
<1>. QED  BY <1>1, <1>2, PlacesKept
LEMMA NoiseDecodedPlace ==
  ASSUME NEW x, IsUnit(x), NEW off
  PROVE  IsNoise(NoiseDecoded(x, off))
<1> DEFINE s == Reg16(x, 120)
           f == Reg16(x, 124)
           d == [x.ch4 EXCEPT !.length = 64 - (s % 64), !.env = EnvSet(@, s), !.dacOn = s >= 2048,
                              !.div = f % 8, !.width7 = Bit(f, 3), !.shift = Field(f, 4, 4), !.lengthEnable = Bit(f, 14)]
<1>1. f \in Int
  BY RegisterType
<1>2. f % 8 \in 0..7 /\ Field(f, 4, 4) \in 0..15
  <2> HIDE DEF f
  <2>1. 2^4 = 16
    OBVIOUS
  <2>2. f \div 16 \in Int
    BY <1>1
  <2>. QED  BY <1>1, <2>2 DEF Field
<1>3. IsNoise(d)
  <2> HIDE DEF f, s
  <2>. QED  BY <1>2 DEF HasPlace, IsUnit, HasPlaces, IsNoise, NoisePlaces
<1>4. NoiseDecoded(x, off) = Silenced(IF off = 125 /\ Bit(f, 15) THEN NoiseTriggered(d) ELSE d)
  BY DEF NoiseDecoded
<1> HIDE DEF d
<1>. QED  BY <1>3, <1>4, NoiseKept

LEMMA ResetBits ==
  ASSUME NEW r \in Int
  PROVE  LET v == r - Field(r, 3, 1) * 8 - Field(r, 7, 1) * 128
         IN  v \in Int /\ ~Bit(v, 3) /\ ~Bit(v, 7)
<1>1. /\ Field(r, 3, 1) = (r \div 8) % 2 /\ Field(r, 7, 1) = (r \div 128) % 2
      /\ \A v : (Bit(v, 3) <=> (v \div 8) % 2 = 1) /\ (Bit(v, 7) <=> (v \div 128) % 2 = 1)
  BY DEF Field, Bit
<1>2. (r \div 8) % 2 \in {0, 1} /\ (r \div 128) % 2 \in {0, 1}
  OBVIOUS
<1>3. ASSUME NEW b \in {0, 1}, NEW c \in {0, 1}, b = (r \div 8) % 2, c = (r \div 128) % 2
      PROVE  ((r - b * 8 - c * 128) \div 8) % 2 = 0 /\ ((r - b * 8 - c * 128) \div 128) % 2 = 0
  BY <1>3
<1> DEFINE b == (r \div 8) % 2
           c == (r \div 128) % 2
           v == r - b * 8 - c * 128
<1>4. v \in Int /\ (v \div 8) % 2 = 0 /\ (v \div 128) % 2 = 0
  <2>1. b \in {0, 1} /\ c \in {0, 1}
    BY <1>2
  <2>2. b = (r \div 8) % 2 /\ c = (r \div 128) % 2
    OBVIOUS
  <2> HIDE DEF b, c
  <2>. QED  BY <1>3, <2>1, <2>2
<1>5. r - Field(r, 3, 1) * 8 - Field(r, 7, 1) * 128 = v
  BY <1>1
<1> HIDE DEF v
<1>. QED  BY <1>1, <1>4, <1>5

LEMMA QueuesResetSteady ==
  ASSUME NEW x, IsUnit(x)
  PROVE  /\ Steady(QueuesReset(x)) /\ QueuesReset(x).cycle = x.cycle
         /\ ResetsRead(x) => Aside(x, QueuesReset(x))
<1> DEFINE r == x.reg[131]
           v == r - Field(r, 3, 1) * 8 - Field(r, 7, 1) * 128
           streams == [s \in Streams |-> IF Bit(r, IF s = "a" THEN 3 ELSE 7) THEN [x.ds[s] EXCEPT !.queue = <<>>]
                                         ELSE x.ds[s]]
           y == [x EXCEPT !.ds = streams, !.reg = [x.reg EXCEPT ![131] = v]]
<1>1. r \in Int
  BY 131 \in 96..143 DEF IsUnit, HasRegisters
<1>2. v \in Int /\ ~Bit(v, 3) /\ ~Bit(v, 7)
  <2> HIDE DEF r
  <2>. QED  BY <1>1, ResetBits
<1>3. QueuesReset(x) = y
  BY DEF QueuesReset
<1>4. DOMAIN streams = Streams /\ \A s \in Streams : IsStream(streams[s])
  BY DEF IsUnit, HasStreams, IsStream
<1>5. ResetsRead(x) => \A s \in Streams : streams[s] = x.ds[s]
  BY DEF ResetsRead, Streams
<1> HIDE DEF streams, v, r
<1>6. y.reg[131] = v /\ IsUnit(y) /\ y.cycle = x.cycle /\ y.ds = streams
  <2>1. y.reg = [x.reg EXCEPT ![131] = v] /\ y.ds = streams /\ DOMAIN y = DOMAIN x
    BY DEF IsUnit, UnitParts
  <2>2. HasRegisters(y) /\ y.reg[131] = v
    BY <1>2, <2>1 DEF IsUnit, HasRegisters
  <2>3. HasStreams(y)
    BY <1>4, <2>1 DEF HasStreams
  <2>4. HasPlaces(y) /\ HasClock(y) /\ y.cycle = x.cycle
    BY DEF IsUnit, UnitParts, HasPlaces, HasClock
  <2>. QED  BY <2>1, <2>2, <2>3, <2>4 DEF IsUnit
<1>7. ResetsRead(x) => Aside(x, y)
  <2>1. /\ y.ram = x.ram /\ y.master = x.master /\ y.fsCycle = x.fsCycle /\ y.fsStep = x.fsStep
        /\ y.hp = x.hp /\ y.ma = x.ma
    BY DEF IsUnit, UnitParts
  <2>. QED  BY <1>5, <1>6, <2>1 DEF Aside
<1> HIDE DEF y
<1>. QED  BY <1>2, <1>3, <1>6, <1>7 DEF Steady, ResetsRead

LEMMA DecodeAside ==
  ASSUME NEW x, IsUnit(x), NEW off, off # 131
  PROVE  Aside(x, Decode(x, off)) /\ Decode(x, off).reg = x.reg
<1>1. CASE off \in 96..101
  <2> DEFINE c == [x.ch1 EXCEPT !.sweepShift = x.reg[96] % 8, !.sweepDown = Bit(x.reg[96], 3),
                                !.sweepPeriod = Field(x.reg[96], 4, 3)]
             d == SquareDecoded(x, c, 98, 100, off)
  <2>1. HasPlace(c, SquarePlaces)
    BY DEF IsUnit, HasPlaces, HasPlace
  <2>2. Decode(x, off) = [x EXCEPT !.ch1 = d]
    BY <1>1 DEF Decode
  <2> HIDE DEF c
  <2>3. HasPlace(d, SquarePlaces)
    BY <2>1, SquareDecodedPlace
  <2> HIDE DEF d
  <2>4. Aside(x, [x EXCEPT !.ch1 = d]) /\ [x EXCEPT !.ch1 = d].reg = x.reg
    BY <2>3, ChannelAside
  <2>. QED  BY <2>2, <2>4
<1>2. CASE off \in 104..109
  <2> DEFINE d == SquareDecoded(x, x.ch2, 104, 108, off)
  <2>1. Decode(x, off) = [x EXCEPT !.ch2 = d]
    BY <1>2 DEF Decode
  <2>2. HasPlace(d, SquarePlaces)
    BY SquareDecodedPlace DEF IsUnit, HasPlaces
  <2> HIDE DEF d
  <2>3. Aside(x, [x EXCEPT !.ch2 = d]) /\ [x EXCEPT !.ch2 = d].reg = x.reg
    BY <2>2, ChannelAside
  <2>. QED  BY <2>1, <2>3
<1>3. CASE off \in 112..117
  <2>1. Decode(x, off) = [x EXCEPT !.ch3 = WaveDecoded(x, off)]
    BY <1>3 DEF Decode
  <2>2. HasPlace(WaveDecoded(x, off), WavePlaces)
    BY WaveDecodedPlace
  <2>3. Aside(x, [x EXCEPT !.ch3 = WaveDecoded(x, off)]) /\ [x EXCEPT !.ch3 = WaveDecoded(x, off)].reg = x.reg
    BY <2>2, ChannelAside
  <2>. QED  BY <2>1, <2>3
<1>4. CASE off \in 120..125
  <2>1. Decode(x, off) = [x EXCEPT !.ch4 = NoiseDecoded(x, off)]
    BY <1>4 DEF Decode
  <2>2. IsNoise(NoiseDecoded(x, off))
    BY NoiseDecodedPlace
  <2>3. Aside(x, [x EXCEPT !.ch4 = NoiseDecoded(x, off)]) /\ [x EXCEPT !.ch4 = NoiseDecoded(x, off)].reg = x.reg
    BY <2>2, ChannelAside
  <2>. QED  BY <2>1, <2>3
<1>5. CASE off \notin (96..101) \cup (104..109) \cup (112..117) \cup (120..125)
  <2>1. Decode(x, off) = x
    BY <1>5 DEF Decode
  <2>. QED  BY <2>1 DEF Aside
<1>. QED  BY <1>1, <1>2, <1>3, <1>4, <1>5

\* From x to y no time passes.
Still(x, y) == Steady(y) /\ y.cycle = x.cycle

LEMMA AsideStill ==
  ASSUME NEW x, Steady(x), NEW y, Aside(x, y), y.reg = x.reg
  PROVE  Still(x, y)
  BY DEF Steady, Still, Aside, ResetsRead

LEMMA PushedStill ==
  ASSUME NEW x, Steady(x), NEW s \in Streams, NEW v \in Int
  PROVE  Still(x, Pushed(x, s, v))
<1> DEFINE d == [x.ds[s] EXCEPT !.queue = Push(x.ds[s].queue, v)]
           y == [x EXCEPT !.ds = [x.ds EXCEPT ![s] = d]]
<1>1. IsStream(x.ds[s])
  BY DEF Steady, IsUnit, HasStreams
<1>2. Push(x.ds[s].queue, v) \in Seq(Int)
  BY <1>1 DEF Push, IsStream
<1>3. IsStream(d)
  <2>1. DOMAIN d = DOMAIN x.ds[s] /\ d.cur = x.ds[s].cur /\ d.next = x.ds[s].next /\ d.period = x.ds[s].period
    BY <1>1 DEF IsStream
  <2>2. d.queue = Push(x.ds[s].queue, v)
    BY <1>1 DEF IsStream
  <2> HIDE DEF d
  <2>. QED  BY <1>1, <1>2, <2>1, <2>2 DEF IsStream
<1>4. Pushed(x, s, v) = y
  BY DEF Pushed
<1> HIDE DEF d
<1>5. y.ds = [x.ds EXCEPT ![s] = d] /\ y.reg = x.reg /\ y.cycle = x.cycle /\ DOMAIN y = UnitParts
  BY DEF Steady, IsUnit, UnitParts
<1>6. HasPlaces(y) /\ HasClock(y)
  BY DEF Steady, IsUnit, HasPlaces, HasClock, UnitParts
<1>7. HasStreams(y)
  <2>1. DOMAIN y.ds = Streams /\ y.ds[s] = d /\ \A o \in Streams \ {s} : y.ds[o] = x.ds[o]
    BY <1>5 DEF Steady, IsUnit, HasStreams
  <2> HIDE DEF y
  <2>. QED  BY <1>3, <2>1 DEF Steady, IsUnit, HasStreams
<1> HIDE DEF y
<1>. QED  BY <1>4, <1>5, <1>6, <1>7 DEF Still, Steady, IsUnit, HasRegisters, ResetsRead

LEMMA RegisterWritten ==
  ASSUME NEW x, Steady(x), NEW off \in Int, NEW val \in Int
  PROVE  LET y == [x EXCEPT !.reg[off] = val]
         IN  IsUnit(y) /\ y.cycle = x.cycle /\ (off # 131 => Still(x, y))
<1> DEFINE y == [x EXCEPT !.reg = [x.reg EXCEPT ![off] = val]]
<1>1. /\ y.reg = [x.reg EXCEPT ![off] = val] /\ y.ds = x.ds /\ y.cycle = x.cycle /\ y.fsCycle = x.fsCycle
      /\ DOMAIN y = UnitParts /\ HasPlaces(y)
  BY DEF Steady, IsUnit, UnitParts, HasPlaces
<1> HIDE DEF y
<1>2. HasRegisters(y) /\ (off # 131 => y.reg[131] = x.reg[131])
  BY <1>1 DEF Steady, IsUnit, HasRegisters
<1>3. IsUnit(y)
  BY <1>1, <1>2 DEF Steady, IsUnit, HasStreams, HasClock
<1>. QED  BY <1>1, <1>2, <1>3 DEF Still, Steady, ResetsRead, y

LEMMA WriteStill ==
  ASSUME NEW x, Steady(x), NEW off \in Int, NEW val \in Int
  PROVE  Still(x, Write8(x, off, val))
<1>1. CASE off \in 160..163
  <2>1. Signed(val, 8) \in Int /\ "a" \in Streams
    BY DEF Signed, Streams
  <2>2. Write8(x, off, val) = Pushed(x, "a", Signed(val, 8))
    BY <1>1 DEF Write8
  <2>. QED  BY <2>1, <2>2, PushedStill
<1>2. CASE off \in 164..167
  <2>1. Signed(val, 8) \in Int /\ "b" \in Streams
    BY DEF Signed, Streams
  <2>2. Write8(x, off, val) = Pushed(x, "b", Signed(val, 8))
    BY <1>2 DEF Write8
  <2>. QED  BY <2>1, <2>2, PushedStill
<1>3. CASE off \in 144..159
  <2> DEFINE y == [x EXCEPT !.ram = [x.ram EXCEPT ![off - 144] = val]]
  <2>1. Write8(x, off, val) = y
    BY <1>3 DEF Write8
  <2>2. /\ y.reg = x.reg /\ y.ds = x.ds /\ y.cycle = x.cycle /\ y.fsCycle = x.fsCycle
        /\ DOMAIN y = UnitParts /\ HasPlaces(y)
    BY DEF Steady, IsUnit, UnitParts, HasPlaces
  <2> HIDE DEF y
  <2>. QED  BY <2>1, <2>2 DEF Still, Steady, IsUnit, HasRegisters, HasStreams, HasClock, ResetsRead
<1>4. CASE off = 132
  <2> DEFINE reg == [o \in DOMAIN x.reg |-> IF o < 132 THEN 0 ELSE x.reg[o]]
             on  == [x EXCEPT !.master = TRUE]
             out == [x EXCEPT !.master = FALSE, !.ch1 = Square0, !.ch2 = Square0, !.ch3 = Wave0, !.ch4 = Noise0,
                              !.reg = reg]
  <2>1. Write8(x, off, val) = IF Bit(val, 7) THEN on ELSE out
    BY <1>4 DEF Write8
  <2>2. /\ on.reg = x.reg /\ on.ds = x.ds /\ on.cycle = x.cycle /\ on.fsCycle = x.fsCycle
        /\ DOMAIN on = UnitParts /\ HasPlaces(on)
    BY DEF Steady, IsUnit, UnitParts, HasPlaces
  <2>3. Still(x, on)
    <3> HIDE DEF on
    <3>. QED  BY <2>2 DEF Still, Steady, IsUnit, HasRegisters, HasStreams, HasClock, ResetsRead
  <2>4. /\ DOMAIN reg = 96..143 /\ reg[131] = 0 /\ \A o \in 96..143 : reg[o] \in Int
    BY DEF Steady, IsUnit, HasRegisters
  <2> HIDE DEF reg
  <2>5. /\ out.reg = reg /\ out.ds = x.ds /\ out.cycle = x.cycle /\ out.fsCycle = x.fsCycle
        /\ DOMAIN out = UnitParts /\ out.ch1 = Square0 /\ out.ch2 = Square0 /\ out.ch3 = Wave0 /\ out.ch4 = Noise0
    BY DEF Steady, IsUnit, UnitParts
  <2>6. HasPlace(Square0, SquarePlaces) /\ HasPlace(Wave0, WavePlaces) /\ IsNoise(Noise0)
    BY DEF HasPlace, SquarePlaces, WavePlaces, NoisePlaces, IsNoise, Square0, Wave0, Noise0
  <2>7. ~Bit(0, 3) /\ ~Bit(0, 7)
    BY DEF Bit
  <2> HIDE DEF out
  <2>8. IsUnit(out) /\ ResetsRead(out)
    BY <2>4, <2>5, <2>6, <2>7
       DEF Steady, IsUnit, HasPlaces, HasRegisters, HasStreams, HasClock, ResetsRead
  <2>. QED  BY <2>1, <2>3, <2>5, <2>8 DEF Still, Steady
<1>5. CASE off \notin (160..167) \cup (144..159) \cup {132} /\ off < 130 /\ ~x.master
  <2>1. Write8(x, off, val) = x
    BY <1>5 DEF Write8
  <2>. QED  BY <2>1 DEF Still
<1>6. CASE off \notin (160..167) \cup (144..159) \cup {132} /\ ~(off < 130 /\ ~x.master)
  <2> DEFINE y == [x EXCEPT !.reg[off] = val]
  <2>1. Write8(x, off, val) = Decode(y, off)
    BY <1>6 DEF Write8
  <2>2. IsUnit(y) /\ y.cycle = x.cycle /\ (off # 131 => Still(x, y))
    BY RegisterWritten
  <2> HIDE DEF y
  <2>3. CASE off = 131
    <3>1. Decode(y, off) = QueuesReset(y)
      BY <2>3 DEF Decode
    <3>. QED  BY <2>1, <2>2, <3>1, QueuesResetSteady DEF Still
  <2>4. CASE off # 131
    <3>1. Aside(y, Decode(y, off)) /\ Decode(y, off).reg = y.reg
      BY <2>2, <2>4, DecodeAside
    <3>. QED  BY <2>1, <2>2, <2>4, <3>1, AsideStill DEF Still
  <2>. QED  BY <2>3, <2>4
<1>. QED  BY <1>1, <1>2, <1>3, <1>4, <1>5, <1>6

-----------------------------------------------------------------------------
(* The clock *)

\* From x to y time passes or stands.
Later(x, y) == Steady(y) /\ x.cycle <= y.cycle

LEMMA ChannelStill ==
  ASSUME NEW x, NEW y, Still(x, y), NEW c
  PROVE  /\ HasPlace(c, SquarePlaces) => Still(x, [y EXCEPT !.ch1 = c]) /\ Still(x, [y EXCEPT !.ch2 = c])
         /\ HasPlace(c, WavePlaces) => Still(x, [y EXCEPT !.ch3 = c])
         /\ IsNoise(c) => Still(x, [y EXCEPT !.ch4 = c])
<1>1. Steady(y) /\ IsUnit(y) /\ y.cycle = x.cycle
  BY DEF Still, Steady
<1>2. ASSUME HasPlace(c, SquarePlaces) PROVE Still(x, [y EXCEPT !.ch1 = c]) /\ Still(x, [y EXCEPT !.ch2 = c])
  <2>1. Aside(y, [y EXCEPT !.ch1 = c]) /\ [y EXCEPT !.ch1 = c].reg = y.reg
    BY <1>1, <1>2, ChannelAside
  <2>2. Aside(y, [y EXCEPT !.ch2 = c]) /\ [y EXCEPT !.ch2 = c].reg = y.reg
    BY <1>1, <1>2, ChannelAside
  <2>. QED  BY <1>1, <2>1, <2>2, AsideStill DEF Still
<1>3. ASSUME HasPlace(c, WavePlaces) PROVE Still(x, [y EXCEPT !.ch3 = c])
  <2>1. Aside(y, [y EXCEPT !.ch3 = c]) /\ [y EXCEPT !.ch3 = c].reg = y.reg
    BY <1>1, <1>3, ChannelAside
  <2>. QED  BY <1>1, <2>1, AsideStill DEF Still
<1>4. ASSUME IsNoise(c) PROVE Still(x, [y EXCEPT !.ch4 = c])
  <2>1. Aside(y, [y EXCEPT !.ch4 = c]) /\ [y EXCEPT !.ch4 = c].reg = y.reg
    BY <1>1, <1>4, ChannelAside
  <2>. QED  BY <1>1, <2>1, AsideStill DEF Still
<1>. QED  BY <1>2, <1>3, <1>4

LEMMA FourChannels ==
  ASSUME NEW x, NEW y, Still(x, y), NEW c1, NEW c2, NEW c3, NEW c4,
         HasPlace(c1, SquarePlaces), HasPlace(c2, SquarePlaces), HasPlace(c3, WavePlaces), IsNoise(c4)
  PROVE  Still(x, [y EXCEPT !.ch1 = c1, !.ch2 = c2, !.ch3 = c3, !.ch4 = c4])
<1> DEFINE y1 == [y EXCEPT !.ch1 = c1]
           y2 == [y1 EXCEPT !.ch2 = c2]
           y3 == [y2 EXCEPT !.ch3 = c3]
           y4 == [y3 EXCEPT !.ch4 = c4]
<1>1. Still(x, y1)
  BY ChannelStill
<1>2. Still(x, y2)
  <2> HIDE DEF y1
  <2>. QED  BY <1>1, ChannelStill
<1>3. Still(x, y3)
  <2> HIDE DEF y2
  <2>. QED  BY <1>2, ChannelStill
<1>4. Still(x, y4)
  <2> HIDE DEF y3
  <2>. QED  BY <1>3, ChannelStill
<1>5. [y EXCEPT !.ch1 = c1, !.ch2 = c2, !.ch3 = c3, !.ch4 = c4] = y4
  OBVIOUS
<1>. QED  BY <1>4, <1>5

LEMMA FrameStill ==
  ASSUME NEW x, NEW y, Still(x, y)
  PROVE  Still(x, TickFrameSeq(y))
<1> DEFINE n == y.fsStep
           Lengths(u) == [u EXCEPT !.ch1 = LengthClocked(@), !.ch2 = LengthClocked(@),
                                   !.ch3 = LengthClocked(@), !.ch4 = LengthClocked(@)]
           a == IF n % 2 = 0 THEN Lengths(y) ELSE y
           z == IF n \in {2, 6} THEN [a EXCEPT !.ch1 = SweepClocked(@)] ELSE a
           w == IF n = 7 THEN [z EXCEPT !.ch1.env = EnvClocked(@), !.ch2.env = EnvClocked(@), !.ch4.env = EnvClocked(@)]
                ELSE z
<1>1. \A u : Still(x, u) => HasPlaces(u) /\ DOMAIN u = UnitParts
  BY DEF Still, Steady, IsUnit
<1>2. Still(x, a)
  <2>1. Lengths(y) = [y EXCEPT !.ch1 = LengthClocked(y.ch1), !.ch2 = LengthClocked(y.ch2),
                               !.ch3 = LengthClocked(y.ch3), !.ch4 = LengthClocked(y.ch4)]
    BY <1>1 DEF UnitParts
  <2>2. /\ HasPlace(LengthClocked(y.ch1), SquarePlaces) /\ HasPlace(LengthClocked(y.ch2), SquarePlaces)
        /\ HasPlace(LengthClocked(y.ch3), WavePlaces) /\ IsNoise(LengthClocked(y.ch4))
    BY <1>1, PlacesKept, NoiseKept DEF HasPlaces
  <2>. QED  BY <2>1, <2>2, FourChannels
<1> HIDE DEF a
<1>3. Still(x, z)
  <2>1. HasPlace(SweepClocked(a.ch1), SquarePlaces)
    BY <1>1, <1>2, PlacesKept DEF HasPlaces
  <2>2. Still(x, [a EXCEPT !.ch1 = SweepClocked(a.ch1)])
    BY <1>2, <2>1, ChannelStill
  <2>. QED  BY <1>2, <2>2
<1> HIDE DEF z
<1>4. Still(x, w)
  <2> DEFINE c1 == [z.ch1 EXCEPT !.env = EnvClocked(@)]
             c2 == [z.ch2 EXCEPT !.env = EnvClocked(@)]
             c4 == [z.ch4 EXCEPT !.env = EnvClocked(@)]
             u == [z EXCEPT !.ch1 = c1, !.ch2 = c2, !.ch3 = z.ch3, !.ch4 = c4]
  <2>1. HasPlace(c1, SquarePlaces) /\ HasPlace(c2, SquarePlaces) /\ HasPlace(z.ch3, WavePlaces) /\ IsNoise(c4)
    <3>1. HasPlaces(z)
      BY <1>1, <1>3
    <3>2. HasPlace(c1, SquarePlaces)
      BY <3>1 DEF HasPlace, HasPlaces
    <3>3. HasPlace(c2, SquarePlaces)
      BY <3>1 DEF HasPlace, HasPlaces
    <3>4. IsNoise(c4)
      BY <3>1 DEF HasPlace, HasPlaces, IsNoise, NoisePlaces
    <3>. QED  BY <3>1, <3>2, <3>3, <3>4 DEF HasPlaces
  <2>2. [z EXCEPT !.ch1.env = EnvClocked(@), !.ch2.env = EnvClocked(@), !.ch4.env = EnvClocked(@)]
        = [z EXCEPT !.ch1 = c1, !.ch2 = c2, !.ch4 = c4]
    OBVIOUS
  <2> HIDE DEF c1, c2, c4
  <2>3. Still(x, [z EXCEPT !.ch1 = c1, !.ch2 = c2, !.ch4 = c4])
    <3> DEFINE y1 == [z EXCEPT !.ch1 = c1]
               y2 == [y1 EXCEPT !.ch2 = c2]
               y4 == [y2 EXCEPT !.ch4 = c4]
    <3>1. Still(x, y1)
      BY <1>3, <2>1, ChannelStill
    <3>2. Still(x, y2)
      <4> HIDE DEF y1
      <4>. QED  BY <2>1, <3>1, ChannelStill
    <3>3. Still(x, y4)
      <4> HIDE DEF y2
      <4>. QED  BY <2>1, <3>2, ChannelStill
    <3>4. [z EXCEPT !.ch1 = c1, !.ch2 = c2, !.ch4 = c4] = y4
      OBVIOUS
    <3>. QED  BY <3>3, <3>4
  <2>. QED  BY <1>3, <2>2, <2>3
<1>5. TickFrameSeq(y) = [w EXCEPT !.fsStep = (n + 1) % 8]
  BY DEF TickFrameSeq, a, z
<1> HIDE DEF w, n
<1>6. \A u, v : Still(x, u) => Still(x, [u EXCEPT !.fsStep = v])
  BY DEF Still, Steady, IsUnit, HasPlaces, HasRegisters, HasStreams, HasClock, ResetsRead, UnitParts
<1> DEFINE step == (n + 1) % 8
<1> HIDE DEF step
<1>7. Still(x, [w EXCEPT !.fsStep = step])
  BY <1>4, <1>6, Zenon
<1>. QED  BY <1>5, <1>7, Zenon DEF step

SampleTaken(e, d, k) == Pop(d, k)
StreamHolds(e, d) == IsStream(d)
SamplesFold == INSTANCE FoldProofs WITH Op <- SampleTaken, Holds <- StreamHolds

LEMMA PopStream == ASSUME NEW d, IsStream(d), NEW k PROVE IsStream(Pop(d, k))
<1>1. CASE d.queue = <<>>
  BY <1>1 DEF Pop, IsStream
<1>2. CASE d.queue # <<>>
  <2>1. d.queue \in Seq(Int) /\ Head(d.queue) \in Int /\ Tail(d.queue) \in Seq(Int)
    BY <1>2 DEF IsStream
  <2>. QED  BY <1>2, <2>1 DEF Pop, IsStream
<1>. QED  BY <1>1, <1>2

LEMMA PopDsStream ==
  ASSUME NEW d, IsStream(d), NEW period \in Nat, NEW start \in Int, NEW end \in Int
  PROVE  IsStream(PopDs(d, period, start, end))
<1> DEFINE from == IF d.next < start THEN start ELSE d.next
           n    == IF from >= end THEN 0 ELSE (end - 1 - from) \div period + 1
           f    == SamplesFold!Folded(d, d, Times(n))
<1>1. PopDs(d, period, start, end) = IF period = 0 THEN [d EXCEPT !.period = 0]
                                     ELSE [f EXCEPT !.period = period, !.next = from + n * period]
  BY DEF PopDs, SampleTaken, SamplesFold!Folded, FoldLeft,
         SamplesFold!MapThenFoldSet, MapThenFoldSet, SamplesFold!Greatest, Max
<1>2. CASE period = 0
  BY <1>1, <1>2 DEF IsStream
<1>3. CASE period # 0
  <2>1. from \in Int /\ n \in Int
    <3>1. from \in Int
      BY DEF IsStream
    <3> HIDE DEF from
    <3>. QED  BY <1>3, <3>1
  <2>2. PICK c \in Nat : DOMAIN Times(n) = 1..c
    BY <2>1, TimesLength
  <2>3. StreamHolds(d, d) /\ \A a, k : StreamHolds(d, a) => StreamHolds(d, SampleTaken(d, a, k))
    BY PopStream DEF StreamHolds, SampleTaken
  <2> HIDE DEF n, from
  <2>4. StreamHolds(d, f)
    BY <2>2, <2>3, SamplesFold!FoldKeeps
  <2>5. from + n * period \in Int
    BY <2>1
  <2> HIDE DEF f
  <2>. QED  BY <1>1, <1>3, <2>4, <2>5 DEF StreamHolds, IsStream
<1>. QED  BY <1>2, <1>3

LEMMA TimerType == ASSUME NEW x, IsUnit(x), NEW s \in Streams PROVE TimerOf(x, s) \in 0..1
<1>1. Reg16(x, 130) \in Int
  BY RegisterType
<1>2. \A v \in Int : Field(v, 10, 1) \in 0..1 /\ Field(v, 14, 1) \in 0..1
  BY DEF Field
<1>3. TimerOf(x, s) = IF s = "a" THEN Field(Reg16(x, 130), 10, 1) ELSE Field(Reg16(x, 130), 14, 1)
  BY DEF TimerOf
<1>. QED  BY <1>1, <1>2, <1>3

IsPeriods(p) == DOMAIN p = 0..1 /\ \A t \in 0..1 : p[t] \in Nat

LEMMA StreamedLater ==
  ASSUME NEW x, Steady(x), NEW periods, IsPeriods(periods)
  PROVE  Later(x, Streamed(x, periods))
<1> DEFINE ds == [s \in Streams |-> PopDs(x.ds[s], periods[TimerOf(x, s)], x.cycle, x.cycle + Sub)]
           y == [x EXCEPT !.cycle = x.cycle + Sub, !.ds = ds]
<1>1. Streamed(x, periods) = y
  BY DEF Streamed
<1>2. x.cycle \in Int /\ Sub \in Nat
  BY SoundAssumption DEF Steady, IsUnit, HasClock
<1>3. ASSUME NEW s \in Streams PROVE IsStream(ds[s])
  <2>1. IsStream(x.ds[s]) /\ periods[TimerOf(x, s)] \in Nat /\ x.cycle + Sub \in Int
    BY <1>2, TimerType DEF Steady, IsUnit, HasStreams, IsPeriods
  <2>. QED  BY <1>2, <2>1, PopDsStream
<1>4. DOMAIN ds = Streams
  OBVIOUS
<1> HIDE DEF ds
<1>5. y.ds = ds /\ y.reg = x.reg /\ y.cycle = x.cycle + Sub /\ y.fsCycle = x.fsCycle /\ DOMAIN y = UnitParts
  BY DEF Steady, IsUnit, UnitParts
<1>6. HasPlaces(y)
  BY DEF Steady, IsUnit, HasPlaces, UnitParts
<1> HIDE DEF y
<1>7. Steady(y)
  BY <1>2, <1>3, <1>4, <1>5, <1>6 DEF Steady, IsUnit, HasRegisters, HasStreams, HasClock, ResetsRead
<1>. QED  BY <1>1, <1>2, <1>5, <1>7 DEF Later

FrameStep(e, y, k) == TickFrameSeq(y)
FrameHolds(e, y) == Still(e, y)
FrameFold == INSTANCE FoldProofs WITH Op <- FrameStep, Holds <- FrameHolds

LEMMA ChunkLater ==
  ASSUME NEW x, Steady(x), NEW periods, IsPeriods(periods)
  PROVE  Later(x, Chunk(x, periods))
<1> DEFINE c1 == SquareAdvanced(x.ch1, Sub)
           c2 == SquareAdvanced(x.ch2, Sub)
           c3 == WaveAdvanced(x.ch3, Sub)
           c4 == NoiseAdvanced(x.ch4, Sub)
           u  == [x EXCEPT !.ch1 = c1, !.ch2 = c2, !.ch3 = c3, !.ch4 = c4]
           fs == (x.fsCycle + Sub) % FsPeriod
           y  == [u EXCEPT !.fsCycle = fs]
           ticks == (x.fsCycle + Sub) \div FsPeriod
           f  == FrameFold!Folded(x, y, Times(ticks))
<1>1. x.fsCycle \in Nat /\ Sub \in Nat /\ FsPeriod \in Nat /\ FsPeriod # 0
  BY SoundAssumption DEF Steady, IsUnit, HasClock
<1>2. ticks \in Int /\ fs \in Nat
  BY <1>1
<1>3. Still(x, u)
  <2>1. Still(x, x)
    BY DEF Still
  <2>2. HasPlaces(x)
    BY DEF Steady, IsUnit
  <2>3. HasPlace(c1, SquarePlaces) /\ HasPlace(c2, SquarePlaces) /\ HasPlace(c3, WavePlaces)
    BY <2>2, PlacesKept DEF HasPlaces
  <2>4. IsNoise(c4)
    BY <1>1, <2>2, NoiseAdvances DEF HasPlaces
  <2> HIDE DEF c1, c2, c3, c4
  <2>. QED  BY <2>1, <2>3, <2>4, FourChannels
<1>4. y = [x EXCEPT !.ch1 = SquareAdvanced(@, Sub), !.ch2 = SquareAdvanced(@, Sub),
                    !.ch3 = WaveAdvanced(@, Sub), !.ch4 = NoiseAdvanced(@, Sub),
                    !.fsCycle = (@ + Sub) % FsPeriod]
  BY DEF Steady, IsUnit, UnitParts
<1>5. Chunk(x, periods) = Streamed(f, periods)
  BY <1>4 DEF Chunk, FrameStep, FrameFold!Folded, FoldLeft,
         FrameFold!MapThenFoldSet, MapThenFoldSet, FrameFold!Greatest, Max
<1> HIDE DEF u, fs
<1>6. Still(x, y)
  BY <1>2, <1>3 DEF Still, Steady, IsUnit, HasPlaces, HasRegisters, HasStreams, HasClock, ResetsRead, UnitParts
<1> HIDE DEF y
<1>7. PICK c \in Nat : DOMAIN Times(ticks) = 1..c
  BY <1>2, TimesLength
<1>8. FrameHolds(x, y) /\ \A a, k : FrameHolds(x, a) => FrameHolds(x, FrameStep(x, a, k))
  BY <1>6, FrameStill DEF FrameHolds, FrameStep
<1> HIDE DEF ticks
<1>9. FrameHolds(x, f)
  BY <1>7, <1>8, FrameFold!FoldKeeps
<1> HIDE DEF f
<1>10. Still(x, f)
  BY <1>9 DEF FrameHolds
<1>11. Later(f, Streamed(f, periods))
  BY <1>10, StreamedLater DEF Still
<1>. QED  BY <1>5, <1>10, <1>11 DEF Later, Still

ChunkStep(e, c, k) == Accumulated(Chunk(c.x, e.periods), c.sum)
ChunkHolds(e, c) == Later(e.x, c.x)
ChunkFold == INSTANCE FoldProofs WITH Op <- ChunkStep, Holds <- ChunkHolds

LEMMA LaterOn == ASSUME NEW x, NEW y, NEW z, Steady(x), Later(x, y), Later(y, z) PROVE Later(x, z)
  BY DEF Later, Steady, IsUnit, HasClock
LEMMA LaterSelf == ASSUME NEW x, Steady(x) PROVE Later(x, x)
  BY DEF Later, Steady, IsUnit, HasClock

LEMMA FiltersLater ==
  ASSUME NEW x, NEW y, Later(x, y), NEW v, NEW w
  PROVE  Later(x, [y EXCEPT !.hp = v]) /\ Later(x, [y EXCEPT !.ma = v, !.out = w])
<1>1. Later(x, [y EXCEPT !.hp = v])
  BY DEF Later, Steady, IsUnit, HasPlaces, HasRegisters, HasStreams, HasClock, ResetsRead, UnitParts
<1>2. Later(x, [y EXCEPT !.ma = v, !.out = w])
  BY DEF Later, Steady, IsUnit, HasPlaces, HasRegisters, HasStreams, HasClock, ResetsRead, UnitParts
<1>. QED  BY <1>1, <1>2

LEMMA SampleLaterOf ==
  ASSUME NEW e, Steady(e.x), IsPeriods(e.periods)
  PROVE  Later(e.x, Sample(e.x, e.periods))
<1> DEFINE none == [x |-> e.x, sum |-> [side \in Sides2 |-> 0]]
           f == ChunkFold!Folded(e, none, Times(PerSample))
<1>1. PICK c \in Nat : DOMAIN Times(PerSample) = 1..c
  <2>1. PerSample \in Int
    BY SoundAssumption
  <2>. QED  BY <2>1, TimesLength
<1>2. ChunkHolds(e, none)
  BY LaterSelf DEF ChunkHolds
<1>3. ASSUME NEW a, NEW k, ChunkHolds(e, a) PROVE ChunkHolds(e, ChunkStep(e, a, k))
  <2>1. ChunkStep(e, a, k).x = Chunk(a.x, e.periods)
    BY DEF ChunkStep, Accumulated
  <2>2. Later(a.x, Chunk(a.x, e.periods)) /\ Later(e.x, a.x)
    BY <1>3, ChunkLater DEF ChunkHolds, Later
  <2>. QED  BY <2>1, <2>2, LaterOn DEF ChunkHolds
<1> HIDE DEF none
<1>4. ChunkHolds(e, f)
  BY <1>1, <1>2, <1>3, ChunkFold!FoldKeeps
<1>5. Sample(e.x, e.periods) = Smoothed(HighPassed(f))
  BY DEF Sample, none, ChunkStep, ChunkFold!Folded, FoldLeft,
         ChunkFold!MapThenFoldSet, MapThenFoldSet, ChunkFold!Greatest, Max
<1> HIDE DEF f
<1>6. Later(e.x, HighPassed(f))
  BY <1>4, FiltersLater DEF ChunkHolds, HighPassed
<1>7. Later(e.x, Smoothed(HighPassed(f)))
  <2> DEFINE h == HighPassed(f)
             now == [side \in Sides2 |-> h.hp[side].y \div 4096]
             out == [side \in Sides2 |-> Clamped(TowardsZero(now[side] + h.ma[side], 2), -32768, 32767)]
  <2>1. Smoothed(h) = [h EXCEPT !.ma = now, !.out = out]
    BY DEF Smoothed
  <2> HIDE DEF h, now, out
  <2>2. Later(e.x, [h EXCEPT !.ma = now, !.out = out])
    BY <1>6, FiltersLater DEF h
  <2>. QED  BY <2>1, <2>2 DEF h
<1>. QED  BY <1>5, <1>7

LEMMA SampleLater ==
  ASSUME NEW x, Steady(x), NEW periods, IsPeriods(periods)
  PROVE  Later(x, Sample(x, periods))
<1> DEFINE e == [x |-> x, periods |-> periods]
<1>1. e.x = x /\ e.periods = periods
  OBVIOUS
<1> HIDE DEF e
<1>. QED  BY <1>1, SampleLaterOf

SampleStep(e, y, k) == Sample(y, e.periods)
SampleHolds(e, y) == Later(e.x, y)
SampleFold == INSTANCE FoldProofs WITH Op <- SampleStep, Holds <- SampleHolds

LEMMA GenerateLaterOf ==
  ASSUME NEW e, Steady(e.x), IsPeriods(e.periods), NEW target \in Int
  PROVE  Later(e.x, Generate(e.x, e.periods, target))
<1> DEFINE y == IF target > e.x.cycle + 300000 THEN Resync(e.x, target) ELSE e.x
           n == (target - y.cycle) \div SampleCycles
           f == SampleFold!Folded(e, y, Times(n))
<1>1. Later(e.x, y)
  <2>1. CASE target > e.x.cycle + 300000
    <3> DEFINE x == e.x
               ds == [s \in Streams |-> [x.ds[s] EXCEPT !.next = target]]
               z == [x EXCEPT !.cycle = target, !.ds = ds]
    <3>1. Resync(x, target) = z
      BY DEF Resync
    <3>2. DOMAIN ds = Streams /\ \A s \in Streams : IsStream(ds[s])
      BY DEF Steady, IsUnit, HasStreams, IsStream
    <3> HIDE DEF ds, x
    <3>3. Steady(x) /\ x.cycle <= target
      BY <2>1 DEF x, Steady, IsUnit, HasClock
    <3>4. z.ds = ds /\ z.reg = x.reg /\ z.cycle = target /\ z.fsCycle = x.fsCycle /\ DOMAIN z = UnitParts
      BY <3>3 DEF Steady, IsUnit, UnitParts
    <3>5. HasPlaces(z)
      BY <3>3 DEF Steady, IsUnit, HasPlaces, UnitParts
    <3> HIDE DEF z
    <3>6. Later(x, z)
      BY <3>2, <3>3, <3>4, <3>5 DEF Later, Steady, IsUnit, HasRegisters, HasStreams, HasClock, ResetsRead
    <3>. QED  BY <2>1, <3>1, <3>6 DEF x
  <2>2. CASE ~(target > e.x.cycle + 300000)
    BY <2>2, LaterSelf
  <2>. QED  BY <2>1, <2>2
<1>2. Generate(e.x, e.periods, target) = f
  BY DEF Generate, SampleStep, SampleFold!Folded, FoldLeft,
         SampleFold!MapThenFoldSet, MapThenFoldSet, SampleFold!Greatest, Max
<1> HIDE DEF y
<1>3. n \in Int
  <2>1. y.cycle \in Int
    BY <1>1 DEF Later, Steady, IsUnit, HasClock
  <2>2. SampleCycles \in Nat /\ SampleCycles > 0
    <3>1. PerSample \in Nat /\ Sub \in Nat /\ PerSample > 0 /\ Sub > 0
      BY SoundAssumption
    <3>. QED  BY <3>1 DEF SampleCycles
  <2> HIDE DEF n
  <2>3. \A p \in Int, q \in Nat : q > 0 => p \div q \in Int
    OBVIOUS
  <2>. QED  BY <2>1, <2>2, <2>3 DEF n
<1>4. PICK c \in Nat : DOMAIN Times(n) = 1..c
  BY <1>3, TimesLength
<1>5. SampleHolds(e, y)
  BY <1>1 DEF SampleHolds
<1>6. ASSUME NEW a, NEW k, SampleHolds(e, a) PROVE SampleHolds(e, SampleStep(e, a, k))
  <2>1. Later(e.x, a) /\ Later(a, Sample(a, e.periods))
    BY <1>6, SampleLater DEF SampleHolds, Later
  <2>. QED  BY <2>1, LaterOn DEF SampleHolds, SampleStep
<1> HIDE DEF n
<1>7. SampleHolds(e, f)
  BY <1>4, <1>5, <1>6, SampleFold!FoldKeeps
<1>. QED  BY <1>2, <1>7 DEF SampleHolds

LEMMA GenerateLater ==
  ASSUME NEW x, Steady(x), NEW periods, IsPeriods(periods), NEW target \in Int
  PROVE  Later(x, Generate(x, periods, target))
<1> DEFINE e == [x |-> x, periods |-> periods]
<1>1. e.x = x /\ e.periods = periods
  OBVIOUS
<1> HIDE DEF e
<1>. QED  BY <1>1, GenerateLaterOf

-----------------------------------------------------------------------------
(* The streams' DMA *)

IsDma(d) == DOMAIN d = {"on", "src", "step"} /\ d.src \in Int /\ d.step \in Int
PcmType == \A a \in Int : Pcm(a) \in Int

DmaStep(e, x, k) == Pushed(x, e.s, Pcm(e.m.src + e.m.step * 4 * ((k - 1) \div 4) + ((k - 1) % 4)))
DmaHolds(e, x) == Still(e.x, x)
DmaFold == INSTANCE FoldProofs WITH Op <- DmaStep, Holds <- DmaHolds

LEMMA RequestStillOf ==
  ASSUME PcmType, NEW e, Steady(e.x), IsDma(e.m), e.s \in Streams
  PROVE  Still(e.x, RunSoundDma(e.x, e.m, e.s).x) /\ IsDma(RunSoundDma(e.x, e.m, e.s).m)
<1> DEFINE f == DmaFold!Folded(e, e.x, Times(Request))
<1>1. RunSoundDma(e.x, e.m, e.s).x = f
  BY DEF RunSoundDma, DmaStep, DmaFold!Folded, FoldLeft,
         DmaFold!MapThenFoldSet, MapThenFoldSet, DmaFold!Greatest, Max
<1>2. Request \in Int
  BY SoundAssumption
<1>3. PICK c \in Nat : DOMAIN Times(Request) = 1..c /\ \A k \in 1..c : Times(Request)[k] = k
  BY <1>2, TimesLength
<1>4. DmaHolds(e, e.x)
  BY DEF DmaHolds, Still
<1>5. ASSUME NEW a, NEW k \in 1..c, DmaHolds(e, a) PROVE DmaHolds(e, DmaStep(e, a, k))
  <2> DEFINE v == e.m.src + e.m.step * 4 * ((k - 1) \div 4) + ((k - 1) % 4)
  <2>1. v \in Int
    BY DEF IsDma
  <2>2. DmaStep(e, a, k) = Pushed(a, e.s, Pcm(v))
    BY DEF DmaStep
  <2> HIDE DEF v
  <2>3. Pcm(v) \in Int
    BY <2>1 DEF PcmType
  <2>4. Still(a, Pushed(a, e.s, Pcm(v)))
    BY <1>5, <2>3, PushedStill DEF DmaHolds, Still
  <2>. QED  BY <1>5, <2>2, <2>4 DEF DmaHolds, Still
<1>6. DmaHolds(e, f)
  <2> HIDE DEF f
  <2>1. \A a : \A k \in 1..c : DmaHolds(e, a) => DmaHolds(e, DmaStep(e, a, Times(Request)[k]))
    BY <1>3, <1>5
  <2>. QED  BY <1>3, <1>4, <2>1, DmaFold!FoldKeeps DEF f
<1>7. IsDma(RunSoundDma(e.x, e.m, e.s).m)
  <2> DEFINE d == e.m
  <2>1. RunSoundDma(e.x, e.m, e.s).m = [d EXCEPT !.src = d.src + d.step * Request]
    BY DEF RunSoundDma
  <2> HIDE DEF d
  <2>2. IsDma(d)
    BY DEF d
  <2>3. d.src + d.step * Request \in Int
    BY <1>2, <2>2 DEF IsDma
  <2>. QED  BY <2>1, <2>2, <2>3 DEF IsDma
<1>. QED  BY <1>1, <1>6, <1>7 DEF DmaHolds

LEMMA ServiceStill ==
  ASSUME PcmType, NEW x, Steady(x), NEW d, IsDma(d), NEW s \in Streams, NEW turns
  PROVE  Still(x, Service(x, d, s, turns).x) /\ IsDma(Service(x, d, s, turns).m)
<1> DEFINE r == RefillFifo(x, d, s)
           e == [x |-> x, m |-> d, s |-> s]
<1>1. e.x = x /\ e.m = d /\ e.s = s
  OBVIOUS
<1> HIDE DEF e
<1>2. Still(x, RunSoundDma(x, d, s).x) /\ IsDma(RunSoundDma(x, d, s).m)
  BY <1>1, RequestStillOf
<1>3. Still(x, x)
  BY DEF Still
<1>4. Still(x, r.x) /\ IsDma(r.m)
  <2>1. r = [x |-> x, m |-> d] \/ r = RunSoundDma(x, d, s)
    BY DEF RefillFifo
  <2> HIDE DEF r
  <2>. QED  BY <1>2, <1>3, <2>1
<1>5. Service(x, d, s, turns).x = r.x /\ Service(x, d, s, turns).m = r.m
  BY DEF Service, Compared
<1>. QED  BY <1>4, <1>5

-----------------------------------------------------------------------------
(* Saved states *)

LEMMA AsideOn == ASSUME NEW x, NEW y, NEW z, Aside(x, y), Aside(y, z) PROVE Aside(x, z)
  BY DEF Aside

RedecodeStep(e, x, off) == Decode(x, off)
RedecodeHolds(e, x) == Aside(e, x) /\ ResetsRead(x)
RedecodeFold == INSTANCE FoldProofs WITH Op <- RedecodeStep, Holds <- RedecodeHolds

LEMMA RedecodedAside ==
  ASSUME NEW x, Steady(x)
  PROVE  Aside(x, Redecoded(x)) /\ ResetsRead(Redecoded(x))
<1> DEFINE s == <<101, 109, 117, 125, 131>>
           f == RedecodeFold!Folded(x, x, s)
<1>1. Redecoded(x) = f
  BY DEF Redecoded, RedecodeStep, RedecodeFold!Folded, FoldLeft,
         RedecodeFold!MapThenFoldSet, MapThenFoldSet, RedecodeFold!Greatest, Max
<1>2. RedecodeHolds(x, x)
  BY DEF RedecodeHolds, Aside, Steady
<1>3. ASSUME NEW a, NEW off, RedecodeHolds(x, a) PROVE RedecodeHolds(x, RedecodeStep(x, a, off))
  <2>1. IsUnit(a) /\ ResetsRead(a)
    BY <1>3 DEF RedecodeHolds, Aside
  <2>2. Aside(a, Decode(a, off)) /\ ResetsRead(Decode(a, off))
    <3>1. CASE off = 131
      <4>1. Decode(a, off) = QueuesReset(a)
        BY <3>1 DEF Decode
      <4>. QED  BY <2>1, <4>1, QueuesResetSteady DEF Steady
    <3>2. CASE off # 131
      BY <2>1, <3>2, DecodeAside DEF ResetsRead
    <3>. QED  BY <3>1, <3>2
  <2>. QED  BY <1>3, <2>2, AsideOn DEF RedecodeHolds, RedecodeStep
<1>4. DOMAIN s = 1..5
  OBVIOUS
<1> HIDE DEF s
<1>5. RedecodeHolds(x, f)
  BY <1>2, <1>3, <1>4, RedecodeFold!FoldKeeps
<1>. QED  BY <1>1, <1>5 DEF RedecodeHolds

LEMMA LoadedSteady ==
  ASSUME NEW x, Steady(x), NEW u, Steady(u), NEW version
  PROVE  LET y == Loaded(x, Serialized(u), version)
         IN  /\ Steady(y)
             /\ y.ram = u.ram /\ y.master = u.master /\ y.fsCycle = u.fsCycle /\ y.fsStep = u.fsStep
             /\ y.cycle = u.cycle /\ y.hp = u.hp /\ y.ma = u.ma
             /\ \A s \in Streams : /\ y.ds[s].next = u.ds[s].next /\ y.ds[s].cur = u.ds[s].cur
                                   /\ y.ds[s].queue = u.ds[s].queue
<1> DEFINE reg == IF version < 2 THEN [u.reg EXCEPT ![136] = 0, ![137] = 2] ELSE u.reg
           ds == [s \in Streams |-> [x.ds[s] EXCEPT !.next = u.ds[s].next, !.cur = u.ds[s].cur, !.queue = u.ds[s].queue]]
           y == [x EXCEPT !.reg = reg, !.ram = u.ram, !.master = u.master, !.fsCycle = u.fsCycle,
                          !.fsStep = u.fsStep, !.cycle = u.cycle, !.ds = ds, !.hp = u.hp, !.ma = u.ma]
<1>1. Loaded(x, Serialized(u), version) = y
  BY DEF Loaded, Serialized
<1>2. DOMAIN reg = 96..143 /\ (\A o \in 96..143 : reg[o] \in Int) /\ reg[131] = u.reg[131]
  BY DEF Steady, IsUnit, HasRegisters
<1>3. /\ DOMAIN ds = Streams
      /\ \A s \in Streams : /\ IsStream(ds[s])
                            /\ ds[s].next = u.ds[s].next /\ ds[s].cur = u.ds[s].cur /\ ds[s].queue = u.ds[s].queue
  BY DEF Steady, IsUnit, HasStreams, IsStream
<1> HIDE DEF reg, ds
<1>4. /\ y.reg = reg /\ y.ram = u.ram /\ y.master = u.master /\ y.fsCycle = u.fsCycle /\ y.fsStep = u.fsStep
      /\ y.cycle = u.cycle /\ y.hp = u.hp /\ y.ma = u.ma /\ y.ds = ds /\ DOMAIN y = UnitParts
  BY DEF Steady, IsUnit, UnitParts
<1>5. HasPlaces(y)
  BY DEF Steady, IsUnit, HasPlaces, UnitParts
<1> HIDE DEF y
<1>6. Steady(y)
  BY <1>2, <1>3, <1>4, <1>5 DEF Steady, IsUnit, HasRegisters, HasStreams, HasClock, ResetsRead
<1>. QED  BY <1>1, <1>3, <1>4, <1>6

\* Each channel's place is put back, and nothing else.
LEMMA PatchedPlaces ==
  ASSUME NEW x, Steady(x), NEW u, Steady(u)
  PROVE  LET y == Patched(x, Serialized(u))
         IN  /\ Steady(y)
             /\ y.ram = x.ram /\ y.master = x.master /\ y.fsCycle = x.fsCycle /\ y.fsStep = x.fsStep
             /\ y.cycle = x.cycle /\ y.hp = x.hp /\ y.ma = x.ma /\ y.ds = x.ds
             /\ y.ch1.timer = u.ch1.timer /\ y.ch1.phase = u.ch1.phase
             /\ y.ch2.timer = u.ch2.timer /\ y.ch2.phase = u.ch2.phase
             /\ y.ch3.timer = u.ch3.timer /\ y.ch3.pos = u.ch3.pos
             /\ y.ch4.timer = u.ch4.timer /\ y.ch4.lfsr = u.ch4.lfsr
<1> DEFINE c1 == [x.ch1 EXCEPT !.timer = u.ch1.timer, !.phase = u.ch1.phase]
           c2 == [x.ch2 EXCEPT !.timer = u.ch2.timer, !.phase = u.ch2.phase]
           c3 == [x.ch3 EXCEPT !.timer = u.ch3.timer, !.pos = u.ch3.pos]
           c4 == [x.ch4 EXCEPT !.timer = u.ch4.timer, !.lfsr = u.ch4.lfsr]
           y == [x EXCEPT !.ch1 = c1, !.ch2 = c2, !.ch3 = c3, !.ch4 = c4]
           k == Serialized(u)
<1>1. /\ k.run[1] = u.ch1.timer /\ k.run[2] = u.ch1.phase /\ k.run[3] = u.ch2.timer /\ k.run[4] = u.ch2.phase
      /\ k.run[5] = u.ch3.timer /\ k.run[6] = u.ch3.pos /\ k.run[7] = u.ch4.timer /\ k.run[8] = u.ch4.lfsr
  BY DEF Serialized
<1>2. Patched(x, k) = y
  <2>1. DOMAIN x = UnitParts
    BY DEF Steady, IsUnit
  <2> DEFINE y1 == [x EXCEPT !.ch1 = [x.ch1 EXCEPT !.timer = k.run[1]]]
             y2 == [y1 EXCEPT !.ch1 = [y1.ch1 EXCEPT !.phase = k.run[2]]]
             y3 == [y2 EXCEPT !.ch2 = [y2.ch2 EXCEPT !.timer = k.run[3]]]
             y4 == [y3 EXCEPT !.ch2 = [y3.ch2 EXCEPT !.phase = k.run[4]]]
             y5 == [y4 EXCEPT !.ch3 = [y4.ch3 EXCEPT !.timer = k.run[5]]]
             y6 == [y5 EXCEPT !.ch3 = [y5.ch3 EXCEPT !.pos = k.run[6]]]
             y7 == [y6 EXCEPT !.ch4 = [y6.ch4 EXCEPT !.timer = k.run[7]]]
             y8 == [y7 EXCEPT !.ch4 = [y7.ch4 EXCEPT !.lfsr = k.run[8]]]
  <2>2. Patched(x, k) = y8
    BY DEF Patched
  <2> HIDE DEF k
  <2>3. /\ y2 = [x EXCEPT !.ch1 = c1] /\ DOMAIN y2 = UnitParts
        /\ y2.ch2 = x.ch2 /\ y2.ch3 = x.ch3 /\ y2.ch4 = x.ch4
    BY <1>1, <2>1 DEF UnitParts
  <2> HIDE DEF y2, c1
  <2>4. /\ y4 = [y2 EXCEPT !.ch2 = c2] /\ DOMAIN y4 = UnitParts
        /\ y4.ch3 = x.ch3 /\ y4.ch4 = x.ch4
    BY <1>1, <2>3 DEF UnitParts
  <2> HIDE DEF y4, c2
  <2>5. y6 = [y4 EXCEPT !.ch3 = c3] /\ DOMAIN y6 = UnitParts /\ y6.ch4 = x.ch4
    BY <1>1, <2>4 DEF UnitParts
  <2> HIDE DEF y6, c3
  <2>6. y8 = [y6 EXCEPT !.ch4 = c4]
    BY <1>1, <2>5 DEF UnitParts
  <2> HIDE DEF y8, c4
  <2>. QED  BY <2>2, <2>3, <2>4, <2>5, <2>6
<1>3. HasPlaces(x) /\ HasPlaces(u)
  BY DEF Steady, IsUnit
<1>4. /\ HasPlace(c1, SquarePlaces) /\ c1.timer = u.ch1.timer /\ c1.phase = u.ch1.phase
      /\ HasPlace(c2, SquarePlaces) /\ c2.timer = u.ch2.timer /\ c2.phase = u.ch2.phase
      /\ HasPlace(c3, WavePlaces) /\ c3.timer = u.ch3.timer /\ c3.pos = u.ch3.pos
  BY <1>3 DEF HasPlace, HasPlaces, SquarePlaces, WavePlaces
<1>5. IsNoise(c4) /\ c4.timer = u.ch4.timer /\ c4.lfsr = u.ch4.lfsr
  BY <1>3 DEF HasPlace, HasPlaces, NoisePlaces, IsNoise
<1> HIDE DEF c1, c2, c3, c4
<1>6. Still(x, y)
  <2>1. Still(x, x)
    BY DEF Still
  <2>. QED  BY <1>4, <1>5, <2>1, FourChannels
<1>7. /\ y.ram = x.ram /\ y.master = x.master /\ y.fsCycle = x.fsCycle /\ y.fsStep = x.fsStep
      /\ y.cycle = x.cycle /\ y.hp = x.hp /\ y.ma = x.ma /\ y.ds = x.ds
      /\ y.ch1 = c1 /\ y.ch2 = c2 /\ y.ch3 = c3 /\ y.ch4 = c4
  BY DEF Steady, IsUnit, UnitParts
<1> HIDE DEF y, k
<1>. QED  BY <1>2, <1>4, <1>5, <1>6, <1>7 DEF Still, k

LEMMA LoadBringsBack ==
  ASSUME NEW x, Steady(x), NEW u, Steady(u), NEW version
  PROVE  LET y == Deserialized(x, Serialized(u), version)
         IN  Steady(y) /\ [Serialized(y) EXCEPT !.reg = <<>>] = [Serialized(u) EXCEPT !.reg = <<>>]
<1> DEFINE k == Serialized(u)
           a == Loaded(x, k, version)
           b == Redecoded(a)
           y == Patched(b, k)
<1>1. /\ Steady(a)
      /\ a.ram = u.ram /\ a.master = u.master /\ a.fsCycle = u.fsCycle /\ a.fsStep = u.fsStep
      /\ a.cycle = u.cycle /\ a.hp = u.hp /\ a.ma = u.ma
      /\ \A s \in Streams : a.ds[s].next = u.ds[s].next /\ a.ds[s].cur = u.ds[s].cur /\ a.ds[s].queue = u.ds[s].queue
  BY LoadedSteady
<1> HIDE DEF a
<1>2. Aside(a, b) /\ Steady(b)
  BY <1>1, RedecodedAside DEF Aside, Steady
<1> HIDE DEF b
<1>3. /\ Steady(y)
      /\ y.ram = b.ram /\ y.master = b.master /\ y.fsCycle = b.fsCycle /\ y.fsStep = b.fsStep
      /\ y.cycle = b.cycle /\ y.hp = b.hp /\ y.ma = b.ma /\ y.ds = b.ds
      /\ y.ch1.timer = u.ch1.timer /\ y.ch1.phase = u.ch1.phase
      /\ y.ch2.timer = u.ch2.timer /\ y.ch2.phase = u.ch2.phase
      /\ y.ch3.timer = u.ch3.timer /\ y.ch3.pos = u.ch3.pos
      /\ y.ch4.timer = u.ch4.timer /\ y.ch4.lfsr = u.ch4.lfsr
  BY <1>2, PatchedPlaces
<1>4. Deserialized(x, k, version) = y
  BY DEF Deserialized, a, b
<1> HIDE DEF y, k
<1>5. /\ y.ram = u.ram /\ y.master = u.master /\ y.fsCycle = u.fsCycle /\ y.fsStep = u.fsStep
      /\ y.cycle = u.cycle /\ y.hp = u.hp /\ y.ma = u.ma
      /\ \A s \in Streams : y.ds[s].next = u.ds[s].next /\ y.ds[s].cur = u.ds[s].cur /\ y.ds[s].queue = u.ds[s].queue
  BY <1>1, <1>2, <1>3 DEF Aside
<1>6. [s \in Streams |-> [next |-> y.ds[s].next, cur |-> y.ds[s].cur, queue |-> y.ds[s].queue]]
      = [s \in Streams |-> [next |-> u.ds[s].next, cur |-> u.ds[s].cur, queue |-> u.ds[s].queue]]
  BY <1>5
<1>7. <<y.ch1.timer, y.ch1.phase, y.ch2.timer, y.ch2.phase, y.ch3.timer, y.ch3.pos, y.ch4.timer, y.ch4.lfsr>>
      = <<u.ch1.timer, u.ch1.phase, u.ch2.timer, u.ch2.phase, u.ch3.timer, u.ch3.pos, u.ch4.timer, u.ch4.lfsr>>
  BY <1>3
<1>8. [Serialized(y) EXCEPT !.reg = <<>>] = [Serialized(u) EXCEPT !.reg = <<>>]
  <2> DEFINE dsOf(v) == [s \in Streams |-> [next |-> v.ds[s].next, cur |-> v.ds[s].cur, queue |-> v.ds[s].queue]]
             runOf(v) == <<v.ch1.timer, v.ch1.phase, v.ch2.timer, v.ch2.phase, v.ch3.timer, v.ch3.pos,
                           v.ch4.timer, v.ch4.lfsr>>
             rest(v) == [reg |-> <<>>, ram |-> v.ram, master |-> v.master, fsCycle |-> v.fsCycle, fsStep |-> v.fsStep,
                         cycle |-> v.cycle, ds |-> dsOf(v), hp |-> v.hp, ma |-> v.ma, run |-> runOf(v)]
  <2>1. ASSUME NEW v PROVE [Serialized(v) EXCEPT !.reg = <<>>] = rest(v)
    <3> DEFINE ds == dsOf(v)
               run == runOf(v)
    <3>1. Serialized(v) = [reg |-> v.reg, ram |-> v.ram, master |-> v.master, fsCycle |-> v.fsCycle, fsStep |-> v.fsStep,
                           cycle |-> v.cycle, ds |-> ds, hp |-> v.hp, ma |-> v.ma, run |-> run]
      BY DEF Serialized
    <3>2. rest(v) = [reg |-> <<>>, ram |-> v.ram, master |-> v.master, fsCycle |-> v.fsCycle, fsStep |-> v.fsStep,
                     cycle |-> v.cycle, ds |-> ds, hp |-> v.hp, ma |-> v.ma, run |-> run]
      OBVIOUS
    <3> HIDE DEF ds, run, rest, dsOf, runOf
    <3>. QED  BY <3>1, <3>2
  <2>2. dsOf(y) = dsOf(u) /\ runOf(y) = runOf(u)
    BY <1>6, <1>7
  <2> HIDE DEF dsOf, runOf
  <2>3. rest(y) = rest(u)
    BY <1>5, <2>2
  <2> HIDE DEF rest
  <2>. QED  BY <2>1, <2>3, Zenon
<1>. QED  BY <1>3, <1>4, <1>8 DEF k

-----------------------------------------------------------------------------
(* What is heard of a stream *)

LEMMA Quotient ==
  ASSUME NEW a \in Nat, NEW p \in Nat, p > 0
  PROVE  a \div p \in Nat /\ p * (a \div p) <= a
  OBVIOUS

LEMMA OrderedProduct ==
  ASSUME NEW a \in Nat, NEW b \in Nat, NEW c \in Nat, a <= b
  PROVE  a * c \in Nat /\ a * c <= b * c
  OBVIOUS

LEMMA SignedProduct ==
  ASSUME NEW d \in Int, NEW f \in Nat, f <= 256
  PROVE  /\ d >= 0 => (0 <= d * f /\ d * f <= d * 256)
         /\ d <= 0 => (d * 256 <= d * f /\ d * f <= 0)
  OBVIOUS

\* The part of a period that has passed, in 256ths.
LEMMA PartPassed ==
  ASSUME NEW p \in Nat, p > 0, NEW left \in Int, 0 <= left, left <= p
  PROVE  LET frac == ((p - left) * (2^24 \div p)) \div 2^16 IN frac \in Nat /\ frac <= 256
<1> DEFINE q == 16777216 \div p
<1>1. q \in Nat /\ p * q <= 16777216
  BY Quotient
<1> HIDE DEF q
<1>2. p - left \in Nat /\ p - left <= p
  OBVIOUS
<1>3. (p - left) * q \in Nat /\ (p - left) * q <= p * q
  BY <1>1, <1>2, OrderedProduct
<1>4. \A t \in Nat : t <= 16777216 => (t \div 65536 \in Nat /\ t \div 65536 <= 256)
  OBVIOUS
<1>5. (p - left) * q <= 16777216
  <2>1. p * q \in Nat
    BY <1>1
  <2>. QED  BY <1>1, <1>3, <2>1
<1>6. ((p - left) * q) \div 65536 \in Nat /\ ((p - left) * q) \div 65536 <= 256
  BY <1>3, <1>4, <1>5
<1>7. 2^24 = 16777216 /\ 2^16 = 65536
  OBVIOUS
<1>. QED  BY <1>6 DEF q

\* A number led to another by a part in 256ths stays between the two.
LEMMA Between ==
  ASSUME NEW cur \in Int, NEW next \in Int, NEW f \in Nat, f <= 256
  PROVE  cur * 32 + ((next - cur) * 32 * f) \div 256
           \in IF cur <= next THEN (cur * 32)..(next * 32) ELSE (next * 32)..(cur * 32)
<1> DEFINE d == (next - cur) * 32
           t == d * f
<1>1. d \in Int /\ t \in Int
  OBVIOUS
<1>2. /\ d >= 0 => (0 <= t /\ t <= d * 256)
      /\ d <= 0 => (d * 256 <= t /\ t <= 0)
  <2> HIDE DEF d
  <2>. QED  BY <1>1, SignedProduct
<1> HIDE DEF t
<1>3. CASE cur <= next
  <2>1. 0 <= t /\ t <= (next - cur) * 32 * 256
    BY <1>2, <1>3
  <2>2. 0 <= t \div 256 /\ t \div 256 <= (next - cur) * 32
    BY <1>1, <2>1
  <2>. QED  BY <1>1, <1>3, <2>2 DEF t
<1>4. CASE ~(cur <= next)
  <2>1. (next - cur) * 32 * 256 <= t /\ t <= 0
    BY <1>2, <1>4
  <2>2. (next - cur) * 32 <= t \div 256 /\ t \div 256 <= 0
    BY <1>1, <2>1
  <2>. QED  BY <1>1, <1>4, <2>2 DEF t
<1>. QED  BY <1>3, <1>4

LEMMA LevelBetween ==
  ASSUME NEW x, Steady(x), NEW s \in Streams
  PROVE  LET d == x.ds[s]
             next == IF d.queue = <<>> THEN d.cur ELSE Head(d.queue)
         IN  DsLevel(x, s) \in IF d.cur <= next THEN (d.cur * 32)..(next * 32) ELSE (next * 32)..(d.cur * 32)
<1> DEFINE d == x.ds[s]
           next == IF d.queue = <<>> THEN d.cur ELSE Head(d.queue)
           left == Clamped(d.next - x.cycle, 0, d.period)
           frac == ((d.period - left) * (2^24 \div d.period)) \div 2^16
<1>1. d.queue \in Seq(Int) /\ d.cur \in Int /\ d.next \in Int /\ d.period \in Nat /\ x.cycle \in Int
  BY DEF Steady, IsUnit, HasStreams, IsStream, HasClock
<1>2. DsLevel(x, s) = IF d.queue = <<>> \/ d.period = 0 THEN d.cur * 32
                      ELSE d.cur * 32 + ((Head(d.queue) - d.cur) * 32 * frac) \div 256
  BY DEF DsLevel
<1> HIDE DEF d
<1>3. next \in Int
  BY <1>1
<1>4. CASE d.queue = <<>> \/ d.period = 0
  <2>1. DsLevel(x, s) = d.cur * 32
    BY <1>2, <1>4
  <2> HIDE DEF next
  <2>. QED  BY <1>1, <1>3, <2>1 DEF next, d
<1>5. CASE ~(d.queue = <<>> \/ d.period = 0)
  <2>1. left \in Int /\ 0 <= left /\ left <= d.period /\ d.period > 0
    BY <1>1, <1>5 DEF Clamped
  <2> HIDE DEF left
  <2>2. frac \in Nat /\ frac <= 256
    BY <1>1, <2>1, PartPassed
  <2> HIDE DEF frac
  <2>3. DsLevel(x, s) = d.cur * 32 + ((next - d.cur) * 32 * frac) \div 256
    BY <1>2, <1>5
  <2> HIDE DEF next
  <2>4. d.cur * 32 + ((next - d.cur) * 32 * frac) \div 256
          \in IF d.cur <= next THEN (d.cur * 32)..(next * 32) ELSE (next * 32)..(d.cur * 32)
    BY <1>1, <1>3, <2>2, Between
  <2>. QED  BY <2>3, <2>4 DEF next, d
<1>. QED  BY <1>4, <1>5
-----------------------------------------------------------------------------
(* The machine around the unit *)

SetupStep(e, x, w) == Write8(x, w[1], w[2])
SetupHolds(e, x) == Steady(x)
SetupFold == INSTANCE FoldProofs WITH Op <- SetupStep, Holds <- SetupHolds

LEMMA PowerOnSteady == Steady(Apu0)
<1>1. DOMAIN Apu0 = UnitParts
  BY DEF Apu0, UnitParts
<1>2. HasPlaces(Apu0)
  BY DEF Apu0, HasPlaces, HasPlace, IsNoise, SquarePlaces, WavePlaces, NoisePlaces, Square0, Wave0, Noise0
<1>3. HasRegisters(Apu0) /\ HasClock(Apu0) /\ Apu0.reg[131] = 0
  BY DEF Apu0, HasRegisters, HasClock
<1>4. HasStreams(Apu0)
  <2> DEFINE d == [queue |-> <<>>, cur |-> 0, next |-> 0, period |-> 0, turns |-> 0]
  <2>1. IsStream(d)
    BY DEF IsStream
  <2>2. Apu0.ds = [s \in Streams |-> d]
    BY DEF Apu0
  <2> HIDE DEF d
  <2>. QED  BY <2>1, <2>2 DEF HasStreams
<1>5. ~Bit(0, 3) /\ ~Bit(0, 7)
  BY DEF Bit
<1>. QED  BY <1>1, <1>2, <1>3, <1>4, <1>5 DEF Steady, IsUnit, ResetsRead

LEMMA SetUpSteady ==
  ASSUME NEW setup \in Seq(Int \X Int)
  PROVE  Steady(FoldLeft(LAMBDA x, w : Write8(x, w[1], w[2]), Apu0, setup))
<1> DEFINE f == SetupFold!Folded(0, Apu0, setup)
<1>1. FoldLeft(LAMBDA x, w : Write8(x, w[1], w[2]), Apu0, setup) = f
  BY DEF SetupStep, SetupFold!Folded, FoldLeft,
         SetupFold!MapThenFoldSet, MapThenFoldSet, SetupFold!Greatest, Max
<1>2. SetupHolds(0, Apu0)
  BY PowerOnSteady DEF SetupHolds
<1>3. Len(setup) \in Nat /\ DOMAIN setup = 1..Len(setup)
  OBVIOUS
<1>4. \A x : \A k \in 1..Len(setup) : SetupHolds(0, x) => SetupHolds(0, SetupStep(0, x, setup[k]))
  <2> SUFFICES ASSUME NEW x, NEW k \in 1..Len(setup), Steady(x)
               PROVE  Steady(Write8(x, setup[k][1], setup[k][2]))
    BY DEF SetupHolds, SetupStep
  <2>1. setup[k][1] \in Int /\ setup[k][2] \in Int
    <3>1. setup[k] \in Int \X Int
      OBVIOUS
    <3>. QED  BY <3>1
  <2>. QED  BY <2>1, WriteStill DEF Still
<1>5. SetupHolds(0, f)
  BY <1>2, <1>3, <1>4, SetupFold!FoldKeeps
<1>. QED  BY <1>1, <1>5 DEF SetupHolds

\* The state kept is a unit's.
IsKept(kept) == kept = <<>> \/ \E u : Steady(u) /\ kept = <<Serialized(u)>>
HasDma(d) == DOMAIN d = Streams /\ \A s \in Streams : IsDma(d[s])
SoundInv ==
  /\ Steady(apu) /\ HasDma(dma) /\ IsPeriods(timer) /\ IsKept(saved)
  /\ at \in Int /\ base \in Int /\ score \in Scores

LEMMA SoundStarts == SoundInit => SoundInv
<1> SUFFICES ASSUME SoundInit PROVE SoundInv
  OBVIOUS
<1>1. score \in Scores /\ at \in Int /\ base \in Int /\ IsKept(saved)
  <2>1. score \in Scores /\ at = 0 /\ base = 0 /\ saved = <<>>
    BY Zenon DEF SoundInit
  <2>. QED  BY <2>1 DEF IsKept
<1>2. /\ score.setup \in Seq(Int \X Int) /\ score.timer \in [0..1 -> Nat]
      /\ score.dma \in [Streams -> [on : BOOLEAN, src : Int, step : Int]]
  BY <1>1, SoundAssumption
<1>3. Steady(apu)
  <2>1. apu = FoldLeft(LAMBDA x, w : Write8(x, w[1], w[2]), Apu0, score.setup)
    BY Zenon DEF SoundInit
  <2>. QED  BY <1>2, <2>1, SetUpSteady, Zenon
<1>4. HasDma(dma) /\ IsPeriods(timer)
  <2>1. dma = score.dma /\ timer = score.timer
    BY Zenon DEF SoundInit
  <2>. QED  BY <1>2, <2>1 DEF HasDma, IsDma, IsPeriods
<1>. QED  BY <1>1, <1>3, <1>4 DEF SoundInv

\* What every step but a load does: the unit's clock never goes back.
OnOnly == SoundInv' /\ apu.cycle <= apu'.cycle
\* What a load does: what was saved is back, the registers aside.
BackAsSaved == SoundInv' /\ [Serialized(apu') EXCEPT !.reg = <<>>] = [saved[1] EXCEPT !.reg = <<>>]

LEMMA AloneOn == ASSUME SoundInv, apu' = apu PROVE apu.cycle <= apu'.cycle
  BY DEF SoundInv, Steady, IsUnit, HasClock

LEMMA RunsOn == ASSUME SoundInv, CpuRuns PROVE OnOnly
<1>1. PICK n \in score.runs : at' = n
  BY DEF CpuRuns
<1>2. n \in Int
  BY SoundAssumption DEF SoundInv
<1>. QED  BY <1>1, <1>2, AloneOn DEF SoundInv, CpuRuns, OnOnly

LEMMA WritesOn == ASSUME SoundInv, WriteSound PROVE OnOnly
<1>1. PICK w \in score.writes : apu' = Write8(apu, w[1], w[2])
  BY DEF WriteSound
<1>2. w[1] \in Int /\ w[2] \in Int
  <2>1. w \in Int \X Int
    BY SoundAssumption DEF SoundInv
  <2>. QED  BY <2>1
<1>3. Still(apu, apu')
  BY <1>1, <1>2, WriteStill DEF SoundInv
<1>4. Steady(apu') /\ apu.cycle <= apu'.cycle
  BY <1>3 DEF SoundInv, Still, Steady, IsUnit, HasClock
<1>. QED  BY <1>4 DEF SoundInv, WriteSound, OnOnly

LEMMA TimersOn == ASSUME SoundInv, SetTimer PROVE OnOnly
<1>1. PICK t \in 0..1, p \in score.periods : timer' = [timer EXCEPT ![t] = p]
  BY DEF SetTimer
<1>2. p \in Nat
  BY SoundAssumption DEF SoundInv
<1>3. IsPeriods(timer')
  BY <1>1, <1>2 DEF SoundInv, IsPeriods
<1>. QED  BY <1>3, AloneOn DEF SoundInv, SetTimer, OnOnly

LEMMA ArmsOn == ASSUME PcmType, SoundInv, Arm PROVE OnOnly
<1>1. PICK s \in Streams, b \in score.buffers :
        \E x \in {CaughtUp(timer)} :
        \E r \in {Service(x, [dma[s] EXCEPT !.on = TRUE], s, Generate(apu, timer, base + at).ds[s].turns)} :
           /\ apu' = r.x
           /\ dma' = [dma EXCEPT ![s] = [r.m EXCEPT !.src = b]]
           /\ mark' = [mark EXCEPT ![s] = r.mark]
           /\ served' = [served EXCEPT ![s] = r.served]
  BY Zenon DEF Arm
<1> DEFINE x == CaughtUp(timer)
           d == [dma[s] EXCEPT !.on = TRUE]
           turns == Generate(apu, timer, base + at).ds[s].turns
           r == Service(x, d, s, turns)
<1>2. apu' = r.x /\ dma' = [dma EXCEPT ![s] = [r.m EXCEPT !.src = b]]
  BY <1>1
<1>3. Later(apu, x)
  BY GenerateLater DEF SoundInv, CaughtUp
<1>4. IsDma(d) /\ b \in Int
  BY SoundAssumption DEF SoundInv, HasDma, IsDma
<1> HIDE DEF x, d, turns
<1>5. Still(x, r.x) /\ IsDma(r.m)
  BY <1>3, <1>4, ServiceStill DEF Later
<1> HIDE DEF r
<1>6. Steady(apu') /\ apu.cycle <= apu'.cycle
  BY <1>2, <1>3, <1>5 DEF Later, Still
<1>7. HasDma(dma')
  BY <1>2, <1>4, <1>5 DEF SoundInv, HasDma, IsDma
<1>. QED  BY <1>6, <1>7 DEF SoundInv, Arm, OnOnly

LEMMA DisarmsOn == ASSUME SoundInv, Disarm PROVE OnOnly
<1>1. PICK s \in Streams : dma' = [dma EXCEPT ![s].on = FALSE]
  BY DEF Disarm
<1>2. HasDma(dma')
  BY <1>1 DEF SoundInv, HasDma, IsDma
<1>. QED  BY <1>2, AloneOn DEF SoundInv, Disarm, OnOnly

LEMMA LinesOn == ASSUME PcmType, SoundInv, EndLine PROVE OnOnly
<1> DEFINE x == Generate(apu, timer, base + LineCycles)
           a == Service(x, dma["a"], "a", x.ds["a"].turns)
           b == Service(a.x, dma["b"], "b", x.ds["b"].turns)
<1>1. apu' = b.x /\ dma' = [a |-> a.m, b |-> b.m] /\ base' = base + LineCycles /\ at' = 0
  BY DEF EndLine
<1>2. base + LineCycles \in Int
  BY SoundAssumption DEF SoundInv
<1>3. Later(apu, x)
  BY <1>2, GenerateLater DEF SoundInv
<1>4. IsDma(dma["a"]) /\ IsDma(dma["b"]) /\ "a" \in Streams /\ "b" \in Streams
  BY DEF SoundInv, HasDma, Streams
<1> HIDE DEF x
<1>5. Still(x, a.x) /\ IsDma(a.m)
  BY <1>3, <1>4, ServiceStill DEF Later
<1> HIDE DEF a
<1>6. Still(a.x, b.x) /\ IsDma(b.m)
  BY <1>4, <1>5, ServiceStill DEF Still
<1> HIDE DEF b
<1>7. Steady(apu') /\ apu.cycle <= apu'.cycle
  BY <1>1, <1>3, <1>5, <1>6 DEF Later, Still
<1>8. HasDma(dma')
  BY <1>1, <1>5, <1>6 DEF HasDma, Streams
<1>. QED  BY <1>1, <1>2, <1>7, <1>8 DEF SoundInv, EndLine, OnOnly

LEMMA SavesOn == ASSUME SoundInv, SaveSound PROVE OnOnly
<1>1. IsKept(saved')
  BY DEF SoundInv, SaveSound, IsKept
<1>. QED  BY <1>1, AloneOn DEF SoundInv, SaveSound, OnOnly

LEMMA LoadsBack == ASSUME SoundInv, LoadSound PROVE BackAsSaved
<1>1. PICK version \in 1..2 : apu' = Deserialized(apu, saved[1], version) /\ base' = apu'.cycle /\ saved # <<>>
  BY DEF LoadSound
<1>2. PICK u : Steady(u) /\ saved = <<Serialized(u)>>
  BY <1>1 DEF SoundInv, IsKept
<1>3. saved[1] = Serialized(u)
  BY <1>2
<1>4. Steady(apu') /\ [Serialized(apu') EXCEPT !.reg = <<>>] = [saved[1] EXCEPT !.reg = <<>>]
  BY <1>1, <1>2, <1>3, LoadBringsBack DEF SoundInv
<1>5. base' \in Int
  BY <1>1, <1>4 DEF Steady, IsUnit, HasClock
<1>. QED  BY <1>4, <1>5 DEF SoundInv, LoadSound, BackAsSaved

LEMMA SoundSteps == ASSUME PcmType, SoundInv, [SoundNext]_soundvars PROVE OnOnly \/ BackAsSaved
<1>1. CASE UNCHANGED soundvars
  BY <1>1, AloneOn DEF SoundInv, soundvars, OnOnly
<1>2. CASE CpuRuns
  BY <1>2, RunsOn
<1>3. CASE WriteSound
  BY <1>3, WritesOn
<1>4. CASE SetTimer
  BY <1>4, TimersOn
<1>5. CASE Arm
  BY <1>5, ArmsOn
<1>6. CASE Disarm
  BY <1>6, DisarmsOn
<1>7. CASE EndLine
  BY <1>7, LinesOn
<1>8. CASE SaveSound
  BY <1>8, SavesOn
<1>9. CASE LoadSound
  BY <1>9, LoadsBack
<1>. QED  BY <1>1, <1>2, <1>3, <1>4, <1>5, <1>6, <1>7, <1>8, <1>9 DEF SoundNext

\* Whatever bytes the cartridge holds, what is heard of a stream lies between its
\* sample and the next one.
THEOREM LevelStaysBetween == ASSUME PcmType PROVE SoundSpec => []LevelIsBetween
<1>1. SoundInv => LevelIsBetween
  BY LevelBetween DEF SoundInv, LevelIsBetween
<1>2. SoundInv /\ [SoundNext]_soundvars => SoundInv'
  BY SoundSteps DEF OnOnly, BackAsSaved
<1>. QED  BY <1>1, <1>2, SoundStarts, PTL DEF SoundSpec

\* Whatever state is loaded, of either version, into whatever unit.
THEOREM LoadGivesBack == ASSUME PcmType PROVE SoundSpec => LoadsWhatWasSaved
<1> DEFINE Given == apu'.cycle < apu.cycle => [Serialized(apu') EXCEPT !.reg = <<>>] = [saved[1] EXCEPT !.reg = <<>>]
<1>1. SoundInv /\ [SoundNext]_soundvars => SoundInv'
  BY SoundSteps DEF OnOnly, BackAsSaved
<1>2. SoundInv /\ [SoundNext]_soundvars => [Given]_soundvars
  <2> SUFFICES ASSUME SoundInv, [SoundNext]_soundvars PROVE [Given]_soundvars
    OBVIOUS
  <2>1. CASE OnOnly
    <3>1. apu.cycle \in Int /\ apu'.cycle \in Int /\ apu.cycle <= apu'.cycle
      BY <2>1 DEF OnOnly, SoundInv, Steady, IsUnit, HasClock
    <3>2. ~(apu'.cycle < apu.cycle)
      BY <3>1
    <3>. QED  BY <3>2
  <2>2. CASE BackAsSaved
    BY <2>2 DEF BackAsSaved
  <2>. QED  BY <2>1, <2>2, SoundSteps
<1>. QED  BY <1>1, <1>2, SoundStarts, PTL DEF SoundSpec, LoadsWhatWasSaved
=============================================================================
