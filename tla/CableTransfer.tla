--------------------------- MODULE CableTransfer ---------------------------
(***************************************************************************)
(* The link cable's Multi-Player transfer between two settled ends, over   *)
(* the netplay transport: gba-core/src/cable.rs (CableProto), the blocking *)
(* parent loop of gba-libretro/src/netpacket.rs (NetCable) and the serial  *)
(* engine of gba-core/src/memory.rs.                                       *)
(*                                                                         *)
(* A transfer is meant to be a simultaneous exchange: each unit's word     *)
(* lands in the other.  The code makes it a clock packet, a reply packet   *)
(* and, when the parent stops waiting, a give-up packet.                   *)
(*                                                                         *)
(* Exchanges are numbered 1, 2, ... in the order the parent begins them.   *)
(* Packets carry the number, but the code only ever sees the u8 sequence   *)
(* number, so every comparison the code makes is made here through SeqOf.  *)
(* Words are named by the store that produced them: the parent's game      *)
(* stores the number of the exchange it is arming, the child's game counts *)
(* its stores.  No handler looks inside a word.                            *)
(***************************************************************************)
EXTENDS Integers, Sequences

CONSTANTS
  SeqMod,          \* sequence numbers in use: 256, they are u8
  SeenWindow,      \* SEEN_WINDOW, answered clocks remembered: 8
  QueueMax,        \* CHILD_QUEUE_MAX: 8
  OpenAfter,       \* FAILURES_BEFORE_OPEN_CIRCUIT: 3
  MaxExchanges,    \* bound: exchanges the parent begins
  MaxStores,       \* bound: words the child's game stores
  MaxInFlight,     \* bound: packets on the wire when one more clock, or one
                   \* more copy of a reply, goes out
  MaxParks,        \* bound: times the child's game leaves Multi-Player mode
  Lossy,           \* may the transport lose a packet?
  Reordering,      \* may it deliver them out of order?
  LongOutages      \* may it be dead for a whole turn of the sequence number?

ASSUME CableAssumption ==
  /\ SeqMod \in Nat /\ SeqMod >= 2
  /\ SeenWindow \in Nat \ {0}
  /\ QueueMax \in Nat \ {0}
  /\ OpenAfter \in Nat \ {0}
  /\ MaxExchanges \in Nat /\ MaxStores \in Nat /\ MaxInFlight \in Nat
  /\ MaxParks \in Nat
  /\ Lossy \in BOOLEAN /\ Reordering \in BOOLEAN /\ LongOutages \in BOOLEAN

VARIABLES
  \* the parent: its game, its serial engine, its CableProto
  pOut,        \* SIOMLT_SEND
  phase,       \* cable_busy, and whether the core is blocked in parent_result
  awaiting,    \* the exchange awaiting a reply, 0 for none
  pendingOut,  \* the word latched for that exchange
  reply,       \* the reply that matched it, NoWord for none
  failures,    \* cable_failures: consecutive give-ups
  outcome,     \* history: what its game was told of each exchange
  \* the child
  mode,        \* what its game has the serial port in
  parks,       \* times it has left Multi-Player mode
  own,         \* own_output, its SIOMLT_SEND
  armed,       \* armed_since_answer
  onBus,       \* on_bus, as of the last step of its serial port
  deferred,    \* the clock held back, NoTransfer for none
  queue,       \* child_input: clocked in, not yet collected
  words,       \* cable_words: the transfer its serial engine is running
  shifted,     \* shifted > 0
  cold,        \* answered_cold > 0
  answers,     \* history: every clock answered, oldest first
  delivered,   \* history: exchanges landed in the child's game, in order
  flushed,     \* history: exchanges in flight when the game selected the mode
  \* the wire
  p2c, c2p

parentVars == <<pOut, phase, awaiting, pendingOut, reply, failures, outcome>>
childVars  == <<mode, parks, own, armed, onBus, deferred, queue, words, shifted, cold,
                answers, delivered, flushed>>
vars == <<parentVars, childVars, p2c, c2p>>

-----------------------------------------------------------------------------
Absent     == 0     \* FFFF: what an undriven slot reads, and a fresh port holds
NoWord     == -1
NoTransfer == [n |-> 0, pw |-> 0, cw |-> 0]

Transfer == [n : Nat, pw : Nat, cw : Nat]
Clock(n, w) == [tag |-> "clock", n |-> n, word |-> w]
GaveUp(n)   == [tag |-> "gaveup", n |-> n, word |-> 0]
Reply(n, w) == [n |-> n, word |-> w]

\* next_seq as the wire carries it.
SeqOf(n) == (n - 1) % SeqMod
SameSeq(m, n) == SeqOf(m) = SeqOf(n)

Begun == Len(outcome)

\* CableProto::seen and last_reply are the tail of the answers given.
SeenEntries == {i \in 1..Len(answers) : i > Len(answers) - SeenWindow}
NeverSeen(n) == FALSE                        \* mutant: no duplicate suppression
SeenBefore(n) == \E i \in SeenEntries : SameSeq(answers[i].n, n)
LastReply == answers[Len(answers)]

\* last_accepted: the last answer given while on the bus, 0 for none.
OnBusAnswers == {i \in 1..Len(answers) : answers[i].bus}
LastAccepted ==
  IF OnBusAnswers = {} THEN 0
  ELSE answers[CHOOSE i \in OnBusAnswers : \A j \in OnBusAnswers : j <= i].n
\* last.wrapping_sub(seq) < 128
PastOnly(last, n) ==                         \* mutant: the boundary dropped
  (SeqOf(last) - SeqOf(n)) % SeqMod \in 1..(SeqMod \div 2 - 1)
AtOrPast(last, n) == (SeqOf(last) - SeqOf(n)) % SeqMod < SeqMod \div 2

Without(s, i) == [j \in 1..(Len(s) - 1) |-> IF j < i THEN s[j] ELSE s[j + 1]]

\* The positions a transport may deliver from.
Deliverable(s) == IF Reordering THEN 1..Len(s) ELSE 1..Len(s) \cap {1}
Room(s) == Len(s) < MaxInFlight

\* The environment's part: nothing in flight, held or queued is a whole turn of
\* the sequence counter older than the exchange about to begin.  A turn is 256
\* clocks.  The child's memory of its answers is as young, unless the wire goes
\* dead for a turn: LongOutages.
InPlay ==
  {p2c[i].n : i \in 1..Len(p2c)} \cup {c2p[i].n : i \in 1..Len(c2p)}
    \cup {queue[i].n : i \in 1..Len(queue)}
    \cup (IF deferred = NoTransfer THEN {} ELSE {deferred.n})
WithinTurn(ns) == \A m \in ns : Begun + 1 - m < SeqMod
WithinWrap ==
  /\ WithinTurn(InPlay)
  /\ LongOutages \/ WithinTurn({answers[i].n : i \in SeenEntries})

-----------------------------------------------------------------------------
(* The parent's game and serial engine                                     *)

\* A store to SIOMLT_SEND.  It may land while a transfer is already running.
ParentStore ==
  /\ phase # "waiting"
  /\ pOut # Begun + 1
  /\ pOut' = Begun + 1
  /\ UNCHANGED <<phase, awaiting, pendingOut, reply, failures, outcome,
                 childVars, p2c, c2p>>

\* CableProto::begin_exchange: the word is latched and the clock goes out.
BeginExchange(word) ==
  /\ outcome' = Append(outcome, [kind |-> "begun", own |-> 0, peer |-> 0])
  /\ awaiting' = Begun + 1
  /\ pendingOut' = word
  /\ reply' = NoWord
  /\ p2c' = Append(p2c, Clock(Begun + 1, word))

\* A store of SIOCNT's start bit: sio_transfer and multi_start.  Nothing in
\* that path asks whether a transfer is running.
ParentStart ==
  /\ phase # "waiting"
  /\ Begun < MaxExchanges /\ Room(p2c)
  /\ WithinWrap
  /\ BeginExchange(pOut)
  /\ phase' = "shifting"
  /\ UNCHANGED <<pOut, failures, childVars, c2p>>

\* mutant: the own slot read from the register when the transfer completes
ConcludeFromRegister(kind, ownWord, peerWord) ==
  outcome' = [outcome EXCEPT ![awaiting] =
                [kind |-> kind, own |-> pOut, peer |-> peerWord]]

Conclude(kind, ownWord, peerWord) ==
  outcome' = [outcome EXCEPT ![awaiting] =
                [kind |-> kind, own |-> ownWord, peer |-> peerWord]]

\* CableProto::abandon: forget the exchange and tell the peer.
Abandon ==
  /\ awaiting' = 0
  /\ reply' = NoWord
  /\ p2c' = Append(p2c, GaveUp(awaiting))

\* The transfer's duration has run out: multi_finish asks for the result and
\* the core blocks in parent_result ...
ParentCollect ==
  /\ phase = "shifting"
  /\ failures < OpenAfter
  /\ phase' = "waiting"
  /\ UNCHANGED <<pOut, awaiting, pendingOut, reply, failures, outcome,
                 childVars, p2c, c2p>>

\* ... or, with the circuit open, the exchange is failed on the spot.
ParentOpenCircuit ==
  /\ phase = "shifting"
  /\ failures >= OpenAfter
  /\ Abandon
  /\ Conclude("gone", pendingOut, Absent)
  /\ phase' = "idle"
  /\ UNCHANGED <<pOut, pendingOut, failures, childVars, c2p>>

\* The loop of parent_result: the reply has arrived.
ParentLand ==
  /\ phase = "waiting" /\ reply # NoWord
  /\ Conclude("landed", pendingOut, reply)
  /\ awaiting' = 0
  /\ reply' = NoWord
  /\ failures' = 0
  /\ phase' = "idle"
  /\ UNCHANGED <<pOut, pendingOut, childVars, p2c, c2p>>

\* It has not by RETRANSMIT_AFTER: the clock goes out again.
ParentRetry ==
  /\ phase = "waiting" /\ reply = NoWord /\ Room(p2c)
  /\ p2c' = Append(p2c, Clock(awaiting, pendingOut))
  /\ UNCHANGED <<parentVars, childVars, c2p>>

\* It has not by EXCHANGE_TIMEOUT: the game is told the word was late.
ParentWaitsForever == FALSE                  \* mutant: no deadline

ParentTimeout ==
  /\ phase = "waiting" /\ reply = NoWord
  /\ Abandon
  /\ Conclude("late", pendingOut, Absent)
  /\ failures' = failures + 1
  /\ phase' = "idle"
  /\ UNCHANGED <<pOut, pendingOut, childVars, c2p>>

\* The game leaves Multi-Player mode and selects it again: flush.  An exchange
\* in flight is dropped without a word to the peer.
ParentSelectMulti ==
  /\ phase # "waiting"
  /\ awaiting # 0 \/ failures # 0
  /\ awaiting' = 0
  /\ reply' = NoWord
  /\ failures' = 0
  /\ phase' = "idle"
  /\ UNCHANGED <<pOut, pendingOut, outcome, childVars, p2c, c2p>>

\* np_receive on the parent: a reply, which is consumed only if it answers the
\* exchange being awaited.
AnswersAny(r) == awaiting # 0        \* mutant: replies taken unpaired
AnswersAwaited(r) == awaiting # 0 /\ SameSeq(r.n, awaiting)

ParentReceive ==
  \E i \in Deliverable(c2p) :
    /\ c2p' = Without(c2p, i)
    /\ failures' = 0
    /\ reply' = IF AnswersAwaited(c2p[i]) THEN c2p[i].word ELSE reply
    /\ UNCHANGED <<pOut, phase, awaiting, pendingOut, outcome, childVars, p2c>>

\* A ping or any other cable packet says only that the peer is alive.
ParentHearsPeer ==
  /\ failures # 0
  /\ failures' = 0
  /\ UNCHANGED <<pOut, phase, awaiting, pendingOut, reply, outcome, childVars,
                 p2c, c2p>>

-----------------------------------------------------------------------------
(* The child's transport                                                   *)

\* Answered cold: the game has stored nothing since the last answer.
ColdIfQueued(isArmed) == onBus /\ queue # <<>>   \* mutant: the stale_risk proxy
Cold(isArmed) == onBus /\ answers # <<>> /\ ~isArmed

\* child_input with t pushed, the oldest entry dropped when it is full.
Kept == IF Len(queue) >= QueueMax THEN Tail(queue) ELSE queue
PushedFront(t) == <<t>> \o Kept              \* mutant: pushed at the wrong end
Pushed(t) == Append(Kept, t)

\* accept_clock: answer transfer t with `word`, the child being armed or not.
Accept(t, word, isArmed, held) ==
  LET cw == IF onBus THEN word ELSE Absent IN
  /\ c2p' = Append(c2p, Reply(t.n, cw))
  /\ answers' = Append(answers, [n |-> t.n, pw |-> t.pw, cw |-> cw,
                                 bus |-> onBus, held |-> held])
  /\ cold' = (cold \/ Cold(isArmed))
  /\ armed' = (isArmed /\ ~onBus)
  /\ queue' = IF onBus THEN Pushed([n |-> t.n, pw |-> t.pw, cw |-> cw]) ELSE queue

\* set_output: the game stores its next word, and a held clock is answered
\* with it at once.
ChildStore ==
  /\ own < MaxStores
  /\ own' = own + 1
  /\ IF deferred = NoTransfer
     THEN armed' = TRUE /\ UNCHANGED <<c2p, answers, cold, queue>>
     ELSE Accept(deferred, own + 1, TRUE, TRUE)
  /\ deferred' = NoTransfer
  /\ UNCHANGED <<parentVars, mode, parks, onBus, words, shifted, delivered, flushed, p2c>>

\* advance: DEFER_MAX_CYCLES passed without the store, whatever mode the port
\* is in.
DeferralAgesOnBus == deferred # NoTransfer /\ mode = "multi"  \* mutant
DeferralAges == deferred # NoTransfer

DeferralExpires ==
  /\ DeferralAges
  /\ Accept(deferred, own, armed, TRUE)
  /\ deferred' = NoTransfer
  /\ UNCHANGED <<parentVars, mode, parks, own, onBus, words, shifted, delivered,
                 flushed, p2c>>

\* on_packet, TAG_CLOCK.  A clock already answered gets the last reply again
\* if it is the one that reply answered, and nothing otherwise.
ClockSeen(p) ==
  /\ SeenBefore(p.n)
  /\ IF SameSeq(LastReply.n, p.n)
     THEN Room(c2p) /\ c2p' = Append(c2p, Reply(LastReply.n, LastReply.cw))
     ELSE UNCHANGED c2p
  /\ UNCHANGED <<armed, deferred, queue, cold, answers>>

MustHold == onBus /\ answers # <<>> /\ ~armed /\ deferred = NoTransfer

ClockHeld(p) ==
  /\ ~SeenBefore(p.n)
  /\ MustHold
  /\ deferred' = [n |-> p.n, pw |-> p.word, cw |-> 0]
  /\ UNCHANGED <<armed, queue, cold, answers, c2p>>

ClockAlreadyHeld(p) ==
  /\ ~SeenBefore(p.n)
  /\ deferred # NoTransfer /\ SameSeq(deferred.n, p.n)
  /\ UNCHANGED <<armed, deferred, queue, cold, answers, c2p>>

ClockAccepted(p) ==
  /\ ~SeenBefore(p.n)
  /\ ~MustHold
  /\ deferred = NoTransfer \/ ~SameSeq(deferred.n, p.n)
  /\ Accept([n |-> p.n, pw |-> p.word, cw |-> 0], own, armed, FALSE)
  /\ UNCHANGED deferred

ChildClocked ==
  \E i \in Deliverable(p2c) :
    /\ p2c[i].tag = "clock"
    /\ \/ ClockSeen(p2c[i])
       \/ ClockHeld(p2c[i])
       \/ ClockAlreadyHeld(p2c[i])
       \/ ClockAccepted(p2c[i])
    /\ p2c' = Without(p2c, i)
    /\ UNCHANGED <<parentVars, mode, parks, own, onBus, words, shifted, delivered, flushed>>

\* on_packet, TAG_GAVE_UP: take the transfer back if it is still queued, else
\* say that it is too late.  A clock held back is not looked at.
TakeBack(gone) ==
  LET kept == {j \in 1..Len(queue) : ~SameSeq(queue[j].n, gone)} IN
  \E k \in 0..Len(queue) : \E f \in [1..k -> 1..Len(queue)] :
    /\ \A i, j \in 1..k : i < j => f[i] < f[j]
    /\ {f[i] : i \in 1..k} = kept
    /\ queue' = [i \in 1..k |-> queue[f[i]]]

ChildToldGaveUp ==
  \E i \in Deliverable(p2c) :
    LET gone == p2c[i].n IN
        /\ p2c[i].tag = "gaveup"
        /\ IF \E j \in 1..Len(queue) : SameSeq(queue[j].n, gone)
           THEN TakeBack(gone) /\ UNCHANGED shifted
           ELSE /\ shifted' = (shifted \/ (LastAccepted # 0 /\ AtOrPast(LastAccepted, gone)))
                /\ UNCHANGED queue
        /\ p2c' = Without(p2c, i)
        /\ UNCHANGED <<parentVars, mode, parks, own, armed, onBus, deferred, words,
                       cold, answers, delivered, flushed, c2p>>

(* The child's game and serial engine                                      *)

\* step_serial on a child: land the transfer whose duration is up, tell the
\* cable whether the port is on the bus, and collect the next transfer.
ChildStep ==
  \E finished \in {TRUE, FALSE} :
    LET lands == finished /\ words # NoTransfer
        free  == lands \/ words = NoTransfer
        takes == free /\ mode = "multi" /\ queue # <<>>
    IN  /\ delivered' = IF lands THEN Append(delivered, words) ELSE delivered
        /\ onBus' = (mode = "multi")
        /\ words' = IF takes THEN Head(queue)
                    ELSE IF free THEN NoTransfer ELSE words
        /\ queue' = IF takes THEN Tail(queue) ELSE queue
        /\ UNCHANGED <<parentVars, mode, parks, own, armed, deferred, shifted, cold,
                       answers, flushed, p2c, c2p>>

\* The game takes the port out of Multi-Player mode, by RCNT or by SIOCNT.
ChildPark ==
  /\ mode = "multi"
  /\ parks < MaxParks
  /\ mode' = "parked"
  /\ parks' = parks + 1
  /\ UNCHANGED <<parentVars, own, armed, onBus, deferred, queue, words, shifted,
                 cold, answers, delivered, flushed, p2c, c2p>>

\* It comes back through RCNT, which flushes nothing ...
ChildUnpark ==
  /\ mode = "parked"
  /\ mode' = "multi"
  /\ UNCHANGED <<parentVars, parks, own, armed, onBus, deferred, queue, words, shifted,
                 cold, answers, delivered, flushed, p2c, c2p>>

\* ... or by selecting the mode in SIOCNT, which drops what is in flight.
\* mutant: the transfer its serial engine is running survives the flush
ChildSelectMultiKeepsShifting ==
  /\ mode = "parked"
  /\ mode' = "multi"
  /\ queue' = <<>>
  /\ flushed' = flushed \cup {queue[i].n : i \in 1..Len(queue)}
                        \cup ({words.n, deferred.n} \ {0})
  /\ UNCHANGED <<parentVars, parks, own, armed, onBus, deferred, words, shifted,
                 cold, answers, delivered, p2c, c2p>>

ChildSelectMulti ==
  /\ mode = "parked"
  /\ mode' = "multi"
  /\ queue' = <<>>
  /\ words' = NoTransfer
  /\ flushed' = flushed \cup {queue[i].n : i \in 1..Len(queue)}
                        \cup ({words.n, deferred.n} \ {0})
  /\ UNCHANGED <<parentVars, parks, own, armed, onBus, deferred, shifted, cold,
                 answers, delivered, p2c, c2p>>

(* The transport                                                           *)
Lose ==
  /\ Lossy
  /\ \/ \E i \in 1..Len(p2c) : p2c' = Without(p2c, i) /\ UNCHANGED c2p
     \/ \E i \in 1..Len(c2p) : c2p' = Without(c2p, i) /\ UNCHANGED p2c
  /\ UNCHANGED <<parentVars, childVars>>

-----------------------------------------------------------------------------
Init ==
  /\ pOut = Absent /\ phase = "idle" /\ awaiting = 0 /\ pendingOut = Absent
  /\ reply = NoWord /\ failures = 0 /\ outcome = <<>>
  /\ mode = "multi" /\ parks = 0 /\ own = Absent /\ armed = FALSE /\ onBus = TRUE
  /\ deferred = NoTransfer /\ queue = <<>> /\ words = NoTransfer
  /\ shifted = FALSE /\ cold = FALSE
  /\ answers = <<>> /\ delivered = <<>> /\ flushed = {}
  /\ p2c = <<>> /\ c2p = <<>>

ParentNext ==
  \/ ParentStore \/ ParentStart \/ ParentCollect \/ ParentOpenCircuit
  \/ ParentLand \/ ParentRetry \/ ParentTimeout \/ ParentSelectMulti
  \/ ParentReceive \/ ParentHearsPeer

ChildNext ==
  \/ ChildStore \/ DeferralExpires \/ ChildClocked \/ ChildToldGaveUp
  \/ ChildStep \/ ChildPark \/ ChildUnpark \/ ChildSelectMulti

Next == ParentNext \/ ChildNext \/ Lose

Spec == Init /\ [][Next]_vars

\* Both cores keep running: their serial ports are stepped every scanline, and
\* so are the parent's wait and the deadline of a clock held back.  Neither the
\* games nor the wire promise anything, nor one end that the other goes on.
ParentGoesOn == ParentCollect \/ ParentOpenCircuit \/ ParentLand \/ ParentTimeout
Fairness == WF_vars(ParentGoesOn) /\ WF_vars(DeferralExpires)

FairSpec == Spec /\ Fairness

-----------------------------------------------------------------------------
Phase   == {"idle", "shifting", "waiting"}
Outcome == [kind : {"begun", "landed", "late", "gone"}, own : Nat, peer : Nat]
Answer  == [n : Nat, pw : Nat, cw : Nat, bus : BOOLEAN, held : BOOLEAN]

\* Every variable keeps its type.
TypeOK ==
  /\ pOut \in Nat /\ phase \in Phase /\ awaiting \in Nat /\ pendingOut \in Nat
  /\ reply \in Nat \cup {NoWord}
  /\ failures \in 0..OpenAfter
  /\ outcome \in Seq(Outcome)
  /\ mode \in {"multi", "parked"} /\ parks \in Nat /\ own \in Nat
  /\ armed \in BOOLEAN /\ onBus \in BOOLEAN
  /\ deferred \in Transfer /\ queue \in Seq(Transfer) /\ words \in Transfer
  /\ shifted \in BOOLEAN /\ cold \in BOOLEAN
  /\ answers \in Seq(Answer)
  /\ delivered \in Seq(Transfer) /\ flushed \subseteq Nat
  /\ p2c \in Seq([tag : {"clock", "gaveup"}, n : Nat, word : Nat])
  /\ c2p \in Seq([n : Nat, word : Nat])

AnswerTo(n) == {i \in 1..Len(answers) : answers[i].n = n}

\* A transfer that landed on the parent is one the child answered, with that
\* very word, having been clocked with the word the parent shows in its own
\* slot: a reply to another exchange, or a word stored while the transfer was
\* running, never gets into it (cable.rs take_reply, pending_out).
Paired ==
  \A n \in 1..Begun :
    outcome[n].kind = "landed" =>
      \E i \in AnswerTo(n) : /\ answers[i].cw = outcome[n].peer
                             /\ answers[i].pw = outcome[n].own

\* However often a clock is retransmitted, and however long it was held back,
\* the child answers it afresh once at most (cable.rs seen, deferred).
AnsweredOnce ==
  \A i, j \in 1..Len(answers) : answers[i].n = answers[j].n => i = j

\* And its game sees the exchange once at most, as the parent clocked it.
DeliveredOnce ==
  /\ \A i, j \in 1..Len(delivered) : delivered[i].n = delivered[j].n => i = j
  /\ \A i \in 1..Len(delivered) :
       \E j \in AnswerTo(delivered[i].n) :
          answers[j].cw = delivered[i].cw /\ answers[j].pw = delivered[i].pw

\* If two transfers were answered with one store of SIOMLT_SEND, the counter
\* for it is up (cable.rs answered_cold): a stale word never goes uncounted.
StaleWordCounted ==
  ~cold => \A i, j \in 1..Len(answers) :
             (answers[i].bus /\ answers[j].bus /\ answers[i].cw = answers[j].cw) => i = j

IsHeld(n) == \E i \in AnswerTo(n) : answers[i].held

\* Transfers the child answered as they arrived reach its game in the order
\* the parent clocked them (cable.rs child_clock).
DeliveredInOrder ==
  \A i, j \in 1..Len(delivered) :
    (i < j /\ ~IsHeld(delivered[i].n) /\ ~IsHeld(delivered[j].n))
      => delivered[i].n < delivered[j].n

\* All three: the child's game is given each of the parent's exchanges once, in
\* the parent's order, and with a word whose staleness has been counted.
DeliveredAsClocked == DeliveredOnce /\ DeliveredInOrder /\ StaleWordCounted

GivenUp(n) == outcome[n].kind \in {"late", "gone"}
GiveUpOnWire(n) == \E i \in 1..Len(p2c) : p2c[i].tag = "gaveup" /\ p2c[i].n = n

\* A clock held back was answered when n was, or after.
HeldSince(n) == \E i \in AnswerTo(n) : \E j \in i..Len(answers) : answers[j].held

\* A transfer the parent gave up on and the child's game ran all the same has
\* shifted the two word streams for good.  Once the give-up has been read,
\* `shifted` says so, for every transfer no held clock was answered after.
OffsetCounted ==
  \A i \in 1..Len(delivered) :
    LET n == delivered[i].n IN
    (GivenUp(n) /\ ~GiveUpOnWire(n) /\ ~HeldSince(n)) => shifted

\* The same without the exception, which is what the comments on `shifted` and
\* on TAG_GAVE_UP in cable.rs say.
OffsetAlwaysCounted ==
  \A i \in 1..Len(delivered) :
    LET n == delivered[i].n IN
    (GivenUp(n) /\ ~GiveUpOnWire(n)) => shifted

Ran(n) == \E i \in 1..Len(delivered) : delivered[i].n = n

\* A transfer in flight when the game selected Multi-Player mode is gone: the
\* game never runs it afterwards (cable.rs flush_pending, memory.rs io_write),
\* unless its clock was being held back.
FlushIsFinal ==
  [][\A n \in flushed : Ran(n)' => (Ran(n) \/ IsHeld(n))]_vars

\* What the cable promises the two games, implemented.
Words == 0..(MaxExchanges + 1 + MaxStores)
Exchanges(s) == {[n |-> s[i].n, pw |-> s[i].pw, cw |-> s[i].cw] : i \in 1..Len(s)}

Promise == INSTANCE LinkExchange
             WITH result <- outcome, answered <- Exchanges(answers),
                  ran <- Exchanges(delivered)

\* Each step of the protocol is a step of that promise or none at all.
ImplementsExchange == Promise!Spec

\* The core never stays blocked on a transfer, and a transfer its game starts
\* ends, whatever the wire and the peer do.
TransferEnds == phase # "idle" ~> phase = "idle"

\* A clock held back is answered, even by a game that has left Multi-Player
\* mode and will never store another word.
HeldClockAnswered ==
  \A n \in 1..MaxExchanges : (deferred.n = n) ~> (\E i \in 1..Len(answers) : answers[i].n = n)
=============================================================================
