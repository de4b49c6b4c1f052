-------------------------- MODULE RfuAdapterProofs --------------------------
(***************************************************************************)
(* The rooms of RfuAdapter, for every number of adapters and slots and for *)
(* every value of its other constants: the state is well typed, a peer has *)
(* one slot of a room at most, blocks wait only for a member; and, of      *)
(* patient games, who believes itself attached is a member of that room.   *)
(***************************************************************************)
EXTENDS RfuAdapter, FiniteSetTheorems, SequenceTheorems, TLAPS

\* What keeps a room in order: no peer has two of its slots, and a queue that is
\* not empty is that of a slot taken, in a room that is open.
RoomOwned(r, open) ==
  /\ \A s, t \in Slots :
       /\ r.clients[s].devid # NoId /\ r.clients[t].devid # NoId
       /\ r.clients[s].peer = r.clients[t].peer
       => s = t
  /\ \A s \in Slots : r.inbox[s] # << >> => open /\ r.clients[s].devid # NoId

Owned == \A a \in Adapters : RoomOwned(room[a], link[a] = "Host")

Good == TypeOK /\ Owned

-----------------------------------------------------------------------------
(* Numbers.                                                                    *)

LEMMA LeastExists ==
  ASSUME NEW S, S \subseteq Nat, S # {}
  PROVE  \E m \in S : \A t \in S : m <= t
<1>1. IsWellFoundedOn(OpToRel(<, Nat), Nat)
  BY NatLessThanWellFounded
<1>2. PICK m \in S : \A y \in S : ~(<<y, m>> \in OpToRel(<, Nat))
  BY <1>1, WFMin, Zenon
<1>3. \A y \in S : ~(y < m)
  BY <1>2 DEF OpToRel
<1>4. m \in Nat /\ \A t \in S : t \in Nat
  BY <1>2
<1>5. \A t \in S : m <= t
  BY <1>3, <1>4
<1> QED
  BY <1>5

LEMMA HalfOfRemainder ==
  ASSUME NEW x \in Nat, NEW n \in Nat \ {0}
  PROVE  (x % n) \div 2 \in 0 .. n \div 2
<1>1. x % n \in 0 .. n - 1
  OBVIOUS
<1> QED
  BY <1>1

LEMMA NewDevIdType ==
  ASSUME NEW a \in Adapters, NEW count \in Nat
  PROVE  NewDevId(a, count) \in DevIds
  BY HalfOfRemainder, RfuAssumption DEF NewDevId, DevIds

LEMMA DevIdIsSome == \A d \in DevIds : d # NoId
<1> TAKE d \in DevIds
<1>1. PICK a \in Adapters, k \in 0 .. IdCycle \div 2 : d = <<a, k>>
  BY DEF DevIds
<1> QED
  BY <1>1 DEF NoId

LEMMA OneMoreType ==
  ASSUME NEW t \in 0 .. ClientTtl - 1
  PROVE  /\ OneMore(t) \in Nat
         /\ ~(OneMore(t) >= ClientTtl) => OneMore(t) \in 0 .. ClientTtl - 1
  BY RfuAssumption DEF OneMore

-----------------------------------------------------------------------------
(* Rooms.                                                                      *)

LEMMA FirstFreeIsFree ==
  ASSUME NEW a \in Adapters, FreeSlots(a) # {}
  PROVE  FirstFree(a) \in Slots
<1>1. FreeSlots(a) \subseteq Nat /\ FreeSlots(a) \subseteq Slots
  BY RfuAssumption DEF FreeSlots, Slots
<1>2. \E s \in FreeSlots(a) : \A t \in FreeSlots(a) : s <= t
  BY <1>1, LeastExists
<1> QED
  BY <1>1, <1>2 DEF FirstFree

LEMMA NoRoomType == NoRoom \in Rooms /\ \A open \in BOOLEAN : RoomOwned(NoRoom, open)
<1>1. Free \in Clients /\ Free.devid = NoId
  BY DEF Free, Clients
<1>2. << >> \in Queues
  BY RfuAssumption DEF Queues
<1> QED
  BY <1>1, <1>2, RfuAssumption DEF NoRoom, Rooms, RoomOwned

LEMMA FreeType == Free \in Clients /\ Free.devid = NoId
  BY DEF Free, Clients

LEMMA EmptyQueue == << >> \in Queues
  BY RfuAssumption DEF Queues

LEMMA EvictedOwned ==
  ASSUME NEW r \in Rooms, NEW slots, NEW open \in BOOLEAN, RoomOwned(r, open)
  PROVE  /\ Evicted(r, slots) \in Rooms
         /\ Evicted(r, slots).devid = r.devid
         /\ RoomOwned(Evicted(r, slots), open)
  BY FreeType, EmptyQueue DEF Evicted, Rooms, RoomOwned

LEMMA QueuedType ==
  ASSUME NEW q \in Queues, NEW block \in Blocks
  PROVE  Queued(q, block) \in Queues
  BY RfuAssumption, AppendProperties DEF Queued, Queues

LEMMA CollectedType ==
  ASSUME NEW q \in Queues
  PROVE  Collected(q) \in Queues /\ (Collected(q) # << >> => q # << >>)
<1>1. CASE q # << >> /\ Head(q).len > 0
  <2>1. q \in Seq(Blocks) /\ Len(q) \in Nat
    BY DEF Queues
  <2>2. Tail(q) \in Seq(Blocks) /\ Len(Tail(q)) = Len(q) - 1
    BY <1>1, <2>1, HeadTailProperties
  <2>3. Len(Tail(q)) <= QueueDepth
    BY <2>1, <2>2, RfuAssumption DEF Queues
  <2> QED
    BY <1>1, <2>2, <2>3 DEF Collected, Queues
<1>2. CASE ~(q # << >> /\ Head(q).len > 0)
  BY <1>2 DEF Collected
<1> QED
  BY <1>1, <1>2

-----------------------------------------------------------------------------
(* The wire.                                                                   *)

Wires == [Adapters -> [Adapters -> Seq(Packets)]]

LEMMA SentType ==
  ASSUME wire \in Wires, NEW a \in Adapters, NEW to, NEW p \in Packets
  PROVE  Sent(a, to, ToAll(p)) \in Wires
<1>1. \A b \in Adapters : Append(wire[a][b], p) \in Seq(Packets)
  BY AppendProperties DEF Wires
<1> QED
  BY <1>1 DEF Sent, ToAll, Wires

LEMMA DeliveredType ==
  ASSUME wire \in Wires, NEW a \in Adapters, NEW b \in Others(a), wire[b][a] # << >>,
         NEW replies \in Seq(Packets)
  PROVE  Delivered(a, b, replies) \in Wires
<1>1. b \in Adapters /\ b # a
  BY DEF Others
<1>2. Tail(wire[b][a]) \in Seq(Packets)
  BY <1>1, HeadTailProperties DEF Wires
<1>3. wire[a][b] \o replies \in Seq(Packets)
  BY <1>1, ConcatProperties DEF Wires
<1> QED
  BY <1>1, <1>2, <1>3 DEF Delivered, Wires

LEMMA PacketType ==
  ASSUME wire \in Wires, NEW a \in Adapters, NEW b \in Others(a), wire[b][a] # << >>
  PROVE  Packet(a, b) \in Packets
  BY HeadTailProperties DEF Wires, Packet, Others

LEMMA FedType ==
  ASSUME TypeOK, NEW a \in Adapters, NEW b
  PROVE  /\ Fed(a, b) \in [Adapters -> Guests]
         /\ \A c \in Adapters : /\ Fed(a, b)[c].devid = guest[c].devid
                                /\ Fed(a, b)[c].slot = guest[c].slot
                                /\ Fed(a, b)[c].host = guest[c].host
                                /\ Fed(a, b)[c].inbox = guest[c].inbox
<1>1. guest \in [Adapters -> Guests]
  BY DEF TypeOK
<1>2. 0 \in 0 .. ClientTtl - 1
  BY RfuAssumption
<1>3. CASE link[a] = "Client" /\ guest[a].host = b
  <2> DEFINE fed == [guest EXCEPT ![a].ttl = 0]
  <2>1. \A c \in Adapters : fed[c] = IF c = a THEN [guest[c] EXCEPT !.ttl = 0] ELSE guest[c]
    BY <1>1
  <2>2. \A g \in Guests : /\ [g EXCEPT !.ttl = 0] \in Guests
                          /\ [g EXCEPT !.ttl = 0].devid = g.devid
                          /\ [g EXCEPT !.ttl = 0].slot = g.slot
                          /\ [g EXCEPT !.ttl = 0].host = g.host
                          /\ [g EXCEPT !.ttl = 0].inbox = g.inbox
    BY <1>2 DEF Guests
  <2>3. Fed(a, b) = fed
    BY <1>3 DEF Fed
  <2>4. fed \in [Adapters -> Guests]
    BY <1>1, <2>1, <2>2
  <2> HIDE DEF fed
  <2> QED
    BY <1>1, <2>1, <2>2, <2>3, <2>4
<1>4. CASE ~(link[a] = "Client" /\ guest[a].host = b)
  BY <1>1, <1>4 DEF Fed
<1> QED
  BY <1>3, <1>4

-----------------------------------------------------------------------------
(* The game's commands.                                                        *)

\* What a command leaves alone, and its count.
LEMMA IssueType ==
  ASSUME TypeOK, NEW a \in Adapters, Issue(a)
  PROVE  /\ awake' \in [Adapters -> BOOLEAN]
         /\ commands' \in [Adapters -> Nat]
         /\ \A c \in Adapters : commands'[c] <= MaxCommands[c]
         /\ resets' \in [Adapters -> 0 .. MaxResets]
         /\ peers' \in [Adapters -> [Adapters -> {Unheard} \cup [devid : DevIds, ttl : 1 .. PeerTtl]]]
         /\ silenced' \in [Adapters -> SUBSET Grants]
<1>1. UNCHANGED <<awake, resets, peers, silenced>>
  BY DEF Issue
<1>2. commands' = [commands EXCEPT ![a] = commands[a] + 1] /\ commands[a] < MaxCommands[a]
  BY DEF Issue
<1>3. commands \in [Adapters -> Nat] /\ commands[a] \in Nat /\ MaxCommands[a] \in Nat
  BY RfuAssumption DEF TypeOK
<1>4. \A c \in Adapters : commands'[c] = IF c = a THEN commands[a] + 1 ELSE commands[c]
  BY <1>2, <1>3
<1>5. commands' \in [Adapters -> Nat]
  BY <1>2, <1>3
<1>6. \A c \in Adapters : commands'[c] <= MaxCommands[c]
  BY <1>2, <1>3, <1>4 DEF TypeOK
<1> QED
  BY <1>1, <1>5, <1>6 DEF TypeOK

\* A command that keeps the rooms, the memberships and the roles.
LEMMA QuietCommand ==
  ASSUME Good, NEW a \in Adapters, Issue(a), UNCHANGED <<link, room, guest>>,
         tx' \in [Adapters -> Blocks], loaded' \in [Adapters -> 0 .. MaxBlocks],
         wire' \in Wires
  PROVE  Good'
<1>1. TypeOK'
  BY IssueType DEF Good, TypeOK, Wires
<1>2. Owned'
  BY DEF Good, Owned, RoomOwned
<1> QED
  BY <1>1, <1>2 DEF Good

LEMMA OtherCommandGood ==
  ASSUME Good, NEW a \in Adapters, OtherCommand(a)
  PROVE  Good'
  BY QuietCommand DEF OtherCommand, Good, TypeOK, Wires

LEMMA HostStartGood ==
  ASSUME Good, NEW a \in Adapters, HostStart(a)
  PROVE  Good'
<1> DEFINE id == NewDevId(a, commands[a] + 1)
           opened == [room[a] EXCEPT !.devid = id, !.clients = NoRoom.clients,
                                     !.txTtl = AnnounceFrames]
           kept == [room[a] EXCEPT !.txTtl = AnnounceFrames]
<1>1. TypeOK /\ Owned /\ Issue(a) /\ room[a] \in Rooms
  BY DEF Good, HostStart, TypeOK
<1>2. id \in DevIds
  <2>1. commands[a] + 1 \in Nat
    BY <1>1 DEF TypeOK
  <2> QED
    BY <2>1, NewDevIdType
<1>3. AnnounceFrames \in 0 .. AnnounceFrames
  BY RfuAssumption
<1>4. CASE link[a] = "Idle"
  <2>1. /\ link' = [link EXCEPT ![a] = "Host"]
        /\ room' = [room EXCEPT ![a] = opened]
        /\ UNCHANGED <<guest, tx, loaded, wire>>
    BY <1>1, <1>4 DEF HostStart, TypeOK, Rooms
  <2>2. \A s \in Slots : room[a].inbox[s] = << >>
    BY <1>1, <1>4 DEF Owned, RoomOwned
  <2>3. opened \in Rooms /\ opened.devid \in DevIds /\ RoomOwned(opened, TRUE)
    BY <1>1, <1>2, <1>3, <2>2, FreeType DEF Rooms, NoRoom, RoomOwned
  <2>4. TypeOK'
    <3> HIDE DEF opened
    <3> QED
      BY <1>1, <2>1, <2>3, IssueType DEF TypeOK
  <2>5. Owned'
    <3> HIDE DEF opened
    <3> QED
      BY <1>1, <2>1, <2>3 DEF Owned, RoomOwned, TypeOK
  <2> QED
    BY <2>4, <2>5 DEF Good
<1>5. CASE link[a] # "Idle"
  <2>1. /\ room' = [room EXCEPT ![a] = kept]
        /\ UNCHANGED <<link, guest, tx, loaded, wire>>
    BY <1>1, <1>5 DEF HostStart, TypeOK, Rooms
  <2>2. /\ kept \in Rooms /\ kept.devid = room[a].devid
        /\ kept.clients = room[a].clients /\ kept.inbox = room[a].inbox
    BY <1>1, <1>3 DEF Rooms
  <2>3. TypeOK'
    <3> HIDE DEF kept
    <3> QED
      BY <1>1, <2>1, <2>2, IssueType DEF TypeOK
  <2>4. Owned'
    <3> HIDE DEF kept
    <3> QED
      BY <1>1, <2>1, <2>2 DEF Owned, RoomOwned, TypeOK
  <2> QED
    BY <2>3, <2>4 DEF Good
<1> QED
  BY <1>4, <1>5

LEMMA HostStopGood ==
  ASSUME Good, NEW a \in Adapters, HostStop(a)
  PROVE  Good'
<1>1. TypeOK /\ Owned /\ Issue(a)
  BY DEF Good, HostStop
<1>2. link' = [link EXCEPT ![a] = "Idle"] /\ UNCHANGED <<room, guest, tx, loaded, wire>>
  BY DEF HostStop
<1>3. \A s \in Slots : room[a].inbox[s] = << >>
  BY <1>1 DEF HostStop, Taken, Owned, RoomOwned
<1>4. TypeOK'
  BY <1>1, <1>2, IssueType DEF TypeOK
<1>5. Owned'
  BY <1>1, <1>2, <1>3 DEF Owned, RoomOwned, TypeOK
<1> QED
  BY <1>4, <1>5 DEF Good

\* A command of an adapter that is no host, and moves to another such state.
LEMMA NoHostCommand ==
  ASSUME Good, NEW a \in Adapters, Issue(a), link[a] # "Host",
         NEW l \in {"Idle", "Connecting"}, link' = [link EXCEPT ![a] = l],
         guest' \in [Adapters -> Guests],
         \A c \in Adapters : c # a => guest'[c] = guest[c],
         UNCHANGED <<room, tx, loaded>>, wire' \in Wires
  PROVE  Good'
<1>1. TypeOK'
  BY IssueType DEF Good, TypeOK, Wires
<1>2. Owned'
  BY DEF Good, Owned, RoomOwned, TypeOK
<1> QED
  BY <1>1, <1>2 DEF Good

LEMMA ConnectGood ==
  ASSUME Good, NEW a \in Adapters, NEW b, Connect(a, b)
  PROVE  Good'
<1>1. [type |-> "request"] \in Packets
  BY DEF Packets
<1>2. wire \in Wires
  BY DEF Good, TypeOK, Wires
<1>3. wire' \in Wires
  BY <1>1, <1>2, SentType DEF Connect
<1>4. guest' \in [Adapters -> Guests] /\ \A c \in Adapters : guest'[c] = guest[c]
  BY DEF Connect, Good, TypeOK
<1> QED
  BY <1>3, <1>4, NoHostCommand DEF Connect

LEMMA ConnectCompleteGood ==
  ASSUME Good, NEW a \in Adapters, ConnectComplete(a)
  PROVE  Good'
<1>1. guest' \in [Adapters -> Guests] /\ \A c \in Adapters : guest'[c] = guest[c]
  BY DEF ConnectComplete, Good, TypeOK
<1>2. wire' \in Wires
  BY DEF ConnectComplete, Good, TypeOK, Wires
<1> QED
  BY <1>1, <1>2, NoHostCommand DEF ConnectComplete

LEMMA ByeType == Bye \in Packets
  BY DEF Bye, Packets

LEMMA NoGuestType == NoGuest \in Guests
  BY EmptyQueue, RfuAssumption DEF NoGuest, Guests, Slots

LEMMA DisconnectSelfGood ==
  ASSUME Good, NEW a \in Adapters, DisconnectSelf(a)
  PROVE  Good'
<1>1. wire \in Wires /\ guest \in [Adapters -> Guests]
  BY DEF Good, TypeOK, Wires
<1>2. wire' \in Wires
  BY <1>1, ByeType, SentType DEF DisconnectSelf
<1>3. guest' \in [Adapters -> Guests] /\ \A c \in Adapters : c # a => guest'[c] = guest[c]
  BY <1>1, NoGuestType DEF DisconnectSelf
<1> QED
  BY <1>2, <1>3, NoHostCommand DEF DisconnectSelf

LEMMA DisconnectClientsGood ==
  ASSUME Good, NEW a \in Adapters, NEW mask, DisconnectClients(a, mask)
  PROVE  Good'
<1> DEFINE out == mask \cap Taken(a)
           left == Evicted(room[a], out)
<1>1. TypeOK /\ Owned /\ Issue(a) /\ room[a] \in Rooms /\ wire \in Wires
  BY DEF Good, TypeOK, Wires, DisconnectClients
<1>2. room' = [room EXCEPT ![a] = left] /\ UNCHANGED <<link, guest, tx, loaded>>
  BY DEF DisconnectClients
<1>3. wire' \in Wires
  BY <1>1, ByeType, SentType DEF DisconnectClients
<1>4. left \in Rooms /\ left.devid = room[a].devid /\ RoomOwned(left, link[a] = "Host")
  BY <1>1, EvictedOwned DEF Owned
<1>5. TypeOK'
  <2> HIDE DEF left
  <2> QED
    BY <1>1, <1>2, <1>3, <1>4, IssueType DEF TypeOK, Wires
<1>6. Owned'
  <2> HIDE DEF left
  <2> QED
    BY <1>1, <1>2, <1>4 DEF TypeOK, Owned, RoomOwned
<1> QED
  BY <1>5, <1>6 DEF Good

LEMMA TransmitType ==
  ASSUME TypeOK, NEW a \in Adapters, NEW block \in Blocks, Transmit(a, block)
  PROVE  wire' \in Wires
<1>1. wire \in Wires
  BY DEF TypeOK, Wires
<1>2. CASE link[a] = "Host" /\ block.len <= TxMaxHost
  <2>1. [type |-> "hostSend", block |-> block] \in Packets
    BY DEF Packets
  <2> QED
    BY <1>1, <1>2, <2>1, SentType DEF Transmit
<1>3. CASE link[a] = "Client" /\ block.len <= TxMaxClient
  <2>1. [type |-> "clientSend", devid |-> guest[a].devid, slot |-> guest[a].slot,
         block |-> block] \in Packets
    BY <1>3 DEF Packets, TypeOK, Guests
  <2> QED
    BY <1>1, <1>3, <2>1, SentType DEF Transmit
<1>4. CASE /\ ~(link[a] = "Host" /\ block.len <= TxMaxHost)
           /\ ~(link[a] = "Client" /\ block.len <= TxMaxClient)
  BY <1>1, <1>4 DEF Transmit
<1> QED
  BY <1>2, <1>3, <1>4

LEMMA SendDataGood ==
  ASSUME Good, NEW a \in Adapters, NEW len \in Lengths, SendData(a, len)
  PROVE  Good'
<1> DEFINE block == [src |-> a, n |-> loaded[a] + 1, len |-> len]
<1>1. TypeOK /\ Issue(a) /\ UNCHANGED <<link, room, guest>>
  BY DEF Good, SendData
<1>2. loaded[a] + 1 \in 0 .. MaxBlocks
  BY <1>1, RfuAssumption DEF SendData, TypeOK
<1>3. block \in Blocks
  BY <1>2 DEF Blocks
<1>4. tx' \in [Adapters -> Blocks] /\ loaded' \in [Adapters -> 0 .. MaxBlocks]
  BY <1>1, <1>2, <1>3 DEF SendData, TypeOK
<1>5. Transmit(a, block)
  BY DEF SendData
<1>6. wire' \in Wires
  <2> HIDE DEF block
  <2> QED
    BY <1>1, <1>3, <1>5, TransmitType
<1> QED
  BY <1>1, <1>4, <1>6, QuietCommand

LEMMA RtxWaitGood ==
  ASSUME Good, NEW a \in Adapters, RtxWait(a)
  PROVE  Good'
<1>1. tx[a] \in Blocks /\ TypeOK /\ tx' \in [Adapters -> Blocks]
      /\ loaded' \in [Adapters -> 0 .. MaxBlocks]
  BY DEF Good, TypeOK, RtxWait
<1>2. wire' \in Wires
  BY <1>1, TransmitType DEF RtxWait
<1> QED
  BY <1>1, <1>2, QuietCommand DEF RtxWait

LEMMA RecvDataGood ==
  ASSUME Good, NEW a \in Adapters, RecvData(a)
  PROVE  Good'
<1>1. TypeOK /\ Owned /\ Issue(a) /\ room[a] \in Rooms /\ guest[a] \in Guests
      /\ UNCHANGED <<link, tx, loaded, wire>>
  BY DEF Good, TypeOK, RecvData
<1>2. CASE link[a] = "Host"
  <2> DEFINE read == [room[a] EXCEPT !.inbox =
                        [s \in Slots |-> IF s \in Taken(a) THEN Collected(@[s]) ELSE @[s]]]
  <2>1. room' = [room EXCEPT ![a] = read] /\ UNCHANGED guest
    BY <1>1, <1>2 DEF RecvData, TypeOK, Rooms
  <2>2. \A s \in Slots : Collected(room[a].inbox[s]) \in Queues
                         /\ (Collected(room[a].inbox[s]) # << >> => room[a].inbox[s] # << >>)
    BY <1>1, CollectedType DEF Rooms
  <2>3. read \in Rooms /\ read.devid = room[a].devid /\ read.clients = room[a].clients
    BY <1>1, <2>2 DEF Rooms
  <2>4. \A s \in Slots : read.inbox[s] # << >> => room[a].inbox[s] # << >>
    BY <1>1, <2>2 DEF Rooms
  <2>5. RoomOwned(read, TRUE)
    <3>1. RoomOwned(room[a], TRUE)
      BY <1>1, <1>2 DEF Owned
    <3> HIDE DEF read
    <3> QED
      BY <2>3, <2>4, <3>1 DEF RoomOwned
  <2>6. TypeOK'
    <3> HIDE DEF read
    <3> QED
      BY <1>1, <2>1, <2>3, IssueType DEF TypeOK
  <2>7. Owned'
    <3> HIDE DEF read
    <3> QED
      BY <1>1, <1>2, <2>1, <2>5 DEF TypeOK, Owned, RoomOwned
  <2> QED
    BY <2>6, <2>7 DEF Good
<1>3. CASE link[a] # "Host"
  <2>1. guest' = [guest EXCEPT ![a].inbox = Collected(@)] /\ UNCHANGED room
    BY <1>1, <1>3 DEF RecvData
  <2>2. Collected(guest[a].inbox) \in Queues
    BY <1>1, CollectedType DEF Guests
  <2>3. guest' \in [Adapters -> Guests]
        /\ \A c \in Adapters : guest'[c].host = guest[c].host /\ guest'[c].devid = guest[c].devid
    BY <1>1, <2>1, <2>2 DEF TypeOK, Guests
  <2>4. TypeOK'
    BY <1>1, <2>1, <2>3, IssueType DEF TypeOK
  <2>5. Owned'
    BY <1>1, <2>1 DEF Owned, RoomOwned
  <2> QED
    BY <2>4, <2>5 DEF Good
<1> QED
  BY <1>2, <1>3

LEMMA CommandGood ==
  ASSUME Good, NEW a \in Adapters, Command(a)
  PROVE  Good'
  BY OtherCommandGood, HostStartGood, HostStopGood, ConnectGood, ConnectCompleteGood,
     DisconnectSelfGood, DisconnectClientsGood, SendDataGood, RtxWaitGood, RecvDataGood
     DEF Command

-----------------------------------------------------------------------------
(* Power cycles and frames.                                                    *)

LEMMA ResetGood ==
  ASSUME Good, NEW a \in Adapters, Reset(a)
  PROVE  Good'
<1>1. TypeOK /\ Owned /\ wire \in Wires
  BY DEF Good, TypeOK, Wires
<1>2. wire' \in Wires
  BY <1>1, ByeType, SentType DEF Reset
<1>3. resets' \in [Adapters -> 0 .. MaxResets]
  <2>1. resets[a] + 1 \in 0 .. MaxResets
    BY <1>1, RfuAssumption DEF Reset, TypeOK
  <2> QED
    BY <1>1, <2>1 DEF Reset, TypeOK
<1>4. /\ awake' = [awake EXCEPT ![a] = FALSE]
      /\ link' = [link EXCEPT ![a] = "Idle"]
      /\ room' = [room EXCEPT ![a] = NoRoom]
      /\ guest' = [guest EXCEPT ![a] = NoGuest]
      /\ peers' = [peers EXCEPT ![a] = [b \in Adapters |-> Unheard]]
      /\ UNCHANGED <<commands, tx, loaded, silenced>>
  BY DEF Reset
<1>5. TypeOK'
  BY <1>1, <1>2, <1>3, <1>4, NoRoomType, NoGuestType DEF TypeOK, Wires
<1>6. Owned'
  BY <1>1, <1>4, NoRoomType DEF TypeOK, Owned, RoomOwned
<1> QED
  BY <1>5, <1>6 DEF Good

LEMMA HandshakeGood ==
  ASSUME Good, NEW a \in Adapters, Handshake(a)
  PROVE  Good'
<1>1. TypeOK'
  BY DEF Good, Handshake, TypeOK
<1>2. Owned'
  BY DEF Good, Handshake, Owned, RoomOwned
<1> QED
  BY <1>1, <1>2 DEF Good

LEMMA OlderType ==
  ASSUME NEW p \in {Unheard} \cup [devid : DevIds, ttl : 1 .. PeerTtl]
  PROVE  Older(p) \in {Unheard} \cup [devid : DevIds, ttl : 1 .. PeerTtl]
<1>1. CASE p = Unheard
  BY <1>1 DEF Older, Unheard
<1>2. CASE p \in [devid : DevIds, ttl : 1 .. PeerTtl] /\ p.ttl > 1
  <2>1. p.ttl - 1 \in 1 .. PeerTtl
    BY <1>2, RfuAssumption
  <2> QED
    BY <1>2, <2>1 DEF Older
<1>3. CASE p \in [devid : DevIds, ttl : 1 .. PeerTtl] /\ ~(p.ttl > 1)
  BY <1>3, RfuAssumption DEF Older
<1> QED
  BY <1>1, <1>2, <1>3

\* A room whose members have grown a frame older, before the sweep.
OldClients == {Free} \cup [devid : DevIds, peer : Adapters, ttl : Nat]
OldRooms == [devid : DevIds \cup {NoId}, clients : [Slots -> OldClients],
             inbox : [Slots -> Queues], txTtl : 0 .. AnnounceFrames]

\* The sweep of a room: what is kept has been heard from lately.
LEMMA SweptOwned ==
  ASSUME TypeOK, NEW a \in Adapters, RoomOwned(room[a], TRUE), NEW t \in 0 .. AnnounceFrames
  PROVE  LET swept == [Evicted(Aged(room[a]), QuietSlots(a)) EXCEPT !.txTtl = t]
         IN  swept \in Rooms /\ swept.devid = room[a].devid /\ RoomOwned(swept, TRUE)
<1> DEFINE r == room[a]
           clients == [s \in Slots |-> IF s \in QuietSlots(a) \/ r.clients[s].devid = NoId
                                       THEN IF s \in QuietSlots(a) THEN Free ELSE r.clients[s]
                                       ELSE [r.clients[s] EXCEPT !.ttl = OneMore(@)]]
           inbox == [s \in Slots |-> IF s \in QuietSlots(a) THEN << >> ELSE r.inbox[s]]
           swept == [Evicted(Aged(r), QuietSlots(a)) EXCEPT !.txTtl = t]
<1>1. r \in Rooms
  BY DEF TypeOK
<1>2. /\ swept \in OldRooms /\ swept.devid = r.devid /\ swept.txTtl = t
      /\ swept.clients = clients /\ swept.inbox = inbox
  <2> DEFINE older == [s \in Slots |-> QuietLonger(r.clients[s])]
             old == [r EXCEPT !.clients = older]
             left == [s \in Slots |-> IF s \in QuietSlots(a) THEN Free ELSE old.clients[s]]
             emptied == [s \in Slots |-> IF s \in QuietSlots(a) THEN << >> ELSE old.inbox[s]]
             rest == [old EXCEPT !.clients = left, !.inbox = emptied]
  <2>1. older \in [Slots -> OldClients]
    <3>1. ASSUME NEW s \in Slots, r.clients[s].devid # NoId
          PROVE  [r.clients[s] EXCEPT !.ttl = OneMore(@)] \in OldClients
      <4>1. r.clients[s] \in [devid : DevIds, peer : Adapters, ttl : 0 .. ClientTtl - 1]
        BY <1>1, <3>1, FreeType DEF Rooms, Clients
      <4> QED
        BY <4>1, OneMoreType DEF OldClients
    <3>2. ASSUME NEW s \in Slots PROVE r.clients[s] \in OldClients
      BY <1>1, RfuAssumption DEF Rooms, Clients, OldClients
    <3> QED
      BY <3>1, <3>2 DEF QuietLonger
  <2>2. Aged(r) = old
    BY DEF Aged
  <2> HIDE DEF older
  <2>3. /\ old \in OldRooms /\ old.devid = r.devid
        /\ old.clients = older /\ old.inbox = r.inbox
    BY <1>1, <2>1 DEF Rooms, OldRooms
  <2> HIDE DEF old
  <2>4. Evicted(old, QuietSlots(a)) = rest
    BY DEF Evicted
  <2>5. left \in [Slots -> OldClients] /\ emptied \in [Slots -> Queues]
    BY <2>3, EmptyQueue DEF OldRooms, OldClients
  <2>6. left = clients /\ emptied = inbox
    BY <2>3 DEF older, QuietLonger
  <2> HIDE DEF left, emptied
  <2>7. /\ rest \in OldRooms /\ rest.devid = r.devid
        /\ rest.clients = left /\ rest.inbox = emptied
    BY <2>3, <2>5 DEF OldRooms
  <2> HIDE DEF rest, clients, inbox
  <2>8. swept = [rest EXCEPT !.txTtl = t]
    BY <2>2, <2>4
  <2> QED
    BY <2>6, <2>7, <2>8 DEF OldRooms
<1>3. \A s \in Slots : r.clients[s] \in Clients
  BY <1>1 DEF Rooms
<1>4. ASSUME NEW s \in Slots
      PROVE  /\ clients[s] \in Clients
             /\ clients[s].devid # NoId => /\ r.clients[s].devid # NoId
                                          /\ clients[s].peer = r.clients[s].peer
             /\ s \notin QuietSlots(a) => clients[s].devid = r.clients[s].devid
  <2>1. CASE s \in QuietSlots(a)
    BY <2>1, FreeType
  <2>2. CASE s \notin QuietSlots(a) /\ r.clients[s].devid = NoId
    BY <1>3, <2>2
  <2>3. CASE s \notin QuietSlots(a) /\ r.clients[s].devid # NoId
    <3>1. r.clients[s] \in [devid : DevIds, peer : Adapters, ttl : 0 .. ClientTtl - 1]
      BY <1>3, <2>3, FreeType DEF Clients
    <3>2. ~TooQuiet(r.clients[s])
      BY <2>3 DEF QuietSlots, Taken
    <3>3. OneMore(r.clients[s].ttl) \in 0 .. ClientTtl - 1
      BY <3>1, <3>2, OneMoreType DEF TooQuiet
    <3>4. clients[s] = [r.clients[s] EXCEPT !.ttl = OneMore(@)]
      BY <2>3
    <3> QED
      BY <3>1, <3>3, <3>4 DEF Clients
  <2> QED
    BY <2>1, <2>2, <2>3
<1>5. \A s \in Slots : inbox[s] \in Queues
                     /\ (inbox[s] # << >> => s \notin QuietSlots(a) /\ r.inbox[s] # << >>)
  BY <1>1, EmptyQueue DEF Rooms
<1>6. clients \in [Slots -> Clients] /\ inbox \in [Slots -> Queues]
  BY <1>4, <1>5
<1> HIDE DEF clients, inbox, swept
<1>7. swept \in Rooms /\ swept.devid = r.devid
  BY <1>2, <1>6 DEF Rooms, OldRooms
<1>8. RoomOwned(swept, TRUE)
  BY <1>2, <1>4, <1>5 DEF RoomOwned
<1> QED
  BY <1>7, <1>8 DEF swept

LEMMA SilencedType ==
  ASSUME TypeOK, NEW a \in Adapters
  PROVE  {<<s, room[a].clients[s].devid, room[a].clients[s].peer>> : s \in QuietSlots(a)}
           \subseteq Grants
<1>1. SUFFICES ASSUME NEW s \in QuietSlots(a)
               PROVE  <<s, room[a].clients[s].devid, room[a].clients[s].peer>> \in Grants
  OBVIOUS
<1>2. s \in Slots /\ room[a].clients[s].devid # NoId
  BY DEF QuietSlots, Taken
<1>3. room[a].clients[s] \in Clients
  BY <1>2 DEF TypeOK, Rooms
<1>4. room[a].clients[s] \in [devid : DevIds, peer : Adapters, ttl : 0 .. ClientTtl - 1]
  BY <1>2, <1>3, FreeType DEF Clients
<1> QED
  BY <1>2, <1>4 DEF Grants

LEMMA FrameUpdateGood ==
  ASSUME Good, NEW a \in Adapters, FrameUpdate(a)
  PROVE  Good'
<1>1. TypeOK /\ Owned /\ wire \in Wires /\ UNCHANGED <<awake, commands, resets, tx, loaded>>
  BY DEF Good, TypeOK, Wires, FrameUpdate
<1>2. peers' \in [Adapters -> [Adapters -> {Unheard} \cup [devid : DevIds, ttl : 1 .. PeerTtl]]]
  <2>1. peers' = [peers EXCEPT ![a] = [b \in Adapters |-> Older(@[b])]]
    BY DEF FrameUpdate
  <2>2. [b \in Adapters |-> Older(peers[a][b])]
          \in [Adapters -> {Unheard} \cup [devid : DevIds, ttl : 1 .. PeerTtl]]
    BY <1>1, OlderType DEF TypeOK
  <2> QED
    BY <1>1, <2>1, <2>2 DEF TypeOK
<1>3. CASE HostFrame(a)
  <2> DEFINE due == room[a].txTtl + 1 >= AnnounceFrames
             t == IF due THEN 0 ELSE room[a].txTtl + 1
             swept == [Evicted(Aged(room[a]), QuietSlots(a)) EXCEPT !.txTtl = t]
  <2>1. link[a] = "Host" /\ UNCHANGED <<link, guest>>
    BY <1>3 DEF HostFrame
  <2>2. room[a].txTtl \in 0 .. AnnounceFrames /\ room[a] \in Rooms
    BY <1>1 DEF TypeOK, Rooms
  <2>3. t \in 0 .. AnnounceFrames
    BY <2>2, RfuAssumption
  <2>4. Evicted(Aged(room[a]), QuietSlots(a)).txTtl = room[a].txTtl
    BY <2>2 DEF Evicted, Aged, Rooms
  <2>5. room' = [room EXCEPT ![a] = swept]
    BY <1>3, <2>4 DEF HostFrame
  <2>6. RoomOwned(room[a], TRUE)
    BY <1>1, <2>1 DEF Owned
  <2>7. swept \in Rooms /\ swept.devid = room[a].devid /\ RoomOwned(swept, TRUE)
    <3> HIDE DEF t
    <3> QED
      BY <1>1, <2>3, <2>6, SweptOwned
  <2>8. wire' \in Wires
    <3>1. [type |-> "announce", devid |-> room[a].devid] \in Packets
      BY <1>1, <2>1 DEF TypeOK, Packets
    <3> QED
      BY <1>1, <1>3, <3>1, SentType DEF HostFrame
  <2>9. silenced' \in [Adapters -> SUBSET Grants]
    BY <1>1, <1>3, SilencedType DEF HostFrame, TypeOK
  <2>10. TypeOK'
    <3> HIDE DEF swept
    <3> QED
      BY <1>1, <1>2, <2>1, <2>5, <2>7, <2>8, <2>9 DEF TypeOK, Wires
  <2>11. Owned'
    <3> HIDE DEF swept
    <3> QED
      BY <1>1, <2>1, <2>5, <2>7 DEF TypeOK, Owned, RoomOwned
  <2> QED
    BY <2>10, <2>11 DEF Good
<1>4. CASE ClientFrame(a)
  <2>1. guest' \in [Adapters -> Guests]
        /\ \A c \in Adapters : link'[c] = "Client" => /\ link[c] = "Client"
                                                     /\ guest'[c].host = guest[c].host
                                                     /\ guest'[c].devid = guest[c].devid
    <3>1. CASE HostSilent(a)
      BY <1>1, <1>4, <3>1, NoGuestType DEF ClientFrame, TypeOK
    <3>2. CASE ~HostSilent(a)
      <4>1. OneMore(guest[a].ttl) \in 0 .. ClientTtl - 1
        BY <1>1, <3>2, OneMoreType DEF HostSilent, TooQuiet, TypeOK, Guests
      <4>2. /\ guest' = [guest EXCEPT ![a] = [guest[a] EXCEPT !.ttl = OneMore(guest[a].ttl)]]
            /\ UNCHANGED link
        BY <1>1, <1>4, <3>2 DEF ClientFrame, TypeOK, Guests
      <4>3. LET g == [guest[a] EXCEPT !.ttl = OneMore(guest[a].ttl)]
            IN  g \in Guests /\ g.host = guest[a].host /\ g.devid = guest[a].devid
        BY <1>1, <4>1 DEF TypeOK, Guests
      <4> QED
        BY <1>1, <4>2, <4>3 DEF TypeOK
    <3> QED
      BY <3>1, <3>2
  <2>2. link' \in [Adapters -> {"Idle", "Host", "Connecting", "Client"}]
        /\ \A c \in Adapters : (link'[c] = "Host") <=> (link[c] = "Host")
    BY <1>1, <1>4 DEF ClientFrame, TypeOK
  <2>3. UNCHANGED <<room, wire, silenced>>
    BY <1>4 DEF ClientFrame
  <2>4. TypeOK'
    BY <1>1, <1>2, <2>1, <2>2, <2>3 DEF TypeOK
  <2>5. Owned'
    BY <1>1, <2>2, <2>3 DEF Owned, RoomOwned
  <2> QED
    BY <2>4, <2>5 DEF Good
<1>5. CASE OtherFrame(a)
  <2>1. TypeOK'
    BY <1>1, <1>2, <1>5 DEF OtherFrame, TypeOK
  <2>2. Owned'
    BY <1>1, <1>5 DEF OtherFrame, Owned, RoomOwned
  <2> QED
    BY <2>1, <2>2 DEF Good
<1> QED
  BY <1>3, <1>4, <1>5 DEF FrameUpdate

-----------------------------------------------------------------------------
(* Packets.                                                                    *)

\* What a packet's arrival leaves alone.
LEMMA ReceiveType ==
  ASSUME TypeOK, NEW a \in Adapters, NEW b \in Others(a), NEW type, Receive(a, b, type)
  PROVE  /\ Packet(a, b) \in Packets /\ Packet(a, b).type = type
         /\ wire \in Wires /\ wire[b][a] # << >>
         /\ UNCHANGED <<awake, commands, resets, tx, loaded, silenced>>
<1>1. wire \in Wires /\ wire[b][a] # << >>
  BY DEF TypeOK, Wires, Receive
<1> QED
  BY <1>1, PacketType DEF Receive, Packet

\* What the news of its host does to a client.
LEMMA FedClients ==
  ASSUME TypeOK, NEW a \in Adapters, NEW b, guest' = Fed(a, b)
  PROVE  /\ guest' \in [Adapters -> Guests]
         /\ \A c \in Adapters : link[c] = "Client" => /\ guest'[c].host \in Others(c)
                                                    /\ guest'[c].devid \in DevIds
<1>1. \A c \in Adapters : guest'[c].devid = guest[c].devid /\ guest'[c].host = guest[c].host
  BY FedType
<1>2. \A c \in Adapters : link[c] = "Client" => /\ guest[c].host \in Others(c)
                                             /\ guest[c].devid \in DevIds
  BY DEF TypeOK
<1> QED
  BY <1>1, <1>2, FedType

\* An arrival that keeps the rooms and the roles.
LEMMA QuietArrival ==
  ASSUME Good, NEW a \in Adapters, NEW b \in Others(a), NEW type, Receive(a, b, type),
         UNCHANGED <<link, room>>, wire' \in Wires, guest' = Fed(a, b),
         peers' \in [Adapters -> [Adapters -> {Unheard} \cup [devid : DevIds, ttl : 1 .. PeerTtl]]]
  PROVE  Good'
<1>1. TypeOK'
  BY ReceiveType, FedClients DEF Good, TypeOK, Wires
<1>2. Owned'
  BY DEF Good, Owned, RoomOwned
<1> QED
  BY <1>1, <1>2 DEF Good

LEMMA HearBroadcastGood ==
  ASSUME Good, NEW a \in Adapters, NEW b \in Others(a), HearBroadcast(a, b)
  PROVE  Good'
<1>1. TypeOK /\ Receive(a, b, "announce") /\ guest' = Fed(a, b) /\ UNCHANGED <<link, room>>
  BY DEF Good, HearBroadcast
<1>2. Packet(a, b).devid \in DevIds
  BY <1>1, ReceiveType DEF Packets
<1>3. wire' \in Wires
  BY <1>1, ReceiveType, DeliveredType, EmptySeq DEF HearBroadcast
<1>4. peers' \in [Adapters -> [Adapters -> {Unheard} \cup [devid : DevIds, ttl : 1 .. PeerTtl]]]
  <2> DEFINE heard == [devid |-> Packet(a, b).devid, ttl |-> PeerTtl]
  <2>1. heard \in {Unheard} \cup [devid : DevIds, ttl : 1 .. PeerTtl]
    BY <1>2, RfuAssumption
  <2>2. peers' = [peers EXCEPT ![a][b] = heard]
    BY DEF HearBroadcast
  <2> HIDE DEF heard
  <2> QED
    BY <1>1, <2>1, <2>2 DEF TypeOK
<1> QED
  BY <1>1, <1>3, <1>4, QuietArrival

\* One slot more, of a peer that had none.
LEMMA SeatedOwned ==
  ASSUME Good, NEW a \in Adapters, link[a] = "Host", NEW b \in Adapters,
         ~AlreadyMember(a, b), NEW s \in Slots, NEW id \in DevIds
  PROVE  LET r == [room[a] EXCEPT !.clients[s] = [devid |-> id, peer |-> b, ttl |-> 0]]
         IN  r \in Rooms /\ r.devid = room[a].devid /\ RoomOwned(r, TRUE)
<1> DEFINE new == [devid |-> id, peer |-> b, ttl |-> 0]
           r == [room[a] EXCEPT !.clients[s] = new]
<1>1. room[a] \in Rooms /\ RoomOwned(room[a], TRUE)
  BY DEF Good, TypeOK, Owned
<1>2. new \in Clients
  BY RfuAssumption DEF Clients
<1>3. /\ r \in Rooms /\ r.devid = room[a].devid /\ r.inbox = room[a].inbox
      /\ \A t \in Slots : r.clients[t] = IF t = s THEN new ELSE room[a].clients[t]
  <2> HIDE DEF new
  <2> QED
    BY <1>1, <1>2 DEF Rooms
<1>4. \A t \in Slots : room[a].clients[t].devid # NoId => room[a].clients[t].peer # b
  BY DEF AlreadyMember, SlotsOf, Taken
<1>5. new.devid # NoId /\ new.peer = b
  BY DevIdIsSome
<1> HIDE DEF new, r
<1>6. RoomOwned(r, TRUE)
  BY <1>1, <1>3, <1>4, <1>5 DEF RoomOwned
<1> QED
  BY <1>3, <1>6 DEF new, r

LEMMA HearConnectReqGood ==
  ASSUME Good, NEW a \in Adapters, NEW b \in Others(a), HearConnectReq(a, b)
  PROVE  Good'
<1> DEFINE id == NewDevId(a, commands[a])
           s == FirstFree(a)
           seated == link[a] = "Host" /\ ~AlreadyMember(a, b) /\ FreeSlots(a) # {}
<1>1. /\ TypeOK /\ Owned /\ Receive(a, b, "request")
      /\ guest' = Fed(a, b) /\ UNCHANGED <<link, peers>>
  BY DEF Good, HearConnectReq
<1>2. wire \in Wires /\ wire[b][a] # << >> /\ b \in Adapters
      /\ UNCHANGED <<awake, commands, resets, tx, loaded, silenced>>
  BY <1>1, ReceiveType DEF Others
<1>3. id \in DevIds
  BY <1>1, NewDevIdType DEF TypeOK
<1>4. CASE seated
  <2> DEFINE r == [room[a] EXCEPT !.clients[s] = [devid |-> id, peer |-> b, ttl |-> 0]]
             ack == [type |-> "ack", devid |-> id, slot |-> s]
  <2>1. s \in Slots
    BY <1>4, FirstFreeIsFree
  <2>2. room' = [room EXCEPT ![a] = r] /\ wire' = Delivered(a, b, <<ack>>)
    BY <1>1, <1>4 DEF HearConnectReq, TypeOK
  <2>3. r \in Rooms /\ r.devid = room[a].devid /\ RoomOwned(r, TRUE)
    <3> HIDE DEF id, s
    <3> QED
      BY <1>2, <1>3, <1>4, <2>1, SeatedOwned
  <2>4. wire' \in Wires
    <3>1. ack \in Packets
      BY <1>3, <2>1 DEF Packets
    <3>2. <<ack>> \in Seq(Packets)
      BY <3>1
    <3> QED
      BY <1>2, <2>2, <3>2, DeliveredType
  <2>5. TypeOK'
    <3> HIDE DEF r
    <3> QED
      BY <1>1, <1>2, <2>2, <2>3, <2>4, FedClients DEF TypeOK, Wires
  <2>6. Owned'
    <3> HIDE DEF r
    <3> QED
      BY <1>1, <1>4, <2>2, <2>3 DEF TypeOK, Owned, RoomOwned
  <2> QED
    BY <2>5, <2>6 DEF Good
<1>5. CASE ~seated
  <2>1. UNCHANGED room
        /\ (wire' = Delivered(a, b, << >>) \/ wire' = Delivered(a, b, << [type |-> "nack"] >>))
    BY <1>5 DEF HearConnectReq
  <2>2. [type |-> "nack"] \in Packets
    BY DEF Packets
  <2>3. << [type |-> "nack"] >> \in Seq(Packets) /\ << >> \in Seq(Packets)
    BY <2>2
  <2>4. wire' \in Wires
    BY <1>2, <2>1, <2>3, DeliveredType
  <2> QED
    BY <1>1, <2>1, <2>4, QuietArrival DEF TypeOK
<1> QED
  BY <1>4, <1>5

\* An arrival that may change what its adapter is, but not to or from a host.
LEMMA NoHostArrival ==
  ASSUME Good, NEW a \in Adapters, NEW b \in Others(a), NEW type, Receive(a, b, type),
         UNCHANGED <<room, peers>>, wire' \in Wires,
         link' \in [Adapters -> {"Idle", "Host", "Connecting", "Client"}],
         \A c \in Adapters : (link'[c] = "Host") <=> (link[c] = "Host"),
         guest' \in [Adapters -> Guests],
         \A c \in Adapters : link'[c] = "Client" => guest'[c].host \in Others(c)
                                                 /\ guest'[c].devid \in DevIds
  PROVE  Good'
<1>1. TypeOK'
  BY ReceiveType DEF Good, TypeOK, Wires
<1>2. Owned'
  BY DEF Good, Owned, RoomOwned
<1> QED
  BY <1>1, <1>2 DEF Good

LEMMA HearConnectAckGood ==
  ASSUME Good, NEW a \in Adapters, NEW b \in Others(a), HearConnectAck(a, b)
  PROVE  Good'
<1>1. TypeOK /\ Receive(a, b, "ack") /\ UNCHANGED <<room, peers>>
  BY DEF Good, HearConnectAck
<1>2. wire' \in Wires
  BY <1>1, ReceiveType, DeliveredType, EmptySeq DEF HearConnectAck
<1>3. CASE link[a] = "Connecting"
  <2> DEFINE new == [devid |-> Packet(a, b).devid, slot |-> Packet(a, b).slot,
                     host |-> b, ttl |-> 0, inbox |-> << >>]
  <2>1. Packet(a, b).devid \in DevIds /\ Packet(a, b).slot \in Slots
    BY <1>1, ReceiveType DEF Packets
  <2>2. new \in Guests /\ new.host \in Others(a) /\ new.devid \in DevIds
    BY <2>1, EmptyQueue, RfuAssumption DEF Guests, Others
  <2>3. guest' = [guest EXCEPT ![a] = new] /\ link' = [link EXCEPT ![a] = "Client"]
    BY <1>3 DEF HearConnectAck
  <2> HIDE DEF new
  <2>4. guest' \in [Adapters -> Guests]
        /\ link' \in [Adapters -> {"Idle", "Host", "Connecting", "Client"}]
    BY <1>1, <2>2, <2>3 DEF TypeOK
  <2>5. /\ \A c \in Adapters : (link'[c] = "Host") <=> (link[c] = "Host")
        /\ \A c \in Adapters : link'[c] = "Client" => guest'[c].host \in Others(c)
                                                   /\ guest'[c].devid \in DevIds
    BY <1>1, <1>3, <2>2, <2>3 DEF TypeOK
  <2> QED
    BY <1>1, <1>2, <2>4, <2>5, NoHostArrival
<1>4. CASE link[a] # "Connecting"
  BY <1>1, <1>2, <1>4, QuietArrival DEF HearConnectAck, TypeOK
<1> QED
  BY <1>3, <1>4

LEMMA HearConnectNackGood ==
  ASSUME Good, NEW a \in Adapters, NEW b \in Others(a), HearConnectNack(a, b)
  PROVE  Good'
<1>1. TypeOK /\ Receive(a, b, "nack") /\ UNCHANGED <<room, peers>> /\ guest' = Fed(a, b)
      /\ link' = IF link[a] = "Connecting" THEN [link EXCEPT ![a] = "Idle"] ELSE link
  BY DEF Good, HearConnectNack
<1>2. wire' \in Wires
  BY <1>1, ReceiveType, DeliveredType, EmptySeq DEF HearConnectNack
<1>3. /\ link' \in [Adapters -> {"Idle", "Host", "Connecting", "Client"}]
      /\ \A c \in Adapters : (link'[c] = "Host") <=> (link[c] = "Host")
      /\ \A c \in Adapters : link'[c] = "Client" => link[c] = "Client"
  BY <1>1 DEF TypeOK
<1>4. guest' \in [Adapters -> Guests]
      /\ \A c \in Adapters : link'[c] = "Client" => guest'[c].host \in Others(c)
                                                /\ guest'[c].devid \in DevIds
  BY <1>1, <1>3, FedClients
<1> QED
  BY <1>1, <1>2, <1>3, <1>4, NoHostArrival

LEMMA HearDisconnectGood ==
  ASSUME Good, NEW a \in Adapters, NEW b \in Others(a), HearDisconnect(a, b)
  PROVE  Good'
<1>1. TypeOK /\ Owned /\ Receive(a, b, "disconnect") /\ UNCHANGED peers
  BY DEF Good, HearDisconnect
<1>2. wire' \in Wires
  BY <1>1, ReceiveType, DeliveredType, EmptySeq DEF HearDisconnect
<1>3. CASE link[a] = "Client" /\ guest[a].host = b
  <2>1. /\ link' = [link EXCEPT ![a] = "Idle"] /\ guest' = [guest EXCEPT ![a] = NoGuest]
        /\ UNCHANGED room
    BY <1>3 DEF HearDisconnect
  <2>2. /\ link' \in [Adapters -> {"Idle", "Host", "Connecting", "Client"}]
        /\ \A c \in Adapters : (link'[c] = "Host") <=> (link[c] = "Host")
        /\ guest' \in [Adapters -> Guests]
        /\ \A c \in Adapters : link'[c] = "Client" => guest'[c].host \in Others(c)
                                                  /\ guest'[c].devid \in DevIds
    BY <1>1, <1>3, <2>1, NoGuestType DEF TypeOK
  <2> QED
    BY <1>1, <1>2, <2>1, <2>2, NoHostArrival
<1>4. CASE ~(link[a] = "Client" /\ guest[a].host = b)
  <2> DEFINE left == IF link[a] = "Host" THEN Evicted(room[a], SlotsOf(a, b)) ELSE room[a]
  <2>1. room[a] \in Rooms /\ RoomOwned(room[a], link[a] = "Host")
    BY <1>1 DEF TypeOK, Owned
  <2>2. room' = [room EXCEPT ![a] = left] /\ UNCHANGED <<link, guest>>
    BY <1>1, <1>4 DEF HearDisconnect, TypeOK
  <2>3. left \in Rooms /\ left.devid = room[a].devid /\ RoomOwned(left, link[a] = "Host")
    BY <2>1, EvictedOwned
  <2> HIDE DEF left
  <2>4. TypeOK'
    BY <1>1, <1>2, <2>2, <2>3, ReceiveType DEF TypeOK, Wires
  <2>5. Owned'
    BY <1>1, <2>2, <2>3 DEF TypeOK, Owned, RoomOwned
  <2> QED
    BY <2>4, <2>5 DEF Good
<1> QED
  BY <1>3, <1>4

LEMMA HearHostSendGood ==
  ASSUME Good, NEW a \in Adapters, NEW b \in Others(a), HearHostSend(a, b)
  PROVE  Good'
<1>1. TypeOK /\ Receive(a, b, "hostSend") /\ UNCHANGED <<link, room, peers>>
  BY DEF Good, HearHostSend
<1>2. CASE link[a] = "Client"
  <2> DEFINE ack == [type |-> "clientAck", devid |-> guest[a].devid, slot |-> guest[a].slot]
             q == Queued(Fed(a, b)[a].inbox, Packet(a, b).block)
  <2>1. ack \in Packets
    BY <1>1, <1>2 DEF Packets, TypeOK, Guests
  <2>2. <<ack>> \in Seq(Packets)
    BY <2>1
  <2>3. wire' \in Wires
    <3>1. wire' = Delivered(a, b, <<ack>>)
      BY <1>2 DEF HearHostSend
    <3> HIDE DEF ack
    <3> QED
      BY <1>1, <2>2, <3>1, ReceiveType, DeliveredType
  <2>4. Packet(a, b).block \in Blocks
    BY <1>1, ReceiveType DEF Packets
  <2>5. Fed(a, b)[a].inbox \in Queues
    BY <1>1, FedType DEF TypeOK, Guests
  <2>6. q \in Queues
    BY <2>4, <2>5, QueuedType
  <2>7. guest' = [Fed(a, b) EXCEPT ![a].inbox = q]
    BY <1>2 DEF HearHostSend
  <2> HIDE DEF q
  <2>8. guest' \in [Adapters -> Guests]
        /\ \A c \in Adapters : guest'[c].host = guest[c].host /\ guest'[c].devid = guest[c].devid
    <3>1. Fed(a, b) \in [Adapters -> Guests]
          /\ \A c \in Adapters : /\ Fed(a, b)[c].host = guest[c].host
                                 /\ Fed(a, b)[c].devid = guest[c].devid
      BY <1>1, FedType
    <3> QED
      BY <2>6, <2>7, <3>1 DEF Guests
  <2> QED
    BY <1>1, <2>3, <2>8, NoHostArrival DEF TypeOK
<1>3. CASE link[a] # "Client"
  <2>1. wire' = Delivered(a, b, << >>) /\ UNCHANGED guest
    BY <1>3 DEF HearHostSend
  <2>2. wire' \in Wires
    BY <1>1, <2>1, ReceiveType, DeliveredType, EmptySeq
  <2> QED
    BY <1>1, <2>1, <2>2, NoHostArrival DEF TypeOK
<1> QED
  BY <1>2, <1>3

\* A packet a room vouches for comes from a slot that is taken.
LEMMA VouchedTaken ==
  ASSUME TypeOK, NEW a \in Adapters, NEW p, Vouched(a, p), p.devid \in DevIds, p.slot \in Slots
  PROVE  /\ link[a] = "Host" /\ room[a].clients[p.slot].devid # NoId
         /\ LET c == room[a].clients[p.slot]
            IN  c \in [devid : DevIds, peer : Adapters, ttl : 0 .. ClientTtl - 1]
<1>1. link[a] = "Host" /\ room[a].clients[p.slot].devid # NoId
  BY DevIdIsSome DEF Vouched
<1>2. room[a].clients[p.slot] \in Clients
  BY DEF TypeOK, Rooms
<1> QED
  BY <1>1, <1>2, FreeType DEF Clients

\* A member heard from, with the block it sent or without.
LEMMA RefreshedOwned ==
  ASSUME Good, NEW a \in Adapters, NEW p, Vouched(a, p), p.devid \in DevIds, p.slot \in Slots,
         NEW q \in Queues
  PROVE  LET r == [room[a] EXCEPT !.clients[p.slot].ttl = 0]
             w == [room[a] EXCEPT !.clients[p.slot].ttl = 0, !.inbox[p.slot] = q]
         IN  /\ r \in Rooms /\ r.devid = room[a].devid /\ RoomOwned(r, TRUE)
             /\ w \in Rooms /\ w.devid = room[a].devid /\ RoomOwned(w, TRUE)
<1> DEFINE s == p.slot
           fresh == [room[a].clients[s] EXCEPT !.ttl = 0]
           r == [room[a] EXCEPT !.clients[s].ttl = 0]
           w == [room[a] EXCEPT !.clients[s].ttl = 0, !.inbox[s] = q]
<1>1. TypeOK /\ room[a] \in Rooms
  BY DEF Good, TypeOK
<1>2. /\ link[a] = "Host" /\ room[a].clients[s].devid # NoId
      /\ room[a].clients[s] \in [devid : DevIds, peer : Adapters, ttl : 0 .. ClientTtl - 1]
  BY <1>1, VouchedTaken
<1>3. /\ fresh \in Clients /\ fresh.devid = room[a].clients[s].devid
      /\ fresh.peer = room[a].clients[s].peer
  BY <1>2, RfuAssumption DEF Clients
<1>4. RoomOwned(room[a], TRUE)
  BY <1>2 DEF Good, Owned
<1>5. /\ r = [room[a] EXCEPT !.clients = [@ EXCEPT ![s] = fresh]]
      /\ w = [room[a] EXCEPT !.clients = [@ EXCEPT ![s] = fresh], !.inbox = [@ EXCEPT ![s] = q]]
  BY <1>1 DEF Rooms
<1> HIDE DEF fresh
<1>6. /\ r \in Rooms /\ r.devid = room[a].devid /\ r.inbox = room[a].inbox
      /\ r.clients = [room[a].clients EXCEPT ![s] = fresh]
  BY <1>1, <1>3, <1>5 DEF Rooms
<1>7. /\ w \in Rooms /\ w.devid = room[a].devid
      /\ w.clients = [room[a].clients EXCEPT ![s] = fresh]
      /\ w.inbox = [room[a].inbox EXCEPT ![s] = q]
  BY <1>1, <1>3, <1>5 DEF Rooms
<1> HIDE DEF r, w
<1>8. RoomOwned(r, TRUE) /\ RoomOwned(w, TRUE)
  BY <1>1, <1>2, <1>3, <1>4, <1>6, <1>7 DEF RoomOwned, Rooms
<1> QED
  BY <1>6, <1>7, <1>8 DEF r, w

\* An arrival at a host, whose rooms stay in order.
LEMMA HostArrival ==
  ASSUME Good, NEW a \in Adapters, NEW b \in Others(a), NEW type, Receive(a, b, type),
         UNCHANGED <<link, peers>>, wire' \in Wires, guest' = Fed(a, b), link[a] = "Host",
         NEW r \in Rooms, r.devid = room[a].devid, RoomOwned(r, TRUE),
         room' = [room EXCEPT ![a] = r]
  PROVE  Good'
<1>1. TypeOK'
  BY ReceiveType, FedClients DEF Good, TypeOK, Wires
<1>2. Owned'
  BY DEF Good, TypeOK, Owned, RoomOwned
<1> QED
  BY <1>1, <1>2 DEF Good

LEMMA HearClientSendGood ==
  ASSUME Good, NEW a \in Adapters, NEW b \in Others(a), HearClientSend(a, b)
  PROVE  Good'
<1> DEFINE p == Packet(a, b)
<1>1. TypeOK /\ Receive(a, b, "clientSend") /\ UNCHANGED <<link, peers>> /\ guest' = Fed(a, b)
  BY DEF Good, HearClientSend
<1>2. wire' \in Wires
  BY <1>1, ReceiveType, DeliveredType, EmptySeq DEF HearClientSend
<1>3. CASE Vouched(a, p)
  <2> DEFINE q == Queued(room[a].inbox[p.slot], p.block)
             r == [room[a] EXCEPT !.clients[p.slot].ttl = 0, !.inbox[p.slot] = q]
  <2>1. p.devid \in DevIds /\ p.slot \in Slots /\ p.block \in Blocks
    BY <1>1, ReceiveType DEF Packets
  <2>2. room[a].inbox[p.slot] \in Queues
    BY <1>1, <2>1 DEF TypeOK, Rooms
  <2>3. q \in Queues
    BY <2>1, <2>2, QueuedType
  <2>4. room' = [room EXCEPT ![a] = r]
    BY <1>1, <1>3 DEF HearClientSend, TypeOK, Rooms
  <2>5. r \in Rooms /\ r.devid = room[a].devid /\ RoomOwned(r, TRUE)
    <3> HIDE DEF q, p
    <3> QED
      BY <1>3, <2>1, <2>3, RefreshedOwned
  <2>6. link[a] = "Host"
    BY <1>3 DEF Vouched
  <2> HIDE DEF r
  <2> QED
    BY <1>1, <1>2, <2>4, <2>5, <2>6, HostArrival
<1>4. CASE ~Vouched(a, p)
  BY <1>1, <1>2, <1>4, QuietArrival DEF HearClientSend, TypeOK
<1> QED
  BY <1>3, <1>4

LEMMA HearClientAckGood ==
  ASSUME Good, NEW a \in Adapters, NEW b \in Others(a), HearClientAck(a, b)
  PROVE  Good'
<1> DEFINE p == Packet(a, b)
<1>1. TypeOK /\ Receive(a, b, "clientAck") /\ UNCHANGED <<link, peers>> /\ guest' = Fed(a, b)
  BY DEF Good, HearClientAck
<1>2. wire' \in Wires
  BY <1>1, ReceiveType, DeliveredType, EmptySeq DEF HearClientAck
<1>3. CASE Vouched(a, p)
  <2> DEFINE r == [room[a] EXCEPT !.clients[p.slot].ttl = 0]
  <2>1. p.devid \in DevIds /\ p.slot \in Slots
    BY <1>1, ReceiveType DEF Packets
  <2>2. room' = [room EXCEPT ![a] = r]
    BY <1>1, <1>3 DEF HearClientAck, TypeOK, Rooms
  <2>3. r \in Rooms /\ r.devid = room[a].devid /\ RoomOwned(r, TRUE)
    <3> HIDE DEF p
    <3> QED
      BY <1>3, <2>1, EmptyQueue, RefreshedOwned
  <2>4. link[a] = "Host"
    BY <1>3 DEF Vouched
  <2> HIDE DEF r
  <2> QED
    BY <1>1, <1>2, <2>2, <2>3, <2>4, HostArrival
<1>4. CASE ~Vouched(a, p)
  BY <1>1, <1>2, <1>4, QuietArrival DEF HearClientAck, TypeOK
<1> QED
  BY <1>3, <1>4

LEMMA NetReceiveGood ==
  ASSUME Good, NEW a \in Adapters, NEW b \in Others(a), NetReceive(a, b)
  PROVE  Good'
  BY HearBroadcastGood, HearConnectReqGood, HearConnectAckGood, HearConnectNackGood,
     HearDisconnectGood, HearHostSendGood, HearClientSendGood, HearClientAckGood DEF NetReceive

-----------------------------------------------------------------------------
(* The specification.                                                          *)

LEMMA InitGood == Init => Good
<1> SUFFICES ASSUME Init PROVE Good
  OBVIOUS
<1>1. \A a \in Adapters : EmptyBlock(a) \in Blocks
  BY RfuAssumption DEF EmptyBlock, Blocks
<1>2. [a \in Adapters |-> [b \in Adapters |-> << >>]] \in Wires
  BY EmptySeq DEF Wires
<1>3. commands \in [Adapters -> Nat] /\ \A a \in Adapters : commands[a] <= MaxCommands[a]
  BY RfuAssumption DEF Init
<1>4. room \in [Adapters -> Rooms] /\ guest \in [Adapters -> Guests]
  BY NoRoomType, NoGuestType DEF Init
<1>5. TypeOK
  BY <1>1, <1>2, <1>3, <1>4, RfuAssumption DEF Init, TypeOK, Wires, Unheard
<1>6. Owned
  BY NoRoomType DEF Init, Owned
<1> QED
  BY <1>5, <1>6 DEF Good

LEMMA StepGood == Good /\ [Next]_vars => Good'
<1> SUFFICES ASSUME Good, [Next]_vars PROVE Good'
  OBVIOUS
<1>1. CASE Next
  <2>1. PICK a \in Adapters :
          \/ Command(a) \/ Reset(a) \/ Handshake(a) \/ FrameUpdate(a)
          \/ \E b \in Others(a) : NetReceive(a, b)
    BY <1>1 DEF Next
  <2> QED
    BY <2>1, CommandGood, ResetGood, HandshakeGood, FrameUpdateGood, NetReceiveGood
<1>2. CASE UNCHANGED vars
  <2>1. TypeOK'
    BY <1>2 DEF Good, TypeOK, vars
  <2>2. Owned'
    BY <1>2 DEF Good, Owned, RoomOwned, vars
  <2> QED
    BY <2>1, <2>2 DEF Good
<1> QED
  BY <1>1, <1>2

LEMMA AlwaysGood == Spec => []Good
<1>1. Init => Good
  BY InitGood
<1>2. Good /\ [Next]_vars => Good'
  BY StepGood
<1> QED
  BY <1>1, <1>2, PTL DEF Spec

\* The state stays well typed, in whatever order the games' commands, the frames and
\* the packets come: the queues within their depth, every identity on the wire one
\* that an adapter minted.
THEOREM RoomsTyped == Spec => []TypeOK
<1>1. Good => TypeOK
  BY DEF Good
<1> QED
  BY <1>1, AlwaysGood, PTL

LEMMA OwnedSlots == Good => SlotsAreOwned
<1> SUFFICES ASSUME Good PROVE SlotsAreOwned
  OBVIOUS
<1>1. OneSlotEach
  <2>1. SUFFICES ASSUME NEW a \in Adapters, NEW b \in Adapters
                 PROVE  Cardinality(SlotsOf(a, b)) <= 1
    BY DEF OneSlotEach
  <2>2. \A s, t \in SlotsOf(a, b) : s = t
    BY DEF Good, Owned, RoomOwned, SlotsOf, Taken
  <2>3. CASE SlotsOf(a, b) = {}
    BY <2>3, FS_EmptySet
  <2>4. CASE SlotsOf(a, b) # {}
    <3>1. PICK s \in SlotsOf(a, b) : TRUE
      BY <2>4
    <3>2. SlotsOf(a, b) = {s}
      BY <2>2, <3>1
    <3>3. Cardinality({s}) = 1
      BY FS_Singleton
    <3>4. Cardinality(SlotsOf(a, b)) = 1
      BY <3>2, <3>3
    <3> QED
      BY <3>4
  <2> QED
    BY <2>3, <2>4
<1>2. NothingLeftBehind
  BY DEF Good, Owned, RoomOwned, NothingLeftBehind, Taken
<1> QED
  BY <1>1, <1>2 DEF SlotsAreOwned

\* A room's slots and queues belong to one peer each, who is in it: however often a
\* peer asks, and whoever left the slot before (rfu.rs, ID_CONNECT_REQ and the three
\* ways a client is dropped).
THEOREM SlotsOwned == Spec => []SlotsAreOwned
  BY AlwaysGood, OwnedSlots, PTL

-----------------------------------------------------------------------------
(* Joining and leaving.                                                        *)

Attached(c, h) == link[c] = "Client" /\ guest[c].host = h
Requests(c, h) == {i \in 1 .. Len(wire[c][h]) : wire[c][h][i].type = "request"}
Acks(h, c) == {i \in 1 .. Len(wire[h][c]) : wire[h][c][i].type = "ack"}
Byes(a, b) == {i \in 1 .. Len(wire[a][b]) : wire[a][b][i] = Bye}

\* At most one request of c to h is open: on its way, or granted and not heard.
OneAsk(c, h) ==
  /\ \A i, j \in Requests(c, h) : i = j
  /\ \A i, j \in Acks(h, c) : i = j
  /\ Requests(c, h) = {} \/ Acks(h, c) = {}

\* A client of h has none.
NoneOpen(c, h) == Attached(c, h) => Requests(c, h) = {} /\ Acks(h, c) = {}

\* When c's farewell reaches h nothing c asked before is open, and c is not
\* attached again: what the farewell takes back is what c left.
LeftWhole(c, h) ==
  \A i \in Byes(c, h) :
    ~Attached(c, h) /\ Acks(h, c) = {} /\ \A j \in Requests(c, h) : i < j

\* The slot a grant names is c's, or behind it, past place i, comes h's
\* farewell, or c was silent too long.
BackedAfter(h, c, s, id, i) ==
  \/ Seated(h, c, s, id)
  \/ \E j \in Byes(h, c) : i < j
  \/ <<s, id, c>> \in silenced[h]
GrantBacked(c, h) ==
  \A i \in Acks(h, c) : BackedAfter(h, c, wire[h][c][i].slot, wire[h][c][i].devid, i)
AttachmentBacked(c, h) ==
  Attached(c, h) => BackedAfter(h, c, guest[c].slot, guest[c].devid, 0)

Member(c, h) ==
  OneAsk(c, h) /\ NoneOpen(c, h) /\ LeftWhole(c, h) /\ GrantBacked(c, h) /\ AttachmentBacked(c, h)

RoomsOfHosts ==
  /\ \A a \in Adapters : link[a] = "Host" => a \in Hosts
  /\ \A a \in Adapters : \A b \in Others(a) : Acks(a, b) # {} => a \in Hosts
  /\ \A a \in Adapters : link[a] = "Client" => guest[a].host \in Hosts

JoinInv ==
  /\ Good /\ RoomsOfHosts
  /\ \A c \in Adapters \ Hosts : \A h \in Others(c) : Member(c, h)

-----------------------------------------------------------------------------
(* What a step does between two adapters.                                      *)

Kept(a, b) == wire'[a][b] = wire[a][b]
Posted(a, b, p) == p \in Packets /\ wire'[a][b] = Append(wire[a][b], p)
Heard(a, b) == wire[a][b] # << >> /\ wire'[a][b] = Tail(wire[a][b])
Request == [type |-> "request"]

\* c asks only if nothing is open, and takes leave only of its host.
Speaks(c, h) ==
  \/ Kept(c, h)
  \/ Heard(c, h)
  \/ \E p : Posted(c, h, p) /\ p.type # "request" /\ p # Bye
  \/ /\ Posted(c, h, Request) /\ Kept(h, c) /\ ~Attached(c, h)'
     /\ Requests(c, h) = {} /\ Acks(h, c) = {}
  \/ Posted(c, h, Bye) /\ Kept(h, c) /\ Attached(c, h) /\ ~Attached(c, h)'

\* h grants a slot only to a request, and a farewell heard ends an attachment.
Seating(h, c) ==
  \E p : /\ Posted(h, c, p) /\ p.type = "ack"
         /\ Heard(c, h) /\ Head(wire[c][h]).type = "request"
         /\ link[h] = "Host" /\ Seated(h, c, p.slot, p.devid)'
Replies(h, c) ==
  /\ \/ Kept(h, c)
     \/ Heard(h, c)
     \/ \E p : Posted(h, c, p) /\ p.type # "ack"
     \/ Seating(h, c)
  /\ Heard(h, c) /\ Head(wire[h][c]) = Bye => ~Attached(c, h)'

\* c is attached to h as it was, or by the grant it hears.
Joins(c, h) ==
  Attached(c, h)' =>
    \/ Attached(c, h) /\ guest'[c].slot = guest[c].slot /\ guest'[c].devid = guest[c].devid
    \/ /\ Heard(h, c) /\ Kept(c, h) /\ Head(wire[h][c]).type = "ack"
       /\ guest'[c].slot = Head(wire[h][c]).slot /\ guest'[c].devid = Head(wire[h][c]).devid

\* A slot is taken back with a farewell, for silence, or on the member's own.
Seats(h, c) ==
  /\ silenced[h] \subseteq silenced'[h]
  /\ \A s \in Slots, id \in DevIds :
       Seated(h, c, s, id) => \/ Seated(h, c, s, id)'
                              \/ Posted(h, c, Bye)
                              \/ <<s, id, c>> \in silenced'[h]
                              \/ Heard(c, h) /\ Head(wire[c][h]) = Bye

Lawful(c, h) == Speaks(c, h) /\ Replies(h, c) /\ Joins(c, h) /\ Seats(h, c)

-----------------------------------------------------------------------------
(* Places on a wire, before and after a packet is put on it or taken off.      *)

LEMMA PostedPlaces ==
  ASSUME TypeOK, TypeOK', NEW a \in Adapters, NEW b \in Adapters, NEW p, Posted(a, b, p)
  PROVE  /\ Len(wire[a][b]) \in Nat /\ Len(wire'[a][b]) = Len(wire[a][b]) + 1
         /\ \A i \in 1 .. Len(wire[a][b]) : wire'[a][b][i] = wire[a][b][i]
         /\ wire'[a][b][Len(wire[a][b]) + 1] = p
<1>1. wire[a][b] \in Seq(Packets)
  BY DEF TypeOK
<1> QED
  BY <1>1, AppendProperties, LenProperties DEF Posted

LEMMA HeardPlaces ==
  ASSUME TypeOK, TypeOK', NEW a \in Adapters, NEW b \in Adapters, Heard(a, b)
  PROVE  /\ Len(wire[a][b]) \in Nat \ {0} /\ Len(wire'[a][b]) = Len(wire[a][b]) - 1
         /\ \A i \in 1 .. Len(wire'[a][b]) :
              i + 1 \in 1 .. Len(wire[a][b]) /\ wire'[a][b][i] = wire[a][b][i + 1]
         /\ \A i \in 1 .. Len(wire[a][b]) :
              i # 1 => i - 1 \in 1 .. Len(wire'[a][b]) /\ wire'[a][b][i - 1] = wire[a][b][i]
         /\ 1 \in 1 .. Len(wire[a][b]) /\ Head(wire[a][b]) = wire[a][b][1]
<1> DEFINE s == wire[a][b]
           t == wire'[a][b]
<1>1. s \in Seq(Packets) /\ s # << >> /\ t = Tail(s)
  BY DEF TypeOK, Heard
<1> HIDE DEF s, t
<1>2. Len(s) \in Nat \ {0} /\ Len(t) = Len(s) - 1 /\ Head(s) = s[1]
      /\ \A i \in 1 .. Len(t) : t[i] = s[i + 1]
  BY <1>1, HeadTailProperties, LenProperties, EmptySeq
<1>3. \A i \in 1 .. Len(t) : i + 1 \in 1 .. Len(s)
  BY <1>2
<1>4. \A i \in 1 .. Len(s) : i # 1 => i - 1 \in 1 .. Len(t) /\ t[i - 1] = s[i]
  <2> SUFFICES ASSUME NEW i \in 1 .. Len(s), i # 1
               PROVE  i - 1 \in 1 .. Len(t) /\ t[i - 1] = s[i]
    OBVIOUS
  <2>1. i - 1 \in 1 .. Len(t) /\ (i - 1) + 1 = i
    BY <1>2
  <2> QED
    BY <1>2, <2>1
<1> QED
  BY <1>2, <1>3, <1>4 DEF s, t

\* What is on the wire after a step was there before, unless it was put there.
LEMMA RequestsAfter ==
  ASSUME TypeOK, TypeOK', NEW c \in Adapters, NEW h \in Adapters
  PROVE  /\ Kept(c, h) => Requests(c, h)' = Requests(c, h) /\ Byes(c, h)' = Byes(c, h)
         /\ Heard(c, h) => /\ \A i \in Requests(c, h)' : i + 1 \in Requests(c, h)
                           /\ \A i \in Byes(c, h)' : i + 1 \in Byes(c, h)
                           /\ \A i \in Byes(c, h) : i # 1 => i - 1 \in Byes(c, h)'
                           /\ Head(wire[c][h]).type = "request" => 1 \in Requests(c, h)
                           /\ Head(wire[c][h]) = Bye => 1 \in Byes(c, h)
         /\ \A p : Posted(c, h, p) =>
              /\ \A i \in Requests(c, h)' : i \in Requests(c, h) \/ (i = Len(wire[c][h]) + 1 /\ p.type = "request")
              /\ \A i \in Byes(c, h)' : i \in Byes(c, h) \/ (i = Len(wire[c][h]) + 1 /\ p = Bye)
              /\ Byes(c, h) \subseteq Byes(c, h)'
              /\ p = Bye => Len(wire[c][h]) + 1 \in Byes(c, h)'
<1>1. Kept(c, h) => Requests(c, h)' = Requests(c, h) /\ Byes(c, h)' = Byes(c, h)
  BY DEF Kept, Requests, Byes
<1>2. ASSUME Heard(c, h)
      PROVE  /\ \A i \in Requests(c, h)' : i + 1 \in Requests(c, h)
             /\ \A i \in Byes(c, h)' : i + 1 \in Byes(c, h)
             /\ \A i \in Byes(c, h) : i # 1 => i - 1 \in Byes(c, h)'
             /\ Head(wire[c][h]).type = "request" => 1 \in Requests(c, h)
             /\ Head(wire[c][h]) = Bye => 1 \in Byes(c, h)
  BY <1>2, HeardPlaces DEF Requests, Byes
<1>3. ASSUME NEW p, Posted(c, h, p)
      PROVE  /\ \A i \in Requests(c, h)' : i \in Requests(c, h) \/ (i = Len(wire[c][h]) + 1 /\ p.type = "request")
             /\ \A i \in Byes(c, h)' : i \in Byes(c, h) \/ (i = Len(wire[c][h]) + 1 /\ p = Bye)
             /\ Byes(c, h) \subseteq Byes(c, h)'
             /\ p = Bye => Len(wire[c][h]) + 1 \in Byes(c, h)'
  <2> DEFINE m == Len(wire[c][h])
             n == Len(wire'[c][h])
  <2>1. /\ m \in Nat /\ n = m + 1
        /\ \A i \in 1 .. m : wire'[c][h][i] = wire[c][h][i]
        /\ wire'[c][h][m + 1] = p
    BY <1>3, PostedPlaces
  <2> HIDE DEF m, n
  <2>2. /\ \A i \in 1 .. n : i \in 1 .. m \/ i = m + 1
        /\ \A i \in 1 .. m : i \in 1 .. n
        /\ m + 1 \in 1 .. n
    BY <2>1
  <2>3. /\ Requests(c, h) = {i \in 1 .. m : wire[c][h][i].type = "request"}
        /\ Requests(c, h)' = {i \in 1 .. n : wire'[c][h][i].type = "request"}
        /\ Byes(c, h) = {i \in 1 .. m : wire[c][h][i] = Bye}
        /\ Byes(c, h)' = {i \in 1 .. n : wire'[c][h][i] = Bye}
    BY DEF Requests, Byes, Bye, m, n
  <2> QED
    BY <2>1, <2>2, <2>3 DEF m
<1> QED
  BY <1>1, <1>2, <1>3

LEMMA AcksAfter ==
  ASSUME TypeOK, TypeOK', NEW c \in Adapters, NEW h \in Adapters
  PROVE  /\ Kept(h, c) => Acks(h, c)' = Acks(h, c) /\ wire'[h][c] = wire[h][c]
         /\ Heard(h, c) => /\ \A i \in Acks(h, c)' : /\ i + 1 \in Acks(h, c)
                                                    /\ wire'[h][c][i] = wire[h][c][i + 1]
                           /\ Head(wire[h][c]).type = "ack" => 1 \in Acks(h, c)
                           /\ Head(wire[h][c]) = wire[h][c][1]
         /\ \A p : Posted(h, c, p) =>
              \A i \in Acks(h, c)' : /\ wire'[h][c][i] = IF i \in Acks(h, c) THEN wire[h][c][i] ELSE p
                                     /\ \/ i \in Acks(h, c)
                                        \/ i = Len(wire[h][c]) + 1 /\ p.type = "ack"
<1>1. Kept(h, c) => Acks(h, c)' = Acks(h, c) /\ wire'[h][c] = wire[h][c]
  BY DEF Kept, Acks
<1>2. ASSUME Heard(h, c)
      PROVE  /\ \A i \in Acks(h, c)' : i + 1 \in Acks(h, c) /\ wire'[h][c][i] = wire[h][c][i + 1]
             /\ Head(wire[h][c]).type = "ack" => 1 \in Acks(h, c)
             /\ Head(wire[h][c]) = wire[h][c][1]
  BY <1>2, HeardPlaces DEF Acks
<1>3. ASSUME NEW p, Posted(h, c, p), NEW i \in Acks(h, c)'
      PROVE  /\ wire'[h][c][i] = IF i \in Acks(h, c) THEN wire[h][c][i] ELSE p
             /\ i \in Acks(h, c) \/ (i = Len(wire[h][c]) + 1 /\ p.type = "ack")
  <2> DEFINE m == Len(wire[h][c])
             n == Len(wire'[h][c])
  <2>1. /\ m \in Nat /\ n = m + 1
        /\ \A k \in 1 .. m : wire'[h][c][k] = wire[h][c][k]
        /\ wire'[h][c][m + 1] = p
    BY <1>3, PostedPlaces
  <2> HIDE DEF m, n
  <2>2. \A k \in 1 .. n : k \in 1 .. m \/ k = m + 1
    BY <2>1
  <2>3. /\ Acks(h, c) = {k \in 1 .. m : wire[h][c][k].type = "ack"}
        /\ Acks(h, c)' = {k \in 1 .. n : wire'[h][c][k].type = "ack"}
    BY DEF Acks, m, n
  <2>4. m + 1 \notin Acks(h, c)
    BY <2>1, <2>3
  <2> QED
    BY <1>3, <2>1, <2>2, <2>3, <2>4 DEF m
<1> QED
  BY <1>1, <1>2, <1>3

-----------------------------------------------------------------------------
(* A lawful step keeps what holds between a client and a room.                 *)

LEMMA NothingNew ==
  ASSUME TypeOK, TypeOK', NEW c \in Adapters, NEW h \in Adapters, OneAsk(c, h), Lawful(c, h)
  PROVE  /\ \/ Requests(c, h)' \subseteq Requests(c, h)
            \/ Heard(c, h) /\ \A i \in Requests(c, h)' : i + 1 \in Requests(c, h)
            \/ /\ Requests(c, h) = {} /\ Acks(h, c) = {} /\ Acks(h, c)' = {}
               /\ ~Attached(c, h)' /\ Byes(c, h)' \subseteq Byes(c, h)
               /\ \A i \in Requests(c, h)' : i = Len(wire[c][h]) + 1
         /\ \/ Acks(h, c)' \subseteq Acks(h, c)
            \/ Heard(h, c) /\ \A i \in Acks(h, c)' : i + 1 \in Acks(h, c)
            \/ /\ Acks(h, c) = {} /\ Requests(c, h)' = {} /\ 1 \in Requests(c, h)
               /\ Heard(c, h)
               /\ \A i \in Acks(h, c)' : i = Len(wire[h][c]) + 1
<1>1. ASSUME Posted(c, h, Bye)
      PROVE  Requests(c, h)' \subseteq Requests(c, h)
  <2>1. Bye.type # "request"
    BY DEF Bye
  <2> QED
    BY <1>1, <2>1, RequestsAfter
<1>2. ASSUME NEW p, Posted(c, h, p), p.type # "request"
      PROVE  Requests(c, h)' \subseteq Requests(c, h)
  BY <1>2, RequestsAfter
<1>3. ASSUME Posted(c, h, Request)
      PROVE  Byes(c, h)' \subseteq Byes(c, h)
  <2>1. Request # Bye
    BY DEF Bye, Request
  <2> QED
    BY <1>3, <2>1, RequestsAfter
<1>4. \/ Requests(c, h)' \subseteq Requests(c, h)
      \/ Heard(c, h) /\ \A i \in Requests(c, h)' : i + 1 \in Requests(c, h)
      \/ /\ Requests(c, h) = {} /\ Acks(h, c) = {} /\ Acks(h, c)' = {}
         /\ ~Attached(c, h)' /\ Byes(c, h)' \subseteq Byes(c, h)
         /\ \A i \in Requests(c, h)' : i = Len(wire[c][h]) + 1
  BY <1>1, <1>2, <1>3, RequestsAfter, AcksAfter DEF Lawful, Speaks
<1>5. ASSUME Seating(h, c)
      PROVE  /\ Acks(h, c) = {} /\ Requests(c, h)' = {} /\ 1 \in Requests(c, h)
             /\ Heard(c, h)
             /\ \A i \in Acks(h, c)' : i = Len(wire[h][c]) + 1
  <2>1. Heard(c, h) /\ 1 \in Requests(c, h)
    BY <1>5, RequestsAfter DEF Seating
  <2>2. Acks(h, c) = {} /\ \A i \in Requests(c, h) : i = 1
    BY <2>1 DEF OneAsk
  <2>3. \A i \in Requests(c, h)' : i + 1 = 1 /\ i \in 1 .. Len(wire'[c][h])
    BY <2>1, <2>2, RequestsAfter DEF Requests
  <2>4. Len(wire'[c][h]) \in Nat
    BY LenProperties DEF TypeOK
  <2>5. Requests(c, h)' = {}
    BY <2>3, <2>4
  <2> QED
    BY <1>5, <2>1, <2>2, <2>5, AcksAfter DEF Seating
<1>6. \/ Acks(h, c)' \subseteq Acks(h, c)
      \/ Heard(h, c) /\ \A i \in Acks(h, c)' : i + 1 \in Acks(h, c)
      \/ /\ Acks(h, c) = {} /\ Requests(c, h)' = {} /\ 1 \in Requests(c, h)
         /\ Heard(c, h)
         /\ \A i \in Acks(h, c)' : i = Len(wire[h][c]) + 1
  BY <1>5, AcksAfter DEF Lawful, Replies
<1> QED
  BY <1>4, <1>6

LEMMA PlacesAreNumbers ==
  ASSUME TypeOK, NEW c \in Adapters, NEW h \in Adapters
  PROVE  /\ Len(wire[c][h]) \in Nat
         /\ \A i \in Requests(c, h) \cup Acks(c, h) \cup Byes(c, h) :
              i \in Nat /\ 1 <= i /\ i <= Len(wire[c][h])
<1>1. Len(wire[c][h]) \in Nat
  BY LenProperties DEF TypeOK
<1> QED
  BY <1>1 DEF Requests, Acks, Byes

LEMMA OneAskNext ==
  ASSUME TypeOK, TypeOK', NEW c \in Adapters, NEW h \in Adapters, OneAsk(c, h), Lawful(c, h)
  PROVE  OneAsk(c, h)'
<1>1. /\ \A i, j \in Requests(c, h) : i = j
      /\ \A i, j \in Acks(h, c) : i = j
      /\ Requests(c, h) = {} \/ Acks(h, c) = {}
  BY DEF OneAsk
<1>2. /\ \A i \in Requests(c, h)' : i \in Nat
      /\ \A i \in Acks(h, c)' : i \in Nat
  BY PlacesAreNumbers DEF Requests, Acks, Byes
<1>3. \A i, j \in Requests(c, h)' : i = j
  <2> SUFFICES ASSUME NEW i \in Requests(c, h)', NEW j \in Requests(c, h)'
               PROVE  i = j
    OBVIOUS
  <2>1. i \in Nat /\ j \in Nat
    BY <1>2
  <2>2. CASE i + 1 = j + 1
    BY <2>1, <2>2
  <2> QED
    BY <1>1, <2>1, <2>2, NothingNew
<1>4. \A i, j \in Acks(h, c)' : i = j
  <2> SUFFICES ASSUME NEW i \in Acks(h, c)', NEW j \in Acks(h, c)'
               PROVE  i = j
    OBVIOUS
  <2>1. i \in Nat /\ j \in Nat
    BY <1>2
  <2>2. CASE i + 1 = j + 1
    BY <2>1, <2>2
  <2> QED
    BY <1>1, <2>1, <2>2, NothingNew
<1>5. Requests(c, h)' = {} \/ Acks(h, c)' = {}
  BY <1>1, NothingNew
<1> QED
  BY <1>3, <1>4, <1>5 DEF OneAsk

\* An attachment that is new takes the one grant there was.
LEMMA JoinedByGrant ==
  ASSUME TypeOK, TypeOK', NEW c \in Adapters, NEW h \in Adapters, OneAsk(c, h),
         Lawful(c, h), Attached(c, h)', ~Attached(c, h)
  PROVE  /\ 1 \in Acks(h, c) /\ Requests(c, h) = {} /\ Heard(h, c)
         /\ Requests(c, h)' = {} /\ Acks(h, c)' = {}
<1>1. Heard(h, c) /\ Kept(c, h) /\ 1 \in Acks(h, c)
  BY AcksAfter DEF Lawful, Joins
<1>2. Requests(c, h) = {} /\ \A i \in Acks(h, c) : i = 1
  BY <1>1 DEF OneAsk
<1>3. Requests(c, h)' = {}
  BY <1>1, <1>2, RequestsAfter
<1>4. \A i \in Acks(h, c)' : i + 1 = 1 /\ i \in Nat /\ 1 <= i
  BY <1>1, <1>2, AcksAfter, PlacesAreNumbers DEF Acks
<1>5. Acks(h, c)' = {}
  BY <1>4
<1> QED
  BY <1>1, <1>2, <1>3, <1>5

LEMMA NoneOpenNext ==
  ASSUME TypeOK, TypeOK', NEW c \in Adapters, NEW h \in Adapters, OneAsk(c, h),
         NoneOpen(c, h), Lawful(c, h)
  PROVE  NoneOpen(c, h)'
<1> SUFFICES ASSUME Attached(c, h)'
             PROVE  Requests(c, h)' = {} /\ Acks(h, c)' = {}
  BY DEF NoneOpen
<1>1. CASE Attached(c, h)
  BY <1>1, NothingNew DEF NoneOpen
<1>2. CASE ~Attached(c, h)
  BY <1>2, JoinedByGrant
<1> QED
  BY <1>1, <1>2

LEMMA LeftWholeNext ==
  ASSUME TypeOK, TypeOK', NEW c \in Adapters, NEW h \in Adapters, OneAsk(c, h),
         NoneOpen(c, h), LeftWhole(c, h), Lawful(c, h)
  PROVE  LeftWhole(c, h)'
<1> SUFFICES ASSUME NEW i \in Byes(c, h)'
             PROVE  ~Attached(c, h)' /\ Acks(h, c)' = {} /\ \A j \in Requests(c, h)' : i < j
  BY DEF LeftWhole
<1>1. /\ Len(wire[c][h]) \in Nat
      /\ \A j \in Requests(c, h) \cup Byes(c, h) : j \in Nat /\ 1 <= j /\ j <= Len(wire[c][h])
  BY PlacesAreNumbers
<1>2. i \in Nat /\ \A j \in Requests(c, h)' : j \in Nat
  BY PlacesAreNumbers DEF Requests, Acks, Byes
<1>3. CASE Heard(c, h)
  <2>1. i + 1 \in Byes(c, h) /\ \A j \in Requests(c, h)' : j + 1 \in Requests(c, h)
    BY <1>3, RequestsAfter
  <2>2. ~Attached(c, h) /\ Acks(h, c) = {} /\ \A j \in Requests(c, h) : i + 1 < j
    BY <2>1 DEF LeftWhole
  <2>3. 1 \notin Requests(c, h)
    BY <1>2, <2>2
  <2>4. Acks(h, c)' = {}
    BY <2>2, <2>3, NothingNew
  <2>5. ~Attached(c, h)'
    BY <2>2, JoinedByGrant
  <2>6. ASSUME NEW j \in Requests(c, h)'
        PROVE  i < j
    <3>1. i + 1 < j + 1 /\ j \in Nat
      BY <1>2, <2>1, <2>2
    <3> QED
      BY <1>2, <3>1
  <2> QED
    BY <2>4, <2>5, <2>6
<1>4. CASE ~Heard(c, h) /\ i \in Byes(c, h)
  <2>1. ~Attached(c, h) /\ Acks(h, c) = {} /\ \A j \in Requests(c, h) : i < j
    BY <1>4 DEF LeftWhole
  <2>2. ~Attached(c, h)'
    BY <2>1, JoinedByGrant
  <2>3. Acks(h, c)' = {}
    BY <1>4, <2>1, NothingNew
  <2>4. i < Len(wire[c][h]) + 1
    BY <1>1, <1>2, <1>4
  <2>5. \A j \in Requests(c, h)' : i < j
    BY <1>4, <2>1, <2>4, NothingNew
  <2> QED
    BY <2>2, <2>3, <2>5
<1>5. CASE ~Heard(c, h) /\ i \notin Byes(c, h)
  <2>1. Posted(c, h, Bye)
    <3>1. Kept(c, h) => i \in Byes(c, h)
      BY RequestsAfter
    <3>2. \A p : Posted(c, h, p) => i \in Byes(c, h) \/ p = Bye
      BY RequestsAfter
    <3> QED
      BY <1>5, <3>1, <3>2 DEF Lawful, Speaks, Request, Bye
  <2>2. Request # Bye
    BY DEF Request, Bye
  <2>3. Kept(h, c) /\ Attached(c, h) /\ ~Attached(c, h)'
    <3>1. ~Kept(c, h)
      BY <1>5, RequestsAfter
    <3>2. \A p : Posted(c, h, p) => p = Bye
      BY <1>5, RequestsAfter
    <3> QED
      BY <1>5, <2>2, <3>1, <3>2 DEF Lawful, Speaks
  <2>4. Requests(c, h) = {} /\ Acks(h, c) = {}
    BY <2>3 DEF NoneOpen
  <2>5. Acks(h, c)' = {}
    BY <2>3, <2>4, AcksAfter
  <2>6. Requests(c, h)' = {}
    <3>1. Bye.type # "request"
      BY DEF Bye
    <3> QED
      BY <2>1, <2>4, <3>1, RequestsAfter
  <2> QED
    BY <2>3, <2>5, <2>6
<1> QED
  BY <1>3, <1>4, <1>5

LEMMA BackedStays ==
  ASSUME TypeOK, TypeOK', NEW c \in Adapters, NEW h \in Adapters, Lawful(c, h),
         ~(Heard(c, h) /\ Head(wire[c][h]) = Bye), NEW s \in Slots, NEW id \in DevIds,
         NEW i \in Nat, i <= Len(wire[h][c]), BackedAfter(h, c, s, id, i), ~Heard(h, c)
  PROVE  BackedAfter(h, c, s, id, i)'
<1>1. Len(wire[h][c]) \in Nat
  BY PlacesAreNumbers
<1>2. Byes(h, c) \subseteq Byes(h, c)'
  BY RequestsAfter DEF Lawful, Replies, Seating
<1>3. CASE Seated(h, c, s, id)
  <2>1. CASE Posted(h, c, Bye)
    <3>1. Len(wire[h][c]) + 1 \in Byes(h, c)' /\ i < Len(wire[h][c]) + 1
      BY <1>1, <2>1, RequestsAfter
    <3> QED
      BY <3>1 DEF BackedAfter
  <2> QED
    BY <1>3, <2>1 DEF Lawful, Seats, BackedAfter
<1>4. CASE \E j \in Byes(h, c) : i < j
  BY <1>2, <1>4 DEF BackedAfter
<1>5. CASE <<s, id, c>> \in silenced[h]
  BY <1>5 DEF Lawful, Seats, BackedAfter
<1> QED
  BY <1>3, <1>4, <1>5 DEF BackedAfter

\* When c takes a packet off the wire the places move up by one.
LEMMA BackedMovesUp ==
  ASSUME TypeOK, TypeOK', NEW c \in Adapters, NEW h \in Adapters, Lawful(c, h),
         ~(Heard(c, h) /\ Head(wire[c][h]) = Bye), NEW s \in Slots, NEW id \in DevIds,
         NEW i \in Nat, BackedAfter(h, c, s, id, i), Heard(h, c),
         NEW k \in Nat, \A j \in Byes(h, c) : i < j => j # 1 /\ k < j - 1
  PROVE  BackedAfter(h, c, s, id, k)'
<1>1. CASE Seated(h, c, s, id)
  <2>1. ~Posted(h, c, Bye)
    BY PostedPlaces, HeardPlaces
  <2> QED
    BY <1>1, <2>1 DEF Lawful, Seats, BackedAfter
<1>2. CASE \E j \in Byes(h, c) : i < j
  <2>1. PICK j \in Byes(h, c) : i < j
    BY <1>2
  <2>2. j - 1 \in Byes(h, c)' /\ k < j - 1
    BY <2>1, RequestsAfter
  <2> QED
    BY <2>2 DEF BackedAfter
<1>3. CASE <<s, id, c>> \in silenced[h]
  BY <1>3 DEF Lawful, Seats, BackedAfter
<1> QED
  BY <1>1, <1>2, <1>3 DEF BackedAfter

LEMMA GrantType ==
  ASSUME TypeOK, NEW h \in Adapters, NEW c \in Adapters, NEW i \in Acks(h, c)
  PROVE  wire[h][c][i].slot \in Slots /\ wire[h][c][i].devid \in DevIds
<1>1. wire[h][c] \in Seq(Packets) /\ i \in 1 .. Len(wire[h][c])
  BY DEF TypeOK, Acks
<1>2. wire[h][c][i] \in Packets /\ wire[h][c][i].type = "ack"
  BY <1>1, ElementOfSeq DEF Acks
<1> QED
  BY <1>2 DEF Packets

\* A farewell heard by h finds nothing of c's that it could take back.
LEMMA FarewellFindsNothing ==
  ASSUME TypeOK, TypeOK', NEW c \in Adapters, NEW h \in Adapters, LeftWhole(c, h),
         Heard(c, h), Head(wire[c][h]) = Bye
  PROVE  ~Attached(c, h) /\ Acks(h, c) = {} /\ 1 \notin Requests(c, h)
<1>1. 1 \in Byes(c, h)
  BY RequestsAfter
<1> QED
  BY <1>1 DEF LeftWhole

LEMMA GrantBackedNext ==
  ASSUME TypeOK, TypeOK', NEW c \in Adapters, NEW h \in Adapters, OneAsk(c, h),
         LeftWhole(c, h), GrantBacked(c, h), Lawful(c, h)
  PROVE  GrantBacked(c, h)'
<1> SUFFICES ASSUME NEW i \in Acks(h, c)'
             PROVE  BackedAfter(h, c, wire[h][c][i].slot, wire[h][c][i].devid, i)'
  BY DEF GrantBacked
<1>0. i \in Nat /\ 1 <= i /\ Len(wire[h][c]) \in Nat
  BY PlacesAreNumbers DEF Acks
<1>1. CASE Heard(h, c)
  <2>1. i + 1 \in Acks(h, c) /\ wire'[h][c][i] = wire[h][c][i + 1]
    BY <1>1, AcksAfter
  <2>2. ~(Heard(c, h) /\ Head(wire[c][h]) = Bye)
    BY <2>1, FarewellFindsNothing
  <2>3. i + 1 \in Nat
    BY <1>0
  <2>4. /\ wire[h][c][i + 1].slot \in Slots /\ wire[h][c][i + 1].devid \in DevIds
        /\ BackedAfter(h, c, wire[h][c][i + 1].slot, wire[h][c][i + 1].devid, i + 1)
    BY <2>1, GrantType DEF GrantBacked
  <2>5. \A j \in Byes(h, c) : i + 1 < j => j # 1 /\ i < j - 1
    <3>1. \A j \in Byes(h, c) : j \in Nat
      BY PlacesAreNumbers
    <3> QED
      BY <1>0, <3>1
  <2>6. ASSUME NEW s \in Slots, NEW id \in DevIds, NEW k \in Nat, BackedAfter(h, c, s, id, k),
               \A j \in Byes(h, c) : k < j => j # 1 /\ i < j - 1
        PROVE  BackedAfter(h, c, s, id, i)'
    BY <1>0, <1>1, <2>2, <2>6, BackedMovesUp
  <2> DEFINE k == i + 1
             grant == wire[h][c][k]
  <2>7. /\ grant.slot \in Slots /\ grant.devid \in DevIds /\ k \in Nat
        /\ BackedAfter(h, c, grant.slot, grant.devid, k) /\ wire'[h][c][i] = grant
        /\ \A j \in Byes(h, c) : k < j => j # 1 /\ i < j - 1
    BY <2>1, <2>3, <2>4, <2>5
  <2> HIDE DEF k, grant
  <2>8. PICK s \in Slots, id \in DevIds : s = grant.slot /\ id = grant.devid
    BY <2>7
  <2>9. BackedAfter(h, c, s, id, i)'
    BY <2>6, <2>7, <2>8
  <2>10. wire'[h][c][i].slot = s /\ wire'[h][c][i].devid = id
    BY <2>7, <2>8
  <2> QED
    BY <2>9, <2>10
<1>2. CASE ~Heard(h, c) /\ i \in Acks(h, c)
  <2>1. wire'[h][c][i] = wire[h][c][i]
    BY <1>2, AcksAfter DEF Lawful, Replies, Seating
  <2>2. ~(Heard(c, h) /\ Head(wire[c][h]) = Bye)
    BY <1>2, FarewellFindsNothing
  <2>3. i <= Len(wire[h][c])
    BY <1>2, PlacesAreNumbers
  <2> QED
    BY <1>0, <1>2, <2>1, <2>2, <2>3, GrantType, BackedStays DEF GrantBacked
<1>3. CASE ~Heard(h, c) /\ i \notin Acks(h, c)
  <2>1. Seating(h, c)
    BY <1>3, AcksAfter DEF Lawful, Replies
  <2>2. PICK p : /\ Posted(h, c, p) /\ Seated(h, c, p.slot, p.devid)'
    BY <2>1 DEF Seating
  <2>3. wire'[h][c][i] = p
    BY <1>3, <2>2, AcksAfter
  <2> QED
    BY <2>2, <2>3 DEF BackedAfter
<1> QED
  BY <1>1, <1>2, <1>3

LEMMA AttachmentBackedNext ==
  ASSUME TypeOK, TypeOK', NEW c \in Adapters, NEW h \in Adapters, OneAsk(c, h),
         NoneOpen(c, h), LeftWhole(c, h), GrantBacked(c, h), AttachmentBacked(c, h), Lawful(c, h)
  PROVE  AttachmentBacked(c, h)'
<1> SUFFICES ASSUME Attached(c, h)'
             PROVE  BackedAfter(h, c, guest[c].slot, guest[c].devid, 0)'
  BY DEF AttachmentBacked
<1>0. \A j \in Byes(h, c) : j \in Nat /\ 1 <= j
  BY PlacesAreNumbers
<1>1. CASE Attached(c, h)
  <2>1. ~(Heard(h, c) /\ Head(wire[h][c]).type = "ack")
    BY <1>1, AcksAfter DEF NoneOpen
  <2>2. guest'[c].slot = guest[c].slot /\ guest'[c].devid = guest[c].devid
    BY <2>1 DEF Lawful, Joins
  <2>3. ~(Heard(c, h) /\ Head(wire[c][h]) = Bye)
    BY <1>1, FarewellFindsNothing
  <2>4. guest[c].slot \in Slots /\ guest[c].devid \in DevIds
    BY <1>1 DEF TypeOK, Guests, Attached
  <2>5. BackedAfter(h, c, guest[c].slot, guest[c].devid, 0)
    BY <1>1 DEF AttachmentBacked
  <2>6. CASE Heard(h, c)
    <3>1. Head(wire[h][c]) # Bye /\ Head(wire[h][c]) = wire[h][c][1]
      BY <2>6, HeardPlaces DEF Lawful, Replies
    <3>2. \A j \in Byes(h, c) : j # 1
      BY <3>1 DEF Byes
    <3>3. \A j \in Byes(h, c) : 0 < j => j # 1 /\ 0 < j - 1
      BY <1>0, <3>2
    <3>4. BackedAfter(h, c, guest[c].slot, guest[c].devid, 0)'
      <4> DEFINE s == guest[c].slot
                 id == guest[c].devid
      <4>1. ASSUME NEW sl \in Slots, NEW d \in DevIds, BackedAfter(h, c, sl, d, 0)
            PROVE  BackedAfter(h, c, sl, d, 0)'
        BY <2>3, <2>6, <3>3, <4>1, BackedMovesUp
      <4> HIDE DEF s, id
      <4>2. BackedAfter(h, c, s, id, 0) /\ s \in Slots /\ id \in DevIds
        BY <2>4, <2>5 DEF s, id
      <4> QED
        BY <2>2, <2>4, <2>5, <4>1
    <3> QED
      BY <3>4
  <2>7. CASE ~Heard(h, c)
    <3>1. 0 <= Len(wire[h][c])
      BY PlacesAreNumbers
    <3>2. ASSUME NEW sl \in Slots, NEW d \in DevIds, BackedAfter(h, c, sl, d, 0)
          PROVE  BackedAfter(h, c, sl, d, 0)'
      BY <2>3, <2>7, <3>1, <3>2, BackedStays
    <3> QED
      BY <2>2, <2>4, <2>5, <3>2
  <2> QED
    BY <2>6, <2>7
<1>2. CASE ~Attached(c, h)
  <2>1. Heard(h, c) /\ 1 \in Acks(h, c)
    BY <1>2, JoinedByGrant
  <2>2. /\ guest'[c].slot = wire[h][c][1].slot /\ guest'[c].devid = wire[h][c][1].devid
    BY <1>2, HeardPlaces DEF Lawful, Joins
  <2>3. ~(Heard(c, h) /\ Head(wire[c][h]) = Bye)
    BY <2>1, FarewellFindsNothing
  <2>4. /\ wire[h][c][1].slot \in Slots /\ wire[h][c][1].devid \in DevIds
        /\ BackedAfter(h, c, wire[h][c][1].slot, wire[h][c][1].devid, 1)
    BY <2>1, GrantType DEF GrantBacked
  <2>5. \A j \in Byes(h, c) : 1 < j => j # 1 /\ 0 < j - 1
    BY <1>0
  <2>6. ASSUME NEW sl \in Slots, NEW d \in DevIds, BackedAfter(h, c, sl, d, 1)
        PROVE  BackedAfter(h, c, sl, d, 0)'
    BY <2>1, <2>3, <2>5, <2>6, BackedMovesUp
  <2> QED
    BY <2>2, <2>4, <2>6
<1> QED
  BY <1>1, <1>2

LEMMA MemberNext ==
  ASSUME TypeOK, TypeOK', NEW c \in Adapters, NEW h \in Adapters, Member(c, h), Lawful(c, h)
  PROVE  Member(c, h)'
  BY OneAskNext, NoneOpenNext, LeftWholeNext, GrantBackedNext, AttachmentBackedNext DEF Member

-----------------------------------------------------------------------------
(* Every step is lawful.                                                       *)

\* A host may also take leave of its members.
Orderly(c, h) ==
  (c \notin Hosts => Speaks(c, h)) /\ Replies(h, c) /\ Joins(c, h) /\ Seats(h, c)

\* An adapter is attached only as it was before; a room has lost no member.
GuestKept(c) ==
  link'[c] = "Client" =>
    /\ link[c] = "Client" /\ guest'[c].host = guest[c].host
    /\ guest'[c].slot = guest[c].slot /\ guest'[c].devid = guest[c].devid
RoomKept(h) ==
  /\ silenced[h] \subseteq silenced'[h]
  /\ \A s \in Slots :
       link[h] = "Host" /\ room[h].clients[s].devid # NoId =>
         /\ link'[h] = "Host" /\ room'[h].clients[s].devid = room[h].clients[s].devid
         /\ room'[h].clients[s].peer = room[h].clients[s].peer

LEMMA GuestKeptJoins ==
  ASSUME NEW c, NEW h, GuestKept(c)
  PROVE  Joins(c, h) /\ (Attached(c, h)' => Attached(c, h))
  BY DEF GuestKept, Joins, Attached

LEMMA RoomKeptSeats ==
  ASSUME NEW c, NEW h, RoomKept(h)
  PROVE  Seats(h, c)
<1>1. \A id \in DevIds : id # NoId
  BY DevIdIsSome
<1> QED
  BY <1>1 DEF RoomKept, Seats, Seated

LEMMA Unconcerned ==
  ASSUME NEW c, NEW h, Kept(c, h), Kept(h, c), GuestKept(c), RoomKept(h), ~Heard(h, c)
  PROVE  Orderly(c, h)
  BY GuestKeptJoins, RoomKeptSeats DEF Orderly, Speaks, Replies

LEMMA KeptNotHeard ==
  ASSUME TypeOK, TypeOK', NEW a \in Adapters, NEW b \in Adapters,
         Kept(a, b) \/ (\E p : Posted(a, b, p))
  PROVE  ~Heard(a, b)
<1>1. Len(wire[a][b]) \in Nat
  BY PlacesAreNumbers
<1> QED
  BY <1>1, PostedPlaces, HeardPlaces DEF Kept

\* What is sent is posted to those it is sent to.
LEMMA SentPosts ==
  ASSUME TypeOK, NEW a \in Adapters, NEW to, NEW p \in Packets, wire' = Sent(a, to, ToAll(p)),
         NEW x \in Adapters, NEW y \in Adapters
  PROVE  IF x = a /\ y \in to THEN Posted(x, y, p) ELSE Kept(x, y)
<1>1. wire \in Wires
  BY DEF TypeOK, Wires
<1>2. wire'[x] = IF x = a THEN [b \in Adapters |-> IF b \in to THEN Append(wire[a][b], p) ELSE wire[a][b]]
                          ELSE wire[x]
  BY <1>1 DEF Sent, ToAll, Wires
<1> QED
  BY <1>1, <1>2 DEF Posted, Kept, Wires

LEMMA DeliveredMoves ==
  ASSUME TypeOK, NEW a \in Adapters, NEW b \in Others(a), wire[b][a] # << >>,
         NEW x \in Adapters, NEW y \in Adapters, x # y
  PROVE  /\ \A replies :
              wire' = Delivered(a, b, replies) =>
                /\ x = b /\ y = a => Heard(x, y)
                /\ ~(x = b /\ y = a) /\ ~(x = a /\ y = b) => Kept(x, y)
         /\ wire' = Delivered(a, b, << >>) /\ x = a /\ y = b => Kept(x, y)
         /\ \A p \in Packets :
              wire' = Delivered(a, b, << p >>) /\ x = a /\ y = b => Posted(x, y, p)
<1>1. wire \in Wires /\ b \in Adapters /\ b # a
  BY DEF TypeOK, Wires, Others
<1>2. ASSUME NEW replies, wire' = Delivered(a, b, replies)
      PROVE  wire'[x][y] = IF x = b /\ y = a THEN Tail(wire[b][a])
                           ELSE IF x = a /\ y = b THEN wire[a][b] \o replies
                           ELSE wire[x][y]
  <2> DEFINE mid == [wire EXCEPT ![b][a] = Tail(@)]
  <2>1. wire' = [mid EXCEPT ![a][b] = wire[a][b] \o replies]
    BY <1>1, <1>2 DEF Delivered, Wires
  <2>2. /\ DOMAIN mid = Adapters /\ DOMAIN mid[a] = Adapters /\ DOMAIN mid[b] = Adapters
        /\ mid[b][a] = Tail(wire[b][a]) /\ mid[a] = wire[a]
        /\ \A y1 \in Adapters : y1 # a => mid[b][y1] = wire[b][y1]
        /\ \A x1 \in Adapters : x1 # b => mid[x1] = wire[x1]
    BY <1>1 DEF Wires
  <2> HIDE DEF mid
  <2>3. CASE x = a
    BY <1>1, <2>1, <2>2, <2>3
  <2>4. CASE x # a
    BY <1>1, <2>1, <2>2, <2>4
  <2> QED
    BY <2>3, <2>4
<1>3. wire[a][b] \in Seq(Packets)
  BY <1>1 DEF Wires
<1>4. wire[a][b] \o << >> = wire[a][b]
  BY <1>3
<1>5. \A p \in Packets : wire[a][b] \o << p >> = Append(wire[a][b], p)
  BY <1>3
<1> QED
  BY <1>2, <1>4, <1>5 DEF Heard, Kept, Posted

Plain(p) == p \in Packets /\ p.type \notin {"request", "ack", "disconnect"}

\* A step that leaves who is where and sends no word about it.
LEMMA PlainSend ==
  ASSUME TypeOK, TypeOK', NEW a \in Adapters, NEW to, NEW p, Plain(p),
         wire' = wire \/ wire' = Sent(a, to, ToAll(p)),
         \A x \in Adapters : GuestKept(x) /\ RoomKept(x),
         NEW c \in Adapters, NEW h \in Others(c)
  PROVE  Orderly(c, h)
<1>1. h \in Adapters /\ h # c /\ p # Bye /\ p \in Packets
  BY DEF Others, Plain, Bye
<1>2. \A x, y \in Adapters : Kept(x, y) \/ Posted(x, y, p)
  BY <1>1, SentPosts DEF Kept
<1>3. ~Heard(h, c)
  BY <1>1, <1>2, KeptNotHeard
<1>4. Speaks(c, h) /\ Replies(h, c)
  BY <1>1, <1>2, <1>3 DEF Speaks, Replies, Plain
<1> QED
  BY <1>1, <1>4, GuestKeptJoins, RoomKeptSeats DEF Orderly

LEMMA PlainHear ==
  ASSUME TypeOK, TypeOK', NEW a \in Adapters, NEW b \in Others(a), wire[b][a] # << >>,
         Packet(a, b) # Bye, NEW p, Plain(p),
         wire' = Delivered(a, b, << >>) \/ wire' = Delivered(a, b, << p >>),
         \A x \in Adapters : GuestKept(x) /\ RoomKept(x),
         NEW c \in Adapters, NEW h \in Others(c)
  PROVE  Orderly(c, h)
<1>1. h \in Adapters /\ h # c /\ p # Bye /\ p \in Packets /\ p.type \notin {"request", "ack"}
  BY DEF Others, Plain, Bye
<1>2. ASSUME NEW x \in Adapters, NEW y \in Adapters, x # y
      PROVE  /\ Kept(x, y) \/ Posted(x, y, p) \/ (Heard(x, y) /\ x = b /\ y = a)
             /\ ~(x = b /\ y = a) => Kept(x, y) \/ Posted(x, y, p)
  BY <1>1, <1>2, DeliveredMoves
<1>3. Heard(h, c) => h = b /\ c = a
  BY <1>1, <1>2, KeptNotHeard
<1>4. Heard(h, c) => Head(wire[h][c]) # Bye
  BY <1>3 DEF Packet
<1>5. Speaks(c, h) /\ Replies(h, c)
  BY <1>1, <1>2, <1>4 DEF Speaks, Replies
<1> QED
  BY <1>1, <1>5, GuestKeptJoins, RoomKeptSeats DEF Orderly

LEMMA NackPlain == Plain([type |-> "nack"])
  BY DEF Plain, Packets

\* A step that sends nothing, and leaves who is where.
LEMMA SilentStep ==
  ASSUME TypeOK, TypeOK', wire' = wire, \A x \in Adapters : GuestKept(x) /\ RoomKept(x),
         NEW a \in Adapters, NEW c \in Adapters, NEW h \in Others(c)
  PROVE  Orderly(c, h)
  BY NackPlain, PlainSend

LEMMA SameMembers ==
  ASSUME UNCHANGED <<link, room, guest, silenced>>
  PROVE  \A x \in Adapters : GuestKept(x) /\ RoomKept(x)
  BY DEF GuestKept, RoomKept

LEMMA HostStartOrderly ==
  ASSUME Good, Good', NEW a \in Adapters, HostStart(a), NEW c \in Adapters, NEW h \in Others(c)
  PROVE  Orderly(c, h)
<1>1. TypeOK /\ TypeOK' /\ UNCHANGED <<guest, wire, silenced>>
  BY DEF Good, HostStart, Issue
<1>2. CASE link[a] = "Idle"
  <2>1. \A x \in Adapters : x # a => link'[x] = link[x] /\ room'[x] = room[x]
    BY <1>1, <1>2 DEF HostStart, TypeOK
  <2>2. link[a] # "Host" /\ link'[a] = "Host"
    BY <1>1, <1>2 DEF HostStart, TypeOK
  <2>3. \A x \in Adapters : GuestKept(x) /\ RoomKept(x)
    BY <1>1, <2>1, <2>2 DEF GuestKept, RoomKept
  <2> QED
    BY <1>1, <2>3, SilentStep
<1>3. CASE link[a] # "Idle"
  <2> DEFINE kept == [room[a] EXCEPT !.txTtl = AnnounceFrames]
  <2>0. room \in [Adapters -> Rooms] /\ room[a] \in Rooms
    BY <1>1 DEF TypeOK
  <2>2a. link' = link /\ room' = [room EXCEPT ![a] = kept]
    BY <2>0, <1>3 DEF HostStart, Rooms
  <2>3. kept.clients = room[a].clients
    BY <2>0 DEF Rooms
  <2> HIDE DEF kept
  <2>1. link' = link /\ \A x \in Adapters : room'[x].clients = room[x].clients
    BY <2>0, <2>2a, <2>3
  <2>2. \A x \in Adapters : GuestKept(x) /\ RoomKept(x)
    BY <1>1, <2>1 DEF GuestKept, RoomKept
  <2> QED
    BY <1>1, <2>2, SilentStep
<1> QED
  BY <1>2, <1>3

LEMMA HostStopOrderly ==
  ASSUME Good, Good', NEW a \in Adapters, HostStop(a), NEW c \in Adapters, NEW h \in Others(c)
  PROVE  Orderly(c, h)
<1>1. TypeOK /\ TypeOK' /\ UNCHANGED <<room, guest, wire, silenced>>
      /\ link' = [link EXCEPT ![a] = "Idle"] /\ Taken(a) = {}
  BY DEF Good, HostStop, Issue
<1>2. \A s \in Slots : room[a].clients[s].devid = NoId
  BY <1>1 DEF Taken
<1>3. \A x \in Adapters : GuestKept(x) /\ RoomKept(x)
  BY <1>1, <1>2 DEF GuestKept, RoomKept, TypeOK
<1> QED
  BY <1>1, <1>3, SilentStep

LEMMA ConnectCompleteOrderly ==
  ASSUME Good, Good', NEW a \in Adapters, ConnectComplete(a), NEW c \in Adapters, NEW h \in Others(c)
  PROVE  Orderly(c, h)
<1>1. TypeOK /\ TypeOK' /\ UNCHANGED <<room, guest, wire, silenced>>
      /\ link' = [link EXCEPT ![a] = "Idle"] /\ link[a] = "Connecting"
  BY DEF Good, ConnectComplete, Issue
<1>2. \A x \in Adapters : GuestKept(x) /\ RoomKept(x)
  BY <1>1 DEF GuestKept, RoomKept, TypeOK
<1> QED
  BY <1>1, <1>2, SilentStep

LEMMA TransmitOrderly ==
  ASSUME TypeOK, TypeOK', NEW a \in Adapters, NEW block \in Blocks, Transmit(a, block),
         UNCHANGED <<link, room, guest, silenced>>, NEW c \in Adapters, NEW h \in Others(c)
  PROVE  Orderly(c, h)
<1>0. \A x \in Adapters : GuestKept(x) /\ RoomKept(x)
  BY SameMembers
<1>1. CASE link[a] = "Host" /\ block.len <= TxMaxHost
  <2> DEFINE p == [type |-> "hostSend", block |-> block]
  <2>1. Plain(p)
    BY DEF Plain, Packets
  <2>2. wire' = Sent(a, Members(a), ToAll(p))
    BY <1>1 DEF Transmit
  <2> HIDE DEF p
  <2> QED
    BY <1>0, <2>1, <2>2, PlainSend
<1>2. CASE link[a] = "Client" /\ block.len <= TxMaxClient
  <2> DEFINE p == [type |-> "clientSend", devid |-> guest[a].devid, slot |-> guest[a].slot,
                   block |-> block]
  <2>1. Plain(p)
    BY <1>2 DEF Plain, Packets, TypeOK, Guests
  <2>2. wire' = Sent(a, {guest[a].host}, ToAll(p))
    BY <1>2 DEF Transmit
  <2> HIDE DEF p
  <2> QED
    BY <1>0, <2>1, <2>2, PlainSend
<1>3. CASE /\ ~(link[a] = "Host" /\ block.len <= TxMaxHost)
           /\ ~(link[a] = "Client" /\ block.len <= TxMaxClient)
  <2>1. wire' = wire
    BY <1>3 DEF Transmit
  <2> QED
    BY <1>0, <2>1, SilentStep
<1> QED
  BY <1>1, <1>2, <1>3

LEMMA SendDataOrderly ==
  ASSUME Good, Good', NEW a \in Adapters, NEW len \in Lengths, SendData(a, len),
         NEW c \in Adapters, NEW h \in Others(c)
  PROVE  Orderly(c, h)
<1> DEFINE block == [src |-> a, n |-> loaded[a] + 1, len |-> len]
<1>1. TypeOK /\ TypeOK' /\ UNCHANGED <<link, room, guest, silenced>> /\ Transmit(a, block)
  BY DEF Good, SendData, Issue
<1>2. loaded[a] + 1 \in 0 .. MaxBlocks
  BY <1>1, RfuAssumption DEF SendData, TypeOK
<1>3. block \in Blocks
  BY <1>2 DEF Blocks
<1> HIDE DEF block
<1> QED
  BY <1>1, <1>3, TransmitOrderly

LEMMA RtxWaitOrderly ==
  ASSUME Good, Good', NEW a \in Adapters, RtxWait(a), NEW c \in Adapters, NEW h \in Others(c)
  PROVE  Orderly(c, h)
<1>1. TypeOK /\ TypeOK' /\ UNCHANGED <<link, room, guest, silenced>> /\ Transmit(a, tx[a])
      /\ tx[a] \in Blocks
  BY DEF Good, RtxWait, Issue, TypeOK
<1> QED
  BY <1>1, TransmitOrderly

LEMMA RecvDataOrderly ==
  ASSUME Good, Good', NEW a \in Adapters, RecvData(a), NEW c \in Adapters, NEW h \in Others(c)
  PROVE  Orderly(c, h)
<1>1. TypeOK /\ TypeOK' /\ UNCHANGED <<link, wire, silenced>>
  BY DEF Good, RecvData, Issue
<1>2. /\ \A x \in Adapters : room'[x].clients = room[x].clients
      /\ \A x \in Adapters : /\ guest'[x].host = guest[x].host /\ guest'[x].slot = guest[x].slot
                             /\ guest'[x].devid = guest[x].devid
  <2>0. room \in [Adapters -> Rooms] /\ guest \in [Adapters -> Guests]
    BY <1>1 DEF TypeOK
  <2>1. CASE link[a] = "Host"
    <3> DEFINE read == [room[a] EXCEPT !.inbox =
                          [s \in Slots |-> IF s \in Taken(a) THEN Collected(@[s]) ELSE @[s]]]
    <3>1. room' = [room EXCEPT ![a] = read] /\ guest' = guest
      BY <1>1, <2>1 DEF RecvData, TypeOK, Rooms
    <3>2. read.clients = room[a].clients
      BY <2>0 DEF Rooms
    <3> HIDE DEF read
    <3> QED
      BY <2>0, <3>1, <3>2
  <2>2. CASE link[a] # "Host"
    <3> DEFINE read == [guest[a] EXCEPT !.inbox = Collected(@)]
    <3>1. /\ guest' = [guest EXCEPT ![a] = read] /\ room' = room
          /\ read.host = guest[a].host /\ read.slot = guest[a].slot /\ read.devid = guest[a].devid
      BY <1>1, <2>0, <2>2 DEF RecvData, Guests
    <3> HIDE DEF read
    <3> QED
      BY <2>0, <3>1
  <2> QED
    BY <2>1, <2>2
<1>3. \A x \in Adapters : GuestKept(x) /\ RoomKept(x)
  BY <1>1, <1>2 DEF GuestKept, RoomKept
<1> QED
  BY <1>1, <1>3, SilentStep

\* A client asks one room at a time.
LEMMA ConnectOrderly ==
  ASSUME Good, Good', ~Impatient, NEW a \in Adapters, NEW b \in Others(a), Connect(a, b),
         NEW c \in Adapters, NEW h \in Others(c)
  PROVE  Orderly(c, h)
<1>1. TypeOK /\ TypeOK' /\ UNCHANGED <<room, guest, silenced>>
      /\ link' = [link EXCEPT ![a] = "Connecting"] /\ link[a] # "Host" /\ ~Unanswered(a, b)
  BY DEF Good, Connect, Issue
<1>2. Request \in Packets /\ h \in Adapters /\ h # c /\ b \in Adapters /\ b # a
  BY DEF Request, Packets, Others
<1>3. \A x, y \in Adapters : IF x = a /\ y \in {b} THEN Posted(x, y, Request) ELSE Kept(x, y)
  BY <1>1, <1>2, SentPosts DEF Connect, Request
<1>4. GuestKept(c) /\ RoomKept(h)
  BY <1>1, <1>2 DEF GuestKept, RoomKept, TypeOK
<1>5. ~Heard(h, c)
  BY <1>1, <1>2, <1>3, KeptNotHeard
<1>6. Request.type = "request"
  BY DEF Request
<1>7. Replies(h, c)
  BY <1>2, <1>3, <1>5, <1>6 DEF Replies
<1>8. Speaks(c, h)
  <2>1. CASE c = a /\ h = b
    <3>1. Kept(h, c) /\ Posted(c, h, Request)
      BY <1>2, <1>3, <2>1
    <3>2. ~Attached(c, h)'
      BY <1>1, <2>1 DEF Attached, TypeOK
    <3>3. Requests(c, h) = {} /\ Acks(h, c) = {}
      BY <1>1, <2>1 DEF Unanswered, Requests, Acks
    <3> QED
      BY <3>1, <3>2, <3>3 DEF Speaks
  <2>2. CASE ~(c = a /\ h = b)
    BY <1>2, <1>3, <2>2 DEF Speaks
  <2> QED
    BY <2>1, <2>2
<1> QED
  BY <1>4, <1>7, <1>8, GuestKeptJoins, RoomKeptSeats DEF Orderly

LEMMA EvictedClients ==
  ASSUME NEW r \in Rooms, NEW slots, NEW s \in Slots
  PROVE  Evicted(r, slots).clients[s] = IF s \in slots THEN Free ELSE r.clients[s]
  BY DEF Evicted, Rooms

\* A farewell is no packet of another kind.
LEMMA ByeIs == Bye \in Packets /\ Bye.type = "disconnect" /\ Bye.type # "request" /\ Bye.type # "ack"
  BY DEF Bye, Packets

LEMMA DisconnectSelfOrderly ==
  ASSUME Good, Good', NEW a \in Adapters, DisconnectSelf(a), NEW c \in Adapters, NEW h \in Others(c)
  PROVE  Orderly(c, h)
<1> DEFINE b == guest[a].host
<1>1. /\ TypeOK /\ TypeOK' /\ UNCHANGED <<room, silenced>> /\ link[a] = "Client"
      /\ link' = [link EXCEPT ![a] = "Idle"] /\ guest' = [guest EXCEPT ![a] = NoGuest]
      /\ wire' = Sent(a, {b}, ToAll(Bye))
  BY DEF Good, DisconnectSelf, Issue
<1>2. h \in Adapters /\ h # c
  BY DEF Others
<1>3. \A x, y \in Adapters : IF x = a /\ y \in {b} THEN Posted(x, y, Bye) ELSE Kept(x, y)
  <2> HIDE DEF b
  <2> QED
    BY <1>1, ByeIs, SentPosts
<1>4. GuestKept(c) /\ RoomKept(h)
  BY <1>1, <1>2 DEF GuestKept, RoomKept, TypeOK
<1>5. ~Heard(h, c)
  BY <1>1, <1>2, <1>3, KeptNotHeard
<1>6. Replies(h, c)
  BY <1>2, <1>3, <1>5, ByeIs DEF Replies
<1>7. Speaks(c, h)
  <2>1. CASE c = a /\ h = b
    <3>1. Kept(h, c) /\ Posted(c, h, Bye)
      BY <1>2, <1>3, <2>1
    <3>2. Attached(c, h) /\ ~Attached(c, h)'
      BY <1>1, <2>1 DEF Attached, TypeOK
    <3> QED
      BY <3>1, <3>2 DEF Speaks
  <2>2. CASE ~(c = a /\ h = b)
    BY <1>2, <1>3, <2>2 DEF Speaks
  <2> QED
    BY <2>1, <2>2
<1> QED
  BY <1>4, <1>6, <1>7, GuestKeptJoins, RoomKeptSeats DEF Orderly

\* What a host says to members it drops: to each, farewell.
LEMMA Dismissal ==
  ASSUME TypeOK, TypeOK', RoomsOfHosts, NEW a \in Adapters, NEW to, wire' = Sent(a, to, ToAll(Bye)),
         to # {} => link[a] = "Host", \A x \in Adapters : GuestKept(x) /\ (x # a => RoomKept(x)),
         silenced' = silenced,
         \A s \in Slots : link[a] = "Host" /\ room[a].clients[s].devid # NoId =>
           \/ room[a].clients[s].peer \in to
           \/ /\ link'[a] = "Host" /\ room'[a].clients[s].devid = room[a].clients[s].devid
              /\ room'[a].clients[s].peer = room[a].clients[s].peer,
         NEW c \in Adapters, NEW h \in Others(c)
  PROVE  Orderly(c, h)
<1>1. h \in Adapters /\ h # c
  BY DEF Others
<1>2. \A x, y \in Adapters : IF x = a /\ y \in to THEN Posted(x, y, Bye) ELSE Kept(x, y)
  BY ByeIs, SentPosts
<1>3. ~Heard(h, c)
  BY <1>1, <1>2, KeptNotHeard
<1>4. Replies(h, c)
  BY <1>1, <1>2, <1>3, ByeIs DEF Replies
<1>5. c \notin Hosts => Speaks(c, h)
  BY <1>1, <1>2 DEF Speaks, RoomsOfHosts
<1>6. Seats(h, c)
  <2>1. CASE h # a
    BY <1>1, <2>1, RoomKeptSeats
  <2>2. CASE h = a
    <3>1. \A id \in DevIds : id # NoId
      BY DevIdIsSome
    <3>2. c \in to => Posted(h, c, Bye)
      BY <1>1, <1>2, <2>2
    <3> QED
      BY <2>2, <3>1, <3>2 DEF Seats, Seated
  <2> QED
    BY <2>1, <2>2
<1> QED
  BY <1>4, <1>5, <1>6, GuestKeptJoins DEF Orderly

LEMMA DisconnectClientsOrderly ==
  ASSUME Good, Good', RoomsOfHosts, NEW a \in Adapters, NEW mask, DisconnectClients(a, mask),
         NEW c \in Adapters, NEW h \in Others(c)
  PROVE  Orderly(c, h)
<1> DEFINE out == mask \cap Taken(a)
           told == {room[a].clients[s].peer : s \in out}
           left == Evicted(room[a], out)
<1>1. /\ TypeOK /\ TypeOK' /\ UNCHANGED <<link, guest, silenced>> /\ link[a] = "Host"
      /\ wire' = Sent(a, told, ToAll(Bye)) /\ room' = [room EXCEPT ![a] = left]
  BY DEF Good, DisconnectClients, Issue
<1>2. room[a] \in Rooms /\ room \in [Adapters -> Rooms]
  BY <1>1 DEF TypeOK
<1>3. \A s \in Slots : left.clients[s] = IF s \in out THEN Free ELSE room[a].clients[s]
  <2> HIDE DEF out
  <2> QED
    BY <1>2, EvictedClients
<1>4. \A s \in Slots : room[a].clients[s].peer \in told \/ left.clients[s] = room[a].clients[s]
  BY <1>3
<1> HIDE DEF told, left
<1>5. \A x \in Adapters : GuestKept(x) /\ (x # a => RoomKept(x))
  BY <1>1, <1>2 DEF GuestKept, RoomKept
<1>6. room'[a] = left
  BY <1>1, <1>2
<1> QED
  BY <1>1, <1>4, <1>5, <1>6, Dismissal

LEMMA ResetOrderly ==
  ASSUME Good, Good', RoomsOfHosts, NEW a \in Adapters, Reset(a),
         NEW c \in Adapters, NEW h \in Others(c)
  PROVE  Orderly(c, h)
<1>1. /\ TypeOK /\ TypeOK' /\ UNCHANGED silenced
      /\ wire' = Sent(a, ToldOnReset(a), ToAll(Bye))
      /\ link' = [link EXCEPT ![a] = "Idle"] /\ room' = [room EXCEPT ![a] = NoRoom]
      /\ guest' = [guest EXCEPT ![a] = NoGuest]
  BY DEF Good, Reset
<1>2. ToldOnReset(a) # {} => link[a] = "Host"
  BY DEF ToldOnReset
<1>3. \A x \in Adapters : GuestKept(x) /\ (x # a => RoomKept(x))
  BY <1>1 DEF GuestKept, RoomKept, TypeOK
<1>4. \A s \in Slots : link[a] = "Host" /\ room[a].clients[s].devid # NoId =>
                         room[a].clients[s].peer \in ToldOnReset(a)
  BY DEF ToldOnReset, Members, Taken
<1> QED
  BY <1>1, <1>2, <1>3, <1>4, Dismissal

LEMMA HandshakeOrderly ==
  ASSUME Good, Good', NEW a \in Adapters, Handshake(a), NEW c \in Adapters, NEW h \in Others(c)
  PROVE  Orderly(c, h)
  BY SameMembers, SilentStep DEF Good, Handshake

\* A host's sweep writes down whom it drops.
LEMMA SweptClients ==
  ASSUME TypeOK, NEW a \in Adapters, NEW s \in Slots
  PROVE  LET swept == Evicted(Aged(room[a]), QuietSlots(a)).clients[s]
         IN  s \in QuietSlots(a) \/ (swept.devid = room[a].clients[s].devid
                                     /\ swept.peer = room[a].clients[s].peer)
<1>1. room[a] \in Rooms /\ room[a].clients[s] \in Clients
  BY DEF TypeOK, Rooms
<1> DEFINE r == room[a]
           older == [t \in Slots |-> QuietLonger(r.clients[t])]
           aged == [r EXCEPT !.clients = older]
<1>2. Aged(r) = aged /\ aged.clients = older
  BY <1>1 DEF Aged, Rooms
<1>3. Evicted(aged, QuietSlots(a)).clients[s] = IF s \in QuietSlots(a) THEN Free ELSE older[s]
  <2>1. DOMAIN aged = {"devid", "clients", "inbox", "txTtl"}
    BY <1>1 DEF Rooms
  <2> HIDE DEF aged, older
  <2> QED
    BY <1>2, <2>1 DEF Evicted
<1>4. /\ QuietLonger(r.clients[s]).devid = r.clients[s].devid
      /\ QuietLonger(r.clients[s]).peer = r.clients[s].peer
  BY <1>1 DEF QuietLonger, Clients, Free
<1>5. older[s] = QuietLonger(r.clients[s])
  OBVIOUS
<1> HIDE DEF aged, older
<1> QED
  BY <1>2, <1>3, <1>4, <1>5 DEF r

LEMMA FrameUpdateOrderly ==
  ASSUME Good, Good', NEW a \in Adapters, FrameUpdate(a), NEW c \in Adapters, NEW h \in Others(c)
  PROVE  Orderly(c, h)
<1>1. TypeOK /\ TypeOK' /\ room[a] \in Rooms /\ room \in [Adapters -> Rooms]
  BY DEF Good, TypeOK
<1>2. CASE HostFrame(a)
  <2> DEFINE due == room[a].txTtl + 1 >= AnnounceFrames
             aged == Evicted(Aged(room[a]), QuietSlots(a))
             swept == [aged EXCEPT !.txTtl = IF due THEN 0 ELSE @ + 1]
             p == [type |-> "announce", devid |-> room[a].devid]
             dropped == {<<s, room[a].clients[s].devid, room[a].clients[s].peer>> : s \in QuietSlots(a)}
  <2>1. /\ UNCHANGED <<link, guest>> /\ link[a] = "Host"
        /\ wire' = wire \/ wire' = Sent(a, Others(a), ToAll(p))
        /\ room' = [room EXCEPT ![a] = swept]
        /\ silenced' = [silenced EXCEPT ![a] = @ \cup dropped]
    BY <1>2 DEF HostFrame
  <2>2. Plain(p)
    BY <1>1, <2>1 DEF Plain, Packets, TypeOK
  <2>3. swept.clients = aged.clients
    BY <1>1 DEF Evicted, Aged, Rooms
  <2>4. \A s \in Slots : s \in QuietSlots(a)
          \/ (swept.clients[s].devid = room[a].clients[s].devid
              /\ swept.clients[s].peer = room[a].clients[s].peer)
    BY <1>1, <2>3, SweptClients
  <2> HIDE DEF p, swept
  <2>5. h \in Adapters /\ h # c /\ p # Bye /\ p.type \notin {"ack", "request"} /\ p \in Packets
    BY <2>2 DEF Others, Plain, Bye
  <2>6. \A x, y \in Adapters : Kept(x, y) \/ Posted(x, y, p)
    BY <1>1, <2>1, <2>5, SentPosts DEF Kept
  <2>7. Speaks(c, h) /\ Replies(h, c)
    BY <1>1, <2>5, <2>6, KeptNotHeard DEF Speaks, Replies
  <2>8. Joins(c, h)
    BY <2>1, GuestKeptJoins DEF GuestKept
  <2>9. Seats(h, c)
    <3>1. silenced \in [Adapters -> SUBSET Grants]
      BY <1>1 DEF TypeOK
    <3>2. CASE h # a
      <4>1. RoomKept(h)
        BY <1>1, <2>1, <2>5, <3>1, <3>2 DEF RoomKept
      <4> QED
        BY <4>1, RoomKeptSeats
    <3>3. CASE h = a
      <4>1. silenced'[h] = silenced[h] \cup dropped /\ room'[h] = swept
        BY <1>1, <2>1, <3>1, <3>3
      <4>2. ASSUME NEW s \in Slots, NEW id \in DevIds, Seated(h, c, s, id)
            PROVE  Seated(h, c, s, id)' \/ <<s, id, c>> \in silenced'[h]
        <5>1. CASE s \in QuietSlots(a)
          BY <3>3, <4>1, <4>2, <5>1 DEF Seated
        <5>2. CASE s \notin QuietSlots(a)
          BY <2>1, <2>4, <3>3, <4>1, <4>2, <5>2 DEF Seated
        <5> QED
          BY <5>1, <5>2
      <4> QED
        BY <4>1, <4>2 DEF Seats
    <3> QED
      BY <3>2, <3>3
  <2> QED
    BY <2>7, <2>8, <2>9 DEF Orderly
<1>3. CASE ClientFrame(a)
  <2>1. UNCHANGED <<room, wire, silenced>> /\ link[a] = "Client"
    BY <1>3 DEF ClientFrame
  <2>2. \A x \in Adapters : GuestKept(x)
    <3>1. CASE HostSilent(a)
      BY <1>1, <1>3, <3>1 DEF ClientFrame, GuestKept, TypeOK
    <3>2. CASE ~HostSilent(a)
      <4> DEFINE g == [guest[a] EXCEPT !.ttl = OneMore(@)]
      <4>1. link' = link /\ guest' = [guest EXCEPT ![a] = g] /\ guest \in [Adapters -> Guests]
        BY <1>1, <1>3, <3>2 DEF ClientFrame, TypeOK, Guests
      <4>2. g.host = guest[a].host /\ g.slot = guest[a].slot /\ g.devid = guest[a].devid
        BY <4>1 DEF Guests
      <4> HIDE DEF g
      <4> QED
        BY <4>1, <4>2 DEF GuestKept
    <3> QED
      BY <3>1, <3>2
  <2>3. \A x \in Adapters : RoomKept(x)
    BY <1>1, <1>3, <2>1 DEF RoomKept, ClientFrame, TypeOK
  <2> QED
    BY <1>1, <2>1, <2>2, <2>3, SilentStep
<1>4. CASE OtherFrame(a)
  BY <1>1, <1>4, SameMembers, SilentStep DEF OtherFrame
<1> QED
  BY <1>2, <1>3, <1>4 DEF FrameUpdate

-----------------------------------------------------------------------------
(* Packets are lawful too.                                                     *)

LEMMA FedKept ==
  ASSUME TypeOK, NEW a \in Adapters, NEW b, guest' = Fed(a, b), UNCHANGED <<link, silenced>>,
         \A x \in Adapters, s \in Slots :
           link[x] = "Host" /\ room[x].clients[s].devid # NoId =>
             /\ room'[x].clients[s].devid = room[x].clients[s].devid
             /\ room'[x].clients[s].peer = room[x].clients[s].peer
  PROVE  \A x \in Adapters : GuestKept(x) /\ RoomKept(x)
  BY FedType DEF GuestKept, RoomKept

LEMMA HeardFirst ==
  ASSUME TypeOK, NEW a \in Adapters, NEW b \in Others(a), NEW type, Receive(a, b, type)
  PROVE  /\ wire[b][a] # << >> /\ silenced' = silenced /\ Packet(a, b) \in Packets
         /\ Packet(a, b).type = type
         /\ type # "disconnect" => Packet(a, b) # Bye
         /\ type = "disconnect" => Packet(a, b) = Bye
<1>1. Packet(a, b) \in Packets /\ Packet(a, b).type = type /\ wire[b][a] # << >> /\ silenced' = silenced
  BY ReceiveType
<1> QED
  BY <1>1 DEF Packets, Bye

LEMMA HearBroadcastOrderly ==
  ASSUME Good, Good', NEW a \in Adapters, NEW b \in Others(a), HearBroadcast(a, b),
         NEW c \in Adapters, NEW h \in Others(c)
  PROVE  Orderly(c, h)
<1>1. /\ TypeOK /\ TypeOK' /\ Receive(a, b, "announce") /\ guest' = Fed(a, b)
      /\ wire' = Delivered(a, b, << >>) /\ UNCHANGED <<link, room>>
  BY DEF Good, HearBroadcast
<1> QED
  BY <1>1, HeardFirst, FedKept, NackPlain, PlainHear

LEMMA HearConnectNackOrderly ==
  ASSUME Good, Good', NEW a \in Adapters, NEW b \in Others(a), HearConnectNack(a, b),
         NEW c \in Adapters, NEW h \in Others(c)
  PROVE  Orderly(c, h)
<1>1. /\ TypeOK /\ TypeOK' /\ Receive(a, b, "nack") /\ guest' = Fed(a, b)
      /\ wire' = Delivered(a, b, << >>) /\ UNCHANGED room
      /\ link' = IF link[a] = "Connecting" THEN [link EXCEPT ![a] = "Idle"] ELSE link
  BY DEF Good, HearConnectNack
<1>2. silenced' = silenced
  BY <1>1, HeardFirst
<1>3. \A x \in Adapters : /\ link'[x] = "Client" => link[x] = "Client"
                         /\ link[x] = "Host" => link'[x] = "Host"
  BY <1>1 DEF TypeOK
<1>4. \A x \in Adapters : /\ guest'[x].host = guest[x].host /\ guest'[x].slot = guest[x].slot
                         /\ guest'[x].devid = guest[x].devid
  BY <1>1, FedType
<1>5. \A x \in Adapters : GuestKept(x) /\ RoomKept(x)
  BY <1>1, <1>2, <1>3, <1>4 DEF GuestKept, RoomKept
<1> QED
  BY <1>1, <1>5, HeardFirst, NackPlain, PlainHear

LEMMA HearHostSendOrderly ==
  ASSUME Good, Good', NEW a \in Adapters, NEW b \in Others(a), HearHostSend(a, b),
         NEW c \in Adapters, NEW h \in Others(c)
  PROVE  Orderly(c, h)
<1> DEFINE ack == [type |-> "clientAck", devid |-> guest[a].devid, slot |-> guest[a].slot]
<1>1. /\ TypeOK /\ TypeOK' /\ Receive(a, b, "hostSend") /\ UNCHANGED <<link, room>>
  BY DEF Good, HearHostSend
<1>2. silenced' = silenced
  BY <1>1, HeardFirst
<1>3. CASE link[a] = "Client"
  <2>1. Plain(ack)
    BY <1>1, <1>3 DEF Plain, Packets, TypeOK, Guests
  <2>2. wire' = Delivered(a, b, << ack >>)
    BY <1>3 DEF HearHostSend
  <2>3. \A x \in Adapters : /\ guest'[x].host = guest[x].host /\ guest'[x].slot = guest[x].slot
                            /\ guest'[x].devid = guest[x].devid
    <3> DEFINE q == Queued(Fed(a, b)[a].inbox, Packet(a, b).block)
               g == [Fed(a, b)[a] EXCEPT !.inbox = q]
    <3>1. Fed(a, b) \in [Adapters -> Guests]
          /\ \A x \in Adapters : /\ Fed(a, b)[x].host = guest[x].host
                                 /\ Fed(a, b)[x].slot = guest[x].slot
                                 /\ Fed(a, b)[x].devid = guest[x].devid
      BY <1>1, FedType
    <3>2. guest' = [Fed(a, b) EXCEPT ![a].inbox = q]
      BY <1>3 DEF HearHostSend
    <3> HIDE DEF q
    <3>3. guest' = [Fed(a, b) EXCEPT ![a] = g]
      BY <3>1, <3>2 DEF Guests
    <3>4. /\ g.host = Fed(a, b)[a].host /\ g.slot = Fed(a, b)[a].slot
          /\ g.devid = Fed(a, b)[a].devid
      BY <3>1 DEF Guests
    <3> HIDE DEF g
    <3> QED
      BY <3>1, <3>3, <3>4
  <2>4. \A x \in Adapters : GuestKept(x) /\ RoomKept(x)
    BY <1>1, <1>2, <2>3 DEF GuestKept, RoomKept
  <2> HIDE DEF ack
  <2> QED
    BY <1>1, <2>1, <2>2, <2>4, HeardFirst, PlainHear
<1>4. CASE link[a] # "Client"
  <2>1. wire' = Delivered(a, b, << >>) /\ UNCHANGED guest
    BY <1>4 DEF HearHostSend
  <2> QED
    BY <1>1, <1>2, <2>1, SameMembers, HeardFirst, NackPlain, PlainHear
<1> QED
  BY <1>3, <1>4

\* A member heard from, with the block it sent or without, is the same member.
LEMMA RefreshedMembers ==
  ASSUME TypeOK, NEW a \in Adapters, NEW s \in Slots, NEW q
  PROVE  LET r == [room[a] EXCEPT !.clients[s].ttl = 0]
             w == [room[a] EXCEPT !.clients[s].ttl = 0, !.inbox[s] = q]
         IN  \A t \in Slots :
               /\ r.clients[t].devid = room[a].clients[t].devid
               /\ r.clients[t].peer = room[a].clients[t].peer
               /\ w.clients[t].devid = room[a].clients[t].devid
               /\ w.clients[t].peer = room[a].clients[t].peer
<1>1. room \in [Adapters -> Rooms] /\ room[a] \in Rooms /\ room[a].clients[s] \in Clients
  BY DEF TypeOK, Rooms
<1> DEFINE fresh == [room[a].clients[s] EXCEPT !.ttl = 0]
           seats == [room[a].clients EXCEPT ![s] = fresh]
           r == [room[a] EXCEPT !.clients[s].ttl = 0]
           w == [room[a] EXCEPT !.clients[s].ttl = 0, !.inbox[s] = q]
<1>2. fresh.devid = room[a].clients[s].devid /\ fresh.peer = room[a].clients[s].peer
  BY <1>1 DEF Clients, Free
<1>3. \A t \in Slots : seats[t].devid = room[a].clients[t].devid
                     /\ seats[t].peer = room[a].clients[t].peer
  <2> HIDE DEF fresh
  <2> QED
    BY <1>1, <1>2 DEF Rooms
<1>4. r.clients = seats /\ w.clients = seats
  BY <1>1 DEF Rooms
<1> HIDE DEF seats, r, w
<1>5. \A t \in Slots :
        /\ r.clients[t].devid = room[a].clients[t].devid
        /\ r.clients[t].peer = room[a].clients[t].peer
        /\ w.clients[t].devid = room[a].clients[t].devid
        /\ w.clients[t].peer = room[a].clients[t].peer
  BY <1>3, <1>4
<1> QED
  BY <1>5 DEF r, w

\* News of a member is none to those who are where they were.
LEMMA RefreshOrderly ==
  ASSUME TypeOK, TypeOK', NEW a \in Adapters, NEW b \in Others(a), NEW type, Receive(a, b, type),
         type # "disconnect", guest' = Fed(a, b), wire' = Delivered(a, b, << >>), UNCHANGED link,
         \A x \in Adapters, t \in Slots : /\ room'[x].clients[t].devid = room[x].clients[t].devid
                                         /\ room'[x].clients[t].peer = room[x].clients[t].peer,
         NEW c \in Adapters, NEW h \in Others(c)
  PROVE  Orderly(c, h)
<1>1. silenced' = silenced
  BY HeardFirst
<1>2. \A x \in Adapters : GuestKept(x) /\ RoomKept(x)
  BY <1>1, FedKept
<1>3. wire[b][a] # << >> /\ Packet(a, b) # Bye
  BY HeardFirst
<1> QED
  BY <1>2, <1>3, NackPlain, PlainHear

LEMMA HearClientSendOrderly ==
  ASSUME Good, Good', NEW a \in Adapters, NEW b \in Others(a), HearClientSend(a, b),
         NEW c \in Adapters, NEW h \in Others(c)
  PROVE  Orderly(c, h)
<1> DEFINE p == Packet(a, b)
<1>1. /\ TypeOK /\ TypeOK' /\ Receive(a, b, "clientSend") /\ guest' = Fed(a, b)
      /\ wire' = Delivered(a, b, << >>) /\ UNCHANGED link
  BY DEF Good, HearClientSend
<1>0. TypeOK /\ Receive(a, b, "clientSend")
  BY DEF Good, HearClientSend
<1>2. p.slot \in Slots
  BY <1>0, HeardFirst DEF Packets
<1>3. CASE Vouched(a, p)
  <2> DEFINE q == Queued(room[a].inbox[p.slot], p.block)
             r == [room[a] EXCEPT !.clients[p.slot].ttl = 0, !.inbox[p.slot] = q]
  <2>1. room' = [room EXCEPT ![a] = r]
    BY <1>0, <1>3 DEF HearClientSend, TypeOK, Rooms
  <2>2. \A t \in Slots : /\ r.clients[t].devid = room[a].clients[t].devid
                        /\ r.clients[t].peer = room[a].clients[t].peer
    <3> HIDE DEF q, p
    <3> QED
      BY <1>1, <1>2, RefreshedMembers
  <2> HIDE DEF q, r, p
  <2>3. room \in [Adapters -> Rooms]
    BY <1>0 DEF TypeOK
  <2>4. \A x \in Adapters, t \in Slots : /\ room'[x].clients[t].devid = room[x].clients[t].devid
                                         /\ room'[x].clients[t].peer = room[x].clients[t].peer
    BY <2>1, <2>2, <2>3
  <2> QED
    BY <1>1, <2>4, RefreshOrderly
<1>4. CASE ~Vouched(a, p)
  <2>1. room' = room
    BY <1>0, <1>4 DEF HearClientSend, TypeOK
  <2> QED
    BY <1>1, <2>1, RefreshOrderly
<1> QED
  BY <1>3, <1>4

LEMMA HearClientAckOrderly ==
  ASSUME Good, Good', NEW a \in Adapters, NEW b \in Others(a), HearClientAck(a, b),
         NEW c \in Adapters, NEW h \in Others(c)
  PROVE  Orderly(c, h)
<1> DEFINE p == Packet(a, b)
<1>1. /\ TypeOK /\ TypeOK' /\ Receive(a, b, "clientAck") /\ guest' = Fed(a, b)
      /\ wire' = Delivered(a, b, << >>) /\ UNCHANGED link
  BY DEF Good, HearClientAck
<1>0. TypeOK /\ Receive(a, b, "clientAck")
  BY DEF Good, HearClientAck
<1>2. p.slot \in Slots
  BY <1>0, HeardFirst DEF Packets
<1>3. CASE Vouched(a, p)
  <2> DEFINE r == [room[a] EXCEPT !.clients[p.slot].ttl = 0]
  <2>1. room' = [room EXCEPT ![a] = r]
    BY <1>0, <1>3 DEF HearClientAck, TypeOK, Rooms
  <2>2. \A t \in Slots : /\ r.clients[t].devid = room[a].clients[t].devid
                        /\ r.clients[t].peer = room[a].clients[t].peer
    <3> HIDE DEF p
    <3> QED
      BY <1>1, <1>2, RefreshedMembers
  <2> HIDE DEF r, p
  <2>3. room \in [Adapters -> Rooms]
    BY <1>0 DEF TypeOK
  <2>4. \A x \in Adapters, t \in Slots : /\ room'[x].clients[t].devid = room[x].clients[t].devid
                                         /\ room'[x].clients[t].peer = room[x].clients[t].peer
    BY <2>1, <2>2, <2>3
  <2> QED
    BY <1>1, <2>4, RefreshOrderly
<1>4. CASE ~Vouched(a, p)
  <2>1. room' = room
    BY <1>0, <1>4 DEF HearClientAck, TypeOK
  <2> QED
    BY <1>1, <2>1, RefreshOrderly
<1> QED
  BY <1>3, <1>4

LEMMA HearConnectReqOrderly ==
  ASSUME Good, Good', NEW a \in Adapters, NEW b \in Others(a), HearConnectReq(a, b),
         NEW c \in Adapters, NEW h \in Others(c)
  PROVE  Orderly(c, h)
<1> DEFINE id == NewDevId(a, commands[a])
           s == FirstFree(a)
           seated == link[a] = "Host" /\ ~AlreadyMember(a, b) /\ FreeSlots(a) # {}
<1>1. /\ TypeOK /\ TypeOK' /\ Receive(a, b, "request") /\ guest' = Fed(a, b) /\ UNCHANGED link
  BY DEF Good, HearConnectReq
<1>2. CASE seated
  <2> DEFINE new == [devid |-> id, peer |-> b, ttl |-> 0]
             ack == [type |-> "ack", devid |-> id, slot |-> s]
             r == [room[a] EXCEPT !.clients = [@ EXCEPT ![s] = new]]
  <2>1. s \in Slots /\ s \in FreeSlots(a)
    <3>1. FreeSlots(a) \subseteq Nat
      BY RfuAssumption DEF FreeSlots, Slots
    <3>2. \E t \in FreeSlots(a) : \A u \in FreeSlots(a) : t <= u
      BY <1>2, <3>1, LeastExists
    <3> QED
      BY <3>2 DEF FirstFree, FreeSlots
  <2>2. room[a].clients[s].devid = NoId
    BY <2>1 DEF FreeSlots, Taken
  <2>3. room \in [Adapters -> Rooms] /\ room[a] \in Rooms
    BY <1>1 DEF TypeOK
  <2>4. id \in DevIds
    BY <1>1, NewDevIdType DEF TypeOK
  <2>5. room' = [room EXCEPT ![a] = r] /\ wire' = Delivered(a, b, << ack >>)
    BY <1>1, <1>2, <2>3 DEF HearConnectReq, Rooms
  <2>6. ack \in Packets /\ ack.type = "ack" /\ ack # Bye /\ ack.slot = s /\ ack.devid = id
    BY <2>1, <2>4 DEF Packets, Bye
  <2>7. \A t \in Slots : r.clients[t] = IF t = s THEN new ELSE room[a].clients[t]
    BY <2>1, <2>3 DEF Rooms
  <2>8. new.devid = id /\ new.peer = b
    OBVIOUS
  <2>9. /\ link'[a] = "Host" /\ room'[a].clients[s].devid = id
        /\ room'[a].clients[s].peer = b
    <3> HIDE DEF new, r, id, s
    <3>1. room'[a] = r /\ r.clients[s] = new /\ link'[a] = "Host"
      BY <1>1, <1>2, <2>1, <2>3, <2>5, <2>7
    <3> QED
      BY <2>8, <3>1
  <2> HIDE DEF new, ack, r, id, s
  <2>10. \A x \in Adapters, t \in Slots :
           link[x] = "Host" /\ room[x].clients[t].devid # NoId =>
             /\ room'[x].clients[t].devid = room[x].clients[t].devid
             /\ room'[x].clients[t].peer = room[x].clients[t].peer
    BY <2>2, <2>3, <2>5, <2>7
  <2>11. \A x \in Adapters : GuestKept(x) /\ RoomKept(x)
    BY <1>1, <2>10, HeardFirst, FedKept
  <2>12. h \in Adapters /\ h # c /\ b \in Adapters /\ b # a
    BY DEF Others
  <2>13. wire[b][a] # << >> /\ Packet(a, b) # Bye /\ Packet(a, b).type = "request"
    BY <1>1, HeardFirst
  <2>14. ASSUME NEW x \in Adapters, NEW y \in Adapters, x # y
         PROVE  /\ x = b /\ y = a => Heard(x, y)
                /\ x = a /\ y = b => Posted(x, y, ack)
                /\ ~(x = b /\ y = a) /\ ~(x = a /\ y = b) => Kept(x, y)
    <3>1. /\ x = b /\ y = a => Heard(x, y)
          /\ ~(x = b /\ y = a) /\ ~(x = a /\ y = b) => Kept(x, y)
      BY <1>1, <2>5, <2>13, <2>14, DeliveredMoves
    <3>2. x = a /\ y = b => Posted(x, y, ack)
      BY <1>1, <2>5, <2>6, <2>13, <2>14, DeliveredMoves
    <3> QED
      BY <3>1, <3>2
  <2>15. Speaks(c, h)
    BY <2>6, <2>12, <2>14 DEF Speaks
  <2>16. Replies(h, c)
    <3>1. CASE h = a /\ c = b
      <4>1. Heard(c, h) /\ Posted(h, c, ack) /\ ~Heard(h, c)
        BY <1>1, <2>12, <2>14, <3>1, KeptNotHeard
      <4>2. Head(wire[c][h]).type = "request"
        BY <2>13, <3>1 DEF Packet
      <4>3. PICK p \in Packets : p = ack
        BY <2>6
      <4>4. Seated(h, c, p.slot, p.devid)'
        BY <2>6, <2>9, <3>1, <4>3 DEF Seated
      <4>5. Posted(h, c, p) /\ p.type = "ack" /\ link[h] = "Host"
        BY <1>2, <2>6, <3>1, <4>1, <4>3
      <4>6. Seating(h, c)
        BY <4>1, <4>2, <4>4, <4>5 DEF Seating
      <4> QED
        BY <4>1, <4>6 DEF Replies
    <3>2. CASE h = b /\ c = a
      BY <2>12, <2>13, <2>14, <3>2 DEF Replies, Packet
    <3>3. CASE ~(h = a /\ c = b) /\ ~(h = b /\ c = a)
      BY <1>1, <2>12, <2>14, <3>3, KeptNotHeard DEF Replies
    <3> QED
      BY <3>1, <3>2, <3>3
  <2> QED
    BY <2>11, <2>12, <2>15, <2>16, GuestKeptJoins, RoomKeptSeats DEF Orderly
<1>3. CASE ~seated
  <2>1. UNCHANGED room
        /\ (wire' = Delivered(a, b, << >>) \/ wire' = Delivered(a, b, << [type |-> "nack"] >>))
    BY <1>3 DEF HearConnectReq
  <2> QED
    BY <1>1, <2>1, HeardFirst, FedKept, NackPlain, PlainHear
<1> QED
  BY <1>2, <1>3

\* A packet heard without a reply.
LEMMA JustHeard ==
  ASSUME TypeOK, TypeOK', NEW a \in Adapters, NEW b \in Others(a), wire[b][a] # << >>,
         wire' = Delivered(a, b, << >>), NEW c \in Adapters, NEW h \in Others(c)
  PROVE  /\ Speaks(c, h)
         /\ IF c = a /\ h = b THEN Heard(h, c) /\ Kept(c, h) ELSE Kept(h, c) /\ ~Heard(h, c)
<1>1. h \in Adapters /\ h # c /\ b \in Adapters /\ b # a
  BY DEF Others
<1>2. \A x, y \in Adapters :
        x # y => IF x = b /\ y = a THEN Heard(x, y) ELSE Kept(x, y)
  BY <1>1, DeliveredMoves
<1> QED
  BY <1>1, <1>2, KeptNotHeard DEF Speaks

LEMMA HearConnectAckOrderly ==
  ASSUME Good, Good', NEW a \in Adapters, NEW b \in Others(a), HearConnectAck(a, b),
         NEW c \in Adapters, NEW h \in Others(c)
  PROVE  Orderly(c, h)
<1>1. /\ TypeOK /\ TypeOK' /\ Receive(a, b, "ack") /\ UNCHANGED room
      /\ wire' = Delivered(a, b, << >>)
  BY DEF Good, HearConnectAck
<1>2. /\ wire[b][a] # << >> /\ silenced' = silenced
      /\ Packet(a, b).type = "ack" /\ Packet(a, b) # Bye
  BY <1>1, HeardFirst
<1>3. CASE link[a] = "Connecting"
  <2> DEFINE new == [devid |-> Packet(a, b).devid, slot |-> Packet(a, b).slot,
                     host |-> b, ttl |-> 0, inbox |-> << >>]
  <2>1. guest' = [guest EXCEPT ![a] = new] /\ link' = [link EXCEPT ![a] = "Client"]
    BY <1>3 DEF HearConnectAck
  <2>2. new.devid = Packet(a, b).devid /\ new.slot = Packet(a, b).slot /\ new.host = b
    OBVIOUS
  <2> HIDE DEF new
  <2>3. guest \in [Adapters -> Guests] /\ link \in [Adapters -> {"Idle", "Host", "Connecting", "Client"}]
    BY <1>1 DEF TypeOK
  <2>4. Speaks(c, h) /\ Replies(h, c)
    BY <1>1, <1>2, JustHeard DEF Replies, Packet
  <2>5. Joins(c, h)
    <3>1. CASE c # a
      BY <2>1, <2>3, <3>1 DEF Joins, Attached
    <3>2. CASE c = a /\ h # b
      BY <2>1, <2>2, <2>3, <3>2 DEF Joins, Attached
    <3>3. CASE c = a /\ h = b
      <4>1. Heard(h, c) /\ Kept(c, h)
        BY <1>1, <1>2, <3>3, JustHeard
      <4>2. guest'[c] = new /\ Head(wire[h][c]) = Packet(a, b)
        BY <2>1, <2>3, <3>3 DEF Packet
      <4> QED
        BY <1>2, <2>2, <4>1, <4>2 DEF Joins
    <3> QED
      BY <3>1, <3>2, <3>3
  <2>6. RoomKept(h)
    BY <1>1, <1>2, <1>3, <2>1, <2>3 DEF RoomKept
  <2> QED
    BY <2>4, <2>5, <2>6, RoomKeptSeats DEF Orderly
<1>4. CASE link[a] # "Connecting"
  <2>1. guest' = Fed(a, b) /\ UNCHANGED link
    BY <1>4 DEF HearConnectAck
  <2> QED
    BY <1>1, <1>2, <2>1, FedKept, NackPlain, PlainHear
<1> QED
  BY <1>3, <1>4

LEMMA HearDisconnectOrderly ==
  ASSUME Good, Good', NEW a \in Adapters, NEW b \in Others(a), HearDisconnect(a, b),
         NEW c \in Adapters, NEW h \in Others(c)
  PROVE  Orderly(c, h)
<1>1. /\ TypeOK /\ TypeOK' /\ Receive(a, b, "disconnect") /\ wire' = Delivered(a, b, << >>)
  BY DEF Good, HearDisconnect
<1>2. wire[b][a] # << >> /\ silenced' = silenced /\ Packet(a, b) = Bye
  BY <1>1, HeardFirst
<1>3. /\ guest \in [Adapters -> Guests] /\ room \in [Adapters -> Rooms]
      /\ link \in [Adapters -> {"Idle", "Host", "Connecting", "Client"}]
  BY <1>1 DEF TypeOK
<1>4. /\ Speaks(c, h)
      /\ IF c = a /\ h = b THEN Heard(h, c) ELSE Kept(h, c) /\ ~Heard(h, c)
  BY <1>1, <1>2, JustHeard
<1>5. CASE link[a] = "Client" /\ guest[a].host = b
  <2>1. /\ link' = [link EXCEPT ![a] = "Idle"] /\ guest' = [guest EXCEPT ![a] = NoGuest]
        /\ UNCHANGED room
    BY <1>5 DEF HearDisconnect
  <2>2. GuestKept(c) /\ RoomKept(h)
    BY <1>2, <1>3, <1>5, <2>1 DEF GuestKept, RoomKept, Others
  <2>3. c = a => ~Attached(c, h)'
    BY <1>3, <2>1 DEF Attached
  <2> QED
    BY <1>4, <2>2, <2>3, GuestKeptJoins, RoomKeptSeats DEF Orderly, Replies
<1>6. CASE ~(link[a] = "Client" /\ guest[a].host = b)
  <2> DEFINE left == Evicted(room[a], SlotsOf(a, b))
  <2>1. /\ UNCHANGED <<link, guest>>
        /\ room' = IF link[a] = "Host" THEN [room EXCEPT ![a] = left] ELSE room
    BY <1>6 DEF HearDisconnect
  <2>2. \A s \in Slots : left.clients[s] = IF s \in SlotsOf(a, b) THEN Free ELSE room[a].clients[s]
    BY <1>3, EvictedClients
  <2> HIDE DEF left
  <2>3. GuestKept(c)
    BY <2>1 DEF GuestKept
  <2>4. c = a /\ h = b => ~Attached(c, h)'
    BY <1>6, <2>1 DEF Attached
  <2>5. Replies(h, c)
    BY <1>4, <2>4 DEF Replies
  <2>6. Seats(h, c)
    <3>1. h \in Adapters /\ h # c
      BY DEF Others
    <3>2. CASE h # a \/ link[a] # "Host"
      <4>1. RoomKept(h)
        BY <1>2, <1>3, <2>1, <3>1, <3>2 DEF RoomKept
      <4> QED
        BY <4>1, RoomKeptSeats
    <3>3. CASE h = a /\ link[a] = "Host"
      <4>1. room'[h] = left /\ link'[h] = "Host" /\ silenced'[h] = silenced[h]
        BY <1>2, <1>3, <2>1, <3>3
      <4>2. CASE c = b
        <5>1. Heard(c, h) /\ Head(wire[c][h]) = Bye
          <6>1. c \in Others(h) /\ h \in Adapters /\ c = b /\ h = a /\ wire[b][a] # << >>
            BY <1>2, <3>1, <3>3, <4>2 DEF Others
          <6>2. b \in Adapters /\ a # b
            BY DEF Others
          <6>3. Heard(b, a)
            BY <1>1, <1>2, <6>2, DeliveredMoves
          <6> QED
            BY <1>2, <6>1, <6>3 DEF Packet
        <5> QED
          BY <4>1, <5>1 DEF Seats
      <4>3. CASE c # b
        BY <2>2, <3>3, <4>1, <4>3 DEF Seats, Seated, SlotsOf
      <4> QED
        BY <4>2, <4>3
    <3> QED
      BY <3>2, <3>3
  <2> QED
    BY <1>4, <2>3, <2>5, <2>6, GuestKeptJoins DEF Orderly
<1> QED
  BY <1>5, <1>6

LEMMA NetReceiveOrderly ==
  ASSUME Good, Good', NEW a \in Adapters, NEW b \in Others(a), NetReceive(a, b),
         NEW c \in Adapters, NEW h \in Others(c)
  PROVE  Orderly(c, h)
  BY HearBroadcastOrderly, HearConnectReqOrderly, HearConnectAckOrderly, HearConnectNackOrderly,
     HearDisconnectOrderly, HearHostSendOrderly, HearClientSendOrderly, HearClientAckOrderly
     DEF NetReceive

-----------------------------------------------------------------------------
(* Together.                                                                   *)

LEMMA OtherCommandOrderly ==
  ASSUME Good, Good', NEW a \in Adapters, OtherCommand(a), NEW c \in Adapters, NEW h \in Others(c)
  PROVE  Orderly(c, h)
<1>1. TypeOK /\ TypeOK' /\ UNCHANGED <<link, room, guest, wire, silenced>>
  BY DEF Good, OtherCommand, Issue
<1> QED
  BY <1>1, SameMembers, SilentStep

LEMMA CommandOrderly ==
  ASSUME Good, Good', ~Impatient, RoomsOfHosts, NEW a \in Adapters, Command(a),
         NEW c \in Adapters, NEW h \in Others(c)
  PROVE  Orderly(c, h)
  BY OtherCommandOrderly, HostStartOrderly, HostStopOrderly, ConnectOrderly,
     ConnectCompleteOrderly, DisconnectSelfOrderly, DisconnectClientsOrderly, SendDataOrderly,
     RtxWaitOrderly, RecvDataOrderly DEF Command

LEMMA StepOrderly ==
  ASSUME Good, Good', ~Impatient, RoomsOfHosts, [Next]_vars, NEW c \in Adapters, NEW h \in Others(c)
  PROVE  Orderly(c, h)
<1>1. CASE Next
  <2>1. PICK a \in Adapters :
          \/ Command(a) \/ Reset(a) \/ Handshake(a) \/ FrameUpdate(a)
          \/ \E b \in Others(a) : NetReceive(a, b)
    BY <1>1 DEF Next
  <2> QED
    BY <2>1, CommandOrderly, ResetOrderly, HandshakeOrderly, FrameUpdateOrderly, NetReceiveOrderly
<1>2. CASE UNCHANGED vars
  <2>1. TypeOK /\ TypeOK' /\ UNCHANGED <<link, room, guest, wire, silenced>>
    BY <1>2 DEF Good, vars
  <2> QED
    BY <2>1, SameMembers, SilentStep
<1> QED
  BY <1>1, <1>2

\* Only the game of a host opens a room.
LEMMA OpenedByHosts ==
  ASSUME TypeOK, [Next]_vars, NEW a \in Adapters, link'[a] = "Host"
  PROVE  link[a] = "Host" \/ a \in Hosts
<1>1. link \in [Adapters -> {"Idle", "Host", "Connecting", "Client"}]
  BY DEF TypeOK
<1>2. CASE UNCHANGED vars
  BY <1>2 DEF vars
<1>3. CASE Next
  <2>1. PICK x \in Adapters :
          \/ Command(x) \/ Reset(x) \/ Handshake(x) \/ FrameUpdate(x)
          \/ \E b \in Others(x) : NetReceive(x, b)
    BY <1>3 DEF Next
  <2>2. CASE Command(x)
    BY <1>1, <2>2 DEF Command, OtherCommand, HostStart, HostStop, Connect, ConnectComplete,
       DisconnectSelf, DisconnectClients, SendData, RtxWait, RecvData
  <2>3. CASE Reset(x) \/ Handshake(x) \/ FrameUpdate(x)
    BY <1>1, <2>3 DEF Reset, Handshake, FrameUpdate, HostFrame, ClientFrame, OtherFrame
  <2>4. CASE \E b \in Others(x) : NetReceive(x, b)
    BY <1>1, <2>4 DEF NetReceive, HearBroadcast, HearConnectReq, HearConnectAck,
       HearConnectNack, HearDisconnect, HearHostSend, HearClientSend, HearClientAck
  <2> QED
    BY <2>1, <2>2, <2>3, <2>4
<1> QED
  BY <1>2, <1>3

LEMMA RoomsOfHostsNext ==
  ASSUME Good, Good', ~Impatient, RoomsOfHosts, [Next]_vars
  PROVE  RoomsOfHosts'
<1>1. TypeOK /\ TypeOK'
  BY DEF Good
<1>2. \A a \in Adapters : link'[a] = "Host" => a \in Hosts
  BY <1>1, OpenedByHosts DEF RoomsOfHosts
<1>3. ASSUME NEW a \in Adapters, NEW b \in Others(a), Acks(a, b)' # {}
      PROVE  a \in Hosts
  <2>1. b \in Adapters /\ a \in Others(b)
    BY DEF Others
  <2>2. Replies(a, b)
    BY <2>1, StepOrderly DEF Orderly
  <2>3. CASE Seating(a, b)
    BY <2>3 DEF Seating, RoomsOfHosts
  <2>4. CASE ~Seating(a, b)
    <3>1. Acks(a, b) # {}
      BY <1>1, <1>3, <2>1, <2>2, <2>4, AcksAfter DEF Replies
    <3> QED
      BY <3>1 DEF RoomsOfHosts
  <2> QED
    BY <2>3, <2>4
<1>4. ASSUME NEW c \in Adapters, link'[c] = "Client"
      PROVE  guest'[c].host \in Hosts
  <2>1. PICK h \in Others(c) : h = guest'[c].host
    BY <1>1, <1>4 DEF TypeOK
  <2>2. h \in Adapters /\ c \in Others(h) /\ Attached(c, h)'
    BY <1>4, <2>1 DEF Others, Attached
  <2>3. Joins(c, h)
    BY StepOrderly DEF Orderly
  <2>4. CASE Attached(c, h)
    BY <2>1, <2>4 DEF Attached, RoomsOfHosts
  <2>5. CASE ~Attached(c, h)
    <3>1. Acks(h, c) # {}
      BY <1>1, <2>2, <2>3, <2>5, AcksAfter DEF Joins
    <3> QED
      BY <2>1, <2>2, <3>1 DEF RoomsOfHosts
  <2> QED
    BY <2>4, <2>5
<1> QED
  BY <1>2, <1>3, <1>4 DEF RoomsOfHosts

LEMMA JoinInit == Init => JoinInv
<1> SUFFICES ASSUME Init PROVE JoinInv
  OBVIOUS
<1>1. Good
  BY InitGood
<1>2. \A a, b \in Adapters : Requests(a, b) = {} /\ Acks(a, b) = {} /\ Byes(a, b) = {}
  BY DEF Init, Requests, Acks, Byes
<1>3. \A a \in Adapters : link[a] = "Idle"
  BY DEF Init
<1>4. RoomsOfHosts
  BY <1>2, <1>3 DEF RoomsOfHosts, Others
<1>5. \A c \in Adapters : \A h \in Others(c) : Member(c, h)
  BY <1>2, <1>3 DEF Member, OneAsk, NoneOpen, LeftWhole, GrantBacked, AttachmentBacked,
                    Attached, Others
<1> QED
  BY <1>1, <1>4, <1>5 DEF JoinInv

LEMMA JoinNext ==
  ASSUME ~Impatient
  PROVE  JoinInv /\ [Next]_vars => JoinInv'
<1> SUFFICES ASSUME JoinInv, [Next]_vars PROVE JoinInv'
  OBVIOUS
<1>1. Good /\ RoomsOfHosts
  BY DEF JoinInv
<1>2. Good'
  BY <1>1, StepGood
<1>3. RoomsOfHosts'
  BY <1>1, <1>2, RoomsOfHostsNext
<1>4. ASSUME NEW c \in Adapters \ Hosts, NEW h \in Others(c)
      PROVE  Member(c, h)'
  <2>1. h \in Adapters
    BY DEF Others
  <2>2. Lawful(c, h)
    BY <1>1, <1>2, StepOrderly DEF Orderly, Lawful
  <2>3. Member(c, h) /\ TypeOK /\ TypeOK'
    BY <1>1, <1>2 DEF JoinInv, Good
  <2> QED
    BY <2>1, <2>2, <2>3, MemberNext
<1> QED
  BY <1>2, <1>3, <1>4 DEF JoinInv, Others

LEMMA AlwaysJoined ==
  ASSUME ~Impatient
  PROVE  Spec => []JoinInv
<1>1. Init => JoinInv
  BY JoinInit
<1>2. JoinInv /\ [Next]_vars => JoinInv'
  BY JoinNext
<1> QED
  BY <1>1, <1>2, PTL DEF Spec

\* The part of AttachedIsBacked that holds of any number of rooms.
GuestsAreBacked == \A c \in Adapters \ Hosts : Backed(c)

LEMMA JoinedAreBacked == JoinInv => GuestsAreBacked
<1> SUFFICES ASSUME JoinInv, NEW c \in Adapters \ Hosts, link[c] = "Client"
             PROVE  Backed(c)
  BY DEF GuestsAreBacked, Backed
<1>1. PICK h \in Others(c) : h = guest[c].host
  BY DEF JoinInv, Good, TypeOK
<1>2. BackedAfter(h, c, guest[c].slot, guest[c].devid, 0)
  BY <1>1 DEF JoinInv, Member, AttachmentBacked, Attached
<1> QED
  BY <1>1, <1>2 DEF Backed, BackedAfter, Byes

\* While its game asks for no second room before it knows of the first, a device
\* that opens no room of its own, and believes itself in another's, has the slot and
\* the identity it was given; or the farewell is on its way, or the room dropped it
\* for silence, and wrote that down (rfu.rs, ID_CONNECT_REQ, ID_CONNECT_ACK,
\* ID_DISCONNECT, the DISCONNECT command, frame_update and reset).
THEOREM GuestsBacked ==
  ASSUME ~Impatient
  PROVE  Spec => []GuestsAreBacked
<1>1. JoinInv => GuestsAreBacked
  BY JoinedAreBacked
<1> QED
  BY <1>1, AlwaysJoined, PTL

\* With one device to open a room that is everyone: no attachment is a client's
\* belief alone, whatever is on the wire between it and the room.
THEOREM AttachmentsBacked ==
  ASSUME ~Impatient, \A a, b \in Hosts : a = b
  PROVE  Spec => []AttachedIsBacked
<1>1. JoinInv => AttachedIsBacked
  <2> SUFFICES ASSUME JoinInv, NEW c \in Adapters PROVE Backed(c)
    BY DEF AttachedIsBacked
  <2>1. CASE c \in Hosts
    <3>1. link[c] = "Client" => guest[c].host \in Others(c) /\ guest[c].host \in Hosts
      BY DEF JoinInv, Good, TypeOK, RoomsOfHosts
    <3>2. link[c] # "Client"
      BY <2>1, <3>1 DEF Others
    <3> QED
      BY <3>2 DEF Backed
  <2>2. CASE c \notin Hosts
    BY <2>2, JoinedAreBacked DEF GuestsAreBacked
  <2> QED
    BY <2>1, <2>2
<1> QED
  BY <1>1, AlwaysJoined, PTL
=============================================================================
