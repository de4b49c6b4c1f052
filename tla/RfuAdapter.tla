----------------------------- MODULE RfuAdapter -----------------------------
(* The Wireless Adapter's session layer (gba-core/src/rfu.rs): rooms, joining, *)
(* leaving, blocks of data and silence. One adapter per device, and between    *)
(* them the netpacket interface, which delivers in order and loses nothing     *)
(* (netpacket.rs: "Reliable and flushed").                                     *)
(*                                                                             *)
(* A command is one step: header, payload and acknowledgement are words the    *)
(* game clocks, and all a command does to the session happens in run_command.  *)
(* Frames of different devices are not synchronised.                           *)
EXTENDS Naturals, Sequences, FiniteSets

CONSTANTS
  Adapters,        \* frontend peer ids
  Hosts,           \* those whose game may open a room
  NSlots,          \* slots of a room (4)
  IdCycle,         \* command counts a device id tells apart (256)
  QueueDepth,      \* QUEUE_DEPTH
  AnnounceFrames,  \* ANNOUNCE_FRAMES
  PeerTtl,         \* PEER_TTL
  ClientTtl,       \* CLIENT_TTL
  TxMaxHost,       \* TX_MAX_HOST
  TxMaxClient,     \* TX_MAX_CLIENT
  Impatient,       \* may a game ask for a room again before it was answered?
  Lengths,         \* block lengths a game asks for
  MaxCommands,     \* bound: commands of each game
  MaxBlocks,       \* bound: blocks one game loads
  MaxResets,       \* bound: power cycles of one adapter
  MaxInFlight      \* bound: packets from one adapter to another, replies apart

ASSUME RfuAssumption ==
  /\ Hosts \subseteq Adapters
  /\ {NSlots, IdCycle, QueueDepth, AnnounceFrames, PeerTtl, ClientTtl} \subseteq Nat \ {0}
  /\ {TxMaxHost, TxMaxClient, MaxBlocks, MaxResets, MaxInFlight} \subseteq Nat
  /\ Lengths \subseteq Nat
  /\ MaxCommands \in [Adapters -> Nat]
  /\ Impatient \in BOOLEAN

VARIABLES
  awake,     \* past the handshake: com is not Reset
  link,      \* Link
  commands,  \* commands issued, from which device ids are minted
  resets,    \* power cycles
  room,      \* HostState
  guest,     \* ClientState
  peers,     \* peers[a][b]: the room of b as a last heard it announced
  tx,        \* the transmit buffer, kept across commands and power cycles
  loaded,    \* blocks the game has loaded so far
  wire,      \* wire[a][b]: packets from a to b, a's outbox included
  silenced   \* history: the <<slot, devid, peer>> a room took back for silence

vars == <<awake, link, commands, resets, room, guest, peers, tx, loaded, wire, silenced>>

Slots == 0 .. NSlots - 1
NoId == <<>>
Nobody == "nobody"
Free == [devid |-> NoId, peer |-> Nobody, ttl |-> 0]
NoRoom == [devid |-> NoId, clients |-> [s \in Slots |-> Free],
           inbox |-> [s \in Slots |-> << >>], txTtl |-> 0]
NoGuest == [devid |-> NoId, slot |-> 0, host |-> Nobody, ttl |-> 0, inbox |-> << >>]
Unheard == [devid |-> NoId, ttl |-> 0]
EmptyBlock(a) == [src |-> a, n |-> 0, len |-> 0]

(* The high bits of a device id name the adapter that mints it, the low byte is *)
(* its game's command count with the lowest bit forced to 1.                    *)
NewDevId(a, count) == <<a, (count % IdCycle) \div 2>>
DevIds == Adapters \X (0 .. IdCycle \div 2)
Grants == Slots \X DevIds \X Adapters

Taken(a) == {s \in Slots : room[a].clients[s].devid # NoId}
SlotsOf(a, b) == {s \in Taken(a) : room[a].clients[s].peer = b}
Members(a) == {room[a].clients[s].peer : s \in Taken(a)}
Others(a) == Adapters \ {a}

(* The bound on the wire: what a game or a frame sends waits for room.        *)
HasRoom(a, to) == \A b \in to : Len(wire[a][b]) < MaxInFlight
Sent(a, to, packet) ==
  [wire EXCEPT ![a] = [b \in Adapters |-> IF b \in to THEN Append(@[b], packet[b]) ELSE @[b]]]
ToAll(packet) == [b \in Adapters |-> packet]
Bye == [type |-> "disconnect"]

EvictedKeepingBlocks(r, slots) ==
  [r EXCEPT !.clients = [s \in Slots |-> IF s \in slots THEN Free ELSE @[s]]]

Evicted(r, slots) ==
  [r EXCEPT !.clients = [s \in Slots |-> IF s \in slots THEN Free ELSE @[s]],
            !.inbox = [s \in Slots |-> IF s \in slots THEN << >> ELSE @[s]]]

Init ==
  /\ awake = [a \in Adapters |-> TRUE]
  /\ link = [a \in Adapters |-> "Idle"]
  /\ commands = [a \in Adapters |-> 0]
  /\ resets = [a \in Adapters |-> 0]
  /\ room = [a \in Adapters |-> NoRoom]
  /\ guest = [a \in Adapters |-> NoGuest]
  /\ peers = [a \in Adapters |-> [b \in Adapters |-> Unheard]]
  /\ tx = [a \in Adapters |-> EmptyBlock(a)]
  /\ loaded = [a \in Adapters |-> 0]
  /\ wire = [a \in Adapters |-> [b \in Adapters |-> << >>]]
  /\ silenced = [a \in Adapters |-> {}]

-----------------------------------------------------------------------------
(* The game's commands.                                                        *)

Issue(a) ==
  /\ awake[a]
  /\ commands[a] < MaxCommands[a]
  /\ commands' = [commands EXCEPT ![a] = @ + 1]
  /\ UNCHANGED <<awake, resets, peers, silenced>>

(* A query, a setting, or a command refused in the state the link is in.      *)
OtherCommand(a) ==
  /\ Issue(a)
  /\ UNCHANGED <<link, room, guest, tx, loaded, wire>>

HostStart(a) ==
  /\ a \in Hosts
  /\ link[a] # "Client"
  /\ Issue(a)
  /\ IF link[a] = "Idle"
     THEN /\ link' = [link EXCEPT ![a] = "Host"]
          /\ room' = [room EXCEPT ![a].devid = NewDevId(a, commands[a] + 1),
                                  ![a].clients = NoRoom.clients,
                                  ![a].txTtl = AnnounceFrames]
     ELSE /\ room' = [room EXCEPT ![a].txTtl = AnnounceFrames]
          /\ UNCHANGED link
  /\ UNCHANGED <<guest, tx, loaded, wire>>

HostStop(a) ==
  /\ link[a] = "Host" /\ Taken(a) = {}
  /\ Issue(a)
  /\ link' = [link EXCEPT ![a] = "Idle"]
  /\ UNCHANGED <<room, guest, tx, loaded, wire>>

Unanswered(a, b) ==
  \/ \E i \in 1 .. Len(wire[a][b]) : wire[a][b][i].type = "request"
  \/ \E i \in 1 .. Len(wire[b][a]) : wire[b][a][i].type \in {"ack", "nack"}

Connect(a, b) ==
  /\ link[a] # "Host"
  /\ Unanswered(a, b) => Impatient
  /\ peers[a][b].ttl > 0
  /\ HasRoom(a, {b})
  /\ Issue(a)
  /\ link' = [link EXCEPT ![a] = "Connecting"]
  /\ wire' = Sent(a, {b}, ToAll([type |-> "request"]))
  /\ UNCHANGED <<room, guest, tx, loaded>>

(* CONCOMPL on a connection that has not come about gives it up.              *)
ConnectComplete(a) ==
  /\ link[a] = "Connecting"
  /\ Issue(a)
  /\ link' = [link EXCEPT ![a] = "Idle"]
  /\ UNCHANGED <<room, guest, tx, loaded, wire>>

(* DISCONNECT drops the clients its mask names and keeps the room, or leaves. *)
DisconnectClients(a, mask) ==
  LET out == mask \cap Taken(a)
      told == {room[a].clients[s].peer : s \in out} IN
  /\ link[a] = "Host" /\ out # {}
  /\ HasRoom(a, told)
  /\ Issue(a)
  /\ wire' = Sent(a, told, ToAll(Bye))
  /\ room' = [room EXCEPT ![a] = Evicted(@, out)]
  /\ UNCHANGED <<link, guest, tx, loaded>>

DisconnectSelf(a) ==
  /\ link[a] = "Client"
  /\ HasRoom(a, {guest[a].host})
  /\ Issue(a)
  /\ wire' = Sent(a, {guest[a].host}, ToAll(Bye))
  /\ guest' = [guest EXCEPT ![a] = NoGuest]
  /\ link' = [link EXCEPT ![a] = "Idle"]
  /\ UNCHANGED <<room, tx, loaded>>

(* What SEND_DATA, SEND_DATAW and RTX_WAIT put on the air: a host's block goes *)
(* to every client, a client's to its host under its own id and slot. A block  *)
(* too long for the role goes nowhere.                                         *)
Transmit(a, block) ==
  CASE link[a] = "Host" /\ block.len <= TxMaxHost ->
         /\ HasRoom(a, Members(a))
         /\ wire' = Sent(a, Members(a), ToAll([type |-> "hostSend", block |-> block]))
    [] link[a] = "Client" /\ block.len <= TxMaxClient ->
         /\ HasRoom(a, {guest[a].host})
         /\ wire' = Sent(a, {guest[a].host},
                         ToAll([type |-> "clientSend", devid |-> guest[a].devid,
                                slot |-> guest[a].slot, block |-> block]))
    [] OTHER -> UNCHANGED wire

SendData(a, len) ==
  LET block == [src |-> a, n |-> loaded[a] + 1, len |-> len] IN
  /\ link[a] \in {"Host", "Client"}
  /\ loaded[a] < MaxBlocks
  /\ Issue(a)
  /\ tx' = [tx EXCEPT ![a] = block]
  /\ loaded' = [loaded EXCEPT ![a] = @ + 1]
  /\ Transmit(a, block)
  /\ UNCHANGED <<link, room, guest>>

RtxWait(a) ==
  /\ link[a] \in {"Host", "Client"}
  /\ Issue(a)
  /\ Transmit(a, tx[a])
  /\ UNCHANGED <<link, room, guest, tx, loaded>>

(* A block with no bytes is not taken off its queue.                           *)
Collected(q) == IF q # << >> /\ Head(q).len > 0 THEN Tail(q) ELSE q

RecvData(a) ==
  /\ link[a] \in {"Host", "Client"}
  /\ Issue(a)
  /\ IF link[a] = "Host"
     THEN /\ room' = [room EXCEPT ![a].inbox =
                        [s \in Slots |-> IF s \in Taken(a) THEN Collected(@[s]) ELSE @[s]]]
          /\ UNCHANGED guest
     ELSE /\ guest' = [guest EXCEPT ![a].inbox = Collected(@)]
          /\ UNCHANGED room
  /\ UNCHANGED <<link, tx, loaded, wire>>

Command(a) ==
  \/ OtherCommand(a) \/ HostStart(a) \/ HostStop(a) \/ ConnectComplete(a)
  \/ DisconnectSelf(a) \/ RtxWait(a) \/ RecvData(a)
  \/ \E b \in Others(a) : Connect(a, b)
  \/ \E mask \in SUBSET Slots : DisconnectClients(a, mask)
  \/ \E len \in Lengths : SendData(a, len)

ToldNobody(a) == {}
ToldOnReset(a) == IF link[a] = "Host" THEN Members(a) ELSE {}

(* PD pulled high: the clients are told, then all but the counters, the outbox *)
(* and the transmit buffer is cleared.                                         *)
Reset(a) ==
  /\ resets[a] < MaxResets
  /\ HasRoom(a, ToldOnReset(a))
  /\ wire' = Sent(a, ToldOnReset(a), ToAll(Bye))
  /\ resets' = [resets EXCEPT ![a] = @ + 1]
  /\ awake' = [awake EXCEPT ![a] = FALSE]
  /\ link' = [link EXCEPT ![a] = "Idle"]
  /\ room' = [room EXCEPT ![a] = NoRoom]
  /\ guest' = [guest EXCEPT ![a] = NoGuest]
  /\ peers' = [peers EXCEPT ![a] = [b \in Adapters |-> Unheard]]
  /\ UNCHANGED <<commands, tx, loaded, silenced>>

Handshake(a) ==
  /\ ~awake[a]
  /\ awake' = [awake EXCEPT ![a] = TRUE]
  /\ UNCHANGED <<link, commands, resets, room, guest, peers, tx, loaded, wire, silenced>>

-----------------------------------------------------------------------------
(* Once a frame: announce, and forget what has fallen silent.                  *)

Older(p) == IF p.ttl <= 1 THEN Unheard ELSE [p EXCEPT !.ttl = @ - 1]
(* saturating_add of a byte: past the limit a count makes no difference.       *)
OneMore(ttl) == IF ttl < ClientTtl THEN ttl + 1 ELSE ttl
TooQuiet(end) == OneMore(end.ttl) >= ClientTtl
QuietEmptySlots(a) ==
  {s \in Taken(a) : TooQuiet(room[a].clients[s]) /\ room[a].inbox[s] = << >>}
QuietSlots(a) == {s \in Taken(a) : TooQuiet(room[a].clients[s])}
QuietLonger(client) ==
  IF client.devid = NoId THEN client ELSE [client EXCEPT !.ttl = OneMore(@)]
Aged(r) == [r EXCEPT !.clients = [s \in Slots |-> QuietLonger(r.clients[s])]]

HostFrame(a) ==
  LET due == room[a].txTtl + 1 >= AnnounceFrames
      aged == Evicted(Aged(room[a]), QuietSlots(a)) IN
  /\ link[a] = "Host"
  /\ due => HasRoom(a, Others(a))
  /\ wire' = IF due THEN Sent(a, Others(a), ToAll([type |-> "announce", devid |-> room[a].devid]))
             ELSE wire
  /\ room' = [room EXCEPT ![a] = [aged EXCEPT !.txTtl = IF due THEN 0 ELSE @ + 1]]
  /\ silenced' = [silenced EXCEPT ![a] =
       @ \cup {<<s, room[a].clients[s].devid, room[a].clients[s].peer>> : s \in QuietSlots(a)}]
  /\ UNCHANGED <<link, guest>>

HostSilentThoughListed(a) == TooQuiet(guest[a]) /\ peers[a][guest[a].host].ttl > 0
HostSilent(a) == TooQuiet(guest[a])

ClientFrame(a) ==
  /\ link[a] = "Client"
  /\ IF HostSilent(a)
     THEN /\ link' = [link EXCEPT ![a] = "Idle"]
          /\ guest' = [guest EXCEPT ![a] = NoGuest]
     ELSE /\ guest' = [guest EXCEPT ![a].ttl = OneMore(@)]
          /\ UNCHANGED link
  /\ UNCHANGED <<room, wire, silenced>>

OtherFrame(a) ==
  /\ link[a] \in {"Idle", "Connecting"}
  /\ UNCHANGED <<link, room, guest, wire, silenced>>

FrameUpdate(a) ==
  /\ awake[a]
  /\ peers' = [peers EXCEPT ![a] = [b \in Adapters |-> Older(@[b])]]
  /\ HostFrame(a) \/ ClientFrame(a) \/ OtherFrame(a)
  /\ UNCHANGED <<awake, commands, resets, tx, loaded>>

-----------------------------------------------------------------------------
(* net_receive: a packet from b reaches a.                                     *)

(* Anything at all from a client's host proves it alive.                      *)
Fed(a, b) ==
  IF link[a] = "Client" /\ guest[a].host = b THEN [guest EXCEPT ![a].ttl = 0] ELSE guest

Receive(a, b, type) ==
  /\ wire[b][a] # << >>
  /\ Head(wire[b][a]).type = type
  /\ UNCHANGED <<awake, commands, resets, tx, loaded, silenced>>
Delivered(a, b, replies) ==
  [wire EXCEPT ![b][a] = Tail(@), ![a][b] = @ \o replies]
Packet(a, b) == Head(wire[b][a])

HearBroadcast(a, b) ==
  /\ Receive(a, b, "announce")
  /\ peers' = [peers EXCEPT ![a][b] = [devid |-> Packet(a, b).devid, ttl |-> PeerTtl]]
  /\ guest' = Fed(a, b)
  /\ wire' = Delivered(a, b, << >>)
  /\ UNCHANGED <<link, room>>

FreeSlots(a) == Slots \ Taken(a)
FirstFree(a) == CHOOSE s \in FreeSlots(a) : \A t \in FreeSlots(a) : s <= t
NeverAMember(a, b) == FALSE
AlreadyMember(a, b) == SlotsOf(a, b) # {}

HearConnectReq(a, b) ==
  LET id == NewDevId(a, commands[a])
      s == FirstFree(a) IN
  /\ Receive(a, b, "request")
  /\ CASE link[a] = "Host" /\ AlreadyMember(a, b) ->
            wire' = Delivered(a, b, << >>) /\ UNCHANGED room
       [] link[a] = "Host" /\ ~AlreadyMember(a, b) /\ FreeSlots(a) # {} ->
            /\ room' = [room EXCEPT ![a].clients[s] = [devid |-> id, peer |-> b, ttl |-> 0]]
            /\ wire' = Delivered(a, b, << [type |-> "ack", devid |-> id, slot |-> s] >>)
       [] OTHER ->
            wire' = Delivered(a, b, << [type |-> "nack"] >>) /\ UNCHANGED room
  /\ guest' = Fed(a, b)
  /\ UNCHANGED <<link, peers>>

HearConnectAck(a, b) ==
  /\ Receive(a, b, "ack")
  /\ IF link[a] = "Connecting"
     THEN /\ guest' = [guest EXCEPT ![a] = [devid |-> Packet(a, b).devid, slot |-> Packet(a, b).slot,
                                            host |-> b, ttl |-> 0, inbox |-> << >>]]
          /\ link' = [link EXCEPT ![a] = "Client"]
     ELSE guest' = Fed(a, b) /\ UNCHANGED link
  /\ wire' = Delivered(a, b, << >>)
  /\ UNCHANGED <<room, peers>>

HearConnectNack(a, b) ==
  /\ Receive(a, b, "nack")
  /\ link' = IF link[a] = "Connecting" THEN [link EXCEPT ![a] = "Idle"] ELSE link
  /\ guest' = Fed(a, b)
  /\ wire' = Delivered(a, b, << >>)
  /\ UNCHANGED <<room, peers>>

HearDisconnect(a, b) ==
  /\ Receive(a, b, "disconnect")
  /\ IF link[a] = "Client" /\ guest[a].host = b
     THEN /\ link' = [link EXCEPT ![a] = "Idle"]
          /\ guest' = [guest EXCEPT ![a] = NoGuest]
          /\ UNCHANGED room
     ELSE /\ room' = IF link[a] = "Host"
                     THEN [room EXCEPT ![a] = Evicted(@, SlotsOf(a, b))] ELSE room
          /\ UNCHANGED <<link, guest>>
  /\ wire' = Delivered(a, b, << >>)
  /\ UNCHANGED <<peers>>

Queued(q, block) == IF Len(q) >= QueueDepth THEN q ELSE Append(q, block)

(* A client acknowledges a host's block first, whoever sent it, and queues it  *)
(* if there is room.                                                           *)
HearHostSend(a, b) ==
  LET ack == [type |-> "clientAck", devid |-> guest[a].devid, slot |-> guest[a].slot] IN
  /\ Receive(a, b, "hostSend")
  /\ IF link[a] = "Client"
     THEN /\ wire' = Delivered(a, b, << ack >>)
          /\ guest' = [Fed(a, b) EXCEPT ![a].inbox = Queued(@, Packet(a, b).block)]
     ELSE wire' = Delivered(a, b, << >>) /\ UNCHANGED guest
  /\ UNCHANGED <<link, room, peers>>

(* A packet counts for the slot it names only under the id that slot has.     *)
Vouched(a, packet) ==
  /\ link[a] = "Host"
  /\ room[a].clients[packet.slot].devid = packet.devid

HearClientSend(a, b) ==
  LET p == Packet(a, b) IN
  /\ Receive(a, b, "clientSend")
  /\ room' = IF Vouched(a, p)
             THEN [room EXCEPT ![a].clients[p.slot].ttl = 0,
                               ![a].inbox[p.slot] = Queued(@, p.block)]
             ELSE room
  /\ guest' = Fed(a, b)
  /\ wire' = Delivered(a, b, << >>)
  /\ UNCHANGED <<link, peers>>

HearClientAck(a, b) ==
  LET p == Packet(a, b) IN
  /\ Receive(a, b, "clientAck")
  /\ room' = IF Vouched(a, p) THEN [room EXCEPT ![a].clients[p.slot].ttl = 0] ELSE room
  /\ guest' = Fed(a, b)
  /\ wire' = Delivered(a, b, << >>)
  /\ UNCHANGED <<link, peers>>

NetReceive(a, b) ==
  \/ HearBroadcast(a, b) \/ HearConnectReq(a, b) \/ HearConnectAck(a, b)
  \/ HearConnectNack(a, b) \/ HearDisconnect(a, b) \/ HearHostSend(a, b)
  \/ HearClientSend(a, b) \/ HearClientAck(a, b)

Next ==
  \E a \in Adapters :
    \/ Command(a) \/ Reset(a) \/ Handshake(a) \/ FrameUpdate(a)
    \/ \E b \in Others(a) : NetReceive(a, b)

Spec == Init /\ [][Next]_vars

(* Every front end runs its frames, hands over what arrived, and every game    *)
(* brings an adapter it power-cycled back up.                                  *)
FairSpec ==
  /\ Spec
  /\ \A a \in Adapters : WF_vars(FrameUpdate(a)) /\ WF_vars(Handshake(a))
  /\ \A a \in Adapters : \A b \in Others(a) : WF_vars(NetReceive(a, b))

-----------------------------------------------------------------------------
Blocks == [src : Adapters, n : 0 .. MaxBlocks, len : Lengths \cup {0}]
Queues == {q \in Seq(Blocks) : Len(q) <= QueueDepth}
Clients == {Free} \cup [devid : DevIds, peer : Adapters, ttl : 0 .. ClientTtl - 1]
Rooms == [devid : DevIds \cup {NoId}, clients : [Slots -> Clients],
          inbox : [Slots -> Queues], txTtl : 0 .. AnnounceFrames]
Guests == [devid : DevIds \cup {NoId}, slot : Slots, host : Adapters \cup {Nobody},
           ttl : 0 .. ClientTtl - 1, inbox : Queues]
Packets ==
  [type : {"request", "nack", "disconnect"}]
  \cup [type : {"announce"}, devid : DevIds]
  \cup [type : {"ack", "clientAck"}, devid : DevIds, slot : Slots]
  \cup [type : {"hostSend"}, block : Blocks]
  \cup [type : {"clientSend"}, devid : DevIds, slot : Slots, block : Blocks]

(* Type invariant.                                                             *)
TypeOK ==
  /\ awake \in [Adapters -> BOOLEAN]
  /\ link \in [Adapters -> {"Idle", "Host", "Connecting", "Client"}]
  /\ commands \in [Adapters -> Nat]
  /\ \A a \in Adapters : commands[a] <= MaxCommands[a]
  /\ resets \in [Adapters -> 0 .. MaxResets]
  /\ room \in [Adapters -> Rooms]
  /\ \A a \in Adapters : (link[a] = "Host") => room[a].devid \in DevIds
  /\ guest \in [Adapters -> Guests]
  /\ \A a \in Adapters :
       (link[a] = "Client") => guest[a].host \in Others(a) /\ guest[a].devid \in DevIds
  /\ peers \in [Adapters -> [Adapters -> {Unheard} \cup [devid : DevIds, ttl : 1 .. PeerTtl]]]
  /\ tx \in [Adapters -> Blocks]
  /\ loaded \in [Adapters -> 0 .. MaxBlocks]
  /\ wire \in [Adapters -> [Adapters -> Seq(Packets)]]
  /\ silenced \in [Adapters -> SUBSET Grants]

(* A room gives a peer one slot at most, however often it asks.               *)
OneSlotEach == \A a, b \in Adapters : Cardinality(SlotsOf(a, b)) <= 1

(* Blocks wait only for a slot that is taken in a room that is open: nothing a *)
(* departed client sent is left over for whoever takes its slot next.          *)
NothingLeftBehind ==
  \A a \in Adapters : \A s \in Slots :
    room[a].inbox[s] # << >> => link[a] = "Host" /\ s \in Taken(a)

(* Both: a room's slots and queues belong to one peer each, who is in it.     *)
SlotsAreOwned == OneSlotEach /\ NothingLeftBehind

(* A client that believes itself attached is right, or its farewell is on the  *)
(* way, or the room took the slot back because it heard nothing.               *)
Seated(h, c, s, id) ==
  /\ link[h] = "Host"
  /\ room[h].clients[s].devid = id
  /\ room[h].clients[s].peer = c
Backed(c) ==
  link[c] = "Client" =>
    LET h == guest[c].host IN
    \/ Seated(h, c, guest[c].slot, guest[c].devid)
    \/ \E i \in 1 .. Len(wire[h][c]) : wire[h][c][i] = Bye
    \/ <<guest[c].slot, guest[c].devid, c>> \in silenced[h]
AttachedIsBacked == \A c \in Adapters : Backed(c)

(* rfu.rs: "The slot is validated against the device id we handed out, so a    *)
(* stale or forged packet cannot write into the queue of a different client."  *)
NoStrangerInQueue ==
  \A a \in Adapters : \A s \in Taken(a) : \A i \in 1 .. Len(room[a].inbox[s]) :
    room[a].inbox[s][i].src = room[a].clients[s].peer

(* A slot whose owner is not attached does not stay taken: its owner becomes   *)
(* attached, leaves, or its silence frees the slot (rfu.rs 1245-1259).         *)
Orphan(h, c) == SlotsOf(h, c) # {} /\ ~(link[c] = "Client" /\ guest[c].host = h)
OrphanFreed == \A h \in Hosts : \A c \in Others(h) : Orphan(h, c) ~> ~Orphan(h, c)

(* A client does not stay attached to a device that has no room any more: it   *)
(* is told, or nothing feeds its watchdog (rfu.rs 1260-1267).                  *)
InDeadRoom(c) == link[c] = "Client" /\ link[guest[c].host] # "Host"
LeavesDeadRoom == \A c \in Adapters : InDeadRoom(c) ~> ~InDeadRoom(c)

(* Both: a slot does not outlast its owner's attachment, nor an attachment the *)
(* room.  Nothing is said of a client whose slot was freed while the room goes *)
(* on: each announcement feeds its watchdog (rfu.rs 1281-1283) and it stays    *)
(* attached until it leaves, as the test of rfu.rs 2092 calls correct.         *)
HalfOpenEnds == OrphanFreed /\ LeavesDeadRoom
=============================================================================
