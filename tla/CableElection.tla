--------------------------- MODULE CableElection ---------------------------
(***************************************************************************)
(* Who is the parent: how two ends of a session elect their roles and go   *)
(* on believing in each other.  set_identity, say_hello, hello_tick, role  *)
(* and the hello half of on_packet (gba-core/src/cable.rs), with np_start, *)
(* np_receive, np_stop, cable_keepalive and cable_units of NetCable        *)
(* (gba-libretro/src/netpacket.rs).                                        *)
(*                                                                         *)
(* A session draws an identity and announces it; the end with the lower    *)
(* one is the parent.  Each end reports a second unit on the bus, so that  *)
(* its game will link, while it has a role and keeps hearing packets.      *)
(* Both builds speak the same wire version.                                *)
(***************************************************************************)
EXTENDS Integers, Sequences, Functions

CONSTANTS
  N,            \* identities are 1..N, 48 bits in the code; 0 is none
  Silent,       \* PEER_SILENT, in PING_EVERY: six
  FailuresMax,  \* FAILURES_BEFORE_OPEN_CIRCUIT
  HelloLoss,    \* may the wire lose an announcement, or nothing but pings?
  MaxSessions,  \* bound: sessions started, at both ends together
  MaxLosses,    \* bound: packets lost
  MaxGiveUps,   \* bound: exchanges a parent gives up on
  MaxOnWire     \* bound: packets on the wire to one end when its peer's
                \* frame adds to them

ASSUME ElectionAssumption ==
  /\ N \in Nat \ {0} /\ Silent \in Nat \ {0, 1} /\ FailuresMax \in Nat \ {0}
  /\ HelloLoss \in BOOLEAN
  /\ MaxSessions \in Nat /\ MaxLosses \in Nat /\ MaxGiveUps \in Nat /\ MaxOnWire \in Nat

End == {0, 1}
Other(e) == 1 - e

None == 0
Identity == 1..N

\* Packets: a hello carries an identity; anything else is only heard.
Ping == 0
Packet == {Ping} \cup Identity

VARIABLES
  active,     \* is a session live at each end
  identity,   \* outlives its session
  peer,       \* peer_identity
  ties,       \* election_ties, whether it counts any
  cableFailures, \* cable_failures, each end its own
  silence,    \* time since cable_heard_at
  quiet,      \* is it PING_EVERY since cable_spoke_at
  outbox,
  wire,       \* wire[e]: in flight to e
  framed,     \* has the end had its frame in this interval
  sessions,   \* bound: sessions started
  losses,     \* bound: packets lost
  giveUps     \* bound: exchanges given up

core == <<active, identity, peer, ties>>
liveness == <<cableFailures, silence, quiet>>
sessionvars == <<core, liveness, outbox, wire, framed, sessions, losses, giveUps>>

-----------------------------------------------------------------------------
\* role: 0 the parent, 1 the child.
Elected(e) == peer[e] \notin {None, identity[e]}
Role(e) == IF identity[e] > peer[e] THEN 1 ELSE 0

\* cable_units_at.
Units(e) ==
  IF active[e] /\ Elected(e) /\ cableFailures[e] < FailuresMax /\ silence[e] < Silent
  THEN 2 ELSE 1

\* The re-roll is a fixed permutation of the identities.
Reroll(i) == (i % N) + 1

\* A packet sent to an end without a session goes nowhere.
Send(e, w, packets) ==
  /\ wire' = IF active[Other(e)] THEN [w EXCEPT ![Other(e)] = @ \o packets] ELSE w
  /\ quiet' = IF packets = <<>> THEN quiet ELSE [quiet EXCEPT ![e] = FALSE]

-----------------------------------------------------------------------------
\* reset_cable: the identity survives, what the peer's was does not.
Reset(e) ==
  /\ peer' = [peer EXCEPT ![e] = None]
  /\ ties' = [ties EXCEPT ![e] = FALSE]
  /\ cableFailures' = [cableFailures EXCEPT ![e] = 0]
  /\ silence' = [silence EXCEPT ![e] = Silent]
  /\ quiet' = [quiet EXCEPT ![e] = TRUE]

\* The nonce comes from the clock in nanoseconds, so an end does not draw again
\* an identity it had; only those its peer may still hold matter.  It may well
\* draw the one its peer has.
Fresh(e) ==
  Identity \ ({identity[e], peer[Other(e)]} \cup Range(wire[Other(e)]))

\* np_start, for the first time or over a session that was live.  It may not
\* send: the hello waits for the next frame.
Start(e) ==
  /\ sessions < MaxSessions
  /\ sessions' = sessions + 1
  /\ active' = [active EXCEPT ![e] = TRUE]
  /\ Reset(e)
  /\ \E i \in Fresh(e) :
       /\ identity' = [identity EXCEPT ![e] = i]
       /\ outbox' = [outbox EXCEPT ![e] = <<i>>]
  /\ framed' = [framed EXCEPT ![e] = FALSE]
  /\ UNCHANGED <<wire, losses, giveUps>>

\* np_stop.  What was in flight to this end is discarded with its session.
Stop(e) ==
  /\ active[e]
  /\ active' = [active EXCEPT ![e] = FALSE]
  /\ Reset(e)
  /\ outbox' = [outbox EXCEPT ![e] = <<>>]
  /\ wire' = [wire EXCEPT ![e] = <<>>]
  /\ UNCHANGED <<identity, framed, sessions, losses, giveUps>>

\* cable_keepalive, once a frame: hello_tick, a ping if nothing was said
\* lately, whatever the role, and the outbox is put on the wire.
Asks(e) == IF peer[e] = None THEN <<identity[e]>> ELSE <<>>
PingsOfAParent(e) ==        \* mutant: only a parent keeps the link warm
  IF quiet[e] /\ Elected(e) /\ Role(e) = 0 THEN <<Ping>> ELSE <<>>
Pings(e) == IF quiet[e] THEN <<Ping>> ELSE <<>>

Frame(e) ==
  /\ active[e]
  /\ Len(wire[Other(e)]) < MaxOnWire
  /\ Send(e, wire, outbox[e] \o Asks(e) \o Pings(e))
  /\ outbox' = [outbox EXCEPT ![e] = <<>>]
  /\ framed' = [framed EXCEPT ![e] = TRUE]
  /\ UNCHANGED <<core, cableFailures, silence, sessions, losses, giveUps>>

\* on_packet, TAG_HELLO.  A tie moves this end's identity; an identity not
\* heard before is answered.
Tied(e) ==
  LET own == Reroll(identity[e])
  IN  /\ identity' = [identity EXCEPT ![e] = own]
      /\ peer' = [peer EXCEPT ![e] = None]
      /\ ties' = [ties EXCEPT ![e] = TRUE]
      /\ outbox' = [outbox EXCEPT ![e] = <<>>]
      /\ Send(e, [wire EXCEPT ![e] = Tail(@)], Append(outbox[e], own))

Answers(e, i) == IF peer[e] # i THEN <<identity[e]>> ELSE <<>>

ToldOnce(e, i) ==           \* mutant: the first identity heard is kept
  /\ peer' = [peer EXCEPT ![e] = IF @ = None THEN i ELSE @]
  /\ outbox' = [outbox EXCEPT ![e] = <<>>]
  /\ Send(e, [wire EXCEPT ![e] = Tail(@)], outbox[e] \o Answers(e, i))
  /\ UNCHANGED <<identity, ties>>
Told(e, i) ==
  /\ peer' = [peer EXCEPT ![e] = i]
  /\ outbox' = [outbox EXCEPT ![e] = <<>>]
  /\ Send(e, [wire EXCEPT ![e] = Tail(@)], outbox[e] \o Answers(e, i))
  /\ UNCHANGED <<identity, ties>>

Heard(e) ==
  /\ peer' = peer
  /\ outbox' = [outbox EXCEPT ![e] = <<>>]
  /\ Send(e, [wire EXCEPT ![e] = Tail(@)], outbox[e])
  /\ UNCHANGED <<identity, ties>>

\* np_receive: whatever it is, the peer is alive; what on_packet queued leaves
\* at once.
StillFailed(e) == cableFailures  \* mutant: only a reply closes the circuit again
Revived(e) == [cableFailures EXCEPT ![e] = 0]

Receive(e) ==
  /\ active[e] /\ wire[e] # <<>>
  /\ cableFailures' = Revived(e)
  /\ silence' = [silence EXCEPT ![e] = 0]
  /\ LET p == Head(wire[e])
     IN  \/ p = Ping /\ Heard(e)
         \/ p # Ping /\ p = identity[e] /\ Tied(e)
         \/ p # Ping /\ p # identity[e] /\ Told(e, p)
  /\ UNCHANGED <<active, framed, sessions, losses, giveUps>>

\* parent_result runs out of time: one more failure, and the peer is told.
GiveUp(e) ==
  /\ giveUps < MaxGiveUps
  /\ Units(e) = 2 /\ Role(e) = 0
  /\ giveUps' = giveUps + 1
  /\ cableFailures' = [cableFailures EXCEPT ![e] = @ + 1]
  /\ outbox' = [outbox EXCEPT ![e] = <<>>]
  /\ Send(e, wire, Append(outbox[e], Ping))
  /\ UNCHANGED <<core, silence, framed, sessions, losses>>

LosePacket(e) ==
  /\ losses < MaxLosses /\ wire[e] # <<>>
  /\ HelloLoss \/ Head(wire[e]) = Ping
  /\ losses' = losses + 1
  /\ wire' = [wire EXCEPT ![e] = Tail(@)]
  /\ UNCHANGED <<core, liveness, outbox, framed, sessions, giveUps>>

\* PING_EVERY goes by.  A live end has had a frame in it, and a packet takes
\* less: 250 ms against 17 and some 10.
Tick ==
  /\ \A e \in End : active[e] => framed[e] /\ wire[e] = <<>>
  /\ \E e \in End : active[e]
  /\ silence' = [e \in End |-> IF silence[e] < Silent THEN silence[e] + 1 ELSE Silent]
  /\ quiet' = [e \in End |-> TRUE]
  /\ framed' = [e \in End |-> FALSE]
  /\ UNCHANGED <<core, cableFailures, outbox, wire, sessions, losses, giveUps>>

-----------------------------------------------------------------------------
ElectionInit ==
  /\ active = [e \in End |-> FALSE]
  /\ identity = [e \in End |-> None]
  /\ peer = [e \in End |-> None]
  /\ ties = [e \in End |-> FALSE]
  /\ cableFailures = [e \in End |-> 0]
  /\ silence = [e \in End |-> Silent]
  /\ quiet = [e \in End |-> TRUE]
  /\ outbox = [e \in End |-> <<>>]
  /\ wire = [e \in End |-> <<>>]
  /\ framed = [e \in End |-> FALSE]
  /\ sessions = 0
  /\ losses = 0
  /\ giveUps = 0

ElectionNext ==
  \/ \E e \in End : Start(e) \/ Stop(e) \/ Frame(e) \/ Receive(e) \/ GiveUp(e) \/ LosePacket(e)
  \/ Tick

ElectionSpec == ElectionInit /\ [][ElectionNext]_sessionvars

\* The frontend calls retro_run, hands over what has arrived, and time
\* goes by.
FairElection ==
  /\ ElectionSpec
  /\ \A e \in End : WF_sessionvars(Frame(e)) /\ WF_sessionvars(Receive(e))
  /\ WF_sessionvars(Tick)

-----------------------------------------------------------------------------
ElectionTypeOK ==
  /\ active \in [End -> BOOLEAN]
  /\ identity \in [End -> 0..N] /\ peer \in [End -> 0..N]
  /\ ties \in [End -> BOOLEAN]
  /\ cableFailures \in [End -> 0..FailuresMax] /\ silence \in [End -> 0..Silent]
  /\ quiet \in [End -> BOOLEAN] /\ framed \in [End -> BOOLEAN]
  /\ outbox \in [End -> Seq(Packet)] /\ wire \in [End -> Seq(Packet)]
  /\ sessions \in 0..MaxSessions /\ losses \in 0..MaxLosses
  /\ giveUps \in 0..MaxGiveUps

Hellos(s) == \E i \in 1..Len(s) : s[i] # Ping

\* No announcement is on its way or still to be sent.
Settled ==
  /\ \A e \in End : active[e]
  /\ \A e \in End : ~Hellos(wire[e]) /\ ~Hellos(outbox[e])

\* Two live ends that both have a role, and nothing more to tell each other,
\* have one role each: "they cannot disagree" (cable.rs, role).  Sessions may
\* have been restarted at either end, at any time, and identities may have
\* collided.
RolesDiffer == Settled /\ Elected(0) /\ Elected(1) => Role(0) # Role(1)

\* Once the ends know each other both report two units, however long neither
\* game clocks a transfer: a quiet end is heard all the same (netpacket.rs,
\* cable_keepalive, "a deadlock made out of a timeout").
Knows(e) == peer[e] = identity[Other(e)] /\ Elected(e)
QuietLinkStaysUp ==
  \A e \in End :
    (\A x \in End : active[x] /\ Knows(x)) /\ cableFailures[e] < FailuresMax => Units(e) = 2

\* Two sessions that stay up, and drew different identities, end up linked,
\* also after the parent gave its peer up for dead.
SessionsLink ==
  <>[](\A e \in End : active[e] /\ ~ties[e]) => <>[](\A e \in End : Units(e) = 2)
=============================================================================
