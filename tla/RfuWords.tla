------------------------------ MODULE RfuWords ------------------------------
(***************************************************************************)
(* The conversation between a game and its wireless adapter, word by word  *)
(* (gba-core/src/rfu.rs: transfer, run_command, step) over the serial port *)
(* in Normal mode (gba-core/src/memory.rs: io_write, sio_transfer,         *)
(* step_serial).  The game clocks a command and its payload in and the     *)
(* answer out, until a command hands the clock over: then the adapter says *)
(* what happened, once the game has made itself a slave and listens.       *)
(*                                                                         *)
(* RfuAdapter is what the adapters say to each other; here it is the air:  *)
(* a guest comes or goes, a room opens or closes, a block arrives.         *)
(* Time is counted in scanlines, scaled: FrameLines of them are a frame of *)
(* the adapter, RoundLines a retransmission, WordLines a word at the       *)
(* port's speed.  Only one word of a block, of the 23, is kept.            *)
(***************************************************************************)
EXTENDS Naturals, Sequences

CONSTANTS
  FrameLines, RoundLines, WordLines,
  DefTimeout, DefRtx,       \* DEF_TIMEOUT_FRAMES, DEF_RTX_MAX
  Issued,                   \* commands the game issues: a name, a number of words
  Settings,                 \* what it configures with SYSCFG: frames, rounds
  Arriving,                   \* what arrives
  BufWords,                 \* of MAX_CMD words
  MaxCommands, MaxAir, MaxResets    \* bounds: commands, what happens on the air, power cycles

ASSUME WordsAssumption ==
  /\ FrameLines \in Nat /\ RoundLines \in Nat /\ WordLines \in Nat \ {0}
  /\ DefTimeout \in Nat /\ DefRtx \in Nat
  /\ Issued \subseteq STRING \X Nat
  /\ \A i \in Issued : i[1] = "syscfg" => i[2] > 0       \* it configures something
  /\ Settings \subseteq STRING \X Nat \X Nat
  \* A block, and an event, are no longer than the buffer.
  /\ BufWords \in Nat /\ BufWords >= 3
  /\ \A b \in Arriving : b \in Seq(Seq(STRING)) /\ Len(b) < BufWords

VARIABLES
  com, cmd, len, pos, buf,          \* as Rfu's
  link, guest, inbox,               \* Link; a slot taken; what there is to collect
  timeout, rtxMax, timeoutLeft, respLeft,
  port,                             \* SIOCNT's bits, what a word still takes, SIODATA32 till it is read
  due, inPlace,                     \* history: words to come, and whether each that came was due
  talkedOver,                       \* history: a word of the game's was talked over since its last command
  told, wait,                       \* history: the configuration; the wait under way
  commands, airs, resets
adaptervars == <<com, cmd, len, pos, buf, link, guest, inbox, timeout, rtxMax, timeoutLeft, respLeft,
           port, due, inPlace, talkedOver, told, wait, commands, airs, resets>>

Idle == <<"idle">>
Zero == <<"zero">>
Ones == <<"ones">>           \* what an idle line reads
Hello == <<"hello">>
Done == <<"done">>
Firmware == <<"firmware">>
CommandWord(c, n) == <<"command", c, n>>
IsCommandWord(w) == w[1] = "command"
Ack(c, n) == <<"ack", c, n>>
Error == <<"error">>
Event(kind, n) == <<"event", kind, n>>
Length(n) == <<"length", n>>

HandsOver == {"wait", "rtx", "sendw"}
Repeat(w, n) == [k \in 1..n |-> w]
Bounded(n, most) == IF n < most THEN n ELSE most

-----------------------------------------------------------------------------
(* The commands, as far as the words of an answer go *)

\* Commands the adapter refuses where it is, with n words of payload.
Refused(c, n) ==
  \/ c = "hoststart" /\ link = "client"
  \/ c \in {"hoststop", "hostaccept"} /\ link = "idle"
  \/ c = "sendw" /\ n # 0 /\ link \notin {"host", "client"}
  \/ c = "rtx" /\ link \notin {"host", "client"}
  \/ c \in {"connect", "isconnected", "concompl"} /\ link = "host"

Available == inbox # <<>> /\ (link = "client" \/ (link = "host" /\ guest))
\* An empty block is answered with its length and stays where it is.
Answered(c) ==
  CASE c = "sysver" -> <<Firmware>>
    [] c = "recv" /\ Available -> <<Length(Len(Head(inbox)))>> \o Head(inbox)
    [] c = "recv" /\ link \in {"client", "host"} /\ ~Available -> <<Length(0)>>
    [] c \in {"sysstat", "linkpwr", "isconnected", "concompl"} -> << <<c, link, guest>> >>
    [] c = "slotstat" /\ link = "host" -> IF guest THEN << <<"1">>, <<"slot">> >> ELSE << <<"0">> >>
    [] c = "hostaccept" /\ guest -> << <<"slot">> >>
    [] OTHER -> <<>>

\* What a command does, whose payload is `in`; the answer is written over it.
\* A host's DISCONNECT names no guest here: RfuAdapter has the guests.
Over(in, out) == [k \in 1..BufWords |-> IF k <= Len(out) THEN out[k] ELSE in[k]]
Effect(c, in) ==
  /\ link' \in CASE c = "hoststart" /\ link = "idle" -> {"host"}
                 [] c = "hoststop" /\ link = "host" /\ ~guest -> {"idle"}
                 [] c = "connect" -> {"connecting", link}     \* a room it has heard of, or not
                 [] c = "concompl" /\ link # "client" -> {"idle"}
                 [] c = "disconnect" /\ link = "client" -> {"idle"}
                 [] OTHER -> {link}
  /\ inbox' = CASE c = "recv" /\ Available /\ Head(inbox) # <<>> -> Tail(inbox)
                [] c = "disconnect" /\ link = "client" -> <<>>
                [] OTHER -> inbox
  /\ IF c = "syscfg" THEN timeout' = in[1][2] /\ rtxMax' = in[1][3] ELSE UNCHANGED <<timeout, rtxMax>>
  /\ told' = IF c = "syscfg" THEN in[1][2] ELSE told

\* mutant: the length of the payload is kept for the answer's
RunKeepingLength(c, n, in) ==
  IF Refused(c, n)
  THEN /\ com' = "resperr" /\ cmd' = "1" /\ len' = 1 /\ buf' = in
       /\ UNCHANGED <<link, inbox, timeout, rtxMax, told>>
  ELSE /\ com' = "respcmd" /\ cmd' = c /\ len' = n
       /\ buf' = Over(in, Answered(c))
       /\ Effect(c, in)
Run(c, n, in) ==
  IF Refused(c, n)
  THEN /\ com' = "resperr" /\ cmd' = "1" /\ len' = 1 /\ buf' = in
       /\ UNCHANGED <<link, inbox, timeout, rtxMax, told>>
  ELSE /\ com' = "respcmd" /\ cmd' = c /\ len' = Len(Answered(c))
       /\ buf' = Over(in, Answered(c))
       /\ Effect(c, in)

\* The words the game has coming once a command has run.
Promised(c, n) == IF Refused(c, n) THEN <<Error, <<"1">>>> ELSE <<Ack(c, Len(Answered(c)))>> \o Answered(c)

-----------------------------------------------------------------------------
(* A word clocked by the game *)

NotWaiting == [since |-> 0, listened |-> 0, ended |-> "not"]
SessionKept == UNCHANGED <<link, inbox, timeout, rtxMax, told>>
NothingElse == UNCHANGED <<cmd, len, pos, buf, commands, talkedOver>> /\ SessionKept
NoWait == UNCHANGED <<timeoutLeft, respLeft, wait>>
\* What was due to a game that was talked over is given up with its next command.
Owed == IF talkedOver THEN <<>> ELSE due

Wakes(sent) ==
  /\ com = "reset"
  /\ com' = IF sent = Hello THEN "handshake" ELSE com
  /\ due' = due \o <<Zero>> /\ NothingElse /\ NoWait
Shakes(sent) ==
  /\ com = "handshake"
  /\ com' = IF sent = Done THEN "waitcmd" ELSE com
  /\ due' = due \o << <<"echo">> >> /\ NothingElse /\ NoWait
Ignores(sent) ==
  /\ com = "waitcmd" /\ ~IsCommandWord(sent)
  /\ due' = due \o <<Idle>>
  /\ UNCHANGED com /\ NothingElse /\ NoWait
TakesCommand(sent) ==
  /\ com = "waitcmd" /\ IsCommandWord(sent)
  /\ commands < MaxCommands /\ commands' = commands + 1
  /\ pos' = 0
  /\ IF sent[3] = 0
     THEN Run(sent[2], 0, buf) /\ due' = Owed \o <<Idle>> \o Promised(sent[2], 0)
     ELSE /\ com' = "waitdat" /\ cmd' = sent[2] /\ len' = sent[3] /\ due' = Owed \o <<Idle>>
          /\ UNCHANGED buf /\ SessionKept
  /\ talkedOver' = FALSE
  /\ NoWait
TakesPayload(sent) ==
  LET in == [buf EXCEPT ![pos + 1] = sent]
  IN  /\ com = "waitdat"
      /\ IF pos + 1 >= len
         THEN pos' = 0 /\ Run(cmd, len, in) /\ due' = due \o <<Idle>> \o Promised(cmd, len)
         ELSE /\ pos' = pos + 1 /\ buf' = in /\ due' = due \o <<Idle>>
              /\ UNCHANGED <<com, cmd, len>> /\ SessionKept
      /\ UNCHANGED <<commands, talkedOver>> /\ NoWait
Acks ==
  /\ com = "respcmd"
  /\ IF cmd \in HandsOver
     THEN /\ com' = "waitevent"
          /\ timeoutLeft' = timeout * FrameLines /\ respLeft' = rtxMax * RoundLines
          /\ wait' = NotWaiting
     ELSE com' = (IF len > 0 THEN "respdat" ELSE "waitcmd") /\ NoWait
  /\ UNCHANGED due /\ NothingElse
Responds ==
  /\ com = "respdat"
  /\ com' = IF pos + 1 >= len THEN "waitcmd" ELSE com
  /\ pos' = pos + 1
  /\ UNCHANGED <<cmd, len, buf, commands, due, talkedOver>> /\ SessionKept /\ NoWait
Refuses ==
  /\ com \in {"resperr", "resperr2"}
  /\ com' = IF com = "resperr" THEN "resperr2" ELSE "waitcmd"
  /\ UNCHANGED due /\ NothingElse /\ NoWait
\* Both ends are at the clock: nothing is said.
Collides ==
  /\ com \in {"waitevent", "waitresp"}
  /\ due' = <<Idle>> \o due
  /\ UNCHANGED com /\ NothingElse /\ NoWait

ReplyWord ==
  CASE com = "reset" -> Zero
    [] com = "handshake" -> <<"echo">>
    [] com = "respcmd" -> Ack(cmd, len)
    [] com = "respdat" -> buf[pos + 1]
    [] com = "resperr" -> Error
    [] com = "resperr2" -> <<cmd>>
    [] OTHER -> Idle
Exchange(sent) ==
  Wakes(sent) \/ Shakes(sent) \/ Ignores(sent) \/ TakesCommand(sent) \/ TakesPayload(sent)
  \/ Acks \/ Responds \/ Refuses \/ Collides

-----------------------------------------------------------------------------
(* The serial port *)

\* What a game says where it is in the conversation, Zero where it is not listened to.
Said ==
  CASE com = "reset" -> {Hello, Zero}
    [] com = "handshake" -> {Done, Zero}
    [] com = "waitdat" -> IF cmd = "syscfg" THEN Settings ELSE { <<"word">> }
    [] com = "waitcmd" -> {CommandWord(i[1], i[2]) : i \in Issued} \cup {Zero}
    [] OTHER -> {Zero}

Rose(so) == so /\ ~port.so
Fell(so) == ~so /\ port.so
\* A master is answered that the adapter is ready; a slave's SO is followed.
Si(master, so) ==
  CASE master /\ Rose(so) -> FALSE
    [] ~master /\ Rose(so) -> TRUE
    [] ~master /\ Fell(so) -> FALSE
    [] OTHER -> port.si
Rest == UNCHANGED <<com, cmd, len, pos, buf, link, inbox, timeout, rtxMax, timeoutLeft, respLeft,
                    talkedOver, told, wait, commands>>
\* The game takes the word w, of those due to it; one that was talked over is out of step.
Hears(w, among) ==
  /\ inPlace' = (inPlace /\ (talkedOver' \/ (among # <<>> /\ w = Head(among))))
  /\ due' = IF among = <<>> THEN <<>> ELSE Tail(among)

\* SIOCNT, and the word the game has left in SIODATA32.  It lets a word finish,
\* and takes it for finished when its start bit is clear again.  A word started
\* while the last one is still paced never reaches the adapter.
StoreControl == \E master \in BOOLEAN, so \in BOOLEAN, start \in BOOLEAN :
  LET set == [port EXCEPT !.master = master, !.so = so, !.si = Si(master, so), !.start = start]
      clocks == start /\ master
  IN  /\ start => port.pending = 0 \/ (talkedOver /\ ~port.start)
      /\ \/ /\ clocks /\ port.pending = 0
            /\ \E sent \in Said : Exchange(sent)
            /\ port' = [set EXCEPT !.data = ReplyWord, !.pending = WordLines]
            /\ UNCHANGED inPlace
         \/ /\ clocks /\ port.pending # 0
            /\ port' = [set EXCEPT !.start = FALSE, !.si = TRUE, !.data = Ones]
            /\ Rest /\ Hears(Ones, due)
         \/ ~clocks /\ port' = set /\ Rest /\ UNCHANGED <<due, inPlace>>
      /\ UNCHANGED <<guest, airs, resets>>

\* mutant: the times to wait are cleared with the rest
ResetPulseZeroing ==
  /\ resets < MaxResets /\ resets' = resets + 1 /\ port.pending = 0
  /\ com' = "reset" /\ cmd' = "0" /\ len' = 0 /\ pos' = 0 /\ buf' = Repeat(Zero, BufWords)
  /\ link' = "idle" /\ guest' = FALSE /\ inbox' = <<>>
  /\ timeout' = 0 /\ rtxMax' = 0 /\ timeoutLeft' = 0 /\ respLeft' = 0
  /\ due' = <<>> /\ talkedOver' = FALSE /\ told' = DefTimeout /\ wait' = NotWaiting
  /\ UNCHANGED <<port, inPlace, commands, airs>>
\* RCNT's SD goes high: the adapter is powered off and on, between two words.
ResetPulse ==
  /\ resets < MaxResets /\ resets' = resets + 1 /\ port.pending = 0
  /\ com' = "reset" /\ cmd' = "0" /\ len' = 0 /\ pos' = 0 /\ buf' = Repeat(Zero, BufWords)
  /\ link' = "idle" /\ guest' = FALSE /\ inbox' = <<>>
  /\ timeout' = DefTimeout /\ rtxMax' = DefRtx /\ timeoutLeft' = 0 /\ respLeft' = 0
  /\ due' = <<>> /\ talkedOver' = FALSE /\ told' = DefTimeout /\ wait' = NotWaiting
  /\ UNCHANGED <<port, inPlace, commands, airs>>

\* What the adapter has to say to a slave, with its timers at t and r.
Happened(t, r) ==
  CASE link = "idle" -> "gone"
    [] link # "idle" /\ Available -> "data"
    [] link = "host" /\ ~Available /\ r = 0 -> "round"
    [] ~Available /\ ~(link = "host" /\ r = 0) /\ link # "idle" /\ t = 0 -> "timeout"
    [] OTHER -> "nothing"
Says(kind) ==
  CASE kind = "gone" -> <<Event("disconnected", 1), <<"slots">>, Idle>>
    [] kind = "data" -> <<Event("data", 0), Idle>>
    [] kind = "round" -> <<Event("data", 1), <<"unanswered">>, Idle>>
    [] kind = "timeout" -> <<Event("timeout", 0), Idle>>
Less(n) == IF n = 0 THEN 0 ELSE n - 1
Horizon == DefTimeout * FrameLines + 1    \* bound: lines a wait is measured for

\* step_serial: a word ends, and an adapter that holds the clock is stepped.
Finishes == port.pending = 1
Landed == IF port.pending = 0 THEN port
          ELSE IF Finishes THEN [port EXCEPT !.pending = 0, !.start = FALSE, !.si = TRUE, !.data = Zero]
          ELSE [port EXCEPT !.pending = @ - 1]
Hearing(p) == ~p.so /\ ~p.si /\ p.start      \* so_si_clear and armed
Listens(p) == ~p.master /\ Hearing(p)
StepSerial ==
  LET p    == Landed
      t    == Less(timeoutLeft)
      r    == Less(respLeft)
      kind == IF com = "waitevent" /\ ~p.master THEN Happened(t, r) ELSE "nothing"
      says == Says(kind)
      out  == IF kind = "nothing" THEN buf ELSE Over(buf, says)
      at   == IF kind = "nothing" THEN pos ELSE 0
      upto == IF kind = "nothing" THEN len ELSE Len(says)
      push == (com = "waitresp" \/ kind # "nothing") /\ Hearing(p)
      left == IF kind = "nothing" THEN due ELSE due \o says
  IN  /\ IF com = "waitevent" THEN timeoutLeft' = t /\ respLeft' = r ELSE UNCHANGED <<timeoutLeft, respLeft>>
      /\ buf' = out /\ len' = upto
      /\ com' = CASE push /\ at + 1 >= upto -> "waitcmd"
                  [] ~(push /\ at + 1 >= upto) /\ kind # "nothing" -> "waitresp"
                  [] OTHER -> com
      /\ pos' = IF push THEN at + 1 ELSE at
      \* The word pushed lands in SIODATA32; one that was being clocked there is paced to its end.
      /\ port' = IF push THEN [p EXCEPT !.start = FALSE, !.data = IF p.pending = 0 THEN @ ELSE out[at + 1]]
                 ELSE p
      /\ talkedOver' = (talkedOver \/ (push /\ p.master))
      /\ CASE push -> Hears(out[at + 1], left)
           [] ~push /\ Finishes -> Hears(port.data, left)
           [] OTHER -> due' = left /\ UNCHANGED inPlace
      /\ wait' = IF com # "waitevent" THEN (IF com' = "waitcmd" THEN NotWaiting ELSE wait)
                 ELSE [since |-> Bounded(wait.since + 1, Horizon),
                       listened |-> IF Listens(p) /\ ~push THEN wait.listened + 1 ELSE 0,
                       ended |-> IF kind = "nothing" THEN "not" ELSE kind]
      /\ UNCHANGED <<cmd, link, guest, inbox, timeout, rtxMax, told, commands, airs, resets>>

-----------------------------------------------------------------------------
(* The air *)

Air == airs < MaxAir /\ airs' = airs + 1
Untouched == UNCHANGED <<com, cmd, len, pos, buf, timeout, rtxMax, timeoutLeft, respLeft, port,
                         due, inPlace, talkedOver, told, wait, commands, resets>>
\* A guest is let in; this end is, or is not, let in elsewhere.
Joins ==
  /\ \/ link = "host" /\ guest' = TRUE /\ UNCHANGED link
     \/ link = "connecting" /\ link' \in {"client", "idle"} /\ UNCHANGED guest
  /\ ~guest /\ inbox' = <<>> /\ Air /\ Untouched
\* A guest leaves or is dropped; the host does, or falls silent.
Parts ==
  /\ \/ link = "host" /\ guest /\ guest' = FALSE /\ UNCHANGED link
     \/ link = "client" /\ link' = "idle" /\ UNCHANGED guest
  /\ inbox' = <<>> /\ Air /\ Untouched
Arrives == \E b \in Arriving :
  /\ link = "client" \/ (link = "host" /\ guest)
  /\ inbox' = Append(inbox, b)
  /\ UNCHANGED <<link, guest>> /\ Air /\ Untouched

WordsInit ==
  /\ com = "reset" /\ cmd = "0" /\ len = 0 /\ pos = 0 /\ buf = Repeat(Zero, BufWords)
  /\ link = "idle" /\ guest = FALSE /\ inbox = <<>>
  /\ timeout = DefTimeout /\ rtxMax = DefRtx /\ timeoutLeft = 0 /\ respLeft = 0
  /\ port = [master |-> FALSE, so |-> FALSE, si |-> FALSE, start |-> FALSE, data |-> Zero, pending |-> 0]
  /\ due = <<>> /\ inPlace = TRUE /\ talkedOver = FALSE
  /\ told = DefTimeout /\ wait = NotWaiting
  /\ commands = 0 /\ airs = 0 /\ resets = 0
WordsNext == StoreControl \/ ResetPulse \/ StepSerial \/ Joins \/ Parts \/ Arrives
WordsSpec == WordsInit /\ [][WordsNext]_adaptervars

-----------------------------------------------------------------------------
(* Properties *)

\* Every word the game takes from the port is the one its place in the
\* conversation calls for: idle while it says a command, then the answer that
\* command has at that moment, its announced length and nothing of what lay in
\* the buffer, then, when it has given the clock away, what happened, whatever the
\* air does in between (rfu.rs 617-700, 1513-1542).  A game whose own word the
\* adapter talked over is out of step: nothing is said of what it takes until its
\* next command, which the adapter hears and answers in place again.
RepliesInPlace == inPlace

\* A game that listens hears from its adapter before the time it configured is
\* out, and is told of a timeout no earlier (rfu.rs 105-110, 1497-1538).
WaitIsKept ==
  /\ wait.listened = 0 \/ wait.listened < told * FrameLines
  /\ wait.ended = "timeout" => wait.since >= Bounded(told * FrameLines, Horizon)

\* Both: nothing the adapter says is out of its place or out of its time.
AdapterAnswers == RepliesInPlace /\ WaitIsKept

\* "The adapter will not talk over a game that still believes it is master, which
\* is what the first of those three guards" (rfu.rs 1481-1484): no word of what
\* happened is pushed at a game that is at the clock.  The guard stands before
\* what happened is looked for (rfu.rs 1495), not before a word is pushed
\* (rfu.rs 1534), so a game that turns master while it is being told is talked over.
NeverTalkedOver == ~talkedOver
=============================================================================
