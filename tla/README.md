# PocketRustAdvance in TLA+

PocketRustAdvance is a Game Boy Advance emulator: a core (`crates/gba-core`), a
libretro front end (`crates/gba-libretro`) and an offline runner
(`crates/gba-runner`). These modules model the parts of it where something can go
wrong that a test would hardly reach. There are two kinds.

Some depend on the order in which things happen: the two ways two emulators talk to
each other, a *link cable* and a *wireless adapter*, both carried over netplay between
two devices whose clocks, frames and packets are not synchronised; the chips of a
cartridge, which a game may abandon at any bit; the console's interrupts, timers and
DMA; a frame loop that skips what it takes to be idle.

The others are written twice, or in an order that is not the hardware's, for speed: a
picture drawn front to back with what is hidden left out, sound generated a line late,
two instruction sets that share a meaning, a BIOS that unpacks over its own input.
There the modules state what the hardware does and compare.

Line numbers below are those of the commit these modules were written from;
`PROJECT.json` maps every definition to its lines.

## The system

| Component | State | Operations | Talks to | Hard because |
|---|---|---|---|---|
| **Link cable, transfer** (`cable.rs` CableProto, `netpacket.rs` NetCable, `memory.rs` serial engine) | latched word, awaited sequence number, reply, consecutive failures; the child's `own_output`, `seen`, `last_reply`, `deferred`, `child_input`, the running transfer | `begin_exchange`, `on_packet`, `take_reply`, `abandon`, `parent_result` (blocks), `child_clock`, `advance`, `flush_pending`, stores to SIOCNT and SIOMLT_SEND | its peer by unreliable packets; the game through registers and an interrupt | packets lost, duplicated by retransmission, late; the game may store, leave the mode or start again at any point; the parent's core blocks |
| **Link cable, pacing** (`cable.rs` advance, credit, lead, hold, maybe_tick; the scanline loop of `lib.rs`) | positions in wrapping cycle counters, the anchor, what was last heard, spins of the hold loop | charge a scanline, credit a packet, hold, disengage, tick | both run loops | two unsynchronised clocks, each core able to wait for the other |
| **Link cable, session and election** (`netpacket.rs` np_start, np_stop, cable_keepalive; `cable.rs` hello_tick, role, TAG_HELLO) | identity, peer's identity, failures, time of the last packet | start, stop, announce, ping, resolve a collision, report units | its peer, the frontend | sessions begin and end at each device separately; symmetric protocol that must break symmetry |
| **Wireless adapter, session** (`rfu.rs` commands, frame_update, net_receive) | link state, room with slots and queues, client state, peers heard, transmit buffer | host, stop, connect, complete, disconnect, send, retransmit, receive, reset, frame, eight packet types | other adapters by packets; its game by commands | slots reused, packets in flight across membership changes, silence as the only failure detector |
| **Wireless adapter, port** (`rfu.rs` transfer, run_command, step; `memory.rs` SI/SO handshake) | command state, one buffer for request and response, timers, configuration | a word each way; the adapter taking the clock; the reset pulse | the serial registers; the air | the roles of master and slave reverse; a timeout, a round and an event race to answer one wait |
| **Serial registers** (`memory.rs` io_write, sio_transfer, step_serial) | SIOCNT, RCNT, data registers, pending cycles | stores, completion, interrupt | the cable, the adapter, the interrupt controller | read-only and driven bits, mode changes mid-transfer |
| **Cartridge clock** (`rtc.rs`) on the GPIO port (`sensor.rs`) | the byte being shifted and how far, command, bytes left, the edge last seen, control register, seven latched bytes, wall clock; data and direction registers | stores to data and direction, each of which clocks the chip; the front end sets the time every frame | the game by three wires; the front end | a serial protocol abandoned at any edge; a clock that moves while it is read |
| **Save chips** (`save.rs`) | a byte array; the flash's phase, bank and mode; the EEPROM's bits and read-out | byte and bit accesses, DMA lengths, save states | the bus, DMA (EEPROM) | multi-step protocols that a game, or a load, may abandon at any step |
| **Sensors and motor** (`sensor.rs`) | a gyro sample and the bit it is at; two tilt axes; whether the motor was seen | stores to the port, two-write conversions, a question a frame | the game; the front end moves the hand | a stream clocked out while its source moves |
| **Console: scanline loop, interrupts, HALT, timers, DMA** (`lib.rs`, `memory.rs`), **BIOS waits** (`cpu/hle.rs`) | the scanline; IE, IF, IME, `halted`, `in_intr_wait`, BIOS_IF; timer counters and dividers; DMA registers, what is latched of them, `dma_active`, `dma_pending` | begin a line, trigger, overflow, take an interrupt, wake; stores to every one of these registers; IntrWait, SoftReset | nearly everything | what is latched when; transfers that start transfers; waits re-executed across interrupts |
| **CPU** (`cpu/`) | registers and their banks, status registers, the two-slot pipeline | every ARM and Thumb instruction, exception entry, an interrupt | the bus | banked registers, the carry of the shifter, addresses that are two instructions on |
| **Idle-loop watch** (`jit/idle.rs`, the frame loop) | the loop looked for, what the registers held there last, instructions since | sample, prove, skip, retire, forget | the frame loop, the processor | work is skipped on evidence from the past |
| **HLE BIOS, calls that compute** (`cpu/hle.rs`) | none | division, roots, angles, copies, seven unpackers, RegisterRamReset | memory | overlaps, odd sizes, streams cut short |
| **PPU** (`ppu.rs`) | registers, video memory, affine references | begin a line, its H-blank, draw it; writes between | the scanline loop | drawn front to back and pruned; references latched at some lines and not at others |
| **APU** (`apu.rs`) with sound DMA (`memory.rs`) | four channels, two queues, mixer, clock; DMA sources | write, generate, refill, save, load | timers, DMA | a line behind the processor, and caught up when a stream is re-armed |
| **Translation groundwork, memory map, save-state format, front end, runner, tools** | | | | conversion and I/O |

What makes each of those modelled correct:

* *Transfer*: a transfer is an exchange. If it lands on the parent, its two words
  are the two words the child saw; neither end runs one twice; a duplicate is
  answered from memory; the counters a tester reads (`shifted`, `answered_cold`)
  do not stay silent when the word streams have gone apart; no core waits for
  ever.
* *Pacing*: a child is never a frame ahead of where its parent is, waits only when
  it is ahead, never while its parent is blocked on it, and never for ever.
* *Election*: the two ends have opposite roles once they are settled; a quiet link
  is not taken for a dead one; sessions that stay up link, collisions aside.
* *Adapter*: one slot for a peer; a queue ends with its owner; a client attached to
  a room is a member of it; a slot does not outlast its owner's attachment, nor an
  attachment the room.
* *Port*: every word the adapter says is the one its place in the conversation calls
  for, and a game that waits is told what happened in its time, once; a game that takes the
  clock back while it is told is out of step until its next command.
* *Clock*: the chip hears the bytes the game's edges carried and nothing of a
  transfer that was abandoned; its register keeps what was written there whole; an
  answer is of one instant; the calendar is the calendar.
* *Save chips*: what completed commands stored is read back, whatever was abandoned
  before, and a state that is loaded brings the chip back with all it was in the middle of.
* *Sensors*: a stream is of the moment its conversion began; a motor that ran is felt.
* *Console*: a transfer starts when its enable bit rises and at no other time, and
  ends with all it starts; timers advanced in a batch are the timers of a chip; a
  program that waits for an interrupt is woken by it, every time, and only by a new
  one where it asked for that.
* *Processor*: results and flags are those of exact integers; Thumb means what the ARM
  instruction it abbreviates means; a register belongs to its mode; a program gets back
  what was taken from it.
* *Idle loop*: an iteration that is skipped would have done nothing.
* *Picture*: a pixel shows the two frontmost layers there, mixed as the registers say;
  an affine background moves by its step a line, from what was loaded last.
* *Sound*: a stream gets the bytes it would have got from a chip that asks when its queue
  is low; the mixer hears nothing outside a sample and the next; a state loads as saved.
* *BIOS*: numbers are exact, what was packed is unpacked, and nothing beside it is written.

## Modules

| Module | What it models | Built on |
|---|---|---|
| `LinkExchange` | abstract: what the cable promises two games about a transfer | |
| `CableTransfer` | the transfer protocol, both ends, the wire, the serial engine's part | implements `LinkExchange` |
| `CableTransferProofs` | TLAPS: type correctness and `Paired`; each exchange answered and delivered once, in order; what a flush and an offset leave; the refinement of `LinkExchange` | `CableTransfer` |
| `CablePacing` | pacing, the run loop at scanline boundaries | |
| `CablePacingProofs` | TLAPS: held clocks, the tick interval, and that a child keeps step | `CablePacing` |
| `CableElection` | sessions, announcements, keepalive, roles, units | |
| `RfuAdapter` | the wireless adapter's rooms, members, blocks and silence | |
| `RfuAdapterProofs` | TLAPS: types, that slots and queues have one owner, and that an attachment is backed | `RfuAdapter` |
| `RfuWords` | the adapter's words over the serial port, its timers, the handshake | |
| `CartridgeClock` | the real-time clock chip, the GPIO port it hangs off, the calendar | |
| `Backup` | SRAM, flash, EEPROM and their save states | |
| `Motion` | gyro, tilt sensor, motor | |
| `CartridgeProofs` | TLAPS: what the clock hears, keeps and answers, that its calendar is right; that a save chip reads back what was stored; that a sensor answers for its time | `CartridgeClock`, `Backup`, `Motion` |
| `Console` | the scanline loop, interrupts, HALT, IntrWait, SoftReset, timers, DMA | |
| `ConsoleProofs` | TLAPS: waits take new interrupts, transfers start on edges, batches count cycles | `Console` |
| `Words` | machine words as naturals | |
| `Processor` | both instruction sets, the shifter, banks, exceptions, the pipeline | `Words` |
| `IdleLoop` | the idle-loop watch in the frame loop | `Processor` |
| `Picture` | a line of the picture and the references lines move | `Words` |
| `Sound` | channels, streams, mixer, the clock they share, the state | `Words` |
| `Bios` | the calls that compute, copy and unpack | `Words` |
| `MCCable` | a session over the cable: its ends elect their roles, or transfer | `CableElection`, `CableTransfer` |
| `MCLink` | what is in the serial port: a cable whose numbers wrap, or an adapter | `CableTransfer`, `RfuWords` |
| `MCCartridge` | what is on the cartridge: a clock, a save chip or sensors | `CartridgeClock`, `Backup`, `Motion` |
| `MCHardware` | the console's units, one at a time | `Processor`, `IdleLoop`, `Picture`, `Sound`, `Bios` |
| `FoldProofs` | TLAPS: what a fold is, and that it keeps what each of its steps keeps | |
| `DeviceProofs` | TLAPS: of the cable, types, that two settled ends differ and that a quiet link stays up; of the adapter, that every word is in its place, every wait in its time; the references of affine backgrounds; that a stream's level lies between its samples, and that a load brings back what was saved | `CableElection`, `RfuWords`, `Picture`, `Sound`, `FoldProofs` |
| `ProcessorProofs` | TLAPS: that banks are kept, that results and flags are exact, that Thumb does what ARM does, and that skipping an idle loop loses nothing | `Processor`, `IdleLoop`, `FoldProofs` |
| the other `MC*` | the instances TLC checks | |

`MCCable`, `MCLink`, `MCCartridge` and `MCHardware` put components side by side that share no state in
their modules: a session's roles are settled before the transfers that are modelled begin,
a serial port carries one thing, a cartridge of these one chip, and the units of the
console meet only in what each module takes as its inputs. A behaviour picks one of
them and leaves the others at rest.

### `CableTransfer`

One parent and one child, roles settled. The parent's `phase` says whether its
serial engine is idle, counting a transfer down (`shifting`) or blocked in
`parent_result` (`waiting`); a step of it is what one handler does between two
points where something else can happen: a packet is taken in by `poll`, a deadline
passes. `ParentStart` is `multi_start` with the clock it sends, `ParentCollect`
the end of the countdown, `ParentLand`, `ParentRetry` and `ParentTimeout` the three
ways round or out of the loop, each with the whole of `multi_finish` where the
transfer ends. The child's `ChildClocked` is `TAG_CLOCK` with its three outcomes
(answered from `seen`, held back in `deferred`, accepted), `ChildToldGaveUp` is
`TAG_GAVE_UP`, `ChildStep` what `step_serial` does on a scanline, `ChildStore` a
store of SIOMLT_SEND, `ChildSelectMulti` the mode write with `flush_pending`.

Exchanges are numbered without bound in the model; the code compares the `u8`
those numbers are carried in, so each comparison goes through `SeqOf`. A word is
named after the store that produced it. `outcome`, `answers`, `delivered` and
`flushed` are histories; three of them stand for state the code keeps a window of
(`seen`, `last_reply`, `last_accepted` are functions of `answers`).

### `CablePacing`

Time in scanlines. Positions are integers, and everything the code compares is
read through `Stored`, which wraps at `Wrap`. `ChildLine` charges a scanline
(`advance`) and enters `hold`, from which `ChildRuns`, `ChildWaits` and
`ChildStarves` are the three answers `hold` can give; `ParentLine` and
`ParentClock` report the parent's position by tick and by clock. Packets arrive
late and out of order.

### `CableElection`

Two ends, a session each. Time is a tick between which every live end runs one
frame and everything sent has been delivered; `Silent` ticks without a packet are
`PEER_SILENT`. `Frame` is what `retro_run` does for the link in a frame
(`hello_tick`, `cable_keepalive`, the outbox), `Receive` is `np_receive` with
`TAG_HELLO` and its resolution of collisions.

### `RfuAdapter`

Adapters on reliable ordered channels (`netpacket::send`: "Reliable and flushed"),
with `wire[a][b]` holding what `a` has put in its outbox for `b` and `b` has not
taken in. Each command with an effect on the session is an action; the others, and
those the link's state refuses, are `OtherCommand`, which still counts, because the
device ids an adapter mints are made from its command count. `FrameUpdate` is
`frame_update` with its three cases, `Reset` the power cycle, and one `Hear...`
action stands for each packet type. `silenced` is a history: the slots taken back
for silence.

### `CartridgeClock`

A store to the port's data or direction register (`gpio_write`) re-drives the
lines the game owns and clocks the chip once: `ReadPins` is `read_pins`, with one
operator for each of its cases (`Deselected`, `SamplesBit`, `HighAgain`,
`CommitsBit`, `AnswersBit`, `HoldsBit`) and, under `CommitsBit`, `BeginCommand` and
`ProcessByte`. A byte is the sequence of its bits in the order they travel. The
seconds of the front end (`Second`, `set_rtc_unix_time`) fall between any two
stores, and before the game begins the console may stay off for any number of days
(`NextDay`), which is what takes the calendar through its century.

What the chip should have heard is told a second time, from the lines alone:
`Remember` collects the bits the game's rising edges carried since it selected the
chip, the command they made, the time at which it was complete and the falling
edges since. The invariants relate the two accounts. The store that changes SIO and
SCK together is in both, as the code has it: a payload bit is then zero, a command
bit the earlier one.

### `RfuWords`

The other side of the adapter: the game. A step is a word (`StepSerial`: the port's
countdown, then `transfer`, with `run_command` in it, or the adapter's own timers and
its event) or a store to SIOCNT (`StoreControl`, with the edges of SO that acknowledge
and the SI the adapter drives back). `ResetPulse` is the pulse on SD. What other
adapters do is the air's: `Joins`, `Parts`, `Arrives`. `Exchange` has an operator for
each state of the conversation (`Wakes`, `Shakes`, `TakesCommand`, `TakesPayload`,
`Acks`, `Responds`, `Refuses`, `Collides`), named for what it does there.

The history `due` is the list of words the adapter owes by the rules of the protocol;
`wait` is the wait under way, what may end it, and how long it may last.

What happened is looked for only when the game is a slave (`Listens`; `rfu.rs` 1495), but a
word of it is pushed whenever SO and SI are low and the start bit is set (`Hearing`;
`rfu.rs` 1534). A game that turns master in between and starts a word of its own is talked over: the
adapter's word comes down on SIODATA32 and the start bit, while the port goes on pacing the game's. The history
`talkedOver` says so, until the game's next command, with which what was still due to it is
given up (`Owed`). A word started while that one is paced never reaches the adapter, and
is answered with ones.

### `Backup`

A game writes (`WriteByte`, `FlashWrite`), asks the EEPROM for a block, stores one, or
reads one out, each a DMA transfer whose length tells the chip what it is
(`SetDmaLen`), and stray bits fall between. `Serialize` and `Deserialize` save and load
the chip, with its history, between any two accesses. The history `told` is a second
decoder, of the command sequences a datasheet gives: `SavesReadBack` compares
what is read with what those commands stored.

### `Motion`

`DriveLines` and `TurnLines` are stores to the port's data and direction, `ReadLines` a
read of it, `TiltStart`, `TiltFinish` and `TiltRead` the tilt sensor's accesses,
`TakeRumble` the front end's question, `SetHand` its news of the player's hand. `begun`
remembers the hand when a conversion began, and the clocks since.

### `Processor`

An instruction is a record of the fields its encoding holds, and each handler of
`arm.rs` and `thumb.rs` an operator on a machine, a record too. Words have `Width` bits
and what the code writes with 32, 31 or 8 is written with `Width`. A program is a
sequence of sets of instructions, so that a behaviour runs one of each; `Stepped`
executes one and moves the pipeline, `TakeIrq` takes an interrupt where a program has
one.

Results are stated a second time without the code's shapes: the sum and the shifter from
exact integers and one-bit shifts (`Sum`, `BitByBit`), Thumb by the ARM instruction
it abbreviates (`ArmForm`), registers by who may touch them (`BanksKept`), calls by what
the program has when it goes on (`GivesBack`).

### `IdleLoop`

The frame loop around one of six routines: the two phases of each line, an interrupt's
handler as one step that may take more than is left of its phase, an arrival at the watched
head, and everything the watch does there. `FindLoop` is `find_loop` on the instructions of `Processor`, `Sampled`, `Retired`,
`Forgotten`, `Considered` and `Proven` the watch. `SpinsInPlace` runs the iteration that is to
be skipped, with memory as it is then.

### `Picture`

`RenderedRow` draws a line as `render_line` does: each layer's pixels laid into pairs
(`Place`) in the order of their keys, pruned below `Threshold`, then windows, objects,
effects (`ResolvePixel`). `BeginLine`, `EnterHblank`, `RenderLine` and the two writes move
the affine references. `PixelShown` finds what is in front of a pixel from the maps and
the objects themselves, for each pixel alone.

### `Sound`

`apu` is the whole unit; `Generate` brings it to a cycle, `Chunk` by a step of the mixer.
`CpuRuns`, `WriteSound`, `SetTimer`, `Arm`, `Disarm` and `EndLine` are what the scanline loop
and the game do, `SaveSound` and `LoadSound` a state. `AsServed` counts, for each
stream, the bytes a request at every turn would have brought.

### `Bios`

An action a call, on bytes of memory. A job says what was packed and `UnpacksWhatWasPacked`
that this is what is there afterwards, and nothing else was written; `ArithmeticIsExact`
and `CopiesAsTold` are the other two parts of `CallsAnswerExactly`. RegisterRamReset has
DISPCNT too, which it stores whatever it is asked to clear. BitUnpack reads
each byte of its source once, whatever its units have overwritten by then.
The two arctangents are modelled and in none of the three parts: one is an approximation,
the other a finding.

### `Console`

`stage` is where `run_frame_polling` stands in a scanline. `BeginLine` is
`raise_ppu_irqs` and `step_timers`, `TriggerDma` the two `trigger_dma`, and then the
loop over instructions: `TakeIrq` takes an interrupt, `Runs` guards every
instruction with the loop's tests, `EndLine` is the cycles being spent. `TakeIrq` and the
instruction after it are two steps, as in the code.

A DMA runs inside the store or the trigger that starts it. `Begin`, `DmaWord` and
`DmaEnd` are `run_dma` taken word by word, so that a word stored to a control
register (`StoreControl`, which is `io_write` with `start_dma`) may queue a channel in
`dma_pending`, and `DmaEnd` goes on with the drain of `run_dma_guarded`. While
`active`, nothing else can happen.

The game is whatever stores to these registers it likes, HALT, IntrWait and SoftReset.
`Pass` is one execution of `intr_wait`: it returns, or leaves the processor at the
call, halted. The interrupt handler is external and keeps the BIOS's contract: what it
read from IE and IF it ORs into BIOS_IF and acknowledges, in either order. It is taken
to be shorter than a scanline, so it ends in the one after that in which it began at
the latest; a handler that is interrupted again whenever it returns starves any
console.

## Runs

Every run explores its instance completely.

| Run | Shows |
|---|---|
| `cable` | Sessions: `RolesDiffer`, `QuietLinkStaysUp`, and `SessionsLink` under fairness. Transfers, on a wire that loses and reorders nothing, with give-ups, retransmits, an open circuit, and the child's game leaving and re-selecting the mode: each exchange delivered once, in the parent's order and with staleness counted (`DeliveredAsClocked`), nothing run after a flush (`FlushIsFinal`), and each step one of `LinkExchange` (`ImplementsExchange`). |
| `cable_live` | On a lossy, reordering wire, with fairness: `TransferEnds`, `HeldClockAnswered`. |
| `cable_gaveup` | A finding, see below. |
| `pacing` | `HeldClockNeverWaits`, `ParentReports`, `KeepsStep` (never a frame ahead, and waiting only when ahead) and, with fairness, `WaitEnds`, across the sign change of the counters. |
| `link` | A cable: the sequence number turns over (modulus 3, four exchanges) while clocks, held clocks and give-ups carrying it are about: `Paired`, `AnsweredOnce`, `OffsetCounted`. An adapter: `AdapterAnswers`, that every word it says is in its place and every wait ends in its time, by what may end it. |
| `rfu` | A room and a guest: `SlotsAreOwned`, `AttachedIsBacked`, and under fairness `HalfOpenEnds`. |
| `rfu_slot` | A finding. |
| `rfu_talk` | A finding. |
| `cartridge` | A game that drives the clock's three lines in any order, over midnight of a New Year's Eve: `ReceivedAsSent`, `ControlAsWritten`, `AnswerIsOneInstant`; for each day of a century `DatesFollow`, the arithmetic of the calendar against the lengths of its months. The save chips: `SavesReadBack`. The sensors: `AnswersAreOfTheirTime`. |
| `console` | `StartsOnEdges` for channels that start themselves and each other; `BatchIsCycleByCycle`; `WaitTakesNew`, and with fairness `EveryStopEnds` (the drain, IntrWait, HALT) for a game that waits while interrupts, handlers and scanlines fall anywhere. |
| `hardware` | Processor: `ResultsAreExact`, `ThumbAsArm`, `BanksKept`, `GivesBack`. Idle loop: `SkipsLoseNothing`. Picture: `LineShown`, `AffineFollows`. Sound: `AsServed`, `LevelIsBetween`, `LoadsWhatWasSaved`. BIOS: `CallsAnswerExactly`. |
| `bios_angle` | A finding. |

### Bounds, and why they are enough

* `cable`, the transfers: two exchanges and one store of the child's game beyond its
  first word suffice for every overlap the protocol distinguishes: a packet of the
  last exchange against the current one. `SeenWindow` 2 covers them, the open
  circuit opens after one give-up, one parking. The code has no state that relates
  three exchanges except the sequence number, which is what `link` is for:
  with modulus 3 and four exchanges the number comes round with everything still
  in flight. `WithinWrap` is the environment's promise that nothing on the wire is
  a whole turn (256 clocks, seconds) old.
* `cable`, the sessions: identities from 1 to 4 where the code draws 48 bits, so collisions
  and chains of them happen; three sessions over two ends, so that each may be
  restarted; one loss of a ping; one give-up.
* `cable_live`: the same two exchanges, store, park and open circuit, on a wire that
  loses and reorders, with one clock in flight and the give-ups and answers beside it.
* `pacing`: `Wrap` 18 scanlines with positions up to 9, so the sign change at half a
  turn is passed; a frame is 2 scanlines, a tick 1, and either end may be 2
  scanlines from the other and a packet 2 late, so a child that did not wait would be
  a frame ahead. The assumption `Wrap \div 2 > Silence + 2 * MaxApart` is two minutes
  against a few frames in the code.
* `link`, the adapter: ten commands of the table,
  with every shape of payload and answer, three of them in a behaviour, which is a
  configuration, a room and a wait; a frame of two lines and a word as long, as the port's
  words of 2048 cycles are longer than a line, so that a wait
  of one frame and one of two rounds run out while words are under way, and what is pushed
  can meet a word of the game's; two happenings
  on the air and a power cycle.
* `rfu`: two slots for four and queues of one block for sixteen (the code
  treats slots alike); a room announced each frame, silence of two frames, three
  commands and one power cycle each. The slots' order matters only to which is
  given first. The finding is run with a second guest.
* `cartridge`, the clock: every byte a game's library sends (each command but the two unused,
  a write of the control register), and one that is no command. The answers are
  followed to the last bit and round again, with the second falling anywhere in
  them. The days are those the chip's two digits can count, from 2000 to 2100, which
  has no 29th of February; the port is used on one of two, the last of 2026 and one
  past 2099, where the year is clamped.
  The save chips: the bytes of every flash command and one that is none, a bank of two
  sectors, two banks where the chip has them; blocks of four bits for 64 and addresses of
  two and four for six and fourteen; what is stored changes
  twice, with commands between as many as the game likes, two stray accesses, and one load up
  to two accesses after its state was taken, so that one phase of a command is loaded into
  another. The sensors: samples of two bits and twelve edges, which clock a conversion to its
  end, or abandon it at any bit and begin another, the hand moved once meanwhile.
* `console`: three stores or soft resets: two channels that start each other take three,
  and so does a handler that sees a V-blank and a wait thereafter. A channel may store to
  its own control register, to the other's, or to memory, up to two words, and the drain
  takes two channels where the code takes 32, so that its bound is met. Two lines, one of
  them the V-blank's; two timers of two bits, the second
  able to count the first's overflows, the first with a divider of two, over batches of up
  to five cycles, which is more than one turn of either.
* `hardware`, the processor: words of twelve bits, with zero, one, the ends of either
  half, alternating bits and those beside them; shifts of none, some, all but one, all and more bits;
  every addressing mode at every alignment; every pair of modes. The idle loop: phases of
  nine cycles around loops of two to five instructions, so that a phase ends in each, three
  lines, and handlers as long as a loop, shorter and longer than a phase. The picture: a
  screen of 12 by 3 over memory without a pattern; 586 scenes that vary what one part of
  the drawing depends on against what others do. The sound: queues of eight and requests of
  four; two periods, of more and less than a line; three lines. The BIOS: every pair of
  fourteen numbers of eight bits, every root but that of the largest, which the code does not return
  from; each kind of stream beside its output and on top
  of it, with 6285 calls in all.

### Fairness

* `cable_live`: the parent's and the child's run loops go on, each for itself: a scanline steps
  the serial port (`lib.rs` 281, 321: `advance`, `step_serial`), so the parent's collecting and the way
  out of its wait are weakly fair, and so is the deadline of a clock held back. The games and the wire promise
  nothing: no packet need be received, nor the other end be running.
* `pacing`: only the child's own loop. Nothing is asked of the parent or the wire.
* `cable`: the frontend calls `retro_run` and hands over what arrived, and time
  passes, for `SessionsLink`; nothing is asked of its transfers.
* `link` states no liveness: how long a wait of the adapter's lasts is counted
  in the model, so `AdapterAnswers` is an invariant.
* `rfu`: frames are run and packets handed over at every device, and a game brings
  up an adapter it power-cycled.
* `console`: `retro_run` goes on calling `run_frame_polling`, whose loops do not stop, and
  `Cpu::step` is called in them: the scanlines with their DMA, and the processor, are
  weakly fair. What the game does with its instructions is not, except that a handler
  goes on.

The other runs state no liveness: a game may stop driving a chip at any edge.

`cable_live`, `link`, `rfu`, `cartridge` and `console` check for
deadlock. The others that pass end their behaviours: `pacing` by its bound on scanlines,
`cable` when both players have ended their sessions,
`hardware` when a program, a frame or a call is over.

## Proofs

| Theorem | Module | For every |
|---|---|---|
| `TypeCorrect == Spec => []TypeOK` | `CableTransferProofs` | value of the constants |
| `PairedAlways == ~LongOutages => (Spec => []Paired)` | `CableTransferProofs` | sequence modulus, window, queue, bound, loss and reordering |
| `AnsweredOnceInWindow == Spec /\ []ClocksInWindow => []AnsweredOnce` | `CableTransferProofs` | the same |
| `AnsweredOnceInOrder == ASSUME ~Reordering, SeenWindow >= 2 PROVE Spec => []AnsweredOnce` | `CableTransferProofs` | modulus, window of two or more, queue, bound and loss |
| `DeliveredOnceInWindow == Spec /\ []ClocksInWindow => []DeliveredOnce` | `CableTransferProofs` | value of the constants |
| `StaleWordAlwaysCounted == Spec => []StaleWordCounted` | `CableTransferProofs` | value of the constants |
| `DeliveredAsClockedInOrder`: `Spec => []DeliveredAsClocked`, in order | `CableTransferProofs` | as `AnsweredOnceInOrder` |
| `FlushIsFinalInWindow`, `FlushIsFinalInOrder`: `Spec => FlushIsFinal` | `CableTransferProofs` | as the two of `AnsweredOnce` |
| `OffsetCountedInOrder`: `Spec => []OffsetCounted`, in order and `~Lossy` | `CableTransferProofs` | modulus, window of two or more, queue and bound |
| `ExchangeImplementedInWindow`, `ExchangeImplementedInOrder`: `Spec => ImplementsExchange`, with `~LongOutages` | `CableTransferProofs` | as the two of `AnsweredOnce` |
| `HeldClockRuns == Spec => []HeldClockNeverWaits` | `CablePacingProofs` | value of the constants |
| `ReportsInTime == Spec => []ParentReports` | `CablePacingProofs` | the same |
| `StepKept == ASSUME HalfTurnIsEnough PROVE Spec => KeepsStep` | `CablePacingProofs` | horizon, tick interval, patience, queue and drift, and any modulus that leaves room for them |
| `ElectionTyped == ElectionSpec => []ElectionTypeOK` | `DeviceProofs` | value of the constants, with announcements lost too |
| `RolesNeverAlike == ~HelloLoss => (ElectionSpec => []RolesDiffer)` | `DeviceProofs` | number of identities, sessions, losses of pings, give-ups |
| `UnheardOnlyForLosses == ElectionSpec => []SilenceIsLoss` | `DeviceProofs` | value of the constants, with announcements lost too |
| `QuietLinkStays == ASSUME MaxLosses + 1 < Silent PROVE ElectionSpec => []QuietLinkStaysUp` | `DeviceProofs` | the same, fewer losses than the silence allows |
| `RoomsTyped == Spec => []TypeOK` | `RfuAdapterProofs` | number of adapters and slots |
| `SlotsOwned == Spec => []SlotsAreOwned` | `RfuAdapterProofs` | the same, and of commands, resets, blocks and packets in flight |
| `GuestsBacked == ASSUME ~Impatient PROVE Spec => []GuestsAreBacked` | `RfuAdapterProofs` | the same, with any number of hosts |
| `AttachmentsBacked`: `Spec => []AttachedIsBacked`, `~Impatient` and one host | `RfuAdapterProofs` | the same, one host |
| `ClockTypeOK == Spec => []TypeOK` | `CartridgeProofs` | byte a game may send, day and number of seconds |
| `ClockHears == Spec => []ReceivedAsSent` | `CartridgeProofs` | the same |
| `ClockKeepsControl == Spec => []ControlAsWritten` | `CartridgeProofs` | the same |
| `ClockAnswersOneInstant == Spec => []AnswerIsOneInstant` | `CartridgeProofs` | the same |
| `CalendarFollows == Spec => DatesFollow` | `CartridgeProofs` | day from 1970-01-01 on |
| `GamesReadBackWhatTheySaved == BackupSpec => []SavesReadBack` | `CartridgeProofs` | size of bank, sector, block, address and chip, and number of accesses and loads, with fewer stray bits than a broken-off read-out is long |
| `SensorsKeepTime == MotionSpec => []AnswersAreOfTheirTime` | `CartridgeProofs` | scale, width of a sample, centre that fits it, and number of movements and stores |
| `WaitsTakeNew == Spec => WaitTakesNew` | `ConsoleProofs` | value of the constants |
| `TransfersStartOnEdges == Spec => StartsOnEdges` | `ConsoleProofs` | value of the constants: up to four channels, any values stored, any bound of the drain |
| `TimersCountCycles == Spec => []BatchIsCycleByCycle` | `ConsoleProofs` | width of counter, prescaler, reload, setting and length of a batch, up to four timers |
| `BackgroundsFollow == PictureSpec => []AffineFollows` | `DeviceProofs` | screen, scene, number of lines and of writes to the reference points |
| `BanksAreKept == ProcessorSpec => BanksKept` | `ProcessorProofs` | program, instruction, address and machine a program starts on |
| `ResultsExact == ProcessorSpec => ResultsAreExact` | `ProcessorProofs` | the same, and width of a word |
| `ThumbIsArm == ProcessorSpec => ThumbAsArm` | `ProcessorProofs` | the same |
| `SkipsAreIdle == IdleSpec /\ []InRoutine => []SkipsLoseNothing` | `ProcessorProofs` | routine, register and memory it starts with, limits of the search, handler, phase and line |
| `LevelStaysBetween == ASSUME PcmType PROVE SoundSpec => []LevelIsBetween` | `DeviceProofs` | score, size of queue, period and cartridge, if what the cartridge holds are numbers |
| `LoadGivesBack == ASSUME PcmType PROVE SoundSpec => LoadsWhatWasSaved` | `DeviceProofs` | the same |
| `FoldKeeps` | `FoldProofs` | step, property and sequence |
| `AdapterKeepsPlaceAndTime == WordsSpec => []AdapterAnswers` | `DeviceProofs` | value of the constants: commands, payloads, answers, blocks, timings, power cycles and whatever the air does; of a game that was talked over, from its next command on |

`TypeCorrect` is proved through `TypeInv`, which adds to `TypeOK` that a blocked
parent is under the open circuit's threshold: `ParentTimeout` increments the
count, and nothing else says the sum stays in its type.

`Paired` says that a landed transfer shows the two words of one exchange. It is
not inductive: it speaks of the moment of landing, while what makes it true is
spread over the packets still on the wire. `PairedInv` carries, beside it and the
types,

* `AwaitsNewest`: the parent awaits the newest exchange, and no earlier one;
* `ClocksCarryLatched`, `HeldCarriesLatched`, `AnswersCarryLatched`: a clock
  carries the word the parent latched for its exchange wherever it has got to, on
  the wire, held back at the child, or answered;
* `RepliesAnswer`, `ReplyAnswers`: a reply, on the wire or already taken in,
  carries the child's word of the answer it stands for.

What is compared is the `u8`, so the step on which it turns is that a reply with
the awaited number is of the awaited exchange. That is `SameSeqUnique`: two
exchanges less than a turn apart with the same number are the same. It needs that
nothing a turn old is about, which is `WithinWrap` for the wire and, for what the
child remembers, `~LongOutages`: a child that has heard nothing for 250 exchanges
may answer a new clock from `seen` (see the hazard at `cable.rs` 1247). The theorem
says so by its hypothesis, and TLC violates `Paired` without it.

The rest of what the cable promises turns on duplicates. A clock may be on the wire more
than once, and the child knows it again only while its number is among the `SEEN_WINDOW`
last answered. `ClocksInWindow` says that of every clock on its way, and it is the one thing
`AnsweredOnceInWindow` and the theorems named after it ask of the transport: it may lose,
repeat and reorder as it likes within that. `cable.rs` 472 says why it is so: "One exchange
is outstanding at a time, so anything past a couple is slack". `OrderInv` makes that a
theorem: on a wire that keeps its order `ClocksInWindow` is not an assumption but follows
(`OrderWindow`), from a window of two. One answer is not enough, because a held clock may be
answered behind its successor; that is why the invariant, `AheadOfAnswers`, allows one answer
after the last. With `~Reordering` packets stand on the wire in the order of their exchanges
(`WireOrdered`), none behind what has been answered. `RETRO_NETPACKET_RELIABLE` asks for such a
channel; `netpacket.rs` 83 says that a host may use `sendto` all the same, and for those
the theorems `...InWindow` are the ones that count.

* `OnceInv` is `AnsweredOnce` with `HeldUnanswered`: the clock held back is not among
  the answers, or its store would answer it a second time.
* What the child's game has been given, what its serial engine shifts and what is queued
  make one `Line`. No step puts anything into it but an answer, at its end (`LineKeeps`,
  `LineAnswered`), so each exchange is in it once (`LineDistinct`) and those answered on
  arrival are in the parent's order (`LineOrdered`): what is delivered is its first part.
* `StaleInv`: until a word was counted cold each word sent on the bus is of a store made,
  and of one before the last while the engine is armed (`WordsSpent`).
* `FlushInv`: what a flush dropped has been answered or is held back (`FlushedAnswered`),
  so that it cannot be answered anew, and is not queued or shifting (`FlushedStopped`).
* `SettledKnown`: once a give-up has been taken in nothing of its exchange is on the wire
  or, unless held, queued; and if the game is running it, it is counted. A give-up lost
  breaks this, hence `~Lossy`; a clock that overtakes its give-up does, hence the order.
* `PromiseInv`, for the refinement: `PairedInv`, the line, and that every word on its way is
  one of the abstract module's `Words`. The mapping reads `outcome`, and the
  answers and deliveries as sets; `PromiseStep` has a step of `LinkExchange` for each action that
  changes one of them, and shows the others to be stutters.

`HeldClockNeverWaits` follows from `HeldUnarmed`, that a clock is held back only
from a game that has not stored since it last answered; `hold` reads both.

`RolesDiffer` speaks of two ends that are settled, with nothing under way that announces an
identity. What makes it true then is what was under way before. `AllInformed` says, of the
packets an end has in its outbox and on the wire together: the last announcement among them
is the identity the end has now (`Says`), and if there is none the other end knows that
identity or knows none. A restart that finds old announcements on the wire, a collision that
draws a new identity, an answer to one already changed, each leave it so, because
whoever changes its identity says so behind everything it said before. So two settled
ends know each other's identity, and the roles are its order. With an
announcement lost (`HelloLoss`) the invariant fails at the first step, and so does the
property.

`SilenceIsLoss` is `QuietLinkStaysUp` without its numbers: of two ends that know each other,
neither has been without a packet for more intervals than packets were lost, and one.
`WarmInv` says why of each end that knows any identity. Its peer has spoken in the interval
if it has had a frame in it, so the silence grows only with a loss (`Heeded`, first
disjunct); or else the peer was away, what the end knows is of an earlier session, and it
has no announcement under way (second disjunct). Without that last part the peer, back with
the end's own identity by chance, might be told so, move its identity, and arrive at the
very one the end remembers: a silent end would then know a live peer. `PEER_SILENT` is six
intervals, so the link stays up through four losses between two packets heard;
the model counts losses over the whole behaviour, and the theorem asks for its bound on those.

`SlotsAreOwned` needs little beside the types: `RoomOwned` is its two parts for one room, and
`Good` adds `TypeOK`, for a slot is looked for by the peer in it, and freed by emptying its
queue. There is a lemma for each thing that is done to a room (`EvictedOwned` and those
after it) and one for each of the commands and packets.

`AttachedIsBacked` relates a client's belief to a room two packets away. What supports it,
for each pair of a guest `c` and a room `h`, is `Member`:

* `OneAsk`: at most one request of `c` is open, on its way or granted and not heard;
  `NoneOpen`: a client of `h` has none. Both are what a patient game's adapter leaves on the wire.
* `LeftWhole`: when a farewell of `c` is on its way, `c` is not attached, no grant is, and
  any request is behind the farewell. So the farewell takes back the slot `c` left, and not
  one it has been given since.
* `GrantBacked`, `AttachmentBacked`: the property itself, of a grant on the wire and of an
  attachment. Of a grant, the farewell that excuses it must be behind it.

`Lawful` says what a step may do between the two: who speaks (`Speaks`), what `h` replies
(`Replies`), when `c` becomes attached (`Joins`) and how a slot is lost (`Seats`). `MemberNext`
shows that lawful steps keep `Member`, without looking at any action, and one lemma per
command, packet and frame shows it lawful. The hypotheses are needed. With
`Impatient = TRUE` the property fails: a game that asks twice is granted a slot, dismissed, and
granted another; it leaves, asks again, and takes the second grant for the answer, after which
its own farewell arrives and frees the slot. That `c` opens no room is needed too: a
device that is host to its own host tells it farewell when it drops it, and the packet
(`rfu.rs`, ID_DISCONNECT) does not say in which of the two rooms it was meant.

The four theorems about the clock share `ClockInv`. It has three parts beside the
types:

* `ReceiveInv`: the chip's idea of the clock line is the line (`EdgeSeen`), the bit
  it holds while the line is low is the bit there (`Sampled`), and a chip that is
  not selected remembers nothing (`Idle`). Without these a rising edge might be seen
  late, or commit a bit the game had not put there; with them a committed bit is
  the one sent, and eight of them are the byte (`LastBit`).
* `Counting`: while a payload lasts `bytes_remaining` is between 1 and its length.
  It is what keeps the answer inside the latched buffer, which the code indexes from
  the end and clamps.
* `AnswerInv`: the bytes latched are those of the instant the game remembers
  (`Latched`), and the chip's two counters, bytes down and bits up, come to the
  number of bits out (`Progress`). `NextBit` is the arithmetic of it.

The proof has a lemma for each case of `read_pins` and each of the two parts it
can disturb; a step of the wall clock disturbs none (`Unseen`).

`DatesFollow` needs no invariant but the types. `YearHolds` is what the nested quotients of `civil_from_days`
come to: the year, counted from March, whose first day is not after this one and whose last is not before it;
`YearGoesOn`, that the next day is the next of the year or the first of another, after 365 or 366. `MonthGoesOn` does
the same for the months, whose lengths are in the 153 of the code; `DaysBack` undoes both.

`SavesReadBack` is of what is read; `BackupInv` relates what the chip is in the middle of
to what a datasheet's reader would say it is.

* Of a flash, `FlashAgrees`: chip and history have the same bytes, bank and modes, and the
  writes `heard` of a command are those that its phase and the byte it awaits stand for
  (`InPlace`). An unlock half given, a program command without its byte, are
  each one row of it. `FollowsReset` to `FollowsCommand` go through what a write may be.
* Of an EEPROM, `EepromAgrees`: chip and history have the same blocks, and a block asked for
  and not read is at the head of the queue, whole (`Ready`). What could break it is a length the chip
  expects and the game did not mean as a command. `eeprom_set_dma_len` takes any length
  but 68 for one, so a read-out broken off leaves the chip waiting for that many bits: the invariant says
  that nothing else does, and that fewer than those have come. As many stray bits
  as the broken-off read-out was long would be taken for a command, whatever they say; the theorem assumes
  `MaxPolls` below that (66 in the code), which is the one bound it depends on.
* The same holds of the save state, when there is one, with its own history.

The chip takes a command a bit at a time, and `Value`, `WriteBits` and `ReadBits` recur over
the bits. Each is a function on a range of numbers, and each has a closed form: the first bits of the
number, the bits as far as they have come, the place in the queue (`ValueIs`, `SendIs`,
`ReadIs`). That the closed form satisfies the recursive equation is arithmetic; that nothing else does is
shown by the least place at which another function would differ (`Induct`, from `WFMin`).
`AddressRead` is what they are for: the bits of a block's number, highest first, are read back as that number. The
assumption states of powers of two what it needs, since the provers know nothing of them.

`MotionInv`, for the sensors, says what the latches hold: the sample is that of the hand as it was
when the conversion began, and the shifter is as far on as the line has risen since (`SampleKept`); the
same of the two axes (`TiltKept`); and `seen`, with the line as it is now, knows of every start of
the motor and of nothing else (`MotorKept`). `SampleFits` is why the four bits before a
sample are zeros: it is at most twice the centre (0x700), and the assumption says that
this is less than `2^12`.

The two theorems about the console are of steps, each from an invariant that says what
the step finds. `WaitInv`: while `in_intr_wait` is set the processor is at the call or in
a handler that returns there, and whatever BIOS_IF holds for the wait was posted since it
began, or else a reset cut it short. It is what makes it right to discard on the first
pass and wrong on the others; `soft_reset` would break it, but for that last disjunct.
`DmaInv` is the types of the DMA's registers, with nothing queued when nothing runs; with
it the end of a transfer raises no enable bit, and what leaves the queue is begun.

`BatchIsCycleByCycle` compares two definitions that recur from a timer to the one before it:
`Stepped`, which is `step_timers`, and the chip's `over`. Each is a `CHOOSE` of a function
that satisfies an equation, so that such a function exists is the first thing to show: four
timers have a chain of four at most, and four passes over them, each from what the last
made of the timer before, reach one (`SteppedIs`, `CycleIs`). From there on the equation is all
that is used. `OneMoreCounted` is the division: one more cycle in the batch moves the
remainder on, or round with one more tick. `AddedOneMore` is the reload: one more tick in
the batch is one more on the counter, or one more overflow. `OneMoreAt` puts the two together
for a timer that counts cycles, and for one that counts the overflows of the timer before,
given the same of that one; `OneByOne` goes down the chain.

`AdapterAnswers` says what the game hears; `WordsInv` says where the words it has yet to hear
lie. `Coming` is the heart of it: the list of words owed (`due`) is the one in flight, if there
is one (`Flying`), and then, word by word, those the adapter's state holds: the acknowledgement
and the buffer behind it, the buffer from `pos` on, or the two words of an error (`Left`,
`Word`). So `len`, written for a payload and read for an answer, must have been set anew in between
(`Ran`), and nothing of the buffer beyond the answer is reached. A game that is talked over takes a word nobody owes it, and from there to its next command
`Coming` is not claimed; `Astray` is what is known instead: the adapter waits for a command, or
has words of an event left in its buffer, so that no wait runs, the game's own words are answered as idle ones, and a
command finds the adapter where the conversation begins (`Owed`). `PortShape` says that a word
in flight excludes a listening slave, unless it was talked over, so that a word pushed at one comes when
the one before it has been taken. `Clocks` relates
the timer to the wait: what has been listened and what is left are within the configured
time, and a wait has lasted at least what is gone from it. There is a lemma for each state of
the conversation (`SpeaksGoes` to `CollidesGoes`, and `ExchangeAstray` for a game out of step), and four for a line: one on
which nothing is said (`StepPasses`), one that takes a word (`StepResponds`), one
that finds something to tell (`StepTells`), one that ends, or finds, the game talked over (`StepStrays`). The theorem assumes of the constants what the
code has (`WordsAssumption`): a buffer of `MAX_CMD` words, longer than any block and any
event; a word that takes time; a SYSCFG that carries its word.

`AffineFollows` is inductive with the types and one thing more, `LoadedBefore`: a reference was
loaded on this line or an earlier one of this frame, unless the frame's last line is
being drawn, whose successor loads them all. `ReachedNext` is the step between two lines,
one more of the scene's; `ReachedAtOnce` the load, at the top of a frame or by a write
in the middle of it. What the assumption asks is that a game writes halfwords and that the
lines drawn are fewer than the lines of a frame.

`BanksKept` is of steps, and an instruction is a large step: what is shown of it is put together
from relations between the machine before and after that compose. `Within` says that the mode and the
banks away from it are as they were, `UserWithin` the same of every bank but the User one a `^` transfer
writes, `EntersOnly` that every mode sees its registers as before but for the LR of the mode an exception
goes to. `Kept` is the property with the two machines as its arguments, and `set_cpsr`, which moves registers
between the banks and those in force, is shown to move them without changing any. There is a lemma for each instruction of either set, and the invariant is that the
machine is one (`IsMachine`) and its program one there is (`Whole`); what a block transfer
loads or stores is a fold over its list, taken through `FoldProofs`.

`ResultsAreExact` compares the code's expressions, shifts and wraps of a word, with integers and single bits. Its
invariant is `Worded`: the machine is one, and every register, bank and cell of memory holds a word; there is a lemma for
each instruction that it leaves words (`ProperData` to `ProperThumbBlocks`), since a carry out of a value
beyond the width would be another. `ShiftIsBitByBit` is the shifter: one step more of the reference, a shift by one bit,
takes what a shift by `n` has made to what a shift by `n + 1` makes (`LslOn`, `LsrOn`, `AsrOn`, `RorOn`), the last bit out
included, and past the width both stay as they are. `Added`, `Subtracted` and `AddcBoolean` are the flags: an unsigned sum
leaves the word, or a signed one its half, at most once round, so the carry and the overflow are read off the
signs of three words. A logic operation is compared bit by bit (`AluLogic`), as `And`, `Or` and `Xor` are functions on the bits chosen
by their equation. `Compared` puts the conditions together. Of exponents the provers know nothing; `PowersAssumption` says that one more doubles, and
the programs are assumed to be of decoded instructions, each field in its range (`DecodedArm`, `DecodedThumb`).

`ThumbAsArm` holds of each format by a lemma of its own (`...Same`), from the machines that `Worded` leaves, all of whose
registers are words: else an ARM operand, which is wrapped, could differ from a Thumb one, which is not. The
handlers write register, flags and ticks in different orders; these are shown to
commute (`InAnyOrder`, `FlagsAndRegister`). The block moves are folds of different steps, over lists that
differ in a PUSH by the LR: `TracesAgree` compares two folds step by step, from `FoldIsTrace`, and `WithLr`
places the LR last in the ordered list, where the code stores it after the others. A conditional branch is its ARM
form under the same condition, and what the condition sees is the flags before, which `ThumbStepIsArm` carries through the step.

`SkipsAreIdle` is about every loop the watch may find, in any Thumb code. A skip claims that the iteration it leaves
out would have stored nothing and come back to the same registers, and it is taken on the word of one comparison: the registers at two
arrivals, as many instructions apart as the loop is long. The invariant, `IdleIInv`, says why that is enough. The game is
`Poised`: its pipeline holds what was fetched behind R15, so that the state at an arrival is told by registers and memory alone. What the watch
watches is a loop of the code (`Watches`, shown of the search by `LoopFound`): a stretch of instructions none of which stores or leaves,
with a branch back to its head at the end. And since the last arrival either the game has run the loop and nothing else, as a trace of
machines from that arrival (`CleanSince`), or a handler has come between, whose instructions count though the game stands still, and
the game is `Behind`: it has more of the loop to run than the count leaves, and cannot reach the head
in exactly the loop's length. `LoopStep` is one instruction of the loop: it writes neither memory nor a bank (`Spares`) and moves
on by one or back to the head; `ThumbGoes` is every Thumb instruction: it goes on to the next or refills the pipeline. An iteration that begins
and ends with the same registers is then one from a machine to itself, and repeats (`SpinsOn`). The hypothesis, `InRoutine`, is that the
game stays in its routine's code and in that code's instruction set: a step outside of it has no instruction in the model, and TLC would stop at one.
Every state of `hardware` satisfies it. `IdleAssumption` is that a routine's addresses are even and its instructions decoded.

A fold is a function on sets of indices chosen by its recursive equation, and that such
a function exists cannot be had from the library's induction, which takes an operator. `FoldProofs`
declares the step and the property as constants, shows the equation to have a solution and
the property to be kept by the least place at which either would fail, and is instantiated for each
fold a proof meets, the processor's block transfers and the sound's streams and mixer.

`SoundInv` says that the unit has its parts: the streams are sequences of numbers with a period not below 0,
each channel has its place in its waveform, SOUNDCNT_H reads with the bits that reset a queue clear, and what was saved is
the state of such a unit. `LevelBetween` is the interpolation: the part of a period that has passed is at most
256 of 256, so that the quotient lies between its ends whichever is the larger. Every step but
a load leaves what was saved alone and never moves the clock back (`OnOnly`); a load (`BackAsSaved`) ends in
the clock, the streams, the filters and the channels' places that were saved, though the registers are
decoded on the way and may trigger channels: no decoding of a register reaches the streams, or the clock, when the reset
bits are clear, and the places are put back after it. `PcmType` is the hypothesis that what the
cartridge holds are numbers; a score's bytes are numbers by `SoundAssumption`.

The assumptions are the named `ASSUME`s of the modules: the constants have
their types, a modulus, window and threshold are at least 1, and the window is
shorter than a turn.

The `TypeOK` of `CableTransfer`, `RfuAdapter` and `CartridgeClock`, and `ElectionTypeOK`, are proved and
in no run.

`KeepsStep` compares the lead the code computes, from four `u32` counters and two
wrapping subtractions, with the lead that is really there. `SignedOf` is the
arithmetic: a difference taken modulo the turn and read as signed is the difference
itself, when that is within half a turn. What puts it there is `PaceInv`: the two ends
are within `MaxApart` of each other (`ApartInv`), every packet is of a position the
parent had at most `MaxApart` ago (`WireInv`), and while pacing is engaged the anchor
is two positions of one moment and the last report is no older than the silence that
would have ended pacing (`AnchorInv`). Together they bound the lead by
`Silence + 3 * MaxApart`, and `HalfTurnIsEnough` says half a turn exceeds that. With
the code's numbers half a turn is 2^31 cycles, some 7 600 frames, and `Silence` is
two of them. `PacingAssumption` asks for less, and the `pacing` run, whose half turn
is 9 scanlines, is below the theorem's bound; TLC finds the property to hold there
too, within the run's horizon. `ParentReports` needs no such bound: the deadline is
never more than a tick interval from the position it is compared with.

### Only model-checked

* `TransferEnds`, `HeldClockAnswered`, `WaitEnds`, `SessionsLink`, `HalfOpenEnds`,
  `EveryStopEnds`: liveness under fairness, out of the prover's reach.
* `LineShown`, `CallsAnswerExactly`: what a line's layers, a call's loop or a bit stream compute. A
  fold keeps what its steps keep (`FoldProofs`), but that two different recursions, the code's and the
  reference's, arrive at the same is a proof by itself for each of them, and is not made.
* `AsServed`: a run of samples in one go against a chip served at each, two folds of different lengths.
* `GivesBack`: rests on the shape of the handlers in the run's programs, which are values of a constant.

## Findings

* `cable_gaveup`: a transfer the parent has given up on is taken back from the
  child's queue but not from `deferred`, and is not counted in `shifted`. The
  child's store then runs it, and the streams are offset with no counter saying so.
  `OffsetCounted`, in `link`, is what holds: the same with that case excepted.
* `rfu_slot`: a block sent by a client that has been expelled is queued as the
  block of the client its slot went to, against the comment on the very check.
* `rfu_talk`: "The adapter will not talk over a game that still believes it is master, which is what
  the first of those three guards" (`rfu.rs` 1481-1484). That guard stands before the search
  for what happened (1495), not before the push (1534): a game that turns master in
  `WaitResp` with SO and SI low and starts a word has the next word of the event written over its own
  and its start bit cleared. `AdapterAnswers` is about games that are not talked over, and
  about one that was from its next command on.
* `bios_angle`: for a point nearer the y axis than the x axis `arctan2` adds to the axis the
  angle it should take from it, so that (1, 20) comes out beyond the y axis, against its doc,
  "full-circle angle". `CallsAnswerExactly` leaves ArcTan2 out.

Met on the way, among the hazards or left aside by a bound or an exception that says so:

* A block of length 0 is never popped, stays at the head of its queue (`rfu.rs` 1091), and
  closes it. `rfu` takes `Lengths = {1}`.
* `soft_reset` (`hle.rs` 74) leaves `in_intr_wait` as it was. A game that resets from its handler
  while its main program waits starts again with the flag set, and its first wait for
  something new returns on something old. `WaitTakesNew` excepts that wait.
* Two ends that drew the same identity move away from it together, and may do so
  for ever; `SessionsLink` excepts sessions with a collision.
* A host that drops a client for silence while its game issues no command does not
  tell it (`rfu.rs` 1252-1255), and its announcements go on feeding the client's own watchdog
  (1281-1283), so that the client stays attached until its game leaves; a test (2092) calls the client's half
  correct. `AttachedIsBacked` excepts these slots, and `HalfOpenEnds` says nothing of them: it is about slots
  whose owner has gone, and clients whose host has no room any more.
* `Connecting` has no timeout, and a connection is acknowledged by whatever host
  says so: a game that abandons one request for another may be admitted by the
  first. The runs and the theorems take games as patient (`Impatient = FALSE`), and a game
  that is not can be left attached to a room that has let it go (see the proofs).
* `role` is said to be beyond disagreement (`cable.rs` 987). After a restart of one
  session whose announcements are lost, both ends are parents: `HelloLoss = TRUE`
  violates `RolesDiffer`.
* A DMA channel that is dropped at the bound of a drain stays enabled and is not run: the
  timing trigger the comment at `memory.rs` 781 leaves it to is not for immediate
  channels. `StartsOnEdges` excepts it.
* Cycles banked in a timer's divider count at the new rate when the game lowers the
  prescaler of a running timer. `BatchIsCycleByCycle` excepts it.
* A store that sets the start bit while a paced word of the adapter is under way is answered as
  if nothing were plugged in (`memory.rs` 1988). A game lets a word finish before it starts another, so the
  model has this only after a word was talked over, when its start bit is clear early.
* SYSCFG without its word configures the adapter with whatever the buffer held (`rfu.rs` 770).
* The handler that runs while a skipped loop is at its head, and is exactly as long as
  the loop, counts as an iteration (`idle.rs` 131). `SkipsLoseNothing` excepts it.
* An iteration that reads VCOUNT and ends on the next line counts as one that changed nothing,
  although another would change something ("will keep changing nothing until something outside
  the CPU moves", `idle.rs` 140: it has moved). It takes a first arrival within an iteration of the end of a line, after a
  handler for instance; the loop then sees its line at the H-blank. `SkipsLoseNothing`
  excepts it too.
* A gyro line that a store to the direction register raises makes no edge (`sensor.rs`), so
  conversions and clocks are those of stores to data.
* The motor is reported only where it is on at a question or has been seen to be on since the one
  before; one that was on at the last question and is off now is not (`sensor.rs` 286).
* The integer root never returns for the largest word (`hle.rs` 283: the square it
  compares saturates at that word and is never beyond it); the run leaves it out.
* A sound state leaves out envelope volumes, length counters, the sweep's shadow and which
  channels are on (`apu.rs` 961); `LoadsWhatWasSaved` names what it does restore.
* A flash reset leaves a prepared erase prepared (`save.rs` 212).
* A session that is restarted keeps the serial port's and the child's memory of the
  one before.

## Not modelled, and why

`PROJECT.json` gives the reason for every component. In short: the memory map, the
save-state format, the frontend's callbacks and the runner are conversion and I/O; the
translation groundwork is called by nothing but its tests; a cable between two consoles
in one process is plugged in by nothing but one.

Within the parts modelled, statistics and tracing are left out, and so are:

* of the cable: third and fourth players (the code carries the slots but links two
  ends), the wire's version number, and what a restarted session finds of the one before;
* of the adapter: the second to fourth slot, device ids and advertisements as words, the word
  its handshake echoes; the two modules of it share no state, and what one takes from the other
  is its environment;
* of the serial port: UART and JOY BUS, which the code does not carry, stores to part of
  SIOCNT, and a transfer with nothing plugged in;
* of the cartridge: how a chip is detected, the file its save is written to;
* of the console: the V-counter interrupt, EEPROM transfers, transfers into registers other
  than DMA control, handlers that wait or are interrupted themselves, and the cost of
  anything in cycles;
* of the processor: the decoding of an opcode's bits, waitstates, instruction fetch from memory;
* of the idle loop: code a game replaces in RAM;
* of the picture: the output format; the code has no mosaic;
* of the sound: the arithmetic of the resampling filter, whose place in the order is kept.

## Plan

1. *Sessions over the transfer*: `CableElection` composed with what a restarted session keeps
   of its predecessor's sequence numbers, the one hazard about two sessions no property
   covers.
2. *The adapter whole*: `RfuWords` over `RfuAdapter`, its air replaced by the other's rooms and packets;
   an abstract specification of what a wait promises.
3. *Patience*: `RfuAdapter` with a game that abandons a connection (`Impatient`), and a
   second host.
4. *Proofs*: `GivesBack`, from what a handler must look like to give back what it has taken.
