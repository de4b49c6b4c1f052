------------------------------ MODULE MCSound ------------------------------
(* Model-checking instance of Sound: queues of eight, requests of one word.   *)
EXTENDS Sound

MCPcm(a) == ((a * 53 + a \div 5) % 256) - 128
Off == [s \in Streams |-> [on |-> FALSE, src |-> 0, step |-> 1]]
On == [s \in Streams |-> [on |-> TRUE, src |-> IF s = "a" THEN 3000 ELSE 4000, step |-> IF s = "a" THEN 1 ELSE -1]]
Power == << <<132, 128>>, <<128, 119>>, <<129, 255>>, <<130, 14>>, <<131, 115>> >>
Halted == [runs |-> {}, most |-> 0, writes |-> {}, periods |-> {}, buffers |-> {}, saves |-> FALSE]

\* Two streams, re-armed in the middle of lines, their timers changed.
Streaming == {[Halted EXCEPT !.runs = {60, 640}, !.most = 2, !.periods = {0, 900}, !.buffers = {1000}]
                @@ [setup |-> Power, dma |-> On, timer |-> [t \in 0..1 |-> p[t + 1]]] : p \in {<<450, 700>>, <<1200, 2000>>}}
\* The game resets a queue, feeds it itself, moves it to the other timer.
Feeding == {[Halted EXCEPT !.runs = {640}, !.most = 2, !.buffers = {2000},
                           !.writes = {<<131, 127>>, <<131, 51>>, <<164, 40>>}]
              @@ [setup |-> Power, dma |-> On, timer |-> [t \in 0..1 |-> 500 + 55 * t]]}
\* Channels: sweep, envelopes, lengths, both noise widths, both wave banks.
Tones == Power \o << <<96, 17>>, <<98, 189>>, <<99, 161>>, <<100, 255>>, <<101, 199>>, <<104, 0>>, <<105, 249>>,
                     <<108, 0>>, <<109, 134>>, <<144, 97>>, <<145, 254>>, <<112, 128>>, <<115, 32>>, <<116, 240>>,
                     <<117, 135>>, <<121, 242>>, <<124, 1>>, <<125, 128>> >>
Playing == {[Halted EXCEPT !.most = 2,
                           !.writes = {<<101, 135>>, <<96, 9>>, <<112, 224>>, <<115, 160>>, <<124, 9>>, <<125, 200>>,
                                       <<105, 0>>, <<132, 0>>}]
              @@ [setup |-> Tones, dma |-> Off, timer |-> [t \in 0..1 |-> 0]]}
Keeping == {[Halted EXCEPT !.most = 3, !.saves = TRUE, !.writes = {<<101, 67>>, <<131, 127>>, <<132, 0>>}]
              @@ [setup |-> Tones, dma |-> On, timer |-> [t \in 0..1 |-> 450]]}
MCScores == Streaming \cup Feeding \cup Playing \cup Keeping
=============================================================================
