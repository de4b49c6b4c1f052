-------------------------- MODULE MCCartridgeClock --------------------------
(* Model-checking instance of CartridgeClock: the century the clock counts,    *)
(* and a game that uses it from the last second of a year.                     *)
EXTENDS CartridgeClock

CommandByte(code, reads) ==
  <<0, 1, 1, 0, code % 2, (code \div 2) % 2, code \div 4, IF reads THEN 1 ELSE 0>>

Sent ==
  { CommandByte(RESET, FALSE), CommandByte(CONTROL, FALSE), CommandByte(CONTROL, TRUE),
    CommandByte(DATETIME, FALSE), CommandByte(DATETIME, TRUE), CommandByte(TIME, TRUE),
    <<1, 0, 1, 0, 0, 1, 0, 1>>,       \* not a command
    <<0, 0, 0, 0, 0, 0, 1, 0>> }      \* 24-hour mode

Y2000 == DaysFromCivil([y |-> 2000, m |-> 1, d |-> 1])
Y2100 == DaysFromCivil([y |-> 2100, m |-> 3, d |-> 2])
FirstUse == {DaysFromCivil([y |-> 2026, m |-> 12, d |-> 31])}
=============================================================================
