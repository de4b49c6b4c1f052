----------------------------- MODULE MCCartridge -----------------------------
(* What a cartridge adds to the console, a chip at a time: the real-time      *)
(* clock, the save chip, and the sensors and the motor.                       *)
EXTENDS MCCartridgeClock, MCBackup, MCMotion

VARIABLE chip
cartridge == <<chip, vars, backupvars, motionvars>>

CartridgeInit ==
  /\ chip \in {"clock", "backup", "motion"}
  /\ Init /\ (chip # "clock" => now = Unset)
  /\ BackupInit /\ (chip # "backup" => kind = "sram")
  /\ MotionInit /\ (chip # "motion" => cart = "motor")

ClockRuns == chip = "clock" /\ Next /\ UNCHANGED <<chip, backupvars, motionvars>>
BackupRuns == chip = "backup" /\ BackupNext /\ UNCHANGED <<chip, vars, motionvars>>
MotionRuns == chip = "motion" /\ MotionNext /\ UNCHANGED <<chip, vars, backupvars>>
\* A console may stay off, and a game stop using its save chip or its sensors; the
\* clock's bounds never stop one that uses it.
LeftAlone == (chip # "clock" \/ ~running) /\ UNCHANGED cartridge
CartridgeNext == ClockRuns \/ BackupRuns \/ MotionRuns \/ LeftAlone
CartridgeSpec == CartridgeInit /\ [][CartridgeNext]_cartridge
=============================================================================
