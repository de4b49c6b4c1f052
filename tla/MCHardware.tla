----------------------------- MODULE MCHardware -----------------------------
(* The console's hardware, a unit at a time: the units share nothing but what *)
(* each module takes as its inputs, so that a behaviour runs one of them and  *)
(* leaves the others at rest.                                                 *)
EXTENDS MCProcessor, MCIdleLoop, MCPicture, MCSound, MCBios

VARIABLE unit
hardware == <<unit, vars, idlevars, lcdvars, soundvars, biosvars>>

ProcessorRests == program = "call" /\ m = Refill(CHOOSE x \in MCStarts["call"] : TRUE)
IdleRests == routine = "arm"
PictureRests == scene = [Plain EXCEPT !.forced = TRUE]
SoundRests == score \in Playing
BiosRests == job = [memory |-> <<>>, r |-> Regs(7, 3), call |-> "div"] /\ Called

HardwareInit ==
  /\ unit \in {"processor", "idle", "picture", "sound", "bios"}
  /\ unit # "processor" => ProcessorRests
  /\ unit # "idle" => IdleRests
  /\ unit # "picture" => PictureRests
  /\ unit # "sound" => SoundRests
  /\ ProcessorInit /\ IdleInit /\ LcdInit /\ SoundInit
  /\ IF unit = "bios" THEN BiosInit ELSE BiosRests

ProcessorRuns == unit = "processor" /\ ProcessorNext /\ UNCHANGED <<unit, idlevars, lcdvars, soundvars, biosvars>>
IdleRuns == unit = "idle" /\ IdleNext /\ UNCHANGED <<unit, vars, lcdvars, soundvars, biosvars>>
PictureRuns == unit = "picture" /\ LcdNext /\ UNCHANGED <<unit, vars, idlevars, soundvars, biosvars>>
SoundRuns == unit = "sound" /\ SoundNext /\ UNCHANGED <<unit, vars, idlevars, lcdvars, biosvars>>
BiosRuns == unit = "bios" /\ BiosNext /\ UNCHANGED <<unit, vars, idlevars, lcdvars, soundvars>>
HardwareNext == ProcessorRuns \/ IdleRuns \/ PictureRuns \/ SoundRuns \/ BiosRuns
HardwareSpec == HardwareInit /\ [][HardwareNext]_hardware
=============================================================================
