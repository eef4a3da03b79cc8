-------------------------------- MODULE MCFsm --------------------------------
(* Instances of VitoFsm for TLC. *)
EXTENDS VitoFsm

\* Raw reads and events give Virtual_READ and Virtual_WRITE (str2CmdType).
Supported == {"p300ReadData", "p300WriteData"}

\* Every other name in the XML gives nop, which a VWrite of an event that is
\* only writable issues as its read (commands.go:182, 195).
AnyCommand == Supported \cup {"nop"}
==============================================================================
