---------------------------- MODULE BoardAccessMC ----------------------------
(***************************************************************************)
(* BoardAccess with a register of 32 bits and waveforms of four points:    *)
(* the IOC's 32-bit calls and waveformRead beside those of the command     *)
(* line tool, and of a program that uses the device file directly.         *)
(***************************************************************************)
EXTENDS BoardAccess

CONSTANTS ioc, tool

MCUsers         == {ioc, tool}
MCRegisterBytes == 0 .. 3
MCWaveformBytes == 4 .. 11

Access(cmd, offset, length) == [cmd |-> cmd, offset |-> offset, length |-> length]

MCCallsOf ==
    [u \in MCUsers |->
       IF u = ioc
       THEN {Access("RD_VALUE_32", 0, 4), Access("WR_VALUE_32", 0, 4),
             Access("waveformRead", 4, 8)}
       ELSE {Access("RD_VALUE_8", 1, 1), Access("WR_VALUE_8", 1, 1),
             Access("RD_VALUE_16", 2, 2), Access("WR_VALUE_16", 2, 2),
             Access("RD_WAVEFORM", 4, 4), Access("read", 0, 2), Access("write", 0, 5)}]
=============================================================================
