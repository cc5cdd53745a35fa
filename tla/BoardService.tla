----------------------------- MODULE BoardService -----------------------------
(***************************************************************************)
(* What the access library promises its callers: a register is read, or    *)
(* written, as a whole at one instant of the call; waveformRead reads each *)
(* word of 32 bits at one instant; a write of the device file changes its  *)
(* own bytes only; nothing else but a capture of the FPGA changes the      *)
(* board.  Nothing is promised of what read and RD_WAVEFORM return.        *)
(*                                                                         *)
(* There is no IO_VALUE, no ioctl and no copying here.  LlrfPort and       *)
(* Waveforms take an access for one step on the strength of this.          *)
(***************************************************************************)
EXTENDS Integers

CONSTANTS Users,          \* the callers
          Bytes,          \* the board
          WaveformBytes,  \* ... the part the FPGA captures into
          CallsOf,        \* CallsOf[u]: the calls u makes
          NoCall,
          Marks,          \* what a byte holds: who wrote it
          Captures        \* ... of these, the captures of the FPGA

VARIABLES
    memory,     \* the board
    call,       \* per user: the call under way
    got,        \* ... bytes of it that have taken effect
    reply       \* ... the bytes it has read so far

vars == <<memory, call, got, reply>>

Reads  == {"RD_VALUE_8", "RD_VALUE_16", "RD_VALUE_32", "waveformRead"}
Writes == {"WR_VALUE_8", "WR_VALUE_16", "WR_VALUE_32"}

(* What takes effect at once. *)
Unit(c) == IF c.cmd = "waveformRead" THEN 4 ELSE c.length

Own(c) == c.offset .. c.offset + c.length - 1

Nothing == [i \in {} |-> 0]

Init ==
    /\ memory \in [Bytes -> Marks]
    /\ call = [u \in Users |-> NoCall]
    /\ got = [u \in Users |-> 0]
    /\ reply = [u \in Users |-> Nothing]

-----------------------------------------------------------------------------
Ask(u) ==
    /\ call[u] = NoCall
    /\ \E c \in CallsOf[u] : call' = [call EXCEPT ![u] = c]
    /\ UNCHANGED <<memory, got, reply>>

Read(u) ==
    LET c == call[u]
        n == got[u] + Unit(c)
    IN  /\ c.cmd \in Reads
        /\ n <= c.length
        /\ got' = [got EXCEPT ![u] = n]
        /\ reply' = [reply EXCEPT ![u] =
                       [i \in 0 .. n - 1 |-> IF i < got[u] THEN reply[u][i]
                                                           ELSE memory[c.offset + i]]]
        /\ UNCHANGED <<memory, call>>

Write(u) ==
    LET c == call[u]
    IN  /\ c.cmd \in Writes
        /\ got[u] = 0
        /\ got' = [got EXCEPT ![u] = c.length]
        /\ memory' = [b \in Bytes |-> IF b \in Own(c) THEN u ELSE memory[b]]
        /\ UNCHANGED <<call, reply>>

(* A write of the device file, in pieces. *)
WriteBytes(u) ==
    /\ call[u].cmd = "write"
    /\ memory' \in [Bytes -> Marks]
    /\ \A b \in Bytes : \/ memory'[b] = memory[b]
                        \/ memory'[b] = u /\ b \in Own(call[u])
    /\ UNCHANGED <<call, got, reply>>

Answer(u) ==
    /\ call[u] # NoCall
    /\ call[u].cmd \in Reads \cup Writes => got[u] = call[u].length
    /\ call' = [call EXCEPT ![u] = NoCall]
    /\ got' = [got EXCEPT ![u] = 0]
    /\ reply' = [reply EXCEPT ![u] = Nothing]
    /\ UNCHANGED memory

(* The FPGA replaces a point of two bytes. *)
Capture ==
    /\ \E o \in WaveformBytes, m \in Captures :
          memory' = [b \in Bytes |-> IF b \div 2 = o \div 2 THEN m ELSE memory[b]]
    /\ UNCHANGED <<call, got, reply>>

Next == \/ \E u \in Users : \/ Ask(u) \/ Read(u) \/ Write(u)
                            \/ WriteBytes(u) \/ Answer(u)
        \/ Capture

Spec == Init /\ [][Next]_vars
=============================================================================
