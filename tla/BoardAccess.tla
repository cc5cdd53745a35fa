----------------------------- MODULE BoardAccess -----------------------------
(***************************************************************************)
(* The way of an access to the board: the functions of cpciAccess.c, the   *)
(* ioctl commands, read and write of pci_driver_llrf.c behind them.  The   *)
(* threads of the IOC and the command line tool call them concurrently and *)
(* the kernel module takes no lock: what keeps the calls apart is that     *)
(* each has its own IO_VALUE and reaches the board in one access.          *)
(*                                                                         *)
(* A byte is represented by who wrote it: a user, or the FPGA in its n-th  *)
(* capture.  External: the board performs an aligned access of 8, 16 or 32 *)
(* bits at once; copy_to_user and copy_from_user between the board and a   *)
(* user go in pieces of any size; the FPGA replaces a 16-bit point of the  *)
(* waveforms at once.  Buffers of callers are valid.                       *)
(***************************************************************************)
EXTENDS Integers

CONSTANTS Users,        \* threads with the device file open
          RegisterBytes, WaveformBytes,  \* the board: two intervals of offsets
          CallsOf,      \* CallsOf[u]: the calls u makes
          MaxCaptures,  \* bound on points the FPGA replaces
          Unset         \* a byte nobody has written

Bytes == RegisterBytes \cup WaveformBytes
Marks == Users \cup {Unset} \cup 0 .. MaxCaptures

ValueReads  == {"RD_VALUE_8", "RD_VALUE_16", "RD_VALUE_32"}
ValueWrites == {"WR_VALUE_8", "WR_VALUE_16", "WR_VALUE_32"}
Commands == ValueReads \cup ValueWrites
              \cup {"waveformRead", "RD_WAVEFORM", "read", "write"}

Own(c) == c.offset .. c.offset + c.length - 1

(* The points are of two bytes and aligned. *)
ASSUME BytesAssumption ==
    /\ RegisterBytes \subseteq Nat
    /\ WaveformBytes \subseteq Nat
    /\ RegisterBytes \cap WaveformBytes = {}
    /\ \A o \in WaveformBytes : o % 2 = 0 => o + 1 \in WaveformBytes

(* The callers pass a UINT8, a UINT16 or a UINT32; waveformRead refuses a   *)
(* length that is no multiple of 4; read and write begin at remapAddr + 0.  *)
(* 16- and 32-bit accesses are aligned, as those of the IOC are: every      *)
(* register of it, and WAVEFORM_OFFSET, is at a multiple of 4.  The command *)
(* line tool accepts any address; its unaligned accesses are not modelled.  *)
ASSUME CallsAssumption ==
    \A u \in Users : \A c \in CallsOf[u] :
        /\ c \in [cmd : Commands, offset : Nat, length : Nat \ {0}]
        /\ Own(c) \subseteq Bytes
        /\ c.cmd \in {"RD_VALUE_8", "WR_VALUE_8"} => c.length = 1
        /\ c.cmd \in {"RD_VALUE_16", "WR_VALUE_16"} => c.length = 2 /\ c.offset % 2 = 0
        /\ c.cmd \in {"RD_VALUE_32", "WR_VALUE_32"} => c.length = 4 /\ c.offset % 4 = 0
        /\ c.cmd \in {"read", "write"} => c.offset = 0
        /\ c.cmd = "waveformRead" => /\ c.offset % 4 = 0
                                     /\ c.length % 4 = 0
                                     /\ Own(c) \subseteq WaveformBytes

ASSUME MarkAssumption ==
    /\ Unset \notin Users \cup Nat
    /\ Users \cap Nat = {}
    /\ MaxCaptures \in Nat

VARIABLES
    memory,     \* the bytes behind remapAddr
    pc, call,   \* per user: where it is, the call it makes
    ioValue,    \* ... its IO_VALUE in the kernel: offset and value
    done,       \* ... bytes done of a call of several accesses
    buffer,     \* ... the bytes returned to it
    captures    \* points the FPGA replaced

user == <<pc, call, ioValue, done, buffer>>
vars == <<memory, user, captures>>

(* Mutants: WR_VALUE_8 by REG_WRITE16; waveformRead by uint8Read. *)
WidthWide(cmd) == IF cmd = "RD_VALUE_8" THEN 1
                  ELSE IF cmd \in {"WR_VALUE_8", "RD_VALUE_16", "WR_VALUE_16"}
                  THEN 2 ELSE 4
WidthByte(cmd) == IF cmd \in {"RD_VALUE_8", "WR_VALUE_8", "waveformRead"} THEN 1
                  ELSE IF cmd \in {"RD_VALUE_16", "WR_VALUE_16"} THEN 2
                  ELSE 4

(* The width of the access, in bytes; waveformRead calls uint32Read. *)
Width(cmd) == IF cmd \in {"RD_VALUE_8", "WR_VALUE_8"} THEN 1
              ELSE IF cmd \in {"RD_VALUE_16", "WR_VALUE_16"} THEN 2
              ELSE 4

(* The n bytes at offset o of memory m. *)
Lanes(m, o, n) == [i \in 0 .. n - 1 |-> m[o + i]]

NoCall  == [cmd |-> "none", offset |-> 0, length |-> 0]
NoValue == [offset |-> 0, value |-> Lanes(<<>>, 0, 0)]

Init ==
    /\ memory = [b \in Bytes |-> IF b \in WaveformBytes THEN 0 ELSE Unset]
    /\ pc = [u \in Users |-> "idle"]
    /\ call = [u \in Users |-> NoCall]
    /\ ioValue = [u \in Users |-> NoValue]
    /\ done = [u \in Users |-> 0]
    /\ buffer = [u \in Users |-> NoValue.value]
    /\ captures = 0

-----------------------------------------------------------------------------
(* cpciAccess.c: the caller's IO_VALUE or buffer, and the ioctl. *)
Enter(u) ==
    /\ pc[u] = "idle"
    /\ \E c \in CallsOf[u] :
         /\ call' = [call EXCEPT ![u] = c]
         /\ pc' = [pc EXCEPT ![u] = IF c.cmd \in {"RD_WAVEFORM", "read", "write"}
                                    THEN "bulk" ELSE "copy_in"]
         /\ buffer' = [buffer EXCEPT ![u] = [i \in 0 .. c.length - 1 |-> Unset]]
    /\ UNCHANGED <<memory, ioValue, done, captures>>

(* Mutant: one IO_VALUE for all callers, a static of the kernel module. *)
CopyFromUserShared(u) ==
    /\ pc[u] = "copy_in"
    /\ pc' = [pc EXCEPT ![u] = "access"]
    /\ ioValue' = [v \in Users |->
                     [offset |-> call[u].offset + done[u],
                      value |-> [i \in 0 .. 3 |-> u]]]
    /\ UNCHANGED <<memory, call, done, buffer, captures>>

(* copy_from_user of the IO_VALUE: where to access and what to write. *)
CopyFromUser(u) ==
    /\ pc[u] = "copy_in"
    /\ pc' = [pc EXCEPT ![u] = "access"]
    /\ ioValue' = [ioValue EXCEPT ![u] =
                     [offset |-> call[u].offset + done[u],
                      value |-> [i \in 0 .. Width(call[u].cmd) - 1 |-> u]]]
    /\ UNCHANGED <<memory, call, done, buffer, captures>>

(* REG_READ8, REG_READ16, REG_READ32 *)
RegRead(u) ==
    /\ pc[u] = "access" /\ call[u].cmd \notin ValueWrites
    /\ pc' = [pc EXCEPT ![u] = "copy_out"]
    /\ ioValue' = [ioValue EXCEPT ![u].value =
                     Lanes(memory, ioValue[u].offset, Width(call[u].cmd))]
    /\ UNCHANGED <<memory, call, done, buffer, captures>>

(* REG_WRITE8, REG_WRITE16, REG_WRITE32 *)
RegWrite(u) ==
    /\ pc[u] = "access" /\ call[u].cmd \in ValueWrites
    /\ pc' = [pc EXCEPT ![u] = "return"]
    /\ memory' = [b \in Bytes |->
                    IF b - ioValue[u].offset \in 0 .. Width(call[u].cmd) - 1
                    THEN ioValue[u].value[b - ioValue[u].offset] ELSE memory[b]]
    /\ UNCHANGED <<call, ioValue, done, buffer, captures>>

(* Mutant: waveformRead with <= for <. *)
CopyToUserPast(u) ==
    /\ pc[u] = "copy_out"
    /\ buffer' = [buffer EXCEPT ![u] =
                    [i \in DOMAIN buffer[u] |->
                       IF i - done[u] \in DOMAIN ioValue[u].value
                       THEN ioValue[u].value[i - done[u]] ELSE buffer[u][i]]]
    /\ done' = [done EXCEPT ![u] = @ + Width(call[u].cmd)]
    /\ pc' = [pc EXCEPT ![u] = IF /\ call[u].cmd = "waveformRead"
                                  /\ done'[u] <= call[u].length
                               THEN "copy_in" ELSE "return"]
    /\ UNCHANGED <<memory, call, ioValue, captures>>

(* copy_to_user of the IO_VALUE, and the caller takes the value from it;    *)
(* waveformRead goes on to the next word.                                   *)
CopyToUser(u) ==
    /\ pc[u] = "copy_out"
    /\ buffer' = [buffer EXCEPT ![u] =
                    [i \in DOMAIN buffer[u] |->
                       IF i - done[u] \in DOMAIN ioValue[u].value
                       THEN ioValue[u].value[i - done[u]] ELSE buffer[u][i]]]
    /\ done' = [done EXCEPT ![u] = @ + Width(call[u].cmd)]
    /\ pc' = [pc EXCEPT ![u] = IF done'[u] < call[u].length THEN "copy_in" ELSE "return"]
    /\ UNCHANGED <<memory, call, ioValue, captures>>

(* Piece n of a copy between the board and the caller's buffer. *)
Bulk(u, n) ==
    /\ pc[u] = "bulk"
    /\ done' = [done EXCEPT ![u] = @ + n]
    /\ pc' = [pc EXCEPT ![u] = IF done'[u] < call[u].length THEN "bulk" ELSE "return"]
    /\ UNCHANGED <<call, ioValue, captures>>

Piece(u, n) == done[u] .. done[u] + n - 1

(* RD_WAVEFORM, and pci_read, whose offset is 0: copy_to_user. *)
BulkRead(u, n) ==
    /\ Bulk(u, n)
    /\ call[u].cmd \in {"RD_WAVEFORM", "read"}
    /\ buffer' = [buffer EXCEPT ![u] =
                    [i \in DOMAIN buffer[u] |->
                       IF i \in Piece(u, n) THEN memory[call[u].offset + i]
                                            ELSE buffer[u][i]]]
    /\ UNCHANGED memory

(* pci_write: copy_from_user to offset 0. *)
BulkWrite(u, n) ==
    /\ Bulk(u, n)
    /\ call[u].cmd = "write"
    /\ memory' = [b \in Bytes |->
                    IF b - call[u].offset \in Piece(u, n) THEN u ELSE memory[b]]
    /\ UNCHANGED buffer

Return(u) ==
    /\ pc[u] = "return"
    /\ pc' = [pc EXCEPT ![u] = "idle"]
    /\ call' = [call EXCEPT ![u] = NoCall]
    /\ ioValue' = [ioValue EXCEPT ![u] = NoValue]
    /\ done' = [done EXCEPT ![u] = 0]
    /\ buffer' = [buffer EXCEPT ![u] = NoValue.value]
    /\ UNCHANGED <<memory, captures>>

(* The FPGA replaces a point. *)
Capture ==
    /\ captures < MaxCaptures
    /\ captures' = captures + 1
    /\ \E o \in WaveformBytes :
         /\ o % 2 = 0
         /\ memory' = [b \in Bytes |-> IF b \div 2 = o \div 2 THEN captures' ELSE memory[b]]
    /\ UNCHANGED user

Next == \/ \E u \in Users :
              \/ Enter(u) \/ CopyFromUser(u) \/ RegRead(u) \/ RegWrite(u)
              \/ CopyToUser(u) \/ Return(u)
              \/ \E n \in 1 .. call[u].length - done[u] : BulkRead(u, n) \/ BulkWrite(u, n)
        \/ Capture

Spec == Init /\ [][Next]_vars

-----------------------------------------------------------------------------
(* Every variable holds a value of the program; a call goes on only while   *)
(* there is room in the caller's buffer.                                    *)
TypeOK ==
    /\ memory \in [Bytes -> Marks]
    /\ pc \in [Users -> {"idle", "copy_in", "access", "copy_out", "bulk", "return"}]
    /\ DOMAIN call = Users /\ DOMAIN ioValue = Users
    /\ DOMAIN buffer = Users
    /\ done \in [Users -> Nat]
    /\ \A u \in Users :
         /\ call[u] \in CallsOf[u] \cup {NoCall}
         /\ pc[u] = "idle" <=> call[u] = NoCall
         /\ pc[u] \in {"copy_in", "bulk"} => done[u] < call[u].length
         /\ done[u] <= call[u].length
         /\ buffer[u] \in [0 .. call[u].length - 1 -> Marks]
    /\ captures \in 0 .. MaxCaptures

(* The two bytes x and y of a point are not of two captures.                *)
WholePoint(x, y) ==
    /\ x # Unset /\ y # Unset
    /\ (x \in Nat /\ y \in Nat) => x = y

(* The points waveformRead returns are whole: no point is put together from *)
(* the bytes of two captures although the FPGA goes on during the read.     *)
PointsWhole ==
    \A u \in Users :
        (pc[u] = "return" /\ call[u].cmd = "waveformRead") =>
            \A i \in DOMAIN buffer[u] :
                i % 2 = 0 => WholePoint(buffer[u][i], buffer[u][i + 1])

(* No access changes a byte outside the write that makes it: neither the    *)
(* neighbours in the word, nor what another call asked for; and the FPGA    *)
(* changes waveforms only.                                                  *)
OnlyOwnBytes ==
    [][\A b \in Bytes :
          memory'[b] # memory[b] =>
             \/ b \in WaveformBytes /\ memory'[b] = captures + 1
             \/ \E u \in Users : /\ memory'[b] = u
                                 /\ call[u].cmd \in ValueWrites \cup {"write"}
                                 /\ b \in Own(call[u])]_vars

-----------------------------------------------------------------------------
(* What the callers may rely on is BoardService: a read takes effect at     *)
(* RegRead, a write at RegWrite, and everything before and after them, the  *)
(* copying of the IO_VALUE, is a stutter or the call and its answer.        *)

OneByOne == ValueReads \cup ValueWrites \cup {"waveformRead"}

Got(u) == IF call[u].cmd \notin OneByOne THEN 0
          ELSE IF pc[u] = "copy_out" THEN done[u] + Width(call[u].cmd)
          ELSE IF pc[u] = "return"   THEN call[u].length
          ELSE done[u]

Reply(u) == IF call[u].cmd \in ValueWrites
            THEN NoValue.value
            ELSE [i \in 0 .. Got(u) - 1 |->
                    IF i < done[u] THEN buffer[u][i] ELSE ioValue[u].value[i - done[u]]]

ServiceGot   == [u \in Users |-> Got(u)]
ServiceReply == [u \in Users |-> Reply(u)]

Service == INSTANCE BoardService WITH
    Captures <- 0 .. MaxCaptures,
    got      <- ServiceGot,
    reply    <- ServiceReply

(* Although the kernel module takes no lock and copies in and out, each     *)
(* call reads or writes its register, or a word of its waveforms, at one    *)
(* instant between its call and its return, whatever calls run beside it.   *)
ImplementsBoardService == Service!Spec

-----------------------------------------------------------------------------
(* What each step of a call has established; with TypeOK, inductive.        *)

PointsInv == \A o \in WaveformBytes : o % 2 = 0 => WholePoint(memory[o], memory[o + 1])

(* An ioctl goes by its IO_VALUE alone, which is the caller's own. *)
StepInv(u) ==
    LET c == call[u]
        n == Width(c.cmd)
    IN  /\ pc[u] = "bulk" => c.cmd \in {"RD_WAVEFORM", "read", "write"}
        /\ pc[u] \in {"copy_in", "access", "copy_out"} =>
              /\ c.cmd \in ValueReads \cup ValueWrites \cup {"waveformRead"}
              /\ c.cmd # "waveformRead" => done[u] = 0
              /\ done[u] + n <= c.length
        /\ pc[u] \in {"access", "copy_out"} => ioValue[u].offset = c.offset + done[u]
        /\ pc[u] = "access" => ioValue[u].value = [i \in 0 .. n - 1 |-> u]
        /\ pc[u] = "copy_out" => /\ c.cmd \notin ValueWrites
                                 /\ ioValue[u].value \in [0 .. n - 1 -> Marks]
        /\ (pc[u] = "return" /\ c.cmd \in ValueReads \cup {"waveformRead"}) =>
              done[u] = c.length

(* waveformRead has whole points in the words it has copied. *)
WordsInv(u) ==
    LET c == call[u]
    IN  c.cmd = "waveformRead" =>
          /\ done[u] % 4 = 0
          /\ pc[u] = "copy_out" =>
                \A i \in {0, 2} : WholePoint(ioValue[u].value[i], ioValue[u].value[i + 1])
          /\ \A i \in 0 .. done[u] - 1 :
                i % 2 = 0 => WholePoint(buffer[u][i], buffer[u][i + 1])

IInv == /\ TypeOK
        /\ PointsInv
        /\ \A u \in Users : StepInv(u) /\ WordsInv(u)
=============================================================================
