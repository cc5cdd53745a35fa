------------------------- MODULE BoardAccess_proofs -------------------------
(***************************************************************************)
(* For any number of callers, any calls of the access library, of the tool *)
(* and of the device file, and any memory of the board: what one caller is *)
(* answered and what it changes does not depend on the calls beside it.    *)
(***************************************************************************)
EXTENDS BoardAccess, TLAPS

(* What the library, and the kernel's case for a command, say of a call.    *)
LEMMA CallFacts ==
    ASSUME NEW u \in Users, NEW c \in CallsOf[u]
    PROVE  /\ c.cmd \in Commands /\ c.offset \in Nat /\ c.length \in Nat \ {0}
           /\ c # NoCall
           /\ Own(c) \subseteq Bytes
           /\ Width(c.cmd) \in {1, 2, 4}
           /\ c.cmd \in ValueReads \cup ValueWrites => Width(c.cmd) = c.length
           /\ c.cmd = "waveformRead" => /\ Width(c.cmd) = 4
                                        /\ c.offset % 2 = 0 /\ c.length % 4 = 0
                                        /\ Own(c) \subseteq WaveformBytes
<1>1. c \in [cmd : Commands, offset : Nat, length : Nat \ {0}] /\ c # NoCall
  BY CallsAssumption DEF NoCall
<1>2. Own(c) \subseteq Bytes
  BY CallsAssumption
<1>3. /\ c.cmd \in {"RD_VALUE_8", "WR_VALUE_8"} => c.length = 1
      /\ c.cmd \in {"RD_VALUE_16", "WR_VALUE_16"} => c.length = 2
      /\ c.cmd \in {"RD_VALUE_32", "WR_VALUE_32"} => c.length = 4
  BY CallsAssumption
<1>4. c.cmd = "waveformRead" => /\ c.offset % 2 = 0 /\ c.length % 4 = 0
                                /\ Own(c) \subseteq WaveformBytes
  <2>1. c.cmd = "waveformRead" => /\ c.offset % 4 = 0 /\ c.length % 4 = 0
                                  /\ Own(c) \subseteq WaveformBytes
    BY CallsAssumption
  <2> QED
    BY <1>1, <2>1
<1> QED
  BY <1>1, <1>2, <1>3, <1>4 DEF Width, ValueReads, ValueWrites

(* A call in progress is one of its caller's. *)
LEMMA InCall ==
    ASSUME TypeOK, NEW u \in Users, pc[u] # "idle"
    PROVE  call[u] \in CallsOf[u]
BY DEF TypeOK

(* IInv holds before the first call.                                        *)
LEMMA AccessInit == Init => IInv
<1> SUFFICES ASSUME Init PROVE IInv
  OBVIOUS
<1> USE DEF Init
<1>1. memory \in [Bytes -> Marks] /\ captures \in 0 .. MaxCaptures
  BY MarkAssumption DEF Marks
<1>2. TypeOK
  <2>1. ASSUME NEW u \in Users
        PROVE  /\ call[u] = NoCall /\ pc[u] = "idle" /\ done[u] = 0
               /\ buffer[u] \in [0 .. NoCall.length - 1 -> Marks]
               /\ NoCall.length = 0
    BY DEF NoCall, NoValue, Lanes
  <2> QED
    BY <1>1, <2>1 DEF TypeOK
<1>3. PointsInv
  BY BytesAssumption, MarkAssumption DEF PointsInv, WholePoint, Bytes
<1>4. \A u \in Users : StepInv(u) /\ WordsInv(u)
  BY DEF StepInv, WordsInv, NoCall, ValueReads
<1> QED
  BY <1>2, <1>3, <1>4 DEF IInv

(* A caller whose call another step does not touch: nothing said of it      *)
(* depends on the memory.                                                   *)
LEMMA OthersKeep ==
    ASSUME IInv, NEW v \in Users,
           pc'[v] = pc[v], call'[v] = call[v], ioValue'[v] = ioValue[v],
           done'[v] = done[v], buffer'[v] = buffer[v]
    PROVE  StepInv(v)' /\ WordsInv(v)'
BY DEF IInv, StepInv, WordsInv

(* A new call: nothing is done.                                             *)
LEMMA EnterKeeps == ASSUME IInv, NEW u \in Users, Enter(u) PROVE IInv'
<1> USE DEF Enter
<1>1. PICK c \in CallsOf[u] :
        /\ call' = [call EXCEPT ![u] = c]
        /\ pc' = [pc EXCEPT ![u] = IF c.cmd \in {"RD_WAVEFORM", "read", "write"}
                                   THEN "bulk" ELSE "copy_in"]
        /\ buffer' = [buffer EXCEPT ![u] = [i \in 0 .. c.length - 1 |-> Unset]]
  OBVIOUS
<1>2. done[u] = 0
  BY DEF IInv, TypeOK, NoCall
<1>3. TypeOK'
  BY <1>1, <1>2, CallFacts DEF IInv, TypeOK, Marks
<1>4. PointsInv'
  BY DEF IInv, PointsInv
<1>5. ASSUME NEW v \in Users PROVE StepInv(v)' /\ WordsInv(v)'
  <2>1. CASE v # u
    BY <1>1, <1>5, <2>1, OthersKeep DEF IInv, TypeOK
  <2>2. CASE v = u
    <3>1. call'[u] = c /\ done'[u] = 0 /\ pc'[u] \in {"copy_in", "bulk"}
      BY <1>1, <1>2 DEF IInv, TypeOK
    <3>2. StepInv(u)'
      <4>1. call'[u] \in CallsOf[u] /\ pc'[u] \notin {"access", "copy_out"}
        BY <1>1, <3>1
      <4>2. /\ pc'[u] = "bulk" => c.cmd \in {"RD_WAVEFORM", "read", "write"}
            /\ pc'[u] = "copy_in" => c.cmd \notin {"RD_WAVEFORM", "read", "write"}
        BY <1>1 DEF IInv, TypeOK
      <4>3. Width(c.cmd) <= c.length \/ c.cmd \in {"RD_WAVEFORM", "read", "write"}
        BY CallFacts DEF Commands
      <4> QED
        BY <3>1, <4>1, <4>2, <4>3, CallFacts DEF StepInv, Commands
    <3>3. WordsInv(u)'
      BY <1>1, <3>1 DEF IInv, TypeOK, WordsInv
    <3> QED
      BY <2>2, <3>2, <3>3
  <2> QED
    BY <2>1, <2>2
<1> QED
  BY <1>3, <1>4, <1>5 DEF IInv

(* The IO_VALUE is the caller's own.                                        *)
LEMMA CopyFromUserKeeps == ASSUME IInv, NEW u \in Users, CopyFromUser(u) PROVE IInv'
<1> USE DEF CopyFromUser
<1>1. TypeOK'
  BY DEF IInv, TypeOK
<1>2. PointsInv'
  BY DEF IInv, PointsInv
<1>3. ASSUME NEW v \in Users PROVE StepInv(v)' /\ WordsInv(v)'
  <2>1. CASE v # u
    BY <1>3, <2>1, OthersKeep DEF IInv, TypeOK
  <2>2. CASE v = u
    <3>1. StepInv(u)'
      BY DEF IInv, TypeOK, StepInv
    <3>2. WordsInv(u)'
      BY DEF IInv, TypeOK, WordsInv
    <3> QED
      BY <2>2, <3>1, <3>2
  <2> QED
    BY <2>1, <2>2
<1> QED
  BY <1>1, <1>2, <1>3 DEF IInv

(* The lanes an access reaches are the caller's own bytes. *)
LEMMA AccessInside ==
    ASSUME IInv, NEW u \in Users, pc[u] = "access"
    PROVE  LET n == Width(call[u].cmd)
           IN  /\ n \in {1, 2, 4}
               /\ ioValue[u].offset = call[u].offset + done[u]
               /\ ioValue[u].offset \in Nat
               /\ done[u] + n <= call[u].length
               /\ \A i \in 0 .. n - 1 : ioValue[u].offset + i \in Own(call[u])
<1>1. call[u] \in CallsOf[u]
  BY InCall DEF IInv
<1>2. done[u] \in Nat /\ done[u] + Width(call[u].cmd) <= call[u].length
  BY DEF IInv, TypeOK, StepInv
<1>3. ioValue[u].offset = call[u].offset + done[u]
  BY DEF IInv, StepInv
<1> QED
  BY <1>1, <1>2, <1>3, CallFacts DEF Own

(* The value read is of two whole points, if it is a word of the waveforms. *)
LEMMA RegReadKeeps == ASSUME IInv, NEW u \in Users, RegRead(u) PROVE IInv'
<1> USE DEF RegRead
<1> DEFINE c == call[u]
           n == Width(c.cmd)
           o == ioValue[u].offset
           value == Lanes(memory, o, n)
<1>1. TypeOK'
  BY DEF IInv, TypeOK
<1>2. PointsInv'
  BY DEF IInv, PointsInv
<1>3. /\ c \in CallsOf[u] /\ n \in {1, 2, 4} /\ o \in Nat /\ done[u] \in Nat
      /\ o = c.offset + done[u] /\ c.offset \in Nat
      /\ done[u] + n <= c.length
      /\ \A i \in 0 .. n - 1 : o + i \in Own(c)
  BY InCall, AccessInside, CallFacts DEF IInv, TypeOK
<1>4. /\ pc'[u] = "copy_out" /\ c.cmd \notin ValueWrites
      /\ ioValue'[u].offset = o /\ ioValue'[u].value = value
  BY DEF IInv, TypeOK
<1>5. StepInv(u)'
  <2>1. value \in [0 .. n - 1 -> Marks]
    BY <1>3, CallFacts DEF Lanes, IInv, TypeOK
  <2> QED
    BY <1>3, <1>4, <2>1 DEF IInv, StepInv
<1>7. WordsInv(u)'
  <2>1. ASSUME c.cmd = "waveformRead", NEW i \in {0, 2}
        PROVE  WholePoint(value[i], value[i + 1])
    <3>1. n = 4 /\ c.offset % 2 = 0 /\ done[u] % 4 = 0 /\ Own(c) \subseteq WaveformBytes
      BY <1>3, <2>1, CallFacts DEF IInv, WordsInv
    <3>2. o + i \in WaveformBytes /\ (o + i) % 2 = 0
      BY <1>3, <3>1
    <3>3. value[i] = memory[o + i] /\ value[i + 1] = memory[o + i + 1]
      BY <1>3, <3>1 DEF Lanes
    <3> QED
      BY <3>2, <3>3 DEF IInv, PointsInv
  <2> HIDE DEF value
  <2> QED
    BY <1>4, <2>1 DEF IInv, WordsInv
<1>8. ASSUME NEW v \in Users, v # u PROVE StepInv(v)' /\ WordsInv(v)'
  BY <1>8, OthersKeep DEF IInv, TypeOK
<1> QED
  BY <1>1, <1>2, <1>5, <1>7, <1>8 DEF IInv

(* Value and range of what a write leaves in the memory. *)
LEMMA RegWriteEffect ==
    ASSUME IInv, NEW u \in Users, RegWrite(u), NEW b \in Bytes
    PROVE  \/ memory'[b] = memory[b]
           \/ memory'[b] = u /\ b \in Own(call[u])
<1>1. /\ ioValue[u].value = [i \in 0 .. Width(call[u].cmd) - 1 |-> u]
      /\ \A i \in 0 .. Width(call[u].cmd) - 1 : ioValue[u].offset + i \in Own(call[u])
      /\ ioValue[u].offset \in Nat
  BY AccessInside DEF RegWrite, IInv, StepInv
<1>2. b \in Nat
  BY BytesAssumption DEF Bytes
<1> QED
  BY <1>1, <1>2 DEF RegWrite

(* The same of a piece of write.                                            *)
LEMMA BulkWriteEffect ==
    ASSUME IInv, NEW u \in Users, NEW n \in 1 .. call[u].length - done[u],
           BulkWrite(u, n), NEW b \in Bytes
    PROVE  \/ memory'[b] = memory[b]
           \/ memory'[b] = u /\ b \in Own(call[u])
<1>1. call[u] \in CallsOf[u] /\ done[u] \in Nat
  BY InCall DEF BulkWrite, Bulk, IInv, TypeOK
<1>2. call[u].offset \in Nat /\ call[u].length \in Nat /\ b \in Nat
  BY <1>1, CallFacts, BytesAssumption DEF Bytes
<1> QED
  BY <1>1, <1>2 DEF BulkWrite, Piece, Own

(* A user's bytes do not make a point one of two captures. *)
LEMMA UserWriteKeepsMemory ==
    ASSUME IInv, NEW u \in Users, memory' = [b \in Bytes |-> memory'[b]],
           \A b \in Bytes : memory'[b] = memory[b] \/ memory'[b] = u
    PROVE  memory' \in [Bytes -> Marks] /\ PointsInv'
<1>1. memory' \in [Bytes -> Marks]
  BY DEF IInv, TypeOK, Marks
<1>2. PointsInv'
  <2> SUFFICES ASSUME NEW o \in WaveformBytes, o % 2 = 0
               PROVE  WholePoint(memory'[o], memory'[o + 1])
    BY DEF PointsInv
  <2>1. o \in Bytes /\ o + 1 \in Bytes
    BY BytesAssumption DEF Bytes
  <2>2. u # Unset /\ u \notin Nat
    BY MarkAssumption
  <2> QED
    BY <2>1, <2>2 DEF IInv, PointsInv, WholePoint
<1> QED
  BY <1>1, <1>2

(* A register write keeps the points whole.                                 *)
LEMMA RegWriteKeeps == ASSUME IInv, NEW u \in Users, RegWrite(u) PROVE IInv'
<1> USE DEF RegWrite
<1>1. memory' \in [Bytes -> Marks] /\ PointsInv'
  BY RegWriteEffect, UserWriteKeepsMemory
<1>2. TypeOK'
  BY <1>1 DEF IInv, TypeOK
<1>3. ASSUME NEW v \in Users PROVE StepInv(v)' /\ WordsInv(v)'
  <2>1. CASE v # u
    BY <1>3, <2>1, OthersKeep DEF IInv, TypeOK
  <2>2. CASE v = u
    BY <2>2 DEF IInv, TypeOK, StepInv, WordsInv, ValueReads, ValueWrites
  <2> QED
    BY <2>1, <2>2
<1> QED
  BY <1>1, <1>2, <1>3 DEF IInv

(* So does a piece of write.                                                *)
LEMMA BulkWriteKeeps ==
    ASSUME IInv, NEW u \in Users, NEW n \in 1 .. call[u].length - done[u],
           BulkWrite(u, n)
    PROVE  IInv'
<1> USE DEF BulkWrite, Bulk
<1>1. memory' \in [Bytes -> Marks] /\ PointsInv'
  BY BulkWriteEffect, UserWriteKeepsMemory
<1>2. call[u] \in CallsOf[u] /\ call[u].length \in Nat /\ done[u] \in Nat
  BY InCall, CallFacts DEF IInv, TypeOK
<1>3. TypeOK'
  BY <1>1, <1>2 DEF IInv, TypeOK
<1>4. ASSUME NEW v \in Users PROVE StepInv(v)' /\ WordsInv(v)'
  <2>1. CASE v # u
    BY <1>4, <2>1, OthersKeep DEF IInv, TypeOK
  <2>2. CASE v = u
    BY <2>2 DEF IInv, TypeOK, StepInv, WordsInv, ValueReads
  <2> QED
    BY <2>1, <2>2
<1> QED
  BY <1>1, <1>3, <1>4 DEF IInv

(* A piece of read or RD_WAVEFORM stays within the caller's buffer.         *)
LEMMA BulkReadKeeps ==
    ASSUME IInv, NEW u \in Users, NEW n \in 1 .. call[u].length - done[u],
           BulkRead(u, n)
    PROVE  IInv'
<1> USE DEF BulkRead, Bulk
<1>1. /\ call[u] \in CallsOf[u] /\ call[u].offset \in Nat /\ call[u].length \in Nat
      /\ Own(call[u]) \subseteq Bytes /\ done[u] \in Nat
  BY InCall, CallFacts DEF IInv, TypeOK
<1>2. TypeOK'
  <2>1. ASSUME NEW i \in 0 .. call[u].length - 1 PROVE memory[call[u].offset + i] \in Marks
    <3>1. call[u].offset + i \in Own(call[u])
      BY <1>1 DEF Own
    <3> QED
      BY <1>1, <3>1 DEF IInv, TypeOK
  <2>2. buffer'[u] \in [0 .. call[u].length - 1 -> Marks]
    BY <2>1 DEF IInv, TypeOK
  <2>3. /\ pc' \in [Users -> {"idle", "copy_in", "access", "copy_out", "bulk", "return"}]
        /\ done' \in [Users -> Nat]
        /\ DOMAIN buffer' = Users
        /\ done'[u] = done[u] + n /\ done'[u] <= call[u].length
        /\ pc'[u] = IF done'[u] < call[u].length THEN "bulk" ELSE "return"
    BY <1>1 DEF IInv, TypeOK
  <2> QED
    BY <1>1, <2>2, <2>3 DEF IInv, TypeOK
<1>3. PointsInv'
  BY DEF IInv, PointsInv
<1>4. ASSUME NEW v \in Users PROVE StepInv(v)' /\ WordsInv(v)'
  <2>1. CASE v # u
    BY <1>4, <2>1, OthersKeep DEF IInv, TypeOK
  <2>2. CASE v = u
    BY <2>2 DEF IInv, TypeOK, StepInv, WordsInv, ValueReads
  <2> QED
    BY <2>1, <2>2
<1> QED
  BY <1>2, <1>3, <1>4 DEF IInv

(* The caller is idle again.                                                *)
LEMMA ReturnKeeps == ASSUME IInv, NEW u \in Users, Return(u) PROVE IInv'
<1> USE DEF Return
<1>1. NoValue.value \in [0 .. NoCall.length - 1 -> Marks] /\ NoCall.length = 0
  BY DEF NoValue, NoCall, Lanes
<1>2. TypeOK'
  BY <1>1 DEF IInv, TypeOK
<1>3. PointsInv'
  BY DEF IInv, PointsInv
<1>4. ASSUME NEW v \in Users PROVE StepInv(v)' /\ WordsInv(v)'
  <2>1. CASE v # u
    BY <1>4, <2>1, OthersKeep DEF IInv, TypeOK
  <2>2. CASE v = u
    <3>1. /\ pc'[u] = "idle"
          /\ call'[u].cmd \notin ValueReads /\ call'[u].cmd # "waveformRead"
      BY DEF IInv, TypeOK, NoCall, ValueReads
    <3> QED
      BY <2>2, <3>1 DEF StepInv, WordsInv
  <2> QED
    BY <2>1, <2>2
<1> QED
  BY <1>2, <1>3, <1>4 DEF IInv

(* The FPGA replaces a point as a whole.                                    *)
LEMMA CaptureKeeps == ASSUME IInv, Capture PROVE IInv'
<1> USE DEF Capture, user
<1>1. PICK o \in WaveformBytes :
        memory' = [b \in Bytes |-> IF b \div 2 = o \div 2 THEN captures' ELSE memory[b]]
  OBVIOUS
<1>2. captures' \in 0 .. MaxCaptures /\ captures' # Unset
  BY MarkAssumption DEF IInv, TypeOK
<1>3. TypeOK'
  <2>1. memory' \in [Bytes -> Marks]
    BY <1>1, <1>2 DEF IInv, TypeOK, Marks
  <2> QED
    BY <1>2, <2>1 DEF IInv, TypeOK
<1>4. PointsInv'
  <2> SUFFICES ASSUME NEW p \in WaveformBytes, p % 2 = 0
               PROVE  WholePoint(memory'[p], memory'[p + 1])
    BY DEF PointsInv
  <2>1. p \in Bytes /\ p + 1 \in Bytes /\ p \in Nat
    BY BytesAssumption DEF Bytes
  <2>2. (p + 1) \div 2 = p \div 2
    BY <2>1
  <2>3. WholePoint(memory[p], memory[p + 1]) /\ WholePoint(captures', captures')
    BY <1>2 DEF IInv, PointsInv, WholePoint
  <2> QED
    BY <1>1, <2>1, <2>2, <2>3
<1>5. ASSUME NEW v \in Users PROVE StepInv(v)' /\ WordsInv(v)'
  BY OthersKeep
<1> QED
  BY <1>3, <1>4, <1>5 DEF IInv

(* A word of whole points behind whole points. *)
LEMMA CopyWord ==
    ASSUME NEW L \in Nat, NEW d \in Nat, NEW e, e = d + 4,
           L % 4 = 0, d % 4 = 0, e <= L,
           NEW val, NEW buf, NEW copy,
           \A i \in 0 .. L - 1 :
               copy[i] = IF i - d \in 0 .. 3 THEN val[i - d] ELSE buf[i],
           \A i \in {0, 2} : WholePoint(val[i], val[i + 1]),
           \A i \in 0 .. d - 1 : i % 2 = 0 => WholePoint(buf[i], buf[i + 1])
    PROVE  /\ e % 4 = 0
           /\ e < L => e + 4 <= L
           /\ \A i \in 0 .. e - 1 : i % 2 = 0 => WholePoint(copy[i], copy[i + 1])
<1>1. e % 4 = 0 /\ (e < L => e + 4 <= L)
  OBVIOUS
<1>2. ASSUME NEW i \in 0 .. e - 1, i % 2 = 0 PROVE WholePoint(copy[i], copy[i + 1])
  <2>1. CASE i < d
    <3>1. i \in 0 .. d - 1 /\ i + 1 < d
      BY <1>2, <2>1
    <3>2. copy[i] = buf[i] /\ copy[i + 1] = buf[i + 1]
      BY <3>1
    <3> QED
      BY <1>2, <3>1, <3>2
  <2>2. CASE i >= d
    <3>1. i = d \/ i = d + 2
      BY <1>2, <2>2
    <3>2. CASE i = d
      <4>1. copy[i] = val[0] /\ copy[i + 1] = val[0 + 1]
        BY <3>2
      <4> QED
        BY <4>1
    <3>3. CASE i = d + 2
      <4>1. copy[i] = val[2] /\ copy[i + 1] = val[2 + 1]
        BY <3>3
      <4> QED
        BY <4>1
    <3> QED
      BY <3>1, <3>2, <3>3
  <2> QED
    BY <1>2, <2>1, <2>2
<1> QED
  BY <1>1, <1>2

(* The value goes to the caller's buffer: for a register the whole of it,   *)
(* for a waveform the next word behind those done.                          *)
LEMMA CopyToUserKeeps == ASSUME IInv, NEW u \in Users, CopyToUser(u) PROVE IInv'
<1> DEFINE n == Width(call[u].cmd)
           L == call[u].length
           value == ioValue[u].value
<1>1. /\ call[u] \in CallsOf[u] /\ L \in Nat
      /\ n \in {1, 2, 4} /\ done[u] \in Nat /\ done[u] + n <= L
      /\ call[u].cmd \in ValueReads \cup {"waveformRead"}
      /\ value \in [0 .. n - 1 -> Marks]
      /\ buffer[u] \in [0 .. L - 1 -> Marks]
  BY InCall, CallFacts DEF CopyToUser, IInv, TypeOK, StepInv
<1>2. /\ done'[u] = done[u] + n
      /\ pc'[u] = IF done[u] + n < L THEN "copy_in" ELSE "return"
      /\ buffer'[u] = [i \in 0 .. L - 1 |->
                         IF i - done[u] \in 0 .. n - 1 THEN value[i - done[u]]
                                                       ELSE buffer[u][i]]
      /\ pc[u] = "copy_out" /\ call' = call /\ memory' = memory
  BY <1>1 DEF CopyToUser, IInv, TypeOK
<1>3. TypeOK'
  <2>1. buffer'[u] \in [0 .. L - 1 -> Marks]
    <3> HIDE DEF n, L, value
    <3> QED
      BY <1>1, <1>2
  <2> QED
    BY <1>1, <1>2, <2>1 DEF CopyToUser, IInv, TypeOK
<1>4. PointsInv'
  BY <1>2 DEF IInv, PointsInv
<1>5. ASSUME call[u].cmd \in ValueReads
      PROVE  StepInv(u)' /\ WordsInv(u)'
  <2>1. done[u] = 0 /\ n = L
    BY <1>2, <1>5, <1>1, CallFacts DEF IInv, StepInv, ValueReads
  <2>2. pc'[u] = "return"
    BY <1>1, <1>2, <2>1
  <2> QED
    BY <1>1, <1>2, <1>5, <2>1, <2>2 DEF StepInv, WordsInv, ValueReads
<1>6. ASSUME call[u].cmd = "waveformRead"
      PROVE  StepInv(u)' /\ WordsInv(u)'
  <2>1. /\ n = 4 /\ done[u] % 4 = 0 /\ L % 4 = 0
        /\ \A i \in {0, 2} : WholePoint(value[i], value[i + 1])
        /\ \A i \in 0 .. done[u] - 1 :
              i % 2 = 0 => WholePoint(buffer[u][i], buffer[u][i + 1])
    BY <1>1, <1>2, <1>6, CallFacts DEF IInv, WordsInv
  <2> HIDE DEF value, L
  <2>2. /\ done'[u] % 4 = 0
        /\ done'[u] < L => done'[u] + 4 <= L
        /\ \A i \in 0 .. done'[u] - 1 :
              i % 2 = 0 => WholePoint(buffer'[u][i], buffer'[u][i + 1])
    <3> DEFINE d == done[u]
               e == done'[u]
               buf == buffer[u]
               copy == buffer'[u]
    <3>1. L \in Nat /\ d \in Nat /\ e = d + 4 /\ e <= L /\ L % 4 = 0 /\ d % 4 = 0
      BY <1>1, <1>2, <2>1
    <3>2. \A i \in 0 .. L - 1 : copy[i] = IF i - d \in 0 .. 3 THEN value[i - d] ELSE buf[i]
      BY <1>2, <2>1
    <3>3. \A i \in 0 .. d - 1 : i % 2 = 0 => WholePoint(buf[i], buf[i + 1])
      BY <2>1
    <3>4. \A i \in {0, 2} : WholePoint(value[i], value[i + 1])
      BY <2>1
    <3> HIDE DEF d, e, buf, copy
    <3>5. /\ e % 4 = 0
          /\ e < L => e + 4 <= L
          /\ \A i \in 0 .. e - 1 : i % 2 = 0 => WholePoint(copy[i], copy[i + 1])
      BY <3>1, <3>2, <3>3, <3>4, CopyWord
    <3> QED
      BY <3>5 DEF d, e, buf, copy
  <2>3. StepInv(u)'
    BY <1>1, <1>2, <1>6, <2>1, <2>2 DEF L, StepInv, ValueReads, ValueWrites
  <2>4. pc'[u] # "copy_out" /\ (pc'[u] = "return" => done'[u] = L)
    BY <1>1, <1>2, <2>1
  <2>5. WordsInv(u)'
    BY <1>2, <2>2, <2>4 DEF L, WordsInv
  <2> QED
    BY <2>3, <2>5
<1>7. ASSUME NEW v \in Users, v # u PROVE StepInv(v)' /\ WordsInv(v)'
  BY <1>7, OthersKeep DEF CopyToUser, IInv, TypeOK
<1>8. StepInv(u)' /\ WordsInv(u)'
  BY <1>1, <1>5, <1>6
<1> QED
  BY <1>3, <1>4, <1>7, <1>8 DEF IInv

(* Every step keeps IInv.                                                   *)
LEMMA AccessNext == IInv /\ [Next]_vars => IInv'
<1> SUFFICES ASSUME IInv, [Next]_vars PROVE IInv'
  OBVIOUS
<1>1. CASE UNCHANGED vars
  <2>1. TypeOK' /\ PointsInv'
    BY <1>1 DEF vars, user, IInv, TypeOK, PointsInv
  <2>2. ASSUME NEW v \in Users PROVE StepInv(v)' /\ WordsInv(v)'
    BY <1>1, OthersKeep DEF vars, user
  <2> QED
    BY <2>1, <2>2 DEF IInv
<1> QED
  BY <1>1, EnterKeeps, CopyFromUserKeeps, RegReadKeeps, RegWriteKeeps, CopyToUserKeeps,
     BulkReadKeeps, BulkWriteKeeps, ReturnKeeps, CaptureKeeps DEF Next

(* The steps of the calls, and what they establish, hold for any callers.   *)
THEOREM AccessInvariant == Spec => []IInv
BY AccessInit, AccessNext, PTL DEF Spec

(* Every variable keeps its type: no call goes past the caller's buffer     *)
(* (waveformRead, cpciAccess.c:126).                                        *)
THEOREM AccessTypeCorrect == Spec => []TypeOK
<1>1. IInv => TypeOK
  BY DEF IInv
<1> QED
  BY <1>1, AccessInvariant, PTL

(* waveformRead returns whole points from waveforms of any length.          *)
THEOREM WaveformPointsAreWhole == Spec => []PointsWhole
<1>1. IInv => PointsWhole
  BY DEF IInv, TypeOK, StepInv, WordsInv, PointsWhole
<1> QED
  BY <1>1, AccessInvariant, PTL

(* The bytes a step changes are those of the write it belongs to, whatever  *)
(* the widths and the offsets of the calls, or a capture's.                 *)
THEOREM WritesReachOwnBytes == Spec => OnlyOwnBytes
<1> DEFINE Reached(b) ==
             \/ b \in WaveformBytes /\ memory'[b] = captures + 1
             \/ \E u \in Users : /\ memory'[b] = u
                                 /\ call[u].cmd \in ValueWrites \cup {"write"}
                                 /\ b \in Own(call[u])
<1>1. ASSUME IInv, [Next]_vars, NEW b \in Bytes, memory'[b] # memory[b]
      PROVE  Reached(b)
  <2>1. CASE Capture
    <3>1. PICK o \in WaveformBytes :
            /\ o % 2 = 0
            /\ memory' = [p \in Bytes |->
                            IF p \div 2 = o \div 2 THEN captures' ELSE memory[p]]
      BY <2>1 DEF Capture
    <3>2. b \div 2 = o \div 2 /\ memory'[b] = captures + 1
      BY <1>1, <2>1, <3>1 DEF Capture
    <3>3. b = o \/ b = o + 1
      BY <3>1, <3>2, BytesAssumption DEF Bytes
    <3> QED
      BY <3>1, <3>2, <3>3, BytesAssumption
  <2>2. ASSUME NEW u \in Users, RegWrite(u) PROVE Reached(b)
    BY <1>1, <2>2, RegWriteEffect DEF RegWrite
  <2>3. ASSUME NEW u \in Users, NEW n \in 1 .. call[u].length - done[u], BulkWrite(u, n)
        PROVE  Reached(b)
    BY <1>1, <2>3, BulkWriteEffect DEF BulkWrite
  <2> HIDE DEF Reached
  <2> QED
    BY <1>1, <2>1, <2>2, <2>3
       DEF Next, vars, Enter, CopyFromUser, RegRead, CopyToUser, Return, BulkRead
<1>2. IInv /\ [Next]_vars => \A b \in Bytes : memory'[b] # memory[b] => Reached(b)
  BY <1>1
<1> QED
  BY <1>2, AccessInvariant, PTL DEF Spec, OnlyOwnBytes
=============================================================================
