------------------------- MODULE BoardService_proofs -------------------------
(***************************************************************************)
(* BoardAccess implements BoardService, step by step and under its         *)
(* inductive invariant: for any callers, calls and board, each access      *)
(* takes effect at one instant of its call, without any lock.              *)
(***************************************************************************)
EXTENDS BoardAccess_proofs

-----------------------------------------------------------------------------
(* What a step does to the mapped state.                                    *)

(* Where nothing has taken effect, nothing has been read.                   *)
LEMMA NothingRead ==
    ASSUME NEW u \in Users, Got(u) = 0 \/ call[u].cmd \in ValueWrites
    PROVE  Reply(u) = Service!Nothing
<1>1. CASE call[u].cmd \in ValueWrites
  BY <1>1 DEF Reply, NoValue, Lanes, Service!Nothing
<1>2. CASE call[u].cmd \notin ValueWrites /\ Got(u) = 0
  BY <1>2 DEF Reply, Service!Nothing
<1> QED
  BY <1>1, <1>2

(* The same in the next state.                                              *)
LEMMA NothingReadNext ==
    ASSUME NEW u \in Users, Got(u)' = 0 \/ call'[u].cmd \in ValueWrites
    PROVE  Reply(u)' = Service!Nothing
<1>1. CASE call'[u].cmd \in ValueWrites
  BY <1>1 DEF Reply, NoValue, Lanes, Service!Nothing
<1>2. CASE call'[u].cmd \notin ValueWrites /\ Got(u)' = 0
  BY <1>2 DEF Reply, Service!Nothing
<1> QED
  BY <1>1, <1>2

(* A caller whose variables a step leaves alone is answered as before.      *)
LEMMA OthersSame ==
    ASSUME NEW v \in Users,
           pc'[v] = pc[v], call'[v] = call[v], ioValue'[v] = ioValue[v],
           done'[v] = done[v], buffer'[v] = buffer[v]
    PROVE  Got(v)' = Got(v) /\ Reply(v)' = Reply(v)
<1>1. Got(v)' = Got(v)
  BY DEF Got
<1> QED
  BY <1>1 DEF Reply

(* The step of one caller.                                                  *)
LEMMA OneSteps ==
    ASSUME NEW u \in Users,
           \A v \in Users \ {u} : Got(v)' = Got(v) /\ Reply(v)' = Reply(v)
    PROVE  /\ ServiceGot' = [ServiceGot EXCEPT ![u] = Got(u)']
           /\ ServiceReply' = [ServiceReply EXCEPT ![u] = Reply(u)']
           /\ Got(u)' = Got(u) => ServiceGot' = ServiceGot
           /\ Reply(u)' = Reply(u) => ServiceReply' = ServiceReply
           /\ ServiceGot[u] = Got(u) /\ ServiceReply[u] = Reply(u)
BY DEF ServiceGot, ServiceReply

-----------------------------------------------------------------------------
(* The steps.                                                               *)

(* Before the first call.                                                   *)
LEMMA ServiceInit == Init => Service!Init
<1> SUFFICES ASSUME Init PROVE Service!Init
  OBVIOUS
<1>1. memory \in [Bytes -> Marks]
  BY AccessInit DEF IInv, TypeOK
<1>2. ASSUME NEW u \in Users PROVE Got(u) = 0
  BY DEF Init, Got, NoCall, OneByOne, ValueReads, ValueWrites
<1>3. ASSUME NEW u \in Users PROVE Reply(u) = Service!Nothing
  BY <1>2, NothingRead
<1> QED
  BY <1>1, <1>2, <1>3 DEF Init, Service!Init, ServiceGot, ServiceReply

(* A caller enters the library: nothing has taken effect.                   *)
LEMMA EnterAsks == ASSUME IInv, NEW u \in Users, Enter(u) PROVE Service!Ask(u)
<1>1. PICK c \in CallsOf[u] :
        /\ call' = [call EXCEPT ![u] = c]
        /\ pc' = [pc EXCEPT ![u] = IF c.cmd \in {"RD_WAVEFORM", "read", "write"}
                                   THEN "bulk" ELSE "copy_in"]
        /\ buffer' = [buffer EXCEPT ![u] = [i \in 0 .. c.length - 1 |-> Unset]]
  BY DEF Enter
<1>2. /\ call[u] = NoCall /\ done[u] = 0 /\ pc[u] = "idle"
      /\ call'[u] = c /\ done'[u] = 0 /\ pc'[u] \in {"copy_in", "bulk"}
      /\ memory' = memory
  BY <1>1 DEF Enter, IInv, TypeOK, NoCall
<1>3. Got(u) = 0 /\ Got(u)' = 0
  BY <1>2 DEF Got
<1>4. Reply(u)' = Reply(u)
  BY <1>3, NothingRead, NothingReadNext
<1>5. ASSUME NEW v \in Users \ {u} PROVE Got(v)' = Got(v) /\ Reply(v)' = Reply(v)
  BY <1>1, <1>5, OthersSame DEF Enter, IInv, TypeOK
<1> QED
  BY <1>1, <1>2, <1>3, <1>4, <1>5, OneSteps DEF Service!Ask

(* The caller's IO_VALUE is copied in.                                      *)
LEMMA CopyFromUserStutters ==
    ASSUME IInv, NEW u \in Users, CopyFromUser(u)
    PROVE  UNCHANGED Service!vars
<1>1. /\ pc[u] = "copy_in" /\ pc'[u] = "access" /\ call' = call /\ done' = done
      /\ buffer' = buffer /\ memory' = memory
      /\ done[u] \in Nat
  BY DEF CopyFromUser, IInv, TypeOK
<1>2. Got(u)' = Got(u)
  BY <1>1 DEF Got
<1>3. Reply(u)' = Reply(u)
  <2>1. CASE call[u].cmd \in ValueWrites
    BY <1>1, <2>1, NothingRead, NothingReadNext
  <2>2. CASE call[u].cmd \notin ValueWrites /\ call[u].cmd \in OneByOne
    <3>1. Got(u) = done[u]
      BY <1>1, <2>2 DEF Got
    <3> QED
      BY <1>1, <1>2, <2>2, <3>1 DEF Reply
  <2>3. CASE call[u].cmd \notin OneByOne
    BY <1>1, <1>2, <2>3, NothingRead, NothingReadNext DEF Got
  <2> QED
    BY <2>1, <2>2, <2>3
<1>4. ASSUME NEW v \in Users \ {u} PROVE Got(v)' = Got(v) /\ Reply(v)' = Reply(v)
  BY <1>4, OthersSame DEF CopyFromUser, IInv, TypeOK
<1> QED
  BY <1>1, <1>2, <1>3, <1>4, OneSteps DEF Service!vars

(* A register, or a word of a waveform, is read.                            *)
LEMMA RegReadReads == ASSUME IInv, NEW u \in Users, RegRead(u) PROVE Service!Read(u)
<1> DEFINE c == call[u]
           d == done[u]
           n == Width(c.cmd)
           o == ioValue[u].offset
<1>1. /\ pc[u] = "access" /\ pc'[u] = "copy_out"
      /\ call' = call /\ done' = done /\ buffer' = buffer /\ memory' = memory
      /\ ioValue'[u].value = Lanes(memory, o, n)
  BY DEF RegRead, IInv, TypeOK
<1>2. /\ c \in CallsOf[u] /\ d \in Nat /\ n \in {1, 2, 4}
      /\ o = c.offset + d /\ c.offset \in Nat /\ c.length \in Nat
      /\ d + n <= c.length
  BY <1>1, InCall, AccessInside, CallFacts DEF IInv, TypeOK
<1>3. /\ c.cmd \in ValueReads \cup {"waveformRead"} /\ c.cmd \notin ValueWrites
      /\ c.cmd \in Service!Reads /\ c.cmd \in OneByOne
  BY <1>1 DEF RegRead, IInv, StepInv, OneByOne, ValueReads, Service!Reads
<1>4. n = Service!Unit(c)
  BY <1>2, <1>3, CallFacts DEF Service!Unit
<1>5. Got(u) = d /\ Got(u)' = d + n
  BY <1>1, <1>3 DEF Got
<1>6. Reply(u)' = [i \in 0 .. (d + n) - 1 |-> IF i < d THEN Reply(u)[i]
                                                        ELSE memory[c.offset + i]]
  <2>1. Reply(u)' = [i \in 0 .. (d + n) - 1 |-> IF i < d THEN buffer[u][i]
                                                          ELSE ioValue'[u].value[i - d]]
    BY <1>1, <1>3, <1>5 DEF Reply
  <2>2. ASSUME NEW i \in 0 .. (d + n) - 1, i < d PROVE Reply(u)[i] = buffer[u][i]
    BY <1>2, <1>3, <1>5, <2>2 DEF Reply
  <2>3. ASSUME NEW i \in 0 .. (d + n) - 1, ~(i < d)
        PROVE  ioValue'[u].value[i - d] = memory[c.offset + i]
    <3>1. i - d \in 0 .. n - 1 /\ o + (i - d) = c.offset + i
      BY <1>2, <2>3
    <3> QED
      BY <1>1, <3>1 DEF Lanes
  <2> HIDE DEF c, d, n, o
  <2> QED
    BY <2>1, <2>2, <2>3
<1>7. ASSUME NEW v \in Users \ {u} PROVE Got(v)' = Got(v) /\ Reply(v)' = Reply(v)
  BY <1>7, OthersSame DEF RegRead, IInv, TypeOK
<1> QED
  BY <1>1, <1>2, <1>3, <1>4, <1>5, <1>6, <1>7, OneSteps DEF Service!Read

(* A register is written.                                                   *)
LEMMA RegWriteWrites == ASSUME IInv, NEW u \in Users, RegWrite(u) PROVE Service!Write(u)
<1> DEFINE c == call[u]
           n == Width(c.cmd)
           o == ioValue[u].offset
<1>1. /\ pc[u] = "access" /\ pc'[u] = "return" /\ c.cmd \in ValueWrites
      /\ call' = call /\ done' = done /\ buffer' = buffer
      /\ memory' = [b \in Bytes |-> IF b - o \in 0 .. n - 1 THEN ioValue[u].value[b - o]
                                                            ELSE memory[b]]
  BY DEF RegWrite, IInv, TypeOK
<1>2. /\ c \in CallsOf[u] /\ c.offset \in Nat /\ c.length \in Nat
      /\ n = c.length /\ done[u] = 0 /\ o = c.offset
  <2>1. c \in CallsOf[u] /\ n = c.length /\ c.offset \in Nat /\ c.length \in Nat
    BY <1>1, InCall, CallFacts DEF IInv
  <2>2. done[u] = 0 /\ o = c.offset + done[u]
    BY <1>1 DEF IInv, StepInv, ValueWrites
  <2> QED
    BY <2>1, <2>2
<1>3. memory' = [b \in Bytes |-> IF b \in Service!Own(c) THEN u ELSE memory[b]]
  <2>1. ASSUME NEW b \in Bytes PROVE b \in Service!Own(c) <=> b - o \in 0 .. n - 1
    BY <1>2, BytesAssumption DEF Service!Own, Bytes
  <2>2. ioValue[u].value = [i \in 0 .. n - 1 |-> u]
    BY <1>1 DEF IInv, StepInv
  <2> HIDE DEF c, n, o
  <2> QED
    BY <1>1, <2>1, <2>2
<1>4. Got(u) = 0 /\ Got(u)' = c.length
  BY <1>1, <1>2 DEF Got, OneByOne
<1>5. Reply(u)' = Reply(u)
  BY <1>1, NothingRead, NothingReadNext
<1>6. ASSUME NEW v \in Users \ {u} PROVE Got(v)' = Got(v) /\ Reply(v)' = Reply(v)
  BY <1>6, OthersSame DEF RegWrite, IInv, TypeOK
<1> QED
  BY <1>1, <1>3, <1>4, <1>5, <1>6, OneSteps DEF Service!Write, Service!Writes, ValueWrites

(* The value goes to the caller, who has it already for the service.        *)
LEMMA CopyToUserStutters ==
    ASSUME IInv, NEW u \in Users, CopyToUser(u)
    PROVE  UNCHANGED Service!vars
<1> DEFINE c == call[u]
           d == done[u]
           n == Width(c.cmd)
           L == c.length
           value == ioValue[u].value
<1>1. /\ c \in CallsOf[u] /\ L \in Nat
      /\ n \in {1, 2, 4} /\ d \in Nat /\ d + n <= L
      /\ c.cmd \notin ValueWrites /\ c.cmd \in OneByOne
      /\ value \in [0 .. n - 1 -> Marks]
      /\ buffer[u] \in [0 .. L - 1 -> Marks]
  BY InCall, CallFacts DEF CopyToUser, IInv, TypeOK, StepInv, OneByOne
<1>2. /\ done'[u] = d + n
      /\ pc'[u] = IF d + n < L THEN "copy_in" ELSE "return"
      /\ buffer'[u] = [i \in 0 .. L - 1 |->
                         IF i - d \in 0 .. n - 1 THEN value[i - d] ELSE buffer[u][i]]
      /\ pc[u] = "copy_out" /\ call' = call /\ memory' = memory
  BY <1>1 DEF CopyToUser, IInv, TypeOK
<1>3. Got(u) = d + n /\ Got(u)' = d + n
  BY <1>1, <1>2 DEF Got
<1>4. Reply(u)' = Reply(u)
  <2>1. Reply(u) = [i \in 0 .. (d + n) - 1 |-> IF i < d THEN buffer[u][i] ELSE value[i - d]]
    BY <1>1, <1>3 DEF Reply
  <2>2. Reply(u)' = [i \in 0 .. (d + n) - 1 |->
                       IF i < d + n THEN buffer'[u][i] ELSE ioValue'[u].value[i - (d + n)]]
    BY <1>1, <1>2, <1>3 DEF Reply
  <2>3. ASSUME NEW i \in 0 .. (d + n) - 1
        PROVE  i < d + n /\ buffer'[u][i] = IF i < d THEN buffer[u][i] ELSE value[i - d]
    <3>1. L \in Nat /\ n \in Nat /\ d \in Nat /\ d + n <= L
      BY <1>1
    <3> HIDE DEF d, n, L, value
    <3>2. i \in 0 .. L - 1 /\ i < d + n /\ (i < d <=> i - d \notin 0 .. n - 1)
      BY <3>1, <2>3
    <3> QED
      BY <1>2, <3>2
  <2> HIDE DEF c, d, n, L, value
  <2> QED
    BY <2>1, <2>2, <2>3
<1>5. ASSUME NEW v \in Users \ {u} PROVE Got(v)' = Got(v) /\ Reply(v)' = Reply(v)
  BY <1>5, OthersSame DEF CopyToUser, IInv, TypeOK
<1> QED
  BY <1>2, <1>3, <1>4, <1>5, OneSteps DEF Service!vars

(* A piece of a copy: no part of it is promised to be of one instant.       *)
LEMMA BulkSame ==
    ASSUME IInv, NEW u \in Users, NEW n, Bulk(u, n),
           \A v \in Users \ {u} : buffer'[v] = buffer[v]
    PROVE  /\ ServiceGot' = ServiceGot /\ ServiceReply' = ServiceReply
           /\ call' = call
<1>1. /\ pc[u] = "bulk" /\ call' = call /\ ioValue' = ioValue
      /\ \A v \in Users \ {u} : pc'[v] = pc[v] /\ done'[v] = done[v]
  BY DEF Bulk, IInv, TypeOK
<1>2. call[u].cmd \notin OneByOne
  BY <1>1 DEF IInv, StepInv, OneByOne, ValueReads, ValueWrites
<1>3. Got(u) = 0 /\ Got(u)' = 0
  BY <1>1, <1>2 DEF Got
<1>4. Reply(u)' = Reply(u)
  BY <1>3, NothingRead, NothingReadNext
<1>5. ASSUME NEW v \in Users \ {u} PROVE Got(v)' = Got(v) /\ Reply(v)' = Reply(v)
  BY <1>1, <1>5, OthersSame
<1> QED
  BY <1>1, <1>3, <1>4, <1>5, OneSteps

(* Pieces of read and RD_WAVEFORM leave the board alone, ...                *)
LEMMA BulkReadStutters ==
    ASSUME IInv, NEW u \in Users, NEW n, BulkRead(u, n)
    PROVE  UNCHANGED Service!vars
<1>1. \A v \in Users \ {u} : buffer'[v] = buffer[v]
  BY DEF BulkRead, IInv, TypeOK
<1> QED
  BY <1>1, BulkSame DEF BulkRead, Service!vars

(* ... and those of write change its bytes.                                 *)
LEMMA BulkWriteWrites ==
    ASSUME IInv, NEW u \in Users, NEW n \in 1 .. call[u].length - done[u],
           BulkWrite(u, n)
    PROVE  Service!WriteBytes(u)
<1>1. ServiceGot' = ServiceGot /\ ServiceReply' = ServiceReply /\ call' = call
  BY BulkSame DEF BulkWrite
<1>2. memory' \in [Bytes -> Marks]
  BY BulkWriteKeeps DEF IInv, TypeOK
<1>3. \A b \in Bytes : \/ memory'[b] = memory[b]
                       \/ memory'[b] = u /\ b \in Service!Own(call[u])
  BY BulkWriteEffect DEF Own, Service!Own
<1> QED
  BY <1>1, <1>2, <1>3 DEF BulkWrite, Service!WriteBytes

(* The call returns when all of it has taken effect.                        *)
LEMMA ReturnAnswers == ASSUME IInv, NEW u \in Users, Return(u) PROVE Service!Answer(u)
<1>1. /\ pc[u] = "return" /\ call[u] # NoCall
      /\ call' = [call EXCEPT ![u] = NoCall] /\ call'[u] = NoCall /\ memory' = memory
  BY DEF Return, IInv, TypeOK
<1>2. call[u].cmd \in Service!Reads \cup Service!Writes => Got(u) = call[u].length
  BY <1>1 DEF Got, OneByOne, ValueReads, ValueWrites, Service!Reads, Service!Writes
<1>3. Got(u)' = 0
  BY <1>1 DEF Got, NoCall, OneByOne, ValueReads, ValueWrites
<1>4. Reply(u)' = Service!Nothing
  BY <1>3, NothingReadNext
<1>5. ASSUME NEW v \in Users \ {u} PROVE Got(v)' = Got(v) /\ Reply(v)' = Reply(v)
  BY <1>5, OthersSame DEF Return, IInv, TypeOK
<1> QED
  BY <1>1, <1>2, <1>3, <1>4, <1>5, OneSteps DEF Service!Answer

(* The FPGA's captures are the service's.                                   *)
LEMMA CaptureCaptures == ASSUME IInv, Capture PROVE Service!Capture
<1>1. captures' \in 0 .. MaxCaptures
  BY MarkAssumption DEF Capture, IInv, TypeOK
<1>2. \A v \in Users : Got(v)' = Got(v) /\ Reply(v)' = Reply(v)
  BY OthersSame DEF Capture, user
<1>3. ServiceGot' = ServiceGot /\ ServiceReply' = ServiceReply
  BY <1>2 DEF ServiceGot, ServiceReply
<1> QED
  BY <1>1, <1>3 DEF Capture, user, Service!Capture

(* Every step is one of the service, or leaves it alone.                    *)
LEMMA ServiceNext == IInv /\ [Next]_vars => [Service!Next]_Service!vars
<1> SUFFICES ASSUME IInv, [Next]_vars PROVE Service!Next \/ UNCHANGED Service!vars
  OBVIOUS
<1>1. CASE UNCHANGED vars
  <2>1. \A v \in Users : Got(v)' = Got(v) /\ Reply(v)' = Reply(v)
    BY <1>1, OthersSame DEF vars, user
  <2> QED
    BY <1>1, <2>1 DEF vars, user, Service!vars, ServiceGot, ServiceReply
<1>2. ASSUME NEW u \in Users,
             \/ Enter(u) \/ RegRead(u) \/ RegWrite(u) \/ Return(u)
             \/ \E n \in 1 .. call[u].length - done[u] : BulkWrite(u, n)
      PROVE  Service!Next
  BY <1>2, EnterAsks, RegReadReads, RegWriteWrites, ReturnAnswers, BulkWriteWrites
     DEF Service!Next
<1>3. ASSUME NEW u \in Users,
             \/ CopyFromUser(u) \/ CopyToUser(u)
             \/ \E n \in 1 .. call[u].length - done[u] : BulkRead(u, n)
      PROVE  UNCHANGED Service!vars
  BY <1>3, CopyFromUserStutters, CopyToUserStutters, BulkReadStutters
<1>4. CASE Capture
  BY <1>4, CaptureCaptures DEF Service!Next
<1> QED
  BY <1>1, <1>2, <1>3, <1>4 DEF Next

(* The way through cpciAccess.c and pci_ioctl, without a lock, is an access *)
(* at one instant to its callers, whoever else uses the device file.        *)
THEOREM AccessImplementsService == Spec => ImplementsBoardService
BY ServiceInit, ServiceNext, AccessInvariant, PTL DEF Spec, ImplementsBoardService, Service!Spec
=============================================================================
