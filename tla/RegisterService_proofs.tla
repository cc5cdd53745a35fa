----------------------- MODULE RegisterService_proofs -----------------------
(***************************************************************************)
(* LlrfPort implements RegisterService, for every set of threads,          *)
(* parameters, offsets and values: each step of the port is a step of the  *)
(* service for the thread that makes it, or changes nothing the service    *)
(* speaks of.                                                              *)
(***************************************************************************)
EXTENDS LlrfPort_proofs

-----------------------------------------------------------------------------
(* What a step of thread t to program counter x does to the mapped state.   *)

LEMMA PhaseStep ==
    ASSUME TypeOK, NEW t \in Threads, NEW x, pc' = [pc EXCEPT ![t] = x]
    PROVE  /\ ServicePhase[t] = PhaseAt(pc[t])
           /\ ServicePhase' = [ServicePhase EXCEPT ![t] = PhaseAt(x)]
BY DEF TypeOK, ServicePhase, PhaseAt

LEMMA ReplyStep ==
    ASSUME TypeOK, NEW t \in Threads, NEW x, pc' = [pc EXCEPT ![t] = x],
           \A u \in Threads \ {t} : result'[u] = result[u]
    PROVE  /\ \A u \in Threads \ {t} : ServiceReply'[u] = ServiceReply[u]
           /\ ServiceReply'[t] = IF PhaseAt(x) = "answered" THEN result'[t].value ELSE 0
           /\ ServiceReply[t] = IF PhaseAt(pc[t]) = "answered" THEN result[t].value ELSE 0
BY DEF TypeOK, ServiceReply, PhaseAt

LEMMA ReplySame ==
    ASSUME NEW t \in Threads,
           \A u \in Threads \ {t} : ServiceReply'[u] = ServiceReply[u],
           ServiceReply'[t] = ServiceReply[t]
    PROVE  ServiceReply' = ServiceReply
<1>1. \A u \in Threads : ServiceReply'[u] = ServiceReply[u]
  OBVIOUS
<1> QED
  BY <1>1 DEF ServiceReply

LEMMA WordSame ==
    ASSUME \A p \in PrivateParams : Word(p)' = Word(p)
    PROVE  ServiceWord' = ServiceWord
BY DEF ServiceWord, PrivateParams, Private

LEMMA WordWritten ==
    ASSUME TypeOK, NEW p \in RegParams, NEW w, Uint32Write(Offset[p], w)
    PROVE  Service!Put(p, w)
<1>1. CASE fdOpen
  <2>1. \A q \in PrivateParams : Word(q)' = IF q = p THEN w ELSE Word(q)
    BY <1>1, Uint32WriteEffect
  <2>2. ServiceWord' = [q \in PrivateParams |-> IF q = p THEN w ELSE Word(q)]
    BY <2>1 DEF ServiceWord, PrivateParams, Private
  <2> QED
    BY <1>1, <2>2 DEF Service!Put, ServiceWord
<1>2. CASE ~fdOpen
  <2>1. \A q \in PrivateParams : Word(q)' = Word(q)
    BY <1>2 DEF Uint32Write, Word
  <2> QED
    BY <1>2, <2>1, WordSame DEF Service!Put
<1> QED
  BY <1>1, <1>2

(* Where a thread steps that is not asleep itself, nobody holds a clear.    *)
LEMMA NobodyHolds ==
    ASSUME IInv, NEW t \in Threads, pc[t] \in Inside \/ port = NoThread,
           pc[t] \notin {"sleep", "unclear"}, NEW p
    PROVE  Service!Free(p)
<1>1. ASSUME NEW u \in Threads, ServicePhase[u] = "holding" PROVE FALSE
  <2>1. pc[u] \in {"sleep", "unclear"}
    BY <1>1 DEF ServicePhase, PhaseAt
  <2> QED
    BY <2>1, Alone DEF IInv, Inside, Pcs
<1> QED
  BY <1>1 DEF Service!Free

-----------------------------------------------------------------------------
(* A read takes effect at its step from "lock". *)
LEMMA ReadImplements ==
    ASSUME IInv, NEW t \in Threads,
           \/ ReadPosition(t) \/ ReadNoRegister(t)
           \/ \E params \in {Int32Params, Float64Params} : ReadRegister(t, params)
    PROVE  Service!Read(t)
<1> DEFINE p == call[t].param
<1>1. /\ pc[t] = "lock" /\ port = NoThread /\ call[t].op = "read" /\ call' = call
      /\ register' = register /\ fdOpen' = fdOpen
  BY DEF ReadPosition, ReadNoRegister, ReadRegister, Begin, board
<1>2. PICK x \in {"store", "return"} : pc' = [pc EXCEPT ![t] = x]
  BY DEF ReadPosition, ReadNoRegister, ReadRegister, Begin
<1>3. \A u \in Threads \ {t} : result'[u] = result[u]
  BY DEF ReadPosition, ReadNoRegister, ReadRegister, IInv, TypeOK
<1>4. ServicePhase[t] = "asked" /\ ServicePhase' = [ServicePhase EXCEPT ![t] = "answered"]
  BY <1>1, <1>2, PhaseStep DEF IInv, PhaseAt
<1>5. /\ \A u \in Threads \ {t} : ServiceReply'[u] = ServiceReply[u]
      /\ ServiceReply'[t] = result'[t].value
  BY <1>1, <1>2, <1>3, ReplyStep DEF IInv, PhaseAt
<1>6. ASSUME fdOpen, p \in PrivateParams
      PROVE  ServiceReply'[t] = ToEng(p, ServiceWord[p])
  <2>1. PICK params \in {Int32Params, Float64Params} : ReadRegister(t, params)
    BY <1>6, NamesAssumption
    DEF ReadPosition, ReadNoRegister, Begin, PrivateParams, RegParams
  <2>2. result'[t].value = ToEng(p, register[Offset[p]])
    BY <1>6, <2>1 DEF ReadRegister, Uint32Read, IInv, TypeOK
  <2> QED
    BY <1>5, <1>6, <2>2 DEF ServiceWord, Word
<1>7. ServiceWord' = ServiceWord
  BY <1>1, WordSame DEF Word
<1>8. Service!Free(p)
  BY <1>1, NobodyHolds
<1> QED
  BY <1>1, <1>4, <1>5, <1>6, <1>7, <1>8 DEF Service!Read, Service!Move

(* A write takes effect when it reaches the register; one of the position   *)
(* has none the service speaks of.                                          *)
LEMMA WriteImplements ==
    ASSUME IInv, NEW t \in Threads,
           \/ WritePosition(t)
           \/ \E params \in {Int32Params, Float64Params} : WriteRegister(t, params)
    PROVE  Service!Write(t)
<1> DEFINE p == call[t].param
<1>1. /\ pc[t] \in {"lock", "write"} /\ call' = call /\ fdOpen' = fdOpen
      /\ pc[t] = "lock" => port = NoThread
  BY DEF WritePosition, WriteRegister, Begin, Goto, board
<1>2. PICK x \in {"notify", "return"} : pc' = [pc EXCEPT ![t] = x]
  BY DEF WritePosition, WriteRegister, Begin, Goto
<1>3. result' = [result EXCEPT ![t] = NoResult]
  BY DEF WritePosition, WriteRegister
<1>4. call[t].op = "write" /\ ~ Service!IsClear(call[t])
  <2>1. CASE WritePosition(t)
    BY <2>1, NamesAssumption
    DEF WritePosition, Begin, Service!IsClear, Position, Clear
  <2>2. CASE pc[t] = "write"
    BY <2>2 DEF IInv, CallInv, Service!IsClear
  <2> QED
    BY <2>1, <2>2 DEF WriteRegister, Goto
<1>5. ServicePhase[t] = "asked" /\ ServicePhase' = [ServicePhase EXCEPT ![t] = "answered"]
  BY <1>1, <1>2, PhaseStep DEF IInv, PhaseAt
<1>6. ServiceReply' = ServiceReply
  <2>1. result'[t].value = 0 /\ \A u \in Threads \ {t} : result'[u] = result[u]
    BY <1>3 DEF NoResult, IInv, TypeOK
  <2>2. /\ \A u \in Threads \ {t} : ServiceReply'[u] = ServiceReply[u]
        /\ ServiceReply'[t] = 0 /\ ServiceReply[t] = 0
    BY <1>1, <1>2, <2>1, ReplyStep DEF IInv, PhaseAt
  <2> QED
    BY <2>2, ReplySame
<1>7. Service!Put(p, ToRaw(p, call[t].arg))
  <2>1. CASE WritePosition(t)
    <3>1. p \notin PrivateParams /\ register' = register
      BY <2>1, NamesAssumption DEF WritePosition, Begin, PrivateParams, board
    <3> QED
      BY <3>1, WordSame DEF Service!Put, Word
  <2>2. ASSUME NEW params \in {Int32Params, Float64Params}, WriteRegister(t, params)
        PROVE  Service!Put(p, ToRaw(p, call[t].arg))
    BY <2>2, WordWritten DEF WriteRegister, IInv, RegParams
  <2> QED
    BY <2>1, <2>2
<1>8. Service!Free(p)
  BY <1>1, NobodyHolds DEF Inside, Pcs
<1> QED
  BY <1>1, <1>4, <1>5, <1>6, <1>7, <1>8 DEF Service!Write, Service!Move

(* A clear takes effect at its two writes of the register. *)
LEMMA ClearImplements ==
    ASSUME IInv, NEW t \in Threads, ClearOn(t) \/ ClearOff(t)
    PROVE  Service!Hold(t) \/ Service!Release(t)
<1>1. /\ pc[t] \in {"clear", "unclear"} /\ call' = call /\ fdOpen' = fdOpen
      /\ Clear \in RegParams
  BY NamesAssumption DEF ClearOn, ClearOff, Goto, RegParams
<1>2. CASE ClearOn(t)
  <2>1. /\ pc[t] = "clear" /\ pc' = [pc EXCEPT ![t] = "sleep"] /\ result' = result
        /\ Uint32Write(Offset[Clear], 1)
    BY <1>2 DEF ClearOn, Goto
  <2>2. ServicePhase[t] = "asked" /\ ServicePhase' = [ServicePhase EXCEPT ![t] = "holding"]
    BY <2>1, PhaseStep DEF IInv, PhaseAt
  <2>3. ServiceReply' = ServiceReply
    BY <2>1, ReplyStep, ReplySame DEF IInv, PhaseAt
  <2>4. Service!Put(Clear, 1) /\ Service!Free(Clear)
    BY <1>1, <2>1, WordWritten, NobodyHolds DEF IInv, Inside, Pcs
  <2>5. Service!IsClear(call[t])
    BY <2>1 DEF IInv, CallInv, Service!IsClear
  <2> QED
    BY <1>1, <2>2, <2>3, <2>4, <2>5 DEF Service!Hold, Service!Move
<1>3. CASE ClearOff(t)
  <2>1. /\ pc[t] = "unclear" /\ pc' = [pc EXCEPT ![t] = "notify"]
        /\ result' = [result EXCEPT ![t] = NoResult]
        /\ Uint32Write(Offset[Clear], 0)
    BY <1>3 DEF ClearOff, Goto
  <2>2. ServicePhase[t] = "holding" /\ ServicePhase' = [ServicePhase EXCEPT ![t] = "answered"]
    <3>1. PhaseAt("unclear") = "holding" /\ PhaseAt("notify") = "answered"
      BY DEF PhaseAt
    <3> QED
      BY <2>1, <3>1, PhaseStep DEF IInv
  <2>3. result'[t].value = 0 /\ \A u \in Threads \ {t} : result'[u] = result[u]
    BY <2>1 DEF NoResult, IInv, TypeOK
  <2>4. ServiceReply' = ServiceReply
    BY <2>1, <2>3, ReplyStep, ReplySame DEF IInv, PhaseAt
  <2>5. Service!Put(Clear, 0)
    BY <1>1, <2>1, WordWritten DEF IInv
  <2> QED
    BY <1>1, <2>2, <2>4, <2>5 DEF Service!Release, Service!Move
<1> QED
  BY <1>2, <1>3

(* The other steps of a handler, but the return, the service does not see.  *)
LEMMA HandlerStutters ==
    ASSUME IInv, NEW t \in Threads,
           \/ StoreRead(t) \/ StoreWrite(t) \/ ClearReset(t)
           \/ Notify(t) \/ Unflag(t)
    PROVE  UNCHANGED Service!vars
<1>1. /\ call' = call /\ fdOpen' = fdOpen /\ register' = register /\ result' = result
  BY DEF StoreRead, StoreWrite, ClearReset, Notify, Unflag, Begin, Goto, board
<1>2. PICK x : pc' = [pc EXCEPT ![t] = x] /\ PhaseAt(x) = PhaseAt(pc[t])
  BY DEF StoreRead, StoreWrite, ClearReset, Notify, Unflag, Begin, Goto, PhaseAt
<1>3. ServicePhase' = ServicePhase
  BY <1>2, PhaseStep DEF IInv, ServicePhase
<1>4. ServiceReply' = ServiceReply
  BY <1>1, <1>2, ReplyStep, ReplySame DEF IInv
<1>5. ServiceWord' = ServiceWord
  BY <1>1, WordSame DEF Word
<1> QED
  BY <1>1, <1>3, <1>4, <1>5 DEF Service!vars

-----------------------------------------------------------------------------
LEMMA AskImplements ==
    ASSUME IInv, NEW t \in Threads, Call(t)
    PROVE  Service!Ask(t)
<1>1. /\ pc[t] = "idle" /\ pc' = [pc EXCEPT ![t] = "lock"]
      /\ fdOpen' = fdOpen /\ register' = register /\ result' = result
      /\ \E c \in Calls : call' = [call EXCEPT ![t] = c]
  BY DEF Call, board
<1>2. ServicePhase[t] = "idle" /\ ServicePhase' = [ServicePhase EXCEPT ![t] = "asked"]
  BY <1>1, PhaseStep DEF IInv, PhaseAt
<1>3. ServiceReply' = ServiceReply
  BY <1>1, ReplyStep, ReplySame DEF IInv, PhaseAt
<1>4. ServiceWord' = ServiceWord
  BY <1>1, WordSame DEF Word
<1> QED
  BY <1>1, <1>2, <1>3, <1>4 DEF Service!Ask, Service!Move

LEMMA AnswerImplements ==
    ASSUME IInv, NEW t \in Threads, Return(t)
    PROVE  Service!Answer(t)
<1>1. /\ pc[t] = "return" /\ pc' = [pc EXCEPT ![t] = "idle"]
      /\ fdOpen' = fdOpen /\ register' = register
      /\ call' = [call EXCEPT ![t] = NoCall]
      /\ result' = [result EXCEPT ![t] = NoResult]
  BY DEF Return, board
<1>2. ServicePhase[t] = "answered" /\ ServicePhase' = [ServicePhase EXCEPT ![t] = "idle"]
  BY <1>1, PhaseStep DEF IInv, PhaseAt
<1>3. ServiceReply' = [ServiceReply EXCEPT ![t] = 0]
  <2>1. \A u \in Threads \ {t} : result'[u] = result[u]
    BY <1>1 DEF IInv, TypeOK
  <2>2. /\ \A u \in Threads \ {t} : ServiceReply'[u] = ServiceReply[u]
        /\ ServiceReply'[t] = 0
    BY <1>1, <2>1, ReplyStep DEF IInv, PhaseAt
  <2> QED
    BY <2>2 DEF ServiceReply
<1>4. ServiceWord' = ServiceWord
  BY <1>1, WordSame DEF Word
<1> QED
  BY <1>1, <1>2, <1>3, <1>4 DEF Service!Answer, Service!Move

LEMMA RestartImplements ==
    ASSUME IInv, Restart
    PROVE  Service!Restart
<1>1. fdOpen' \in BOOLEAN
  BY BoundsAssumption DEF Restart, Fresh
<1>2. /\ ServicePhase' = [t \in Threads |-> "idle"]
      /\ ServiceReply' = [t \in Threads |-> 0]
      /\ call' = [t \in Threads |-> NoCall]
  BY DEF Restart, Idle, ServicePhase, ServiceReply, PhaseAt
<1>3. ServiceWord' = ServiceWord
  BY WordSame DEF Restart, Word
<1> QED
  BY <1>1, <1>2, <1>3 DEF Service!Restart, Service!AllIdle

LEMMA InitImplements == Init => Service!Init
<1> SUFFICES ASSUME Init PROVE Service!Init
  OBVIOUS
<1>1. TypeOK
  BY TypeInit
<1>2. fdOpen \in BOOLEAN /\ ServiceWord \in [PrivateParams -> Int]
  <2>1. \A p \in PrivateParams : Word(p) \in Int
    BY <1>1 DEF TypeOK, Word, Offsets, PrivateParams
  <2> QED
    BY <1>1, <2>1 DEF TypeOK, ServiceWord
<1>3. /\ ServicePhase = [t \in Threads |-> "idle"]
      /\ ServiceReply = [t \in Threads |-> 0]
      /\ call = [t \in Threads |-> NoCall]
  BY DEF Init, Idle, ServicePhase, ServiceReply, PhaseAt
<1> QED
  BY <1>2, <1>3 DEF Service!Init, Service!AllIdle

LEMMA NextImplements == IInv /\ [Next]_vars => [Service!Next]_(Service!vars)
<1> SUFFICES ASSUME IInv, [Next]_vars PROVE Service!Next \/ UNCHANGED Service!vars
  OBVIOUS
<1>1. ASSUME NEW t \in Threads, Call(t) PROVE Service!Next
  BY <1>1, AskImplements DEF Service!Next
<1>2. ASSUME NEW t \in Threads, Handle(t) PROVE Service!Next \/ UNCHANGED Service!vars
  <2>1. CASE \/ ReadPosition(t) \/ ReadNoRegister(t) \/ ReadInt32(t) \/ ReadFloat64(t)
    BY <2>1, ReadImplements DEF ReadInt32, ReadFloat64, Service!Next
  <2>2. CASE WritePosition(t) \/ WriteInt32(t) \/ WriteFloat64(t)
    BY <2>2, WriteImplements DEF WriteInt32, WriteFloat64, Service!Next
  <2>3. CASE ClearOn(t) \/ ClearOff(t)
    BY <2>3, ClearImplements DEF Service!Next
  <2>4. CASE StoreRead(t) \/ StoreWrite(t) \/ ClearReset(t) \/ Notify(t) \/ Unflag(t)
    BY <2>4, HandlerStutters
  <2>5. CASE Return(t)
    BY <2>5, AnswerImplements DEF Service!Next
  <2> QED
    BY <1>2, <2>1, <2>2, <2>3, <2>4, <2>5 DEF Handle
<1>3. CASE Poll \/ Outside \/ UNCHANGED vars
  <2>1. pc' = pc /\ call' = call /\ result' = result /\ fdOpen' = fdOpen
    BY <1>3 DEF Poll, PollWaveforms, PollPosition, PollPoint, PollNotify, PollUnflag,
                Outside, vars, threads, board
  <2>2. \A p \in PrivateParams : Word(p)' = Word(p)
    <3>1. CASE Outside
      BY <3>1 DEF Outside, Word, PrivateParams, Private, IInv, TypeOK, Offsets
    <3>2. CASE register' = register
      BY <3>2 DEF Word
    <3> QED
      BY <1>3, <3>1, <3>2 DEF Poll, PollWaveforms, PollPosition, PollPoint, PollNotify,
                              PollUnflag, vars, board
  <2> QED
    BY <2>1, <2>2, WordSame DEF Service!vars, ServicePhase, ServiceReply
<1>4. CASE Restart
  BY <1>4, RestartImplements DEF Service!Next
<1> QED
  BY <1>1, <1>2, <1>3, <1>4 DEF Next

(* To the records that use registers of their own, the port is the register *)
(* service: whatever the handlers, the poller, the FPGA and restarts do,    *)
(* each read and write takes effect at one instant of its call, and a clear *)
(* is not interrupted.                                                      *)
THEOREM PortImplementsService == Spec => ImplementsService
<1>1. Spec => Init /\ [][Next]_vars
  BY PTL DEF Spec
<1> QED
  BY <1>1, InitImplements, NextImplements, Invariant, PTL DEF ImplementsService, Service!Spec
=============================================================================
