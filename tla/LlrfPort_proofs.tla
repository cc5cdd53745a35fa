-------------------------- MODULE LlrfPort_proofs --------------------------
(***************************************************************************)
(* Proofs about LlrfPort for every set of threads, parameters, offsets and *)
(* values: type correctness, and that the parameter library and the FPGA   *)
(* registers stay in step.                                                 *)
(***************************************************************************)
EXTENDS LlrfPort, TLAPS

-----------------------------------------------------------------------------
(* The conversions yield integers.                                          *)

LEMMA QuotientType ==
    ASSUME NEW x \in Int, NEW d \in Nat \ {0}
    PROVE  Quotient(x, d) \in Int /\ Remainder(x, d) \in Int
BY DEF Quotient, Remainder

LEMMA TruncType ==
    ASSUME NEW x \in Int, NEW m \in Int, NEW n \in Int, NEW d \in Nat \ {0}
    PROVE  Trunc(x, m, n, d) \in Int /\ Dropped(x, m, n, d) \in Int
<1>1. Quotient(x, d) \in Int /\ Remainder(x, d) \in Int
  BY QuotientType
<1>2. Remainder(x, d) * m \in Int
  BY <1>1
<1>3. /\ Quotient(Remainder(x, d) * m, d) \in Int
      /\ Remainder(Remainder(x, d) * m, d) \in Int
  BY <1>2, QuotientType
<1>4. Remainder(Remainder(x, d) * m, d) * n \in Int
  BY <1>3
<1>5. /\ Quotient(Remainder(Remainder(x, d) * m, d) * n, d) \in Int
      /\ Remainder(Remainder(Remainder(x, d) * m, d) * n, d) \in Int
  BY <1>4, QuotientType
<1> QED
  BY <1>1, <1>3, <1>5 DEF Trunc, Dropped

LEMMA Int32ToRawType ==
    ASSUME NEW p, NEW v \in Int
    PROVE  Int32ToRaw(p, v) \in Int
<1>1. TimeToRaw(v) \in Int
  <2>1. Trunc(v, 390625, 1, 512) \in Int
    BY SMT, TruncType
  <2> QED
    BY <2>1, SMT DEF TimeToRaw, CastWithin, IntMin
<1>2. CountToRaw(v) \in Int
  BY SMT DEF CountToRaw, CastWithin, IntMin
<1>3. FreqToRaw(v) \in Int
  <2>1. Trunc(180000000 + v, 2048, 1024, 234375) \in Int
    <3>1. 180000000 + v \in Int
      BY SMT
    <3> QED
      BY <3>1, SMT, TruncType
  <2> QED
    BY <2>1, SMT DEF FreqToRaw, IntMin
<1>4. QsetToRaw(v) \in Int
  BY SMT DEF QsetToRaw, WrappedThousand, WrapSum, IntMax
<1> QED
  BY <1>1, <1>2, <1>3, <1>4 DEF Int32ToRaw

LEMMA Int32ToEngType ==
    ASSUME NEW p, NEW w \in Int
    PROVE  Int32ToEng(p, w) \in Int
<1>1. TimeToEng(w) \in Int /\ CountToEng(w) \in Int /\ QsetToEng(w) \in Int
  BY SMT, TruncType DEF TimeToEng, CountToEng, QsetToEng
<1>2. FreqToEng(w) \in Int
  <2>1. /\ Trunc(w, 375, 625, 2097152) \in Int
        /\ Dropped(w, 375, 625, 2097152) \in Int
    BY SMT, TruncType
  <2> QED
    BY <2>1, SMT DEF FreqToEng
<1> QED
  BY <1>1, <1>2 DEF Int32ToEng

LEMMA ConversionType ==
    ASSUME NEW p, NEW v \in Int
    PROVE  ToRaw(p, v) \in Int /\ ToEng(p, v) \in Int
<1>1. Float64ToRaw(v) \in Int /\ Float64ToEng(v) \in Int
  BY TruncType DEF Float64ToRaw, Float64ToEng, Ticks
<1> QED
  BY <1>1, Int32ToRawType, Int32ToEngType DEF ToRaw, ToEng

LEMMA ClearConversion ==
    ASSUME NEW v
    PROVE  ToRaw(Clear, v) = v
BY NamesAssumption DEF ToRaw, Int32ToRaw, Clear, TimeParams, CountParams


-----------------------------------------------------------------------------
(* Type correctness.                                                        *)

LEMMA CallsType ==
    ASSUME NEW c \in Calls
    PROVE  /\ c = [op |-> c.op, param |-> c.param, arg |-> c.arg]
           /\ c.arg \in Int
           /\ c.op \in {"read", "write"}
           /\ c.param \in RegParams \cup Points \cup {Position}
           /\ c.op = "write" => /\ c.param \in RegParams \cup {Position}
                                /\ c.arg \in Setpoints[c.param]
<1>1. CASE c \in [op : {"read"}, param : RegParams \cup Points \cup {Position},
                  arg : {0}]
  BY <1>1
<1>2. CASE \E p \in RegParams \cup {Position} :
             c \in [op : {"write"}, param : {p}, arg : Setpoints[p]]
  BY <1>2, ValuesAssumption
<1> QED
  BY <1>1, <1>2 DEF Calls

LEMMA ArgType ==
    ASSUME TypeOK, NEW t \in Threads
    PROVE  call[t].arg \in Int /\ result[t].value \in Int
<1>1. call[t] \in Calls \cup {NoCall} /\ result[t].value \in Int
  BY DEF TypeOK
<1>2. NoCall.arg \in Int
  BY DEF NoCall
<1> QED
  BY <1>1, <1>2, CallsType

LEMMA SetParamType ==
    ASSUME TypeOK, NEW p, NEW v \in Int, SetParam(p, v)
    PROVE  /\ lib' \in [RegParams \cup {Position} -> Values]
           /\ lib'[Position] \in Int
           /\ flags' \subseteq Subscribed
BY DEF TypeOK, SetParam, Values, Subscribed

LEMMA Uint32WriteType ==
    ASSUME TypeOK, NEW o, NEW w \in Int, Uint32Write(o, w)
    PROVE  register' \in [Offsets -> Int]
BY DEF TypeOK, Uint32Write

LEMMA PointsType == ASSUME NEW i \in 1 .. Len(PointOrder)
                    PROVE  PointOrder[i] \in Points
BY NamesAssumption DEF Points

LEMMA TypeInit == Init => TypeOK
<1> SUFFICES ASSUME Init PROVE TypeOK
  OBVIOUS
<1> USE DEF Init, Fresh, Idle
<1>1. fdOpen \in BOOLEAN /\ register \in [Offsets -> Int]
  BY ValuesAssumption, BoundsAssumption
<1>2. /\ lib \in [RegParams \cup {Position} -> Values]
      /\ lib[Position] \in Int
  BY DEF Values
<1>3. /\ flags \subseteq Subscribed
      /\ port \in Threads \cup {NoThread}
      /\ pc \in [Threads -> Pcs]
      /\ call \in [Threads -> Calls \cup {NoCall}]
  BY DEF Pcs
<1>4. result \in [Threads -> [value : Int, status : {"asynSuccess", "asynError"}]]
  BY DEF NoResult
<1>5. DOMAIN point = Points /\ DOMAIN shown = Subscribed
  OBVIOUS
<1>6. /\ ppc = "sleep" /\ pos \in Int /\ restarts \in 0 .. MaxRestarts
      /\ k \in 1 .. Len(PointOrder) + 1
  BY NamesAssumption, BoundsAssumption
<1> QED
  BY <1>1, <1>2, <1>3, <1>4, <1>5, <1>6 DEF TypeOK

LEMMA TypeNext == TypeOK /\ [Next]_vars => TypeOK'
<1> SUFFICES ASSUME TypeOK, [Next]_vars PROVE TypeOK'
  OBVIOUS
<1> USE DEF TypeOK, library, threads, poller, board
<1>1. ASSUME NEW t \in Threads, Call(t) PROVE TypeOK'
  BY <1>1 DEF Call, Pcs
<1>2. ASSUME NEW t \in Threads, Handle(t) PROVE TypeOK'
  <2>1. CASE ReadPosition(t)
    BY <2>1 DEF ReadPosition, Begin, Pcs
  <2>2. CASE ReadNoRegister(t)
    BY <2>2 DEF ReadNoRegister, Begin, Pcs
  <2>3. ASSUME NEW params \in {Int32Params, Float64Params}, ReadRegister(t, params)
        PROVE  TypeOK'
    <3>1. PICK w \in Uint32Read(Offset[call[t].param]) :
            result' = [result EXCEPT ![t] = [value |-> ToEng(call[t].param, w),
                                             status |-> "asynSuccess"]]
      BY <2>3 DEF ReadRegister
    <3>2. Offset[call[t].param] \in Offsets
      BY <2>3 DEF ReadRegister, Begin, Offsets, RegParams
    <3>3. w \in Int
      BY <3>1, <3>2, ValuesAssumption DEF Uint32Read
    <3>4. ToEng(call[t].param, w) \in Int
      BY <3>3, ConversionType
    <3> QED
      BY <2>3, <3>1, <3>4 DEF ReadRegister, Begin, Pcs
  <2>4. CASE StoreRead(t)
    BY <2>4, ArgType, SetParamType DEF StoreRead, Goto, Pcs
  <2>5. CASE WritePosition(t)
    BY <2>5, ArgType, SetParamType DEF WritePosition, Begin, NoResult, Pcs
  <2>6. CASE StoreWrite(t)
    BY <2>6, ArgType, SetParamType DEF StoreWrite, Begin, Pcs
  <2>7. ASSUME NEW params \in {Int32Params, Float64Params}, WriteRegister(t, params)
        PROVE  TypeOK'
    <3>1. ToRaw(call[t].param, call[t].arg) \in Int
      BY ArgType, ConversionType
    <3> QED
      BY <2>7, <3>1, Uint32WriteType DEF WriteRegister, Goto, NoResult, Pcs
  <2>8. CASE ClearOn(t)
    <3>1. register' \in [Offsets -> Int]
      BY <2>8, Uint32WriteType DEF ClearOn
    <3>2. /\ lib' \in [RegParams \cup {Position} -> Values]
          /\ lib'[Position] \in Int
          /\ flags' \subseteq Subscribed
      BY <2>8, SetParamType DEF ClearOn
    <3> QED
      BY <2>8, <3>1, <3>2 DEF ClearOn, Goto, Pcs
  <2>9. CASE ClearReset(t)
    BY <2>9, SetParamType DEF ClearReset, Goto, Pcs
  <2>10. CASE ClearOff(t)
    BY <2>10, Uint32WriteType DEF ClearOff, Goto, NoResult, Pcs
  <2>11. CASE Notify(t)
    BY <2>11 DEF Notify, Goto, Deliver, Pcs
  <2>12. CASE Unflag(t)
    BY <2>12 DEF Unflag, Goto, ClearFlags, Pcs
  <2>13. CASE Return(t)
    BY <2>13 DEF Return, NoResult, Pcs
  <2> QED
    BY <1>2, <2>1, <2>2, <2>3, <2>4, <2>5, <2>6, <2>7, <2>8, <2>9, <2>10, <2>11,
       <2>12, <2>13
    DEF Handle, ReadInt32, ReadFloat64, WriteInt32, WriteFloat64
<1>3. CASE PollWaveforms
  BY <1>3 DEF PollWaveforms
<1>4. CASE PollPosition
  BY <1>4, NamesAssumption DEF PollPosition
<1>5. CASE PollPoint
  BY <1>5, PointsType DEF PollPoint, SetPoint, Subscribed
<1>6. CASE PollNotify
  BY <1>6 DEF PollNotify, Deliver
<1>7. CASE PollUnflag
  BY <1>7 DEF PollUnflag, ClearFlags
<1>8. CASE Outside
  BY <1>8, ValuesAssumption DEF Outside
<1>9. CASE Restart
  BY <1>9, NamesAssumption, BoundsAssumption
  DEF Restart, Fresh, Idle, NoResult, Values, Pcs
<1>10. CASE UNCHANGED vars
  BY <1>10 DEF vars
<1> QED
  BY <1>1, <1>2, <1>3, <1>4, <1>5, <1>6, <1>7, <1>8, <1>9, <1>10 DEF Next, Poll

(* Every variable of the port holds a value of the program in every         *)
(* behaviour, for every set of threads and parameters.                      *)
THEOREM TypeCorrect == Spec => []TypeOK
<1>1. Init /\ [][Next]_vars => []TypeOK
  BY TypeInit, TypeNext, PTL
<1> QED
  BY <1>1, PTL DEF Spec

-----------------------------------------------------------------------------
(* The lock and the calls.                                                  *)

(* The three shapes of a handler's step. *)
Enters(t) == /\ pc[t] = "lock" /\ port = NoThread /\ port' = t
             /\ call' = call
             /\ \E x \in Inside : pc' = [pc EXCEPT ![t] = x]
Moves(t)  == /\ pc[t] \in Inside /\ port' = port
             /\ call' = call
             /\ \E x \in Inside : pc' = [pc EXCEPT ![t] = x]
Leaves(t) == Return(t)

LEMMA HandleShape ==
    ASSUME NEW t \in Threads, Handle(t)
    PROVE  Enters(t) \/ Moves(t) \/ Leaves(t)
<1> USE DEF Enters, Moves, Leaves, Begin, Goto, Inside, Pcs
<1>1. ASSUME NEW params, ReadRegister(t, params) PROVE Enters(t)
  BY <1>1 DEF ReadRegister
<1>2. ASSUME NEW params, WriteRegister(t, params) PROVE Moves(t)
  BY <1>2 DEF WriteRegister
<1>3. CASE ReadPosition(t)
  BY <1>3 DEF ReadPosition
<1>4. CASE ReadNoRegister(t)
  BY <1>4 DEF ReadNoRegister
<1>5. CASE WritePosition(t)
  BY <1>5 DEF WritePosition
<1>6. CASE StoreWrite(t)
  BY <1>6 DEF StoreWrite
<1>7. CASE StoreRead(t)
  BY <1>7 DEF StoreRead
<1>8. CASE ClearOn(t) \/ ClearReset(t) \/ ClearOff(t)
  BY <1>8 DEF ClearOn, ClearReset, ClearOff
<1>9. CASE Notify(t) \/ Unflag(t)
  BY <1>9 DEF Notify, Unflag
<1> QED
  BY <1>1, <1>2, <1>3, <1>4, <1>5, <1>6, <1>7, <1>8, <1>9
  DEF Handle, ReadInt32, ReadFloat64, WriteInt32, WriteFloat64

LEMMA LockInit == Init => LockInv
BY MarksAssumption DEF Init, Idle, LockInv, Inside

LEMMA LockNext == TypeOK /\ LockInv /\ [Next]_vars => LockInv'
<1> SUFFICES ASSUME TypeOK, LockInv, [Next]_vars PROVE LockInv'
  OBVIOUS
<1>1. pc \in [Threads -> Pcs]
  BY DEF TypeOK
<1>2. ASSUME NEW t \in Threads, Call(t) PROVE LockInv'
  BY <1>1, <1>2 DEF Call, LockInv, Inside
<1>3. ASSUME NEW t \in Threads, Handle(t) PROVE LockInv'
  <2>1. CASE Enters(t)
    BY <1>1, <2>1, MarksAssumption DEF Enters, LockInv
  <2>2. CASE Moves(t)
    BY <1>1, <2>2 DEF Moves, LockInv
  <2>3. CASE Leaves(t)
    BY <1>1, <2>3, MarksAssumption DEF Leaves, Return, LockInv, Inside
  <2> QED
    BY <1>3, <2>1, <2>2, <2>3, HandleShape
<1>4. ASSUME UNCHANGED threads PROVE LockInv'
  BY <1>4 DEF threads, LockInv
<1>5. CASE Restart
  BY <1>5, MarksAssumption DEF Restart, Idle, LockInv, Inside
<1> QED
  BY <1>2, <1>3, <1>4, <1>5
  DEF Next, Poll, PollWaveforms, PollPosition, PollPoint, PollNotify, PollUnflag,
      Outside, vars

LEMMA CallNext == TypeOK /\ LockInv /\ CallInv /\ [Next]_vars => CallInv'
<1> SUFFICES ASSUME TypeOK, LockInv, CallInv, [Next]_vars PROVE CallInv'
  OBVIOUS
<1>1. /\ pc \in [Threads -> Pcs]
      /\ call \in [Threads -> Calls \cup {NoCall}]
  BY DEF TypeOK
<1>2. ASSUME NEW t \in Threads, Call(t) PROVE CallInv'
  BY <1>1, <1>2 DEF Call, CallInv, Inside
<1>3. ASSUME NEW t \in Threads, Handle(t) PROVE CallInv'
  <2> USE <1>1 DEF CallInv, Begin, Goto, Inside, Pcs
  <2>1. ASSUME NEW params \in {Int32Params, Float64Params}, ReadRegister(t, params)
        PROVE  CallInv'
    BY <2>1 DEF ReadRegister, RegParams
  <2>2. ASSUME NEW params, WriteRegister(t, params) PROVE CallInv'
    BY <2>2 DEF WriteRegister
  <2>3. CASE ReadPosition(t) \/ ReadNoRegister(t) \/ WritePosition(t)
    BY <2>3 DEF ReadPosition, ReadNoRegister, WritePosition
  <2>4. CASE StoreWrite(t)
    BY <2>4 DEF StoreWrite
  <2>5. CASE StoreRead(t)
    BY <2>5 DEF StoreRead
  <2>6. CASE ClearOn(t) \/ ClearReset(t) \/ ClearOff(t)
    BY <2>6 DEF ClearOn, ClearReset, ClearOff
  <2>7. CASE Notify(t) \/ Unflag(t)
    BY <2>7 DEF Notify, Unflag
  <2>8. CASE Return(t)
    BY <2>8 DEF Return
  <2> QED
    BY <1>3, <2>1, <2>2, <2>3, <2>4, <2>5, <2>6, <2>7, <2>8
    DEF Handle, ReadInt32, ReadFloat64, WriteInt32, WriteFloat64
<1>4. ASSUME UNCHANGED threads PROVE CallInv'
  BY <1>4 DEF threads, CallInv
<1>5. CASE Restart
  BY <1>5 DEF Restart, Idle, CallInv, Inside
<1> QED
  BY <1>2, <1>3, <1>4, <1>5
  DEF Next, Poll, PollWaveforms, PollPosition, PollPoint, PollNotify, PollUnflag,
      Outside, vars

-----------------------------------------------------------------------------
(* The library and the registers.                                           *)

LEMMA PrivateOffset ==
    ASSUME NEW p \in PrivateParams, NEW q \in RegParams, p # q
    PROVE  /\ p \in RegParams
           /\ Offset[p] \in Offsets
           /\ Offset[p] # Offset[q]
           /\ Offset[p] \notin OutsideOffsets
BY DEF PrivateParams, Private, Offsets

LEMMA SetParamEffect ==
    ASSUME TypeOK, NEW q, NEW v, SetParam(q, v), NEW p \in RegParams
    PROVE  lib'[p] = IF p = q THEN v ELSE lib[p]
BY DEF TypeOK, SetParam

LEMMA Uint32WriteEffect ==
    ASSUME TypeOK, fdOpen, NEW q \in RegParams, NEW w, Uint32Write(Offset[q], w),
           NEW p \in PrivateParams
    PROVE  Word(p)' = IF p = q THEN w ELSE Word(p)
BY PrivateOffset DEF TypeOK, Uint32Write, Word, Offsets, PrivateParams

(* Only the thread that holds the port is inside a handler. *)
LEMMA Alone ==
    ASSUME LockInv, NEW t \in Threads, NEW u \in Threads,
           pc[t] \in Inside \/ port = NoThread, pc[u] \in Inside
    PROVE  u = t
BY MarksAssumption DEF LockInv

(* A step of thread t that leaves the other parameters alone, and of its    *)
(* own establishes what its next program counter promises.                  *)
LEMMA StepPreserves ==
    ASSUME IInv, TypeOK', LockInv', NEW t \in Threads,
           pc[t] \in Inside \/ port = NoThread,
           pc'[t] \in Inside, call' = call, fdOpen' = fdOpen,
           fdOpen => \A p \in PrivateParams \ {call[t].param} :
                       lib'[p] = lib[p] /\ Word(p)' = Word(p),
           (fdOpen /\ call[t].param \in PrivateParams) =>
               /\ Progress(t)'
               /\ \/ Agrees(call[t].param)'
                  \/ pc'[t] \in {"write", "clear", "unclear"}
    PROVE  ProgressInv' /\ AgreeInv'
<1>1. ProgressInv'
  <2>1. ASSUME NEW u \in Threads, pc'[u] \in Inside PROVE u = t
    BY <2>1, MarksAssumption DEF LockInv
  <2> QED
    BY <2>1 DEF ProgressInv
<1>2. ASSUME fdOpen, NEW p \in PrivateParams, p # call[t].param
      PROVE  Agrees(p)'
  <2>1. ~ Writing(p)
    BY <1>2, Alone DEF Writing, Inside, Pcs, IInv
  <2>2. Agrees(p)
    BY <1>2, <2>1 DEF IInv, AgreeInv
  <2>3. lib'[p] = lib[p] /\ Word(p)' = Word(p)
    BY <1>2
  <2> QED
    BY <2>2, <2>3 DEF Agrees
<1>3. ASSUME fdOpen, call[t].param \in PrivateParams
      PROVE  Agrees(call[t].param)' \/ Writing(call[t].param)'
  BY <1>3 DEF Writing
<1>4. AgreeInv'
  BY <1>2, <1>3 DEF AgreeInv
<1> QED
  BY <1>1, <1>4

(* Reads. *)
LEMMA ReadPreserves ==
    ASSUME IInv, TypeOK', LockInv', NEW t \in Threads,
           \/ ReadPosition(t) \/ ReadNoRegister(t) \/ StoreRead(t)
           \/ \E params \in {Int32Params, Float64Params} : ReadRegister(t, params)
    PROVE  ProgressInv' /\ AgreeInv'
<1> DEFINE p == call[t].param
<1> USE DEF IInv, library, poller, board, Begin, Goto
<1>1. pc \in [Threads -> Pcs] /\ result' \in [Threads -> [value : Int, status : {"asynSuccess", "asynError"}]]
  BY DEF TypeOK
<1>2. CASE ReadPosition(t) \/ ReadNoRegister(t)
  <2>1. p \notin PrivateParams
    BY <1>2, NamesAssumption DEF ReadPosition, ReadNoRegister, PrivateParams
  <2>2. \A q : lib'[q] = lib[q] /\ Word(q)' = Word(q)
    BY <1>2 DEF ReadPosition, ReadNoRegister, Word
  <2>3. pc'[t] = "return" /\ call' = call /\ fdOpen' = fdOpen /\ port = NoThread
    BY <1>1, <1>2 DEF ReadPosition, ReadNoRegister
  <2> QED
    BY <2>1, <2>2, <2>3, StepPreserves DEF Inside, Pcs
<1>3. ASSUME NEW params \in {Int32Params, Float64Params}, ReadRegister(t, params)
      PROVE  ProgressInv' /\ AgreeInv'
  <2>1. PICK w \in Uint32Read(Offset[p]) :
          result' = [result EXCEPT ![t] = [value |-> ToEng(p, w),
                                           status |-> "asynSuccess"]]
    BY <1>3 DEF ReadRegister
  <2>2. \A q : lib'[q] = lib[q] /\ Word(q)' = Word(q)
    BY <1>3 DEF ReadRegister, Word
  <2>3. pc'[t] = "store" /\ call' = call /\ fdOpen' = fdOpen /\ port = NoThread
    BY <1>1, <1>3 DEF ReadRegister
  <2>4. fdOpen => Progress(t)'
    <3>1. fdOpen => w = Word(p)
      BY <2>1 DEF Uint32Read, Word
    <3>2. result'[t].value = ToEng(p, w)
      BY <2>1 DEF TypeOK
    <3> QED
      BY <2>2, <2>3, <3>1, <3>2 DEF Progress, ToEng
  <2>5. (fdOpen /\ p \in PrivateParams) => Agrees(p)'
    <3>1. ~ Writing(p)
      BY <2>3, MarksAssumption DEF LockInv, Writing, Inside, Pcs
    <3> QED
      BY <2>2, <2>3, <3>1 DEF AgreeInv, Agrees
  <2> QED
    BY <2>2, <2>3, <2>4, <2>5, StepPreserves DEF Inside, Pcs
<1>4. CASE StoreRead(t)
  <2>1. /\ pc[t] = "store" /\ pc'[t] = "notify" /\ call' = call /\ fdOpen' = fdOpen
        /\ register' = register /\ result' = result
        /\ SetParam(p, result[t].value)
    BY <1>1, <1>4 DEF StoreRead
  <2>2. \A q \in RegParams : lib'[q] = IF q = p THEN result[t].value ELSE lib[q]
    BY <2>1, SetParamEffect
  <2>3. \A q : Word(q)' = Word(q)
    BY <2>1 DEF Word
  <2>4. call[t].op = "read" /\ p \in RegParams
    BY <2>1 DEF CallInv, Inside, Pcs
  <2>5. (fdOpen /\ p \in PrivateParams) => lib'[p] = result[t].value /\ result[t].value = ToEng(p, Word(p))
    BY <2>1, <2>2, <2>4 DEF ProgressInv, Progress, Inside, Pcs
  <2>6. (fdOpen /\ p \in PrivateParams) => Progress(t)' /\ Agrees(p)'
    BY <2>1, <2>3, <2>4, <2>5 DEF Progress, Settled, Agrees, ToEng
  <2> QED
    BY <2>1, <2>2, <2>3, <2>6, StepPreserves DEF Inside, Pcs, PrivateParams
<1> QED
  BY <1>2, <1>3, <1>4

(* Writes, up to the register. *)
LEMMA WritePreserves ==
    ASSUME IInv, TypeOK', LockInv', NEW t \in Threads,
           \/ WritePosition(t) \/ StoreWrite(t)
           \/ \E params \in {Int32Params, Float64Params} : WriteRegister(t, params)
    PROVE  ProgressInv' /\ AgreeInv'
<1> DEFINE p == call[t].param
<1> USE DEF IInv, library, poller, board, Begin, Goto
<1>1. pc \in [Threads -> Pcs]
  BY DEF TypeOK
<1>2. CASE WritePosition(t)
  <2>1. p \notin PrivateParams /\ p = Position
    BY <1>2, NamesAssumption DEF WritePosition, PrivateParams
  <2>2. \A q \in RegParams : lib'[q] = lib[q] /\ Word(q)' = Word(q)
    BY <1>2, <2>1, SetParamEffect, NamesAssumption DEF WritePosition, Word
  <2>3. pc'[t] = "return" /\ call' = call /\ fdOpen' = fdOpen /\ port = NoThread
    BY <1>1, <1>2 DEF WritePosition
  <2> QED
    BY <2>1, <2>2, <2>3, StepPreserves DEF Inside, Pcs, PrivateParams
<1>3. CASE StoreWrite(t)
  <2>1. /\ call' = call /\ fdOpen' = fdOpen /\ port = NoThread
        /\ SetParam(p, call[t].arg)
        /\ p \in RegParams
        /\ pc'[t] = IF p = Clear /\ call[t].arg = 1 THEN "clear" ELSE "write"
    BY <1>1, <1>3 DEF StoreWrite
  <2>2. \A q \in RegParams : lib'[q] = IF q = p THEN call[t].arg ELSE lib[q]
    BY <2>1, SetParamEffect
  <2>3. \A q : Word(q)' = Word(q)
    BY <1>3 DEF StoreWrite, Word
  <2>4. Progress(t)'
    BY <2>1, <2>2 DEF Progress
  <2> QED
    BY <2>1, <2>2, <2>3, <2>4, StepPreserves DEF Inside, Pcs, PrivateParams
<1>4. ASSUME NEW params \in {Int32Params, Float64Params}, WriteRegister(t, params)
      PROVE  ProgressInv' /\ AgreeInv'
  <2>1. /\ pc[t] = "write" /\ pc'[t] = "notify" /\ call' = call /\ fdOpen' = fdOpen
        /\ lib' = lib
        /\ Uint32Write(Offset[p], ToRaw(p, call[t].arg))
    BY <1>1, <1>4 DEF WriteRegister
  <2>2. /\ p \in RegParams /\ call[t].op = "write"
        /\ ~ (p = Clear /\ call[t].arg = 1)
    BY <2>1 DEF CallInv, Inside, Pcs
  <2>3. fdOpen => \A q \in PrivateParams :
          Word(q)' = IF q = p THEN ToRaw(p, call[t].arg) ELSE Word(q)
    BY <2>1, <2>2, Uint32WriteEffect
  <2>4. (fdOpen /\ p \in PrivateParams) => lib[p] = call[t].arg
    BY <2>1 DEF ProgressInv, Progress, Inside, Pcs
  <2>5. ASSUME fdOpen, p \in PrivateParams
        PROVE  Progress(t)' /\ Agrees(p)'
    <3>1. lib'[p] = call[t].arg /\ Word(p)' = ToRaw(p, call[t].arg)
      BY <2>1, <2>3, <2>4, <2>5
    <3>2. Final(call[t])' = call[t].arg
      BY <2>1, <2>2 DEF Final
    <3> QED
      BY <2>1, <2>2, <3>1, <3>2 DEF Progress, Settled, Agrees
  <2> QED
    BY <2>1, <2>3, <2>5, StepPreserves DEF Inside, Pcs
<1> QED
  BY <1>2, <1>3, <1>4

(* The clear sequence. *)
LEMMA ClearPreserves ==
    ASSUME IInv, TypeOK', LockInv', NEW t \in Threads,
           ClearOn(t) \/ ClearReset(t) \/ ClearOff(t)
    PROVE  ProgressInv' /\ AgreeInv'
<1> USE DEF IInv, library, poller, board, Goto
<1>1. pc \in [Threads -> Pcs]
  BY DEF TypeOK
<1>2. /\ pc[t] \in {"clear", "sleep", "unclear"}
      /\ call' = call /\ fdOpen' = fdOpen
  BY DEF ClearOn, ClearReset, ClearOff
<1>3. /\ call[t].param = Clear /\ call[t].arg = 1 /\ call[t].op = "write"
      /\ Clear \in RegParams
  BY <1>2, NamesAssumption DEF CallInv, RegParams
<1>4. CASE ClearOn(t)
  <2>1. /\ pc'[t] = "sleep"
        /\ SetParam(Clear, 1) /\ Uint32Write(Offset[Clear], 1)
    BY <1>1, <1>4 DEF ClearOn
  <2>2. \A q \in RegParams : lib'[q] = IF q = Clear THEN 1 ELSE lib[q]
    BY <2>1, SetParamEffect
  <2>3. fdOpen => \A q \in PrivateParams : Word(q)' = IF q = Clear THEN 1 ELSE Word(q)
    BY <1>3, <2>1, Uint32WriteEffect
  <2>4. (fdOpen /\ Clear \in PrivateParams) => Progress(t)' /\ Agrees(Clear)'
    BY <1>2, <1>3, <2>1, <2>2, <2>3, ClearConversion DEF Progress, Agrees
  <2> QED
    BY <1>2, <1>3, <2>1, <2>2, <2>3, <2>4, StepPreserves DEF Inside, Pcs, PrivateParams
<1>5. CASE ClearReset(t)
  <2>1. pc[t] = "sleep" /\ pc'[t] = "unclear" /\ SetParam(Clear, 0)
    BY <1>1, <1>5 DEF ClearReset
  <2>2. \A q \in RegParams : lib'[q] = IF q = Clear THEN 0 ELSE lib[q]
    BY <2>1, SetParamEffect
  <2>3. \A q : Word(q)' = Word(q)
    BY <1>5 DEF ClearReset, Word
  <2>4. (fdOpen /\ Clear \in PrivateParams) => Word(Clear) = 1
    BY <1>3, <2>1 DEF ProgressInv, Progress, Inside, Pcs
  <2>5. (fdOpen /\ Clear \in PrivateParams) => Progress(t)'
    BY <1>2, <1>3, <2>1, <2>2, <2>3, <2>4 DEF Progress
  <2> QED
    BY <1>2, <1>3, <2>1, <2>2, <2>3, <2>5, StepPreserves DEF Inside, Pcs, PrivateParams
<1>6. CASE ClearOff(t)
  <2>1. /\ pc[t] = "unclear" /\ pc'[t] = "notify" /\ lib' = lib
        /\ Uint32Write(Offset[Clear], 0)
    BY <1>1, <1>6 DEF ClearOff
  <2>2. fdOpen => \A q \in PrivateParams : Word(q)' = IF q = Clear THEN 0 ELSE Word(q)
    BY <1>3, <2>1, Uint32WriteEffect
  <2>3. (fdOpen /\ Clear \in PrivateParams) => lib[Clear] = 0
    BY <1>3, <2>1 DEF ProgressInv, Progress, Inside, Pcs
  <2>4. (fdOpen /\ Clear \in PrivateParams) => Progress(t)' /\ Agrees(Clear)'
    BY <1>2, <1>3, <2>1, <2>2, <2>3, ClearConversion DEF Progress, Settled, Final, Agrees
  <2> QED
    BY <1>2, <1>3, <2>1, <2>2, <2>4, StepPreserves DEF Inside, Pcs
<1> QED
  BY <1>4, <1>5, <1>6

(* The callbacks and the return. *)
LEMMA EndPreserves ==
    ASSUME IInv, TypeOK', LockInv', NEW t \in Threads,
           Notify(t) \/ Unflag(t) \/ Return(t)
    PROVE  ProgressInv' /\ AgreeInv'
<1> DEFINE p == call[t].param
<1> USE DEF IInv, library, poller, board, Goto
<1>1. pc \in [Threads -> Pcs]
  BY DEF TypeOK
<1>2. /\ pc[t] \in {"notify", "unflag", "return"}
      /\ lib' = lib /\ register' = register /\ fdOpen' = fdOpen
  BY DEF Notify, Unflag, Return
<1>3. \A q : Word(q)' = Word(q)
  BY <1>2 DEF Word
<1>4. (fdOpen /\ p \in PrivateParams) => Settled(t, p)
  BY <1>2 DEF ProgressInv, Progress, Inside, Pcs
<1>5. ASSUME fdOpen, NEW q \in PrivateParams PROVE Agrees(q)'
  <2>1. ~ Writing(q)
    BY <1>2, Alone DEF Writing, Inside, Pcs
  <2>2. Agrees(q)
    BY <1>5, <2>1 DEF AgreeInv
  <2> QED
    BY <1>2, <1>3, <2>2 DEF Agrees
<1>6. CASE Notify(t) \/ Unflag(t)
  <2>1. pc'[t] \in {"unflag", "return"} /\ call' = call /\ result' = result
    BY <1>1, <1>6 DEF Notify, Unflag
  <2>2. (fdOpen /\ p \in PrivateParams) => Progress(t)'
    BY <1>2, <1>3, <1>4, <2>1 DEF Progress, Settled
  <2> QED
    BY <1>2, <1>3, <1>5, <2>1, <2>2, StepPreserves DEF Inside, Pcs
<1>7. CASE Return(t)
  <2>1. \A u \in Threads : pc'[u] \notin Inside
    BY <1>7, MarksAssumption DEF LockInv, Return
  <2> QED
    BY <1>2, <1>5, <2>1 DEF ProgressInv, AgreeInv
<1> QED
  BY <1>6, <1>7

(* Steps outside the handlers: a call begins, the poller, the FPGA. *)
Aside(t) == \/ pc'[t] = pc[t] /\ call'[t] = call[t] /\ result'[t] = result[t]
            \/ pc'[t] = "lock" /\ pc[t] = "idle"

LEMMA OtherPreserves ==
    ASSUME IInv, fdOpen' = fdOpen, lib' = lib,
           \A p \in PrivateParams : Word(p)' = Word(p),
           \A t \in Threads : Aside(t)
    PROVE  ProgressInv' /\ AgreeInv'
<1> USE DEF Aside
<1>1. ProgressInv'
  BY DEF IInv, ProgressInv, Progress, Settled, Final, Inside
<1>2. \A p \in PrivateParams : Writing(p) => Writing(p)'
  BY DEF Writing
<1>3. \A p \in PrivateParams : Agrees(p) => Agrees(p)'
  BY DEF Agrees
<1> QED
  BY <1>1, <1>2, <1>3 DEF IInv, AgreeInv

-----------------------------------------------------------------------------
(* The poller.                                                              *)

LEMMA PollInit == Init => PollInv
BY DEF Init, Idle, PollInv

LEMMA PollNext == TypeOK /\ PollInv /\ [Next]_vars => PollInv'
<1> SUFFICES ASSUME TypeOK, PollInv, [Next]_vars PROVE PollInv'
  OBVIOUS
<1>1. ASSUME <<ppc, pos, k, sample, point>>' = <<ppc, pos, k, sample, point>>
      PROVE  PollInv'
  BY <1>1 DEF PollInv, InWaveform
<1>2. ASSUME NEW t \in Threads, Call(t) PROVE PollInv'
  BY <1>1, <1>2 DEF Call, library, poller
<1>3. ASSUME NEW t \in Threads, Handle(t) PROVE PollInv'
  BY <1>1, <1>3
  DEF Handle, ReadPosition, ReadNoRegister, ReadInt32, ReadFloat64, ReadRegister,
      StoreRead, WritePosition, StoreWrite, WriteInt32, WriteFloat64, WriteRegister,
      ClearOn, ClearReset, ClearOff, Notify, Unflag, Return, library, poller
<1>4. CASE PollWaveforms \/ PollNotify \/ PollUnflag
  BY <1>4 DEF PollWaveforms, PollNotify, PollUnflag, PollInv
<1>5. CASE PollPosition
  BY <1>5 DEF PollPosition, PollInv, InWaveform
<1>6. CASE PollPoint
  <2>1. /\ ppc = "points" /\ k \in 1 .. Len(PointOrder) /\ k' = k + 1
        /\ pos' = pos /\ sample' = sample
        /\ point' = [point EXCEPT ![PointOrder[k]] = <<sample, pos>>]
        /\ ppc' = IF k = Len(PointOrder) THEN "notify" ELSE "points"
    BY <1>6 DEF PollPoint, SetPoint, TypeOK
  <2>2. ASSUME NEW i \in 1 .. k' - 1 PROVE point'[PointOrder[i]] = <<sample, pos>>
    <3>1. PointOrder[i] \in DOMAIN point
      BY <2>1, PointsType, NamesAssumption DEF TypeOK
    <3>2. CASE PointOrder[i] = PointOrder[k]
      BY <2>1, <3>1, <3>2
    <3>3. CASE PointOrder[i] # PointOrder[k]
      <4>1. i \in 1 .. k - 1
        BY <2>1, <3>3
      <4> QED
        BY <2>1, <3>1, <3>3, <4>1 DEF PollInv
    <3> QED
      BY <3>2, <3>3
  <2> QED
    BY <2>1, <2>2 DEF PollInv, InWaveform
<1>7. CASE Outside
  BY <1>1, <1>7 DEF Outside, library, poller
<1>8. CASE Restart
  BY <1>8 DEF Restart, Idle, PollInv
<1>9. CASE UNCHANGED vars
  BY <1>1, <1>9 DEF vars, library, poller
<1> QED
  BY <1>2, <1>3, <1>4, <1>5, <1>6, <1>7, <1>8, <1>9 DEF Next, Poll

-----------------------------------------------------------------------------
(* All together.                                                            *)

LEMMA InvInit == Init => IInv
<1> SUFFICES ASSUME Init PROVE IInv
  OBVIOUS
<1>1. CallInv /\ ProgressInv
  BY DEF Init, Idle, CallInv, ProgressInv, Inside
<1>2. AgreeInv
  BY NamesAssumption DEF Init, Fresh, AgreeInv, Agrees, PrivateParams
<1> QED
  BY <1>1, <1>2, TypeInit, LockInit, PollInit DEF IInv

LEMMA InvNext == IInv /\ [Next]_vars => IInv'
<1> SUFFICES ASSUME IInv, [Next]_vars PROVE IInv'
  OBVIOUS
<1>1. TypeOK' /\ LockInv' /\ CallInv' /\ PollInv'
  BY TypeNext, LockNext, CallNext, PollNext DEF IInv
<1>2. ProgressInv' /\ AgreeInv'
  <2>1. ASSUME NEW t \in Threads, Handle(t) PROVE ProgressInv' /\ AgreeInv'
    BY <1>1, <2>1, ReadPreserves, WritePreserves, ClearPreserves, EndPreserves
    DEF Handle, ReadInt32, ReadFloat64, WriteInt32, WriteFloat64
  <2>2. ASSUME NEW t \in Threads, Call(t) PROVE ProgressInv' /\ AgreeInv'
    <3>1. fdOpen' = fdOpen /\ lib' = lib /\ register' = register /\ result' = result
      BY <2>2 DEF Call, library, board
    <3>2. \A p \in PrivateParams : Word(p)' = Word(p)
      BY <3>1 DEF Word
    <3>3. \A u \in Threads : Aside(u)
      <4>1. pc \in [Threads -> Pcs] /\ call \in [Threads -> Calls \cup {NoCall}]
        BY DEF IInv, TypeOK
      <4> QED
        BY <2>2, <3>1, <4>1 DEF Call, Aside
    <3> QED
      BY <3>1, <3>2, <3>3, OtherPreserves
  <2>3. CASE Poll \/ UNCHANGED vars
    <3>1. UNCHANGED <<lib, threads, fdOpen, register>>
      BY <2>3 DEF Poll, PollWaveforms, PollPosition, PollPoint, PollNotify,
                  PollUnflag, vars, library, board
    <3>2. \A p \in PrivateParams : Word(p)' = Word(p)
      BY <3>1 DEF Word
    <3>3. \A u \in Threads : Aside(u)
      BY <3>1 DEF threads, Aside
    <3> QED
      BY <3>1, <3>2, <3>3, OtherPreserves
  <2>4. CASE Outside
    <3>1. \A p \in PrivateParams : Word(p)' = Word(p)
      BY <2>4 DEF Outside, Word, PrivateParams, Private, IInv, TypeOK, Offsets
    <3>2. fdOpen' = fdOpen /\ lib' = lib
      BY <2>4 DEF Outside, library
    <3>3. \A u \in Threads : Aside(u)
      BY <2>4 DEF Outside, threads, Aside
    <3> QED
      BY <3>1, <3>2, <3>3, OtherPreserves
  <2>5. CASE Restart
    <3>1. \A p \in RegParams : lib'[p] = Undefined
      BY <2>5, NamesAssumption DEF Restart, Fresh
    <3>2. \A t \in Threads : pc'[t] \notin Inside
      BY <2>5 DEF Restart, Idle, Inside
    <3> QED
      BY <3>1, <3>2 DEF ProgressInv, AgreeInv, Agrees, PrivateParams
  <2> QED
    BY <2>1, <2>2, <2>3, <2>4, <2>5 DEF Next
<1> QED
  BY <1>1, <1>2 DEF IInv

(* The inductive invariant: what each step of a handler has established     *)
(* about library and register, and the poller about its values, holds       *)
(* however the threads interleave (readInt32 .. writeFloat64, pollerThread).*)
THEOREM Invariant == Spec => []IInv
<1>1. Init /\ [][Next]_vars => []IInv
  BY InvInit, InvNext, PTL
<1> QED
  BY <1>1, PTL DEF Spec

(* Whenever no handler runs, every private parameter agrees with its FPGA   *)
(* register: no interleaving of the handlers of any number of threads, no   *)
(* clear sequence, no poller step and no restart tears the two apart.       *)
THEOREM StaysInStep == Spec => []InStep
<1>1. IInv => InStep
  <2> SUFFICES ASSUME IInv, port = NoThread, fdOpen, NEW p \in PrivateParams
               PROVE  Agrees(p)
    BY DEF InStep, Agrees
  <2>1. ~ Writing(p)
    BY MarksAssumption DEF IInv, LockInv, Writing, Inside, Pcs
  <2> QED
    BY <2>1 DEF IInv, AgreeInv
<1> QED
  BY <1>1, Invariant, PTL

(* When a handler returns, what it did to the library and the register is   *)
(* still so.                                                                *)
THEOREM HandlersAreEffective == Spec => []Effective
<1>1. IInv => Effective
  BY DEF IInv, Effective, ProgressInv, Progress, Inside, Pcs
<1> QED
  BY <1>1, Invariant, PTL

(* While a clear sequence sleeps, and until it writes 0, the FPGA's         *)
(* manual_Clear register holds 1.                                           *)
THEOREM ClearIsHeld == Spec => []ClearHeld
<1>1. IInv => ClearHeld
  <2> SUFFICES ASSUME IInv, NEW t \in Threads, pc[t] \in {"sleep", "unclear"},
                      fdOpen, Private(Clear)
               PROVE  Word(Clear) = 1
    BY DEF ClearHeld
  <2>1. call[t].param = Clear /\ Clear \in PrivateParams
    BY NamesAssumption DEF IInv, CallInv, PrivateParams, RegParams
  <2> QED
    BY <2>1 DEF IInv, ProgressInv, Progress, Inside, Pcs
<1> QED
  BY <1>1, Invariant, PTL

(* The single-point values a record is called back with are all of one      *)
(* sample at one position within the waveforms, whatever positions are      *)
(* written meanwhile and however many values there are.                     *)
THEOREM PointsAreOfOnePosition == Spec => []OnePosition
<1>1. IInv => OnePosition
  <2> SUFFICES ASSUME IInv, ppc = "notify", NEW p \in Points
               PROVE  point[p] = <<sample, pos>>
    BY DEF IInv, PollInv, OnePosition
  <2>1. PICK i \in 1 .. Len(PointOrder) : p = PointOrder[i]
    BY NamesAssumption DEF Points
  <2> QED
    BY <2>1, NamesAssumption DEF IInv, PollInv
<1> QED
  BY <1>1, Invariant, PTL
=============================================================================
