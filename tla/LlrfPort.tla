------------------------------ MODULE LlrfPort ------------------------------
(***************************************************************************)
(* The asyn port driver of the LLRF board (cpciLLRF.cpp over cpciAccess.c):*)
(* record threads call readInt32, writeInt32, readFloat64 and writeFloat64 *)
(* under the port lock; the poller thread reads the waveforms and sets the *)
(* single-point parameters, without the lock; the FPGA changes registers   *)
(* of its own accord; the IOC may be killed and restarted while the FPGA   *)
(* keeps its registers.                                                    *)
(*                                                                         *)
(* What asynPortDriver does is external, modelled from how this driver     *)
(* uses it: the calling thread holds the port's mutex for a whole handler; *)
(* set*Param flags a parameter whose value changes; callParamCallbacks     *)
(* hands every flagged value to the records that subscribed, then clears   *)
(* the flags; neither takes the mutex.  The flag of a parameter no record  *)
(* subscribes to has no effect and is left out.                            *)
(***************************************************************************)
EXTENDS Conversions, Sequences

CONSTANTS Threads,         \* threads that process records
          Int32Params,     \* registers[] of type asynParamInt32, by name
          Float64Params,   \* registers[] of type asynParamFloat64, by name
          Offset,          \* Offset[p]: the register of parameter p
          OutsideOffsets,  \* registers the FPGA or the shell tool changes
          PointOrder,      \* the single-point parameters, as pollerThread
                           \* sets them
          NumWavePoints,   \* WAVEFORM_POINT
          Setpoints,       \* Setpoints[p]: the values records write to p
          Words,           \* words the FPGA, or an unset variable, may hold
          Samples,         \* contents of the waveforms
          DeviceOpens,     \* outcomes of openDevice: a set of BOOLEANs
          MaxRestarts,     \* bound on restarts of the IOC
          NoThread, Undefined

Clear     == "manual_Clear"
Position  == "waveform_single_point_position"

RegParams == Int32Params \cup Float64Params
Points    == {PointOrder[i] : i \in DOMAIN PointOrder}
Offsets   == {Offset[p] : p \in RegParams}

ASSUME NamesAssumption ==
    /\ Int32Params \cup Float64Params \subseteq STRING
    /\ Int32Params \cap Float64Params = {}
    /\ Clear \in Int32Params
    /\ Position \notin RegParams
    /\ PointOrder \in Seq(STRING)
    /\ PointOrder # <<>>
    /\ (RegParams \cup {Position}) \cap Points = {}

ASSUME OffsetAssumption ==
    /\ Offset \in [RegParams -> Nat]
    /\ OutsideOffsets \subseteq Offsets

ASSUME ValuesAssumption ==
    /\ \A p \in RegParams \cup {Position} : Setpoints[p] \subseteq Int
    /\ Words \subseteq Int
    /\ Words # {}

ASSUME BoundsAssumption ==
    /\ NumWavePoints \in Nat \ {0}
    /\ MaxRestarts \in Nat
    /\ DeviceOpens \subseteq BOOLEAN

ASSUME MarksAssumption == NoThread \notin Threads /\ Undefined \notin Int

VARIABLES
    fdOpen,     \* fd # -1: openDevice succeeded
    register,   \* the words of the FPGA registers
    lib,        \* the parameter library: registers' parameters, Position
    point,      \* ... the single-point values, as <<sample, position>>
    flags,      \* parameters flagged for callbacks
    shown,      \* what the subscribed records last received
    port,       \* the thread that holds the port lock
    pc,         \* where each thread is
    call,       \* ... the call it makes
    result,     \* ... the *value and status the call returns
    ppc,        \* where the poller is
    sample,     \* ... its waveformBuffer and the arrays computed from it
    pos,        \* ... its local variable position
    k,          \* ... the next single-point parameter to set
    restarts    \* how often the IOC was restarted

library == <<lib, point, flags, shown>>
threads == <<port, pc, call, result>>
poller  == <<ppc, sample, pos, k>>
board   == <<fdOpen, register>>
vars    == <<library, threads, poller, board, restarts>>

-----------------------------------------------------------------------------
(* cpciAccess.c.  ioctl's return value is ignored: without an open device   *)
(* uint32Read returns OK and the unset word of its local variable.          *)

Uint32Read(o) == IF fdOpen THEN {register[o]} ELSE Words

Uint32Write(o, word) ==
    register' = IF fdOpen THEN [register EXCEPT ![o] = word] ELSE register

(* One linear conversion stands for all of Float64: no property here tells  *)
(* them apart.                                                              *)
ToRaw(p, v) == IF p \in Float64Params THEN Float64ToRaw(v) ELSE Int32ToRaw(p, v)
ToEng(p, w) == IF p \in Float64Params THEN Float64ToEng(w) ELSE Int32ToEng(p, w)

-----------------------------------------------------------------------------
(* The parameter library.  Records subscribe to the single-point values     *)
(* (SCAN "I/O Intr") and to manual_Clear (asyn:READBACK).                   *)

Subscribed == Points \cup {Clear}

Current(p) == IF p \in Points THEN point[p] ELSE lib[p]

SetParam(p, v) ==
    /\ lib' = [lib EXCEPT ![p] = v]
    /\ flags' = IF p = Clear /\ lib[p] # v THEN flags \cup {p} ELSE flags

SetPoint(p, v) ==
    /\ point' = [point EXCEPT ![p] = v]
    /\ flags' = IF point[p] # v THEN flags \cup {p} ELSE flags

(* The two halves of callParamCallbacks. *)
Deliver == shown' = [p \in Subscribed |->
                       IF p \in flags THEN Current(p) ELSE shown[p]]
ClearFlags == flags' = {}

-----------------------------------------------------------------------------
(* Record threads.                                                          *)

NoCall == [op |-> "none", param |-> "", arg |-> 0]
NoResult == [value |-> 0, status |-> "asynSuccess"]

Calls ==
    [op : {"read"}, param : RegParams \cup Points \cup {Position}, arg : {0}]
        \cup UNION {[op : {"write"}, param : {p}, arg : Setpoints[p]] :
                      p \in RegParams \cup {Position}}

(* A record is processed: its device support calls the driver. *)
Call(t) ==
    /\ pc[t] = "idle"
    /\ pc' = [pc EXCEPT ![t] = "lock"]
    /\ \E c \in Calls : call' = [call EXCEPT ![t] = c]
    /\ UNCHANGED <<library, port, result, poller, board, restarts>>

(* Mutant: a handler that does not wait for the port. *)
BeginUnlocked(t, op, params, next) ==
    /\ pc[t] = "lock"
    /\ call[t].op = op
    /\ call[t].param \in params
    /\ port' = t
    /\ pc' = [pc EXCEPT ![t] = next]
    /\ UNCHANGED call

(* The wrapper of a handler takes the port lock and the handler begins. *)
Begin(t, op, params, next) ==
    /\ pc[t] = "lock"
    /\ port = NoThread
    /\ call[t].op = op
    /\ call[t].param \in params
    /\ port' = t
    /\ pc' = [pc EXCEPT ![t] = next]
    /\ UNCHANGED call

Goto(t, from, to) ==
    /\ pc[t] = from
    /\ pc' = [pc EXCEPT ![t] = to]
    /\ UNCHANGED <<port, call>>

(* readInt32 of the position: the library's value, whatever the board. *)
ReadPosition(t) ==
    /\ Begin(t, "read", {Position}, "return")
    /\ result' = [result EXCEPT ![t] = [value |-> lib[Position],
                                        status |-> "asynSuccess"]]
    /\ UNCHANGED <<library, poller, board, restarts>>

(* regNameToOffset finds no register of that name. *)
ReadNoRegister(t) ==
    /\ Begin(t, "read", Points, "return")
    /\ result' = [result EXCEPT ![t].status = "asynError"]
    /\ UNCHANGED <<library, poller, board, restarts>>

(* Mutant: a handler that answers from the library what it knows. *)
ReadRegisterCached(t, params) ==
    /\ Begin(t, "read", params, "store")
    /\ \E w \in Uint32Read(Offset[call[t].param]) :
         result' = [result EXCEPT ![t] =
                      [value |-> IF lib[call[t].param] = Undefined
                                 THEN ToEng(call[t].param, w)
                                 ELSE lib[call[t].param],
                       status |-> "asynSuccess"]]
    /\ UNCHANGED <<library, poller, board, restarts>>

(* uint32Read and the conversion, to the caller's *value. *)
ReadRegister(t, params) ==
    /\ Begin(t, "read", params, "store")
    /\ \E w \in Uint32Read(Offset[call[t].param]) :
         result' = [result EXCEPT ![t] = [value |-> ToEng(call[t].param, w),
                                          status |-> "asynSuccess"]]
    /\ UNCHANGED <<library, poller, board, restarts>>

ReadInt32(t)   == ReadRegister(t, Int32Params)
ReadFloat64(t) == ReadRegister(t, Float64Params)

(* Mutant: readInt32 and readFloat64 without their set*Param. *)
StoreReadMissing(t) ==
    /\ Goto(t, "store", "notify")
    /\ UNCHANGED <<library, result, poller, board, restarts>>

(* The value read goes to the library. *)
StoreRead(t) ==
    /\ Goto(t, "store", "notify")
    /\ SetParam(call[t].param, result[t].value)
    /\ UNCHANGED <<point, shown, result, poller, board, restarts>>

(* writeInt32 of the position: the library only, without callbacks. *)
WritePosition(t) ==
    /\ Begin(t, "write", {Position}, "return")
    /\ SetParam(Position, call[t].arg)
    /\ result' = [result EXCEPT ![t] = NoResult]
    /\ UNCHANGED <<point, shown, poller, board, restarts>>

(* The value written goes to the library before the register.  A write of 1 *)
(* to manual_Clear continues as a clear sequence.                           *)
StoreWrite(t) ==
    /\ Begin(t, "write", RegParams,
             IF call[t].param = Clear /\ call[t].arg = 1 THEN "clear" ELSE "write")
    /\ SetParam(call[t].param, call[t].arg)
    /\ UNCHANGED <<point, shown, result, poller, board, restarts>>

WriteRegister(t, params) ==
    /\ Goto(t, "write", "notify")
    /\ call[t].param \in params
    /\ Uint32Write(Offset[call[t].param], ToRaw(call[t].param, call[t].arg))
    /\ result' = [result EXCEPT ![t] = NoResult]
    /\ UNCHANGED <<library, poller, fdOpen, restarts>>

WriteInt32(t)   == WriteRegister(t, Int32Params)
WriteFloat64(t) == WriteRegister(t, Float64Params)

(* Mutant: the port unlocked around epicsThreadSleep. *)
ClearOnUnlocked(t) ==
    /\ pc[t] = "clear"
    /\ pc' = [pc EXCEPT ![t] = "sleep"]
    /\ port' = NoThread
    /\ SetParam(Clear, 1)
    /\ Uint32Write(Offset[Clear], 1)
    /\ UNCHANGED <<point, shown, call, result, poller, fdOpen, restarts>>

(* Mutants: a clear sequence without its setIntegerParam(function, 0), and  *)
(* without its last uint32Write.                                            *)
ClearResetMissing(t) ==
    /\ Goto(t, "sleep", "unclear")
    /\ UNCHANGED <<library, result, poller, board, restarts>>

ClearOffMissing(t) ==
    /\ Goto(t, "unclear", "notify")
    /\ result' = [result EXCEPT ![t] = NoResult]
    /\ UNCHANGED <<library, poller, board, restarts>>

(* The clear sequence: 1, half a second with the port locked, 0. *)
ClearOn(t) ==
    /\ Goto(t, "clear", "sleep")
    /\ SetParam(Clear, 1)
    /\ Uint32Write(Offset[Clear], 1)
    /\ UNCHANGED <<point, shown, result, poller, fdOpen, restarts>>

ClearReset(t) ==
    /\ Goto(t, "sleep", "unclear")
    /\ SetParam(Clear, 0)
    /\ UNCHANGED <<point, shown, result, poller, board, restarts>>

ClearOff(t) ==
    /\ Goto(t, "unclear", "notify")
    /\ Uint32Write(Offset[Clear], 0)
    /\ result' = [result EXCEPT ![t] = NoResult]
    /\ UNCHANGED <<library, poller, fdOpen, restarts>>

(* callParamCallbacks, at the end of every handler that reaches a register. *)
Notify(t) ==
    /\ Goto(t, "notify", "unflag")
    /\ Deliver
    /\ UNCHANGED <<lib, point, flags, result, poller, board, restarts>>

Unflag(t) ==
    /\ Goto(t, "unflag", "return")
    /\ ClearFlags
    /\ UNCHANGED <<lib, point, shown, result, poller, board, restarts>>

(* Mutant: the early return of an error skips the unlock. *)
ReturnLocked(t) ==
    /\ pc[t] = "return"
    /\ port' = IF result[t].status = "asynError" THEN port ELSE NoThread
    /\ pc' = [pc EXCEPT ![t] = "idle"]
    /\ call' = [call EXCEPT ![t] = NoCall]
    /\ result' = [result EXCEPT ![t] = NoResult]
    /\ UNCHANGED <<library, poller, board, restarts>>

Return(t) ==
    /\ pc[t] = "return"
    /\ port' = NoThread
    /\ pc' = [pc EXCEPT ![t] = "idle"]
    /\ call' = [call EXCEPT ![t] = NoCall]
    /\ result' = [result EXCEPT ![t] = NoResult]
    /\ UNCHANGED <<library, poller, board, restarts>>

Handle(t) ==
    \/ ReadPosition(t) \/ ReadNoRegister(t) \/ ReadInt32(t) \/ ReadFloat64(t)
    \/ StoreRead(t)
    \/ WritePosition(t) \/ StoreWrite(t) \/ WriteInt32(t) \/ WriteFloat64(t)
    \/ ClearOn(t) \/ ClearReset(t) \/ ClearOff(t)
    \/ Notify(t) \/ Unflag(t) \/ Return(t)

-----------------------------------------------------------------------------
(* The poller thread, once a second, without the port lock.                 *)

(* waveformRead, the computed arrays and their doCallbacksFloat64Array. *)
PollWaveforms ==
    /\ ppc = "sleep"
    /\ ppc' = "position"
    /\ sample' \in Samples
    /\ UNCHANGED <<library, threads, pos, k, board, restarts>>

InWaveform(x) == x >= 0 /\ x < NumWavePoints

(* Mutant: the last point of the waveforms is out of bounds. *)
PollPositionShort ==
    /\ ppc = "position"
    /\ pos' = lib[Position]
    /\ k' = 1
    /\ ppc' = IF InWaveform(pos' + 1) THEN "points" ELSE "sleep"
    /\ UNCHANGED <<library, threads, sample, board, restarts>>

PollPosition ==
    /\ ppc = "position"
    /\ pos' = lib[Position]
    /\ k' = 1
    /\ ppc' = IF InWaveform(pos') THEN "points" ELSE "sleep"
    /\ UNCHANGED <<library, threads, sample, board, restarts>>

(* Mutants: the position read again for each value; one value too many. *)
PollPointReread ==
    /\ ppc = "points"
    /\ SetPoint(PointOrder[k], <<sample, lib[Position]>>)
    /\ k' = k + 1
    /\ ppc' = IF k = Len(PointOrder) THEN "notify" ELSE "points"
    /\ UNCHANGED <<lib, shown, threads, sample, pos, board, restarts>>

PollPointPast ==
    /\ ppc = "points"
    /\ SetPoint(PointOrder[k], <<sample, pos>>)
    /\ k' = k + 1
    /\ ppc' = IF k > Len(PointOrder) THEN "notify" ELSE "points"
    /\ UNCHANGED <<lib, shown, threads, sample, pos, board, restarts>>

PollPoint ==
    /\ ppc = "points"
    /\ SetPoint(PointOrder[k], <<sample, pos>>)
    /\ k' = k + 1
    /\ ppc' = IF k = Len(PointOrder) THEN "notify" ELSE "points"
    /\ UNCHANGED <<lib, shown, threads, sample, pos, board, restarts>>

PollNotify ==
    /\ ppc = "notify"
    /\ ppc' = "unflag"
    /\ Deliver
    /\ UNCHANGED <<lib, point, flags, threads, sample, pos, k, board, restarts>>

PollUnflag ==
    /\ ppc = "unflag"
    /\ ppc' = "sleep"
    /\ ClearFlags
    /\ UNCHANGED <<lib, point, shown, threads, sample, pos, k, board, restarts>>

Poll == PollWaveforms \/ PollPosition \/ PollPoint \/ PollNotify \/ PollUnflag

-----------------------------------------------------------------------------
(* Around the driver.                                                       *)

(* The FPGA, or the shell tool beside the IOC, changes a register. *)
Outside ==
    /\ \E o \in OutsideOffsets, w \in Words :
         register' = [register EXCEPT ![o] = w]
    /\ UNCHANGED <<library, threads, poller, fdOpen, restarts>>

(* What the constructor leaves: openDevice may have failed and the IOC goes *)
(* on without a board.                                                      *)
Fresh(open, l, pt, f, s) ==
    /\ open \in DeviceOpens
    /\ l = [p \in RegParams \cup {Position} |->
              IF p = Position THEN 0 ELSE Undefined]
    /\ pt = [p \in Points |-> Undefined]
    /\ f = {}
    /\ s = [p \in Subscribed |-> Undefined]

(* epicsThreadCreate has started the poller; its failure is not modelled.   *)
Idle(po, c, ca, re, pp, sa, x, n) ==
    /\ po = NoThread
    /\ c = [t \in Threads |-> "idle"]
    /\ ca = [t \in Threads |-> NoCall]
    /\ re = [t \in Threads |-> NoResult]
    /\ pp = "sleep"
    /\ sa = Undefined
    /\ x = 0
    /\ n = 1

Init ==
    /\ Fresh(fdOpen, lib, point, flags, shown)
    /\ Idle(port, pc, call, result, ppc, sample, pos, k)
    /\ register \in [Offsets -> Words]
    /\ restarts = 0

(* The IOC is killed at any point and started again; registers persist. *)
Restart ==
    /\ restarts < MaxRestarts
    /\ restarts' = restarts + 1
    /\ Fresh(fdOpen', lib', point', flags', shown')
    /\ Idle(port', pc', call', result', ppc', sample', pos', k')
    /\ UNCHANGED register

Next == \/ \E t \in Threads : Call(t) \/ Handle(t)
        \/ Poll
        \/ Outside
        \/ Restart

(* A thread inside a handler and the poller keep running; nothing makes a   *)
(* record process, the FPGA change or the IOC restart.                      *)
Spec == /\ Init /\ [][Next]_vars
        /\ \A t \in Threads : WF_vars(Handle(t))
        /\ WF_vars(Poll)

-----------------------------------------------------------------------------
(* Properties.                                                              *)

Pcs == {"idle", "lock", "store", "write", "clear", "sleep", "unclear",
        "notify", "unflag", "return"}
Inside == Pcs \ {"idle", "lock"}
Values == Int \cup {Undefined}

(* Every variable holds a value of the program: raw words and engineering   *)
(* values are integers, only known parameters are ever flagged.             *)
TypeOK ==
    /\ fdOpen \in BOOLEAN
    /\ register \in [Offsets -> Int]
    /\ lib \in [RegParams \cup {Position} -> Values]
    /\ lib[Position] \in Int
    /\ flags \subseteq Subscribed
    /\ port \in Threads \cup {NoThread}
    /\ pc \in [Threads -> Pcs]
    /\ call \in [Threads -> Calls \cup {NoCall}]
    /\ result \in [Threads -> [value : Int, status : {"asynSuccess", "asynError"}]]
    /\ DOMAIN point = Points
    /\ DOMAIN shown = Subscribed
    /\ ppc \in {"sleep", "position", "points", "notify", "unflag"}
    /\ pos \in Int
    /\ k \in 1 .. Len(PointOrder) + 1
    /\ ppc = "points" => k <= Len(PointOrder)
    /\ restarts \in 0 .. MaxRestarts

(* A parameter whose register nothing but its own records changes: not the  *)
(* FPGA or the shell tool, nor another parameter at the same offset, as     *)
(* state_wr_reg and rd_reg_state are at 508.                                *)
Private(p) ==
    /\ Offset[p] \notin OutsideOffsets
    /\ \A q \in RegParams \ {p} : Offset[q] # Offset[p]

PrivateParams == {p \in RegParams : Private(p)}

Word(p) == register[Offset[p]]

(* Whenever no handler is running, a parameter of the library and its FPGA  *)
(* register agree up to the conversion that made one from the other: the    *)
(* library is set before the register by writes and after it by reads, in   *)
(* any mix of threads, clears and restarts of the IOC.                      *)
InStep ==
    (port = NoThread /\ fdOpen) =>
        \A p \in PrivateParams :
            \/ lib[p] = Undefined
            \/ lib[p] = ToEng(p, Word(p))
            \/ Word(p) = ToRaw(p, lib[p])

(* The value a write leaves behind: a clear leaves 0. *)
Final(c) == IF c.param = Clear /\ c.arg = 1 THEN 0 ELSE c.arg

Settled(t, p) ==
    IF call[t].op = "write"
    THEN lib[p] = Final(call[t]) /\ Word(p) = ToRaw(p, Final(call[t]))
    ELSE result[t].value = lib[p] /\ lib[p] = ToEng(p, Word(p))

(* What a handler has done is still so when it returns: the value written   *)
(* is in the library and converted in the register (0 after a clear), the   *)
(* value read is the library's and the register's.                          *)
Effective ==
    \A t \in Threads :
        (pc[t] = "return" /\ fdOpen /\ call[t].param \in PrivateParams) =>
            Settled(t, call[t].param)

(* "Clear flow: write 1 -> write 0": the FPGA sees 1 for the whole half     *)
(* second, whatever other records of the port are processed meanwhile.      *)
ClearHeld ==
    \A t \in Threads :
        (pc[t] \in {"sleep", "unclear"} /\ fdOpen /\ Private(Clear)) =>
            Word(Clear) = 1

(* When the poller calls the callbacks, all single-point values are of one  *)
(* sample at one position within the waveforms, although record threads     *)
(* write the position between any two of its steps.                         *)
OnePosition ==
    /\ ppc \in {"points", "notify"} => InWaveform(pos)
    /\ ppc = "notify" => \A p \in Points : point[p] = <<sample, pos>>

(* A handler ends, so that the port is always free again.                   *)
PortReleased == []<>(port = NoThread)

(* A clear sequence brings the register back to 0.                          *)
ClearCompletes ==
    \A t \in Threads :
        (pc[t] = "sleep" /\ fdOpen) ~> (Word(Clear) = 0 /\ lib[Clear] = 0)

(* A position within the waveforms that is left alone is the position of    *)
(* all single-point values in the end.                                      *)
PointsFollowPosition ==
    \A x \in Setpoints[Position] :
        (InWaveform(x) /\ <>[](lib[Position] = x)) =>
            <>[](\A p \in Points : point[p] # Undefined /\ point[p][2] = x)

-----------------------------------------------------------------------------
(* What the port promises: of the library, the lock, the poller and the     *)
(* callbacks, a record that uses its own registers sees nothing.            *)

PhaseAt(x) == IF x = "idle" THEN "idle"
              ELSE IF x \in {"lock", "write", "clear"} THEN "asked"
              ELSE IF x \in {"sleep", "unclear"} THEN "holding"
              ELSE "answered"

ServiceWord  == [p \in PrivateParams |-> Word(p)]
ServicePhase == [t \in Threads |-> PhaseAt(pc[t])]
ServiceReply == [t \in Threads |->
                   IF PhaseAt(pc[t]) = "answered" THEN result[t].value ELSE 0]

Service == INSTANCE RegisterService WITH
    Clients   <- Threads,
    Requests  <- Calls,
    NoRequest <- NoCall,
    Params    <- PrivateParams,
    open      <- fdOpen,
    word      <- ServiceWord,
    phase     <- ServicePhase,
    request   <- call,
    reply     <- ServiceReply

(* Reads and writes of several threads, whose handlers take several steps   *)
(* each, take effect at one instant between call and return; a clear at     *)
(* two, with nobody at manual_Clear between them; a killed IOC loses calls  *)
(* and no word.                                                             *)
ImplementsService == Service!Spec

-----------------------------------------------------------------------------
(* The inductive invariant behind InStep, Effective, ClearHeld, OnePosition *)
(* and ImplementsService.                                                   *)

(* The threads inside a handler are the one that holds the port. *)
LockInv == \A t \in Threads : pc[t] \in Inside <=> port = t

(* Which calls reach which step of a handler. *)
CallInv ==
    \A t \in Threads :
        /\ pc[t] # "idle" => call[t] \in Calls
        /\ pc[t] = "store" => call[t].op = "read"
        /\ pc[t] \in {"write", "clear", "sleep", "unclear"} => call[t].op = "write"
        /\ pc[t] \in Inside \ {"return"} => call[t].param \in RegParams
        /\ pc[t] = "write" => ~(call[t].param = Clear /\ call[t].arg = 1)
        /\ pc[t] \in {"clear", "sleep", "unclear"} =>
              call[t].param = Clear /\ call[t].arg = 1

(* What each step of a handler has established about its parameter. *)
Progress(t) ==
    LET p == call[t].param
    IN  /\ pc[t] = "store" => result[t].value = ToEng(p, Word(p))
        /\ pc[t] = "write" => lib[p] = call[t].arg
        /\ pc[t] = "sleep" => lib[p] = 1 /\ Word(p) = 1
        /\ pc[t] = "unclear" => lib[p] = 0 /\ Word(p) = 1
        /\ pc[t] \in {"notify", "unflag", "return"} => Settled(t, p)

ProgressInv ==
    \A t \in Threads :
        (fdOpen /\ pc[t] \in Inside /\ call[t].param \in PrivateParams) => Progress(t)

(* A parameter agrees with its register unless a write is under way. *)
Agrees(p) == \/ lib[p] = Undefined
             \/ lib[p] = ToEng(p, Word(p))
             \/ Word(p) = ToRaw(p, lib[p])

Writing(p) == \E t \in Threads : /\ pc[t] \in {"write", "clear", "unclear"}
                                 /\ call[t].param = p

AgreeInv == fdOpen => \A p \in PrivateParams : Agrees(p) \/ Writing(p)

(* The values set so far in a round of the poller are of its sample and its *)
(* position, which is within the waveforms.                                 *)
PollInv ==
    /\ ppc \in {"points", "notify"} =>
          /\ InWaveform(pos)
          /\ \A i \in 1 .. k - 1 : point[PointOrder[i]] = <<sample, pos>>
    /\ ppc = "notify" => k = Len(PointOrder) + 1

(* Everything above holds together, and any step of any thread, the poller, *)
(* the board or a restart keeps it so: library and register can differ only *)
(* between the two halves of a write, and only for the thread that writes.  *)
IInv == TypeOK /\ LockInv /\ CallInv /\ ProgressInv /\ AgreeInv /\ PollInv

-----------------------------------------------------------------------------
(* Statements of the repository that the code does not keep.                *)

(* cpciLLRF.cpp:402 and :467: "Do callbacks so higher layers see any        *)
(* changes": at rest, every subscribed record has the library's value.      *)
SeeAnyChanges ==
    (ppc = "sleep" /\ \A t \in Threads : pc[t] = "idle") =>
        \A p \in Subscribed : shown[p] = Current(p)

(* cpciLLRF.cpp:150: "This driver does not block": no call waits for the    *)
(* port while the handler that holds it sleeps.                             *)
DoesNotBlock ==
    \A t, u \in Threads : ~(pc[t] = "sleep" /\ pc[u] = "lock")

(* cpciAccess.c:132: "uint32Read() returns ERROR!": a register call without *)
(* an open device returns asynError.                                        *)
ErrorsReturned ==
    \A t \in Threads :
        (pc[t] = "return" /\ ~fdOpen /\ call[t].param \in RegParams) =>
            result[t].status = "asynError"
=============================================================================
