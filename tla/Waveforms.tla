------------------------------ MODULE Waveforms ------------------------------
(***************************************************************************)
(* The poller thread's reading of the waveforms (pollerThread of           *)
(* cpciLLRF.cpp, waveformRead of cpciAccess.c) against the FPGA, which     *)
(* captures new ones while they are read: one ioctl per 32-bit word, the   *)
(* buffer of short with its 14 pointers, and the arrays computed from it.  *)
(*                                                                         *)
(* A point is represented by where the FPGA had it and in which capture;   *)
(* what a formula computes is represented by the points it computes from.  *)
(*                                                                         *)
(* The FPGA is external: a capture replaces the points of all channels     *)
(* column by column, the columns in any order, and rd_reg_state says       *)
(* whether the CPU can read; its register, at offset 508, can be written   *)
(* too, through state_wr_reg or by the command line tool.                  *)
(***************************************************************************)
EXTENDS Integers

CONSTANTS WAVEFORM_POINT,   \* points of a waveform
          MaxCaptures,      \* bound on captures
          DeviceOpens,      \* outcomes of openDevice: a set of BOOLEANs
          Garbage           \* what an unset variable holds

WAVEFORM_NUMBER == 14
WAVEFORM_LENGTH == WAVEFORM_NUMBER * WAVEFORM_POINT * 2

ASSUME PointAssumption   == WAVEFORM_POINT \in Nat \ {0}
ASSUME CaptureAssumption == MaxCaptures \in Nat
ASSUME OpensAssumption   == DeviceOpens \subseteq BOOLEAN
ASSUME GarbageAssumption == Garbage \notin [at : Nat, of : Nat]

VARIABLES
    fdOpen,         \* fd # -1
    memory,         \* per point in the FPGA, the capture it is of
    ready,          \* rd_reg_state
    pending,        \* the points of a waveform the capture has yet to replace
    capture,        \* the number of captures begun
    ppc,            \* the poller: "sleep", "reading", "computed", "returned"
    index,          \* i of waveformRead
    waveformBuffer, \* the points read
    since,          \* history: the last capture complete when the read began
    unready         \* history: rd_reg_state was 0 during the read

fpga   == <<memory, ready, pending, capture>>
poller == <<ppc, index, waveformBuffer>>
vars   == <<fdOpen, fpga, poller, since, unready>>

Columns  == 0 .. WAVEFORM_POINT - 1
AllPoints == 0 .. WAVEFORM_NUMBER * WAVEFORM_POINT - 1

(* What the poller gets for point n of the FPGA. *)
Point(n) == IF fdOpen THEN [at |-> n, of |-> memory[n]] ELSE Garbage

Init ==
    /\ fdOpen \in DeviceOpens
    /\ memory = [n \in AllPoints |-> 0]
    /\ ready = 1
    /\ pending = {}
    /\ capture = 0
    /\ ppc = "sleep"
    /\ index = 0
    /\ waveformBuffer = [n \in AllPoints |-> Garbage]
    /\ since = 0
    /\ unready = FALSE

-----------------------------------------------------------------------------
(* The FPGA.                                                                *)

CaptureBegin ==
    /\ pending = {} /\ capture < MaxCaptures
    /\ capture' = capture + 1
    /\ pending' = Columns
    /\ ready' = 0
    /\ unready' = TRUE
    /\ UNCHANGED <<fdOpen, memory, poller, since>>

CaptureColumn ==
    /\ \E x \in pending :
         /\ memory' = [n \in AllPoints |->
                         IF n % WAVEFORM_POINT = x THEN capture ELSE memory[n]]
         /\ pending' = pending \ {x}
    /\ ready' = IF pending' = {} THEN 1 ELSE ready
    /\ UNCHANGED <<fdOpen, capture, poller, since, unready>>

(* Somebody writes offset 508. *)
WriteState ==
    /\ ready' \in {0, 1}
    /\ unready' = (unready \/ ready' = 0)
    /\ UNCHANGED <<fdOpen, memory, pending, capture, poller, since>>

-----------------------------------------------------------------------------
(* waveformRead.                                                            *)

(* Mutants: one word too few; one too many. *)
CountOf4BytesShort(length) == length \div 4 - 1
CountOf4BytesLong(length) == length \div 4 + 1
CountOf4Bytes(length) == length \div 4

(* uint32Read's status. *)
Uint32Status == "OK"

(* Mutant: i keeps the value the last read left. *)
ReadResume ==
    /\ ppc = "sleep"
    /\ ppc' = IF WAVEFORM_LENGTH % 4 # 0 THEN "returned"
              ELSE IF index < CountOf4Bytes(WAVEFORM_LENGTH) THEN "reading"
              ELSE "computed"
    /\ since' = IF pending = {} THEN capture ELSE capture - 1
    /\ unready' = (ready = 0)
    /\ UNCHANGED <<fdOpen, fpga, index, waveformBuffer>>

(* After its sleep the poller calls waveformRead; rd_reg_state is not       *)
(* consulted (the code that would is disabled by #ifdef false).             *)
ReadBegin ==
    /\ ppc = "sleep"
    /\ ppc' = IF WAVEFORM_LENGTH % 4 # 0 THEN "returned" ELSE "reading"
    /\ index' = 0
    /\ since' = IF pending = {} THEN capture ELSE capture - 1
    /\ unready' = (ready = 0)
    /\ UNCHANGED <<fdOpen, fpga, waveformBuffer>>

(* One word, two points, by uint32Read; after the last one the arrays are   *)
(* computed.  Any other status than OK ends the thread.                     *)
ReadWord ==
    /\ ppc = "reading"
    /\ waveformBuffer' =
         [n \in AllPoints |-> IF n \div 2 = index THEN Point(n) ELSE waveformBuffer[n]]
    /\ index' = index + 1
    /\ ppc' = IF Uint32Status # "OK" THEN "returned"
              ELSE IF index' < CountOf4Bytes(WAVEFORM_LENGTH) THEN "reading"
              ELSE "computed"
    /\ UNCHANGED <<fdOpen, fpga, since, unready>>

-----------------------------------------------------------------------------
(* The arrays.                                                              *)

(* waveform_0 .. waveform_13 *)
Waveform(w, i) == waveformBuffer[WAVEFORM_POINT * w + i]

(* The waveforms each published array is computed from: an amplitude, phase *)
(* or power of the forward and reflected wave from its I and Q, a VSWR or a *)
(* power of the cavity from several powers.                                 *)
Inputs ==
    [CAV2_amp |-> {0}, CAV2_phase |-> {1}, CAV1_amp |-> {2}, CAV1_phase |-> {3},
     fwd1_amp |-> {4, 5}, fwd1_phase |-> {4, 5}, fwd1_power |-> {4, 5},
     rfl1_amp |-> {6, 7}, rfl1_phase |-> {6, 7}, rfl1_power |-> {6, 7},
     CAV_VSWR1 |-> 4 .. 7,
     fwd2_amp |-> {8, 9}, fwd2_phase |-> {8, 9}, fwd2_power |-> {8, 9},
     rfl2_amp |-> {10, 11}, rfl2_phase |-> {10, 11}, rfl2_power |-> {10, 11},
     CAV_VSWR2 |-> 8 .. 11,
     CAV_inpower |-> 4 .. 11, CAV_fwdpower |-> {4, 5, 8, 9},
     CAV_rflpower |-> {6, 7, 10, 11},
     DAC_amp |-> {12}, DAC_phase |-> {13}]

(* What element i of array a is computed from. *)
Element(a, i) == [w \in Inputs[a] |-> Waveform(w, i)]

(* doCallbacksFloat64Array of every array, and to sleep. *)
Publish ==
    /\ ppc = "computed"
    /\ ppc' = "sleep"
    /\ UNCHANGED <<fdOpen, fpga, index, waveformBuffer, since, unready>>

Poll == ReadBegin \/ ReadWord \/ Publish
Next == Poll \/ CaptureBegin \/ CaptureColumn \/ WriteState

(* The poller thread is scheduled; the FPGA need not capture. *)
Spec == Init /\ [][Next]_vars /\ WF_vars(Poll)

-----------------------------------------------------------------------------
(* Every variable holds a value of the program; the word read next lies in  *)
(* the waveforms and in the buffer.                                         *)
TypeOK ==
    /\ fdOpen \in BOOLEAN
    /\ memory \in [AllPoints -> 0 .. MaxCaptures]
    /\ ready \in {0, 1}
    /\ pending \subseteq Columns
    /\ capture \in 0 .. MaxCaptures
    /\ ppc \in {"sleep", "reading", "computed", "returned"}
    /\ index \in 0 .. WAVEFORM_LENGTH \div 4
    /\ ppc = "reading" => 2 * index + 1 \in AllPoints
    /\ DOMAIN waveformBuffer = AllPoints
    /\ since \in 0 .. capture
    /\ unready \in BOOLEAN

Elements == {<<a, i>> : a \in DOMAIN Inputs, i \in Columns}

(* Every element of a published array is computed from the points of that   *)
(* place in its own waveforms, none older than the last capture that was    *)
(* complete when the read began, whatever the FPGA did since.               *)
EveryPointFresh ==
    (ppc = "computed" /\ fdOpen) =>
        \A e \in Elements : \A w \in Inputs[e[1]] :
            LET pt == Element(e[1], e[2])[w]
            IN  /\ pt # Garbage
                /\ pt.at = WAVEFORM_POINT * w + e[2]
                /\ pt.of >= since

(* What is published is of the last capture throughout.                     *)
OfLastCapture ==
    ppc = "computed" /\ \A e \in Elements : \A w \in Inputs[e[1]] :
        Element(e[1], e[2])[w] = [at |-> WAVEFORM_POINT * w + e[2], of |-> capture]

(* A sample mixed from two captures does not stay: whatever the poller was  *)
(* doing when a capture ended, it publishes all of that capture, unless the *)
(* next one begins before it has, even if the FPGA never captures again.    *)
LastCapturePublished ==
    (fdOpen /\ pending = {}) ~> (pending # {} \/ OfLastCapture)

-----------------------------------------------------------------------------
(* The inductive invariant behind EveryPointFresh.                          *)

LastComplete == IF pending = {} THEN capture ELSE capture - 1

(* The columns the capture has replaced are of it, the others of the last. *)
FpgaInv ==
    /\ \A n \in AllPoints :
          memory[n] = IF n % WAVEFORM_POINT \in pending THEN capture - 1 ELSE capture
    /\ pending # {} => capture > 0

(* The words read so far are in their places, and no older than the last    *)
(* capture that was complete when the read began.                           *)
ReadInv ==
    /\ ppc \in {"reading", "computed"} =>
          /\ since <= LastComplete
          /\ fdOpen => \A n \in AllPoints :
                n \div 2 < index =>
                   /\ waveformBuffer[n] \in [at : {n}, of : Nat]
                   /\ since <= waveformBuffer[n].of /\ waveformBuffer[n].of <= capture
    /\ ppc = "computed" => index = WAVEFORM_LENGTH \div 4

-----------------------------------------------------------------------------
(* A statement of the repository that the code does not keep.               *)

Torn(e) ==
    \E v, w \in Inputs[e[1]] :
        Element(e[1], e[2])[v].of # Element(e[1], e[2])[w].of

(* cpciLLRF.db:1302: "Whether CPU can read waveform", 1 "Can read", 0       *)
(* "Cannot read": no published value that is computed from two captures was *)
(* read while it was 0.                                                     *)
CannotRead ==
    (ppc = "computed" /\ fdOpen) => \A e \in Elements : Torn(e) => ~unready
=============================================================================
