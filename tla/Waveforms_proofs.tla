-------------------------- MODULE Waveforms_proofs --------------------------
(***************************************************************************)
(* For any number of points of a waveform and any number of captures: what *)
(* the poller publishes is computed from fresh points of the right place.  *)
(***************************************************************************)
EXTENDS Waveforms, TLAPS

WaveInv == TypeOK /\ FpgaInv /\ ReadInv

LEMMA Sizes ==
    /\ WAVEFORM_LENGTH % 4 = 0
    /\ WAVEFORM_LENGTH \div 4 = 7 * WAVEFORM_POINT
    /\ CountOf4Bytes(WAVEFORM_LENGTH) = 7 * WAVEFORM_POINT
    /\ 7 * WAVEFORM_POINT \in Nat \ {0}
BY PointAssumption, SMT DEF WAVEFORM_LENGTH, WAVEFORM_NUMBER, CountOf4Bytes

LEMMA WordInside ==
    ASSUME NEW i \in Nat PROVE 2 * i + 1 \in AllPoints <=> i < 7 * WAVEFORM_POINT
BY PointAssumption, SMT DEF AllPoints, WAVEFORM_NUMBER

LEMMA Places ==
    ASSUME NEW n \in AllPoints
    PROVE  /\ n \in Nat
           /\ n \div 2 \in 0 .. 7 * WAVEFORM_POINT - 1
           /\ n % WAVEFORM_POINT \in Columns
BY PointAssumption, SMT DEF AllPoints, WAVEFORM_NUMBER, Columns

(* Element i of an array reads its waveforms inside the buffer. *)
LEMMA InsideBuffer ==
    ASSUME NEW a \in DOMAIN Inputs, NEW w \in Inputs[a], NEW i \in Columns
    PROVE  WAVEFORM_POINT * w + i \in AllPoints
<1>1. Inputs[a] \subseteq 0 .. 13
  BY DEF Inputs
<1>2. \/ w = 0 \/ w = 1 \/ w = 2 \/ w = 3 \/ w = 4 \/ w = 5 \/ w = 6
      \/ w = 7 \/ w = 8 \/ w = 9 \/ w = 10 \/ w = 11 \/ w = 12 \/ w = 13
  BY <1>1
<1> QED
  BY <1>2, PointAssumption DEF AllPoints, Columns, WAVEFORM_NUMBER

LEMMA WaveInit == Init => WaveInv
<1> SUFFICES ASSUME Init PROVE WaveInv
  OBVIOUS
<1>1. TypeOK
  <2>1. /\ fdOpen \in BOOLEAN
        /\ memory \in [AllPoints -> 0 .. MaxCaptures]
        /\ capture \in 0 .. MaxCaptures
    BY OpensAssumption, CaptureAssumption DEF Init
  <2>2. index \in 0 .. WAVEFORM_LENGTH \div 4 /\ since \in 0 .. capture
    BY Sizes DEF Init
  <2>3. ready \in {0, 1} /\ pending \subseteq Columns /\ unready \in BOOLEAN
    BY DEF Init
  <2>4. ppc = "sleep" /\ DOMAIN waveformBuffer = AllPoints
    BY DEF Init
  <2> QED
    BY <2>1, <2>2, <2>3, <2>4 DEF TypeOK
<1>2. FpgaInv
  BY DEF Init, FpgaInv
<1>3. ReadInv
  BY DEF Init, ReadInv
<1> QED
  BY <1>1, <1>2, <1>3 DEF WaveInv

LEMMA BeginKeeps == ASSUME WaveInv, CaptureBegin PROVE WaveInv'
<1> USE DEF CaptureBegin, poller
<1>1. TypeOK'
  BY CaptureAssumption DEF WaveInv, TypeOK
<1>2. pending' = Columns /\ Columns # {} /\ capture' = capture + 1 /\ capture \in Nat
  <2>1. 0 \in Columns
    BY PointAssumption DEF Columns
  <2> QED
    BY <2>1 DEF WaveInv, TypeOK
<1>3. FpgaInv'
  <2>1. ASSUME NEW n \in AllPoints PROVE memory'[n] = capture' - 1
    BY <1>2 DEF WaveInv, FpgaInv
  <2> QED
    BY <1>2, <2>1, Places DEF FpgaInv
<1>4. ReadInv'
  <2>1. LastComplete = capture /\ LastComplete' = capture
    BY <1>2 DEF LastComplete
  <2> QED
    BY <1>2, <2>1 DEF WaveInv, TypeOK, ReadInv
<1> QED
  BY <1>1, <1>3, <1>4 DEF WaveInv

LEMMA ColumnKeeps == ASSUME WaveInv, CaptureColumn PROVE WaveInv'
<1> USE DEF CaptureColumn, poller
<1>1. PICK x \in pending :
        /\ memory' = [n \in AllPoints |->
                        IF n % WAVEFORM_POINT = x THEN capture ELSE memory[n]]
        /\ pending' = pending \ {x}
  OBVIOUS
<1>2. TypeOK'
  BY <1>1 DEF WaveInv, TypeOK
<1>3. FpgaInv'
  BY <1>1 DEF WaveInv, TypeOK, FpgaInv
<1>4. ReadInv'
  BY <1>1 DEF WaveInv, TypeOK, ReadInv, LastComplete
<1> QED
  BY <1>2, <1>3, <1>4 DEF WaveInv

LEMMA WriteStateKeeps == ASSUME WaveInv, WriteState PROVE WaveInv'
<1> USE DEF WriteState, poller
<1>1. TypeOK'
  BY DEF WaveInv, TypeOK
<1>2. FpgaInv' /\ ReadInv'
  BY DEF WaveInv, FpgaInv, ReadInv, LastComplete
<1> QED
  BY <1>1, <1>2 DEF WaveInv

LEMMA ReadBeginKeeps == ASSUME WaveInv, ReadBegin PROVE WaveInv'
<1> USE DEF ReadBegin, fpga
<1>1. TypeOK'
  <2>1. index' \in 0 .. WAVEFORM_LENGTH \div 4 /\ 2 * index' + 1 \in AllPoints
    BY Sizes, WordInside
  <2>2. since' \in 0 .. capture'
    BY DEF WaveInv, TypeOK, FpgaInv
  <2> QED
    BY <2>1, <2>2 DEF WaveInv, TypeOK
<1>2. FpgaInv'
  BY DEF WaveInv, FpgaInv
<1>3. ReadInv'
  <2>1. ppc' # "computed" /\ since' = LastComplete' /\ LastComplete' \in Int
    BY DEF LastComplete, WaveInv, TypeOK
  <2>2. ASSUME NEW n \in AllPoints PROVE ~(n \div 2 < index')
    BY Places
  <2> QED
    BY <2>1, <2>2 DEF ReadInv
<1> QED
  BY <1>1, <1>2, <1>3 DEF WaveInv

LEMMA ReadWordKeeps == ASSUME WaveInv, ReadWord PROVE WaveInv'
<1> USE DEF ReadWord, fpga
<1>1. /\ index \in Nat /\ index' = index + 1 /\ index < 7 * WAVEFORM_POINT
      /\ ppc' = IF index' < 7 * WAVEFORM_POINT THEN "reading" ELSE "computed"
  <2>1. index \in Nat /\ 2 * index + 1 \in AllPoints
    BY DEF WaveInv, TypeOK
  <2> QED
    BY <2>1, Sizes, WordInside DEF Uint32Status
<1>2. TypeOK'
  <2>1. /\ index' \in 0 .. WAVEFORM_LENGTH \div 4
        /\ ppc' = "reading" => 2 * index' + 1 \in AllPoints
    BY <1>1, Sizes, WordInside
  <2>2. DOMAIN waveformBuffer' = AllPoints /\ ppc' \in {"reading", "computed"}
    BY <1>1
  <2> QED
    BY <2>1, <2>2 DEF WaveInv, TypeOK
<1>3. FpgaInv'
  BY DEF WaveInv, FpgaInv
<1>4. ASSUME fdOpen, NEW n \in AllPoints, n \div 2 < index'
      PROVE  /\ waveformBuffer'[n] \in [at : {n}, of : Nat]
             /\ since <= waveformBuffer'[n].of /\ waveformBuffer'[n].of <= capture
  <2>1. CASE n \div 2 = index
    <3>1. waveformBuffer'[n] = [at |-> n, of |-> memory[n]]
      BY <1>4, <2>1 DEF Point
    <3>2. memory[n] \in Nat /\ since <= memory[n] /\ memory[n] <= capture
      BY DEF WaveInv, TypeOK, FpgaInv, ReadInv, LastComplete
    <3> QED
      BY <3>1, <3>2
  <2>2. CASE n \div 2 # index
    <3>1. n \div 2 < index
      BY <1>1, <1>4, <2>2, Places
    <3> QED
      BY <1>4, <2>2, <3>1 DEF WaveInv, ReadInv
  <2> QED
    BY <2>1, <2>2
<1>5. ReadInv'
  <2>1. ppc = "reading" /\ LastComplete' = LastComplete
    BY DEF LastComplete
  <2>2. since' <= LastComplete'
    BY <2>1 DEF WaveInv, ReadInv
  <2>3. ppc' = "computed" => index' = WAVEFORM_LENGTH \div 4
    BY <1>1, Sizes
  <2> QED
    BY <1>4, <2>2, <2>3 DEF ReadInv
<1> QED
  BY <1>2, <1>3, <1>5 DEF WaveInv

LEMMA WaveNext == WaveInv /\ [Next]_vars => WaveInv'
<1> SUFFICES ASSUME WaveInv, [Next]_vars PROVE WaveInv'
  OBVIOUS
<1>1. CASE Publish
  BY <1>1 DEF Publish, fpga, WaveInv, TypeOK, FpgaInv, ReadInv
<1>2. CASE UNCHANGED vars
  BY <1>2 DEF vars, fpga, poller, WaveInv, TypeOK, FpgaInv, ReadInv, LastComplete
<1> QED
  BY <1>1, <1>2, BeginKeeps, ColumnKeeps, WriteStateKeeps, ReadBeginKeeps, ReadWordKeeps DEF Next, Poll

LEMMA WaveInvariant == Spec => []WaveInv
<1>1. Init /\ [][Next]_vars => []WaveInv
  BY WaveInit, WaveNext, PTL
<1> QED
  BY <1>1, PTL DEF Spec

(* The point an element is computed from, once everything has been read. *)
LEMMA PointOfElement ==
    ASSUME WaveInv, ppc = "computed", fdOpen,
           NEW e \in Elements, NEW w \in Inputs[e[1]]
    PROVE  LET pt == Element(e[1], e[2])[w]
           IN  /\ pt # Garbage
               /\ pt.at = WAVEFORM_POINT * w + e[2]
               /\ since <= pt.of /\ pt.of <= capture /\ pt.of \in Nat
<1>1. e[1] \in DOMAIN Inputs /\ e[2] \in Columns
  BY DEF Elements
<1> DEFINE n == WAVEFORM_POINT * w + e[2]
<1>2. n \in AllPoints
  BY <1>1, InsideBuffer
<1>3. Element(e[1], e[2])[w] = waveformBuffer[n]
  BY DEF Element, Waveform
<1>4. /\ waveformBuffer[n] \in [at : {n}, of : Nat]
      /\ since <= waveformBuffer[n].of /\ waveformBuffer[n].of <= capture
  <2>1. index = 7 * WAVEFORM_POINT /\ n \div 2 < index
    BY <1>2, Sizes, Places DEF WaveInv, ReadInv
  <2> QED
    BY <1>2, <2>1 DEF WaveInv, ReadInv
<1>5. n \in Nat
  BY <1>2, Places
<1> HIDE DEF n
<1>6. waveformBuffer[n] # Garbage /\ waveformBuffer[n].at = n /\ waveformBuffer[n].of \in Nat
  BY <1>4, <1>5, GarbageAssumption
<1> QED
  BY <1>3, <1>4, <1>6 DEF n

(* Every variable keeps its type; in particular the word read next lies in  *)
(* the waveforms and the buffer, however long they are.                     *)
THEOREM WaveTypeCorrect == Spec => []TypeOK
<1>1. WaveInv => TypeOK
  BY DEF WaveInv
<1> QED
  BY <1>1, WaveInvariant, PTL

(* Every published element is computed from fresh points of its own place,  *)
(* for waveforms of any length and whatever the FPGA captures meanwhile.    *)
THEOREM PublishedPointsAreFresh == Spec => []EveryPointFresh
<1>1. WaveInv => EveryPointFresh
  BY PointOfElement DEF EveryPointFresh, WaveInv, TypeOK
<1> QED
  BY <1>1, WaveInvariant, PTL
=============================================================================
