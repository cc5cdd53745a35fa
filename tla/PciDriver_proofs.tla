-------------------------- MODULE PciDriver_proofs --------------------------
(***************************************************************************)
(* For any number of processes, blocks, loads and insertions, and whatever *)
(* calls of the probe fail: what the module holds of the board and of the  *)
(* kernel's memory, and what an ioctl finds.                               *)
(***************************************************************************)
EXTENDS PciDriver, TLAPS

(* IInv holds before the first insmod.                                      *)
LEMMA DriverInit == Init => IInv
<1> SUFFICES ASSUME Init PROVE IInv
  OBVIOUS
<1> USE DEF Init
<1>1. TypeOK
  <2>1. heap \in [Blocks -> {"unused"}] /\ file \in [Procs -> {"closed"}]
    OBVIOUS
  <2>2. loads \in 0 .. MaxLoads /\ plugs \in 0 .. MaxPlugs
    BY BoundsAssumption
  <2>3. enabled \in BOOLEAN /\ claimed \in BOOLEAN /\ chrdev \in BOOLEAN /\ reinserted \in BOOLEAN
    OBVIOUS
  <2> QED
    BY <2>1, <2>2, <2>3 DEF TypeOK, Steps
<1>2. PhaseInv /\ DeviceInv /\ FileInv /\ BoundInv
  BY DEF PhaseInv, DeviceInv, FileInv, BoundInv, Holding
<1>3. BlockInv /\ PointerInv
  BY DEF BlockInv, PointerInv, FreedOnce
<1>4. MapInv
  BY DEF MapInv, Due
<1> QED
  BY <1>1, <1>2, <1>3, <1>4 DEF IInv

-----------------------------------------------------------------------------
(* Around the module: insmod, the slot, rmmod.                              *)
LEMMA InsmodKeeps == ASSUME IInv, Insmod PROVE IInv'
<1> USE DEF Insmod, device, memory, IInv
<1>1. TypeOK'
  BY BoundsAssumption DEF TypeOK, Steps
<1>2. PhaseInv' /\ DeviceInv'
  BY DEF TypeOK, PhaseInv, DeviceInv, Holding
<1>3. FileInv' /\ BoundInv'
  BY BoundsAssumption DEF TypeOK, PhaseInv, FileInv, BoundInv
<1>4. BlockInv'
  BY BoundsAssumption DEF TypeOK, PhaseInv, BoundInv, BlockInv
<1>5. PointerInv'
  BY BoundsAssumption DEF TypeOK, PhaseInv, BoundInv, BlockInv, PointerInv, NoLateFault, FreedOnce
<1>6. MapInv'
  BY DEF TypeOK, PhaseInv, MapInv, Due
<1> QED
  BY <1>1, <1>2, <1>3, <1>4, <1>5, <1>6

LEMMA PlugKeeps == ASSUME IInv, Plug PROVE IInv'
<1> USE DEF Plug, device, memory, IInv
<1>1. TypeOK'
  BY BoundsAssumption DEF TypeOK, Steps
<1>2. PhaseInv' /\ DeviceInv'
  BY DEF TypeOK, PhaseInv, DeviceInv, Holding
<1>3. FileInv' /\ BoundInv'
  BY BoundsAssumption DEF TypeOK, PhaseInv, FileInv, BoundInv
<1>4. BlockInv'
  BY BoundsAssumption DEF TypeOK, PhaseInv, BoundInv, BlockInv
<1>5. PointerInv'
  BY BoundsAssumption DEF TypeOK, PhaseInv, BoundInv, BlockInv, PointerInv, NoLateFault, FreedOnce
<1>6. MapInv'
  BY DEF TypeOK, PhaseInv, MapInv, Due
<1> QED
  BY <1>1, <1>2, <1>3, <1>4, <1>5, <1>6

LEMMA UnplugKeeps == ASSUME IInv, Unplug PROVE IInv'
<1> USE DEF Unplug, device, memory, bounds, IInv
<1>1. TypeOK'
  BY DEF TypeOK, Steps
<1>2. PhaseInv' /\ DeviceInv'
  BY DEF TypeOK, PhaseInv, DeviceInv, Holding
<1>3. FileInv' /\ BoundInv'
  BY DEF TypeOK, PhaseInv, FileInv, BoundInv
<1>4. BlockInv'
  BY DEF TypeOK, PhaseInv, BoundInv, BlockInv
<1>5. PointerInv'
  BY DEF TypeOK, PhaseInv, BoundInv, BlockInv, PointerInv, NoLateFault, FreedOnce
<1>6. MapInv'
  BY DEF TypeOK, PhaseInv, MapInv, Due
<1> QED
  BY <1>1, <1>2, <1>3, <1>4, <1>5, <1>6

LEMMA RmmodKeeps == ASSUME IInv, Rmmod PROVE IInv'
<1> USE DEF Rmmod, device, memory, bounds, IInv
<1>1. TypeOK'
  BY DEF TypeOK, Steps
<1>2. PhaseInv' /\ DeviceInv'
  BY DEF TypeOK, PhaseInv, DeviceInv, Holding
<1>3. FileInv' /\ BoundInv'
  BY DEF TypeOK, PhaseInv, FileInv, BoundInv
<1>4. BlockInv'
  BY DEF TypeOK, PhaseInv, BoundInv, BlockInv
<1>5. PointerInv'
  BY DEF TypeOK, PhaseInv, BoundInv, BlockInv, PointerInv, NoLateFault, FreedOnce
<1>6. MapInv'
  BY DEF TypeOK, PhaseInv, MapInv, Due
<1> QED
  BY <1>1, <1>2, <1>3, <1>4, <1>5, <1>6

-----------------------------------------------------------------------------
(* driver_probe, its error paths and driver_remove.                         *)
LEMMA ProbeStartKeeps == ASSUME IInv, ProbeStart PROVE IInv'
<1> USE DEF ProbeStart, device, memory, bounds, IInv
<1>1. TypeOK'
  BY DEF TypeOK, Steps
<1>2. PhaseInv' /\ DeviceInv'
  BY DEF TypeOK, PhaseInv, DeviceInv, Holding
<1>3. FileInv' /\ BoundInv'
  BY DEF TypeOK, PhaseInv, FileInv, BoundInv
<1>4. BlockInv'
  BY DEF TypeOK, PhaseInv, BoundInv, BlockInv
<1>5. PointerInv'
  BY DEF TypeOK, PhaseInv, BoundInv, BlockInv, PointerInv, NoLateFault, FreedOnce
<1>6. MapInv'
  BY DEF TypeOK, PhaseInv, MapInv, Due
<1> QED
  BY <1>1, <1>2, <1>3, <1>4, <1>5, <1>6

LEMMA EnableDeviceKeeps == ASSUME IInv, EnableDevice PROVE IInv'
<1> USE DEF EnableDevice, memory, bounds, IInv
<1>1. TypeOK'
  BY DEF TypeOK, Steps
<1>2. PhaseInv' /\ DeviceInv'
  BY DEF TypeOK, PhaseInv, DeviceInv, Holding
<1>3. FileInv' /\ BoundInv'
  BY DEF TypeOK, PhaseInv, FileInv, BoundInv
<1>4. BlockInv'
  BY DEF TypeOK, PhaseInv, BoundInv, BlockInv
<1>5. PointerInv'
  BY DEF TypeOK, PhaseInv, BoundInv, BlockInv, PointerInv, NoLateFault, FreedOnce
<1>6. MapInv'
  BY DEF TypeOK, PhaseInv, MapInv, Due
<1> QED
  BY <1>1, <1>2, <1>3, <1>4, <1>5, <1>6

LEMMA RequestRegionsKeeps == ASSUME IInv, RequestRegions PROVE IInv'
<1> USE DEF RequestRegions, Probe, memory, bounds, IInv
<1>1. TypeOK'
  BY DEF TypeOK, Steps
<1>2. PhaseInv' /\ DeviceInv'
  BY DEF TypeOK, PhaseInv, DeviceInv, Holding
<1>3. FileInv' /\ BoundInv'
  BY DEF TypeOK, PhaseInv, FileInv, BoundInv
<1>4. BlockInv'
  BY DEF TypeOK, PhaseInv, BoundInv, BlockInv
<1>5. PointerInv'
  BY DEF TypeOK, PhaseInv, BoundInv, BlockInv, PointerInv, NoLateFault, FreedOnce
<1>6. MapInv'
  BY DEF TypeOK, PhaseInv, MapInv, Due
<1> QED
  BY <1>1, <1>2, <1>3, <1>4, <1>5, <1>6

LEMMA AllocKeeps == ASSUME IInv, Alloc PROVE IInv'
<1> USE DEF Alloc, Probe, device, bounds, IInv
<1>1. TypeOK'
  BY NullAssumption DEF TypeOK, Steps
<1>2. PhaseInv' /\ DeviceInv'
  BY DEF TypeOK, PhaseInv, DeviceInv, Holding
<1>3. FileInv' /\ BoundInv'
  BY NullAssumption DEF TypeOK, PhaseInv, FileInv, BoundInv
<1>4. BlockInv'
  BY NullAssumption DEF TypeOK, PhaseInv, BoundInv, BlockInv
<1>5. PointerInv'
  BY NullAssumption DEF TypeOK, PhaseInv, BoundInv, BlockInv, PointerInv, NoLateFault, FreedOnce
<1>6. MapInv'
  BY DEF TypeOK, PhaseInv, MapInv, Due
<1> QED
  BY <1>1, <1>2, <1>3, <1>4, <1>5, <1>6

LEMMA MapPciBarKeeps == ASSUME IInv, MapPciBar PROVE IInv'
<1> USE DEF MapPciBar, Probe, device, bounds, IInv
<1>1. TypeOK'
  BY NullAssumption DEF TypeOK, Steps
<1>2. PhaseInv' /\ DeviceInv'
  BY DEF TypeOK, PhaseInv, DeviceInv, Holding
<1>3. FileInv' /\ BoundInv'
  BY NullAssumption DEF TypeOK, PhaseInv, FileInv, BoundInv
<1>4. BlockInv'
  BY NullAssumption DEF TypeOK, PhaseInv, BoundInv, BlockInv
<1>5. PointerInv'
  BY NullAssumption DEF TypeOK, PhaseInv, BoundInv, BlockInv, PointerInv, NoLateFault, FreedOnce
<1>6. MapInv'
  BY DEF TypeOK, PhaseInv, MapInv, Due
<1> QED
  BY <1>1, <1>2, <1>3, <1>4, <1>5, <1>6

LEMMA RegisterChrdevKeeps == ASSUME IInv, RegisterChrdev PROVE IInv'
<1> USE DEF RegisterChrdev, device, memory, bounds, IInv
<1>1. TypeOK'
  BY DEF TypeOK, Steps
<1>2. PhaseInv' /\ DeviceInv'
  BY DEF TypeOK, PhaseInv, DeviceInv, Holding
<1>3. FileInv' /\ BoundInv'
  BY DEF TypeOK, PhaseInv, FileInv, BoundInv
<1>4. BlockInv'
  BY DEF TypeOK, PhaseInv, BoundInv, BlockInv
<1>5. PointerInv'
  BY DEF TypeOK, PhaseInv, BoundInv, BlockInv, PointerInv, NoLateFault, FreedOnce
<1>6. MapInv'
  BY DEF TypeOK, PhaseInv, MapInv, Due
<1> QED
  BY <1>1, <1>2, <1>3, <1>4, <1>5, <1>6

LEMMA ProbeFreeKeeps == ASSUME IInv, ProbeFree PROVE IInv'
<1> USE DEF ProbeFree, Kfree, device, bounds, IInv
<1>1. TypeOK'
  BY DEF TypeOK, Steps
<1>2. PhaseInv' /\ DeviceInv'
  BY DEF TypeOK, PhaseInv, DeviceInv, Holding
<1>3. FileInv' /\ BoundInv'
  BY DEF TypeOK, PhaseInv, FileInv, BoundInv
<1>4. BlockInv'
  BY DEF TypeOK, PhaseInv, BoundInv, BlockInv
<1>5. PointerInv'
  BY DEF TypeOK, PhaseInv, BoundInv, BlockInv, PointerInv, NoLateFault, FreedOnce
<1>6. MapInv'
  BY DEF TypeOK, PhaseInv, MapInv, Due
<1> QED
  BY <1>1, <1>2, <1>3, <1>4, <1>5, <1>6

LEMMA ReleaseRegionsKeeps == ASSUME IInv, ReleaseRegions PROVE IInv'
<1> USE DEF ReleaseRegions, memory, bounds, IInv
<1>1. TypeOK'
  BY DEF TypeOK, Steps
<1>2. PhaseInv' /\ DeviceInv'
  BY DEF TypeOK, PhaseInv, DeviceInv, Holding
<1>3. FileInv' /\ BoundInv'
  BY DEF TypeOK, PhaseInv, FileInv, BoundInv
<1>4. BlockInv'
  BY DEF TypeOK, PhaseInv, BoundInv, BlockInv
<1>5. PointerInv'
  BY DEF TypeOK, PhaseInv, BoundInv, BlockInv, PointerInv, NoLateFault, FreedOnce
<1>6. MapInv'
  BY DEF TypeOK, PhaseInv, MapInv, Due
<1> QED
  BY <1>1, <1>2, <1>3, <1>4, <1>5, <1>6

LEMMA DisableDeviceKeeps == ASSUME IInv, DisableDevice PROVE IInv'
<1> USE DEF DisableDevice, memory, bounds, IInv
<1>1. TypeOK'
  BY DEF TypeOK, Steps
<1>2. PhaseInv' /\ DeviceInv'
  BY DEF TypeOK, PhaseInv, DeviceInv, Holding
<1>3. FileInv' /\ BoundInv'
  BY DEF TypeOK, PhaseInv, FileInv, BoundInv
<1>4. BlockInv'
  BY DEF TypeOK, PhaseInv, BoundInv, BlockInv
<1>5. PointerInv'
  BY DEF TypeOK, PhaseInv, BoundInv, BlockInv, PointerInv, NoLateFault, FreedOnce
<1>6. MapInv'
  BY DEF TypeOK, PhaseInv, MapInv, Due
<1> QED
  BY <1>1, <1>2, <1>3, <1>4, <1>5, <1>6

-----------------------------------------------------------------------------
(* pci_llrf_exit.                                                           *)
LEMMA UnregisterChrdevKeeps == ASSUME IInv, UnregisterChrdev PROVE IInv'
<1> USE DEF UnregisterChrdev, device, memory, bounds, IInv
<1>1. TypeOK'
  BY DEF TypeOK, Steps
<1>2. PhaseInv' /\ DeviceInv'
  BY DEF TypeOK, PhaseInv, DeviceInv, Holding
<1>3. FileInv' /\ BoundInv'
  BY DEF TypeOK, PhaseInv, FileInv, BoundInv
<1>4. BlockInv'
  BY DEF TypeOK, PhaseInv, BoundInv, BlockInv
<1>5. PointerInv'
  BY DEF TypeOK, PhaseInv, BoundInv, BlockInv, PointerInv, NoLateFault, FreedOnce
<1>6. MapInv'
  BY DEF TypeOK, PhaseInv, MapInv, Due
<1> QED
  BY <1>1, <1>2, <1>3, <1>4, <1>5, <1>6

LEMMA ExitFreeKeeps == ASSUME IInv, ExitFree PROVE IInv'
<1> USE DEF ExitFree, Kfree, device, bounds, IInv
<1>1. TypeOK'
  BY DEF TypeOK, Steps
<1>2. PhaseInv' /\ DeviceInv'
  BY DEF TypeOK, PhaseInv, DeviceInv, Holding
<1>3. FileInv' /\ BoundInv'
  BY DEF TypeOK, PhaseInv, FileInv, BoundInv
<1>4. BlockInv'
  <2>1. ASSUME ~reinserted, NEW b \in Blocks
        PROVE  heap'[b] \notin {"raw", "mapped"}
    <3>1. CASE b = pciDevInfo
      BY <3>1, NullAssumption DEF TypeOK
    <3>2. CASE b # pciDevInfo
      BY <2>1, <3>2 DEF TypeOK, BlockInv
    <3> QED
      BY <3>1, <3>2
  <2>2. ~chrdev'
    BY DEF PhaseInv
  <2> QED
    BY <2>1, <2>2 DEF BlockInv
<1>5. PointerInv'
  BY DEF TypeOK, PhaseInv, BoundInv, BlockInv, PointerInv, NoLateFault, FreedOnce
<1>6. MapInv'
  BY DEF TypeOK, PhaseInv, MapInv, Due
<1> QED
  BY <1>1, <1>2, <1>3, <1>4, <1>5, <1>6

-----------------------------------------------------------------------------
(* The device file: the calls of the user processes.                        *)
LEMMA FileKeeps ==
    ASSUME IInv, NEW p \in Procs,
           Open(p) \/ Close(p) \/ IoctlEnter(p) \/ IoctlReturn(p)
    PROVE  IInv'
<1> USE DEF Open, Close, IoctlEnter, IoctlReturn, Move, kernel, device, memory, bounds, IInv
<1>1. TypeOK'
  BY DEF TypeOK, Steps
<1>2. FileInv'
  BY DEF TypeOK, FileInv
<1>3. PhaseInv' /\ DeviceInv' /\ MapInv' /\ BoundInv' /\ BlockInv' /\ PointerInv'
  BY DEF PhaseInv, DeviceInv, MapInv, Due, BoundInv, BlockInv, PointerInv, FreedOnce
<1> QED
  BY <1>1, <1>2, <1>3

-----------------------------------------------------------------------------
(* Every step of the module, of its users and of the slot keeps IInv.       *)
LEMMA DriverNext == IInv /\ [Next]_vars => IInv'
<1> SUFFICES ASSUME IInv, [Next]_vars PROVE IInv'
  OBVIOUS
<1>1. CASE Kernel
  BY <1>1, EnableDeviceKeeps, RequestRegionsKeeps, AllocKeeps, MapPciBarKeeps,
     RegisterChrdevKeeps, ProbeFreeKeeps, ReleaseRegionsKeeps, DisableDeviceKeeps,
     UnregisterChrdevKeeps, ExitFreeKeeps DEF Kernel
<1>2. CASE UNCHANGED vars
  BY <1>2 DEF vars, kernel, device, memory, bounds, IInv, TypeOK, Steps, PhaseInv,
              DeviceInv, Holding, MapInv, Due, FileInv, BoundInv, BlockInv, PointerInv,
              FreedOnce
<1> QED
  BY <1>1, <1>2, InsmodKeeps, PlugKeeps, UnplugKeeps, RmmodKeeps, ProbeStartKeeps,
     FileKeeps DEF Next

(* IInv holds however calls, insertions, removals and loads follow each other. *)
THEOREM DriverInvariant == Spec => []IInv
<1>1. Init /\ [][Next]_vars => []IInv
  BY DriverInit, DriverNext, PTL
<1> QED
  BY <1>1, PTL DEF Spec

(* Every variable keeps its type; driver_probe has a block wherever it      *)
(* dereferences or frees pciDevInfo (pci_driver_llrf.c:500).                *)
THEOREM DriverTypeCorrect == Spec => []TypeOK
<1>1. IInv => TypeOK
  BY DEF IInv
<1> QED
  BY <1>1, DriverInvariant, PTL

(* pci_enable_device and pci_request_regions, and these two alone, are in   *)
(* effect between calls exactly while the board is bound, whichever calls   *)
(* of driver_probe fail and however often it is inserted.                   *)
THEOREM EnabledAndClaimedWhileBound == Spec => []HeldWhileBound
<1>1. IInv => HeldWhileBound
  BY DEF IInv, DeviceInv, HeldWhileBound, Holding
<1> QED
  BY <1>1, DriverInvariant, PTL

(* No call undoes a mapping of the BAR; there is at most one for each       *)
(* insertion and load, whichever calls of driver_probe fail.                *)
THEOREM OneMappingPerProbe == Spec => []MappingsBounded
<1>1. IInv => MappingsBounded
  <2> SUFFICES ASSUME IInv PROVE mappings <= loads + plugs
    BY DEF MappingsBounded
  <2>1. mappings \in Nat /\ loads \in Nat /\ plugs \in Nat /\ Due \in {0, 1}
    BY BoundsAssumption DEF IInv, TypeOK, Due
  <2> QED
    BY <2>1 DEF IInv, MapInv
<1> QED
  BY <1>1, DriverInvariant, PTL

(* An ioctl of any process finds the board information, unless a board was  *)
(* inserted while the device file existed.                                  *)
THEOREM IoctlsFindBoard == Spec => []IoctlFindsBoard
<1>1. IInv => IoctlFindsBoard
  BY DEF IInv, FileInv, BlockInv, IoctlFindsBoard
<1> QED
  BY <1>1, DriverInvariant, PTL

(* A bound board has its device file and its mapped block, reinserted or not. *)
THEOREM BoundBoardIsServed == Spec => []BoundIsServed
<1>1. IInv => BoundIsServed
  BY DEF IInv, BoundInv, BoundIsServed
<1> QED
  BY <1>1, DriverInvariant, PTL

(* The unloaded module has given back the device file, the board and, until *)
(* a reinsertion, its blocks (pci_llrf_exit); the mappings it has not.      *)
THEOREM UnloadLeavesNothing == Spec => []NothingLeft
<1>1. IInv => NothingLeft
  <2> SUFFICES ASSUME IInv, module = "out"
               PROVE  /\ ~chrdev /\ ~enabled /\ ~claimed
                      /\ ~reinserted => \A b \in Blocks : heap[b] \notin {"raw", "mapped"}
    BY DEF NothingLeft
  <2>1. step = "none" /\ board # "bound" /\ ~chrdev
    BY DEF IInv, TypeOK, Steps, PhaseInv
  <2> QED
    BY <2>1 DEF IInv, DeviceInv, Holding, BlockInv
<1> QED
  BY <1>1, DriverInvariant, PTL

(* The double free of pciDevInfo needs a failing mapPciBar or register_chrdev, *)
(* or a reinsertion: where there is none, no block is freed twice.          *)
THEOREM FreedOnceWithoutLateFault ==
    ASSUME NoLateFault PROVE Spec => [](~reinserted => FreedOnce)
<1>1. IInv => (~reinserted => FreedOnce)
  BY DEF IInv, PointerInv
<1> QED
  BY <1>1, DriverInvariant, PTL
=============================================================================
