----------------------------- MODULE PciDriver -----------------------------
(***************************************************************************)
(* The life of the kernel module (pci_driver_llrf.c) around the one board  *)
(* it handles: insmod, the probe call by call with its error paths, the    *)
(* removal of the board, the device file that user processes open and call *)
(* ioctl on, and rmmod.                                                    *)
(*                                                                         *)
(* External, modelled from how the module uses it: the PCI core probes a   *)
(* present board once per insertion or load and serializes probe, remove   *)
(* and unregistration; module_exit does not begin while a file is open     *)
(* (.owner = THIS_MODULE), and a module on its way out opens no file.      *)
(***************************************************************************)
EXTENDS Integers

CONSTANTS Procs,      \* user processes
          Blocks,     \* blocks kmalloc may return
          Faults,     \* calls of driver_probe that may fail
          MaxLoads,   \* bound on insmod
          MaxPlugs,   \* bound on insertions of a board
          Null

ASSUME BoundsAssumption == MaxLoads \in Nat /\ MaxPlugs \in Nat
ASSUME NullAssumption   == Null \notin Blocks
ASSUME FaultsAssumption ==
    Faults \subseteq {"enable", "regions", "alloc", "map", "chrdev"}

VARIABLES
    module,     \* "out", "live" or "leaving" (pci_llrf_exit runs)
    board,      \* the slot: "absent", "present", "bound" or "failed" (probe)
    step,       \* the next call of driver_probe, driver_remove or the exit
    goal,       \* what board becomes once remove, or an error path, is done
    enabled,    \* pci_enable_device is in effect
    claimed,    \* pci_request_regions is in effect
    mappings,   \* mappings of the BAR in effect
    chrdev,     \* the major number is registered
    pciDevInfo, \* the global pointer
    heap,       \* the blocks; "raw" before its remapAddr is set
    file,       \* per process: "closed", "open" or "ioctl"
    loads, plugs,
    reinserted  \* history: a board was inserted while the device file existed

device == <<enabled, claimed, mappings>>
kernel == <<module, board, step, goal>>
memory == <<pciDevInfo, heap>>
bounds == <<loads, plugs, reinserted>>
vars   == <<kernel, device, chrdev, memory, file, bounds>>

Init ==
    /\ module = "out"
    /\ board = "absent"
    /\ step = "none" /\ goal = "absent"
    /\ enabled = FALSE /\ claimed = FALSE /\ chrdev = FALSE
    /\ mappings = 0
    /\ pciDevInfo = Null
    /\ heap = [b \in Blocks |-> "unused"]
    /\ file = [p \in Procs |-> "closed"]
    /\ loads = 0 /\ plugs = 0
    /\ reinserted = FALSE

-----------------------------------------------------------------------------
(* Around the module.                                                       *)

Insmod ==
    /\ module = "out" /\ loads < MaxLoads
    /\ module' = "live"
    /\ loads' = loads + 1
    /\ UNCHANGED <<board, step, goal, device, chrdev, memory, file, plugs, reinserted>>

Plug ==
    /\ board = "absent" /\ plugs < MaxPlugs
    /\ board' = "present"
    /\ plugs' = plugs + 1
    /\ reinserted' = (reinserted \/ (module = "live" /\ chrdev))
    /\ UNCHANGED <<module, step, goal, device, chrdev, memory, file, loads>>

(* The board is pulled out; driver_remove runs if it was bound. *)
Unplug ==
    /\ step = "none" /\ board # "absent"
    /\ goal' = "absent"
    /\ IF board = "bound"
       THEN step' = "release" /\ UNCHANGED board
       ELSE board' = "absent" /\ UNCHANGED step
    /\ UNCHANGED <<module, device, chrdev, memory, file, bounds>>

-----------------------------------------------------------------------------
(* driver_probe, one action per call of its body.                           *)

ProbeStart ==
    /\ module = "live" /\ step = "none" /\ board = "present"
    /\ step' = "enable"
    /\ goal' = "failed"
    /\ UNCHANGED <<module, board, device, chrdev, memory, file, bounds>>

(* At call, the probe goes on with next, or fails and unwinds from undo. *)
Probe(call, next, undo) ==
    /\ step = call
    /\ \/ step' = next
       \/ call \in Faults /\ step' = undo
    /\ UNCHANGED <<module, goal, file, bounds>>

EnableDevice ==
    /\ step = "enable"
    /\ \/ step' = "regions" /\ enabled' = TRUE /\ UNCHANGED board
       \/ "enable" \in Faults /\ step' = "none" /\ board' = goal /\ UNCHANGED enabled
    /\ UNCHANGED <<module, goal, claimed, mappings, chrdev, memory, file, bounds>>

(* Mutant: the error path of pci_request_regions leaves the board enabled. *)
RequestRegionsLeaky ==
    /\ step = "regions"
    /\ \/ step' = "alloc" /\ claimed' = TRUE /\ UNCHANGED board
       \/ "regions" \in Faults /\ step' = "none" /\ board' = goal /\ UNCHANGED claimed
    /\ UNCHANGED <<module, goal, enabled, mappings, chrdev, memory, file, bounds>>

RequestRegions ==
    /\ Probe("regions", "alloc", "disable")
    /\ claimed' = (step' = "alloc")
    /\ UNCHANGED <<board, enabled, mappings, chrdev, memory>>

(* Mutant: kmalloc's result is not tested. *)
AllocUnchecked ==
    /\ step = "alloc"
    /\ step' = "map"
    /\ \/ \E b \in Blocks : /\ heap[b] = "unused"
                            /\ heap' = [heap EXCEPT ![b] = "raw"]
                            /\ pciDevInfo' = b
       \/ "alloc" \in Faults /\ pciDevInfo' = Null /\ UNCHANGED heap
    /\ UNCHANGED <<module, board, goal, device, chrdev, file, bounds>>

(* kmalloc: the pointer is assigned whether it succeeds or not. *)
Alloc ==
    /\ Probe("alloc", "map", "release")
    /\ IF step' = "map"
       THEN \E b \in Blocks : /\ heap[b] = "unused"
                              /\ heap' = [heap EXCEPT ![b] = "raw"]
                              /\ pciDevInfo' = b
       ELSE pciDevInfo' = Null /\ UNCHANGED heap
    /\ UNCHANGED <<board, device, chrdev>>

(* getPciDevCSRInfo, getPciBarInfo, which cannot fail, and mapPciBar.  Its  *)
(* mapping is in effect from here on: no call of the module undoes it.      *)
MapPciBar ==
    /\ Probe("map", "chrdev", "free")
    /\ IF step' = "chrdev"
       THEN heap' = [heap EXCEPT ![pciDevInfo] = "mapped"] /\ mappings' = mappings + 1
       ELSE UNCHANGED <<heap, mappings>>
    /\ UNCHANGED <<board, enabled, claimed, chrdev, pciDevInfo>>

(* Mutant: register_chrdev's result is not tested. *)
RegisterChrdevUnchecked ==
    /\ step = "chrdev"
    /\ chrdev' \in {TRUE} \cup (IF "chrdev" \in Faults THEN {chrdev} ELSE {})
    /\ board' = "bound"
    /\ step' = "none"
    /\ UNCHANGED <<module, goal, device, memory, file, bounds>>

(* register_chrdev of a fixed major number fails while it is registered. *)
RegisterChrdev ==
    /\ step = "chrdev"
    /\ \/ /\ ~chrdev
          /\ chrdev' = TRUE
          /\ board' = "bound"
          /\ step' = "none"
       \/ /\ chrdev \/ "chrdev" \in Faults
          /\ step' = "free"
          /\ UNCHANGED <<chrdev, board>>
    /\ UNCHANGED <<module, goal, device, memory, file, bounds>>

(* kfree: freeing what is already free corrupts the heap. *)
Kfree(b) == heap' = [heap EXCEPT ![b] = IF @ = "freed" THEN "corrupt" ELSE "freed"]

ProbeFree ==
    /\ step = "free"
    /\ step' = "release"
    /\ Kfree(pciDevInfo)
    /\ UNCHANGED <<module, board, goal, device, chrdev, pciDevInfo, file, bounds>>

(* The ends of the error paths, and driver_remove. *)
ReleaseRegions ==
    /\ step = "release"
    /\ step' = "disable"
    /\ claimed' = FALSE
    /\ UNCHANGED <<module, board, goal, enabled, mappings, chrdev, memory, file, bounds>>

(* Mutants: driver_remove frees pciDevInfo; a probe that fails is retried. *)
DisableDeviceFrees ==
    /\ step = "disable"
    /\ enabled' = FALSE
    /\ step' = IF module = "leaving" THEN "unregister_chrdev" ELSE "none"
    /\ board' = goal
    /\ IF board = "bound" THEN Kfree(pciDevInfo) ELSE UNCHANGED heap
    /\ UNCHANGED <<module, goal, claimed, mappings, chrdev, pciDevInfo, file, bounds>>

DisableDeviceRetry ==
    /\ step = "disable"
    /\ enabled' = FALSE
    /\ IF goal = "failed"
       THEN step' = "enable" /\ UNCHANGED board
       ELSE /\ step' = IF module = "leaving" THEN "unregister_chrdev" ELSE "none"
            /\ board' = goal
    /\ UNCHANGED <<module, goal, claimed, mappings, chrdev, memory, file, bounds>>

DisableDevice ==
    /\ step = "disable"
    /\ enabled' = FALSE
    /\ step' = IF module = "leaving" THEN "unregister_chrdev" ELSE "none"
    /\ board' = goal
    /\ UNCHANGED <<module, goal, claimed, mappings, chrdev, memory, file, bounds>>

-----------------------------------------------------------------------------
(* pci_llrf_exit.                                                           *)

(* pci_unregister_driver removes the board if it is bound. *)
Rmmod ==
    /\ module = "live" /\ step = "none"
    /\ \A p \in Procs : file[p] = "closed"
    /\ module' = "leaving"
    /\ IF board = "bound"
       THEN step' = "release" /\ goal' = "present"
       ELSE step' = "unregister_chrdev" /\ UNCHANGED goal
    /\ UNCHANGED <<board, device, chrdev, memory, file, bounds>>

(* Mutant: the major number is kept. *)
UnregisterChrdevMissing ==
    /\ step = "unregister_chrdev"
    /\ step' = "exit"
    /\ UNCHANGED <<module, board, goal, device, chrdev, memory, file, bounds>>

UnregisterChrdev ==
    /\ step = "unregister_chrdev"
    /\ step' = "exit"
    /\ chrdev' = FALSE
    /\ UNCHANGED <<module, board, goal, device, memory, file, bounds>>

(* The module's data goes with it: a later load finds pciDevInfo NULL. *)
ExitFree ==
    /\ step = "exit"
    /\ step' = "none"
    /\ IF pciDevInfo # Null THEN Kfree(pciDevInfo) ELSE UNCHANGED heap
    /\ pciDevInfo' = Null
    /\ module' = "out"
    /\ board' = IF board = "failed" THEN "present" ELSE board
    /\ UNCHANGED <<goal, device, chrdev, file, bounds>>

-----------------------------------------------------------------------------
(* The device file.                                                         *)

Move(p, from, to) ==
    /\ file[p] = from
    /\ file' = [file EXCEPT ![p] = to]
    /\ UNCHANGED <<kernel, device, chrdev, memory, bounds>>

Open(p)  == module = "live" /\ chrdev /\ Move(p, "closed", "open")
Close(p) == Move(p, "open", "closed")

(* From here on the ioctl reads pciDevInfo->pciBarInfoList[2].remapAddr. *)
IoctlEnter(p)  == Move(p, "open", "ioctl")
IoctlReturn(p) == Move(p, "ioctl", "open")

-----------------------------------------------------------------------------
Kernel == \/ EnableDevice \/ RequestRegions \/ Alloc \/ MapPciBar
          \/ RegisterChrdev \/ ProbeFree
          \/ ReleaseRegions \/ DisableDevice
          \/ UnregisterChrdev \/ ExitFree

Next == \/ Insmod \/ Plug \/ Unplug \/ Rmmod
        \/ ProbeStart \/ Kernel
        \/ \E p \in Procs : Open(p) \/ Close(p) \/ IoctlEnter(p) \/ IoctlReturn(p)

(* Calls of the module return, and the PCI core probes a present board; no  *)
(* user process and no operator has to do anything.                         *)
Spec == Init /\ [][Next]_vars /\ WF_vars(Kernel) /\ WF_vars(ProbeStart)

-----------------------------------------------------------------------------
Steps == {"none", "enable", "regions", "alloc", "map", "chrdev",
          "free", "release", "disable",
          "unregister_chrdev", "exit"}

(* Every variable holds a value of the program; pciDevInfo points to a      *)
(* block wherever driver_probe dereferences or frees it.                    *)
TypeOK ==
    /\ module \in {"out", "live", "leaving"}
    /\ board \in {"absent", "present", "bound", "failed"}
    /\ step \in Steps
    /\ goal \in {"absent", "present", "failed"}
    /\ enabled \in BOOLEAN /\ claimed \in BOOLEAN /\ chrdev \in BOOLEAN
    /\ mappings \in Nat
    /\ pciDevInfo \in Blocks \cup {Null}
    /\ heap \in [Blocks -> {"unused", "raw", "mapped", "freed", "corrupt"}]
    /\ file \in [Procs -> {"closed", "open", "ioctl"}]
    /\ loads \in 0 .. MaxLoads
    /\ plugs \in 0 .. MaxPlugs
    /\ reinserted \in BOOLEAN
    /\ step \in {"map", "chrdev", "free"} => pciDevInfo # Null

(* Between calls, the board is enabled and its regions are claimed exactly  *)
(* while it is bound: whichever call fails, every error path of             *)
(* driver_probe, driver_remove and the exit undo pci_enable_device and      *)
(* pci_request_regions.  It says nothing of the other things a probe takes: *)
(* driver_remove keeps the block and the major number, and the mapping of   *)
(* the BAR is what MappingsBounded is about.                                *)
HeldWhileBound ==
    step = "none" => (enabled <=> board = "bound") /\ (claimed <=> board = "bound")

(* The mappings of the BAR leak: the error path of register_chrdev,         *)
(* driver_remove and the exit leave them in effect, an unload included.     *)
(* What bounds the leak is that a board is probed once per insertion and    *)
(* load and that no path through driver_probe maps the BAR a second time.   *)
MappingsBounded == mappings <= loads + plugs

(* An ioctl finds the board information allocated and its BAR mapped,       *)
(* although the board may be pulled out and the probe may fail at any call: *)
(* the device file appears last, and exit waits for open files.  A board    *)
(* inserted while the device file exists is what InsertedIsServed is about. *)
IoctlFindsBoard ==
    ~reinserted =>
        \A p \in Procs : file[p] = "ioctl" =>
            /\ pciDevInfo # Null
            /\ heap[pciDevInfo] = "mapped"

(* A bound board can be opened. *)
BoundIsServed ==
    (step = "none" /\ board = "bound") =>
        /\ chrdev
        /\ pciDevInfo # Null
        /\ heap[pciDevInfo] = "mapped"

(* An unloaded module leaves no device file and no claim on the board       *)
(* behind, and no allocated block but those a reinsertion made it forget.   *)
(* The mappings of the BAR stay behind (MappingsBounded).                   *)
NothingLeft ==
    module = "out" =>
        /\ ~chrdev /\ ~enabled /\ ~claimed
        /\ ~reinserted => \A b \in Blocks : heap[b] \notin {"raw", "mapped"}

(* No block is freed twice: the error paths of driver_probe and the test of *)
(* pciDevInfo in pci_llrf_exit (pci_driver_llrf.c:603) do not free the same *)
(* block.                                                                   *)
FreedOnce == \A b \in Blocks : heap[b] # "corrupt"

(* A board in its slot under a loaded module does not stay without a        *)
(* verdict: every path of driver_probe, error paths included, ends, and     *)
(* the board is bound or found failing unless it or the module is removed.  *)
ProbeSettles ==
    (module = "live" /\ board = "present") ~>
        (board # "present" \/ module # "live")

(* pci_driver_llrf.c:471: driver_probe serves "already existing devices or  *)
(* later if a new device gets inserted": where no call of it can fail, no   *)
(* inserted board is left without a driver.                                 *)
InsertedIsServed == board # "failed"

-----------------------------------------------------------------------------
(* The invariants above say nothing of the steps between two calls.  These  *)
(* do, and the conjunction of all is inductive.                             *)

Holding == {"release", "alloc", "map", "chrdev", "free"}

(* Who runs: a probe of a present board, a removal of a bound one (pulled   *)
(* out, or by the exit), or the exit.                                       *)
PhaseInv ==
    /\ step \in {"enable", "regions", "alloc", "map", "chrdev", "free"} =>
          module = "live" /\ board = "present" /\ goal = "failed"
    /\ step \in {"release", "disable"} =>
          \/ module = "live" /\ board = "present" /\ goal = "failed"
          \/ module = "live" /\ board = "bound" /\ goal = "absent"
          \/ module = "leaving" /\ board = "bound" /\ goal = "present"
    /\ step \in {"unregister_chrdev", "exit"} => module = "leaving" /\ board # "bound"
    /\ step = "none" => module # "leaving"
    /\ step = "exit" => ~chrdev
    /\ module = "out" => board \in {"absent", "present"} /\ ~chrdev /\ pciDevInfo = Null

(* What the board has been given at each step. *)
DeviceInv ==
    /\ enabled <=> \/ step \in Holding \cup {"regions", "disable"}
                   \/ step = "none" /\ board = "bound"
    /\ claimed <=> step \in Holding \/ (step = "none" /\ board = "bound")

(* A mapping for each load and insertion that got as far, and one to come   *)
(* for the probe that has not.                                              *)
Due == IF /\ module = "live" /\ board = "present"
          /\ step \in {"none", "enable", "regions", "alloc", "map"}
       THEN 1 ELSE 0
MapInv == mappings + Due <= loads + plugs

FileInv == \A p \in Procs : file[p] # "closed" => module = "live" /\ chrdev

(* The block of the probe under way, and of the bound board. *)
BoundInv ==
    /\ step = "map" => heap[pciDevInfo] = "raw"
    /\ step = "chrdev" => heap[pciDevInfo] = "mapped"
    /\ board = "bound" => chrdev /\ pciDevInfo # Null /\ heap[pciDevInfo] = "mapped"

(* Until a board is inserted while the device file exists: the device file  *)
(* has its block, no other block is in use, and none is left to a probe.    *)
BlockInv ==
    ~reinserted =>
        /\ chrdev => /\ board \in {"bound", "absent"} \/ module = "leaving"
                     /\ pciDevInfo # Null
                     /\ heap[pciDevInfo] = "mapped"
        /\ \A b \in Blocks : heap[b] \in {"raw", "mapped"} =>
              /\ b = pciDevInfo
              /\ chrdev \/ step \in {"map", "chrdev", "free", "exit"}

(* Where neither of the two late calls of the probe can fail, pciDevInfo    *)
(* never points to a freed block.                                           *)
NoLateFault == Faults \cap {"map", "chrdev"} = {}
PointerInv ==
    (~reinserted /\ NoLateFault) =>
        /\ step # "free"
        /\ pciDevInfo # Null => heap[pciDevInfo] \in {"raw", "mapped"}
        /\ FreedOnce

IInv == /\ TypeOK /\ PhaseInv /\ DeviceInv /\ MapInv
        /\ FileInv /\ BoundInv /\ BlockInv /\ PointerInv
=============================================================================
