# Verification of cpciEpicsApp

TLA+ models of the cPCI LLRF application: an EPICS IOC that serves the registers
and waveforms of an FPGA board, and the kernel module it reaches the board
through. The models are checked with TLC on small instances; every safety property the
passing runs check, and that the port and the way to the board implement the abstract
services their users rely on, is proved with TLAPS for all values of the constants. Liveness
is model-checked.

## The system

| Component | Source | State | Operations | Model |
|---|---|---|---|---|
| Port driver, handlers | `cpciApp/src/cpciLLRF.cpp`, `.h` | parameter library, `fd` | `readInt32`, `writeInt32`, `readFloat64`, `writeFloat64` | `LlrfPort`, which implements `RegisterService` |
| Poller thread | `cpciLLRF.cpp` `pollerThread` | `waveformBuffer`, 23 computed arrays, local `position` | every second: read waveforms, compute, publish, pick the single points | `Waveforms` up to publication, `LlrfPort` from there |
| Unit conversions | `cpciLLRF.cpp` | none | raw word ↔ engineering value, per parameter name | `Conversions`, `RoundTrip` |
| Register access | `cpciApp/src/cpciAccess.c` | none | `openDevice`, `uint8Read` .. `uint32Write`, `waveformRead`, `waveformReadOld` | `BoardAccess`, which implements `BoardService`; its use in `LlrfPort`, `Waveforms` |
| Kernel module, life cycle | `kernelModule/pci_driver_llrf/pci_driver_llrf.c` | `pciDevInfo`, the major number, the board's resources | `init`, `exit`, `driver_probe`, `driver_remove`, `open`, `close`, `ioctl` | `PciDriver` |
| Kernel module, data path | same | FPGA registers behind BAR 2 | `RD/WR_VALUE_8/16/32`, `RD_WAVEFORM`, `read`, `write` | `BoardAccess`; a 32-bit command is one atomic access in `LlrfPort` and `Waveforms` |
| Record database | `cpciApp/Db/cpciLLRF.db` | record values | scans of the `-RB` records, writes of operators, `I/O Intr` | calls and subscriptions of `LlrfPort` |
| Command line tool | `kernelModule/pci_driver_llrf/test.c` | none | register reads and writes beside the IOC | `Outside` of `LlrfPort`, a user of `BoardAccess` |
| IOC start | `cpciMain.cpp`, `st.cmd` | none | constructs the driver, loads records | `Init`, `Restart` of `LlrfPort` |
| Operator panel, build files | `llrf.bob`, `configure/`, Makefiles | none | none | not modelled: no run-time behaviour of their own |

How they interact. A record processes in a scan or client thread; its device
support enters the driver through an asyn wrapper that locks the port for the
whole handler. The handler sets the parameter library and reaches one register by
an `ioctl`, which the kernel module turns into one 32-bit access at
`pciDevInfo->pciBarInfoList[2].remapAddr + offset`. `callParamCallbacks` hands the
changed parameters to the records that subscribed. The poller runs beside the
handlers **without** the port lock: it shares the library, the change flags and the
position with them. The FPGA changes its status registers by itself; the command
line tool has its own file descriptor. The FPGA keeps its registers when the IOC
is killed.

What is hard here, and what makes each part correct:

* *Handlers.* Two threads on one parameter, a write whose library half and register
  half are apart, a clear sequence that sleeps in its middle, a restart of the IOC
  between any two steps. Correct when library and register agree whenever the port
  is free (`InStep`), a handler's effect still holds when it returns (`Effective`),
  and the FPGA sees a clear for its whole duration (`ClearHeld`).
* *Poller.* The position changes under it, and its callbacks race with those of the
  handlers. Correct when the values it publishes belong to one sample and one valid
  position (`OnePosition`), follow the position (`PointsFollowPosition`), and no
  change goes unreported (`SeeAnyChanges`, which does not hold). The FPGA captures
  while it reads 28672 words, one `ioctl` each. Correct when every element it publishes
  is computed from the points of its place in its waveforms, none left from an earlier
  read (`EveryPointFresh`), a sample mixed from two captures is replaced by the whole of
  the last one (`LastCapturePublished`), and nothing mixed is read while `rd_reg_state`
  says that the CPU cannot read (`CannotRead`, which does not hold).
* *Conversions.* Two truncations per round trip, `int` arithmetic that wraps, casts of
  doubles out of range, a double product that falls short of the integer it should be. Correct when reading back loses at most one unit
  (`ReadsBackWithinOne`), larger settings give larger words (`Monotone`), and restoring
  read-backs settles (`RestoreSettles`) before a whole step is lost (`KeepsWithinStep`).
* *Access library and data path.* Calls of threads and processes overlap in the kernel
  module, which takes no lock. Correct when each access takes effect at one instant of its
  call (`ImplementsBoardService`), nobody's write reaches other bytes
  (`OnlyOwnBytes`), and points are read whole (`PointsWhole`). A failed `ioctl` has to be
  reported (`ErrorsReturned`, which does not hold).
* *Kernel module.* Any call of the probe may fail; the board may be pulled out, files may
  be open. Correct when the board is enabled and its regions are claimed only while it is
  bound (`HeldWhileBound`), an unload leaves no block, major number or claim behind
  (`NothingLeft`), nothing is freed twice (`FreedOnce`, which does not hold), the mapping of
  the BAR, which the code never undoes, is taken at most once per probe
  (`MappingsBounded`), an ioctl finds the block and its mapping (`IoctlFindsBoard`), and
  a board gets served (`BoundIsServed`, `ProbeSettles`, `InsertedIsServed`).

## The modules

**`Conversions`** — operators only. The code computes in `double` and assigns to an
`epicsInt32`. For each parameter modelled the double result truncates to the same
integer as the exact rational one, so the operators use integers: `Trunc(x, m, n, d)`
is `x*m*n/d` truncated toward zero with no intermediate beyond 32 bits. `CastWithin`
is the conversion of a double out of the int range, undefined in C, which gives
`INT_MIN` on the x86 target of the IOC. `WrappedThousand` is `value * 1000` in
32-bit `int` arithmetic (signed overflow, taken as wrapping, as the target's compiler
produces it). Float64 values are counted in quarters of a raw step, so that values the
register cannot hold exist. `Overdrive` (`value * 100000`) is the parameter for which the
rounding of doubles decides: its settings are those of five decimals, `n` standing for the
double nearest to `n / 100000`, and `FallsShort(n)` computes, from the remainder of
`n * 2^e` modulo 100000, whether the product of that double rounds to a double below `n`
and so truncates to `n - 1`. It agrees with IEEE arithmetic for every `n` that fits an `epicsInt32`.

**`RoundTrip`** — one setting written, read back, and restored from its read-back
again and again; `RoundTripMC` picks the parameters and settings. `asked`, a history
variable, is the setting before the first restore: `KeepsWithinStep` compares it with what
is left after any number of them.

**`LlrfPort`** — the core. `pc[t]` says where record thread `t` is in its handler, one
action per step that another thread could see:

| Steps of a handler | Actions |
|---|---|
| read | `ReadInt32`/`ReadFloat64` (register and conversion) → `StoreRead` (library) → `Notify` → `Unflag` → `Return` |
| write | `StoreWrite` (library) → `WriteInt32`/`WriteFloat64` (register) → `Notify` → `Unflag` → `Return` |
| write of 1 to `manual_Clear` | `StoreWrite` → `ClearOn` → (0.5 s) → `ClearReset` → `ClearOff` → `Notify` → `Unflag` → `Return` |
| the position | `ReadPosition`, `WritePosition` → `Return`: library only, no callbacks |
| a name without register | `ReadNoRegister` → `Return` with `asynError` |

`callParamCallbacks` is two steps (`Notify` delivers, `Unflag` clears the flags) because
the poller's and a handler's may overlap. The poller is `PollWaveforms`,
`PollPosition`, `PollPoint` once per single-point parameter in the order of the code,
`PollNotify`, `PollUnflag`. `Call` is a record being processed, `Outside` the FPGA or the
command line tool, `Restart` a kill and restart of the IOC at any point: the registers
stay, everything else is as the constructor leaves it. If `openDevice` failed
(`fdOpen = FALSE`) reads give any word and writes do nothing, and neither fails: the
code ignores what `ioctl` returns. Parameters that nothing but their own records
change are `Private`; the others (status registers, and `state_wr_reg` and
`rd_reg_state`, which share offset 508) are excluded from the statements on
agreement, since the code cannot keep them.

**`RegisterService`** — what a record may expect of `LlrfPort`, without library, lock,
poller, callbacks or conversions in steps: a read or a write of a private register takes
effect at one instant of its call, a clear at two with nobody reaching `manual_Clear` in
between, and a restart forgets the calls and keeps the words. `LlrfPort!Service`
instantiates it; `ServicePhase` maps a thread's `pc` ("lock" and the steps before the
register are *asked*, those between the two writes of a clear are *holding*, those after the
register are *answered*), `ServiceWord` the registers of private parameters, `ServiceReply`
the value a handler has read. So a write takes effect at `WriteRegister`, a read at
`ReadRegister`, a clear at `ClearOn` and `ClearOff`; every other step is a stutter of the
service or its call and return. Nothing is promised without a board, nor of registers that
others change.

**`Waveforms`** — the poller's loop up to publication. `ReadBegin`, `ReadWord` (one
`uint32Read`, two points, until `count_of_4bytes`), `Publish`. A point is represented by its
place and its capture, an element of a computed array by the points its formula reads
(`Inputs` lists, per array, the waveforms in the formula). The FPGA is external:
`CaptureBegin` lowers `rd_reg_state`, `CaptureColumn` replaces the points of all channels
taken at one time, the last one raises the flag again. The flag is the register at offset 508,
which `state_wr_reg` (`cpciLLRF.cpp:113`) and the command line tool can write at any moment:
`WriteState` (the shipped database has no record on `state_wr_reg`). `since` (the last capture
complete when the read began) and `unready` (the flag was 0 at some moment of the read, used
by `CannotRead` alone) are history variables, read by no action.

**`BoardAccess`** — one access on its way from a caller through `cpciAccess.c` and
`pci_ioctl` to the board, byte by byte where the code leaves it open: `Enter`,
`CopyFromUser`, `RegRead` or `RegWrite` with the width of the command, `CopyToUser`,
`Return`; `RD_WAVEFORM`, `read` and `write` as copies in pieces of any size (`BulkRead`,
`BulkWrite`). A byte is represented by its last writer. External: the board performs an
aligned access of up to 32 bits at once, the FPGA replaces a point at once.
`CallsAssumption` says what the callers may pass: a `UINT8`, `UINT16` or
`UINT32` has the length of its command, 16- and 32-bit accesses are aligned (every register
of the IOC, and `WAVEFORM_OFFSET`, is at a multiple of 4), and `waveformRead` refuses a
length that is no multiple of 4 (`cpciAccess.c:126`); `read` and `write` begin at offset 0,
as the code does, and may have any length, registers and waveforms together.

**`BoardService`** — what a caller may expect of `BoardAccess`, without `IO_VALUE`, `ioctl`
and copying: a register is read or written as a whole at one instant of the call, each word
of `waveformRead` at one instant, a `write` of the device file changes its own bytes only,
and a call answers when all of it has taken effect. Nothing is promised of what `read` and
`RD_WAVEFORM` return. `BoardAccess!Service` instantiates it: `Got` says how many bytes of a
call have taken effect and `Reply` which bytes have been read, in the caller's buffer or
still in its `IO_VALUE`. So a read takes effect at `RegRead` and a write at `RegWrite`;
`CopyFromUser` and `CopyToUser` are stutters. This is what allows `LlrfPort` and `Waveforms`
to take a 32-bit access as one step.

`asynPortDriver` itself is not in the repository. It is modelled from how this driver
uses it: the wrappers' lock, the change flags of `set*Param`, and callbacks that do not
take the lock. Flags of parameters without a subscriber have no effect and are left out.
Delivery to all flagged parameters is one step; a split per parameter is in the plan.

**`PciDriver`** — the life of the kernel module around the one board it handles
("This driver handles single board"). `step` is the next call of the probe, the
removal or the exit; the error paths of `driver_probe` are entered at `free`, `release` or
`disable` and run into the same calls as `driver_remove`. `heap` records what happened
to every block `kmalloc` returned, `mappings` counts the mappings of the BAR in effect, which
only `MapPciBar` changes: the code undoes none. The PCI core (one probe per insertion or load,
serialized with removal), the module's reference count on open files and `kfree` are
external. The board may be pulled out and inserted again while the module stays. From the
moment a board is inserted while the device file exists, an `ioctl` may find a block that was
freed and the exit may forget one (see `driver_reinsert` below); `reinserted` records that this has happened, is
read by no action, and is the exception in `IoctlFindsBoard` and in the last part of
`NothingLeft`. The other properties hold without it.

Operators whose comment begins "Mutant" change one definition the way a slip in
the code would. They are part of no specification; they are kept beside the
definition they vary as evidence that each checked property notices such a slip
(`PROJECT.json` lists which property each one breaks).

## The runs

| Run | Shows | Bounds |
|---|---|---|
| `round_trip` | A read-back is the setting or its neighbour toward zero; the raw word is monotone in the setting; however often a read-back is restored, a setting of an Int32 parameter stays between the one first asked for and the next multiple of its step (512, 234375 Hz) toward zero, and it settles, a positive time or frequency on such a multiple. | −515..515 covers one full step of a time parameter on each side; ±3 around the limits of every format; 1500..2000 for `Overdrive`, where a setting sinks several units in a row |
| `registers` | `LlrfPort` implements `RegisterService`; `InStep`, `Effective`, `ClearHeld` | two threads: the port lock admits one at a time, so a third adds only another waiting caller; `manual_Clear`, a Float64 parameter and the two at offset 508, which the FPGA changes too; one restart, from any state, returns to an initial state with arbitrary registers; two words. The poller stands still (no samples): it writes nothing the four properties read, which the proofs confirm with the poller running |
| `live` | `OnePosition`, `PortReleased`, `ClearCompletes`, `PointsFollowPosition`, and the inductive invariant with the poller | one thread, positions below, in and beyond the waveforms, two samples, two single-point parameters: the values set first and last |
| `access` | `BoardAccess` implements `BoardService`; `PointsWhole`, `OnlyOwnBytes`, for the IOC's calls beside every other command | one register of 32 bits, accessed whole, by its second byte and by its upper half; a `write` of five bytes, from the register into the first point; four points, two captures; a third caller would meet the same code without any state shared with the first two |
| `waveforms` | `EveryPointFresh`, `LastCapturePublished` | with and without a board (the second property needs one); all 14 waveforms of two points, so that a word spans two columns and no word two waveforms, as with 4096; two captures: one complete before or during the read, one under way |
| `driver_life` | The board is enabled and its regions are claimed only while it is bound, a bound board is served, an ioctl finds the block and its mapping, unloading leaves no major number, claim or block; mappings of the BAR, which are never undone, are no more than loads and insertions; a probe ends | three loads and three insertions, so that a board comes back with the module loaded, unloaded and after a failed probe; four blocks (each successful `kmalloc` takes one; a fifth would need a fifth probe that gets that far); two processes, every call may fail |
| `callbacks`, `blocks`, `nodevice`, `torn`, `driver_twice`, `driver_reinsert` | statements of the repository the code does not keep | see below |

`registers` uses the symmetry of the threads, which occur in no constant but `Threads` and
in no property but by quantification; it checks no liveness (`ImplementsService` is a
safety property: `RegisterService` states no fairness). `RoundTrip`, `PciDriver` and
`Waveforms` may stop (a settled setting; no loads left; a poller whose thread has
returned once the FPGA captures no more), so their configurations do not check deadlock.
All other runs do.

Fairness. In `LlrfPort`, each thread inside a handler and the poller are weakly fair: they
are OS threads that the kernel schedules, and no handler waits for anything but the
port lock and a timed sleep. Nothing is assumed of records being processed, the FPGA,
the command line tool or restarts, and a thread that waits for the port has no strong
fairness: `PortReleased` says that the port is free infinitely often, not that every
caller gets it. In `PciDriver` the calls of the module return and the PCI core probes a
present board; no user or operator has to act. In `Waveforms` the poller thread is
weakly fair and the FPGA need not capture. In `RoundTrip` fairness of `Restore` stands
for a save/restore tool that keeps restoring.

## What the violated statements show

* `callbacks` — a handler flags a changed parameter after the poller delivered its
  callbacks and before it clears the flags; the handler's own callbacks then find no flag.
  `manual_Clear`'s record, which asks for read-back, keeps a stale value.
  ("Do callbacks so higher layers see any changes", `cpciLLRF.cpp:467`.)
* `blocks` — the clear sequence sleeps half a second with the port locked
  ("This driver does not block", `cpciLLRF.cpp:150`).
* `nodevice` — with no device, reads succeed with an arbitrary value
  (`cpciAccess.c:132` expects an error).
* `torn` — the poller reads while `rd_reg_state` is 0 and publishes an amplitude computed
  from the I of one capture and the Q of the next (`cpciLLRF.db:1302`, "Whether CPU can read
  waveform", 0 "Cannot read"). The check that would prevent it is there, between
  `#ifdef false` and `#endif` (`cpciLLRF.cpp:267`). Nor would that
  check be enough: a capture may begin after it. A second look after the read would not do
  either, since a capture that begins and ends inside the read leaves the flag at 1 both
  times, and the register can be written by others. `LastCapturePublished` is what holds: a
  mixed sample is followed by a whole one once the FPGA is at rest.
* `driver_twice` — a probe that fails after `kmalloc` frees `pciDevInfo` and leaves the
  pointer; the exit tests the pointer for NULL (`pci_driver_llrf.c:603`) and frees again.
* `driver_reinsert` — `driver_remove` leaves the major number registered, so the probe of a
  board inserted again fails ("or later if a new device gets inserted", line 471), and
  frees a block while an open file of the first insertion leads to it.

Also seen, though no text of the repository contradicts it: if the IOC dies within the
half second of a clear, the register keeps 1 until somebody clears again (`ClearCompletes`
is checked without restarts); the mapping of the BAR is undone neither by the error path of
`register_chrdev` nor by `driver_remove` nor by the exit, so each insertion or load may leave
one behind (`MappingsBounded` says that it is no more than one); a setting restored from its
read-back decays, by less than a step; and about one
five-decimal setting of `Overdrive` in twenty is written one unit low (0.29 gives 28999).

## The proofs

`LlrfPort_proofs` proves, for any threads, parameters, offsets, setpoints, words, number
of points and restarts satisfying the named assumptions of `LlrfPort`
(`NamesAssumption`, `OffsetAssumption`, `ValuesAssumption`, `BoundsAssumption`,
`MarksAssumption`, which TLC evaluates on every instance):

* `TypeCorrect`: `Spec => []TypeOK`
* `StaysInStep`: `Spec => []InStep`
* `HandlersAreEffective`: `Spec => []Effective`
* `ClearIsHeld`: `Spec => []ClearHeld`
* `PointsAreOfOnePosition`: `Spec => []OnePosition`

None of the last four is inductive: each speaks of moments (port free, return, asleep,
callbacks) that say nothing of the step before. `IInv` fills the gap with five facts: the threads
inside a handler are the one that holds the port (`LockInv`); which calls reach
which step (`CallInv`); what each step has established about its parameter
(`ProgressInv`); that a private parameter agrees with its register unless a write is
between its two halves (`AgreeInv`); and that the values the poller has set so far in a round
are of its sample and its position (`PollInv`). The key step is that an action of one thread leaves
another thread's `Progress` alone: by `LockInv` the other is not inside a handler, and by
privacy no other parameter's write reaches the register. The proof has a lemma per
group of actions (reads, writes, the clear sequence, callbacks, the poller and the
rest) and the conversions enter only through their types: the agreement is "up to the
conversion", whatever it computes. `IInv` is also an invariant of the `live` run.

`RegisterService_proofs` adds, from the same assumptions,

* `PortImplementsService`: `Spec => ImplementsService`

by step simulation under `IInv`: a lemma per group of actions shows that it is a step of the
service for the thread that makes it (`ReadImplements`, `WriteImplements`,
`ClearImplements`, `AskImplements`, `AnswerImplements`, `RestartImplements`) or leaves the
mapped state alone (`HandlerStutters`). `PhaseStep`, `ReplyStep`, `WordSame` and
`WordWritten` say once what a step does to the mapped state; `NobodyHolds` derives from
`LockInv` that no clear is under way where another thread takes effect.

`Waveforms_proofs` proves, for waveforms of any length and any number of captures, under
`PointAssumption`, `CaptureAssumption`, `OpensAssumption` and `GarbageAssumption`,

* `WaveTypeCorrect`: `Spec => []TypeOK`
* `PublishedPointsAreFresh`: `Spec => []EveryPointFresh`

The properties speak of the moment of publication; `FpgaInv` says which columns a capture
has already replaced, and `ReadInv` that the words read so far are in their places, between
`since` and the present capture in age. `Sizes`, `WordInside`, `Places` and `InsideBuffer`
are the arithmetic of bytes, words, points and the 14 pointers.

`PciDriver_proofs` proves, for any processes, blocks, loads, insertions and failing calls,
under `BoundsAssumption`, `NullAssumption` and `FaultsAssumption`,

* `DriverTypeCorrect`: `Spec => []TypeOK`
* `EnabledAndClaimedWhileBound`: `Spec => []HeldWhileBound`
* `OneMappingPerProbe`: `Spec => []MappingsBounded`
* `IoctlsFindBoard`: `Spec => []IoctlFindsBoard`
* `BoundBoardIsServed`: `Spec => []BoundIsServed`
* `UnloadLeavesNothing`: `Spec => []NothingLeft`
* `FreedOnceWithoutLateFault`: `Spec => [](~reinserted => FreedOnce)` where neither `mapPciBar`
  nor `register_chrdev` fails by itself

The properties speak of the moments between two runs of the module's functions. `IInv` speaks of
every step: who runs (`PhaseInv`: a probe of a present board, a removal of a bound one, by the
slot or by the exit), what the board has been given so far (`DeviceInv`), that a file in use
keeps the module and the device file (`FileInv`), the block of the probe under way and of the
bound board (`BoundInv`), that a load or an insertion whose probe has yet to map the BAR has
not been counted against a mapping (`MapInv`, with `Due`), and, until a reinsertion, that
there is no other block (`BlockInv`). The
last theorem delimits the finding of `driver_twice`: the two calls after `kmalloc` are the only
ones whose failure leads to the double free. `PointerInv` is its part of the invariant.

`BoardAccess_proofs` and `BoardService_proofs` prove, for any callers, registers, waveforms,
calls and captures, under `BytesAssumption`, `CallsAssumption` and `MarkAssumption`,

* `AccessTypeCorrect`: `Spec => []TypeOK`
* `WaveformPointsAreWhole`: `Spec => []PointsWhole`
* `WritesReachOwnBytes`: `Spec => OnlyOwnBytes` (an action property)
* `AccessImplementsService`: `Spec => ImplementsBoardService`

In `IInv`, `StepInv` says that from `copy_from_user` to `copy_to_user` the caller's own
`IO_VALUE` describes what it asked for, and that a call at its end has done all of its
bytes; `PointsInv` that the points on the board are whole, and `WordsInv` that those copied
by `waveformRead` so far are, which needs that words begin at points (`done % 4 = 0`, the
lengths that `waveformRead` accepts). `OthersKeep` is the lemma behind the absence of a
lock: what is said of a caller depends on its own variables alone, and on no byte of the board. The
simulation has a lemma per action; `OthersSame` and `OneSteps` say once what a step of one
caller does to the mapped state, `RegReadReads` that the bytes read are those the board holds at
that step, and `CopyToUserStutters` that copying out moves bytes the service has already
counted as read.

`RoundTrip_proofs` proves, for all 2^32 settings of every Int32 parameter and for `Overdrive`,

* `EverySettingReadsBack`: `Spec => []ReadsBackWithinOne`
* `RawWordsMonotone`: `Spec => []Monotone`
* `RestoresKeepWithinStep`: `Spec => []KeepsWithinStep`
* `StableSettingsAreSteps`: a positive setting that survives the round trip is a multiple of
  its `Step`, the safety half of `RestoreSettles`
* `StaysInt32`: raw word and read-back are `epicsInt32` values, also for settings that do not fit

The names and settings are constants under `NamesAssumption` and `SettingsAssumption` (a
setting is any `epicsInt32`), so one theorem covers what `RoundTripMC` samples.
`Truncation` shows that `Trunc` and `Dropped` are quotient and remainder of `x * m * n` by `d`, although they are computed
without a product beyond 32 bits; `TimeRaw`, `TimeEng`, `FreqRaw` and `FreqEng` turn the
conversions into pairs of inequalities, from which `TimeBack` and `FreqBack` conclude, also that
multiples of the step read back exactly (`StepsSurvive`). A restore then cannot leave the way
from `asked` to its `Stop` (`RestoreKeepsWay`): it moves by one unit at most, toward the
`Stop`, and not at all from there. The induction also carries `Written`, that the -RB record
shows what the conversions make of the setting. The
proofs of `Overdrive` do not look into `FallsShort`: they hold whichever products fall short,
by one; which do is TLC's.

Model-checked only:

* Liveness: `PortReleased`, `ClearCompletes`, `PointsFollowPosition`, `LastCapturePublished`,
  `ProbeSettles`, `RestoreSettles`. Fairness and `ENABLED` are out of the prover's reach.
* The counterexamples of the six violation runs.

## Not modelled

* The conversions of `SP_P`, `SP_P_1` .. `SP_P_3` and `Ch_VSWR_Hold`: a square root and an
  irrational factor in doubles. What their results round to cannot be had from TLC's 32-bit
  integers, and without the rounding only their algebra would be restated.
* The formulas of the computed arrays, VSWR's division by zero among them: doubles, too. An
  element is represented by the points it is computed from.
* `copy_from_user` and `copy_to_user` that fail: no caller in the repository passes an
  invalid buffer.
* `closeDevice`, which has no caller; the parser of the command line tool; `iocsh`, record
  processing and scan periods, which are EPICS base's; the operator panel.
* Unaligned accesses of 16 or 32 bits, which the command line tool would pass on
  (`test.c:327`, `test.c:354`): whether the board performs them at once is not known, and
  the IOC makes none.
* A failing `epicsThreadCreate` (`cpciLLRF.cpp:241`), after which the IOC runs without a poller:
  handlers do not depend on it.
* Writes to single-point parameters: no output record addresses one.

## Plan

Done: the port, the conversions, the life of the kernel module, the waveforms against
the FPGA, the way of an access, the two services and their refinements, and the proofs of
all safety properties the runs check. Next:

1. *Callbacks per parameter*: fetch and deliver split, and what holds of `shown` in spite of the
   lost callbacks (a value shown was once the library's; a poller at rest repairs the
   single points).
2. *The IOC on the kernel module*: `fdOpen` from the life of the module in `PciDriver`.
