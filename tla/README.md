# A TLA+ model of m2sdr-myb210

The repository makes a HamGeek "MYB210" card, an FPGA software radio on PCIe
that imitates a USB Ettus B210, usable from Linux: a kernel driver, an overlay
of UHD whose USB transport is replaced by calls into the vendor's binary
library `libpcie`, scripts, and a patch for SDR++. The model covers the code
with state and concurrency of its own. Paths below are relative to the
repository.

## Inventory

| Part | Source | State | Operations | Works with |
|---|---|---|---|---|
| Zero-copy transport | `uhd-overlay/host/lib/transport/libusb1_zero_copy.cpp` | `_enqueued`, `_released`, `_status`, one `lut_result_t` per frame, three mutexes | constructor, `get_buff`, `enqueue_buffer`, `libusb_async_cb`, destructor | UHD's streamers call it from several threads; libpcie calls the callback |
| Completion path | `pcie-driver/mymodule.c` (`my_interrupt_handler`, `az_read`, `mydev_poll`), `scripts/patch-libpcie.py` | `rd_cond`, `poll_cond`, the FIFO of the card | interrupt, read, poll, drain | libpcie's `do_cb` thread sleeps in `az_read(NULL, 0)`, drains the FIFO and calls back the transport |
| DMA buffers | `pcie-driver/mymodule.c` | `dma_bufs`, pool, hold list, CMA sink | `ioctl` 10 (`alloc_node`), `mmap_23`, `free_node` | kernel allocators, libpcie, FPGA |
| Driver lifecycle | `pcie-driver/mymodule.c` | PCI device, BARs, MSI, character device, global `d` | `az_probe`, `az_remove`, file operations | kernel |
| Frame size of the data transport | `uhd-overlay/host/lib/usrp/b200/b200_impl.cpp` (constructor) | `recv_frame_size` | coercion | device arguments, transport |
| B200 control | `b200_impl.cpp` | `_gpio_state`, `_time_source`, `_tick_rate`, streamers held weakly, ATR registers | `update_clock_source`, `update_time_source`, `set_tick_rate`, `update_bandsel`, `update_enables`, `update_atrs`... | property tree, UHD cores |
| SDR++ plugin patch | `patches/sdrpp-usrp-source-myb210.patch` | `running`, `streamer`, worker thread, streak of bad receives | start, stop, worker, `kickStream` | UHD, SDR++'s stream |
| libpcie patcher and other scripts | `scripts/` | files on disk and their backups | patch, install, verify, benchmark | - |

Outside the source: `libpcie` (binary), the FPGA, the kernel's allocators, UHD
headers and classes. `mymodule.c.vendor` is the vendor's driver, kept for
reference and not built.

What is hard in it: the transport lets go of its queue mutex between looking at
a frame and popping it, clears a flag outside the mutex that sets it, and is
called back in any order by a thread it cannot stop; the driver counts
interrupts that may be missed and forgets some on purpose; allocation has four
sources of memory, each of which may fail half way; sizes are rounded up and
down by formulas that no test covers; the control side remembers state before or
after it writes it to the card, never both at once, and a write may throw; and the
worker of the SDR++ plugin restarts a stream that another thread may be stopping. `PROJECT.json` lists these hazards at their
lines, with the properties that would catch them, or why none does yet.

What makes each part correct:

* transport: no frame is lost, duplicated, or read by the caller while the card
  writes it; frames are handed out in submission order; calls end; teardown does
  not free what will still be called back;
* completion path: exactly what is pending is drained; nothing is stranded by a
  missed interrupt;
* DMA buffers: every page accounted for once; every buffer where the FPGA
  reaches it; user space and FPGA see the same pages;
* frame size: whole words, within limits, never a multiple of the USB transfer;
* lifecycle: a removal stops DMA and interrupts before it frees buffers; a whole cycle
  leaves nothing;
* control: after any calls, failed ones included, the registers are what the host
  remembers, except those whose last write failed; reference, chains and switches fit
  each other; rate and streamers are within the limits;
* plugin: the streamer outlives the thread that uses it; stop leaves the card stopped;
  both calls return; a stream that stalled is started again (it is not always: see
  the divergences).

## Modules

| Module | What it is |
|---|---|
| `FramePool` | what the zero-copy transport promises: an abstract pool of frames |
| `ZeroCopy` | `libusb_zero_copy_single`, its callers and its callback; refines `FramePool` |
| `ZeroCopyProofs` | its theorems |
| `Completion` | interrupt handler, `az_read`, `do_cb`, card |
| `CompletionProofs` | its theorems |
| `DmaAlloc` | the buffers of the driver |
| `DmaAllocProofs` | its theorems |
| `Lifecycle` | `az_probe`, `az_remove`, open files |
| `LifecycleProofs` | its theorems |
| `FrameSize` | the coercion of `recv_frame_size` |
| `FrameSizeProofs` | its theorems |
| `B200Control` | the calls into `b200_impl` after its constructor, and the registers they write |
| `B200ControlProofs` | its theorems about writes and remembered state |
| `B200StreamProofs` | its theorems about rates, streamers, chains and switches |
| `SdrppSource` | play, stop and the worker of the SDR++ plugin |
| `SdrppSourceProofs` | its theorems |
| `MCZeroCopy`, `MCCompletion`, `MCDmaAlloc`, `MCLifecycle`, `MCFrameSize`, `MCB200Control`, `MCSdrppSource` | instances for TLC |

Operators whose comment begins with "Mutant:" are plausible wrong versions of the
definition after them. No specification uses them; they serve to see that each
property notices a bug.

### ZeroCopy

One step is one critical section of `_queue_mutex` or of a frame's `result.mut`,
or one access made outside both. `get_buff` is the path of `pc[g]`:

| Action | Code (`libusb1_zero_copy.cpp`) |
|---|---|
| `GetBuff` | test of `_status` outside every lock, then the outer mutexes (366-370, 513-523) |
| `QueueTest`, `ReadyWaitEnds` | `_enqueued.empty()`, the wait without a predicate, the second test, `front` (372-381) |
| `HeadTest`, `WaitEnds`, `WaitWakesSpuriously` | `wait_for_completion` (224-239); the timed wait has a predicate, the wait without limit is not in a loop |
| `TakeHead` | `result.completed = 0`, not under `result.mut` (207) |
| `Pop`, `GiveUp` | `pop_front` and `submit_what_we_can` under the queue mutex taken again (383-388) |
| `Release` | `enqueue_buffer` (419-425) |
| `Callback` | `libusb_async_cb` (95-113) |
| `Destroy`, `FreeTransfers` | the destructor (343-359) |

`SubmitWhatWeCan` gives every outcome of the submission loop: libpcie may refuse
any one frame, which ends the loop in `ERROR` with an exception. When that
happens in `Pop` the managed buffer made a moment ago is destroyed during
unwinding, which calls `enqueue_buffer` again. `Init` covers a receive transport
(every frame submitted) and a send transport (every frame marked complete), and
any order of the frames. A submission refused in the constructor throws out of it:
then there is no transport, and no such state in `Init`. `result.status`, lengths and the hints of `make` are
left out: the callback overwrites the status with `COMPLETED`. `completed` stays
a flag, although the code has an int.

The refinement maps `_enqueued` to the abstract line. A frame counts as done
from its callback until it is popped; `TakeHead` clears the flag earlier, so done
is the frames whose flag is set together with those a getter has taken.

### Completion

`armed`, `pend` and `ready` count descriptors; `reply` is the place in the FIFO of
a control reply. `Read`, `SleepEnds` and `Clear` are `az_read(NULL, 0)` with its
three accesses to `rd_cond` (581-584): test, end of the wait for whatever reason,
clear. `Interrupt` is the handler (807-815). `ReadCount` and `Drain` are `do_cb`,
known only from the comment in `az_read` and the docstring of `patch-libpcie.py`:
it reads the pending count under a mask and pops that many. An MSI may be missed
and pending ones coalesce. Not here: `mydev_poll`, `poll_cond`, and the copying
branches of read and write.

### DmaAlloc

Pages are named by their DMA address. The kernel's allocators return any run of
free pages or fail. `AllocNode` is `alloc_node` up to the allocation; the call then
goes through `EnsurePool`/`TakeSlice`, `TakeOrdinary`, `DrainCma` and
`TryCoherent`/`CoherentFails`, which are the paths of `m2sdr_alloc_dma`, and ends
by `Got` or `Failed`. The second range check in `alloc_node` (456-469) can never
fire after the checks of `m2sdr_alloc_dma` and is part of `Got`. `Usable` compares
both ends of a block with the window and the CMA area, as the code does;
`BuffersReachable` says of every page what it should come to. `Mmap` is `mmap_23`
from index 0 to the first missing buffer or the end of the area. The files of
other threads may map at any step of an allocation. `FreeNode` runs when nothing is
mapped, which `fops.owner` ensures for the removal of the module, not for an unbind. Abstracted: the `coherent` flag, cache
synchronisation, CPU pages that differ from DMA pages, concurrent ioctls, overflow
of `len * 8`, an index outside `dma_bufs`, which neither `az_ioctl` (524) nor
`alloc_node` (436) tests.

### Lifecycle

`pc` names the next call of `az_probe`, and each call succeeds (`Acquire`) or leaves by
the path the code has for it (`Abort`): a label at the end, with the value `err` has
there, or a plain return. `do_reg_dev` is one step: nothing, when
`alloc_chrdev_region` fails, and otherwise any of class, device and cdev, whose
failures its tests do not recognise, in every combination in which a device has its
class. `Removal` is the order of
`az_remove`; `Release` notes a resource that was not held. Files are opened while the
cdev is there; an ioctl may come at any time while one is open, also after an unbind.
It may resize a buffer: `alloc_node` frees the old one first (440-441), with bus
mastering and the interrupt on, and may then find no new one. Descriptors stay in the
FPGA until it has written the last one, whatever the program does; `armed` is "stale"
when one may point to a freed buffer. `RemoveStopsDmaFirst` is therefore about
`az_remove` alone: no statement of the repository forbids what the ioctl does, and what
user space sees of such a buffer is `dma_view`. Globals survive an unbind and are fresh after `insmod`.

### FrameSize

`TooSmall`, `TooLarge`, `Coerce` and `Keep` are the branches of lines 478-507.
`B200_USB_DATA_MIN_RECV_FRAME_SIZE` and `..._MAX_...` come from a header that is
not in the tree: they are constants, 40 and 16360 in the runs (the second is
quoted in `docs/sample-rate.md:90`). The number of frames is not modelled: the code
forces 48, as `docs/sample-rate.md` says.

### B200Control

One action is one call, from the property tree or for a streamer. Calls are one after
the other, as UHD's applications make them; what is hard is that any register write may
throw ("fifo ctrl timed out" in `docs/applications.md:60`), with the card having taken it
or not, and that the next call starts from there. `Write` is that: of the writes a call
makes in order, the first `n` succeed, the next throws, the rest does not happen.
`owed` is a history variable: the registers whose last write threw or was never reached.
`clock` is another: the clock source last asked for, if that call was accepted.

| Action | Code (`b200_impl.cpp`) |
|---|---|
| `SetClockSource` | `update_clock_source`: `ref_sel` first, then the word, only if it changed; then the ADF4001 (1245-1268) |
| `SetTimeSource`, `SetTime` | `update_time_source`: write, then remember; `set_time`: a pulse (1270-1303) |
| `SetTickRate` | `enforce_tick_rate_limits`, `set_tick_rate`, and `sync_times`, which is subscribed to it (657, 1088-1143) |
| `SetFilter` | `update_bandsel` (1314-1352) |
| `SetAntenna` | `update_antenna_sel`, `update_atrs` (1374-1429) |
| `OpenStream`, `RefuseThreeChains` | `update_enables`, called when a streamer was stored (1431-1462) |
| `CloseStream` | a weak pointer expires; nothing is called |

A register is named by what it holds, a word is the record of its fields, and each word
the code makes is a distinct value. The board is a B210, because line 314 says so of
every card: the branches for the B200mini and the B205mini cannot be reached.
Frequencies are the filter they select. How a streamer is stored and who calls
`update_enables` is in `b200_io_impl.cpp` of UHD, not in this tree: `Stored` and
`Widest` are written from how `update_enables` and the comment at 1125 use it. The other
subscribers of the tick rate (radio cores and DSP) are not in `SetTickRate`. The codec's
`set_clock_rate` (1134) is taken to return the rate it was asked for, and comparisons
within 1 Hz are equality.

What the properties show that is worth knowing: the registers go right again with the
next write of the same register, and calls that rewrite the whole word (filters,
streamers) always repair it. Asking for the same clock source, time source or rate again
does not: the host already remembers it and writes nothing. So after a failed write of
the word a clock source may be accepted on retry (1250-1264) while the AD9361 runs from
the other input: `AcceptedClockIsSet` says what holds then (the ADF4001 and the remembered
switch are right) and excepts the switch itself while its word is owed. `RegistersFollowState`,
`MimoMatchesChains` and `LiveStreamIsConnected` have the same exception, each for the
registers it names, and so do not catch the behaviour the exception is for. `RateWithinLimits` has only
the upper limit: the lower one is checked for the widest streamer, and may be passed when
that one goes first.

### SdrppSource

`ui` and `worker` are the next steps of the GUI thread and of the worker; a call of UHD
or of SDR++'s stream is a step of its own, so that `running`, a plain `bool` both threads
use, is read and written between them. Every stream command may throw, with the card
having obeyed or not. The lines are those of the patch.

| Action | Code (`sdrpp-usrp-source-myb210.patch`) |
|---|---|
| `Start`, `Settings`, `Spawn`, `StartCommand` | `start()` (157-245) |
| `Catch` | its handler, which joins and resets as `stop()` does but sends no STOP (246-253) |
| `Stop`, `StopCommand`, `Join`, `Reset` | `stop()` (256-280) |
| `Recv`, `LeaveLoop`, `Swapped`, `SwapStopped` | `worker()` (342-391) |
| `KickStop`, `KickTest`, `KickStart` | `kickStream()` (328-340) |
| `Stall` | the stream dies below UHD |

`loose` is a history variable for `StoppedMeansSilent`: it is set by the three ways a
card may still stream after `stop()`, which are real: a START whose test of `running`
came before `stop()`, a STOP that threw, and a failed `start()`, which sends none.

`stale` counts what `recv` can still deliver of a stream that is over: the comment at
223-224 expects packets left by a change of the master clock, and any change of the card
may leave some. From a quiet card `recv` so returns timeouts and errors, and overflows and
samples as long as they last.

The streak of bad receives is compared by equality with 12 (timeouts, errors) and 24
(overflows). One overflow that makes it 12 kicks nothing and leaves timeouts counting
from 13: the stream is not started again until the user stops it, against "restart the
stream instead of freezing" (`patches/README.md:16`). `StreamRestarted` is that
sentence, and violated; `OnlyASkippedKickFreezes` says that nothing else freezes the
stream: not a command that throws, not a kick that races with stop and play.

## Runs

| Run | Instance | Shows |
|---|---|---|
| `zc` | 3 frames, 2 getters, fair | the five invariants, the refinement of `FramePool`, calls end, a submitted frame comes back |
| `zc_teardown` | 2 frames, 1 getter | **violated**: a transfer is freed that libpcie will call back |
| `completion` | 5 descriptors, mask of 3 bits, fair | exact drain, bounded counter, no stranded reply or descriptor |
| `dma` | 2 buffers, 6 pages | accounting, reach, stale slices, order of the sources |
| `dma_view` | the same | **violated**: a mapping survives the move of its buffer |
| `lifecycle` | 2 open files, any number of probes | order of removal, whatever was resized; IRQ inside MSI, mapped while openable, clean cycle |
| `lifecycle_bound` | 1 open file | **violated**: `az_probe` returns 0 after it gave up |
| `frame_size` | about 1,800 arguments, both USB speeds | whole words, limits, distance, which multiples survive |
| `frame_multiple` | the same | **violated**: 1017 is coerced to 1024 |
| `b200_control` | 2 radios, 4 kinds of applications, 1 or 2 failing calls | types, registers follow the state, accepted clock source, chains, switches, rate limits, repair |
| `sdrpp` | the limits of the code (12 and 24), 3 commands that throw, 2 stale packets, any number of plays | lifetime of streamer and thread, silence after stop, calls return, only a skipped kick freezes the stream |
| `sdrpp_restart` | the same | **violated**: eleven timeouts, one stale overflow, and the stream is never restarted |

Why the bounds are enough. Three frames let a younger frame complete before the
oldest while a third is with the caller, and let a submission loop fail in the
middle; two getters contend for the mutexes and the local `front`. Symmetry is not
used, because TLC does not support it with liveness. Five descriptors under a mask of eight
have every backlog from none to all; the vendor's bug, a mask no larger than the
descriptors, is a mutant. Six pages hold one of each kind (ordinary, CMA area, out
of reach) and three in the pool's region, next to each other, so that a block of two
straddles each edge of the CMA area and of the window: the pool runs out after two or three
slices, one held block fills the hold list and two tries end the loop, so every
branch of `m2sdr_alloc_dma` is taken in every combination with the others. Two open files in
`Lifecycle` are one that stays and one that comes and goes. The
arguments of `FrameSize` surround every multiple of 512 and both limits by more than
the rounding can move them. In `b200_control` every two calls that share a register or a
remembered value are made by one of the applications together (clock, time, rate and
filter; clock, filter and streamers; rate and streamers; antenna and streamers), with
every state of the GPSDO where it matters; two failing calls (one with streamers) let a
repair fail as well.
Two rates and limits one octave apart have a rate too high for two channels and one
that is not. Three commands that throw are START, STOP of the kick and STOP of `stop()`
in one play; two stale packets after every change of the card are an overflow that skips
a kick and another packet in any order with it.

`CHECK_DEADLOCK FALSE` is used for `FrameSize` only, which ends when the transport is
made. A destroyed `ZeroCopy` stutters explicitly.

### Fairness

`zc`: a thread inside `get_buff` takes its next step (the kernel schedules it;
timed waits end; a wait without limit needs the callback), libpcie calls back every
transfer it accepted, the streamer calls `get_buff` again and gives frames back. A
refused submission and the destructor need not happen. Two conditions end the
promise that a frame comes back: `ERROR` and the destructor. A spurious wake of the
wait without limit may happen but is not relied upon. `completion`: the `do_cb` thread
runs and its wait ends after `poll_ms`, a pending interrupt is handled, the consumer
gives frames back. Neither the FPGA's completions nor any MSI is assumed. `sdrpp`: the
GUI thread goes on in a call it is in (`UiStep`), the worker takes the steps that depend
on nobody (`WorkerStep`): `recv` returns after 0.15 s at the latest, a stopped writer
makes `swap` return. Nothing is assumed of the reader of the stream, of the user, or of
the card.

### Divergences found

1. The destructor of the transport (`zc_teardown`): its comments promise cancel,
   process, free; `libusb_cancel_transfer` does not know transfers taken by
   `func_xxxX`, and the wait stops after 10 ms. `docs/sample-rate.md:202` describes
   the abort users see.
2. `alloc_node` (`dma_view`): reallocating a buffer leaves an existing mapping on the
   old pages, against `COMMUNITY-CHANGES.md:21`. A stale slice of the pool at least
   aliases no other buffer (`StaleSliceAliasesNothing`): slices are never reused.
3. `az_probe` (`lifecycle_bound`): `err` is 0 on two of its error paths, and the device
   is bound with nothing set up.
4. The coercion of `recv_frame_size` (`frame_multiple`): against its comment and its
   warning, a multiple of the transfer size that is 16 modulo 24 is a fixed point.
   `OnlyAlignedMultiplesSurvive` says these are the only ones.
5. The worker of the SDR++ plugin (`sdrpp_restart`): an overflow at the twelfth bad
   receive skips the kick, and a quiet stream freezes, against `patches/README.md:16`.

## Proofs

For every value of the constants, from the named assumptions.

* `ZeroCopyProofs` (frames finite and not empty, any set of getters): `TypeCorrect`,
  `OnePlace`, `Accounted`, `PopAndRelease`, `NothingLeft`, `Refines`, `WaitsForOwed`. The
  argument is the inductive invariant `IInv`. The five invariants alone are not inductive: one needs that the
  mutexes admit one getter past `GetBuff`, so that the frame at the front does not
  change between the steps of a call, and that a flag seen set stays set until the
  same getter clears it. The queue lemmas (`AppendDistinct`, `TailDistinct`,
  `DistinctFramesFit`) say what push and pop do to sequences without repeats; the
  counting lemma is what bounds the circular buffers. `SubmitNothing` and `SubmitOne`
  reduce the submission loop to the two cases that occur: `NothingLeftReleased` is
  what excludes longer loops. The refinement maps each step to `HandOver` (`Pop`),
  `Entrust` or `Lose` (`Release`), `Finish` (`Callback`) or a stutter.
* `CompletionProofs` (mask greater than the descriptors): `NeverPopsEmpty`,
  `CounterBounded`. `IInv` bounds the interrupts counted or pending by the completions
  since the last clear, which is not visible in `rd_cond` alone.
* `FrameSizeProofs` (limits multiples of 8, minimum at most 488, maximum not a multiple
  of 512): `WholeWords`, `AlignedMultiples`, `Close`, from two lemmas on the rounding
  formulas.

* `DmaAllocProofs` (any set of pages, window, CMA area, pool region and sizes; any number of
  buffers): `Reachable`, `NoAlias`, `PoolBeforeSink`, `Accounted`. `IInv` adds what makes the three
  inductive: a buffer is either made of slices that have been cut or has nothing of the
  pool, buffers do not overlap, a stale mapping lies in what has been cut, and the call
  in progress has already freed its buffer. `UsableInReach` takes the
  comparison of block ends to each of its pages. `Placed` is the one lemma for every way a call
  ends in success; the four sources only differ in which of its premises they supply.
  `Accounted` has an invariant of its own on top of `IInv`, `BooksInv`: what is owned is
  pool, blocks (hold list and sink) and buffers, and a block shares no page with anything.
  The kernel gives free pages only, and everything in the books is
  owned (`Entries`), so a new run meets none of it; `BufferBooks` and `BlockBooks` say what becomes of them when a run turns
  into a buffer or a block. The slices of the pool are the case that needs `IInv`: a buffer
  is inside the pool or off it (`SliceOrNot`), so freeing one returns no page of another.
* `LifecycleProofs` (any set of files): `HandlerAndMsi`, `Openable`, `WholeCycle`,
  `DmaFirst`. `IInv` says what `az_probe` holds at each of its steps (`Probed`), that
  what is left of `az_remove` is the end of its list and what comes before is gone
  (`Removed`), and that a whole probe holds all that `az_remove` looks for (`Clean`). A
  failed probe may leave things behind; none of the theorems needs that it does not.
  `DmaFirst` is about `az_remove`; an ioctl frees buffers with DMA on.
* `B200ControlProofs` (any filters, rates, limits, applications and number of failures;
  one or two radios): `FollowState`, `AcceptedClock`. `RegistersFollowState` is inductive as
  it stands. Its proof rests on what a list of writes does to one register: nothing if
  it does not occur (`NotWritten`), the value of its last occurrence otherwise, unless it
  is owed (`Written`, `EndsOutcome`); where that occurrence is in a concatenation is
  `EndsCat`. `AcceptedClock` needs in addition that nothing but the clock source moves
  `ref_sel` (`ClockInv`), and that a call that was accepted has written the ADF4001,
  whether or not it wrote the word. Every step
  lemma also gives the set of registers the call may have touched (`Only`), which is what
  the next module builds on.
* `B200StreamProofs` (the same constants, with `ValuesAssumption`: the values the
  constructor sets are among those applications choose from): `TypeCorrect`, `RateLimits`,
  `LiveConnected`, `MimoMatches`, `WordHeals`. What is hard is that a streamer expires
  without a call and that a call may fail in the middle, so chains and MIMO bit need not be
  those of the streamers there are. `ChainsInv` says whose they are: those of some table of
  streamers that includes all who live now and never has three chains. `SwitchesInv` says
  the switches of each radio with a live streamer are on its path; both calls that write
  them set what the streamers of that moment need (`AtrWordPaths`). `RateLimits` needs the widest streamer of
  both directions to bound every one (`WidestBounds`), and `MimoMatches` the counting
  lemmas for at most two radios (`ChainCount`, `ActiveCount`). `WordHeals` is `AllWritten`:
  a call that used up no failure left nothing it wrote owed.
* `SdrppSourceProofs` (any limits of the streak with the first below the second, any
  number of stale packets and failures): `Outlives`, `NoLiveThread`, `Silent`, `Told`. `IInv` says what each step
  of the GUI thread may count on (`UiKnows`) and who will stop a card that was started
  (`Leashed`).

Every invariant and action property of a passing run has its theorem. Only model-checked
are the liveness properties, which rest on fairness and on what is ENABLED, both out of
the prover's reach: `CallEnds`, `EntrustedFrameComesBack`, `ReplyArrives`,
`DescriptorsComeBack`, `CallsReturn`,
`OnlyASkippedKickFreezes`. For two of them what the argument turns
on is a theorem: a sleeping getter waits for a frame that is complete or that libpcie still
has (`WaitsForOwed`), and who joins the worker has cleared `running` and stopped the writer
(`Told`).

## Not modelled

* A second card: the driver's globals are shared and nothing protects them.
* `mydev_poll` and `poll_cond`: nothing in the tree polls, and what libpcie does with it is
  not known. Its hazards are listed.
* Data copies, cache synchronisation, register windows (`mmap_01`): data only.
* `b200_impl`: the constructor apart from the frame size and the state it leaves, sensors,
  EEPROM, compatibility checks, GPSDO set-up, DSP and power settings; the branches for
  boards other than the B210 (unreachable); concurrent calls into the property tree.
* The SDR++ plugin's menu, `select()`, `tune()` and settings: sequential, in the GUI thread.
* The scripts and the patcher of `libpcie` as an editor of files: sequential, one rewrite.
* The vendor driver: not built.

Byte contents, lengths of frames and log messages are not modelled anywhere.

## Plan

What is left, in order of importance:

1. A composition of `Completion` and `ZeroCopy` (descriptors back to the transport's
   frames): the data path from the FIFO of the card to the streamer.
2. `Completion` with `mydev_poll` and its counter, once it is known who polls.
3. Two cards under one driver.
4. Proofs: what the composition of 1 promises, and a bound on the backlog in the FIFO.
