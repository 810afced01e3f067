# Verification of the wimiv1 XDMA driver and its FPGA bridge

The repository holds the *wimi* software radio: a PC with a PCIe card (FPGA board and an AD-FMCDAQ2
converter board). Its core logic is

- `src/wireless_paper/wimiv1/driver/xdma-core.c`, a modified Xilinx XDMA PCIe driver for Linux
  (with `xdma-sgm.c` and `include/`). All paths without a directory below are in that directory;
- `src/wireless_paper/wimiv1/fpga/ip/JESD204B_PCIE_BRIDGE_1.0_0/hdl/`, the Verilog bridge between the
  JESD204B converter cores and the streams of the XDMA IP;
- `src/wireless_paper/wimiv1/tests/rx.c` and its relatives, the programs that transmit and capture.

This directory holds TLA+ models of them, TLC configurations that check the models on small
instances, and machine-checked proofs (TLAPS) of the safety properties of all of them. `PROJECT.json` maps each definition to the lines it models and lists components,
runs, hazards, findings and theorems.

How to run it, in this directory:

    tlc -config MCXdmaInterrupt_live.cfg MCXdmaInterrupt      # any run of PROJECT.json
    tlapm XdmaInterrupt_proofs.tla                            # any of the modules X_proofs

## 1. Inventory

### How the parts interact

    user thread --read()/write()--> request loop --queue--> SG DMA engine --registers--> XDMA channel (IP)
        ^                                                        ^                              |
        |  wait queue (interrupt mode) / write-back word (poll)  |  work  <- handler <- MSI/MSI-X
        +--------------------------------------------------------+------------------------------+
    user program --stores to the mapped user BAR--> bridge registers --pulses--> receive half, transmit half
                                                            ADC -> FIFO -> C2H stream, H2C stream -> FIFO -> DAC

All parts of the driver share `struct xdma_dev` (`lro`). An engine's queue, its `running` flag and its
ring indices are protected by `engine->lock`, except where the code reads them without it, and those
places are where most of the hazards are.

### Components

| Component | State it keeps | Operations | What makes it correct |
|---|---|---|---|
| SG DMA engine, interrupt mode (`xdma-core.c`) | `transfer_list`, `running`, `status`, `desc_dequeued`, interrupt enable masks, the work | `transfer_queue`, `engine_start`, `xdma_channel_irq`, `xdma_isr`, `engine_service_work`, `engine_service`, `transfer_data`, `transfer_monitor` | transfers are moved in the order they were queued, once each, a caller is told "completed" only after that; no wake-up and no interrupt is lost; no transfer the engine uses is freed |
| SG DMA engine, poll mode | the same and the write-back word in host memory | `engine_service_wb_monitor`, `engine_service_poll` | a caller takes only the report of its own transfer |
| Scatter-gather and descriptors | page list, scatter list, descriptor array | `check_transfer_align`, `sgm_get_user_pages`, `sgm_map`, `transfer_build`, `xdma_desc_adjacent` | the descriptors move each byte once and in order; each obeys length, alignment and the page rule of the fetch |
| C2H stream ring | `rx_result_buffer`, `rx_tail`, `rx_head`, `rx_overrun`, `eop_found`, the cyclic transfer | open, read, close, `engine_ring_process`, `complete_cyclic`, `copy_cyclic_to_user`, `cyclic_shutdown_*` | packets arrive whole, in order, once; close ends and frees the memory only when the hardware is at rest |
| User interrupts and events files | `events_irq` of each line | `xdma_user_irq`, `user_irq_service`, `char_events_read`, `char_events_poll` | an event ends the read that waits for it |
| Device life cycle | regions, BARs, vectors, engines, files, `dev_present` | `xdma_init`, `xdma_exit`, `probe`, `remove`, `char_open` | every failure undoes exactly what was done; files and handlers find what they use |
| Bridge, receive half (`..._S01_AXIS.v`) | two state machines, two counters, a FIFO, in two clock domains | clock edges | the packet after a trigger has exactly `num_words` words |
| Bridge, transmit half (`..._M00_AXIS.v`) | two state machines, a FIFO, in two clock domains | clock edges | a playback plays one packet and all of it |
| Bridge registers (`..._S00_AXI.v`) | `flush`, `num_words`, `trigger` and their stretched pulses | register writes | every clock domain sees a pulse |
| Capture program (`tests/rx.c`) | its position | flush, write, set `num_words`, trigger, collect | what it collects is what it asked for |
| Performance test and `ioctl()` | `engine->xdma_perf`, the interrupt enable mask | `ioctl_do_perf_start`, `xdma_performance_submit`, `ioctl_do_perf_stop`, `engine_service_perf` | tests among the requests of `read()` and `write()` leave queue, channel and interrupts consistent |
| Control, user and bypass files | none | register read and write | |
| `mmap()` of BARs and ring | page tables | | |
| SDAccel bitstreams | compiled out (`SD_ACCEL` is 0) | | |
| DAQ2 controller (`ctrl/`) | SPI core and converter registers | configuration sequence | ordering of the writes |
| Unused bridge templates | vendor templates next to the two halves | | |
| Scripts and udev rules | none | rename device nodes, `tests/hwrst.sh` removes and rescans a device | |

The other directories (Matlab and C signal processing, vendor IP, boards, data, generated files,
kernel module build files) have no state that outlives a call or are not this repository's own code.

### What is hard here

- *Interleaving*: handler, work queue, several callers of one engine, polling callers that all look at
  one word without the lock, `close()` against the work, a clock crossing in the bridge.
- *State published before it is true*: the work stores the state of a transfer while the transfer is
  still on the queue, and the caller tests it without the lock.
- *State read before and used after*: `engine->status`, which a caller interrupted by a signal
  overwrites without the lock; `eop_found`, a flag for what should be a count; `dev_present`.
- *Two users of one engine*: a performance test that is started and stopped without the lock, and
  rewrites the interrupt mask, among the transfers of `read()` and `write()`.
- *Partial failure*: descriptor errors, failing steps of `probe()`, a failing second `open()`.
- *Timeouts*: a poll gives up while the hardware goes on.
- *Limits*: the ring is lapped, a FIFO fills, descriptors meet the end of a page.
- *Liveness*: a lost interrupt, a missed wake-up, a loop under a spin lock that waits for an EOP.

`PROJECT.json` lists each of them as a hazard with its line and the properties that would catch it.

## 2. Modules

    DmaService
        ^ refinement mapping
        |
    XdmaEngine ------ XdmaPoll        XdmaRing   XdmaUserIrq   TransferBuild   XdmaDevice
        |
    XdmaInterrupt --- XdmaPerf        BridgeRegisters -- RxBridge, TxBridge -- JesdPcieBridge

The theorems about a module `X` and their proofs are in `X_proofs`, which extends it: `XdmaInterrupt_proofs`
(with those about `XdmaPerf`), `XdmaPoll_proofs`, `XdmaRing_proofs`, `XdmaUserIrq_proofs`, `XdmaDevice_proofs`, `JesdPcieBridge_proofs` and
`TransferBuild_proofs`. `QueueLemmas` holds facts about queues for the first two.

Each `MCX` module extends module `X` for TLC and adds symmetry sets or functions of constants only.
A configuration `MCX_run.cfg` replaces no definition of a module.

Three modules choose their environment in the initial state and keep it: `XdmaPoll`
(`exclusive`, `healthy`), `XdmaRing` (`env`) and `XdmaPerf` (`careful`, and `msix_enabled` of
`XdmaInterrupt`). One run then covers programs and hardware of every kind, and a property that holds of
some of them says so itself, by naming the environment or the mishap it excepts.

In several modules a definition is preceded by one whose name tells of a fault (`ShutdownNever`,
`RxTlastEarly`, ...) and that is marked "Mutant". These are the changes of the code each property was
tested against: with the mutant in place of the definition, TLC finds the property violated.

### XdmaEngine, XdmaInterrupt, XdmaPoll: one SG DMA engine

`XdmaEngine` holds what both modes share. Its state is the transfers (`xstate` is
`transfer->state`, or "FREE"), the fields of `struct xdma_engine` under their own names, the
hardware channel (`run`, `active`, `busy`, `count`, `events`, `wb`, and `cur`, the transfer whose
descriptors it fetches) and the callers, each a program counter in `transfer_data()`.

| Definition | Code |
|---|---|
| `Request`, `TransferCreate`, `TransferCreateFails` | `char_sgdma_read_write()`, head of the loop of `transfer_data()`, `transfer_create()` |
| `Submit` | `transfer_queue()` with `engine_start()`, one section under `engine->lock` |
| `AfterMonitor`, `StatusReread` | `transfer_data()` after `transfer_monitor()`: free, go on, or read the status after a signal |
| `Isr`, `ChannelIrq` | `xdma_isr()` and `xdma_channel_irq()`: mask, schedule the work |
| `WorkBegin`, `WorkShutdown` | `engine_service_work()` takes the lock; the status read and the shutdown |
| `WorkMark` | `engine_service()` up to the store of `transfer->state` (1281, 1300, or 1251 after an error), which the caller may act upon at once |
| `WorkUnlink` | `list_del()` and the read of `transfer->desc_num` (1304, 1306) |
| `WorkResume` | the wake-up on `transfer->wq` (1180) and `engine_service_resume()`, which no longer touches the transfer |
| `WorkReenable` | the interrupt is unmasked and the lock dropped |
| `WbMonitor`, `WbTimeout` | `engine_service_wb_monitor()` |
| `PollBegin`, `PollShutdown`, `PollMark`, `PollUnlink`, `PollResume`, `PollStopped` | `engine_service_poll()`: the same service in the thread of the caller; the write-back word is cleared with the restart |
| `HwDescriptor`, `HwLastDescriptor`, `HwError`, `HwIdle` | the channel as the driver relies on it (external): it executes the descriptors in order, counts them, reports once, and clears BUSY, with "busy" perhaps later than the report |

The service holds the lock throughout and is split where somebody who does not take the lock can
tell: the hardware and an interrupt (status read, shutdown, count, unmasking), a caller that rereads the
status after a signal, and the caller that tests `transfer->state` (3245, 3301) and then frees the transfer
(3308). `serviced` is the transfer whose state is stored and which the service has not let go of. It is
nobody's concern after an error, when `engine_service_final_transfer()` returns at once and leaves the
failed transfer linked. The iterations of the loop of `engine_service_transfer_list()` belong to `WorkMark` and
`PollMark`: in interrupt mode there are none (`OneTransferPerRun`), and pollers look at a state only after
they had the lock.

Chaining of transfers is off (`CHAIN_MULTIPLE_TRANSFERS` is 0) and asynchronous I/O is compiled
out, so a run of the hardware is one transfer. `CounterSize` stands for 2^32: the subtraction
`desc_count -= engine->desc_dequeued` is modelled modulo it.

A freed transfer that the engine uses, because it is linked on the queue or `serviced`, is the end of a
behaviour (`FreedInUse`, `Alive`): every step that follows would be undefined. The same holds after a
`BUG_ON()`. The liveness properties and the fairness of `ServesInOrder` are claimed as long as that does not
happen; `interrupt_race` shows that it does, `FreedInServiceOnly` that it happens at no other moment.

In `XdmaPoll` the caller is wrapped (`CallerRequest`, `CallerPolls`, ...) so that with `exclusive` only one
request at a time is made, and `WbTimeout` and `HwError` happen up to `MaxFailures` times unless the
hardware is `healthy`.

`DmaService` is what an engine promises: submitted transfers are moved one at a time, in order,
each once and eventually, and are taken back only after they were moved. `ServesInOrder` (in
`XdmaEngine`) instantiates it. The mapping: the queue is `pending`, except for a head that was moved
and not serviced yet, and a transfer that was moved and not yet freed is in `done`. `ServesOneCaller` (in `XdmaPoll`) instantiates
it for poll mode, where the promise is kept to one caller at a time on healthy hardware; elsewhere the
mapping is an idle service.

### XdmaPerf: the performance test

`XdmaPerf` extends `XdmaInterrupt` with the thread that is in `ioctl()` and with `engine_service_perf()`.

| Definition | Code |
|---|---|
| `PerfStart`, `PerfStartRefused`, `PerfQueue` | `ioctl_do_perf_start()`, which allocates `xdma_perf`, may refuse the version with it allocated, and queues a cyclic transfer (`xdma_performance_submit()`) |
| `PerfStop`, `PerfStopRun` | `ioctl_do_perf_stop()` without the lock: `engine_cyclic_stop()` picks the first transfer, whosever it is, clears RUN, and sets STOP in the last descriptor of a cyclic one (`ending`) |
| `PerfStopFree`, `PerfStopCopyFails` | the results are copied and freed without a wait; when `copy_to_user()` fails they stay |
| `StartModeConfig` | `engine_start_mode_config()`: while `xdma_perf` is set every start writes the whole interrupt enable mask. It is part of each step that starts the engine (`PerfSubmit`, `PerfWorkResume`, `PerfQueue`) |
| `WorkTaken`, `PerfWorkBegin`, `WorkPerf`, `PerfWorkMark`, `PerfWorkResume` | the work. It is no longer pending before it takes the lock, so that a handler may schedule it again; `engine_service_perf()` finds the results in one step and writes to them in the next |
| `CyclicDescriptor`, `CyclicStops`, `HwHalt` | a loop of descriptors runs until RUN is cleared, then the channel halts and, where IDLE_STOPPED is enabled, says so; or it stops at the STOP bit, if it did not fetch that descriptor before (external) |

A work that writes to freed results (`PerfFreedInUse`) is the end of a behaviour. The transfer object
of a test is never freed, as in the code.

### XdmaRing: the C2H stream

The state is the result buffer and the data of the ring, the indices and flags of
`struct xdma_engine`, the work, one open file (`file` is where open or close is) and its readers. A
result is a block number with an EOP flag, the flag "first of its packet", which the hardware does not
write and the properties need, and "bad", a result whose magic number or error bits
`complete_cyclic()` refuses. `Followed` and `RingProcess` are `engine_ring_process()`, whose loop runs
under the lock and is one step. The loops of `complete_cyclic()` (`TakeResult`, `TakeNothing`,
`TakeEnds`) and of `engine_service_cyclic_polled()` (`Polling`) go step by step, as the hardware writes
meanwhile. `CloseStop` is without the lock, as in the code.

`env` is the set of faults a behaviour may have; `mishap` remembers that a result was overwritten before it
was taken ("lapped"), an `open()` returned with the lock held ("leaked"), a signal ended the wait of
`close()` ("interrupted") or a result was bad. The properties except these events, not the environments
in which they might happen.

### XdmaUserIrq: user interrupts

A line is asserted by the user logic and stays so until its interrupt was handled. `UserIrqService` is
`user_irq_service()`; `UserIrq` is its caller with MSI-X; `IsrRead` and `IsrService` are `xdma_isr()`,
which reads all lines and then services them, so that a line can be serviced twice for one event. A
reader puts itself on the wait queue, tests the flag and sleeps in separate steps, as
`wait_event_interruptible()` does.

### TransferBuild: from a request to descriptors

Here the module is the algorithm with its data: addresses are numbers, the initial states
are all requests, and the steps are the iterations of `transfer_build()`. `MapSg` is what
`pci_map_sg()` may return (external): entries that lie next to each other on the bus may be merged, any
set of them; `Merged` is the list whose entries begin at the chosen heads. The history `at` holds how many
bytes of the transfer lie in front of each descriptor. `DescriptorsCoverRequest` compares the descriptors with the definition of the request, byte for byte.

### XdmaDevice: the life of a device

What a device holds is a set of resources named for the step of `probe()` that takes them; the module
follows `probe()` through `Steps`, through the failure of any of them into the function's own unwinding
(`OwnUnwind`) and then through `Labels`, and `remove()` through `RemoveOrder`. Programs open and close
files, and handlers begin and end, at any moment the files and vectors exist.

### BridgeRegisters, RxBridge, TxBridge, JesdPcieBridge: the bridge

An action is a clock edge of one domain (`RxClock`, `TxClock`, `UserClock`); the three clocks are
unrelated, except that a pulse of the 100 MHz AXI clock lasts until each faster stream clock sampled
it. Each register of the Verilog is a variable whose next value is computed from the values
before the edge. A FIFO is its level (a vendor core, external). `Program` is `rx.c`; with
`Patient` it waits for the end of capture and playback before it goes on, which `rx.c` does not.
`TxTlast` is TLAST as the H2C channel drives it; with `StrayLast` it may be high while TVALID is low, which
AXI4-Stream allows.

## 3. Runs

| Run | Question | Instance |
|---|---|---|
| `interrupt_live` | Does the driver keep `DmaService` on healthy hardware, and does every request end? | 2 callers, 2 transfer objects, requests of up to 2 transfers of up to 2 descriptors, signals; fair |
| `interrupt_race` | Is a transfer that is no longer SUBMITTED out of the engine's hands? No (finding) | 2 callers, 1 transfer each, neither faults nor signals |
| `interrupt_faults` | What holds whatever the hardware reports? | 2 callers, 3 transfer objects, errors, a late BUSY bit, signals; symmetric |
| `poll` | Does poll mode keep `DmaService` with one caller at a time, what survives errors and timeouts, and is a queue left on a stopped engine when callers overlap? | 2 callers that take turns, on hardware that is healthy or not, or that overlap on hardware that may fail; 2 descriptors, one error or timeout; fair |
| `poll_shared` | Does a polling caller take only its own report? No (finding) | 2 callers, healthy hardware |
| `ring` | Is the ring a queue, does a waiting reader take the packet in front of it, does `close()` come back to free a ring at rest? | 3 places, packets of up to 2 blocks, 4 blocks, 2 opens, both modes, in six environments: errors; a bad result; a stream that laps; signals; a second open or no memory; 2 readers of one file; fair |
| `ring_copy` | Does `read()` copy the packet it took? No (finding) | 1 reader |
| `userirq` | Is an event ever slept through? | 2 lines, one with one reader, one with two; MSI-X or not; signals; fair |
| `bridge` | Is a captured packet exact and does every run end? | counters modulo 16, FIFOs of 6 words and 4 beats, 2 to 8 words asked for, TLAST low between beats; fair |
| `build` | Do the descriptors describe the request? | every request of up to 20 bytes in 5 pages of 4 bytes, every placement on 6 bus pages |
| `perf` | Do queue, channel and interrupts survive performance tests among requests, and does a request behind a test return? | 1 caller, one tester, 3 transfer objects, 2 descriptors; careful or careless tests; fair |
| `device` | What do failing probes and removals leave behind? | 2 devices, one with MSI-X, one on a line |

What each property says, and of which code, is written above its definition.

### Why these bounds are enough

- *Engine.* One transfer runs at a time, so two callers give every meeting of "queue on a busy engine"
  with "the run before ends". The third object of `interrupt_faults` lets a caller go on while
  an abandoned transfer (a signal, an error) stays queued. Two descriptors give a partial count,
  which is what the `desc_dequeued` arithmetic and the write-back word are about. Two chunks make the
  engine restart for the same caller.
- *Poll mode.* One failure (`MaxFailures` is 1), an error or a timeout, puts the model where the code gives
  no promise any more. Requests are made again and again, so a caller meets what an earlier one of either left;
  two callers meet in every step of a poll. Hardware that never fails is one behaviour of hardware
  that may, so overlapping callers need the latter only.
- *Performance test.* The object of a test is never freed, so three objects are two tests and a request,
  before, between and after each other. Objects are interchangeable; where symmetry cannot be used, for the sake
  of liveness, the allocator gives the first free one (`FirstFree`).
- *Ring.* Three places and four blocks wrap the ring, with packets of one and two blocks, the ring full and,
  in the lapping environment, one result overwritten. A second open meets what an earlier one left;
  a file that is shared is opened once, and a behaviour has at most one bad result.
- *User interrupts.* Lines only meet in `xdma_isr()`, readers only on a line: two lines with one
  and two readers have both meetings.
- *Bridge.* Captures below, at and above the FIFO's depth, one word and several beats, packets that
  just fit, and counters that keep their value from one run into the next. The real sizes only scale these.
- *Descriptors.* The constants keep the order of the real ones: a page is smaller than the longest
  descriptor, which is not a multiple of the page; a request takes up to two transfers; a page
  of descriptors holds fewer than the array; the adjacency limit is smaller than a page of descriptors.
- *Device.* Every step fails in some behaviour; two devices compete for instance numbers and come
  in both kinds of interrupt. `MaxDevices` is 2, so that both just fit.

### Fairness

Liveness is only claimed under these assumptions, and only for hardware without faults (except
errors, bad results and laps of the ring's channel), for polling callers that take turns, and for
performance tests that are ended while they execute.

- *Weak fairness of hardware and clocks*: an active channel executes, an interrupt that is raised and
  not masked is delivered, BUSY falls, clocks tick, the converter and DMA sides are ready again
  and again. This is what "healthy" means.
- *Weak fairness of the work and of runnable threads*: the workqueue runs what is scheduled, and the
  scheduler runs each runnable thread. Each such step is of a single actor, so its action stays
  enabled until it is taken.
- *Strong fairness of taking `engine->lock`*: the lock is free and taken again and again, so weak
  fairness would let a thread spin for ever. The kernel's spin locks (ticket or queued) admit waiters in
  order.
- In `XdmaRing`, `XdmaPoll` and `XdmaPerf` all steps of one thread or of the ring's work share one strongly fair condition: an
  actor is at one step at a time, so for steps without the lock it says what weak fairness says.
- *A system call that began goes on*, and a careful program ends its performance test (`PerfStop` with
  `careful`): otherwise a request queued behind a test waits for ever, which is what a test is.
- No fairness for what the environment need not do: requests, signals, faults, opening files,
  asserting a line.

## 4. Proofs

The theorems hold for every value of the constants that the named assumptions of the modules admit
(`EngineConstants`, `InterruptMode`, `PerfConstants`, `PollConstants`, `RingConstants`, `UserIrqConstants`, `DeviceConstants`,
`RxConstants`, `TxConstants`, `ProgramConstants`, `BuildConstants`): any sets of callers, transfers, readers,
lines and devices, any sizes of rings, FIFOs, counters, pages and requests. Each safety invariant the runs
check is a theorem.

Some theorems have a hypothesis on a constant. Each says what section 5 says of the code in that case: with
the hypothesis dropped, TLC finds a behaviour that violates the property.

| Hypothesis | Of | Why |
|---|---|---|
| `NoErrors` ("error" is not among the `Faults`) | `ChannelAlwaysRunsHead`, `SleeperAlwaysWoken`, `NeverUsedAfterFree`, `EngineImplementsService`, `EngineMovesOnce` | the error path starts the failed head again, returns before the wake-up, and its caller frees the queued transfer at any later time |
| `NoLateBusy` ("busy" is not among the `Faults`) | `QueueAlwaysServed` | when BUSY falls after the report, the engine keeps `running` with an empty queue |
| `~MsixOverlap` | the theorems of `XdmaPerf` | with MSI-X a test next to a request opens the mask while the work is due, and the work is scheduled twice |
| `~OpenAtUnplug` | `FileAlwaysFindsDevice` | the file keeps the module, not the device |
| `Patient` | `PacketAlwaysExact`, `CaptureAlwaysWhole` | a second trigger meets a capture that still runs |

None of the properties is inductive by itself. The next sections give the invariant that is, and why its
parts are needed. In each module the lemma `...InvNext` has a step for each action, and below it one for each
conjunct that the action disturbs; the theorems follow from it. Where actions are large each has a lemma of
its own. The invariants were checked as invariants of the instances before they were proved.

### XdmaInterrupt_proofs

| Theorem | States |
|---|---|
| `TypeCorrect` | `Spec => []TypeOK` |
| `NoBugEver` | no `BUG_ON()` of the service functions is reached |
| `CompletedIsMoved` | a transfer is marked COMPLETED only after the hardware moved all of it |
| `OneTransferEachRun` | a run never reports more descriptors than the head has, so the loop of `engine_service_transfer_list()` has nothing to dequeue |
| `InterruptNeverLost` | a masked interrupt has work scheduled or running that unmasks it |
| `QueueAlwaysServed` | no transfer is left on an idle engine, errors or not |
| `ChannelAlwaysRunsHead` | the descriptors that execute are those of the first queued transfer, with a late BUSY bit, too |
| `SleeperAlwaysWoken` | no caller sleeps on a transfer that is over |
| `NeverUsedAfterFree` | `NoErrors => (Spec => []FreedInServiceOnly)`: whatever signals do, nobody frees a transfer the engine uses but the one being serviced, under the lock, between the store of its state and its wake-up |
| `EngineImplementsService` | `Spec => Service!Safety`: every step is one of `DmaService`, or a stutter |
| `EngineMovesOnce` | what follows from the promise alone: a transfer is pending once, and not again before it was taken back |

The first five hold whatever the hardware does. Their invariant is

    FaultInv == TypeOK /\ NoBug /\ RunIsHead /\ ReportIsTrue /\ ServicedIsHead /\ MaskIsDue
                /\ HasDescriptors /\ CompletedWasMoved

- `RunIsHead`: from the start of a run until the work has inspected it, the queue is not empty, the
  channel's transfer is the head of the queue, `desc_dequeued` is 0 and the completed count is at most the
  head's. Hence the unsigned subtraction of the code never wraps, the head is never missed, and the
  `BUG_ON()` is not reached. It survives an error because the code leaves the failed transfer at the
  head and starts it again, and survives signals because an abandoned transfer stays queued.
- `ReportIsTrue`: the events of a run come after it, one report per run, and a full count means that
  the data was moved. It links `CompletedWasMoved` to what the work reads.
- `ServicedIsHead`: while the work finishes a transfer (`Finishing`) the channel is at rest and has nothing
  to report; until it is unlinked the serviced transfer is the head, and outside these steps there is none.
  It is what makes the three steps of the service together what one would be to the queue.
- `MaskIsDue`: with MSI-X the enable mask, otherwise the channel mask, is off exactly while work is
  due, and then the saved mask is what turns it on again.
- `HasDescriptors`: what is queued or about to be has at least one descriptor, without which a run
  would end before it reports.

`PromptInv` adds that BUSY is set only while the channel executes (`BusyIsActive`) and that a queued
transfer has a run (`QueueHasRun`). `SoundInv` adds to `FaultInv`, for hardware without errors: an engine that
does not run has nothing queued (`IdleIsEmpty`); a report means the whole transfer (`ReportIsFinal`); nothing is
queued twice (`QueuedOnce`); of what is queued only the head can have been moved (`MovedIsHead`); and each
caller's transfer is its own, in the state the caller thinks it is in (`Owned`). The last allows a queued
transfer to be over, and free, only if it is the one being serviced; that is `FreedInServiceOnly`, and it is
what an error breaks. `EngineImplementsService` then maps each action to the
step of `DmaService` it takes: `Submit` to a submission, the last descriptor to a move, `AfterMonitor` to
taking back, the others to a stutter: the mapping takes a moved head off the queue when the hardware moved it,
so neither the store of its state nor `list_del()` changes it. `Alive` is a conjunct of `Next`: no theorem
tells what the driver does after freed memory was used, and `NeverUsedAfterFree` says when that can be.

The performance test, in the same module:

| Theorem | States |
|---|---|
| `PerfTypeCorrect` | `PerfSpec => []TypeOK`: no restart lets the counts of the engine grow |
| `TestsKeepQueue` | `PerfSpec => []QueueSurvivesTests`: no `BUG_ON()`, and the channel executes the first queued transfer |
| `HaltedIsNotCompleted` | `PerfSpec => []HalfDoneFails`: a transfer that was halted half-way is never reported as completed |
| `PerfNeverFreesQueued` | `PerfSpec => [](FreedInServiceOnly /\ TakenOffEngine)`: with tests and signals at any moment, what is queued and not being serviced is not over, and is not freed |

They hold for any number of callers and transfers, of tests one after the other and of descriptors, with
careful programs and careless ones, as long as the behaviour is defined: it ends where the work writes to
results that were freed (`PerfFreedInUse`), or uses a transfer that was freed while it was serviced, the only
one `PerfNeverFreesQueued` leaves. `FaultInv` does not describe this engine: the channel goes round with a
full count, may halt half-way and then without a report, and the work may be taken and not have begun.
`PerfInv` keeps `RunIsHead`, which a test does not change because its transfer waits in the queue like any
other and only the work takes it off, and replaces the rest:

- `PerfReport` for `ReportIsTrue`: a full count still means that the data was moved, which is why a transfer
  that `PERF_STOP` halts in the middle fails.
- `PerfMask` for `MaskIsDue`: work that was taken counts as due. It holds although each start of the engine
  during a test writes the whole mask, for two reasons: `transfer_queue()` starts only a stopped engine, whose
  interrupt is not masked; and the restart by the work needs a second queued transfer, which a test that is
  apart from requests does not have.
- `TestAlone` says when that is: with MSI-X, from the moment `xdma_perf` is allocated until the cyclic transfer has
  left the queue, callers are at rest and nothing else is queued. A test refused for its version counts, too,
  as it leaves `xdma_perf` set. With the other interrupts it claims nothing.
- `PerfQueued` and `PerfOwned`: what is queued is submitted, once, but for the serviced transfer until it is
  unlinked, and no caller owns the transfer of another
  or of a test. They take the place of `Owned`, without the parts that a PERF_STOP breaks: a caller may sleep on
  a transfer that was halted and whose end nobody reports.

### XdmaPoll_proofs

| Theorem | States |
|---|---|
| `StoppedIsAlwaysEmpty` | with any callers and any hardware, an engine marked as stopped whose lock is free has nothing queued |
| `OwnReportAlways` | one caller at a time takes the report of its own transfer, until a poll timed out |
| `PollImplementsService` | `Spec => OneCaller!Safety`: callers that take turns on healthy hardware get what `DmaService` promises |

`StopInv` is what holds of everyone; it rests on `LockInv` (who is in the service has the lock, and is
alone). `ExclusiveInv` says, for one request at a time, where the transfer, the channel, the word and the copy
of it are at each step of the caller (`Begins`, `Waits`, `Locks`, `Services`, `Unlinks`, `Resumes`, `Ends`), and that the engine is at
rest between requests (`AtRest`). The word is the report in disguise: `Reported` says it is true, which
`poll_shared` shows to fail as soon as a second caller reads it. `HealthyInv` excludes timeouts and errors.

### XdmaRing_proofs

| Theorem | States |
|---|---|
| `RingStaysOrdered` | what waits in the ring is consecutive from the head, until a lap or an `open()` that kept the lock |
| `RingFreedAfterStop` | `close()` frees a ring at rest, unless a signal ended its wait |
| `LockAlwaysHasHolder` | the lock is held by somebody who gives it back, except after an `open()` that kept it |
| `PolledReadsAreWhole` | one polling reader of an undisturbed stream takes whole packets, in order |

`RingInv` has a part for each: `LockInv` (one holder at most), `StopInv` (who marks the engine as not
running has read a status without BUSY, and the ring is there as long as the file), `FillInv` (the hardware's
next place follows the last block that waits; with it and not without it `RingIsOrdered` survives a
write), `PacketInv` (what waits is whole packets but for the first and the last) and `ReadInv` (what a reader
has taken is a beginning of a packet up to the last block taken). The proof needs that the window
`After(rx_head, k)`, which wraps around, never meets the place being written, for every `RingSize`.

### XdmaUserIrq_proofs, XdmaDevice_proofs

| Theorem | States |
|---|---|
| `UserIrqTypeCorrect` | types of the user interrupts |
| `NoSleepOnEvent` | no reader sleeps on a line whose flag is set |
| `ReaderAlwaysSeesEvents` | a reader alone on its line is not told of zero events, and does not block after `poll()` announced one |
| `NothingIsReleasedTwice` | `probe()`, its labels and `remove()` release what is held and nothing else |
| `AbsentHoldsNothingAlways` | a device that is gone holds nothing, with the exceptions the property names |
| `FileAlwaysFindsDevice` | an open file finds its device |
| `HandlerAlwaysFindsMemory` | with MSI-X a handler that runs finds its engine and device |
| `InstancesAlwaysDistinct` | instance numbers are distinct, unless the table was cleared under them |

`IrqInv` adds to the types that an event a reader was told of stays until it takes it (`EventIsThere`).
`HoldsInv` says what a device holds at every step of `probe()`, at every label for each step that may have
led to it, at every step of `remove()`, and afterwards: it is the table one would draw to review
the unwinding. `FileInv`, `HandlerInv` and `InstanceInv` are small once that table is there.

### JesdPcieBridge_proofs

| Theorem | States |
|---|---|
| `BridgeTypeCorrect` | registers and FIFO levels stay in their ranges, whatever the program does |
| `PacketAlwaysExact` | a capture's packet has exactly the words asked for |
| `CaptureAlwaysWhole` | what the program collects is the packet it asked for |
| `PlaybackAlwaysWhole` | a playback plays one whole packet, whether the program waits or not |

`BridgeInv` relates the halves, which share no clock, through the program's step: `PulseInv` (a pulse
belongs to the step that wrote it), `RxInv` (the FIFO holds the words stored minus those sent since the
trigger, while either state machine may have seen the trigger or not) and `TxInv` (what is in the FIFO and
what was played since the flush is what was accepted; a source that has seen the trigger rests only when the
FIFO is empty). `PlayInv`, the part without the receive half, holds of a program that does not wait, too: the
playback an earlier trigger began may go on under the next packet, and takes its words from the same FIFO.
The sink stores one word more than it was asked for, when it can; as the number asked for is even, that word
never becomes half of a beat. The counters' widths enter here: the number asked for and
its half fit with a word to spare.

### TransferBuild_proofs

| Theorem | States |
|---|---|
| `BuildTypeCorrect` | types; in particular never more descriptors than entries of the scatter list |
| `FetchAlwaysInPage` | no burst of the descriptor fetch leaves the array or a page |
| `DescriptorsAlwaysAccepted` | no descriptor is empty, too long or misaligned |
| `DescriptorsAlwaysCover` | the descriptors move every byte of every request once and in order |

They hold for every request, page size, placement of the pages and merging by the mapping. `BuildInv` follows
the loops: what is left of the request begins a page (`LoopInv`); descriptors and the block being
collected lie behind each other in the transfer, and each is one piece of the bus (`ChunksInv`, `OpenInv`,
`ClosedInv`); `LinkInv`, `SizeInv` and `AlignInv` are for the other properties. The lemmas say what the
operators return: the page list covers the transfer (`PagesCover`), and so does every merged list
(`MergedCovers`, by way of `ChainCovers`: entries that touch are one piece), and the bus keeps the alignment of
the buffer (`PlaceAligned`). The merged list is defined by the rank of its heads, about which induction over
the members of a set is needed (`SetInduction`, from the well-foundedness of the numbers).

### What is model-checked only

- Liveness (`RequestReturns`, `PolledRequestReturns`, `CarefulRequestReturns`, `PacketIsTaken`, `CloseReturns`,
  `EventEndsRead`, `RunReturns`) and the fairness of `DmaService`: beyond this prover. `ServesInOrder` and
  `ServesOneCaller` are proved up to their fairness, that is, as `Service!Safety` and `OneCaller!Safety`.
- The three findings, which are counterexamples.

## 5. What the checks show, and where the code falls short

Three runs end in a counterexample and are listed as findings:

- `interrupt_race`: the work stores `transfer->state` (1300, and 1281) and only then takes the transfer off the
  queue, reads its `desc_num` and wakes its queue. The caller tests the state without the lock, at its first
  look before it sleeps or after a signal, finds the transfer "taken off the engine" and destroys it under
  the work's hands. Hardware without any fault is enough, if the transfer is short or the caller late.
- `poll_shared`: two callers that expect the same count take the same report; the second completes a
  transfer that is still executing.
- `ring_copy`: `copy_cyclic_to_user()` advances `head` past the packet before it copies from `head`.

The properties of the passing runs hold within limits, which the instances state openly and which
can be seen by widening them:

- *Errors in interrupt mode.* `engine_err_handle()` marks the head as failed and nothing removes it from the
  queue (1251, 1273): its caller, which believes that it "was taken off the engine" (3300), frees it there at any
  later time. `TakenOffEngine` and `FreedInServiceOnly` fail so when "error" is among the `Faults`. The error
  path returns before the wake-up, so `SleeperWillBeWoken` and
  `RequestReturns` need hardware without errors, and so does `ChannelRunsHead`, because the failed head is
  started again. When BUSY falls after the report, the work
  leaves `running` set with an empty queue and the next transfer is never started: no `QueueIsServed`
  with "busy".
- *Poll mode.* A poll that times out fails and removes the head transfer while the hardware still executes
  it and leaves the engine marked as running; the next caller may reach `BUG_ON(!transfer)`, hence the
  `timeouts = 0` of `OwnReport`. With callers that do not take turns what is left is `StoppedIsEmpty`:
  poll mode needs one request at a time on an engine, and nothing in the driver sees to it.
- *Performance test.* `engine_cyclic_stop()` asks for the lock ("engine->lock must be taken") and its callers
  in `ioctl_do_perf_stop()` and `close()` do not hold it. `PERF_STOP` stops the transfer that is first,
  also one of `read()` or `write()`, which is halted half-way: it fails (`HalfDoneFails`) when another
  start has enabled IDLE_STOPPED, and otherwise its caller sleeps for ever, hence `careful`. A comment in
  `engine_service_perf()` speaks of a stop that waits for the run to finish; there is none, so the work may
  write to results that were freed. The transfer of a test is never freed, and a test refused for its
  version leaves `xdma_perf` set, as does a PERF_STOP that cannot copy the results.
- *Performance test with MSI-X.* `engine_start_mode_config()` writes the whole interrupt enable mask, which an
  MSI-X handler uses to keep further interrupts away until its work is over. When a request runs next to a
  test, the work can be scheduled once too often, and then fails and dequeues a transfer that still executes,
  up to `BUG_ON(!transfer)`. `QueueSurvivesTests` fails so with `MsixOverlap = TRUE`; with MSI-X the run and
  the theorems have tests and requests apart, with the other interrupts at the same time. A test that was
  refused for its version must be apart, too: it leaves `xdma_perf` set, and so the restart of the engine for
  the second of two queued requests opens the mask until a `PERF_STOP`.
- *Ring.* When the stream laps a reader, results of two laps mix; `rx_overrun` is reset and never reported.
  `RingIsOrdered` holds until then, and the lock and `close()` are not affected. A second `open()`
  of an open channel resets the indices of the first and keeps the lock, and a failing allocation keeps it too:
  nobody gets the lock any more. So does a failing `transfer_create()`: the test behind it is of `rx_buffer` (4074),
  and the thread stops with the lock held where it uses the null pointer (`OpenFailsLocked`). A signal during `close()` frees a ring that is being written.
- *Polled reads of the ring* wait for an EOP that `engine_ring_process()` finds anew. When two packets came at
  once `rx_tail` is behind both, and the read for the second spins under the lock until a third comes; after
  a bad result the rest of its packet has this fate. With two readers of one file one spins while the
  other needs the lock to take the packet it found. `PacketIsTaken` is for the reader whose poll has ended.
- *Interrupt-mode reads of the ring* may return part of a packet, because `eop_found` stays set for a
  packet that another look at the ring already took; whole packets are claimed for poll mode only.
- *User interrupts.* Two readers of one line are both woken and the second returns 0 events: the claims are
  for readers alone on their line. No reader sleeps through an event in either case.
- *Bridge.* `rx.c` collects without waiting; with `Patient = FALSE` a trigger meets a capture that still
  runs and `PacketIsExact` fails; `PlaybackIsWhole` holds. With an odd or a zero word count the two
  counters disagree about the end of the packet. A capture
  larger than the FIFO may lose samples when the channel is slow, with the length still exact; a packet
  larger than the transmit FIFO is not accepted before the playback, which follows it. The sink of
  the playback leaves WRITE_FIFO on TLAST alone (`..._M00_AXIS.v:96`). A TLAST that is still high after the packet
  before, with TVALID low, ends the next one before a beat is accepted: TREADY stays low and `write()` does not
  return. AXI4-Stream allows such a channel and `RunReturns` fails with it (`StrayLast = TRUE`), so it is stated for
  one that keeps TLAST low without TVALID; the other properties, and all theorems, do not need that.
- *Descriptors.* With merged entries longer than a page (an IOMMU) a descriptor may be longer than
  `XDMA_DESC_MAX_BYTES`: `DescriptorsAccepted` claims the limit for entries of at most a page. For a fixed
  address, `*pos` advances between the transfers of a request that needs several.
- *Devices.* The labels of `probe()` do not disable MSI-X; a failing C2H engine leaves the other engines,
  a failing attribute leaves the files; a device whose regions are in use stays enabled. These are the
  exceptions `AbsentHoldsNothing` names. `remove()` and the labels free the engines before the handler
  of a shared line: `HandlerFindsMemory` is for MSI-X. `xdma_init()` clears `dev_present` after
  the devices present at load time were probed, hence the `~cleared` of `InstancesDistinct`. With
  `OpenAtUnplug = TRUE`, the sequence of `tests/hwrst.sh` with an open file, `FileFindsDevice` fails: the
  file keeps the module, not the device.

## 6. What is not modelled

- Of the `ioctl()`s, `PERF_GET`, which copies results, and the address mode, which sets a register bit
  and a flag that `TransferBuild` has as "fixed"; several threads in `ioctl()` at once; tests in poll mode.
- A change of `poll_mode` while the driver runs, asynchronous I/O and chained transfers (compiled out).
- The work item of an engine at `remove()`: `engine_destroy()` does not wait for it, and as nothing orders the
  two, a property of a model with it would have to except what it is about. The hazard is listed.
- Contents of control, user and bypass registers, `mmap()`, and the detection of BARs: no state
  that a later step depends on.
- The AXI-Lite handshake of the registers (the vendor's template) and the FIFO cores: taken by their effect.
- The DAQ2 controller: SPI sequences with converter chips whose behaviour is not in the repository.
- Memory ordering of the processor and of PCIe: steps are sequentially consistent.

## 7. Plan

Done: inventory; engine in interrupt and poll mode, performance test, ring, user interrupts, bridge,
descriptors and device life cycle modelled and checked; poll mode and interrupt mode shown to implement
`DmaService`, by TLC with its fairness and by proof without; the safety properties of all modules, those of
the performance test among them, proved. Next:

1. Models: several performance testers and tests in poll mode; the DAQ2 controller's SPI core.
2. Proofs: the theorems of `XdmaPerf` for each of several testers, whose `tester` and `test` become functions.
