------------------------------ MODULE XdmaPerf ------------------------------
(***************************************************************************)
(* The performance test of an engine (ioctl() of its character device) on  *)
(* top of the interrupt mode of XdmaInterrupt.  PERF_START queues a cyclic *)
(* transfer among those of read() and write(), PERF_STOP clears RUN and    *)
(* frees the results without engine->lock and without waiting; the work    *)
(* takes the cyclic transfer off the queue when the channel has halted.    *)
(*                                                                         *)
(* While engine->xdma_perf is set, engine_start() also writes the whole    *)
(* interrupt enable mask, which an MSI-X handler may have cleared.         *)
(***************************************************************************)
EXTENDS XdmaInterrupt

CONSTANT MsixOverlap  \* with MSI-X, too, tests and requests are made at the same time

ASSUME PerfConstants == MsixOverlap \in BOOLEAN

VARIABLES
  careful,      \* the calls are well-formed, PERF_STOP ends a test that is executing
  xdma_perf,    \* engine->xdma_perf is allocated
  cyclic,       \* transfers with transfer->cyclic
  ending,       \* tests whose last descriptor was given the STOP bit
  tester,       \* where the thread in ioctl() is
  test,         \* the transfer it submits or picked to be stopped
  idle_enabled, \* IDLE_STOPPED is one of the interrupts of the enable mask
  taken,        \* the workqueue took engine->work off and starts it
  perf_step     \* engine_service_perf() of this work: none, held, done

perfVars == <<careful, xdma_perf, cyclic, ending, tester, test, idle_enabled, taken, perf_step>>
allVars  == <<vars, perfVars>>

(* The work writes to results that were freed: what follows is undefined    *)
(* and the model ends there.                                                *)
PerfFreedInUse == perf_step = "held" /\ ~xdma_perf

Defined == Alive /\ ~PerfFreedInUse

PerfInit ==
  /\ Init
  /\ careful \in BOOLEAN
  /\ xdma_perf = FALSE
  /\ cyclic = {}
  /\ ending = {}
  /\ tester = "idle"
  /\ test = NoXfer
  /\ idle_enabled = FALSE
  /\ taken = FALSE
  /\ perf_step = "none"

-----------------------------------------------------------------------------
(* The channel executes a loop of descriptors until RUN is cleared.  Its    *)
(* count goes on; more than the loop has makes no difference.               *)
CyclicDescriptor ==
  /\ active /\ cur \in cyclic
  /\ count < desc_num[cur]
  /\ count' = count + 1
  /\ moved' = IF count' = desc_num[cur] THEN moved \cup {cur} ELSE moved
  /\ UNCHANGED <<run, active, busy, cur, events, wb>>

(* The last descriptor of a test that is ended stops the channel, unless it *)
(* was fetched before.                                                      *)
CyclicStops ==
  /\ active /\ cur \in cyclic \cap ending
  /\ count + 1 >= desc_num[cur]
  /\ count' = desc_num[cur]
  /\ active' = FALSE
  /\ busy' = FALSE
  /\ events' = events \cup HwReport
  /\ moved' = moved \cup {cur}
  /\ UNCHANGED <<run, cur, wb>>

(* RUN was cleared while it executed: it halts after a descriptor and an    *)
(* event tells, which raises an interrupt where it is enabled.              *)
HwHalt ==
  /\ active
  /\ ~run
  /\ active' = FALSE
  /\ busy' = FALSE
  /\ events' = IF idle_enabled THEN events \cup {"IDLE_STOPPED"} ELSE events
  /\ UNCHANGED <<run, cur, count, wb, moved>>

Hardware ==
  /\ (cur \notin cyclic /\ HardwareMoves) \/ CyclicDescriptor \/ CyclicStops \/ HwHalt
  /\ UNCHANGED <<xferVars, engineVars, callerVars, irqVars, workVars, perfVars>>

-----------------------------------------------------------------------------
(* Mutant: the mask of a test lacks IDLE_STOPPED. *)
StartModeConfigNoIdle ==
  IF ~running /\ running' /\ xdma_perf
  THEN enable_mask' = TRUE /\ UNCHANGED idle_enabled
  ELSE UNCHANGED <<enable_mask, idle_enabled>>

(* engine_start_mode_config(), when the engine is started by this step. *)
StartModeConfig ==
  IF ~running /\ running' /\ xdma_perf
  THEN enable_mask' = TRUE /\ idle_enabled' = TRUE
  ELSE UNCHANGED <<enable_mask, idle_enabled>>

PerfSubmit(c) ==
  /\ Submit(c)
  /\ StartModeConfig
  /\ UNCHANGED <<msix_enabled, channel_enabled, saved_mask, workVars,
                 careful, xdma_perf, cyclic, ending, tester, test, taken, perf_step>>

(* The workqueue clears the pending bit before it calls the work: from then *)
(* on a handler schedules it again.                                         *)
WorkTaken ==
  /\ work_pending
  /\ ~taken /\ work_pc = "idle"
  /\ taken' = TRUE
  /\ work_pending' = FALSE
  /\ UNCHANGED <<xferVars, engineVars, hwVars, callerVars, irqVars, work_pc,
                 careful, xdma_perf, cyclic, ending, tester, test, idle_enabled, perf_step>>

(* engine_service_work() takes the lock and reads the status. *)
PerfWorkBegin ==
  /\ taken
  /\ ~locked
  /\ taken' = FALSE
  /\ locked' = TRUE
  /\ work_pc' = "service"
  /\ StatusReadClear
  /\ UNCHANGED <<xferVars, transfer_list, running, desc_dequeued, serviced, bug, run, active, busy,
                 cur, count, wb, moved, callerVars, irqVars, work_pending,
                 careful, xdma_perf, cyclic, ending, tester, test, idle_enabled, perf_step>>

(* engine_service_perf() finds the results of a test. *)
WorkPerf ==
  /\ work_pc = "inspect"
  /\ perf_step = "none"
  /\ perf_step' = IF transfer_list # << >> /\ xdma_perf THEN "held" ELSE "done"
  /\ UNCHANGED <<vars, careful, xdma_perf, cyclic, ending, tester, test, idle_enabled, taken>>

(* It writes to them, and engine_service() goes on. *)
PerfWorkMark ==
  /\ WorkMark
  /\ perf_step # "none"
  /\ perf_step' = "none"
  /\ UNCHANGED <<careful, xdma_perf, cyclic, ending, tester, test, idle_enabled, taken>>

PerfWorkResume ==
  /\ work_pc = "resume"
  /\ work_pc' = "reenable"
  /\ Wake({serviced})
  /\ EngineServiceResume
  /\ StartModeConfig
  /\ UNCHANGED <<xferVars, transfer_list, status, locked, bug, events, wb, moved, mine, chunks,
                 rc, result, msix_enabled, channel_enabled, saved_mask, work_pending,
                 careful, xdma_perf, cyclic, ending, tester, test, taken, perf_step>>

-----------------------------------------------------------------------------
(* Programs of an MSI-X device may have to keep tests and requests apart.   *)
Apart == msix_enabled /\ ~MsixOverlap

NoTest == tester = "idle" /\ ~xdma_perf /\ Queued \cap cyclic = {}

(* Nothing is queued, requested or tested on the engine. *)
AtRest == NoTest /\ transfer_list = << >> /\ \A c \in Caller : pc[c] = "idle"

(* ioctl_do_perf_start(): a test that runs is -EBUSY. *)
PerfStart ==
  /\ Apart => AtRest
  /\ tester = "idle"
  /\ ~xdma_perf
  /\ xdma_perf' = TRUE
  /\ \E x \in Xfer :
       /\ xstate[x] = "FREE"
       /\ xstate' = [xstate EXCEPT ![x] = "NEW"]
       /\ desc_num' = [desc_num EXCEPT ![x] = MaxDesc]
       /\ cyclic' = cyclic \cup {x}
       /\ moved' = moved \ {x}
       /\ test' = x
  /\ tester' = "submit"
  /\ UNCHANGED <<engineVars, run, active, busy, cur, count, events, wb, callerVars, irqVars,
                 workVars, careful, ending, idle_enabled, taken, perf_step>>

(* Another version than IOCTL_XDMA_PERF_V1 is refused, and the results stay *)
(* allocated.                                                               *)
PerfStartRefused ==
  /\ ~careful
  /\ Apart => AtRest
  /\ tester = "idle"
  /\ ~xdma_perf
  /\ xdma_perf' = TRUE
  /\ UNCHANGED <<vars, careful, cyclic, ending, tester, test, idle_enabled, taken, perf_step>>

(* xdma_performance_submit() *)
PerfQueue ==
  /\ tester = "submit"
  /\ TransferQueue(test)
  /\ StartModeConfig
  /\ tester' = "idle"
  /\ test' = NoXfer
  /\ UNCHANGED <<callerVars, msix_enabled, channel_enabled, saved_mask, workVars,
                 careful, xdma_perf, cyclic, ending, taken, perf_step>>

TestExecutes == active /\ run /\ cur \in cyclic

(* ioctl_do_perf_stop(): engine_cyclic_stop() picks the first transfer. *)
PerfStop ==
  /\ tester = "idle"
  /\ xdma_perf
  /\ careful => TestExecutes
  /\ test' = IF transfer_list = << >> THEN NoXfer ELSE Head(transfer_list)
  /\ tester' = "stop"
  /\ UNCHANGED <<vars, careful, xdma_perf, cyclic, ending, idle_enabled, taken, perf_step>>

(* Mutant: the stop takes the cyclic transfer off the queue itself. *)
PerfStopRunDequeues ==
  /\ tester = "stop"
  /\ run' = (run /\ test = NoXfer)
  /\ transfer_list' = IF transfer_list # << >> /\ Head(transfer_list) \in cyclic
                      THEN Tail(transfer_list) ELSE transfer_list
  /\ tester' = "free"
  /\ UNCHANGED <<xferVars, running, desc_dequeued, status, locked, serviced, bug, active, busy, cur,
                 count, events, wb, moved, callerVars, irqVars, workVars, careful, xdma_perf,
                 cyclic, ending, test, idle_enabled, taken, perf_step>>

(* It clears RUN, whichever transfer the channel then executes, and the     *)
(* last descriptor of the picked one is told to stop if it is cyclic.       *)
PerfStopRun ==
  /\ tester = "stop"
  /\ run' = (run /\ test = NoXfer)
  /\ ending' = ending \cup ({test} \cap cyclic)
  /\ tester' = "free"
  /\ UNCHANGED <<xferVars, engineVars, active, busy, cur, count, events, wb, moved, callerVars,
                 irqVars, workVars, careful, xdma_perf, cyclic, test, idle_enabled, taken,
                 perf_step>>

(* The results are copied to the program and freed. *)
PerfStopFree ==
  /\ tester = "free"
  /\ xdma_perf' = FALSE
  /\ tester' = "idle"
  /\ test' = NoXfer
  /\ UNCHANGED <<vars, careful, cyclic, ending, idle_enabled, taken, perf_step>>

(* copy_to_user() fails: the results stay allocated. *)
PerfStopCopyFails ==
  /\ ~careful
  /\ tester = "free"
  /\ tester' = "idle"
  /\ test' = NoXfer
  /\ UNCHANGED <<vars, careful, xdma_perf, cyclic, ending, idle_enabled, taken, perf_step>>

-----------------------------------------------------------------------------
CallerMakes(c) ==
  \/ (Apart => NoTest) /\ CallerRequest(c)
  \/ CallerCreate(c) \/ CallerCreateFails(c) \/ Signal(c)

CallerRuns(c) == WaitEvent(c) \/ CallerEnds(c) \/ CallerRereads(c)

WorkRuns ==
  \/ WorkTaken \/ PerfWorkBegin \/ WorkPerf \/ PerfWorkMark \/ PerfWorkResume
  \/ (WorkShutdown \/ WorkUnlink \/ WorkReenable) /\ UNCHANGED perfVars

PerfNext ==
  /\ Defined
  /\ \/ \E c \in Caller : \/ (CallerMakes(c) \/ CallerRuns(c)) /\ UNCHANGED perfVars
                          \/ PerfSubmit(c)
     \/ Hardware
     \/ Handler /\ UNCHANGED perfVars
     \/ WorkRuns
     \/ PerfStart \/ PerfStartRefused \/ PerfQueue
     \/ PerfStop \/ PerfStopRun \/ PerfStopFree \/ PerfStopCopyFails

PerfSpec == PerfInit /\ [][PerfNext]_allVars

(* As in XdmaInterrupt, with one strongly fair condition for the steps of a *)
(* thread, which is at one step at a time.  A system call that began goes   *)
(* on, and a careful program ends its test.                                 *)
PerfFairness ==
  /\ WF_allVars(Defined /\ Hardware)
  /\ WF_allVars(Defined /\ Handler /\ UNCHANGED perfVars)
  /\ WF_allVars(Defined /\ WorkRuns)
  /\ SF_allVars(Defined /\ (\/ PerfQueue \/ PerfStopRun \/ PerfStopFree \/ PerfStopCopyFails
                            \/ careful /\ PerfStop))
  /\ \A c \in Caller :
       SF_allVars(Defined /\ (\/ CallerRuns(c) /\ UNCHANGED perfVars
                              \/ PerfSubmit(c)))

FairPerfSpec == PerfSpec /\ PerfFairness

-----------------------------------------------------------------------------
(* Tests next to requests: no unlocked PERF_STOP and no test that could not *)
(* start makes engine_service() reach its BUG_ON(!transfer), and the        *)
(* channel never executes a transfer that was taken off the queue.          *)
QueueSurvivesTests == NoBug /\ ChannelRunsHead

(* A PERF_STOP may halt a transfer of read() or write() half-way: its       *)
(* caller is never told that it was completed.                              *)
HalfDoneFails == CompletedWasMoved

(* A program that ends its tests while they execute holds nobody up: every  *)
(* request queued behind a test returns.                                    *)
CarefulRequestReturns ==
  \A c \in Caller :
    careful /\ pc[c] = "queue" ~> FreedInUse \/ PerfFreedInUse \/ pc[c] \in {"create", "idle"}
=============================================================================
