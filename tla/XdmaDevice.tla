----------------------------- MODULE XdmaDevice -----------------------------
(***************************************************************************)
(* The life of the driver and its devices: xdma_init() and xdma_exit(),    *)
(* probe() with every way it can fail and what its labels then undo,       *)
(* remove(), and what goes on meanwhile: programs that open device files   *)
(* and interrupt handlers on other processors.                             *)
(*                                                                         *)
(* What a device holds is a set of resources, each named for the step of   *)
(* probe() that takes it.  The engines are h2c0, h2c1 and c2h0.  The PCI   *)
(* core probes and removes one device at a time.                           *)
(***************************************************************************)
EXTENDS Integers, Sequences, SequencesExt

CONSTANTS
  Device,
  Capability,    \* device -> "msix", "msi" or "legacy"
  MaxDevices,    \* MAX_XDMA_DEVICES
  OpenAtUnplug   \* files may be open, or opened, when a device is unplugged (tests/hwrst.sh)

ASSUME DeviceConstants ==
  /\ Capability \in [Device -> {"msix", "msi", "legacy"}]
  /\ MaxDevices \in Nat \ {0}
  /\ OpenAtUnplug \in BOOLEAN

Bars    == {"bar0", "bar1"}
Engines == {"h2c0", "h2c1", "c2h0"}
Files   == {"ctrl", "events", "sgdma"}

(* probe() in order; "intr" is MSI or MSI-X, "irq" the handlers.            *)
Steps == <<"lro", "enabled", "intr", "regions", "bar0", "bar1", "mask", "irq",
           "h2c0", "h2c1", "c2h0", "ctrl", "events", "sgdma", "attr">>

(* The labels at the end of probe(), which fall through.                    *)
Labels == <<"engines", "irq", "bars", "regions", "intr", "enabled", "lro">>

(* What remove() undoes, in order.                                          *)
RemoveOrderForgets == <<"files", "engines", "irq", "bars", "intr", "enabled", "attr", "lro">>
RemoveOrder == <<"files", "engines", "irq", "bars", "regions", "intr", "enabled", "attr", "lro">>

VARIABLES
  module,       \* the module: "out", "registering", "live" or "exiting"
  stage,        \* device -> "absent", "probe", "unwind", "bound" or "remove"
  step,         \* device -> the next of Steps, Labels or RemoveOrder
  holds,        \* device -> the resources it holds
  engine,       \* device -> lro->engine[][], never cleared: engines created
  granted,      \* device -> pci_enable_msix() granted all vectors
  dev_present,  \* instance numbers taken
  instance,     \* device -> lro->instance, 0 without
  files,        \* device -> open files
  handler       \* device -> the interrupt handler that runs, or "none"

VARIABLES
  failed,       \* history: device -> the step at which its last probe() failed, or "none"
  cleared,      \* history: xdma_init() cleared dev_present under a bound device
  bug           \* history: something was released that was not held

deviceVars == <<stage, step, holds, engine, granted, instance, failed, bug>>
vars == <<module, deviceVars, dev_present, files, handler, cleared>>

Init ==
  /\ module = "out"
  /\ stage = [d \in Device |-> "absent"] /\ step = [d \in Device |-> 1]
  /\ holds = [d \in Device |-> {}] /\ engine = [d \in Device |-> {}]
  /\ granted = [d \in Device |-> TRUE]
  /\ dev_present = {} /\ instance = [d \in Device |-> 0]
  /\ files = [d \in Device |-> {}] /\ handler = [d \in Device |-> "none"]
  /\ failed = [d \in Device |-> "none"] /\ cleared = FALSE /\ bug = FALSE

-----------------------------------------------------------------------------
Quiet == \A d \in Device : stage[d] \in {"absent", "bound"}

XdmaInit ==
  /\ module = "out"
  /\ module' = "registering"
  /\ UNCHANGED <<deviceVars, dev_present, files, handler, cleared>>

(* After pci_register_driver(), which probed the devices that are present.  *)
InitClears ==
  /\ module = "registering"
  /\ Quiet
  /\ module' = "live"
  /\ dev_present' = {}
  /\ cleared' = (cleared \/ \E d \in Device : instance[d] # 0)
  /\ UNCHANGED <<deviceVars, files, handler>>

(* Mutant: the files do not hold the module. *)
MayExitAlways == Quiet
MayExit == Quiet /\ \A d \in Device : files[d] = {}

(* rmmod: the owner of the open files keeps the module.                     *)
XdmaExit ==
  /\ module = "live"
  /\ MayExit
  /\ module' = "exiting"
  /\ UNCHANGED <<deviceVars, dev_present, files, handler, cleared>>

ExitDone ==
  /\ module = "exiting"
  /\ \A d \in Device : stage[d] = "absent"
  /\ module' = "out"
  /\ dev_present' = {}
  /\ cleared' = FALSE
  /\ UNCHANGED <<deviceVars, files, handler>>

-----------------------------------------------------------------------------
(* The PCI core finds the device.  (Bound: not while a file or a handler of *)
(* an earlier life goes on; what an earlier probe() leaked is forgotten.)   *)
Probe(d) ==
  /\ module \in {"registering", "live"}
  /\ Quiet
  /\ stage[d] = "absent" /\ files[d] = {} /\ handler[d] = "none"
  /\ stage' = [stage EXCEPT ![d] = "probe"]
  /\ step' = [step EXCEPT ![d] = 1]
  /\ failed' = [failed EXCEPT ![d] = "none"]
  /\ engine' = [engine EXCEPT ![d] = {}]
  /\ holds' = [holds EXCEPT ![d] = {}]
  /\ UNCHANGED <<module, granted, dev_present, instance, files, handler, cleared, bug>>

Step(d) == Steps[step[d]]

FreeInstances == 1..MaxDevices \ dev_present

(* Mutant: the instance found is not marked. *)
MarkedForgets(n) == dev_present
Marked(n) == dev_present \cup {n}

Advance(d) ==
  IF step[d] = Len(Steps)
  THEN stage' = [stage EXCEPT ![d] = "bound"] /\ step' = [step EXCEPT ![d] = 1]
  ELSE step' = [step EXCEPT ![d] = @ + 1] /\ UNCHANGED stage

(* create_sg_char() for the first file of a device.                         *)
TakesInstance(d) ==
  \E n \in FreeInstances :
    /\ \A m \in FreeInstances : n <= m
    /\ instance' = [instance EXCEPT ![d] = n]
    /\ dev_present' = Marked(n)

(* A step of probe() succeeds.  pci_enable_msix() may grant fewer vectors,  *)
(* which is taken for success; the legacy interrupt is not enabled at all.  *)
(* The first file takes an instance number.  The mask is no resource.       *)
ProbeStep(d) ==
  /\ stage[d] = "probe"
  /\ Step(d) = "irq" => granted[d]
  /\ IF Step(d) = "intr" /\ Capability[d] = "msix"
     THEN \E all \in BOOLEAN : granted' = [granted EXCEPT ![d] = all]
     ELSE UNCHANGED granted
  /\ holds' = [holds EXCEPT ![d] =
                 @ \cup CASE Step(d) = "mask" -> {}
                          [] Step(d) = "intr" ->
                               IF Capability[d] # "legacy" /\ granted'[d] THEN {"intr"} ELSE {}
                          [] OTHER -> {Step(d)}]
  /\ engine' = [engine EXCEPT ![d] = IF Step(d) \in Engines THEN @ \cup {Step(d)} ELSE @]
  /\ IF Step(d) = "ctrl"
     THEN TakesInstance(d)
     ELSE UNCHANGED <<instance, dev_present>>
  /\ Advance(d)
  /\ UNCHANGED <<module, files, handler, failed, cleared, bug>>

(* Where a failed step goes on: the label of its goto.  The loop over the   *)
(* H2C engines removes them first, the one over the C2H engines just leaves.*)
LabelOneEarly(s) ==
  CASE s = "enabled" -> "lro"          [] s = "intr" -> "enabled"
    [] s = "regions" -> "intr"         [] s \in Bars -> "regions"
    [] s \in {"mask", "irq"} -> "bars" [] s \in {"h2c0", "h2c1", "c2h0"} -> "engines"
    [] OTHER -> "engines"
Label(s) ==
  CASE s = "enabled" -> "lro"          [] s = "intr" -> "enabled"
    [] s = "regions" -> "intr"         [] s \in Bars -> "regions"
    [] s \in {"mask", "irq"} -> "bars" [] s \in {"h2c0", "h2c1", "c2h0"} -> "irq"
    [] OTHER -> "engines"

(* unmap_bars() skips what is not mapped.                                   *)
BarsMapped(d) == holds[d] \cap Bars

(* What a failed step undoes itself: map_bars(), probe_engines(),           *)
(* create_interfaces().                                                     *)
OwnUnwind(d) ==
  CASE Step(d) \in Bars -> BarsMapped(d)
    [] Step(d) \in {"h2c0", "h2c1"} -> engine[d]
    [] Step(d) \in {"ctrl", "sgdma"} -> holds[d] \cap Files
    [] OTHER -> {}

(* free_irq() waits for the handlers of the engines.                        *)
(* Mutant: it does not. *)
EnginesMayGoAlways(d) == TRUE
EnginesMayGo(d) == handler[d] \notin Engines

(* A step fails.  The failure to allocate lro is reported as success, the   *)
(* failure to create an events file is not noticed; the first file may have *)
(* taken an instance number before it failed, which nobody gives back.      *)
ProbeFails(d) ==
  /\ stage[d] = "probe"
  /\ Step(d) # "events"
  /\ OwnUnwind(d) \cap Engines # {} => EnginesMayGo(d)
  /\ failed' = [failed EXCEPT ![d] = Step(d)]
  /\ IF Step(d) = "lro"
     THEN stage' = [stage EXCEPT ![d] = "bound"] /\ step' = [step EXCEPT ![d] = 1]
     ELSE /\ stage' = [stage EXCEPT ![d] = "unwind"]
          /\ step' = [step EXCEPT ![d] = CHOOSE k \in DOMAIN Labels : Labels[k] = Label(Step(d))]
  /\ holds' = [holds EXCEPT ![d] = @ \ OwnUnwind(d)]
  /\ bug' = (bug \/ ~(OwnUnwind(d) \subseteq holds[d]))
  /\ \/ UNCHANGED <<instance, dev_present>>
     \/ Step(d) = "ctrl" /\ TakesInstance(d)
  /\ UNCHANGED <<module, engine, granted, files, handler, cleared>>

EventsFails(d) ==
  /\ stage[d] = "probe"
  /\ Step(d) = "events"
  /\ Advance(d)
  /\ UNCHANGED <<module, holds, engine, granted, dev_present, instance, files, handler,
                 failed, cleared, bug>>

-----------------------------------------------------------------------------
(* What is released at a label of probe() or a step of remove().  The       *)
(* labels disable MSI only, and a device whose regions are in use stays     *)
(* enabled.                                                                 *)
Released(d, label) ==
  CASE label = "engines" -> engine[d]
    [] label = "bars" -> BarsMapped(d)
    [] label = "files" -> holds[d] \cap Files
    [] label = "intr" ->
         IF Capability[d] = "msi" \/ (Capability[d] = "msix" /\ stage[d] = "remove")
         THEN {"intr"} ELSE {}
    [] label \in {"regions", "attr"} -> holds[d] \cap {label}
    [] label = "enabled" -> IF failed[d] = "regions" THEN {} ELSE {"enabled"}
    [] OTHER -> {label}

(* free_irq() waits for the handlers.                                       *)
MayRelease(d, label) ==
  CASE label = "engines" -> Capability[d] = "msix" => EnginesMayGo(d)
    [] label = "irq" -> handler[d] \notin {"user", "line"}
    [] OTHER -> TRUE

Release(d, order) ==
  LET label == order[step[d]]
      last == step[d] = Len(order)
  IN /\ MayRelease(d, label)
     /\ holds' = [holds EXCEPT ![d] = @ \ Released(d, label)]
     /\ bug' = (bug \/ ~(Released(d, label) \subseteq holds[d]))
     /\ stage' = [stage EXCEPT ![d] = IF last THEN "absent" ELSE @]
     /\ step' = [step EXCEPT ![d] = IF last THEN 1 ELSE @ + 1]
     /\ instance' = [instance EXCEPT ![d] = IF last THEN 0 ELSE @]

Unwind(d) ==
  /\ stage[d] = "unwind"
  /\ Release(d, Labels)
  /\ UNCHANGED <<module, engine, granted, dev_present, files, handler, failed, cleared>>

(* A device without lro is only forgotten.                                  *)
RemoveStarts(d) ==
  /\ stage[d] = "bound"
  /\ Quiet
  /\ \/ module = "exiting"
     \/ module = "live" /\ (files[d] # {} => OpenAtUnplug)
  /\ stage' = [stage EXCEPT ![d] = IF "lro" \in holds[d] THEN "remove" ELSE "absent"]
  /\ UNCHANGED <<module, step, holds, engine, granted, dev_present, instance, files, handler,
                 failed, cleared, bug>>

RemoveStep(d) ==
  /\ stage[d] = "remove"
  /\ Release(d, RemoveOrder)
  /\ dev_present' = IF step[d] = Len(RemoveOrder) THEN dev_present \ {instance[d]} ELSE dev_present
  /\ UNCHANGED <<module, engine, granted, files, handler, failed, cleared>>

-----------------------------------------------------------------------------
(* Programs: a device file can be opened as soon as it exists.              *)
OpenFile(d, f) ==
  /\ f \in holds[d] \ files[d]
  /\ module # "exiting"
  /\ stage[d] = "remove" => OpenAtUnplug
  /\ files' = [files EXCEPT ![d] = @ \cup {f}]
  /\ UNCHANGED <<module, deviceVars, dev_present, handler, cleared>>

CloseFile(d, f) ==
  /\ f \in files[d]
  /\ files' = [files EXCEPT ![d] = @ \ {f}]
  /\ UNCHANGED <<module, deviceVars, dev_present, handler, cleared>>

(* The vectors with a handler: with MSI-X one for user interrupts and one   *)
(* for each engine, otherwise a line.                                       *)
Vectors(d) ==
  IF Capability[d] = "msix"
  THEN (holds[d] \cap Engines) \cup (IF "irq" \in holds[d] THEN {"user"} ELSE {})
  ELSE IF "irq" \in holds[d] THEN {"line"} ELSE {}

HandlerStarts(d) ==
  /\ handler[d] = "none"
  /\ \E v \in Vectors(d) : handler' = [handler EXCEPT ![d] = v]
  /\ UNCHANGED <<module, deviceVars, dev_present, files, cleared>>

HandlerEnds(d) ==
  /\ handler[d] # "none"
  /\ handler' = [handler EXCEPT ![d] = "none"]
  /\ UNCHANGED <<module, deviceVars, dev_present, files, cleared>>

Next ==
  \/ XdmaInit \/ InitClears \/ XdmaExit \/ ExitDone
  \/ \E d \in Device :
       \/ Probe(d) \/ ProbeStep(d) \/ ProbeFails(d) \/ EventsFails(d)
       \/ Unwind(d)
       \/ RemoveStarts(d) \/ RemoveStep(d)
       \/ HandlerStarts(d) \/ HandlerEnds(d)
       \/ \E f \in Files : OpenFile(d, f) \/ CloseFile(d, f)

Spec == Init /\ [][Next]_vars

-----------------------------------------------------------------------------
TypeOK ==
  /\ module \in {"out", "registering", "live", "exiting"}
  /\ stage \in [Device -> {"absent", "probe", "unwind", "bound", "remove"}]
  /\ step \in [Device -> 1..Len(Steps)]
  /\ \A d \in Device :
       /\ holds[d] \subseteq ToSet(Steps)
       /\ engine[d] \subseteq Engines
       /\ files[d] \subseteq Files
       /\ handler[d] \in Engines \cup {"user", "line", "none"}
       /\ failed[d] \in ToSet(Steps) \cup {"none"}
  /\ granted \in [Device -> BOOLEAN]
  /\ dev_present \subseteq 1..MaxDevices
  /\ instance \in [Device -> 0..MaxDevices]
  /\ cleared \in BOOLEAN /\ bug \in BOOLEAN

(* Whatever step of probe() fails, and in remove(), nothing is released     *)
(* that was not taken or was released before: the functions that unwind     *)
(* themselves and the label they go to never overlap.                       *)
NothingReleasedTwice == ~bug

(* A device that probe() gave up on, or that was removed, holds nothing.    *)
(* The code has four exceptions: MSI-X is not disabled by the labels, C2H   *)
(* engines and the files of a device without attribute are not removed, and *)
(* a device whose regions are in use stays enabled on purpose.              *)
AbsentHoldsNothing ==
  \A d \in Device : stage[d] = "absent" =>
    \/ holds[d] = {}
    \/ failed[d] = "regions" /\ holds[d] \subseteq {"enabled", "intr"}
    \/ failed[d] \in {"c2h0", "attr"}
    \/ failed[d] # "none" /\ Capability[d] = "msix" /\ holds[d] = {"intr"}

(* An open file finds its device and its engines, from the step of probe()  *)
(* that made it to its close: meanwhile the module cannot go.  (Not when a  *)
(* later step of probe() fails, which takes even an open file away, nor     *)
(* when the device is unplugged under it.)                                  *)
FileFindsDevice ==
  \A d \in Device : files[d] # {} /\ failed[d] = "none" =>
    stage[d] # "absent" /\ {"lro"} \cup Bars \cup Engines \cup files[d] \subseteq holds[d]

(* With MSI-X a handler never finds its engine or device gone, because each *)
(* vector is freed before what its handler uses.  (Not after the creation   *)
(* of a C2H engine failed, which leaves the H2C engines and their vectors.) *)
HandlerFindsMemory ==
  \A d \in Device : Capability[d] = "msix" /\ handler[d] # "none" /\ failed[d] # "c2h0" =>
    IF handler[d] = "user" THEN "lro" \in holds[d]
    ELSE {"lro", handler[d]} \cup Bars \subseteq holds[d]

(* No two devices have the same instance number, which names their files,   *)
(* unless xdma_init() cleared the table under one of them.                  *)
InstancesDistinct ==
  ~cleared => \A d, e \in Device : d # e /\ instance[d] # 0 => instance[d] # instance[e]
=============================================================================
