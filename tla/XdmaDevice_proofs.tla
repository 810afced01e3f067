-------------------------- MODULE XdmaDevice_proofs --------------------------
(***************************************************************************)
(* Proofs about XdmaDevice, for any number of devices of every capability: *)
(* what probe() holds at each step, label and step of remove().            *)
(***************************************************************************)
EXTENDS XdmaDevice, TLAPS

Resource == {"lro", "enabled", "intr", "regions", "bar0", "bar1", "irq", "h2c0", "h2c1", "c2h0",
             "ctrl", "events", "sgdma", "attr"}
StepName == Resource \cup {"mask"}
Stage == {"absent", "probe", "unwind", "bound", "remove"}

DeviceTypes ==
  /\ stage \in [Device -> Stage] /\ step \in [Device -> Nat]
  /\ holds \in [Device -> SUBSET Resource] /\ engine \in [Device -> SUBSET Engines]
  /\ granted \in [Device -> BOOLEAN] /\ instance \in [Device -> Nat]
  /\ files \in [Device -> SUBSET Files] /\ failed \in [Device -> StepName \cup {"none"}]
  /\ handler \in [Device -> Engines \cup {"user", "line", "none"}]

(* What probe() holds when step k is the next one.                          *)
Took(d, k) ==
  /\ "lro" \in holds[d] <=> k > 1
  /\ "enabled" \in holds[d] <=> k > 2
  /\ "intr" \in holds[d] <=> k > 3 /\ Capability[d] # "legacy" /\ granted[d]
  /\ "regions" \in holds[d] <=> k > 4
  /\ "bar0" \in holds[d] <=> k > 5
  /\ "bar1" \in holds[d] <=> k > 6
  /\ "irq" \in holds[d] <=> k > 8
  /\ "h2c0" \in holds[d] <=> k > 9
  /\ "h2c1" \in holds[d] <=> k > 10
  /\ "c2h0" \in holds[d] <=> k > 11
  /\ "ctrl" \in holds[d] <=> k > 12
  /\ "events" \in holds[d] => k > 13
  /\ "sgdma" \in holds[d] <=> k > 14
  /\ "attr" \in holds[d] <=> k > 15
  /\ engine[d] = holds[d] \cap Engines
  /\ k > 8 => granted[d]

ProbeHolds(d) ==
  stage[d] = "probe" => step[d] \in 1..15 /\ failed[d] = "none" /\ Took(d, step[d])

BoundHolds(d) ==
  stage[d] = "bound" => /\ step[d] = 1
                        /\ \/ failed[d] = "lro" /\ holds[d] = {}
                           \/ failed[d] = "none" /\ Took(d, 16)

(* What is left when label j of probe() is the next one, after a step that  *)
(* leads to this label or an earlier one.                                   *)
UnwindHolds(d) ==
  stage[d] = "unwind" =>
    /\ step[d] \in 1..7
    /\ failed[d] \in StepName \ {"lro", "events"}
    /\ failed[d] = "enabled" => step[d] = 7
    /\ failed[d] = "intr" => step[d] >= 6
    /\ failed[d] = "regions" => step[d] >= 5
    /\ failed[d] \in Bars => step[d] >= 4
    /\ failed[d] \in {"mask", "irq"} => step[d] >= 3
    /\ failed[d] \in Engines => step[d] >= 2
    /\ "lro" \in holds[d]
    /\ "enabled" \in holds[d] <=> step[d] <= 6 \/ failed[d] = "regions"
    /\ "intr" \in holds[d] <=> /\ Capability[d] # "legacy" /\ granted[d]
                               /\ failed[d] \notin {"enabled", "intr"}
                               /\ step[d] <= 5 \/ Capability[d] = "msix"
    /\ "regions" \in holds[d] <=> step[d] <= 4
    /\ \A b \in Bars : b \in holds[d] <=> step[d] <= 3
    /\ "irq" \in holds[d] <=> step[d] <= 2
    /\ \A e \in Engines : e \in holds[d] <=> step[d] <= 1 \/ (failed[d] = "c2h0" /\ e # "c2h0")
    /\ \A f \in Files : f \in holds[d] => failed[d] = "attr"
    /\ "attr" \notin holds[d]

RemoveHolds(d) ==
  stage[d] = "remove" =>
    /\ step[d] \in 1..9 /\ failed[d] = "none"
    /\ \A f \in Files : f \in holds[d] => step[d] <= 1
    /\ \A e \in Engines : e \in holds[d] <=> step[d] <= 2
    /\ engine[d] = Engines
    /\ "irq" \in holds[d] <=> step[d] <= 3
    /\ \A b \in Bars : b \in holds[d] <=> step[d] <= 4
    /\ "regions" \in holds[d] <=> step[d] <= 5
    /\ "intr" \in holds[d] <=> Capability[d] # "legacy" /\ step[d] <= 6
    /\ "enabled" \in holds[d] <=> step[d] <= 7
    /\ "attr" \in holds[d] <=> step[d] <= 8
    /\ "lro" \in holds[d]

AbsentHolds(d) ==
  stage[d] = "absent" =>
    /\ \/ holds[d] = {}
       \/ failed[d] = "regions" /\ holds[d] \subseteq {"enabled", "intr"}
       \/ failed[d] \in {"c2h0", "attr"}
       \/ failed[d] # "none" /\ Capability[d] = "msix" /\ holds[d] = {"intr"}
    /\ "irq" \notin holds[d]
    /\ \A e \in Engines : e \in holds[d] => failed[d] = "c2h0"

Holds(d) ==
  /\ ProbeHolds(d) /\ BoundHolds(d) /\ UnwindHolds(d) /\ RemoveHolds(d) /\ AbsentHolds(d)
  /\ Capability[d] # "msix" => granted[d]
  /\ stage[d] = "unwind" /\ step[d] = 1 => engine[d] = Engines

HoldsInv == /\ \A d \in Device : Holds(d)
            /\ ~bug

(* Open files are among what the device holds, and the module does not go   *)
(* under them.                                                              *)
FileInv ==
  /\ \A d \in Device : failed[d] = "none" =>
       /\ files[d] \subseteq holds[d]
       /\ stage[d] \in {"absent", "remove"} => files[d] = {}
  /\ module = "exiting" => \A d \in Device : files[d] = {}

(* The vector of a running handler is not freed.                            *)
HandlerInv ==
  \A d \in Device : Capability[d] = "msix" /\ handler[d] # "none" =>
    \/ handler[d] \in Engines \cap holds[d]
    \/ handler[d] = "user" /\ "irq" \in holds[d]

(* An instance number belongs to a device that is there, and is taken.      *)
InstanceInv ==
  /\ \A d \in Device :
       \/ stage[d] = "absent"
       \/ stage[d] = "probe" /\ step[d] <= 12
       \/ stage[d] = "bound" /\ failed[d] = "lro"
       => instance[d] = 0
  /\ ~cleared => \A d \in Device : instance[d] # 0 => instance[d] \in dev_present
  /\ InstancesDistinct

-----------------------------------------------------------------------------
(* The places of the steps and labels.                                      *)
LEMMA StepPlaces ==
  ASSUME NEW k \in 1..15
  PROVE  /\ Steps[k] \in StepName
         /\ Steps[k] = "lro" <=> k = 1
         /\ Steps[k] = "enabled" <=> k = 2
         /\ Steps[k] = "intr" <=> k = 3
         /\ Steps[k] = "regions" <=> k = 4
         /\ Steps[k] = "bar0" <=> k = 5
         /\ Steps[k] = "bar1" <=> k = 6
         /\ Steps[k] = "mask" <=> k = 7
         /\ Steps[k] = "irq" <=> k = 8
         /\ Steps[k] = "h2c0" <=> k = 9
         /\ Steps[k] = "h2c1" <=> k = 10
         /\ Steps[k] = "c2h0" <=> k = 11
         /\ Steps[k] = "ctrl" <=> k = 12
         /\ Steps[k] = "events" <=> k = 13
         /\ Steps[k] = "sgdma" <=> k = 14
         /\ Steps[k] = "attr" <=> k = 15
         /\ Len(Steps) = 15
<1>1. \/ k = 1 \/ k = 2 \/ k = 3 \/ k = 4 \/ k = 5 \/ k = 6 \/ k = 7 \/ k = 8 \/ k = 9 \/ k = 10
      \/ k = 11 \/ k = 12 \/ k = 13 \/ k = 14 \/ k = 15
  OBVIOUS
<1> QED
  BY <1>1 DEF Steps, StepName, Resource

LEMMA LabelPlaces ==
  /\ Len(Labels) = 7
  /\ Labels[1] = "engines" /\ Labels[2] = "irq" /\ Labels[3] = "bars" /\ Labels[4] = "regions"
  /\ Labels[5] = "intr" /\ Labels[6] = "enabled" /\ Labels[7] = "lro"
BY DEF Labels

LEMMA RemovePlaces ==
  /\ Len(RemoveOrder) = 9
  /\ RemoveOrder[1] = "files" /\ RemoveOrder[2] = "engines" /\ RemoveOrder[3] = "irq"
  /\ RemoveOrder[4] = "bars" /\ RemoveOrder[5] = "regions" /\ RemoveOrder[6] = "intr"
  /\ RemoveOrder[7] = "enabled" /\ RemoveOrder[8] = "attr" /\ RemoveOrder[9] = "lro"
BY DEF RemoveOrder

(* A device that a step does not touch.                                     *)
LEMMA HoldsFrame ==
  ASSUME NEW e, Holds(e),
         stage'[e] = stage[e], step'[e] = step[e], holds'[e] = holds[e], engine'[e] = engine[e],
         granted'[e] = granted[e], failed'[e] = failed[e]
  PROVE  Holds(e)'
BY DEF Holds, ProbeHolds, BoundHolds, UnwindHolds, RemoveHolds, AbsentHolds, Took

-----------------------------------------------------------------------------
LEMMA DeviceTypesNext == ASSUME DeviceTypes, HoldsInv, Next PROVE DeviceTypes'
<1> USE DEF DeviceTypes, deviceVars
<1>1. ASSUME XdmaInit \/ InitClears \/ XdmaExit \/ ExitDone
      PROVE  DeviceTypes'
  BY <1>1 DEF XdmaInit, InitClears, XdmaExit, ExitDone
<1>2. ASSUME NEW d \in Device, Probe(d) \/ RemoveStarts(d)
      PROVE  DeviceTypes'
  BY <1>2 DEF Probe, RemoveStarts, Stage
<1>3. ASSUME NEW d \in Device, HandlerStarts(d) \/ HandlerEnds(d)
      PROVE  DeviceTypes'
  <2>1. PICK v \in Engines \cup {"user", "line", "none"} : handler' = [handler EXCEPT ![d] = v]
    BY <1>3 DEF HandlerStarts, HandlerEnds, Vectors
  <2> QED
    BY <1>3, <2>1 DEF HandlerStarts, HandlerEnds
<1>4. ASSUME NEW d \in Device, NEW f \in Files, OpenFile(d, f) \/ CloseFile(d, f)
      PROVE  DeviceTypes'
  BY <1>4 DEF OpenFile, CloseFile
<1>5. ASSUME NEW d \in Device, stage[d] = "probe"
      PROVE  step[d] \in 1..15 /\ Step(d) \in StepName /\ step[d] + 1 \in Nat /\ Len(Steps) = 15
  BY <1>5, StepPlaces DEF HoldsInv, Holds, ProbeHolds, Step
<1>a. ASSUME NEW d \in Device, stage[d] = "probe", Advance(d)
      PROVE  stage' \in [Device -> Stage] /\ step' \in [Device -> Nat]
  <2>1. CASE step[d] = Len(Steps)
    <3>1. stage' = [stage EXCEPT ![d] = "bound"] /\ step' = [step EXCEPT ![d] = 1]
      BY <1>a, <2>1 DEF Advance
    <3> QED
      BY <3>1 DEF Stage
  <2>2. CASE step[d] # Len(Steps)
    <3>1. step[d] + 1 \in Nat
      BY <1>5, <1>a
    <3>2. stage' = stage /\ step' = [step EXCEPT ![d] = step[d] + 1]
      BY <1>a, <2>2 DEF Advance
    <3> QED
      BY <3>1, <3>2
  <2> QED
    BY <2>1, <2>2
<1>6. ASSUME NEW d \in Device, ProbeStep(d)
      PROVE  DeviceTypes'
  <2>1. step[d] \in 1..15 /\ Step(d) \in StepName
    BY <1>5, <1>6 DEF ProbeStep
  <2>2. stage' \in [Device -> Stage] /\ step' \in [Device -> Nat]
    BY <1>6, <1>a DEF ProbeStep
  <2>3. holds' \in [Device -> SUBSET Resource]
    <3>1. PICK new \in SUBSET Resource : holds' = [holds EXCEPT ![d] = @ \cup new]
      BY <1>6, <2>1 DEF ProbeStep, StepName, Resource
    <3> QED
      BY <3>1
  <2>4. engine' \in [Device -> SUBSET Engines]
    BY <1>6 DEF ProbeStep
  <2>5. granted' \in [Device -> BOOLEAN]
    BY <1>6 DEF ProbeStep
  <2>6. instance' \in [Device -> Nat]
    BY <1>6, DeviceConstants DEF ProbeStep, TakesInstance, FreeInstances, DeviceConstants
  <2> QED
    BY <1>6, <2>2, <2>3, <2>4, <2>5, <2>6 DEF ProbeStep
<1>7. ASSUME NEW d \in Device, ProbeFails(d)
      PROVE  DeviceTypes'
  <2>1. Step(d) \in StepName
    BY <1>5, <1>7 DEF ProbeFails
  <2>2. step' \in [Device -> Nat]
    <3>1. Step(d) # "lro" => Label(Step(d)) \in {"engines", "irq", "bars", "regions", "intr", "enabled", "lro"}
      BY DEF Label
    <3>2. Step(d) # "lro" => \E k \in DOMAIN Labels : Labels[k] = Label(Step(d))
      BY <3>1, LabelPlaces DEF Labels
    <3>3. Step(d) # "lro" => (CHOOSE k \in DOMAIN Labels : Labels[k] = Label(Step(d))) \in Nat
      BY <3>2, LabelPlaces DEF Labels
    <3>4. PICK n \in Nat : step' = [step EXCEPT ![d] = n]
      <4>1. CASE Step(d) = "lro"
        BY <1>7, <4>1 DEF ProbeFails
      <4>2. CASE Step(d) # "lro"
        BY <1>7, <3>3, <4>2 DEF ProbeFails
      <4> QED
        BY <4>1, <4>2
    <3> QED
      BY <3>4
  <2>3. stage' \in [Device -> Stage] /\ holds' \in [Device -> SUBSET Resource]
        /\ failed' \in [Device -> StepName \cup {"none"}]
    BY <1>7, <2>1 DEF ProbeFails, Stage
  <2>4. instance' \in [Device -> Nat]
    BY <1>7, DeviceConstants DEF ProbeFails, TakesInstance, FreeInstances, DeviceConstants
  <2> QED
    BY <1>7, <2>2, <2>3, <2>4 DEF ProbeFails
<1>8. ASSUME NEW d \in Device, EventsFails(d)
      PROVE  DeviceTypes'
  <2>1. stage' \in [Device -> Stage] /\ step' \in [Device -> Nat]
    BY <1>8, <1>a DEF EventsFails
  <2> QED
    BY <1>8, <2>1 DEF EventsFails
<1>9. ASSUME NEW d \in Device, NEW order, Release(d, order),
             UNCHANGED <<engine, granted, files, handler, failed>>
      PROVE  DeviceTypes'
  BY <1>9 DEF Release, Stage
<1>10. ASSUME NEW d \in Device, Unwind(d) \/ RemoveStep(d)
       PROVE  DeviceTypes'
  BY <1>9, <1>10 DEF Unwind, RemoveStep
<1> QED
  BY <1>1, <1>2, <1>3, <1>4, <1>6, <1>7, <1>8, <1>10 DEF Next

(* A step of probe() adds its resource.                                     *)
LEMMA ProbeStepHolds ==
  ASSUME DeviceTypes, HoldsInv, NEW d \in Device, ProbeStep(d)
  PROVE  HoldsInv'
<1>0. PICK k \in 1..15 : k = step[d]
  BY DEF HoldsInv, Holds, ProbeHolds, ProbeStep
<1>1. /\ stage[d] = "probe" /\ failed[d] = "none" /\ Took(d, k)
      /\ Capability[d] # "msix" => granted[d]
      /\ step[d] = k /\ k \in 1..15
  BY <1>0 DEF HoldsInv, Holds, ProbeHolds, ProbeStep
<1>2. UNCHANGED <<failed, bug>>
  BY DEF ProbeStep
<1>3. IF k = 15 THEN stage' = [stage EXCEPT ![d] = "bound"] /\ step' = [step EXCEPT ![d] = 1]
      ELSE step' = [step EXCEPT ![d] = k + 1] /\ UNCHANGED stage
  BY <1>1, StepPlaces DEF ProbeStep, Advance
<1>4. /\ \A e \in Device : e # d \/ k # 3 => granted'[e] = granted[e]
      /\ Capability[d] # "msix" => granted'[d]
      /\ granted'[d] \in BOOLEAN
      /\ k = 8 => granted[d]
  <2>1. Step(d) = "intr" <=> k = 3
    BY <1>1, StepPlaces DEF Step
  <2>2. CASE Step(d) = "intr" /\ Capability[d] = "msix"
    <3>1. PICK all \in BOOLEAN : granted' = [granted EXCEPT ![d] = all]
      BY <2>2 DEF ProbeStep
    <3> QED
      BY <1>1, <2>1, <2>2, <3>1 DEF DeviceTypes
  <2>3. CASE ~(Step(d) = "intr" /\ Capability[d] = "msix")
    <3>1. granted' = granted
      BY <2>3 DEF ProbeStep
    <3> QED
      BY <1>1, <2>1, <2>3, <3>1, StepPlaces DEF DeviceTypes, ProbeStep, Step
  <2> QED
    BY <2>2, <2>3
<1>5. /\ \A e \in Device : e # d => holds'[e] = holds[e] /\ engine'[e] = engine[e]
      /\ holds'[d] = holds[d] \cup CASE Step(d) = "mask" -> {}
                          [] Step(d) = "intr" ->
                               IF Capability[d] # "legacy" /\ granted'[d] THEN {"intr"} ELSE {}
                          [] OTHER -> {Step(d)}
      /\ engine'[d] = IF Step(d) \in Engines THEN engine[d] \cup {Step(d)} ELSE engine[d]
  BY DEF ProbeStep, DeviceTypes
<1>6. \A x \in Resource : x \in holds'[d] <=>
        \/ x \in holds[d]
        \/ x = Steps[k] /\ x # "intr"
        \/ x = "intr" /\ k = 3 /\ Capability[d] # "legacy" /\ granted'[d]
  BY <1>1, <1>5, StepPlaces DEF Step, Resource
<1>7. Took(d, k + 1)'
  <2>1. /\ "intr" \in holds'[d] <=> k + 1 > 3 /\ Capability[d] # "legacy" /\ granted'[d]
        /\ k + 1 > 8 => granted'[d]
    BY <1>1, <1>4, <1>6, StepPlaces DEF Resource, Took
  <2>2. engine'[d] = holds'[d] \cap Engines
    BY <1>1, <1>5, <1>6, StepPlaces DEF Step, Took, Engines, Resource
  <2>3. /\ "lro" \in holds'[d] <=> k + 1 > 1
        /\ "enabled" \in holds'[d] <=> k + 1 > 2
        /\ "regions" \in holds'[d] <=> k + 1 > 4
        /\ "bar0" \in holds'[d] <=> k + 1 > 5
        /\ "bar1" \in holds'[d] <=> k + 1 > 6
        /\ "irq" \in holds'[d] <=> k + 1 > 8
    BY <1>1, <1>6, StepPlaces DEF Took, Resource
  <2>4. /\ "h2c0" \in holds'[d] <=> k + 1 > 9
        /\ "h2c1" \in holds'[d] <=> k + 1 > 10
        /\ "c2h0" \in holds'[d] <=> k + 1 > 11
        /\ "ctrl" \in holds'[d] <=> k + 1 > 12
        /\ "events" \in holds'[d] => k + 1 > 13
        /\ "sgdma" \in holds'[d] <=> k + 1 > 14
        /\ "attr" \in holds'[d] <=> k + 1 > 15
    BY <1>1, <1>6, StepPlaces DEF Took, Resource
  <2> QED
    BY <2>1, <2>2, <2>3, <2>4 DEF Took
<1>8. Holds(d)'
  <2>1. CASE k = 15
    <3>1. stage'[d] = "bound" /\ step'[d] = 1
      BY <1>3, <2>1 DEF DeviceTypes
    <3>2. Took(d, 16)'
      BY <1>7, <2>1
    <3> QED
      BY <1>1, <1>2, <1>4, <3>1, <3>2
      DEF Holds, ProbeHolds, BoundHolds, UnwindHolds, RemoveHolds, AbsentHolds
  <2>2. CASE k # 15
    <3>1. stage'[d] = "probe" /\ step'[d] = k + 1 /\ k + 1 \in 1..15
      BY <1>1, <1>3, <2>2 DEF DeviceTypes
    <3> QED
      BY <1>1, <1>2, <1>4, <1>7, <3>1
      DEF Holds, ProbeHolds, BoundHolds, UnwindHolds, RemoveHolds, AbsentHolds
  <2> QED
    BY <2>1, <2>2
<1>9. ASSUME NEW e \in Device, e # d PROVE Holds(e)'
  <2>1. stage'[e] = stage[e] /\ step'[e] = step[e]
    BY <1>3, <1>9 DEF DeviceTypes
  <2> QED
    BY <1>2, <1>4, <1>5, <1>9, <2>1, HoldsFrame DEF HoldsInv
<1> QED
  BY <1>2, <1>8, <1>9 DEF HoldsInv

(* The events file may be missing.                                          *)
LEMMA EventsFailsHolds ==
  ASSUME DeviceTypes, HoldsInv, NEW d \in Device, EventsFails(d)
  PROVE  HoldsInv'
<1>1. /\ stage[d] = "probe" /\ failed[d] = "none" /\ step[d] = 13 /\ Took(d, 13)
      /\ Capability[d] # "msix" => granted[d]
  <2>1. /\ stage[d] = "probe" /\ Steps[step[d]] = "events"
        /\ Holds(d)
    BY DEF EventsFails, HoldsInv, Step
  <2>2. step[d] \in 1..15 /\ failed[d] = "none" /\ Took(d, step[d])
    BY <2>1 DEF Holds, ProbeHolds
  <2>3. step[d] = 13
    BY <2>1, <2>2, StepPlaces
  <2> QED
    BY <2>1, <2>2, <2>3 DEF Holds
<1>2. UNCHANGED <<stage, holds, engine, granted, failed, bug>> /\ step' = [step EXCEPT ![d] = 14]
  BY <1>1 DEF EventsFails, Advance, Steps
<1>3. Took(d, 14)'
  BY <1>1, <1>2 DEF Took
<1>4. Holds(d)'
  BY <1>1, <1>2, <1>3 DEF Holds, ProbeHolds, BoundHolds, UnwindHolds, RemoveHolds, AbsentHolds, DeviceTypes
<1>5. ASSUME NEW e \in Device, e # d PROVE Holds(e)'
  BY <1>2, <1>5, HoldsFrame DEF HoldsInv, DeviceTypes
<1> QED
  BY <1>2, <1>4, <1>5 DEF HoldsInv

LEMMA LabelFound ==
  ASSUME NEW n \in 1..7
  PROVE  (CHOOSE k \in DOMAIN Labels : Labels[k] = Labels[n]) = n
<1>1. DOMAIN Labels = 1..7
  BY DEF Labels
<1>2. \A k \in 1..7 : Labels[k] = Labels[n] => k = n
  <2>1. n = 1 \/ n = 2 \/ n = 3 \/ n = 4 \/ n = 5 \/ n = 6 \/ n = 7
    OBVIOUS
  <2> QED
    BY <2>1, LabelPlaces
<1> QED
  BY <1>1, <1>2

(* What a step that fails undoes itself leaves what the label it goes to    *)
(* expects.                                                                 *)
LEMMA ProbeFailsHolds ==
  ASSUME DeviceTypes, HoldsInv, NEW d \in Device, ProbeFails(d)
  PROVE  HoldsInv'
<1>0. PICK k \in 1..15 : k = step[d]
  BY DEF HoldsInv, Holds, ProbeHolds, ProbeFails
<1>1. /\ stage[d] = "probe" /\ failed[d] = "none" /\ Took(d, k)
      /\ Capability[d] # "msix" => granted[d]
      /\ Step(d) = Steps[k] /\ Steps[k] # "events" /\ k # 13
  BY <1>0, StepPlaces DEF HoldsInv, Holds, ProbeHolds, ProbeFails, Step
<1>2. /\ failed' = [failed EXCEPT ![d] = Steps[k]]
      /\ holds' = [holds EXCEPT ![d] = @ \ OwnUnwind(d)]
      /\ bug' = (bug \/ ~(OwnUnwind(d) \subseteq holds[d]))
      /\ UNCHANGED <<engine, granted>>
  BY <1>1 DEF ProbeFails
<1>3. OwnUnwind(d) \subseteq holds[d]
  BY <1>1 DEF OwnUnwind, BarsMapped, Took
<1>4. ASSUME NEW e \in Device, e # d PROVE Holds(e)'
  <2>1. stage'[e] = stage[e] /\ step'[e] = step[e]
    BY <1>4 DEF ProbeFails, DeviceTypes
  <2> QED
    BY <1>2, <1>4, <2>1, HoldsFrame DEF HoldsInv, DeviceTypes
<1>5. /\ failed'[d] = Steps[k] /\ holds'[d] = holds[d] \ OwnUnwind(d)
      /\ engine'[d] = engine[d] /\ granted'[d] = granted[d]
  BY <1>2 DEF DeviceTypes
<1>6. CASE k = 1
  <2>1. Steps[k] = "lro"
    BY <1>6, StepPlaces
  <2>2. stage'[d] = "bound" /\ step'[d] = 1
    BY <1>1, <2>1 DEF ProbeFails, DeviceTypes
  <2>3. holds[d] = {}
    BY <1>1, <1>6 DEF Took, DeviceTypes, Resource
  <2>4. holds'[d] = {} /\ failed'[d] = "lro"
    BY <1>5, <2>1, <2>3
  <2>5. BoundHolds(d)'
    BY <2>2, <2>4 DEF BoundHolds
  <2>6. /\ ProbeHolds(d)' /\ UnwindHolds(d)' /\ RemoveHolds(d)' /\ AbsentHolds(d)'
        /\ ~(stage'[d] = "unwind")
    BY <2>2 DEF ProbeHolds, UnwindHolds, RemoveHolds, AbsentHolds
  <2>7. Capability[d] # "msix" => granted'[d]
    BY <1>1, <1>5
  <2>8. Holds(d)'
    BY <2>5, <2>6, <2>7 DEF Holds
  <2>9. ~bug'
    BY <1>2, <1>3 DEF HoldsInv
  <2> QED
    BY <1>4, <2>8, <2>9 DEF HoldsInv
<1>7. CASE k # 1
  <2>1. Steps[k] # "lro"
    BY <1>7, StepPlaces
  <2>2. /\ stage'[d] = "unwind"
        /\ step'[d] = CHOOSE n \in DOMAIN Labels : Labels[n] = Label(Steps[k])
    BY <1>1, <2>1 DEF ProbeFails, DeviceTypes
  <2>3. ASSUME NEW n \in 1..7, Labels[n] = Label(Steps[k]) PROVE step'[d] = n
    BY <2>2, <2>3, LabelFound
  <2>4. Steps[k] \in StepName \ {"lro", "events"}
    BY <1>1, <2>1, StepPlaces
  <2>5. UnwindHolds(d)' /\ (step'[d] = 1 => engine'[d] = Engines)
    <3>1. CASE k = 2
      <4>1. Steps[k] = "enabled"
        BY <1>1, <3>1, StepPlaces
      <4>2. step'[d] = 7
        BY <2>3, <4>1, LabelPlaces DEF Label, Bars
      <4>3. OwnUnwind(d) = {}
        BY <1>1, <4>1 DEF OwnUnwind, BarsMapped, Bars, Files
      <4>4. \A x \in Resource : x \in holds'[d] <=> x \in holds[d] /\ x \notin {}
        BY <1>5, <4>3
      <4> QED
        BY <1>1, <1>5, <3>1, <4>1, <4>2, <4>4 DEF UnwindHolds, Took, Resource, StepName, Bars, Engines, Files
    <3>2. CASE k = 3
      <4>1. Steps[k] = "intr"
        BY <1>1, <3>2, StepPlaces
      <4>2. step'[d] = 6
        BY <2>3, <4>1, LabelPlaces DEF Label, Bars
      <4>3. OwnUnwind(d) = {}
        BY <1>1, <4>1 DEF OwnUnwind, BarsMapped, Bars, Files
      <4>4. \A x \in Resource : x \in holds'[d] <=> x \in holds[d] /\ x \notin {}
        BY <1>5, <4>3
      <4> QED
        BY <1>1, <1>5, <3>2, <4>1, <4>2, <4>4 DEF UnwindHolds, Took, Resource, StepName, Bars, Engines, Files
    <3>3. CASE k = 4
      <4>1. Steps[k] = "regions"
        BY <1>1, <3>3, StepPlaces
      <4>2. step'[d] = 5
        BY <2>3, <4>1, LabelPlaces DEF Label, Bars
      <4>3. OwnUnwind(d) = {}
        BY <1>1, <4>1 DEF OwnUnwind, BarsMapped, Bars, Files
      <4>4. \A x \in Resource : x \in holds'[d] <=> x \in holds[d] /\ x \notin {}
        BY <1>5, <4>3
      <4> QED
        BY <1>1, <1>5, <3>3, <4>1, <4>2, <4>4 DEF UnwindHolds, Took, Resource, StepName, Bars, Engines, Files
    <3>4. CASE k \in 5..6
      <4>1. Steps[k] \in Bars
        BY <1>1, <3>4, StepPlaces DEF Bars
      <4>2. step'[d] = 4
        BY <2>3, <4>1, LabelPlaces DEF Label, Bars
      <4>3. OwnUnwind(d) = (holds[d] \cap Bars)
        BY <1>1, <4>1 DEF OwnUnwind, BarsMapped, Bars, Files
      <4>4. \A x \in Resource : x \in holds'[d] <=> x \in holds[d] /\ x \notin (holds[d] \cap Bars)
        BY <1>5, <4>3
      <4> QED
        BY <1>1, <1>5, <3>4, <4>1, <4>2, <4>4 DEF UnwindHolds, Took, Resource, StepName, Bars, Engines, Files
    <3>5. CASE k \in 7..8
      <4>1. Steps[k] \in {"mask", "irq"}
        BY <1>1, <3>5, StepPlaces
      <4>2. step'[d] = 3
        BY <2>3, <4>1, LabelPlaces DEF Label, Bars
      <4>3. OwnUnwind(d) = {}
        BY <1>1, <4>1 DEF OwnUnwind, BarsMapped, Bars, Files
      <4>4. \A x \in Resource : x \in holds'[d] <=> x \in holds[d] /\ x \notin {}
        BY <1>5, <4>3
      <4> QED
        BY <1>1, <1>5, <3>5, <4>1, <4>2, <4>4 DEF UnwindHolds, Took, Resource, StepName, Bars, Engines, Files
    <3>6. CASE k \in 9..10
      <4>1. Steps[k] \in {"h2c0", "h2c1"}
        BY <1>1, <3>6, StepPlaces
      <4>2. step'[d] = 2
        BY <2>3, <4>1, LabelPlaces DEF Label, Bars
      <4>3. OwnUnwind(d) = engine[d]
        BY <1>1, <4>1 DEF OwnUnwind, BarsMapped, Bars, Files
      <4>4. \A x \in Resource : x \in holds'[d] <=> x \in holds[d] /\ x \notin engine[d]
        BY <1>5, <4>3
      <4> QED
        BY <1>1, <1>5, <3>6, <4>1, <4>2, <4>4 DEF UnwindHolds, Took, Resource, StepName, Bars, Engines, Files
    <3>7. CASE k = 11
      <4>1. Steps[k] = "c2h0"
        BY <1>1, <3>7, StepPlaces
      <4>2. step'[d] = 2
        BY <2>3, <4>1, LabelPlaces DEF Label, Bars
      <4>3. OwnUnwind(d) = {}
        BY <1>1, <4>1 DEF OwnUnwind, BarsMapped, Bars, Files
      <4>4. \A x \in Resource : x \in holds'[d] <=> x \in holds[d] /\ x \notin {}
        BY <1>5, <4>3
      <4> QED
        BY <1>1, <1>5, <3>7, <4>1, <4>2, <4>4 DEF UnwindHolds, Took, Resource, StepName, Bars, Engines, Files
    <3>8. CASE k \in {12, 14}
      <4>1. Steps[k] \in {"ctrl", "sgdma"}
        BY <1>1, <3>8, StepPlaces
      <4>2. step'[d] = 1
        BY <2>3, <4>1, LabelPlaces DEF Label, Bars
      <4>3. OwnUnwind(d) = (holds[d] \cap Files)
        BY <1>1, <4>1 DEF OwnUnwind, BarsMapped, Bars, Files
      <4>4. \A x \in Resource : x \in holds'[d] <=> x \in holds[d] /\ x \notin (holds[d] \cap Files)
        BY <1>5, <4>3
      <4> QED
        BY <1>1, <1>5, <3>8, <4>1, <4>2, <4>4 DEF UnwindHolds, Took, Resource, StepName, Bars, Engines, Files
    <3>9. CASE k = 15
      <4>1. Steps[k] = "attr"
        BY <1>1, <3>9, StepPlaces
      <4>2. step'[d] = 1
        BY <2>3, <4>1, LabelPlaces DEF Label, Bars
      <4>3. OwnUnwind(d) = {}
        BY <1>1, <4>1 DEF OwnUnwind, BarsMapped, Bars, Files
      <4>4. \A x \in Resource : x \in holds'[d] <=> x \in holds[d] /\ x \notin {}
        BY <1>5, <4>3
      <4> QED
        BY <1>1, <1>5, <3>9, <4>1, <4>2, <4>4 DEF UnwindHolds, Took, Resource, StepName, Bars, Engines, Files
    <3> QED
      BY <1>1, <1>7, <3>1, <3>2, <3>3, <3>4, <3>5, <3>6, <3>7, <3>8, <3>9
  <2> QED
    <3>1. stage'[d] = "unwind"
      BY <2>2
    <3>2. Holds(d)'
      BY <1>1, <1>5, <2>5, <3>1 DEF Holds, ProbeHolds, BoundHolds, RemoveHolds, AbsentHolds
    <3>3. ~bug'
      BY <1>2, <1>3 DEF HoldsInv
    <3> QED
      BY <1>4, <3>2, <3>3 DEF HoldsInv
<1> QED
  BY <1>6, <1>7

(* A label of probe() releases what it expects to be held.                  *)
LEMMA UnwindHoldsNext ==
  ASSUME DeviceTypes, HoldsInv, NEW d \in Device, Unwind(d)
  PROVE  HoldsInv'
<1>0. PICK j \in 1..7 : j = step[d]
  BY DEF HoldsInv, Holds, UnwindHolds, Unwind
<1>1. /\ stage[d] = "unwind" /\ step[d] = j /\ UnwindHolds(d) /\ ~bug
      /\ Capability[d] # "msix" => granted[d]
      /\ j = 1 => engine[d] = Engines
  BY <1>0 DEF HoldsInv, Holds, Unwind
<1>2. /\ holds' = [holds EXCEPT ![d] = @ \ Released(d, Labels[j])]
      /\ bug' = (bug \/ ~(Released(d, Labels[j]) \subseteq holds[d]))
      /\ stage' = [stage EXCEPT ![d] = IF j = 7 THEN "absent" ELSE @]
      /\ step' = [step EXCEPT ![d] = IF j = 7 THEN 1 ELSE @ + 1]
      /\ UNCHANGED <<engine, granted, failed>>
  BY <1>1, LabelPlaces DEF Unwind, Release
<1>3. ASSUME NEW e \in Device, e # d PROVE Holds(e)'
  BY <1>2, <1>3, HoldsFrame DEF HoldsInv, DeviceTypes
<1>4. holds'[d] = holds[d] \ Released(d, Labels[j])
  BY <1>2 DEF DeviceTypes
<1>5. Released(d, Labels[j]) \subseteq holds[d] /\ Holds(d)'
  <2>1. CASE j = 1
    <3>1. Released(d, Labels[j]) = Engines
      BY <1>1, <2>1, LabelPlaces, DeviceConstants DEF Released, BarsMapped, DeviceConstants
    <3>2. stage'[d] = "unwind" /\ step'[d] = 2
      BY <1>1, <1>2, <2>1 DEF DeviceTypes
    <3>3. Released(d, Labels[j]) \subseteq holds[d]
      BY <1>1, <2>1, <3>1 DEF UnwindHolds, Engines
    <3>4. \A x \in Resource : x \in holds'[d] <=> x \in holds[d] /\ x \notin (Engines)
      BY <1>4, <3>1
    <3>5. Holds(d)'
      BY <1>1, <1>2, <1>4, <2>1, <3>1, <3>2, <3>4
      DEF Holds, ProbeHolds, BoundHolds, UnwindHolds, RemoveHolds, AbsentHolds, Engines, Bars, Files,
          Resource, DeviceTypes
    <3> QED
      BY <3>3, <3>5
  <2>2. CASE j = 2
    <3>1. Released(d, Labels[j]) = {"irq"}
      BY <1>1, <2>2, LabelPlaces, DeviceConstants DEF Released, BarsMapped, DeviceConstants
    <3>2. stage'[d] = "unwind" /\ step'[d] = 3
      BY <1>1, <1>2, <2>2 DEF DeviceTypes
    <3>3. Released(d, Labels[j]) \subseteq holds[d]
      BY <1>1, <2>2, <3>1 DEF UnwindHolds, Engines
    <3>4. \A x \in Resource : x \in holds'[d] <=> x \in holds[d] /\ x \notin ({"irq"})
      BY <1>4, <3>1
    <3>5. Holds(d)'
      BY <1>1, <1>2, <1>4, <2>2, <3>1, <3>2, <3>4
      DEF Holds, ProbeHolds, BoundHolds, UnwindHolds, RemoveHolds, AbsentHolds, Engines, Bars, Files,
          Resource, DeviceTypes
    <3> QED
      BY <3>3, <3>5
  <2>3. CASE j = 3
    <3>1. Released(d, Labels[j]) = holds[d] \cap Bars
      BY <1>1, <2>3, LabelPlaces, DeviceConstants DEF Released, BarsMapped, DeviceConstants
    <3>2. stage'[d] = "unwind" /\ step'[d] = 4
      BY <1>1, <1>2, <2>3 DEF DeviceTypes
    <3>3. Released(d, Labels[j]) \subseteq holds[d]
      BY <1>1, <2>3, <3>1 DEF UnwindHolds, Engines
    <3>4. \A x \in Resource : x \in holds'[d] <=> x \in holds[d] /\ x \notin (holds[d] \cap Bars)
      BY <1>4, <3>1
    <3>5. Holds(d)'
      BY <1>1, <1>2, <1>4, <2>3, <3>1, <3>2, <3>4
      DEF Holds, ProbeHolds, BoundHolds, UnwindHolds, RemoveHolds, AbsentHolds, Engines, Bars, Files,
          Resource, DeviceTypes
    <3> QED
      BY <3>3, <3>5
  <2>4. CASE j = 4
    <3>1. Released(d, Labels[j]) = holds[d] \cap {"regions"}
      BY <1>1, <2>4, LabelPlaces, DeviceConstants DEF Released, BarsMapped, DeviceConstants
    <3>2. stage'[d] = "unwind" /\ step'[d] = 5
      BY <1>1, <1>2, <2>4 DEF DeviceTypes
    <3>3. Released(d, Labels[j]) \subseteq holds[d]
      BY <1>1, <2>4, <3>1 DEF UnwindHolds, Engines
    <3>4. \A x \in Resource : x \in holds'[d] <=> x \in holds[d] /\ x \notin (holds[d] \cap {"regions"})
      BY <1>4, <3>1
    <3>5. Holds(d)'
      BY <1>1, <1>2, <1>4, <2>4, <3>1, <3>2, <3>4
      DEF Holds, ProbeHolds, BoundHolds, UnwindHolds, RemoveHolds, AbsentHolds, Engines, Bars, Files,
          Resource, DeviceTypes
    <3> QED
      BY <3>3, <3>5
  <2>5. CASE j = 5
    <3>1. Released(d, Labels[j]) = IF Capability[d] = "msi" THEN {"intr"} ELSE {}
      BY <1>1, <2>5, LabelPlaces, DeviceConstants DEF Released, BarsMapped, DeviceConstants
    <3>2. stage'[d] = "unwind" /\ step'[d] = 6
      BY <1>1, <1>2, <2>5 DEF DeviceTypes
    <3>3. Released(d, Labels[j]) \subseteq holds[d]
      BY <1>1, <2>5, <3>1 DEF UnwindHolds, Engines
    <3>4. \A x \in Resource : x \in holds'[d] <=> x \in holds[d] /\ x \notin (IF Capability[d] = "msi" THEN {"intr"} ELSE {})
      BY <1>4, <3>1
    <3>5. Holds(d)'
      BY <1>1, <1>2, <2>5, <3>2, <3>4, DeviceConstants
      DEF Holds, ProbeHolds, BoundHolds, UnwindHolds, RemoveHolds, AbsentHolds, Engines, Bars, Files, Resource,
          DeviceConstants
    <3> QED
      BY <3>3, <3>5
  <2>6. CASE j = 6
    <3>1. Released(d, Labels[j]) = IF failed[d] = "regions" THEN {} ELSE {"enabled"}
      BY <1>1, <2>6, LabelPlaces, DeviceConstants DEF Released, BarsMapped, DeviceConstants
    <3>2. stage'[d] = "unwind" /\ step'[d] = 7
      BY <1>1, <1>2, <2>6 DEF DeviceTypes
    <3>3. Released(d, Labels[j]) \subseteq holds[d]
      BY <1>1, <2>6, <3>1 DEF UnwindHolds, Engines
    <3>4. \A x \in Resource : x \in holds'[d] <=> x \in holds[d] /\ x \notin (IF failed[d] = "regions" THEN {} ELSE {"enabled"})
      BY <1>4, <3>1
    <3>5. Holds(d)'
      BY <1>1, <1>2, <1>4, <2>6, <3>1, <3>2, <3>4
      DEF Holds, ProbeHolds, BoundHolds, UnwindHolds, RemoveHolds, AbsentHolds, Engines, Bars, Files,
          Resource, DeviceTypes
    <3> QED
      BY <3>3, <3>5
  <2>7. CASE j = 7
    <3>1. Released(d, Labels[j]) = {"lro"}
      BY <1>1, <2>7, LabelPlaces, DeviceConstants DEF Released, BarsMapped, DeviceConstants
    <3>2. stage'[d] = "absent"
      BY <1>1, <1>2, <2>7 DEF DeviceTypes
    <3>3. Released(d, Labels[j]) \subseteq holds[d]
      BY <1>1, <2>7, <3>1 DEF UnwindHolds, Engines
    <3>4. \A x \in Resource : x \in holds'[d] <=> x \in holds[d] /\ x \notin ({"lro"})
      BY <1>4, <3>1
    <3>5. Holds(d)'
      <4>1. /\ failed'[d] = failed[d] /\ failed[d] # "none" /\ granted'[d] = granted[d]
            /\ holds'[d] \subseteq Resource
        BY <1>1, <1>2, <1>4, <2>7 DEF UnwindHolds, StepName, Resource, DeviceTypes
      <4>2. /\ \A x \in {"lro", "regions", "bar0", "bar1", "irq", "attr"} : x \notin holds'[d]
            /\ "enabled" \in holds'[d] => failed[d] = "regions"
            /\ "intr" \in holds'[d] => Capability[d] = "msix"
        BY <1>1, <2>7, <3>4 DEF UnwindHolds, Bars, Resource
      <4>3. /\ \A e \in Engines : e \in holds'[d] => failed[d] = "c2h0"
            /\ \A f \in Files : f \in holds'[d] => failed[d] = "attr"
        BY <1>1, <2>7, <3>4 DEF UnwindHolds, Engines, Files, Resource
      <4>4. failed[d] \notin {"c2h0", "attr"} => holds'[d] \subseteq {"enabled", "intr"}
        BY <4>1, <4>2, <4>3 DEF Engines, Files, Resource
      <4>5. AbsentHolds(d)'
        BY <4>1, <4>2, <4>3, <4>4 DEF AbsentHolds
      <4> QED
        BY <1>1, <3>2, <4>1, <4>5 DEF Holds, ProbeHolds, BoundHolds, UnwindHolds, RemoveHolds
    <3> QED
      BY <3>3, <3>5
  <2> QED
    BY <1>0, <2>1, <2>2, <2>3, <2>4, <2>5, <2>6, <2>7
<1> QED
  BY <1>1, <1>2, <1>3, <1>5 DEF HoldsInv

(* So does a step of remove().                                              *)
LEMMA RemoveHoldsNext ==
  ASSUME DeviceTypes, HoldsInv, NEW d \in Device, RemoveStep(d)
  PROVE  HoldsInv'
<1>0. PICK j \in 1..9 : j = step[d]
  BY DEF HoldsInv, Holds, RemoveHolds, RemoveStep
<1>1. /\ stage[d] = "remove" /\ step[d] = j /\ RemoveHolds(d) /\ ~bug
      /\ Capability[d] # "msix" => granted[d]
  BY <1>0 DEF HoldsInv, Holds, RemoveStep
<1>2. /\ holds' = [holds EXCEPT ![d] = @ \ Released(d, RemoveOrder[j])]
      /\ bug' = (bug \/ ~(Released(d, RemoveOrder[j]) \subseteq holds[d]))
      /\ stage' = [stage EXCEPT ![d] = IF j = 9 THEN "absent" ELSE @]
      /\ step' = [step EXCEPT ![d] = IF j = 9 THEN 1 ELSE @ + 1]
      /\ UNCHANGED <<engine, granted, failed>>
  BY <1>1, RemovePlaces DEF RemoveStep, Release
<1>3. ASSUME NEW e \in Device, e # d PROVE Holds(e)'
  BY <1>2, <1>3, HoldsFrame DEF HoldsInv, DeviceTypes
<1>4. holds'[d] = holds[d] \ Released(d, RemoveOrder[j])
  BY <1>2 DEF DeviceTypes
<1>5. Released(d, RemoveOrder[j]) \subseteq holds[d] /\ Holds(d)'
  <2>1. CASE j = 1
    <3>1. Released(d, RemoveOrder[j]) = holds[d] \cap Files
      BY <1>1, <2>1, RemovePlaces, DeviceConstants DEF Released, BarsMapped, RemoveHolds, DeviceConstants
    <3>2. stage'[d] = "remove" /\ step'[d] = 2
      BY <1>1, <1>2, <2>1 DEF DeviceTypes
    <3>3. Released(d, RemoveOrder[j]) \subseteq holds[d]
      BY <1>1, <2>1, <3>1 DEF RemoveHolds, Engines
    <3>4. \A x \in Resource : x \in holds'[d] <=> x \in holds[d] /\ x \notin (holds[d] \cap Files)
      BY <1>4, <3>1
    <3>5. Holds(d)'
      BY <1>1, <1>2, <1>4, <2>1, <3>1, <3>2, <3>4
      DEF Holds, ProbeHolds, BoundHolds, UnwindHolds, RemoveHolds, AbsentHolds, Engines, Bars, Files,
          Resource, DeviceTypes
    <3> QED
      BY <3>3, <3>5
  <2>2. CASE j = 2
    <3>1. Released(d, RemoveOrder[j]) = Engines
      BY <1>1, <2>2, RemovePlaces, DeviceConstants DEF Released, BarsMapped, RemoveHolds, DeviceConstants
    <3>2. stage'[d] = "remove" /\ step'[d] = 3
      BY <1>1, <1>2, <2>2 DEF DeviceTypes
    <3>3. Released(d, RemoveOrder[j]) \subseteq holds[d]
      BY <1>1, <2>2, <3>1 DEF RemoveHolds, Engines
    <3>4. \A x \in Resource : x \in holds'[d] <=> x \in holds[d] /\ x \notin (Engines)
      BY <1>4, <3>1
    <3>5. Holds(d)'
      BY <1>1, <1>2, <1>4, <2>2, <3>1, <3>2, <3>4
      DEF Holds, ProbeHolds, BoundHolds, UnwindHolds, RemoveHolds, AbsentHolds, Engines, Bars, Files,
          Resource, DeviceTypes
    <3> QED
      BY <3>3, <3>5
  <2>3. CASE j = 3
    <3>1. Released(d, RemoveOrder[j]) = {"irq"}
      BY <1>1, <2>3, RemovePlaces, DeviceConstants DEF Released, BarsMapped, RemoveHolds, DeviceConstants
    <3>2. stage'[d] = "remove" /\ step'[d] = 4
      BY <1>1, <1>2, <2>3 DEF DeviceTypes
    <3>3. Released(d, RemoveOrder[j]) \subseteq holds[d]
      BY <1>1, <2>3, <3>1 DEF RemoveHolds, Engines
    <3>4. \A x \in Resource : x \in holds'[d] <=> x \in holds[d] /\ x \notin ({"irq"})
      BY <1>4, <3>1
    <3>5. Holds(d)'
      BY <1>1, <1>2, <1>4, <2>3, <3>1, <3>2, <3>4
      DEF Holds, ProbeHolds, BoundHolds, UnwindHolds, RemoveHolds, AbsentHolds, Engines, Bars, Files,
          Resource, DeviceTypes
    <3> QED
      BY <3>3, <3>5
  <2>4. CASE j = 4
    <3>1. Released(d, RemoveOrder[j]) = holds[d] \cap Bars
      BY <1>1, <2>4, RemovePlaces, DeviceConstants DEF Released, BarsMapped, RemoveHolds, DeviceConstants
    <3>2. stage'[d] = "remove" /\ step'[d] = 5
      BY <1>1, <1>2, <2>4 DEF DeviceTypes
    <3>3. Released(d, RemoveOrder[j]) \subseteq holds[d]
      BY <1>1, <2>4, <3>1 DEF RemoveHolds, Engines
    <3>4. \A x \in Resource : x \in holds'[d] <=> x \in holds[d] /\ x \notin (holds[d] \cap Bars)
      BY <1>4, <3>1
    <3>5. Holds(d)'
      BY <1>1, <1>2, <1>4, <2>4, <3>1, <3>2, <3>4
      DEF Holds, ProbeHolds, BoundHolds, UnwindHolds, RemoveHolds, AbsentHolds, Engines, Bars, Files,
          Resource, DeviceTypes
    <3> QED
      BY <3>3, <3>5
  <2>5. CASE j = 5
    <3>1. Released(d, RemoveOrder[j]) = holds[d] \cap {"regions"}
      BY <1>1, <2>5, RemovePlaces, DeviceConstants DEF Released, BarsMapped, RemoveHolds, DeviceConstants
    <3>2. stage'[d] = "remove" /\ step'[d] = 6
      BY <1>1, <1>2, <2>5 DEF DeviceTypes
    <3>3. Released(d, RemoveOrder[j]) \subseteq holds[d]
      BY <1>1, <2>5, <3>1 DEF RemoveHolds, Engines
    <3>4. \A x \in Resource : x \in holds'[d] <=> x \in holds[d] /\ x \notin (holds[d] \cap {"regions"})
      BY <1>4, <3>1
    <3>5. Holds(d)'
      BY <1>1, <1>2, <1>4, <2>5, <3>1, <3>2, <3>4
      DEF Holds, ProbeHolds, BoundHolds, UnwindHolds, RemoveHolds, AbsentHolds, Engines, Bars, Files,
          Resource, DeviceTypes
    <3> QED
      BY <3>3, <3>5
  <2>6. CASE j = 6
    <3>1. Released(d, RemoveOrder[j]) = IF Capability[d] # "legacy" THEN {"intr"} ELSE {}
      BY <1>1, <2>6, RemovePlaces, DeviceConstants DEF Released, BarsMapped, RemoveHolds, DeviceConstants
    <3>2. stage'[d] = "remove" /\ step'[d] = 7
      BY <1>1, <1>2, <2>6 DEF DeviceTypes
    <3>3. Released(d, RemoveOrder[j]) \subseteq holds[d]
      BY <1>1, <2>6, <3>1 DEF RemoveHolds, Engines
    <3>4. \A x \in Resource : x \in holds'[d] <=> x \in holds[d] /\ x \notin (IF Capability[d] # "legacy" THEN {"intr"} ELSE {})
      BY <1>4, <3>1
    <3>5. Holds(d)'
      BY <1>1, <1>2, <1>4, <2>6, <3>1, <3>2, <3>4
      DEF Holds, ProbeHolds, BoundHolds, UnwindHolds, RemoveHolds, AbsentHolds, Engines, Bars, Files,
          Resource, DeviceTypes
    <3> QED
      BY <3>3, <3>5
  <2>7. CASE j = 7
    <3>1. Released(d, RemoveOrder[j]) = {"enabled"}
      BY <1>1, <2>7, RemovePlaces, DeviceConstants DEF Released, BarsMapped, RemoveHolds, DeviceConstants
    <3>2. stage'[d] = "remove" /\ step'[d] = 8
      BY <1>1, <1>2, <2>7 DEF DeviceTypes
    <3>3. Released(d, RemoveOrder[j]) \subseteq holds[d]
      BY <1>1, <2>7, <3>1 DEF RemoveHolds, Engines
    <3>4. \A x \in Resource : x \in holds'[d] <=> x \in holds[d] /\ x \notin ({"enabled"})
      BY <1>4, <3>1
    <3>5. Holds(d)'
      BY <1>1, <1>2, <1>4, <2>7, <3>1, <3>2, <3>4
      DEF Holds, ProbeHolds, BoundHolds, UnwindHolds, RemoveHolds, AbsentHolds, Engines, Bars, Files,
          Resource, DeviceTypes
    <3> QED
      BY <3>3, <3>5
  <2>8. CASE j = 8
    <3>1. Released(d, RemoveOrder[j]) = holds[d] \cap {"attr"}
      BY <1>1, <2>8, RemovePlaces, DeviceConstants DEF Released, BarsMapped, RemoveHolds, DeviceConstants
    <3>2. stage'[d] = "remove" /\ step'[d] = 9
      BY <1>1, <1>2, <2>8 DEF DeviceTypes
    <3>3. Released(d, RemoveOrder[j]) \subseteq holds[d]
      BY <1>1, <2>8, <3>1 DEF RemoveHolds, Engines
    <3>4. \A x \in Resource : x \in holds'[d] <=> x \in holds[d] /\ x \notin (holds[d] \cap {"attr"})
      BY <1>4, <3>1
    <3>5. Holds(d)'
      BY <1>1, <1>2, <1>4, <2>8, <3>1, <3>2, <3>4
      DEF Holds, ProbeHolds, BoundHolds, UnwindHolds, RemoveHolds, AbsentHolds, Engines, Bars, Files,
          Resource, DeviceTypes
    <3> QED
      BY <3>3, <3>5
  <2>9. CASE j = 9
    <3>1. Released(d, RemoveOrder[j]) = {"lro"}
      BY <1>1, <2>9, RemovePlaces, DeviceConstants DEF Released, BarsMapped, RemoveHolds, DeviceConstants
    <3>2. stage'[d] = "absent"
      BY <1>1, <1>2, <2>9 DEF DeviceTypes
    <3>3. Released(d, RemoveOrder[j]) \subseteq holds[d]
      BY <1>1, <2>9, <3>1 DEF RemoveHolds, Engines
    <3>4. \A x \in Resource : x \in holds'[d] <=> x \in holds[d] /\ x \notin ({"lro"})
      BY <1>4, <3>1
    <3>5. Holds(d)'
      BY <1>1, <1>2, <1>4, <2>9, <3>1, <3>2, <3>4
      DEF Holds, ProbeHolds, BoundHolds, UnwindHolds, RemoveHolds, AbsentHolds, Engines, Bars, Files,
          Resource, DeviceTypes
    <3> QED
      BY <3>3, <3>5
  <2> QED
    BY <1>0, <2>1, <2>2, <2>3, <2>4, <2>5, <2>6, <2>7, <2>8, <2>9
<1> QED
  BY <1>1, <1>2, <1>3, <1>5 DEF HoldsInv

LEMMA HoldsInvInit == Init => DeviceTypes /\ HoldsInv
BY DEF Init, DeviceTypes, HoldsInv, Holds, ProbeHolds, BoundHolds, UnwindHolds, RemoveHolds, AbsentHolds,
   Stage

LEMMA HoldsInvNext == ASSUME DeviceTypes, HoldsInv, Next PROVE HoldsInv'
<1> USE DEF deviceVars
<1>1. ASSUME UNCHANGED <<stage, step, holds, engine, granted, failed, bug>>
      PROVE  HoldsInv'
  BY <1>1, HoldsFrame DEF HoldsInv
<1>2. ASSUME XdmaInit \/ InitClears \/ XdmaExit \/ ExitDone
      PROVE  HoldsInv'
  BY <1>1, <1>2 DEF XdmaInit, InitClears, XdmaExit, ExitDone
<1>3. ASSUME NEW d \in Device, HandlerStarts(d) \/ HandlerEnds(d) \/ \E f \in Files : OpenFile(d, f) \/ CloseFile(d, f)
      PROVE  HoldsInv'
  BY <1>1, <1>3 DEF HandlerStarts, HandlerEnds, OpenFile, CloseFile
<1>4. ASSUME NEW d \in Device, Probe(d)
      PROVE  HoldsInv'
  <2>1. /\ stage'[d] = "probe" /\ step'[d] = 1 /\ failed'[d] = "none"
        /\ engine'[d] = {} /\ holds'[d] = {} /\ granted'[d] = granted[d]
    BY <1>4 DEF Probe, DeviceTypes
  <2>2. Took(d, 1)'
    BY <2>1 DEF Took
  <2>3. Holds(d)'
    BY <2>1, <2>2 DEF HoldsInv, Holds, ProbeHolds, BoundHolds, UnwindHolds, RemoveHolds, AbsentHolds
  <2>4. ASSUME NEW e \in Device, e # d PROVE Holds(e)'
    BY <1>4, <2>4, HoldsFrame DEF HoldsInv, Probe, DeviceTypes
  <2> QED
    BY <1>4, <2>3, <2>4 DEF HoldsInv, Probe
<1>5. ASSUME NEW d \in Device, RemoveStarts(d)
      PROVE  HoldsInv'
  <2>1. /\ stage[d] = "bound" /\ Holds(d) /\ BoundHolds(d)
        /\ stage' = [stage EXCEPT ![d] = IF "lro" \in holds[d] THEN "remove" ELSE "absent"]
        /\ UNCHANGED <<step, holds, engine, granted, failed, bug>>
    BY <1>5 DEF RemoveStarts, HoldsInv, Holds
  <2>2. ASSUME "lro" \in holds[d]
        PROVE  Holds(d)'
    <3>1. stage'[d] = "remove" /\ Took(d, 16) /\ step[d] = 1 /\ failed[d] = "none"
      BY <2>1, <2>2 DEF BoundHolds, DeviceTypes
    <3>2. RemoveHolds(d)'
      BY <2>1, <3>1 DEF RemoveHolds, Took, Engines, Bars, Files
    <3> QED
      BY <2>1, <3>1, <3>2 DEF Holds, ProbeHolds, BoundHolds, UnwindHolds, AbsentHolds
  <2>3. ASSUME "lro" \notin holds[d]
        PROVE  Holds(d)'
    <3>1. stage'[d] = "absent" /\ holds[d] = {}
      BY <2>1, <2>3 DEF BoundHolds, DeviceTypes, Took
    <3> QED
      BY <2>1, <3>1 DEF Holds, ProbeHolds, BoundHolds, UnwindHolds, RemoveHolds, AbsentHolds
  <2>4. ASSUME NEW e \in Device, e # d PROVE Holds(e)'
    BY <2>1, <2>4, HoldsFrame DEF HoldsInv, DeviceTypes
  <2> QED
    BY <2>1, <2>2, <2>3, <2>4 DEF HoldsInv
<1> QED
  BY <1>2, <1>3, <1>4, <1>5, ProbeStepHolds, ProbeFailsHolds, EventsFailsHolds, UnwindHoldsNext,
     RemoveHoldsNext DEF Next

LEMMA HoldsInvHolds == Spec => [](DeviceTypes /\ HoldsInv)
<1>1. DeviceTypes /\ HoldsInv /\ [Next]_vars => (DeviceTypes /\ HoldsInv)'
  <2>1. ASSUME DeviceTypes, HoldsInv, UNCHANGED vars PROVE DeviceTypes' /\ HoldsInv'
    <3>1. UNCHANGED <<stage, step, holds, engine, granted, instance, files, failed, handler, bug>>
      BY <2>1 DEF vars, deviceVars
    <3>2. DeviceTypes'
      BY <2>1, <3>1 DEF DeviceTypes
    <3>3. HoldsInv'
      BY <2>1, <3>1, HoldsFrame DEF HoldsInv
    <3> QED
      BY <3>2, <3>3
  <2> QED
    BY <2>1, DeviceTypesNext, HoldsInvNext
<1> QED
  BY <1>1, HoldsInvInit, PTL DEF Spec

(* Whatever step of probe() fails, and in remove(), nothing is released     *)
(* that is not held (NothingReleasedTwice), with any number of devices of   *)
(* each kind, and also when a device is unplugged under its open files.     *)
THEOREM NothingIsReleasedTwice == Spec => []NothingReleasedTwice
<1>1. HoldsInv => NothingReleasedTwice
  BY DEF HoldsInv, NothingReleasedTwice
<1> QED
  BY <1>1, HoldsInvHolds, PTL

(* A device that is gone holds nothing but what the code leaves on four     *)
(* paths (AbsentHoldsNothing).                                              *)
THEOREM AbsentHoldsNothingAlways == Spec => []AbsentHoldsNothing
<1>1. HoldsInv => AbsentHoldsNothing
  BY DEF HoldsInv, Holds, AbsentHolds, AbsentHoldsNothing
<1> QED
  BY <1>1, HoldsInvHolds, PTL

-----------------------------------------------------------------------------
(* What the labels and remove() release, for the two of them.               *)
LEMMA ReleaseEffect ==
  ASSUME DeviceTypes, HoldsInv, NEW d \in Device, Unwind(d) \/ RemoveStep(d)
  PROVE  \E label \in {"engines", "irq", "bars", "regions", "intr", "enabled", "lro", "files", "attr"},
            last \in BOOLEAN :
           /\ MayRelease(d, label)
           /\ stage[d] \in {"unwind", "remove"}
           /\ stage' = [stage EXCEPT ![d] = IF last THEN "absent" ELSE @]
           /\ holds' = [holds EXCEPT ![d] = @ \ Released(d, label)]
           /\ instance' = [instance EXCEPT ![d] = IF last THEN 0 ELSE @]
           /\ dev_present' = IF last /\ stage[d] = "remove" THEN dev_present \ {instance[d]} ELSE dev_present
<1>1. CASE Unwind(d)
  <2>1. PICK j \in 1..7 : j = step[d]
    BY <1>1 DEF Unwind, HoldsInv, Holds, UnwindHolds
  <2>2. Labels[j] \in {"engines", "irq", "bars", "regions", "intr", "enabled", "lro"}
    <3>1. j = 1 \/ j = 2 \/ j = 3 \/ j = 4 \/ j = 5 \/ j = 6 \/ j = 7
      OBVIOUS
    <3> QED
      BY <3>1, LabelPlaces
  <2>3. PICK last \in BOOLEAN : last <=> j = 7
    OBVIOUS
  <2>4. /\ MayRelease(d, Labels[j])
        /\ stage[d] = "unwind"
        /\ stage' = [stage EXCEPT ![d] = IF last THEN "absent" ELSE @]
        /\ holds' = [holds EXCEPT ![d] = @ \ Released(d, Labels[j])]
        /\ instance' = [instance EXCEPT ![d] = IF last THEN 0 ELSE @]
        /\ dev_present' = dev_present
    BY <1>1, <2>1, <2>3, LabelPlaces DEF Unwind, Release
  <2> QED
    BY <2>2, <2>3, <2>4
<1>2. CASE RemoveStep(d)
  <2>1. PICK j \in 1..9 : j = step[d]
    BY <1>2 DEF RemoveStep, HoldsInv, Holds, RemoveHolds
  <2>2. RemoveOrder[j] \in {"files", "engines", "irq", "bars", "regions", "intr", "enabled", "attr", "lro"}
    <3>1. j = 1 \/ j = 2 \/ j = 3 \/ j = 4 \/ j = 5 \/ j = 6 \/ j = 7 \/ j = 8 \/ j = 9
      OBVIOUS
    <3> QED
      BY <3>1, RemovePlaces
  <2>3. PICK last \in BOOLEAN : last <=> j = 9
    OBVIOUS
  <2>4. /\ MayRelease(d, RemoveOrder[j])
        /\ stage[d] = "remove"
        /\ stage' = [stage EXCEPT ![d] = IF last THEN "absent" ELSE @]
        /\ holds' = [holds EXCEPT ![d] = @ \ Released(d, RemoveOrder[j])]
        /\ instance' = [instance EXCEPT ![d] = IF last THEN 0 ELSE @]
        /\ dev_present' = IF last THEN dev_present \ {instance[d]} ELSE dev_present
    BY <1>2, <2>1, <2>3, RemovePlaces DEF RemoveStep, Release
  <2> QED
    BY <2>2, <2>3, <2>4
<1> QED
  BY <1>1, <1>2

(* What a step of probe() does to the files' and handlers' resources.       *)
LEMMA ProbeGrows ==
  ASSUME DeviceTypes, HoldsInv, NEW d \in Device, ProbeStep(d) \/ EventsFails(d)
  PROVE  /\ \A e \in Device : holds[e] \subseteq holds'[e]
         /\ UNCHANGED <<module, files, handler, failed, cleared>>
         /\ \A e \in Device : stage'[e] # stage[e] =>
              e = d /\ stage[e] = "probe" /\ step[e] > 12 /\ stage'[e] = "bound"
<1>1. stage[d] = "probe" /\ step[d] \in 1..15
  BY DEF ProbeStep, EventsFails, HoldsInv, Holds, ProbeHolds
<1>2. Advance(d)
  BY DEF ProbeStep, EventsFails
<1>3. \A e \in Device : stage'[e] # stage[e] =>
        e = d /\ stage[e] = "probe" /\ step[e] > 12 /\ stage'[e] = "bound"
  <2>1. CASE step[d] = Len(Steps)
    <3>1. step[d] = 15
      BY <2>1, StepPlaces
    <3>2. stage' = [stage EXCEPT ![d] = "bound"]
      BY <1>2, <2>1 DEF Advance
    <3>3. \A e \in Device : e # d => stage'[e] = stage[e]
      BY <3>2 DEF DeviceTypes
    <3>4. stage'[d] = "bound"
      BY <3>2 DEF DeviceTypes
    <3> QED
      BY <1>1, <3>1, <3>3, <3>4
  <2>2. CASE step[d] # Len(Steps)
    <3>1. stage' = stage
      BY <1>2, <2>2 DEF Advance
    <3> QED
      BY <3>1
  <2> QED
    BY <2>1, <2>2
<1>4. \A e \in Device : holds[e] \subseteq holds'[e]
  <2>1. CASE EventsFails(d)
    BY <2>1 DEF EventsFails
  <2>2. CASE ProbeStep(d)
    <3>1. PICK new : holds' = [holds EXCEPT ![d] = @ \cup new]
      BY <2>2 DEF ProbeStep
    <3> QED
      BY <3>1 DEF DeviceTypes
  <2> QED
    BY <2>1, <2>2
<1> QED
  BY <1>3, <1>4 DEF ProbeStep, EventsFails

(* The files that are there with the whole device behind them.              *)
LEMMA FileHasDevice ==
  ASSUME DeviceTypes, HoldsInv, NEW d \in Device, failed[d] = "none", NEW f \in Files \cap holds[d]
  PROVE  stage[d] # "absent" /\ {"lro"} \cup Bars \cup Engines \subseteq holds[d]
<1>1. stage[d] \in Stage /\ Holds(d)
  BY DEF DeviceTypes, HoldsInv
<1>2. CASE stage[d] = "probe"
  <2>1. Took(d, step[d]) /\ step[d] \in 1..15
    BY <1>1, <1>2 DEF Holds, ProbeHolds
  <2>2. step[d] > 12
    BY <2>1 DEF Took, Files
  <2> QED
    BY <1>2, <2>1, <2>2 DEF Took, Bars, Engines
<1>3. CASE stage[d] = "bound"
  <2>1. Took(d, 16)
    BY <1>1, <1>3 DEF Holds, BoundHolds
  <2> QED
    BY <1>3, <2>1 DEF Took, Bars, Engines
<1>4. CASE stage[d] = "unwind"
  BY <1>1, <1>4 DEF Holds, UnwindHolds, StepName, Resource
<1>5. CASE stage[d] = "remove"
  BY <1>1, <1>5 DEF Holds, RemoveHolds, Bars, Engines
<1>6. CASE stage[d] = "absent"
  BY <1>1, <1>6 DEF Holds, AbsentHolds
<1> QED
  BY <1>1, <1>2, <1>3, <1>4, <1>5, <1>6 DEF Stage

LEMMA FileNext ==
  ASSUME ~OpenAtUnplug, DeviceTypes, HoldsInv, FileInv, Next
  PROVE  FileInv'
<1> USE DEF deviceVars
<1>1. ASSUME XdmaInit \/ InitClears \/ XdmaExit \/ ExitDone
      PROVE  FileInv'
  BY <1>1 DEF XdmaInit, InitClears, XdmaExit, ExitDone, MayExit, FileInv
<1>2. ASSUME NEW d \in Device, Probe(d)
      PROVE  FileInv'
  <2>1. ASSUME NEW e \in Device, failed'[e] = "none"
        PROVE  /\ files'[e] \subseteq holds'[e]
               /\ stage'[e] \in {"absent", "remove"} => files'[e] = {}
    <3>1. CASE e = d
      BY <1>2, <3>1 DEF Probe
    <3>2. CASE e # d
      <4>1. /\ files'[e] = files[e] /\ holds'[e] = holds[e] /\ stage'[e] = stage[e]
            /\ failed'[e] = failed[e]
        BY <1>2, <3>2 DEF Probe, DeviceTypes
      <4> QED
        BY <2>1, <4>1 DEF FileInv
    <3> QED
      BY <3>1, <3>2
  <2> QED
    BY <1>2, <2>1 DEF Probe, FileInv
<1>3. ASSUME NEW d \in Device, ProbeStep(d) \/ EventsFails(d)
      PROVE  FileInv'
  BY <1>3, ProbeGrows DEF FileInv
<1>4. ASSUME NEW d \in Device, ProbeFails(d)
      PROVE  FileInv'
  <2>1. failed'[d] # "none"
    <3>1. Step(d) \in StepName
      BY <1>4, StepPlaces DEF ProbeFails, HoldsInv, Holds, ProbeHolds, Step
    <3> QED
      BY <1>4, <3>1 DEF ProbeFails, DeviceTypes, StepName, Resource
  <2>2. \A e \in Device : e # d => /\ files'[e] = files[e] /\ holds'[e] = holds[e]
                                   /\ stage'[e] = stage[e] /\ failed'[e] = failed[e]
    BY <1>4 DEF ProbeFails, DeviceTypes
  <2> QED
    BY <1>4, <2>1, <2>2 DEF ProbeFails, FileInv
<1>5. ASSUME NEW d \in Device, Unwind(d) \/ RemoveStep(d)
      PROVE  FileInv'
  <2>1. UNCHANGED <<module, files, failed>>
    BY <1>5 DEF Unwind, RemoveStep
  <2>2. \A e \in Device : e # d => holds'[e] = holds[e] /\ stage'[e] = stage[e]
    BY <1>5, ReleaseEffect DEF DeviceTypes
  <2>3. failed[d] = "none" => files[d] = {}
    <3>1. CASE Unwind(d)
      BY <3>1 DEF Unwind, HoldsInv, Holds, UnwindHolds, StepName, Resource
    <3>2. CASE RemoveStep(d)
      BY <3>2 DEF RemoveStep, FileInv
    <3> QED
      BY <1>5, <3>1, <3>2
  <2> QED
    BY <2>1, <2>2, <2>3 DEF FileInv
<1>6. ASSUME NEW d \in Device, RemoveStarts(d)
      PROVE  FileInv'
  <2>1. files[d] = {} /\ UNCHANGED <<module, holds, files, failed>>
    BY <1>6 DEF RemoveStarts, FileInv
  <2>2. \A e \in Device : e # d => stage'[e] = stage[e]
    BY <1>6 DEF RemoveStarts, DeviceTypes
  <2> QED
    BY <2>1, <2>2 DEF FileInv
<1>7. ASSUME NEW d \in Device, HandlerStarts(d) \/ HandlerEnds(d)
      PROVE  FileInv'
  BY <1>7 DEF HandlerStarts, HandlerEnds, FileInv
<1>8. ASSUME NEW d \in Device, NEW f \in Files, OpenFile(d, f)
      PROVE  FileInv'
  <2>1. /\ f \in holds[d] /\ module # "exiting" /\ stage[d] # "remove"
        /\ files' = [files EXCEPT ![d] = @ \cup {f}]
        /\ UNCHANGED <<module, holds, stage, failed>>
    BY <1>8 DEF OpenFile
  <2>2. failed[d] = "none" => stage[d] # "absent"
    BY <2>1, FileHasDevice
  <2> QED
    BY <2>1, <2>2 DEF FileInv, DeviceTypes
<1>9. ASSUME NEW d \in Device, NEW f \in Files, CloseFile(d, f)
      PROVE  FileInv'
  <2>1. /\ files' = [files EXCEPT ![d] = @ \ {f}]
        /\ UNCHANGED <<module, holds, stage, failed>>
    BY <1>9 DEF CloseFile
  <2> QED
    BY <2>1 DEF FileInv, DeviceTypes
<1> QED
  BY <1>1, <1>2, <1>3, <1>4, <1>5, <1>6, <1>7, <1>8, <1>9 DEF Next

(* An open file finds its device (FileFindsDevice) for as long as it is     *)
(* open, if no device is unplugged under its files: rmmod waits for the     *)
(* files, and nothing else takes away what a file that was opened uses.     *)
THEOREM FileAlwaysFindsDevice ==
  ASSUME ~OpenAtUnplug
  PROVE  Spec => []FileFindsDevice
<1>1. Init => FileInv
  BY DEF Init, FileInv
<1>2. DeviceTypes /\ HoldsInv /\ FileInv /\ [Next]_vars => FileInv'
  <2>1. ASSUME FileInv, UNCHANGED vars PROVE FileInv'
    BY <2>1 DEF FileInv, vars, deviceVars
  <2> QED
    BY <2>1, FileNext
<1>3. DeviceTypes /\ HoldsInv /\ FileInv => FileFindsDevice
  <2> SUFFICES ASSUME DeviceTypes, HoldsInv, FileInv, NEW d \in Device, files[d] # {}, failed[d] = "none"
               PROVE  stage[d] # "absent" /\ {"lro"} \cup Bars \cup Engines \cup files[d] \subseteq holds[d]
    BY DEF FileFindsDevice
  <2>1. PICK f \in files[d] : TRUE
    OBVIOUS
  <2>2. files[d] \subseteq holds[d] /\ f \in Files
    BY <2>1 DEF FileInv, DeviceTypes
  <2> QED
    BY <2>1, <2>2, FileHasDevice
<1> QED
  BY <1>1, <1>2, <1>3, HoldsInvHolds, PTL DEF Spec

-----------------------------------------------------------------------------
(* No step but those of the engines and of the handlers' vectors takes an   *)
(* engine or a vector away.                                                 *)
LEMMA ReleaseSparesHandler ==
  ASSUME DeviceTypes, HandlerInv, NEW d \in Device,
         NEW label \in {"engines", "irq", "bars", "regions", "intr", "enabled", "lro", "files", "attr"},
         MayRelease(d, label), Capability[d] = "msix", handler[d] # "none"
  PROVE  \/ handler[d] \in Engines \cap (holds[d] \ Released(d, label))
         \/ handler[d] = "user" /\ "irq" \in holds[d] \ Released(d, label)
<1>1. handler[d] \in Engines \cap holds[d] \/ (handler[d] = "user" /\ "irq" \in holds[d])
  BY DEF HandlerInv
<1>2. handler[d] \in Engines => label # "engines"
  BY DEF MayRelease, EnginesMayGo
<1>3. handler[d] = "user" => label # "irq"
  BY DEF MayRelease
<1>4. label # "engines" => Released(d, label) \cap Engines = {}
  BY DEF Released, BarsMapped, Bars, Files, Engines
<1>5. label # "irq" => "irq" \notin Released(d, label)
  BY DEF Released, BarsMapped, Bars, Files, Engines, DeviceTypes
<1> QED
  BY <1>1, <1>2, <1>3, <1>4, <1>5

LEMMA HandlerNext == ASSUME DeviceTypes, HoldsInv, HandlerInv, Next PROVE HandlerInv'
<1> USE DEF deviceVars
<1>1. ASSUME XdmaInit \/ InitClears \/ XdmaExit \/ ExitDone
             \/ \E d \in Device : RemoveStarts(d) \/ \E f \in Files : OpenFile(d, f) \/ CloseFile(d, f)
      PROVE  HandlerInv'
  <2>1. UNCHANGED <<holds, handler>>
    BY <1>1 DEF XdmaInit, InitClears, XdmaExit, ExitDone, RemoveStarts, OpenFile, CloseFile
  <2> QED
    BY <2>1 DEF HandlerInv
<1>2. ASSUME NEW d \in Device, UNCHANGED handler, \A e \in Device : e # d => holds'[e] = holds[e],
             Capability[d] = "msix" /\ handler[d] # "none" =>
               \/ handler[d] \in Engines \cap holds'[d]
               \/ handler[d] = "user" /\ "irq" \in holds'[d]
      PROVE  HandlerInv'
  BY <1>2 DEF HandlerInv
<1>3. ASSUME NEW d \in Device, Probe(d)
      PROVE  HandlerInv'
  BY <1>2, <1>3 DEF Probe, DeviceTypes
<1>4. ASSUME NEW d \in Device, ProbeStep(d) \/ EventsFails(d)
      PROVE  HandlerInv'
  BY <1>4, ProbeGrows DEF HandlerInv
<1>5. ASSUME NEW d \in Device, ProbeFails(d)
      PROVE  HandlerInv'
  <2>1. /\ UNCHANGED handler
        /\ holds' = [holds EXCEPT ![d] = @ \ OwnUnwind(d)]
        /\ OwnUnwind(d) \cap Engines # {} => EnginesMayGo(d)
    BY <1>5 DEF ProbeFails
  <2>2. "irq" \notin OwnUnwind(d)
    BY DEF OwnUnwind, BarsMapped, Bars, Files, Engines, DeviceTypes
  <2>3. handler[d] \in Engines => OwnUnwind(d) \cap Engines = {}
    BY <2>1 DEF EnginesMayGo
  <2>4. Capability[d] = "msix" /\ handler[d] # "none" =>
          \/ handler[d] \in Engines \cap holds[d]
          \/ handler[d] = "user" /\ "irq" \in holds[d]
    BY DEF HandlerInv
  <2>5. holds'[d] = holds[d] \ OwnUnwind(d) /\ \A e \in Device : e # d => holds'[e] = holds[e]
    BY <2>1 DEF DeviceTypes
  <2> QED
    BY <1>2, <2>1, <2>2, <2>3, <2>4, <2>5
<1>6. ASSUME NEW d \in Device, Unwind(d) \/ RemoveStep(d)
      PROVE  HandlerInv'
  <2>1. PICK label \in {"engines", "irq", "bars", "regions", "intr", "enabled", "lro", "files", "attr"} :
          MayRelease(d, label) /\ holds' = [holds EXCEPT ![d] = @ \ Released(d, label)]
    BY <1>6, ReleaseEffect
  <2>2. holds'[d] = holds[d] \ Released(d, label) /\ \A e \in Device : e # d => holds'[e] = holds[e]
    BY <2>1 DEF DeviceTypes
  <2>3. UNCHANGED handler
    BY <1>6 DEF Unwind, RemoveStep
  <2> QED
    BY <1>2, <2>1, <2>2, <2>3, ReleaseSparesHandler
<1>7. ASSUME NEW d \in Device, HandlerStarts(d)
      PROVE  HandlerInv'
  <2>1. PICK v \in Vectors(d) : handler' = [handler EXCEPT ![d] = v]
    BY <1>7 DEF HandlerStarts
  <2>2. UNCHANGED holds
    BY <1>7 DEF HandlerStarts
  <2>3. Capability[d] = "msix" => \/ v \in Engines \cap holds[d]
                                  \/ v = "user" /\ "irq" \in holds[d]
    BY <2>1 DEF Vectors
  <2> QED
    BY <2>1, <2>2, <2>3 DEF HandlerInv, DeviceTypes
<1>8. ASSUME NEW d \in Device, HandlerEnds(d)
      PROVE  HandlerInv'
  BY <1>8 DEF HandlerEnds, HandlerInv, DeviceTypes
<1> QED
  BY <1>1, <1>3, <1>4, <1>5, <1>6, <1>7, <1>8 DEF Next

(* With MSI-X no handler finds its engine or device gone, on all unwind     *)
(* paths of probe() and in remove() (HandlerFindsMemory).                   *)
THEOREM HandlerAlwaysFindsMemory == Spec => []HandlerFindsMemory
<1>1. Init => HandlerInv
  BY DEF Init, HandlerInv
<1>2. DeviceTypes /\ HoldsInv /\ HandlerInv /\ [Next]_vars => HandlerInv'
  <2>1. ASSUME HandlerInv, UNCHANGED vars PROVE HandlerInv'
    BY <2>1 DEF HandlerInv, vars, deviceVars
  <2> QED
    BY <2>1, HandlerNext
<1>3. DeviceTypes /\ HoldsInv /\ HandlerInv => HandlerFindsMemory
  <2> SUFFICES ASSUME DeviceTypes, HoldsInv, HandlerInv,
                      NEW d \in Device, Capability[d] = "msix", handler[d] # "none", failed[d] # "c2h0"
               PROVE  IF handler[d] = "user" THEN "lro" \in holds[d]
                      ELSE {"lro", handler[d]} \cup Bars \subseteq holds[d]
    BY DEF HandlerFindsMemory
  <2>1. /\ stage[d] \in Stage /\ Holds(d)
        /\ handler[d] \in Engines \cap holds[d] \/ (handler[d] = "user" /\ "irq" \in holds[d])
    BY DEF HandlerInv, HoldsInv, DeviceTypes
  <2>2. \A e \in Engines : e \in holds[d] => {"lro"} \cup Bars \subseteq holds[d]
    <3>1. CASE stage[d] = "probe"
      BY <2>1, <3>1 DEF Holds, ProbeHolds, Took, Engines, Bars
    <3>2. CASE stage[d] = "bound"
      BY <2>1, <3>2 DEF Holds, BoundHolds, Took, Engines, Bars
    <3>3. CASE stage[d] = "unwind"
      BY <2>1, <3>3 DEF Holds, UnwindHolds, Engines, Bars
    <3>4. CASE stage[d] = "remove"
      BY <2>1, <3>4 DEF Holds, RemoveHolds, Engines, Bars
    <3>5. CASE stage[d] = "absent"
      BY <2>1, <3>5 DEF Holds, AbsentHolds
    <3> QED
      BY <2>1, <3>1, <3>2, <3>3, <3>4, <3>5 DEF Stage
  <2>3. "irq" \in holds[d] => "lro" \in holds[d]
    BY <2>1 DEF Holds, ProbeHolds, BoundHolds, UnwindHolds, RemoveHolds, AbsentHolds, Took, Stage
  <2> QED
    BY <2>1, <2>2, <2>3 DEF Engines
<1> QED
  BY <1>1, <1>2, <1>3, HoldsInvHolds, PTL DEF Spec

-----------------------------------------------------------------------------
(* Devices that a step leaves alone keep their numbers, and so does d when  *)
(* it keeps or loses its own.                                               *)
LEMMA InstanceFrame ==
  ASSUME InstanceInv, NEW d \in Device, cleared' = cleared,
         dev_present' = dev_present \/ (instance'[d] = 0 /\ dev_present' = dev_present \ {instance[d]}),
         \A e \in Device : e # d => /\ instance'[e] = instance[e] /\ stage'[e] = stage[e]
                                    /\ step'[e] = step[e] /\ failed'[e] = failed[e],
         instance'[d] \in {0, instance[d]},
         \/ stage'[d] = "absent"
         \/ stage'[d] = "probe" /\ step'[d] <= 12
         \/ stage'[d] = "bound" /\ failed'[d] = "lro"
         => instance'[d] = 0
  PROVE  InstanceInv'
<1>1. \A e \in Device :
        \/ stage'[e] = "absent"
        \/ stage'[e] = "probe" /\ step'[e] <= 12
        \/ stage'[e] = "bound" /\ failed'[e] = "lro"
        => instance'[e] = 0
  BY DEF InstanceInv
<1>2. ASSUME ~cleared'
      PROVE  \A e \in Device : instance'[e] # 0 => instance'[e] \in dev_present'
  <2> SUFFICES ASSUME NEW e \in Device, instance'[e] # 0 PROVE instance'[e] \in dev_present'
    OBVIOUS
  <2>1. instance'[e] = instance[e] /\ instance[e] \in dev_present
    BY <1>2 DEF InstanceInv
  <2>2. CASE dev_present' = dev_present
    BY <2>1, <2>2
  <2>3. CASE instance'[d] = 0 /\ dev_present' = dev_present \ {instance[d]}
    <3>1. e # d
      BY <2>3
    <3>2. instance[e] # instance[d]
      BY <1>2, <2>1, <3>1 DEF InstanceInv, InstancesDistinct
    <3> QED
      BY <2>1, <2>3, <3>2
  <2> QED
    BY <2>2, <2>3
<1>3. ASSUME ~cleared', NEW a \in Device, NEW b \in Device, a # b, instance'[a] # 0
      PROVE  instance'[a] # instance'[b]
  <2>1. instance'[a] = instance[a] /\ instance'[b] \in {0, instance[b]}
    BY <1>3
  <2>2. instance[a] # instance[b]
    BY <1>3, <2>1 DEF InstanceInv, InstancesDistinct
  <2> QED
    BY <1>3, <2>1, <2>2
<1>4. InstancesDistinct'
  BY <1>3 DEF InstancesDistinct
<1> QED
  BY <1>1, <1>2, <1>4 DEF InstanceInv

(* The number a device takes is nobody else's.                              *)
LEMMA InstanceIsTaken ==
  ASSUME DeviceTypes, InstanceInv, NEW d \in Device, TakesInstance(d), cleared' = cleared,
         \A e \in Device : e # d => /\ stage'[e] = stage[e] /\ step'[e] = step[e]
                                    /\ failed'[e] = failed[e],
         stage'[d] = "unwind" \/ (stage'[d] = "probe" /\ step'[d] = 13)
  PROVE  InstanceInv'
<1>1. PICK n \in FreeInstances : /\ instance' = [instance EXCEPT ![d] = n]
                                 /\ dev_present' = dev_present \cup {n}
  BY DEF TakesInstance, Marked
<1>2. n \notin dev_present
  BY DEF FreeInstances
<1>3. instance'[d] = n /\ \A e \in Device : e # d => instance'[e] = instance[e]
  BY <1>1 DEF DeviceTypes
<1>4. \A e \in Device :
        \/ stage'[e] = "absent"
        \/ stage'[e] = "probe" /\ step'[e] <= 12
        \/ stage'[e] = "bound" /\ failed'[e] = "lro"
        => instance'[e] = 0
  BY <1>3 DEF InstanceInv
<1>5. ~cleared' => \A e \in Device : instance'[e] # 0 => instance'[e] \in dev_present'
  BY <1>1, <1>3 DEF InstanceInv
<1>6. ASSUME ~cleared', NEW a \in Device, NEW b \in Device, a # b, instance'[a] # 0
      PROVE  instance'[a] # instance'[b]
  <2>1. n # 0
    BY DeviceConstants DEF FreeInstances, DeviceConstants
  <2>2. \A e \in Device : instance[e] # 0 => instance[e] \in dev_present
    BY <1>6 DEF InstanceInv
  <2>3. CASE a = d
    BY <1>2, <1>3, <1>6, <2>1, <2>2, <2>3
  <2>4. CASE b = d
    BY <1>2, <1>3, <1>6, <2>1, <2>2, <2>4
  <2>5. CASE a # d /\ b # d
    BY <1>3, <1>6, <2>5 DEF InstanceInv, InstancesDistinct
  <2> QED
    BY <2>3, <2>4, <2>5
<1>7. InstancesDistinct'
  BY <1>6 DEF InstancesDistinct
<1> QED
  BY <1>4, <1>5, <1>7 DEF InstanceInv

LEMMA InstanceNext == ASSUME DeviceTypes, HoldsInv, InstanceInv, Next PROVE InstanceInv'
<1> USE DEF deviceVars
<1>1. ASSUME UNCHANGED <<stage, step, failed, instance, dev_present, cleared>>
      PROVE  InstanceInv'
  BY <1>1 DEF InstanceInv, InstancesDistinct
<1>2. ASSUME XdmaInit \/ XdmaExit \/ \E d \in Device : HandlerStarts(d) \/ HandlerEnds(d)
             \/ \E f \in Files : OpenFile(d, f) \/ CloseFile(d, f)
      PROVE  InstanceInv'
  BY <1>1, <1>2 DEF XdmaInit, XdmaExit, HandlerStarts, HandlerEnds, OpenFile, CloseFile
<1>3. ASSUME InitClears
      PROVE  InstanceInv'
  <2>1. UNCHANGED <<stage, step, failed, instance>> /\ (~cleared' => \A d \in Device : instance[d] = 0)
    BY <1>3 DEF InitClears
  <2> QED
    BY <2>1 DEF InstanceInv, InstancesDistinct
<1>4. ASSUME ExitDone
      PROVE  InstanceInv'
  <2>1. UNCHANGED <<stage, step, failed, instance>> /\ \A d \in Device : instance[d] = 0
    BY <1>4 DEF ExitDone, InstanceInv
  <2> QED
    BY <2>1 DEF InstanceInv, InstancesDistinct
<1>5. ASSUME NEW d \in Device, Probe(d)
      PROVE  InstanceInv'
  <2>1. instance[d] = 0 /\ UNCHANGED <<instance, dev_present, cleared>>
    BY <1>5 DEF Probe, InstanceInv
  <2>2. \A e \in Device : e # d => stage'[e] = stage[e] /\ step'[e] = step[e] /\ failed'[e] = failed[e]
    BY <1>5 DEF Probe, DeviceTypes
  <2> QED
    BY <2>1, <2>2, InstanceFrame
<1>6. ASSUME NEW d \in Device, stage[d] = "probe"
      PROVE  /\ step[d] \in 1..15 /\ failed[d] = "none"
             /\ Step(d) = "ctrl" <=> step[d] = 12
             /\ Step(d) = "lro" <=> step[d] = 1
             /\ Step(d) = "events" <=> step[d] = 13
  BY <1>6, StepPlaces DEF HoldsInv, Holds, ProbeHolds, Step
<1>7. ASSUME NEW d \in Device, ProbeStep(d) \/ EventsFails(d)
      PROVE  InstanceInv'
  <2>1. /\ stage[d] = "probe" /\ UNCHANGED <<failed, cleared>> /\ Advance(d)
        /\ step[d] \in 1..15 /\ failed[d] = "none"
    BY <1>6, <1>7 DEF ProbeStep, EventsFails
  <2>2. \A e \in Device : e # d => stage'[e] = stage[e] /\ step'[e] = step[e] /\ failed'[e] = failed[e]
    BY <2>1 DEF Advance, DeviceTypes
  <2>3. IF step[d] = 15 THEN stage'[d] = "bound" ELSE stage'[d] = "probe" /\ step'[d] = step[d] + 1
    <3>1. Len(Steps) = 15
      BY <2>1, StepPlaces
    <3>2. CASE step[d] = 15
      BY <2>1, <3>1, <3>2 DEF Advance, DeviceTypes
    <3>3. CASE step[d] # 15
      BY <2>1, <3>1, <3>3 DEF Advance, DeviceTypes
    <3> QED
      BY <3>2, <3>3
  <2>4. CASE step[d] = 12
    <3>1. TakesInstance(d)
      BY <1>6, <1>7, <2>1, <2>4 DEF ProbeStep, EventsFails
    <3>2. stage'[d] = "probe" /\ step'[d] = 13
      BY <2>3, <2>4
    <3> QED
      BY <2>1, <2>2, <3>1, <3>2, InstanceIsTaken
  <2>5. CASE step[d] # 12
    <3>1. UNCHANGED <<instance, dev_present>>
      BY <1>6, <1>7, <2>1, <2>5 DEF ProbeStep, EventsFails
    <3>2. \/ stage'[d] = "absent"
          \/ stage'[d] = "probe" /\ step'[d] <= 12
          \/ stage'[d] = "bound" /\ failed'[d] = "lro"
          => stage[d] = "probe" /\ step[d] <= 12
      BY <2>1, <2>3, <2>5
    <3>3. \/ stage'[d] = "absent"
          \/ stage'[d] = "probe" /\ step'[d] <= 12
          \/ stage'[d] = "bound" /\ failed'[d] = "lro"
          => instance'[d] = 0
      BY <3>1, <3>2 DEF InstanceInv
    <3> QED
      BY <2>1, <2>2, <3>1, <3>3, InstanceFrame
  <2> QED
    BY <2>4, <2>5
<1>8. ASSUME NEW d \in Device, ProbeFails(d)
      PROVE  InstanceInv'
  <2>1. stage[d] = "probe" /\ UNCHANGED cleared /\ step[d] \in 1..15
    BY <1>6, <1>8 DEF ProbeFails
  <2>2. \A e \in Device : e # d => stage'[e] = stage[e] /\ step'[e] = step[e] /\ failed'[e] = failed[e]
    BY <1>8 DEF ProbeFails, DeviceTypes
  <2>3. stage'[d] = IF step[d] = 1 THEN "bound" ELSE "unwind"
    BY <1>6, <1>8, <2>1 DEF ProbeFails, DeviceTypes
  <2>4. CASE UNCHANGED <<instance, dev_present>>
    <3>1. step[d] = 1 => instance[d] = 0
      BY <2>1 DEF InstanceInv
    <3> QED
      BY <2>1, <2>2, <2>3, <2>4, <3>1, InstanceFrame
  <2>5. CASE Step(d) = "ctrl" /\ TakesInstance(d)
    <3>1. stage'[d] = "unwind"
      BY <1>6, <2>1, <2>3, <2>5
    <3> QED
      BY <2>1, <2>2, <2>5, <3>1, InstanceIsTaken
  <2> QED
    BY <1>8, <2>4, <2>5 DEF ProbeFails
<1>9. ASSUME NEW d \in Device, Unwind(d) \/ RemoveStep(d)
      PROVE  InstanceInv'
  <2>1. PICK last \in BOOLEAN :
          /\ stage[d] \in {"unwind", "remove"}
          /\ stage' = [stage EXCEPT ![d] = IF last THEN "absent" ELSE @]
          /\ instance' = [instance EXCEPT ![d] = IF last THEN 0 ELSE @]
          /\ dev_present' = IF last /\ stage[d] = "remove" THEN dev_present \ {instance[d]} ELSE dev_present
    BY <1>9, ReleaseEffect
  <2>2. UNCHANGED <<failed, cleared>>
    BY <1>9 DEF Unwind, RemoveStep
  <2>3. \A e \in Device : e # d => /\ instance'[e] = instance[e] /\ stage'[e] = stage[e]
                                   /\ step'[e] = step[e] /\ failed'[e] = failed[e]
    BY <1>9, <2>1, <2>2 DEF DeviceTypes, Unwind, RemoveStep, Release
  <2>4. IF last THEN instance'[d] = 0 /\ stage'[d] = "absent"
        ELSE instance'[d] = instance[d] /\ stage'[d] \in {"unwind", "remove"}
    BY <2>1 DEF DeviceTypes
  <2> QED
    BY <2>1, <2>2, <2>3, <2>4, InstanceFrame
<1>10. ASSUME NEW d \in Device, RemoveStarts(d)
       PROVE  InstanceInv'
  <2>1. /\ stage[d] = "bound" /\ UNCHANGED <<step, failed, instance, dev_present, cleared>>
        /\ stage' = [stage EXCEPT ![d] = IF "lro" \in holds[d] THEN "remove" ELSE "absent"]
    BY <1>10 DEF RemoveStarts
  <2>2. "lro" \notin holds[d] => failed[d] = "lro"
    BY <2>1 DEF HoldsInv, Holds, BoundHolds, Took
  <2>3. "lro" \notin holds[d] => instance[d] = 0
    BY <2>1, <2>2 DEF InstanceInv
  <2>4. stage'[d] = IF "lro" \in holds[d] THEN "remove" ELSE "absent"
    BY <2>1 DEF DeviceTypes
  <2>5. \A e \in Device : e # d => stage'[e] = stage[e]
    BY <2>1 DEF DeviceTypes
  <2> QED
    BY <2>1, <2>3, <2>4, <2>5, InstanceFrame
<1> QED
  BY <1>2, <1>3, <1>4, <1>5, <1>7, <1>8, <1>9, <1>10 DEF Next

(* The numbers in the names of the device files are never used twice at a   *)
(* time (InstancesDistinct), unless xdma_init() cleared the table under a   *)
(* device: whichever devices come, fail, leave and come back.               *)
THEOREM InstancesAlwaysDistinct == Spec => []InstancesDistinct
<1>1. Init => InstanceInv
  BY DEF Init, InstanceInv, InstancesDistinct
<1>2. DeviceTypes /\ HoldsInv /\ InstanceInv /\ [Next]_vars => InstanceInv'
  <2>1. ASSUME InstanceInv, UNCHANGED vars PROVE InstanceInv'
    BY <2>1 DEF InstanceInv, InstancesDistinct, vars, deviceVars
  <2> QED
    BY <2>1, InstanceNext
<1>3. InstanceInv => InstancesDistinct
  BY DEF InstanceInv
<1> QED
  BY <1>1, <1>2, <1>3, HoldsInvHolds, PTL DEF Spec
=============================================================================
