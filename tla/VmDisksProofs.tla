---------------------------- MODULE VmDisksProofs ----------------------------
(***************************************************************************)
(* Proofs about VmDisks, for every set of disks, groups and values and     *)
(* every bound.                                                            *)
(*                                                                         *)
(* What VmLifecycleProofs proves of the queue (Calm) holds beside a disk   *)
(* too: sylve_vm's Update and sylve_vm_power wait for the disk, and never  *)
(* take a step they would not take alone.  DetachFirst and PowerLast say   *)
(* what waits for what.  StillOff is the heart: as long as the disk is not *)
(* where the plan wants it, a VM that was off stays off, with nothing in   *)
(* the queue that would start it.                                          *)
(***************************************************************************)
EXTENDS VmDisks, VmLifecycleProofs

USE BoundsAssumption

------------------------------------------------------------------------------
(* Type correctness.                                                       *)

LEMMA DiskInitTypes == DiskInit => DiskTypeOK
BY InitTypes DEF DiskInit, DiskTypeOK, DiskDone

\* Every step is one of the two other resources' or Sylve's, or leaves what they
\* hold alone, or is a fault of the disk, a change of the configuration, or the
\* skipping of what depends on the disk.
LEMMA StepOfOthers ==
  ASSUME [DiskNext]_allVars
  PROVE  [Next]_vars \/ EditAll \/ VmSkipForDisk \/ PowerSkipForDisk \/ DiskFault
BY DEF DiskNext, Next, BeginAll, VmUpdateAfterDetach, VmFaultAfterDetach, PowerUpdateAfterDisk,
   DiskStep, DiskCall, DiskRefused, DiskSkip, allVars

LEMMA DiskTypesStep == DiskTypeOK /\ [DiskNext]_allVars => DiskTypeOK'
<1> SUFFICES ASSUME DiskTypeOK, [DiskNext]_allVars PROVE DiskTypeOK'
  OBVIOUS
<1> USE DEF DiskTypeOK
<1>1. TypeOK'
  <2>1. CASE [Next]_vars
    BY <2>1, TypesStep
  <2>2. CASE EditAll
    <3>1. edits' \in 0 .. MaxEdits /\ config' \in Config
      BY <2>2 DEF EditAll, TypeOK
    <3> QED
      BY <2>2, <3>1 DEF EditAll, TypeOK, terraformVars, serverVars
  <2>3. CASE VmSkipForDisk
    BY <2>3 DEF VmSkipForDisk, TypeOK, VmDone, serverVars, bounds
  <2>4. CASE PowerSkipForDisk
    BY <2>4 DEF PowerSkipForDisk, TypeOK, PowerDone, serverVars, bounds
  <2>5. CASE DiskFault
    <3>1. faults' \in 0 .. MaxFaults
      BY <2>5 DEF DiskFault, TypeOK
    <3> QED
      BY <2>5, <3>1 DEF DiskFault, TypeOK, terraformVars, serverVars
  <2> QED
    BY <2>1, <2>2, <2>3, <2>4, <2>5, StepOfOthers
<1>2. CASE UNCHANGED diskVars
  BY <1>1, <1>2 DEF diskVars
<1>3. CASE BeginAll
  BY <1>1, <1>3 DEF BeginAll, PlannedDisk, DiskDone, DiskBusy
<1>4. CASE EditAll
  BY <1>1, <1>4 DEF EditAll
<1>5. CASE DiskCall
  BY <1>1, <1>5 DEF DiskCall, Carried, NextPlace, DiskDone, DiskBusy
<1>6. CASE DiskRefused \/ DiskSkip
  BY <1>1, <1>6 DEF DiskRefused, DiskSkip, DiskDone
<1>7. CASE DiskFault
  BY <1>1, <1>7 DEF DiskFault, Carried, DiskDone
<1> QED
  BY <1>2, <1>3, <1>4, <1>5, <1>6, <1>7
  DEF DiskNext, VmUpdateAfterDetach, VmFaultAfterDetach, VmSkipForDisk, PowerUpdateAfterDisk,
      PowerSkipForDisk, DiskStep, allVars

\* What the three resources record and Sylve holds stays in its types.
THEOREM DiskTypes == DiskSpec => []DiskTypeOK
BY DiskInitTypes, DiskTypesStep, PTL DEF DiskSpec

------------------------------------------------------------------------------
(* The queue, beside a disk.                                               *)

LEMMA CalmBesideDisk == DiskTypeOK /\ Calm /\ [DiskNext]_allVars => Calm'
<1> SUFFICES ASSUME TypeOK, Calm, [DiskNext]_allVars PROVE Calm'
  BY DEF DiskTypeOK
<1>1. CASE [Next]_vars
  BY <1>1, CalmStep
<1>2. UNCHANGED <<domain, queue>> => Quiet' = Quiet /\ \A a \in Actions : Toward(a)' = Toward(a)
  BY DEF Quiet, Toward
<1>3. "stop" \in Actions /\ "start" \in Actions /\ ActionFor(plan.power) \in Actions
  BY DEF ActionFor, Actions
<1>4. CASE EditAll
  <2>1. UNCHANGED <<refers, faults, meddling, vmPc, powerPc, plan, domain, queue>>
    BY <1>4 DEF EditAll, terraformVars, serverVars
  <2> QED
    BY <1>2, <1>3, <2>1 DEF Calm, Undisturbed
<1>5. CASE VmSkipForDisk
  <2>1. /\ UNCHANGED <<refers, faults, meddling, powerPc, plan, domain, queue>>
        /\ vmPc \in {"push", "stop"} /\ vmPc' = "failed"
    BY <1>5 DEF VmSkipForDisk, serverVars, bounds
  <2> QED
    BY <1>2, <2>1 DEF Calm, Undisturbed
<1>6. CASE PowerSkipForDisk
  <2>1. /\ UNCHANGED <<refers, faults, meddling, vmPc, plan, domain, queue>>
        /\ powerPc = "queue" /\ powerPc' = "skipped"
    BY <1>6 DEF PowerSkipForDisk, serverVars, bounds
  <2> QED
    BY <1>2, <1>3, <2>1 DEF Calm, Undisturbed
<1>7. CASE DiskFault
  <2>1. faults' # 0
    BY <1>7 DEF DiskFault, TypeOK
  <2> QED
    BY <2>1 DEF Calm, Undisturbed
<1> QED
  BY <1>1, <1>4, <1>5, <1>6, <1>7, StepOfOthers

------------------------------------------------------------------------------
(* The order of the disk, the VM's own Update and the power state.         *)

\* sylve_vm's Update has queued nothing while the disk that goes is still there.
DetachFirst == diskPc = "detach" => vmPc \in {"idle", "push", "stop"}

\* Whoever depends on the disk waits for a status only once the disk is settled.
PowerLast == ordered /\ powerPc = "wait" => diskPc \in {"idle", "ok"}

\* Nobody has failed, interfered or restarted the VM, and the README's order holds.
InOrderSoFar == Undisturbed /\ refers /\ ordered /\ stops = 0

\* The disk is not where the plan wants it, and the VM was off when the apply was
\* planned, or was off when the old disk was detached.
DiskComes == diskPc = "reattach" \/ (powerState # "running" /\ diskPc \notin {"idle", "ok"})

\* The VM is off and nothing is under way that would start it.
Off == /\ domain = "Shutoff" /\ Quiet
       /\ vmPc \in {"idle", "push", "stop", "ok", "failed"}
       /\ powerPc # "wait"

StillOff == InOrderSoFar /\ DiskComes => Off /\ diskPc # "refused"

DiskOrder == DetachFirst /\ PowerLast /\ StillOff

LEMMA InitDiskOrder == DiskInit => DiskOrder
BY DEF DiskInit, Init, DiskOrder, DetachFirst, PowerLast, StillOff, DiskComes

\* What leaves the VM, its queue and both Updates alone leaves it off.
LEMMA OffKept == ASSUME Off, UNCHANGED <<domain, queue, vmPc, powerPc>> PROVE Off'
BY DEF Off, Quiet

\* What starts nothing and settles or breaks no order keeps the order.
LEMMA OrderKept ==
  ASSUME DiskOrder, Off => Off', InOrderSoFar' => InOrderSoFar,
         UNCHANGED <<ordered, powerState, diskPc>>,
         diskPc = "detach" => vmPc' \in {"idle", "push", "stop"},
         powerPc' = "wait" => powerPc = "wait"
  PROVE  DiskOrder'
BY DEF DiskOrder, DetachFirst, PowerLast, StillOff, DiskComes

LEMMA DiskOrderStep ==
  DiskTypeOK /\ Calm /\ DiskOrder /\ [DiskNext]_allVars => DiskOrder'
<1> SUFFICES ASSUME DiskTypeOK, Calm, DiskOrder, [DiskNext]_allVars PROVE DiskOrder'
  OBVIOUS
<1>a. DetachFirst /\ PowerLast /\ StillOff
  BY DEF DiskOrder
<1>b. faults \in Nat /\ meddling \in Nat /\ stops \in Nat
  BY DEF DiskTypeOK, TypeOK
<1>1. CASE BeginAll
  <2>1. /\ vmPc' \in {"idle", "push", "stop"} /\ powerPc' \in {"idle", "queue"}
        /\ UNCHANGED <<refers, domain, queue, faults, meddling>>
        /\ powerState' = ObservedPower
    BY <1>1 DEF BeginAll, BeginApply, AfterPush, serverVars, bounds
  <2>2. diskPc' \notin {"refused", "reattach"}
    BY <1>1 DEF BeginAll, PlannedDisk
  <2>3. InOrderSoFar' => Quiet
    BY <1>1, <2>1 DEF Calm, InOrderSoFar, Undisturbed, BeginAll, BeginApply, Finished, VmDone,
       PowerDone
  <2>4. Quiet' = Quiet
    BY <2>1 DEF Quiet
  <2>5. powerState' # "running" => domain' = "Shutoff"
    BY <2>1 DEF ObservedPower, DiskTypeOK, TypeOK
  <2> QED
    BY <2>1, <2>2, <2>3, <2>4, <2>5 DEF DiskOrder, DetachFirst, PowerLast, StillOff, DiskComes, Off
<1>2. CASE EditAll
  <2>1. /\ UNCHANGED <<refers, faults, meddling, ordered, stops, powerState, diskPc>>
        /\ UNCHANGED <<domain, queue, vmPc, powerPc>>
    BY <1>2 DEF EditAll, terraformVars, serverVars
  <2> QED
    BY <1>a, <2>1, OffKept, OrderKept DEF DetachFirst, InOrderSoFar, Undisturbed
<1>3. CASE VmUpdateAfterDetach
  <2>1. /\ diskPc # "detach" /\ UNCHANGED <<ordered, diskPc>>
        /\ UNCHANGED <<refers, faults, meddling, powerState, powerPc, domain>>
    BY <1>3 DEF VmUpdateAfterDetach, MayUpdateVm, diskVars, bounds, serverVars, VmUpdate, Push,
       QueueStop, SawShutoff, Edit, EditRefused, QueueStart, SawRunning, VmWaitExpires
  <2>2. CASE QueueStop
    <3>1. stops' # 0
      BY <1>b, <2>2 DEF QueueStop
    <3> QED
      BY <1>a, <2>1, <3>1 DEF DiskOrder, DetachFirst, PowerLast, StillOff, InOrderSoFar
  <2>3. CASE ~QueueStop
    <3>1. stops' = stops
      BY <1>3, <2>3 DEF VmUpdateAfterDetach, serverVars, VmUpdate, Push, SawShutoff, Edit,
         EditRefused, QueueStart, SawRunning, VmWaitExpires
    <3>2. CASE Push
      <4>1. UNCHANGED queue /\ vmPc' \in {"push", "stop", "ok"}
        BY <3>2 DEF Push, AfterPush
      <4> QED
        BY <2>1, <3>1, <4>1, OrderKept DEF Off, Quiet, InOrderSoFar, Undisturbed
    <3>3. CASE vmPc \in {"waitOff", "edit", "start", "waitOn"}
      BY <2>1, <3>1, <3>3, OrderKept DEF Off, InOrderSoFar, Undisturbed
    <3> QED
      BY <1>3, <2>3, <3>2, <3>3 DEF VmUpdateAfterDetach, VmUpdate, SawShutoff, Edit, EditRefused,
         QueueStart, SawRunning, VmWaitExpires
  <2> QED
    BY <2>2, <2>3
<1>4. CASE VmSkipForDisk
  <2>1. /\ UNCHANGED <<refers, faults, meddling, ordered, stops, powerState, diskPc>>
        /\ UNCHANGED <<domain, queue, powerPc>> /\ vmPc' = "failed" /\ diskPc # "detach"
    BY <1>4 DEF VmSkipForDisk, diskVars, serverVars, bounds
  <2> QED
    BY <2>1, OrderKept DEF Off, Quiet, InOrderSoFar, Undisturbed
<1>5. CASE PowerUpdateAfterDisk /\ PowerUpdate
  <2>1. /\ UNCHANGED <<refers, faults, meddling, ordered, stops, diskPc, vmPc, domain>>
        /\ DiskFirst
    BY <1>5 DEF PowerUpdateAfterDisk, PowerUpdate, PowerQueue, PowerReached, PowerSkip,
       PowerWaitExpires, diskVars, serverVars, bounds
  <2>2. CASE PowerSkip
    <3>1. UNCHANGED <<powerState, queue>> /\ powerPc' = "skipped"
      BY <2>2 DEF PowerSkip, serverVars
    <3> QED
      BY <1>a, <2>1, <3>1, OrderKept DEF DetachFirst, Off, Quiet, InOrderSoFar, Undisturbed
  <2>3. CASE ~PowerSkip
    <3>1. ordered => diskPc \in {"idle", "ok"}
      BY <1>5, <1>a, <2>1, <2>3 DEF PowerUpdate, PowerQueue, PowerReached, PowerWaitExpires,
         DiskFirst, PowerLast
    <3> QED
      BY <1>a, <2>1, <3>1 DEF DiskOrder, DetachFirst, PowerLast, StillOff, InOrderSoFar, DiskComes
  <2> QED
    BY <2>2, <2>3
<1>6. CASE PowerSkipForDisk
  <2>1. /\ UNCHANGED <<refers, faults, meddling, ordered, stops, powerState, diskPc, vmPc>>
        /\ UNCHANGED <<domain, queue>> /\ powerPc' = "skipped"
    BY <1>6 DEF PowerSkipForDisk, diskVars, serverVars, bounds
  <2> QED
    BY <1>a, <2>1, OrderKept DEF DetachFirst, Off, Quiet, InOrderSoFar, Undisturbed
<1>7. CASE DiskStep
  <2>1. UNCHANGED vars /\ UNCHANGED ordered /\ diskPc' # "detach" /\ diskPc \in DiskBusy
    BY <1>7 DEF DiskStep, DiskCall, NextPlace, DiskRefused, DiskSkip, MayDisk, DiskBusy
  <2>2. UNCHANGED <<refers, faults, meddling, stops, powerState, domain, queue, vmPc, powerPc>>
    BY <2>1 DEF vars, terraformVars, serverVars, bounds
  <2>3. (InOrderSoFar' => InOrderSoFar) /\ (Off => Off')
    BY <2>1, <2>2, OffKept DEF InOrderSoFar, Undisturbed
  <2>4. DetachFirst' /\ PowerLast'
    BY <1>a, <2>1, <2>2 DEF DetachFirst, PowerLast, DiskBusy
  <2>5. CASE DiskCall /\ diskPc = "detach"
    <3>1. InOrderSoFar => Off
      BY <1>a, <2>5 DEF InOrderSoFar, DiskCall, DetachFirst, PowerLast, Off, Calm
    <3>2. diskPc' = "reattach"
      BY <2>5 DEF DiskCall, NextPlace
    <3> QED
      BY <2>3, <2>4, <3>1, <3>2 DEF DiskOrder, StillOff
  <2>6. CASE DiskCall /\ diskPc # "detach"
    <3>1. diskPc' = "ok"
      BY <2>6 DEF DiskCall, NextPlace
    <3> QED
      BY <2>4, <3>1 DEF DiskOrder, StillOff, DiskComes
  <2>7. CASE DiskRefused \/ DiskSkip
    <3>1. DiskComes' => DiskComes
      BY <2>1, <2>2, <2>7 DEF DiskRefused, DiskSkip, DiskComes, DiskBusy
    <3>2. InOrderSoFar' /\ DiskComes' => Off
      BY <1>a, <2>3, <3>1 DEF StillOff
    <3>3. Off => diskPc' = "skipped"
      BY <2>7 DEF Off, DiskRefused, DiskSkip
    <3> QED
      BY <2>3, <2>4, <3>2, <3>3 DEF DiskOrder, StillOff
  <2> QED
    BY <1>7, <2>5, <2>6, <2>7 DEF DiskStep
<1>8. CASE RunAction /\ UNCHANGED diskVars
  <2>1. UNCHANGED <<refers, faults, meddling, ordered, stops, powerState, diskPc, vmPc, powerPc>>
    BY <1>8 DEF RunAction, terraformVars, bounds, diskVars
  <2>2. Off => Off'
    BY <1>8, <2>1, RunQuiet DEF Off, DiskTypeOK
  <2> QED
    BY <1>a, <2>1, <2>2, OrderKept DEF DetachFirst, InOrderSoFar, Undisturbed
<1>9. CASE VmFaultAfterDetach \/ (PowerUpdateAfterDisk /\ PowerFault) \/ DiskFault
           \/ ((ActionFails \/ Meddle) /\ UNCHANGED diskVars)
  <2>1. ~Undisturbed'
    BY <1>9, <1>b DEF VmFaultAfterDetach, VmFault, PowerFault, DiskFault, ActionFails, Meddle,
       Undisturbed
  <2>2. diskPc' = "detach" => diskPc = "detach" /\ vmPc' = vmPc
    BY <1>9 DEF VmFaultAfterDetach, MayUpdateVm, PowerUpdateAfterDisk, PowerFault, DiskFault,
       ActionFails, Meddle, diskVars, terraformVars
  <2>3. (powerPc' = "wait" => powerPc = "wait") /\ ordered' = ordered
    BY <1>9 DEF VmFaultAfterDetach, VmFault, PowerUpdateAfterDisk, PowerFault, DiskFault,
       ActionFails, Meddle, diskVars, terraformVars
  <2>4. diskPc \in {"idle", "ok"} => diskPc' = diskPc
    BY <1>9 DEF VmFaultAfterDetach, PowerUpdateAfterDisk, DiskFault, MayDisk, DiskBusy, diskVars
  <2> QED
    BY <1>a, <2>1, <2>2, <2>3, <2>4 DEF DiskOrder, DetachFirst, PowerLast, StillOff, InOrderSoFar
<1>10. CASE UNCHANGED allVars
  <2>1. /\ UNCHANGED <<refers, faults, meddling, ordered, stops, powerState, diskPc>>
        /\ UNCHANGED <<domain, queue, vmPc, powerPc>>
    BY <1>10 DEF allVars, vars, diskVars, terraformVars, serverVars, bounds
  <2> QED
    BY <1>a, <2>1, OffKept, OrderKept DEF DetachFirst, InOrderSoFar, Undisturbed
<1> QED
  BY <1>1, <1>2, <1>3, <1>4, <1>5, <1>6, <1>7, <1>8, <1>9, <1>10 DEF DiskNext, PowerUpdateAfterDisk

\* Through any number of applies and changes of the configuration, what waits for
\* the disk waits, and a VM that was off stays off until the disk is settled.
THEOREM DiskBeforeBoot == DiskSpec => [](DiskTypeOK /\ Calm /\ DiskOrder)
<1>1. DiskInit => DiskTypeOK /\ Calm /\ DiskOrder
  BY DiskInitTypes, InitCalm, InitDiskOrder DEF DiskInit
<1>2. DiskTypeOK /\ Calm /\ DiskOrder /\ [DiskNext]_allVars => (DiskTypeOK /\ Calm /\ DiskOrder)'
  BY DiskTypesStep, CalmBesideDisk, DiskOrderStep
<1> QED
  BY <1>1, <1>2, PTL DEF DiskSpec

\* With the README's order, as long as nothing fails and nobody else changes the
\* power state, an apply of a VM that is off never has its disk refused, unless the
\* VM's own Update restarts it. (README.md:250-272)
THEOREM FirstBootHasDisk == DiskSpec => []FirstBootInOrder
<1>1. DiskTypeOK /\ Calm /\ DiskOrder => FirstBootInOrder
  <2> SUFFICES ASSUME DiskTypeOK, DiskOrder, diskPc = "refused", ordered, refers, Undisturbed,
                      stops = 0
               PROVE  powerState = "running"
    BY DEF FirstBootInOrder, DiskTypeOK, TypeOK
  <2> QED
    BY DEF DiskOrder, StillOff, InOrderSoFar, DiskComes
<1> QED
  BY <1>1, DiskBeforeBoot, PTL

\* With the same order, a replacement whose old disk is gone is not refused the new
\* one, unless the VM's own Update restarted it. (vm_storage_resource.go:334,
\* vm_storage.go:134-138)
THEOREM ReplacementIsWhole == DiskSpec => NoHalfReplacement
<1>1. DiskTypeOK /\ Calm /\ DiskOrder /\ [DiskNext]_allVars
        => [ (diskPc = "reattach" /\ diskPc' = "refused")
               => ~(ordered /\ refers /\ Undisturbed) \/ stops > 0 ]_allVars
  <2> SUFFICES ASSUME DiskTypeOK, DiskOrder, [DiskNext]_allVars,
                      diskPc = "reattach", diskPc' = "refused",
                      ordered, refers, Undisturbed, stops = 0
               PROVE  FALSE
    BY DEF DiskTypeOK, TypeOK
  <2>1. domain = "Shutoff"
    BY DEF DiskOrder, StillOff, InOrderSoFar, DiskComes, Off
  <2>2. domain # "Shutoff"
    BY DEF DiskNext, BeginAll, PlannedDisk, EditAll, VmUpdateAfterDetach, VmFaultAfterDetach,
       VmSkipForDisk, PowerUpdateAfterDisk, PowerSkipForDisk, DiskStep, DiskCall, NextPlace,
       DiskRefused, DiskSkip, DiskFault, DiskDone, diskVars, allVars
  <2> QED
    BY <2>1, <2>2
<1> QED
  BY <1>1, DiskBeforeBoot, PTL DEF NoHalfReplacement, DiskSpec
==============================================================================
