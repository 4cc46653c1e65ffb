------------------------------- MODULE VmDisks -------------------------------
(***************************************************************************)
(* sylve_vm_storage (src/internal/provider/vm_storage_resource.go) beside  *)
(* the two resources of VmLifecycle.  Sylve attaches, changes and detaches *)
(* a disk only while the domain is Shutoff, and this resource "does not    *)
(* stop/start the VM for you" (:69-70): whether a call is refused depends  *)
(* on what Update of sylve_vm and sylve_vm_power have done before.         *)
(*                                                                         *)
(* The disk's rid refers to the sylve_vm: Terraform detaches a disk that   *)
(* is to be replaced before it updates the VM, and attaches or changes one *)
(* afterwards.  sylve_vm_power has a depends_on on the disk, as in         *)
(* README.md:266-272, or nothing orders the two.  As in VmLifecycle, a     *)
(* failed call has its effect by then or never.                            *)
(***************************************************************************)
EXTENDS VmLifecycle

CONSTANTS Sources,    \* bound: what the disk is made from; a change replaces it
          Settings    \* bound: boot order, emulation and the like; changed in place

VARIABLES ordered,    \* does sylve_vm_power depend on the disk?
          diskConfig, \* the disk in the configuration
          diskPlan,   \* the disk in the plan of the running apply
          diskState,  \* recorded state of sylve_vm_storage
          diskPc,     \* where its Create, Update or Delete stands
          disk        \* Sylve: the disk attached

diskVars == <<ordered, diskConfig, diskPlan, diskState, diskPc, disk>>
allVars == <<vars, diskVars>>

NoDisk == [source |-> "none", setting |-> "none"]
Disk == [source : Sources, setting : Settings]
DiskDone == {"idle", "ok", "failed", "refused", "skipped"}
DiskBusy == {"attach", "update", "detach", "reattach"}

DiskTypeOK ==
  /\ TypeOK
  /\ ordered \in BOOLEAN
  /\ diskConfig \in Disk /\ diskPlan \in Disk
  /\ diskState \in Disk \cup {NoDisk} /\ disk \in Disk \cup {NoDisk}
  /\ diskPc \in DiskDone \cup DiskBusy

DiskInit ==
  /\ Init
  /\ ordered \in BOOLEAN
  /\ diskConfig \in Disk /\ diskPlan = diskConfig
  /\ disk \in {NoDisk, diskConfig} /\ diskState = disk
  /\ diskPc = "idle"

------------------------------------------------------------------------------
(* Refresh and plan.                                                       *)

PlannedDisk ==
  CASE disk = NoDisk -> "attach"
    [] disk # NoDisk /\ disk.source # diskConfig.source -> "detach"
    [] disk # NoDisk /\ disk.source = diskConfig.source ->
         IF disk = diskConfig THEN "idle" ELSE "update"

\* Read of the three resources, then the plan.
BeginAll ==
  /\ diskPc \in DiskDone
  /\ BeginApply
  /\ diskPlan' = diskConfig
  /\ diskState' = disk
  /\ diskPc' = PlannedDisk
  /\ UNCHANGED <<ordered, diskConfig, disk>>

\* One edit may change the VM, its power state and the disk together.
EditAll ==
  /\ Finished /\ diskPc \in DiskDone
  /\ edits < MaxEdits
  /\ edits' = edits + 1
  /\ config' \in Config /\ diskConfig' \in Disk
  /\ <<config', diskConfig'>> # <<config, diskConfig>>
  /\ UNCHANGED <<refers, terraformVars, serverVars, faults, meddling>>
  /\ UNCHANGED <<ordered, diskPlan, diskState, diskPc, disk>>

------------------------------------------------------------------------------
(* The disk's operations.                                                  *)

MayDisk == diskPc = "detach" \/ (diskPc \in DiskBusy /\ vmPc \in {"idle", "ok"})

\* Mutation of Carried: an update sends none of the settings.
CarriedEmpty == disk' = CASE diskPc = "detach" -> NoDisk
                          [] diskPc = "update" -> disk
                          [] OTHER -> diskPlan

\* AttachStorage, UpdateStorage and DetachStorage as Sylve carries them out.
Carried == disk' = IF diskPc = "detach" THEN NoDisk ELSE diskPlan

\* A replacement attaches once it has detached.
NextPlace == IF diskPc = "detach" THEN "reattach" ELSE "ok"

DiskCall ==
  /\ MayDisk
  /\ domain = "Shutoff"
  /\ Carried
  /\ diskState' = disk'
  /\ diskPc' = NextPlace
  /\ UNCHANGED <<vars, ordered, diskConfig, diskPlan>>

\* 409 domain_state_not_shutoff: a diagnostic; the prior state is kept.
DiskRefused ==
  /\ MayDisk
  /\ domain # "Shutoff"
  /\ diskPc' = "refused"
  /\ UNCHANGED <<vars, ordered, diskConfig, diskPlan, diskState, disk>>

\* The call fails, with or without its effect.  (An attached disk that was not
\* recorded is an object of its own: Provisioning.)
DiskFault ==
  /\ MayDisk
  /\ faults < MaxFaults
  /\ faults' = faults + 1
  /\ diskPc' = "failed"
  /\ \/ UNCHANGED disk
     \/ domain = "Shutoff" /\ diskPc \in {"update", "detach"} /\ Carried
  /\ UNCHANGED <<refers, config, terraformVars, serverVars, edits, meddling>>
  /\ UNCHANGED <<ordered, diskConfig, diskPlan, diskState>>

\* Terraform skips what depends on a resource that failed.
DiskSkip ==
  /\ diskPc \in DiskBusy \ {"detach"}
  /\ vmPc \in {"failed", "refused"}
  /\ diskPc' = "skipped"
  /\ UNCHANGED <<vars, ordered, diskConfig, diskPlan, diskState, disk>>

------------------------------------------------------------------------------
(* sylve_vm's Update waits for the disk that goes; sylve_vm_power for the  *)
(* disk that comes, where it depends on it.                                *)

MayUpdateVm == diskPc \notin {"detach", "failed", "refused"}

VmUpdateAfterDetach == MayUpdateVm /\ VmUpdate /\ UNCHANGED diskVars

VmFaultAfterDetach == MayUpdateVm /\ VmFault /\ UNCHANGED diskVars

\* The old disk could not be detached: the VM's Update does not run.
VmSkipForDisk ==
  /\ vmPc \in {"push", "stop"}
  /\ diskPc \in {"failed", "refused"}
  /\ vmPc' = "failed"
  /\ UNCHANGED <<refers, config, plan, vmState, powerState, todo, stops, powerPc, serverVars, bounds>>
  /\ UNCHANGED diskVars

\* Mutation of DiskFirst: depends_on is ignored.
DiskFirstIgnored == TRUE

DiskFirst == (ordered /\ powerPc = "queue") => diskPc \in {"idle", "ok"}

PowerUpdateAfterDisk == DiskFirst /\ (PowerUpdate \/ PowerFault) /\ UNCHANGED diskVars

PowerSkipForDisk ==
  /\ powerPc = "queue"
  /\ ordered /\ diskPc \in {"failed", "refused", "skipped"}
  /\ powerPc' = "skipped"
  /\ UNCHANGED <<refers, config, plan, vmState, powerState, vmPc, todo, stops, serverVars, bounds>>
  /\ UNCHANGED diskVars

DiskStep == DiskCall \/ DiskRefused \/ DiskSkip

DiskNext ==
  \/ BeginAll \/ EditAll
  \/ VmUpdateAfterDetach \/ VmFaultAfterDetach \/ VmSkipForDisk
  \/ PowerUpdateAfterDisk \/ PowerSkipForDisk
  \/ DiskStep \/ DiskFault
  \/ (RunAction \/ ActionFails \/ Meddle) /\ UNCHANGED diskVars

DiskSpec == DiskInit /\ [][DiskNext]_allVars

\* The fairness of VmLifecycle, and the disk's worker runs.
FairDiskSpec ==
  /\ DiskSpec
  /\ WF_allVars(BeginAll)
  /\ WF_allVars(VmUpdateAfterDetach \/ VmSkipForDisk)
  /\ WF_allVars((DiskFirst /\ PowerUpdate /\ UNCHANGED diskVars) \/ PowerSkipForDisk)
  /\ WF_allVars(DiskStep)
  /\ WF_allVars(RunAction /\ UNCHANGED diskVars)

------------------------------------------------------------------------------
(* Properties.                                                             *)

\* The apply that first boots a VM attaches its disk first: with the README's order,
\* where the rid of sylve_vm_power refers to the sylve_vm and a depends_on names the
\* disk, a VM that was off when the apply was planned, and that its own Update need
\* not restart, never has the disk refused.  Without the reference a start that an
\* earlier apply left in the queue may boot the VM in between.  (README.md:250-272)
FirstBootInOrder ==
  (diskPc = "refused" /\ ordered /\ refers /\ Undisturbed)
    => (powerState = "running" \/ stops > 0)

\* With the same order a replacement does not end half way, the old disk removed
\* for good (vm_storage.go:134-138) and the new one refused, unless a call failed,
\* somebody else started the VM, or the VM's own Update restarted it in between.
NoHalfReplacement ==
  [][ (diskPc = "reattach" /\ diskPc' = "refused")
        => ~(ordered /\ refers /\ Undisturbed) \/ stops > 0 ]_allVars

\* Where nothing orders the disk and the power state, a configuration that
\* keeps the VM stopped is reached in the end, its disk and the attributes that need
\* the VM Shutoff included.  If the rid of sylve_vm_power refers to the sylve_vm, this
\* takes configurations that do not replace the disk and change the VM at once:
\* the refused detach stops the VM's Update, and that one the power state's.
StoppedInConfig == <>[](config.power = "stopped")
DiskArrives == <>[](disk = diskConfig /\ diskState = diskConfig)
OneAtATime == [](diskPc = "detach" => vmPc = "idle")
StoppedVmArrives ==
  ~ordered /\ (refers => OneAtATime) => (StoppedInConfig => (DiskArrives /\ <>[]Converged))

\* "Updatable in place" (vm_storage_resource.go:144) for a disk of a VM that the
\* configuration keeps stopped, with the depends_on of the README.
OrderedDiskArrives == ordered => (StoppedInConfig => DiskArrives)
==============================================================================
