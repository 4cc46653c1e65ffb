----------------------------- MODULE VmLifecycle -----------------------------
(***************************************************************************)
(* One virtual machine under Terraform: sylve_vm's Update                  *)
(* (src/internal/provider/vm_resource.go) and sylve_vm_power               *)
(* (src/internal/provider/vm_power_resource.go), which change the same     *)
(* domain through Sylve's queue of lifecycle actions.                      *)
(*                                                                         *)
(* Update pushes nine groups of attributes one call after another, and two *)
(* more (VNC, cloud-init) that Sylve accepts only while the domain is      *)
(* Shutoff, inside one stop / wait / edit / start / wait.  Any call may    *)
(* fail, before or after it took effect (the "netError" of ApiCall), and   *)
(* any wait may time out: Update then returns and its prior state is kept. *)
(* A failed call has its effect by then or never, and a Read finds what    *)
(* Sylve has: late effects and empty answers are in Updates.               *)
(*                                                                         *)
(* Terraform applies again and again: it refreshes the recorded state      *)
(* (Read), plans, and updates what differs.  Sylve and the operator at     *)
(* Sylve's own UI are modelled from how the code uses and describes them.  *)
(***************************************************************************)
EXTENDS Naturals, Sequences, FiniteSets

CONSTANTS Changing,      \* bound: the attribute groups a configuration changes
          Values,        \* bound: the values of a group
          PowerWords,    \* the values of sylve_vm_power.state in configurations
          PowerManaged,  \* is there a sylve_vm_power for this VM?
          Referring,     \* whether its rid refers to the sylve_vm: a set of answers
          MaxEdits,      \* bound: changes of the configuration
          MaxFaults,     \* bound: failed calls, failed actions and expired waits
          MaxMeddling    \* bound: power changes made outside Terraform

\* The order of the pushes in Update; the last two need the VM Shutoff.
PushOrder == << "name", "description", "cpu", "ram", "timeOffset", "serial",
                "tpm", "qga", "boot", "vnc", "cloudInit" >>
Offline == {"vnc", "cloudInit"}

ASSUME ChangingAssumption == \A g \in Changing : \E i \in DOMAIN PushOrder : PushOrder[i] = g
ASSUME PowerManagedAssumption == PowerManaged \in BOOLEAN /\ Referring \subseteq BOOLEAN
ASSUME BoundsAssumption == MaxEdits \in Nat /\ MaxFaults \in Nat /\ MaxMeddling \in Nat

VARIABLES refers,     \* does the rid of sylve_vm_power refer to the sylve_vm?
          config,     \* what the user's configuration says: [vm, power]
          plan,       \* the configuration the running apply was planned from
          vmState,    \* recorded state of sylve_vm
          powerState, \* recorded state of sylve_vm_power
          vmPc,       \* where Update of sylve_vm stands
          todo,       \* groups that differ and are not pushed yet
          stops,      \* times this Update has queued a stop
          powerPc,    \* where Update of sylve_vm_power stands
          live,       \* Sylve: the VM's configuration
          domain,     \* Sylve: the domain status
          queue,      \* Sylve: lifecycle actions not carried out yet
          edits, faults, meddling   \* how much of each bound is used

terraformVars == <<plan, vmState, powerState, vmPc, todo, stops, powerPc>>
serverVars == <<live, domain, queue>>
bounds == <<edits, faults, meddling>>
vars == <<refers, config, terraformVars, serverVars, bounds>>

VmConfig == [Changing -> Values]
Config == [vm : VmConfig, power : PowerWords]
Actions == {"start", "stop"}
VmDone == {"idle", "ok", "failed", "refused"}
PowerDone == {"idle", "ok", "failed", "skipped"}

TypeOK ==
  /\ refers \in BOOLEAN
  /\ config \in Config
  /\ plan \in Config
  /\ vmState \in VmConfig
  /\ powerState \in PowerWords \cup {"running", "stopped"}
  /\ vmPc \in VmDone \cup {"push", "stop", "waitOff", "edit", "start", "waitOn"}
  /\ todo \in SUBSET Changing
  /\ stops \in Nat
  /\ powerPc \in PowerDone \cup {"queue", "wait"}
  /\ live \in VmConfig
  /\ domain \in {"Running", "Shutoff"}
  /\ queue \in Seq(Actions)
  /\ edits \in 0 .. MaxEdits /\ faults \in 0 .. MaxFaults /\ meddling \in 0 .. MaxMeddling

\* An existing VM that Terraform has recorded, running or not.
Init ==
  /\ refers \in Referring
  /\ config \in {c \in Config : \A g \in Changing : c.vm[g] = CHOOSE v \in Values : TRUE}
  /\ plan = config
  /\ vmState = config.vm
  /\ live = config.vm
  /\ domain \in {"Running", "Shutoff"}
  /\ powerState = IF domain = "Running" THEN "running" ELSE "stopped"
  /\ vmPc = "idle" /\ todo = {} /\ stops = 0 /\ powerPc = "idle"
  /\ queue = << >>
  /\ edits = 0 /\ faults = 0 /\ meddling = 0

Rank(g) == CHOOSE i \in DOMAIN PushOrder : PushOrder[i] = g
First(groups) == CHOOSE g \in groups : \A h \in groups : Rank(g) <= Rank(h)

------------------------------------------------------------------------------
(* Terraform: refresh, plan, apply.                                        *)

Finished == vmPc \in VmDone /\ powerPc \in PowerDone

\* sylve_vm_power's Read: every status other than Running counts as stopped.
ObservedPower == IF domain = "Running" THEN "running" ELSE "stopped"

\* Where Update goes on when the groups in `left` are still to be pushed.
AfterPush(left) == IF left \ Offline # {} THEN "push"
                   ELSE IF left # {} THEN "stop" ELSE "ok"

\* Mutation of BeginApply: sylve_vm_power's Read trusts the recorded state.
BeginApplyTrusting ==
  /\ Finished
  /\ plan' = config
  /\ vmState' = live
  /\ UNCHANGED powerState
  /\ todo' = {g \in Changing : config.vm[g] # live[g]}
  /\ stops' = 0
  /\ vmPc' = IF todo' = {} THEN "idle" ELSE AfterPush(todo')
  /\ powerPc' = IF PowerManaged /\ config.power # powerState' THEN "queue" ELSE "idle"
  /\ UNCHANGED <<refers, config, serverVars, bounds>>

\* Read of both resources, then the plan: what differs gets an Update.
BeginApply ==
  /\ Finished
  /\ plan' = config
  /\ vmState' = live
  /\ powerState' = ObservedPower
  /\ todo' = {g \in Changing : config.vm[g] # live[g]}
  /\ stops' = 0
  /\ vmPc' = IF todo' = {} THEN "idle" ELSE AfterPush(todo')
  /\ powerPc' = IF PowerManaged /\ config.power # ObservedPower THEN "queue" ELSE "idle"
  /\ UNCHANGED <<refers, config, serverVars, bounds>>

EditConfig ==
  /\ Finished
  /\ edits < MaxEdits
  /\ edits' = edits + 1
  /\ \E c \in Config \ {config} : config' = c
  /\ UNCHANGED <<refers, terraformVars, serverVars, faults, meddling>>

------------------------------------------------------------------------------
(* Update of sylve_vm.                                                     *)

\* Update succeeds, and the plan becomes the recorded state.
RecordIfDone == vmState' = IF vmPc' = "ok" THEN plan.vm ELSE vmState

\* A SetVM call as Sylve carries it out: the whole group is replaced.
SetVM(g) == live' = [live EXCEPT ![g] = plan.vm[g]]

\* Mutation of Push: a push that is skipped still counts as made.
PushForgettingCpu ==
  /\ vmPc = "push"
  /\ LET g == First(todo \ Offline) IN
       /\ todo' = todo \ {g}
       /\ live' = IF g = "cpu" THEN live ELSE [live EXCEPT ![g] = plan.vm[g]]
  /\ vmPc' = AfterPush(todo')
  /\ RecordIfDone
  /\ UNCHANGED <<refers, config, plan, powerState, stops, powerPc, domain, queue, bounds>>

Push ==
  /\ vmPc = "push"
  /\ LET g == First(todo \ Offline) IN
       /\ todo' = todo \ {g}
       /\ SetVM(g)
  /\ vmPc' = AfterPush(todo')
  /\ RecordIfDone
  /\ UNCHANGED <<refers, config, plan, powerState, stops, powerPc, domain, queue, bounds>>

QueueStop ==
  /\ vmPc = "stop"
  /\ queue' = Append(queue, "stop")
  /\ stops' = stops + 1
  /\ vmPc' = "waitOff"
  /\ UNCHANGED <<refers, config, plan, vmState, powerState, todo, powerPc, live, domain, bounds>>

\* Mutation of SawShutoff: a queued stop is taken for a finished one.
SawStopQueued ==
  /\ vmPc = "waitOff"
  /\ vmPc' = "edit"
  /\ UNCHANGED <<refers, config, plan, vmState, powerState, todo, stops, powerPc, serverVars, bounds>>

\* WaitForDomainStatus returns at the first poll that shows the status wanted,
\* whatever is still in the queue.
SawShutoff ==
  /\ vmPc = "waitOff"
  /\ domain = "Shutoff"
  /\ vmPc' = "edit"
  /\ UNCHANGED <<refers, config, plan, vmState, powerState, todo, stops, powerPc, serverVars, bounds>>

\* Mutation of AfterEdit: each of the two groups stops the VM for itself.
AfterEditOwnStop(left) == IF left = {} THEN "start" ELSE "stop"

AfterEdit(left) == IF left = {} THEN "start" ELSE "edit"

\* SetVMVNC, then SetVMCloudInit.
Edit ==
  /\ vmPc = "edit"
  /\ domain = "Shutoff"
  /\ LET g == First(todo) IN
       /\ todo' = todo \ {g}
       /\ SetVM(g)
  /\ vmPc' = AfterEdit(todo')
  /\ UNCHANGED <<refers, config, plan, vmState, powerState, stops, powerPc, domain, queue, bounds>>

\* 409 domain_state_not_shutoff.
EditRefused ==
  /\ vmPc = "edit"
  /\ domain # "Shutoff"
  /\ vmPc' = "refused"
  /\ UNCHANGED <<refers, config, plan, vmState, powerState, todo, stops, powerPc, serverVars, bounds>>

QueueStart ==
  /\ vmPc = "start"
  /\ queue' = Append(queue, "start")
  /\ vmPc' = "waitOn"
  /\ UNCHANGED <<refers, config, plan, vmState, powerState, todo, stops, powerPc, live, domain, bounds>>

SawRunning ==
  /\ vmPc = "waitOn"
  /\ domain = "Running"
  /\ vmPc' = "ok"
  /\ RecordIfDone
  /\ UNCHANGED <<refers, config, plan, powerState, todo, stops, powerPc, serverVars, bounds>>

\* Mutation of VmFault: the error of a push is not returned, Update goes on.
VmFaultIgnored ==
  /\ vmPc \in {"push", "stop", "edit", "start", "waitOff", "waitOn"}
  /\ faults < MaxFaults
  /\ faults' = faults + 1
  /\ IF vmPc = "push"
     THEN /\ todo' = todo \ {First(todo \ Offline)}
          /\ vmPc' = AfterPush(todo')
          /\ RecordIfDone
     ELSE /\ vmPc' = "failed"
          /\ UNCHANGED <<todo, vmState>>
  /\ UNCHANGED <<refers, config, plan, powerState, stops, powerPc, serverVars, edits, meddling>>

\* A call fails or a wait expires: Update adds a diagnostic and returns, and
\* the prior state is kept.  A call that failed may have taken effect.
VmFault ==
  /\ vmPc \in {"push", "stop", "edit", "start", "waitOff", "waitOn"}
  /\ faults < MaxFaults
  /\ faults' = faults + 1
  /\ vmPc' = "failed"
  /\ \/ UNCHANGED <<live, queue>>
     \/ /\ vmPc = "push"
        /\ LET g == First(todo \ Offline) IN SetVM(g)
        /\ UNCHANGED queue
     \/ /\ vmPc = "edit" /\ domain = "Shutoff"
        /\ LET g == First(todo) IN SetVM(g)
        /\ UNCHANGED queue
     \/ /\ vmPc \in Actions
        /\ queue' = Append(queue, vmPc)
        /\ UNCHANGED live
  /\ UNCHANGED <<refers, config, plan, vmState, powerState, todo, stops, powerPc, domain, edits, meddling>>

\* The wait's deadline passes for a status the domain will not reach by itself:
\* the action that should have brought it failed, or was undone.
VmWaitExpires ==
  /\ vmPc \in {"waitOff", "waitOn"}
  /\ queue = << >>
  /\ domain # (IF vmPc = "waitOff" THEN "Shutoff" ELSE "Running")
  /\ vmPc' = "failed"
  /\ UNCHANGED <<refers, config, plan, vmState, powerState, todo, stops, powerPc, serverVars, bounds>>

------------------------------------------------------------------------------
(* Update (and Create) of sylve_vm_power.  Where its rid refers to the     *)
(* sylve_vm, Terraform runs it once the VM's own Update has succeeded;     *)
(* with a number in its place, nothing orders the two.                     *)

MayPower == refers => vmPc \in {"idle", "ok"}

\* Mutation of ActionFor: the configured word itself is sent as the action.
ActionForVerbatim(word) == word

\* applyState: "running" starts the VM, every other word stops it.
ActionFor(word) == IF word = "running" THEN "start" ELSE "stop"
StatusFor(word) == IF word = "running" THEN "Running" ELSE "Shutoff"

PowerQueue ==
  /\ powerPc = "queue"
  /\ MayPower
  /\ queue' = Append(queue, ActionFor(plan.power))
  /\ powerPc' = "wait"
  /\ UNCHANGED <<refers, config, plan, vmState, powerState, vmPc, todo, stops, live, domain, bounds>>

PowerReached ==
  /\ powerPc = "wait"
  /\ domain = StatusFor(plan.power)
  /\ powerPc' = "ok"
  /\ powerState' = plan.power
  /\ UNCHANGED <<refers, config, plan, vmState, vmPc, todo, stops, serverVars, bounds>>

PowerFault ==
  /\ powerPc \in {"queue", "wait"}
  /\ MayPower
  /\ faults < MaxFaults
  /\ faults' = faults + 1
  /\ powerPc' = "failed"
  /\ queue' \in {queue} \cup (IF powerPc = "queue" THEN {Append(queue, ActionFor(plan.power))} ELSE {})
  /\ UNCHANGED <<refers, config, plan, vmState, powerState, vmPc, todo, stops, live, domain, edits, meddling>>

PowerWaitExpires ==
  /\ powerPc = "wait"
  /\ queue = << >>
  /\ domain # StatusFor(plan.power)
  /\ powerPc' = "failed"
  /\ UNCHANGED <<refers, config, plan, vmState, powerState, vmPc, todo, stops, serverVars, bounds>>

\* Terraform skips what depends on a resource that failed.
PowerSkip ==
  /\ powerPc = "queue"
  /\ refers
  /\ vmPc \in {"failed", "refused"}
  /\ powerPc' = "skipped"
  /\ UNCHANGED <<refers, config, plan, vmState, powerState, vmPc, todo, stops, serverVars, bounds>>

------------------------------------------------------------------------------
(* Sylve, its operator and the guest.                                      *)

\* Queued actions are carried out in order; one that asks for the status the
\* domain has already does nothing.
RunAction ==
  /\ queue # << >>
  /\ queue' = Tail(queue)
  /\ domain' = IF Head(queue) = "start" THEN "Running" ELSE "Shutoff"
  /\ UNCHANGED <<refers, config, terraformVars, live, bounds>>

ActionFails ==
  /\ queue # << >>
  /\ faults < MaxFaults
  /\ faults' = faults + 1
  /\ queue' = Tail(queue)
  /\ UNCHANGED <<refers, config, terraformVars, live, domain, edits, meddling>>

\* An operator starts or stops the VM, or the guest powers itself off.
Meddle ==
  /\ meddling < MaxMeddling
  /\ meddling' = meddling + 1
  /\ \/ /\ \E a \in Actions : queue' = Append(queue, a)
        /\ UNCHANGED domain
     \/ /\ domain = "Running"
        /\ domain' = "Shutoff"
        /\ UNCHANGED queue
  /\ UNCHANGED <<refers, config, terraformVars, live, edits, faults>>

------------------------------------------------------------------------------

VmUpdate == \/ Push \/ QueueStop \/ SawShutoff \/ Edit \/ EditRefused
            \/ QueueStart \/ SawRunning \/ VmWaitExpires
PowerUpdate == PowerQueue \/ PowerReached \/ PowerSkip \/ PowerWaitExpires

Next ==
  \/ BeginApply \/ EditConfig
  \/ VmUpdate \/ VmFault
  \/ PowerUpdate \/ PowerFault
  \/ RunAction \/ ActionFails \/ Meddle

Spec == Init /\ [][Next]_vars

(***************************************************************************)
(* Sylve works its queue off, Terraform's workers run, a wait expires (it  *)
(* has a deadline of two minutes), and the user applies again.  Nobody has *)
(* to meddle, to edit the configuration, or to fail.                       *)
(***************************************************************************)
FairSpec ==
  /\ Spec
  /\ WF_vars(BeginApply)
  /\ WF_vars(VmUpdate)
  /\ WF_vars(PowerUpdate)
  /\ WF_vars(RunAction)

------------------------------------------------------------------------------
(* Properties.                                                             *)

Undisturbed == meddling = 0 /\ faults = 0

\* Update never has an edit refused because the VM is not Shutoff, whatever
\* combination of groups one apply changes, unless somebody else changed the
\* power state or an earlier action came late: "avoids this exact collision
\* for good".  (vm_resource.go:611-628)
NoSelfCollision == (vmPc = "refused" /\ (refers \/ ~PowerManaged)) => ~Undisturbed

\* One Update stops the VM once at most, however many of the groups that need
\* it Shutoff have changed: "avoids the double restart". (vm_resource.go:624-628)
AtMostOneRestart == stops <= 1

\* What sylve_vm's state records once Update has returned without an error is
\* what Sylve has, also when earlier applies failed half way.
\* (vm_resource.go:552-673)
RecordedIsLive == vmPc \in {"idle", "ok"} => vmState = live /\ live = plan.vm

\* An Update that fails leaves a prefix of the changes behind: no group is
\* changed when an earlier one in Update's order is not.  (vm_resource.go:552-660)
FailureLeavesPrefix ==
  vmPc \in {"failed", "refused"} =>
    \A g, h \in Changing :
      (Rank(g) < Rank(h) /\ plan.vm[h] # vmState[h] /\ live[h] = plan.vm[h])
        => live[g] = plan.vm[g]

\* Once the configuration is left alone and nothing fails any more, repeated
\* applies make the VM, its power state and both records what the
\* configuration says, whatever was left half done before.  It takes the
\* reference: without it sylve_vm_power may start the VM between Update's stop and
\* its edits, again and again.
Converged ==
  /\ live = config.vm /\ vmState = config.vm
  /\ PowerManaged => powerState = config.power /\ domain = StatusFor(config.power)
EventuallyConverges == refers => <>[]Converged

\* What the descriptions say of a VM that is stopped and is to stay stopped:
\* an apply that reports success leaves the power state as configured.  (The
\* attributes' descriptions speak of "a brief guest reboot",
\* vm_resource.go:187-190.)
SuccessKeepsPower ==
  (PowerManaged /\ vmPc \in {"idle", "ok"} /\ powerPc \in {"idle", "ok"}
     /\ plan = config /\ queue = << >> /\ Undisturbed /\ stops > 0)
    => domain = StatusFor(plan.power)

\* "stops the VM, applies the change, and starts it back up again"
\* (vm_resource.go:187-190): a running VM that Update stops runs again.
RebootIsBrief == (vmPc = "waitOff" /\ domain = "Running") ~> (vmPc # "waitOff" /\ domain = "Running")

\* "Not validated client-side; an invalid value is rejected server-side"
\* (vm_power_resource.go): no invalid word is ever applied successfully.
InvalidPowerRejected == powerPc = "ok" => plan.power \in {"running", "stopped"}
==============================================================================
