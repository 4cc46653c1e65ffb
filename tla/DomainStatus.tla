----------------------------- MODULE DomainStatus -----------------------------
(***************************************************************************)
(* One sylve_vm_power against one host, call by call:                      *)
(* GetDomainStatus asks the path of Sylve v0.3.0 and, on any failure, the  *)
(* path of the versions before; WaitForDomainStatus polls it until a       *)
(* deadline; DoVMAction knows the new path only                            *)
(* (src/internal/sylveclient/vm.go:459-525).  A host is of either          *)
(* generation, and may be upgraded at any moment.                          *)
(*                                                                         *)
(* A host answers a route it does not have with UnknownRoute: "page" is    *)
(* the web UI's index.html with a status below 300, what vm.go:485-489     *)
(* found; "missing" would be a 404.  A failed call has its effect by then  *)
(* or never.                                                               *)
(***************************************************************************)
EXTENDS Naturals, Sequences

CONSTANTS UnknownRoute,  \* what a host answers on a route it does not have
          MaxFaults,     \* bound: calls that fail or answer with nothing
          MaxMeddling,   \* bound: VM deleted, power changed at Sylve's UI
          MaxQueue       \* bound: actions waiting at Sylve when an apply begins

ASSUME RouteAssumption == UnknownRoute \in {"page", "missing"}
ASSUME BoundsAssumption == MaxFaults \in Nat /\ MaxMeddling \in Nat /\ MaxQueue \in Nat

VARIABLES generation,  \* Sylve: "old" (before v0.3.0) or "new"
          present,      \* Sylve: is there such a VM
          domain,      \* Sylve: its domain status
          queue,       \* Sylve: actions not carried out yet
          recorded,    \* state of sylve_vm_power
          want,        \* the state that Create or Update is to reach
          op,          \* the operation: Read, or Create/Update
          pc,          \* where it stands
          reply,       \* what GetDomainStatus has returned
          late,        \* has the deadline of the wait passed
          seen,        \* statuses the domain has had since the operation began
          calm,        \* no fault, upgrade or deletion since then
          faults, meddling

hostVars == <<generation, present, domain, queue>>
opVars == <<recorded, want, op, pc, reply, late>>
vars == <<hostVars, opVars, seen, calm, faults, meddling>>

Statuses == {"Running", "Shutoff"}
Replies == Statuses \cup {"blank", "error", "notFound"}
Actions == {"start", "stop"}
Done == {"idle", "ok", "failed", "gone"}

TypeOK ==
  /\ generation \in {"old", "new"} /\ present \in BOOLEAN /\ domain \in Statuses
  /\ queue \in Seq(Actions)
  /\ recorded \in {"none", "running", "stopped"} /\ want \in {"running", "stopped"}
  /\ op \in {"read", "apply"} /\ pc \in Done \cup {"act", "new", "old", "answered", "sleep"}
  /\ reply \in Replies /\ late \in BOOLEAN
  /\ seen \subseteq Statuses /\ calm \in BOOLEAN
  /\ faults \in 0 .. MaxFaults /\ meddling \in 0 .. MaxMeddling

\* A VM there is, on a host of either generation; its power state is imported,
\* or not under Terraform's control yet.
Init ==
  /\ generation \in {"old", "new"} /\ present = TRUE /\ domain \in Statuses /\ queue = << >>
  /\ recorded \in {"none", IF domain = "Running" THEN "running" ELSE "stopped"}
  /\ want = "running" /\ op = "read" /\ pc = "idle"
  /\ reply = "blank" /\ late = FALSE
  /\ seen = {} /\ calm = TRUE
  /\ faults = 0 /\ meddling = 0

domainStatusFor(state) == IF state = "running" THEN "Running" ELSE "Shutoff"
actionFor(state) == IF state = "running" THEN "start" ELSE "stop"

Fault == faults < MaxFaults /\ faults' = faults + 1 /\ calm' = FALSE
NoFault == UNCHANGED <<faults, calm>>

------------------------------------------------------------------------------
(* The operations of sylve_vm_power.                                       *)

Begin(which, at) ==
  /\ pc \in Done
  /\ op' = which /\ pc' = at
  /\ late' = FALSE /\ reply' = "blank"
  /\ seen' = {domain} /\ calm' = TRUE
  /\ UNCHANGED <<recorded, hostVars, faults, meddling>>

BeginRead == recorded # "none" /\ Begin("read", "new") /\ UNCHANGED want

\* Create, or Update to another state than the one just read: a Read that
\* fails ends Terraform's plan.
BeginApply ==
  /\ recorded = "none" \/ (op = "read" /\ pc = "ok")
  /\ Len(queue) < MaxQueue
  /\ Begin("apply", "act")
  /\ want' \in {"running", "stopped"} \ {recorded}

Fail ==
  /\ pc' = "failed"
  /\ UNCHANGED <<recorded, want, op, reply, late>>

\* DoVMAction has no `out`: any answer below 300 will do.
Accept ==
  /\ pc' = "new"
  /\ UNCHANGED <<recorded, want, op, reply, late>>

Act ==
  /\ pc = "act"
  /\ \/ /\ NoFault
        /\ CASE generation = "new" /\ present ->
                  Accept /\ queue' = Append(queue, actionFor(want))
             [] generation = "old" /\ UnknownRoute = "page" ->
                  Accept /\ UNCHANGED queue
             [] OTHER -> Fail /\ UNCHANGED queue
     \/ /\ Fault
        /\ Fail
        /\ queue' \in {queue} \cup (IF generation = "new" /\ present
                                    THEN {Append(queue, actionFor(want))} ELSE {})
  /\ UNCHANGED <<generation, present, domain, seen, meddling>>

Answer(r) == pc' = "answered" /\ reply' = r /\ UNCHANGED <<recorded, want, op, late>>

\* Mutation of FallBack: the error of the new path is returned.
FallBackNot == Answer("error")

FallBack == pc' = "old" /\ UNCHANGED <<recorded, want, op, reply, late>>

\* The new path; every failure of it goes on to the old one.  A 2xx answer with
\* an empty body is a success that leaves the status empty.
AskNew ==
  /\ pc = "new"
  /\ \/ /\ NoFault
        /\ IF generation = "new" /\ present THEN Answer(domain) ELSE FallBack
     \/ Fault /\ (FallBack \/ Answer("blank"))
  /\ UNCHANGED <<hostVars, seen, meddling>>

\* Mutation of OnOldPath: a status that cannot be read is taken for a VM gone.
OnOldPathGone ==
  CASE generation = "old" /\ present -> domain
    [] OTHER -> "notFound"

\* What the old path says.
OnOldPath ==
  CASE generation = "old" /\ present -> domain
    [] generation = "old" /\ ~present -> "notFound"
    [] generation = "new" -> IF UnknownRoute = "page" THEN "error" ELSE "notFound"

AskOld ==
  /\ pc = "old"
  /\ \/ NoFault /\ Answer(OnOldPath)
     \/ Fault /\ (Answer("error") \/ Answer("blank"))
  /\ UNCHANGED <<hostVars, seen, meddling>>

\* Mutation of StateFor: the host's own word is recorded.
StateForVerbatim(status) == status

StateFor(status) == IF status = "Running" THEN "running" ELSE "stopped"

\* The end of Read.
Read ==
  /\ pc = "answered" /\ op = "read"
  /\ CASE reply = "notFound" -> pc' = "gone" /\ recorded' = "none"
       [] reply = "error" -> pc' = "failed" /\ UNCHANGED recorded
       [] OTHER -> pc' = "ok" /\ recorded' = StateFor(reply)
  /\ UNCHANGED <<want, op, reply, late, hostVars, seen, calm, faults, meddling>>

\* Mutation of Polled: any answer without an error ends the wait.
PolledAnything ==
  IF reply \notin {"error", "notFound"}
  THEN pc' = "ok" /\ recorded' = want
  ELSE pc' = (IF late THEN "failed" ELSE "sleep") /\ UNCHANGED recorded

\* Mutation of Polled: a failing query is repeated without a look at the clock.
PolledForEver ==
  CASE reply = domainStatusFor(want) -> pc' = "ok" /\ recorded' = want
    [] reply \in {"error", "notFound"} -> pc' = "sleep" /\ UNCHANGED recorded
    [] OTHER -> pc' = (IF late THEN "failed" ELSE "sleep") /\ UNCHANGED recorded

\* One turn of the wait: the status wanted, or the deadline, or a pause.
Polled ==
  IF reply = domainStatusFor(want)
  THEN pc' = "ok" /\ recorded' = want
  ELSE pc' = (IF late THEN "failed" ELSE "sleep") /\ UNCHANGED recorded

Poll ==
  /\ pc = "answered" /\ op = "apply"
  /\ Polled
  /\ UNCHANGED <<want, op, reply, late, hostVars, seen, calm, faults, meddling>>

\* The two seconds are over; or Terraform is interrupted.
Wake ==
  /\ pc = "sleep"
  /\ pc' = "new"
  /\ UNCHANGED <<recorded, want, op, reply, late, hostVars, seen, calm, faults, meddling>>

Interrupt ==
  /\ pc = "sleep"
  /\ Fail
  /\ UNCHANGED <<hostVars, seen, calm, faults, meddling>>

Deadline ==
  /\ pc \notin Done /\ op = "apply" /\ ~late
  /\ late' = TRUE
  /\ UNCHANGED <<recorded, want, op, pc, reply, hostVars, seen, calm, faults, meddling>>

------------------------------------------------------------------------------
(* The host and its operator.                                              *)

Becomes(status) == domain' = status /\ seen' = seen \cup {status}

RunAction ==
  /\ queue # << >>
  /\ queue' = Tail(queue)
  /\ Becomes(IF Head(queue) = "start" THEN "Running" ELSE "Shutoff")
  /\ UNCHANGED <<generation, present, opVars, calm, faults, meddling>>

Upgrade ==
  /\ generation = "old"
  /\ generation' = "new"
  /\ calm' = FALSE
  /\ UNCHANGED <<present, domain, queue, opVars, seen, faults, meddling>>

\* An operator deletes the VM, or starts or stops it.
Meddle ==
  /\ meddling < MaxMeddling
  /\ meddling' = meddling + 1
  /\ present
  /\ \/ /\ present' = FALSE /\ queue' = << >> /\ domain' = "Shutoff" /\ calm' = FALSE
        /\ UNCHANGED seen
     \/ /\ \E s \in Statuses : Becomes(s)
        /\ UNCHANGED <<present, queue, calm>>
  /\ UNCHANGED <<generation, opVars, faults>>

------------------------------------------------------------------------------

Step == Act \/ AskNew \/ AskOld \/ Read \/ Poll \/ Wake

Next ==
  \/ BeginRead \/ BeginApply
  \/ Step \/ Interrupt \/ Deadline
  \/ RunAction \/ Upgrade \/ Meddle

Spec == Init /\ [][Next]_vars

\* The goroutine runs, time passes, Sylve works, and somebody plans again.
FairSpec ==
  /\ Spec
  /\ WF_vars(Step)
  /\ WF_vars(Deadline)
  /\ WF_vars(RunAction)
  /\ WF_vars(BeginRead)

------------------------------------------------------------------------------
(* Properties.                                                             *)

\* A Create or Update that reports success has had the domain in the state it
\* was to reach, also where the host has swallowed the action without carrying
\* it out (an old host's page is a success to a call without `out`): the wait
\* makes up for what DoVMAction cannot know.  (client.go:203-208)
OkMeansReached == (pc = "ok" /\ op = "apply") => domainStatusFor(want) \in seen

\* The resource is dropped from the state only when the VM is gone; not
\* because a host is of the other generation, is being upgraded between the two
\* requests, or fails.  (vm_power_resource.go:148-152)
GoneMeansDeleted == pc = "gone" => ~present

\* Against a host of either generation, a Read during which nothing fails,
\* nobody upgrades the host and the VM is there succeeds, and records a status
\* that the domain has had meanwhile: "self-adapting per-host".  (vm.go:485-494)
EitherGenerationServed ==
  (op = "read" /\ pc \in {"ok", "failed", "gone"} /\ calm /\ present) =>
    pc = "ok" /\ \E s \in seen : domainStatusFor(recorded) = s

\* Every Read, Create and Update returns; the wait has a deadline, whatever the
\* host answers.  (vm.go:504-525)
EveryOpReturns == (pc \notin Done) ~> (pc \in Done)

\* "resources' Read implementations use this to detect out-of-band deletion"
\* (client.go:118-119): a deleted VM's power state leaves the recorded state.
DeletionDetected == (~present /\ recorded # "none") ~> (recorded = "none")
==============================================================================
