------------------------- MODULE DomainStatusProofs -------------------------
(***************************************************************************)
(* Proofs about DomainStatus, for every bound: what the answers of either  *)
(* path say of the host, whenever it is upgraded, fails, or loses the VM.  *)
(*                                                                         *)
(* Answers relates the reply at hand to the statuses the domain has had    *)
(* and to the VM's existence; Served says why a Read that nothing disturbs *)
(* gets a status from one of the two paths.                                *)
(***************************************************************************)
EXTENDS DomainStatus, TLAPS

USE RouteAssumption, BoundsAssumption

------------------------------------------------------------------------------
(* Type correctness.                                                       *)

LEMMA InitTypes == Init => TypeOK
<1> SUFFICES ASSUME Init PROVE TypeOK
  OBVIOUS
<1> USE DEF Init
<1>1. queue \in Seq(Actions) /\ recorded \in {"none", "running", "stopped"}
  OBVIOUS
<1>2. faults \in 0 .. MaxFaults /\ meddling \in 0 .. MaxMeddling
  OBVIOUS
<1> QED
  BY <1>1, <1>2 DEF TypeOK, Statuses, Replies, Done

\* Counting one more below a bound.
LEMMA Counted ==
  ASSUME NEW max \in Nat, NEW n \in 0 .. max, n < max PROVE n + 1 \in 0 .. max
OBVIOUS

LEMMA FaultTypes == ASSUME TypeOK, Fault \/ NoFault PROVE calm' \in BOOLEAN /\ faults' \in 0 .. MaxFaults
BY Counted DEF TypeOK, Fault, NoFault

LEMMA ActTypes == ASSUME TypeOK, Act PROVE TypeOK'
<1>1. actionFor(want) \in Actions
  BY DEF actionFor, Actions
<1>2. queue' \in Seq(Actions)
  <2>1. queue' = queue \/ queue' = Append(queue, actionFor(want))
    BY DEF Act
  <2>2. queue \in Seq(Actions)
    BY DEF TypeOK
  <2> QED
    BY <1>1, <2>1, <2>2
<1>3. pc' \in {"new", "failed"} /\ UNCHANGED <<recorded, want, op, reply, late>>
  BY DEF Act, Accept, Fail
<1>4. calm' \in BOOLEAN /\ faults' \in 0 .. MaxFaults
  BY FaultTypes DEF Act
<1> QED
  BY <1>2, <1>3, <1>4 DEF TypeOK, Act, Done

LEMMA AskTypes == ASSUME TypeOK, AskNew \/ AskOld PROVE TypeOK'
<1>1. pc' \in {"old", "answered"} /\ reply' \in Replies /\ UNCHANGED <<recorded, want, op, late>>
  BY DEF TypeOK, AskNew, AskOld, OnOldPath, Answer, FallBack, Statuses, Replies
<1>2. calm' \in BOOLEAN /\ faults' \in 0 .. MaxFaults
  BY FaultTypes DEF AskNew, AskOld
<1>3. UNCHANGED <<generation, present, domain, queue, seen, meddling>>
  BY DEF AskNew, AskOld, hostVars
<1> QED
  BY <1>1, <1>2, <1>3 DEF TypeOK, Done

LEMMA EndTypes == ASSUME TypeOK, Read \/ Poll PROVE TypeOK'
<1>1. pc' \in Done \cup {"sleep"} /\ recorded' \in {"none", "running", "stopped"}
  BY DEF TypeOK, Read, StateFor, Poll, Polled, Done
<1>2. UNCHANGED <<want, op, reply, late, hostVars, seen, calm, faults, meddling>>
  BY DEF Read, Poll
<1> QED
  BY <1>1, <1>2 DEF TypeOK, hostVars

LEMMA MeddleTypes == ASSUME TypeOK, Meddle PROVE TypeOK'
<1>1. queue' \in Seq(Actions)
  <2>1. queue' = queue \/ queue' = << >>
    BY DEF Meddle
  <2>2. queue \in Seq(Actions) /\ << >> \in Seq(Actions)
    BY DEF TypeOK
  <2> QED
    BY <2>1, <2>2
<1>2. meddling' \in 0 .. MaxMeddling
  <2>1. meddling < MaxMeddling /\ meddling' = meddling + 1
    BY DEF Meddle
  <2> QED
    BY <2>1, Counted DEF TypeOK
<1>3. present' \in BOOLEAN /\ domain' \in Statuses /\ seen' \subseteq Statuses /\ calm' \in BOOLEAN
  BY DEF TypeOK, Meddle, Becomes, Statuses
<1>4. UNCHANGED <<generation, opVars, faults>>
  BY DEF Meddle
<1> QED
  BY <1>1, <1>2, <1>3, <1>4 DEF TypeOK, opVars

LEMMA TypesStep == TypeOK /\ [Next]_vars => TypeOK'
<1> SUFFICES ASSUME TypeOK, [Next]_vars PROVE TypeOK'
  OBVIOUS
<1>1. CASE BeginRead
  BY <1>1 DEF TypeOK, BeginRead, Begin, hostVars, Statuses, Replies, Done
<1>2. CASE BeginApply
  BY <1>2 DEF TypeOK, BeginApply, Begin, hostVars, Statuses, Replies, Done
<1>3. CASE Wake \/ Interrupt \/ Deadline
  BY <1>3 DEF TypeOK, Wake, Interrupt, Deadline, Fail, hostVars, Done
<1>4. CASE RunAction
  BY <1>4 DEF TypeOK, RunAction, Becomes, opVars, Statuses
<1>5. CASE Upgrade
  BY <1>5 DEF TypeOK, Upgrade, opVars
<1>6. CASE UNCHANGED vars
  BY <1>6 DEF TypeOK, vars, hostVars, opVars
<1> QED
  BY <1>1, <1>2, <1>3, <1>4, <1>5, <1>6, ActTypes, AskTypes, EndTypes, MeddleTypes DEF Next, Step

\* The state stays in its types: what is recorded is never a word of the host's.
THEOREM StatusTypes == Spec => []TypeOK
BY InitTypes, TypesStep, PTL DEF Spec

------------------------------------------------------------------------------
(* What the answers mean.                                                  *)

\* A status that has been answered is one the domain has had since the operation
\* began; "not found" is only answered for a VM that is gone.
Answers ==
  /\ present /\ pc # "idle" => domain \in seen
  /\ pc = "answered" /\ reply \in Statuses => reply \in seen
  /\ (UnknownRoute = "page" /\ pc = "answered" /\ reply = "notFound") => ~present
  /\ UnknownRoute = "page" => GoneMeansDeleted
  /\ OkMeansReached

LEMMA AnswersStep == TypeOK /\ Answers /\ [Next]_vars => Answers'
<1> SUFFICES ASSUME TypeOK, Answers, [Next]_vars PROVE Answers'
  OBVIOUS
<1> USE DEF TypeOK, Answers, GoneMeansDeleted, OkMeansReached, Statuses, Replies, Done,
            hostVars, opVars, domainStatusFor
<1>1. CASE BeginRead \/ BeginApply
  BY <1>1 DEF BeginRead, BeginApply, Begin
<1>2. CASE Act
  BY <1>2 DEF Act, Accept, Fail
<1>3. CASE AskNew
  BY <1>3 DEF AskNew, Answer, FallBack
<1>4. CASE AskOld
  BY <1>4 DEF AskOld, OnOldPath, Answer
<1>5. CASE Read
  BY <1>5 DEF Read
<1>6. CASE Poll
  BY <1>6 DEF Poll, Polled
<1>7. CASE Wake \/ Interrupt \/ Deadline
  BY <1>7 DEF Wake, Interrupt, Deadline, Fail
<1>8. CASE RunAction
  BY <1>8 DEF RunAction, Becomes
<1>9. CASE Upgrade
  BY <1>9 DEF Upgrade
<1>10. CASE Meddle
  BY <1>10 DEF Meddle, Becomes
<1>11. CASE UNCHANGED vars
  BY <1>11 DEF vars
<1> QED
  BY <1>1, <1>2, <1>3, <1>4, <1>5, <1>6, <1>7, <1>8, <1>9, <1>10, <1>11 DEF Next, Step

LEMMA AnswersAlways == Spec => []Answers
<1>1. Init => Answers
  BY DEF Init, Answers, GoneMeansDeleted, OkMeansReached
<1> QED
  BY <1>1, InitTypes, TypesStep, AnswersStep, PTL DEF Spec

\* A Create or Update reports success only after the domain has been in the state
\* asked for, on a host of either generation, and also when it has swallowed the
\* action. (vm.go:459-525)
THEOREM StatusReached == Spec => []OkMeansReached
<1>1. Answers => OkMeansReached
  BY DEF Answers
<1> QED
  BY <1>1, AnswersAlways, PTL

\* Where a host answers unknown routes with its page, as the ones met so far do,
\* sylve_vm_power is never dropped from the state while its VM present: upgrades
\* between the two requests of a Read, and failures of either, included.
\* (vm.go:476-502, vm_power_resource.go:148-152)
THEOREM StatusGone == ASSUME UnknownRoute = "page" PROVE Spec => []GoneMeansDeleted
<1>1. Answers => GoneMeansDeleted
  BY DEF Answers
<1> QED
  BY <1>1, AnswersAlways, PTL

------------------------------------------------------------------------------
(* Either generation.                                                      *)

\* While nothing happens to the host, a Read is on the path the host serves, or
\* on its way to it.
Served ==
  (op = "read") =>
    /\ pc \notin {"act", "sleep"}
    /\ calm /\ present =>
         /\ pc = "old" => generation = "old"
         /\ pc = "answered" => reply \in Statuses
         /\ pc \in {"ok", "failed", "gone"} =>
              pc = "ok" /\ recorded \in {"running", "stopped"} /\ domainStatusFor(recorded) \in seen

LEMMA ServedStep == TypeOK /\ Answers /\ Served /\ [Next]_vars => Served'
<1> SUFFICES ASSUME TypeOK, Answers, Served, [Next]_vars PROVE Served'
  OBVIOUS
<1> USE DEF TypeOK, Served, Statuses, Replies, Done, hostVars, opVars, domainStatusFor
<1>1. CASE BeginRead \/ BeginApply
  BY <1>1 DEF BeginRead, BeginApply, Begin
<1>2. CASE Act
  BY <1>2 DEF Act, Accept, Fail
<1>3. CASE AskNew
  BY <1>3 DEF AskNew, Answer, FallBack, Fault, NoFault
<1>4. CASE AskOld
  BY <1>4 DEF AskOld, OnOldPath, Answer, Fault, NoFault
<1>5. CASE Read
  <2>1. pc = "answered" /\ reply \in Statuses => reply \in seen
    BY DEF Answers
  <2> QED
    BY <1>5, <2>1 DEF Read, StateFor
<1>6. CASE Poll
  BY <1>6 DEF Poll, Polled
<1>7. CASE Wake \/ Interrupt \/ Deadline
  BY <1>7 DEF Wake, Interrupt, Deadline, Fail
<1>8. CASE RunAction
  BY <1>8 DEF RunAction, Becomes
<1>9. CASE Upgrade
  BY <1>9 DEF Upgrade
<1>10. CASE Meddle
  BY <1>10 DEF Meddle, Becomes
<1>11. CASE UNCHANGED vars
  BY <1>11 DEF vars
<1> QED
  BY <1>1, <1>2, <1>3, <1>4, <1>5, <1>6, <1>7, <1>8, <1>9, <1>10, <1>11 DEF Next, Step

\* Against a host of either generation, an undisturbed Read of a VM that is there
\* succeeds and records a status that the domain has had. (vm.go:485-502)
THEOREM StatusEitherGeneration == Spec => []EitherGenerationServed
<1>1. Init => Served
  BY DEF Init, Served
<1>2. Spec => []Served
  BY <1>1, InitTypes, TypesStep, AnswersAlways, ServedStep, PTL DEF Spec
<1>3. Served => EitherGenerationServed
  BY DEF Served, EitherGenerationServed
<1> QED
  BY <1>2, <1>3, PTL
=============================================================================
