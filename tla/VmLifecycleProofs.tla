-------------------------- MODULE VmLifecycleProofs --------------------------
(***************************************************************************)
(* Proofs about VmLifecycle, for every set of attribute groups, every set  *)
(* of values and every bound.                                              *)
(*                                                                         *)
(* Progress says, at each place of sylve_vm's Update, which groups are     *)
(* pushed and which still differ; the safety properties of Update follow.  *)
(* Calm says what Sylve's queue holds as long as nothing fails and nobody  *)
(* interferes: only actions that change nothing, but for the last, which   *)
(* is the one being waited for.                                            *)
(***************************************************************************)
EXTENDS VmLifecycle, TLAPS

USE ChangingAssumption, PowerManagedAssumption, BoundsAssumption DEF SetVM

------------------------------------------------------------------------------
(* Type correctness.                                                       *)

LEMMA InitTypes == Init => TypeOK
<1> SUFFICES ASSUME Init PROVE TypeOK
  OBVIOUS
<1> USE DEF Init
<1>1. config \in Config
  OBVIOUS
<1>2. config.vm \in VmConfig
  BY <1>1 DEF Config
<1> QED
  BY <1>1, <1>2 DEF TypeOK, VmDone, PowerDone

\* A pushed group is a value of the configuration's.
LEMMA PushTyped ==
  ASSUME TypeOK, NEW g PROVE [live EXCEPT ![g] = plan.vm[g]] \in VmConfig
BY DEF TypeOK, Config, VmConfig

LEMMA TypesStep == TypeOK /\ [Next]_vars => TypeOK'
<1> SUFFICES ASSUME TypeOK, [Next]_vars PROVE TypeOK'
  OBVIOUS
<1> USE DEF TypeOK, VmDone, PowerDone, terraformVars, serverVars, bounds
<1>1. CASE BeginApply
  <2>1. config.vm \in VmConfig /\ config.power \in PowerWords
    BY DEF Config
  <2> QED
    BY <1>1, <2>1 DEF BeginApply, ObservedPower, AfterPush
<1>2. CASE EditConfig
  BY <1>2 DEF EditConfig
<1>3. CASE Push
  <2>1. live' \in VmConfig
    BY <1>3, PushTyped DEF Push
  <2>2. plan.vm \in VmConfig
    BY DEF Config
  <2> QED
    BY <1>3, <2>1, <2>2 DEF Push, AfterPush, RecordIfDone
<1>4. CASE QueueStop
  BY <1>4 DEF QueueStop, Actions
<1>5. CASE SawShutoff
  BY <1>5 DEF SawShutoff
<1>6. CASE Edit
  <2>1. live' \in VmConfig
    BY <1>6, PushTyped DEF Edit
  <2> QED
    BY <1>6, <2>1 DEF Edit, AfterEdit
<1>7. CASE EditRefused
  BY <1>7 DEF EditRefused
<1>8. CASE QueueStart
  BY <1>8 DEF QueueStart, Actions
<1>9. CASE SawRunning
  <2>1. plan.vm \in VmConfig
    BY DEF Config
  <2> QED
    BY <1>9, <2>1 DEF SawRunning, RecordIfDone
<1>10. CASE VmWaitExpires
  BY <1>10 DEF VmWaitExpires
<1>11. CASE VmFault
  <2>1. live' \in VmConfig
    BY <1>11, PushTyped DEF VmFault
  <2>2. queue' \in Seq(Actions)
    BY <1>11 DEF VmFault
  <2> QED
    BY <1>11, <2>1, <2>2 DEF VmFault
<1>12. CASE PowerQueue
  BY <1>12 DEF PowerQueue, ActionFor, Actions
<1>13. CASE PowerReached
  BY <1>13 DEF PowerReached, Config
<1>14. CASE PowerSkip
  BY <1>14 DEF PowerSkip
<1>15. CASE PowerWaitExpires
  BY <1>15 DEF PowerWaitExpires
<1>16. CASE PowerFault
  <2>1. queue' \in Seq(Actions)
    BY <1>16 DEF PowerFault, ActionFor, Actions
  <2> QED
    BY <1>16, <2>1 DEF PowerFault
<1>17. CASE RunAction
  BY <1>17 DEF RunAction
<1>18. CASE ActionFails
  BY <1>18 DEF ActionFails
<1>19. CASE Meddle
  BY <1>19 DEF Meddle
<1>20. CASE UNCHANGED vars
  BY <1>20 DEF vars
<1> QED
  BY <1>1, <1>2, <1>3, <1>4, <1>5, <1>6, <1>7, <1>8, <1>9, <1>10, <1>11, <1>12, <1>13,
     <1>14, <1>15, <1>16, <1>17, <1>18, <1>19, <1>20 DEF Next, VmUpdate, PowerUpdate

\* What the variables of both resources' Updates and of Sylve hold stays in its
\* types, through failures and restarts of both.
THEOREM VmTypes == Spec => []TypeOK
BY InitTypes, TypesStep, PTL DEF Spec

------------------------------------------------------------------------------
(* The order of the pushes.                                                *)

LEMMA Ranks == ASSUME NEW g \in Changing PROVE Rank(g) \in 1 .. 11 /\ PushOrder[Rank(g)] = g
BY DEF Rank, PushOrder

LEMMA RankInjective ==
  ASSUME NEW g \in Changing, NEW h \in Changing, Rank(g) = Rank(h) PROVE g = h
BY Ranks

\* Online groups come before offline ones.
LEMMA OnlineFirst ==
  ASSUME NEW g \in Changing \ Offline, NEW h \in Changing \cap Offline PROVE Rank(g) < Rank(h)
<1>1. \A f \in Changing : Rank(f) \in 10 .. 11 <=> f \in Offline
  BY Ranks DEF PushOrder, Offline
<1> QED
  BY <1>1, Ranks

\* A set of groups that is not empty has a first one.
LEMMA FirstIsLeast ==
  ASSUME NEW groups \in SUBSET Changing, groups # {}
  PROVE /\ First(groups) \in groups
        /\ \A h \in groups : Rank(First(groups)) <= Rank(h)
<1> DEFINE Held == {Rank(h) : h \in groups}
<1>1. Held \subseteq 1 .. 11 /\ Held # {}
  BY Ranks
<1>2. \E i \in Held : \A j \in Held : i <= j
  <2> HIDE DEF Held
  <2> SUFFICES ASSUME \A i \in Held : \E j \in Held : j < i PROVE FALSE
    BY <1>1
  <2> DEFINE Above(k) == \A i \in Held : i > k
  <2>1. ASSUME NEW k \in 0 .. 10, Above(k) PROVE Above(k + 1)
    BY <1>1, <2>1
  <2>2. Above(0)
    BY <1>1
  <2> HIDE DEF Above
  <2>3. Above(4)
    BY <2>1, <2>2
  <2>4. Above(8)
    BY <2>1, <2>3
  <2>5. Above(11)
    BY <2>1, <2>4
  <2>6. PICK i \in Held : i \in 1 .. 11
    BY <1>1
  <2> QED
    BY <2>5, <2>6 DEF Above
<1>3. \E g \in groups : \A h \in groups : Rank(g) <= Rank(h)
  BY <1>2
<1> QED
  BY <1>3 DEF First

------------------------------------------------------------------------------
(* What is pushed at each place of Update.                                 *)

Updating == {"push", "stop", "waitOff", "edit", "start", "waitOn"}

\* What is still to be pushed, by place.
Remaining ==
  /\ vmPc = "push" => todo \ Offline # {}
  /\ vmPc \in {"stop", "waitOff", "edit"} => todo # {} /\ todo \subseteq Offline
  /\ vmPc \in {"start", "waitOn", "ok", "idle"} => todo = {}

\* The stop comes once, after all that needs no stop.
StopsOnce == stops \in 0 .. 1 /\ (vmPc \in {"push", "stop"} => stops = 0)

\* What is not to be pushed any more is in Sylve.
Pushed == vmPc \in Updating \cup {"ok", "idle"} => \A g \in Changing \ todo : live[g] = plan.vm[g]

\* What is still to be pushed differs, and is as recorded.
Unpushed == vmPc \in Updating => \A g \in todo : plan.vm[g] # vmState[g] /\ live[g] = vmState[g]

\* Groups are pushed in order.
InOrder ==
  vmPc \in Updating =>
    \A g \in todo, h \in Changing \ todo : plan.vm[h] # vmState[h] => Rank(h) < Rank(g)

Recorded == vmPc \in {"idle", "ok"} => vmState = plan.vm

Progress == /\ Remaining /\ StopsOnce /\ Pushed /\ Unpushed /\ InOrder /\ Recorded
            /\ FailureLeavesPrefix

LEMMA InitProgress == Init => Progress
BY DEF Init, Progress, Remaining, StopsOnce, Pushed, Unpushed, InOrder, Recorded,
       FailureLeavesPrefix, Updating

\* The group pushed next is a group, the first of those left.
LEMMA PushNext ==
  ASSUME TypeOK, Progress, vmPc = "push"
  PROVE  LET g == First(todo \ Offline) IN
           g \in todo /\ \A h \in todo \ {g} : Rank(g) < Rank(h)
<1> DEFINE g == First(todo \ Offline)
<1>1. todo \ Offline \in SUBSET Changing /\ todo \ Offline # {}
  BY DEF TypeOK, Progress, Remaining
<1>2. g \in todo \ Offline /\ \A h \in todo \ Offline : Rank(g) <= Rank(h)
  BY <1>1, FirstIsLeast
<1>3. ASSUME NEW h \in todo \ {g} PROVE Rank(g) < Rank(h)
  <2> g \in Changing \ Offline /\ h \in Changing
    BY <1>1, <1>2 DEF TypeOK
  <2> HIDE DEF g
  <2>1. CASE h \in Offline
    BY <2>1, OnlineFirst
  <2>2. CASE h \notin Offline
    BY <1>2, <1>3, <2>2, Ranks, RankInjective
  <2> QED
    BY <2>1, <2>2
<1> QED
  BY <1>2, <1>3

LEMMA EditNext ==
  ASSUME TypeOK, Progress, vmPc = "edit"
  PROVE  LET g == First(todo) IN
           g \in todo /\ \A h \in todo \ {g} : Rank(g) < Rank(h)
<1> DEFINE g == First(todo)
<1>1. todo \in SUBSET Changing /\ todo # {}
  BY DEF TypeOK, Progress, Remaining
<1>2. g \in todo /\ \A h \in todo : Rank(g) <= Rank(h)
  BY <1>1, FirstIsLeast
<1> HIDE DEF g
<1>3. \A h \in todo \ {g} : Rank(g) < Rank(h)
  BY <1>1, <1>2, Ranks, RankInjective
<1> QED
  BY <1>2, <1>3 DEF g

\* Pushing the first of the groups left keeps what was pushed, what was not, and
\* their order.
LEMMA PushKeeps ==
  ASSUME TypeOK, Progress, vmPc \in Updating, UNCHANGED <<plan, vmState>>,
         NEW g \in todo, \A h \in todo \ {g} : Rank(g) < Rank(h),
         live' = [live EXCEPT ![g] = plan.vm[g]], todo' = todo \ {g}
  PROVE  /\ \A h \in Changing \ todo' : live'[h] = plan'.vm[h]
         /\ \A h \in todo' : plan'.vm[h] # vmState'[h] /\ live'[h] = vmState'[h]
         /\ \A f \in todo', h \in Changing \ todo' :
              plan'.vm[h] # vmState'[h] => Rank(h) < Rank(f)
<1> live \in VmConfig /\ todo \subseteq Changing
  BY DEF TypeOK
<1>1. \A h \in Changing : live'[h] = (IF h = g THEN plan.vm[g] ELSE live[h])
  BY DEF VmConfig
<1>2. \A h \in Changing \ todo : live[h] = plan.vm[h]
  BY DEF Progress, Pushed
<1>3. \A h \in todo : plan.vm[h] # vmState[h] /\ live[h] = vmState[h]
  BY DEF Progress, Unpushed
<1>4. \A f \in todo, h \in Changing \ todo : plan.vm[h] # vmState[h] => Rank(h) < Rank(f)
  BY DEF Progress, InOrder
<1> QED
  BY <1>1, <1>2, <1>3, <1>4

\* Between pushes the groups form a prefix, also when the first of those left
\* has been pushed by a call that failed.
LEMMA PrefixAtFailure ==
  ASSUME TypeOK, Progress, vmPc \in Updating, UNCHANGED <<plan, vmState>>,
         \/ UNCHANGED live
         \/ \E g \in todo : /\ \A h \in todo \ {g} : Rank(g) < Rank(h)
                           /\ live' = [live EXCEPT ![g] = plan.vm[g]]
  PROVE  FailureLeavesPrefix'
<1> live \in VmConfig /\ todo \subseteq Changing
  BY DEF TypeOK
<1>2. \A h \in Changing \ todo : live[h] = plan.vm[h]
  BY DEF Progress, Pushed
<1>3. \A h \in todo : plan.vm[h] # vmState[h] /\ live[h] = vmState[h]
  BY DEF Progress, Unpushed
<1>4. \A f \in todo, h \in Changing \ todo : plan.vm[h] # vmState[h] => Rank(h) < Rank(f)
  BY DEF Progress, InOrder
<1> SUFFICES ASSUME NEW f \in Changing, NEW h \in Changing, Rank(f) < Rank(h),
                    plan.vm[h] # vmState[h], live'[h] = plan.vm[h]
             PROVE  live'[f] = plan.vm[f]
  BY DEF FailureLeavesPrefix
<1> Rank(f) \in Nat /\ Rank(h) \in Nat
  BY Ranks
<1>5. CASE UNCHANGED live
  BY <1>2, <1>3, <1>4, <1>5
<1>6. ASSUME NEW g \in todo, \A e \in todo \ {g} : Rank(g) < Rank(e),
             live' = [live EXCEPT ![g] = plan.vm[g]]
      PROVE  live'[f] = plan.vm[f]
  <2>1. \A e \in Changing : live'[e] = (IF e = g THEN plan.vm[g] ELSE live[e])
    BY <1>6 DEF VmConfig
  <2>2. Rank(g) \in Nat
    BY Ranks
  <2> QED
    BY <1>2, <1>3, <1>4, <1>6, <2>1, <2>2
<1> QED
  BY <1>5, <1>6

\* A step of anybody else, or a wait that ends without pushing.
LEMMA ProgressKept ==
  ASSUME TypeOK, Progress, UNCHANGED <<plan, vmState, vmPc, todo, stops, live>> PROVE Progress'
BY DEF Progress, Remaining, StopsOnce, Pushed, Unpushed, InOrder, Recorded, FailureLeavesPrefix

LEMMA ProgressStep == TypeOK /\ Progress /\ [Next]_vars => Progress'
<1> SUFFICES ASSUME TypeOK, Progress, [Next]_vars PROVE Progress'
  OBVIOUS
<1> USE DEF terraformVars, serverVars, bounds
<1>a. Remaining /\ StopsOnce /\ Pushed /\ Unpushed /\ InOrder /\ Recorded
  BY DEF Progress
<1>1. CASE BeginApply
  <2>1. plan'.vm = config.vm /\ vmState' = live /\ live' = live
    BY <1>1 DEF BeginApply
  <2>2. todo' = {g \in Changing : config.vm[g] # live[g]} /\ stops' = 0
    BY <1>1 DEF BeginApply
  <2>3. vmPc' = (IF todo' = {} THEN "idle" ELSE AfterPush(todo'))
    BY <1>1 DEF BeginApply
  <2>4. Remaining' /\ StopsOnce'
    BY <2>2, <2>3 DEF Remaining, StopsOnce, AfterPush
  <2>5. Pushed' /\ Unpushed' /\ InOrder'
    BY <2>1, <2>2 DEF Pushed, Unpushed, InOrder
  <2>6. todo' = {} => config.vm = live
    <3> config.vm \in VmConfig /\ live \in VmConfig
      BY DEF TypeOK, Config
    <3> QED
      BY <2>2 DEF VmConfig
  <2>7. Recorded'
    BY <2>1, <2>3, <2>4, <2>6 DEF Recorded, Remaining
  <2>8. FailureLeavesPrefix'
    BY <2>3 DEF FailureLeavesPrefix, AfterPush
  <2> QED
    BY <2>4, <2>5, <2>7, <2>8 DEF Progress
<1>2. CASE EditConfig
  BY <1>2, ProgressKept DEF EditConfig
<1>3. CASE Push
  <2> DEFINE g == First(todo \ Offline)
  <2>1. g \in todo /\ \A h \in todo \ {g} : Rank(g) < Rank(h)
    BY <1>3, PushNext DEF Push
  <2>2. /\ vmPc = "push" /\ todo' = todo \ {g} /\ live' = [live EXCEPT ![g] = plan.vm[g]]
        /\ vmPc' = AfterPush(todo') /\ RecordIfDone /\ UNCHANGED <<plan, stops>>
    BY <1>3 DEF Push
  <2> HIDE DEF g
  <2>3. Remaining' /\ StopsOnce'
    BY <1>a, <2>2 DEF Remaining, StopsOnce, AfterPush
  <2>4. CASE todo' = {}
    <3>1. vmPc' = "ok" /\ vmState' = plan'.vm
      BY <2>2, <2>4 DEF AfterPush, RecordIfDone
    <3>2. live' = [live EXCEPT ![g] = plan.vm[g]] /\ todo = {g}
      BY <2>1, <2>2, <2>4
    <3>3. \A h \in Changing : live'[h] = plan'.vm[h]
      BY <1>a, <2>2, <3>2 DEF Pushed, Updating, TypeOK, VmConfig
    <3> QED
      BY <2>3, <3>1, <3>3
         DEF Progress, Pushed, Unpushed, InOrder, Recorded, FailureLeavesPrefix, Updating
  <2>5. CASE todo' # {}
    <3>1. vmPc' \in {"push", "stop"} /\ vmState' = vmState
      BY <2>2, <2>5 DEF AfterPush, RecordIfDone
    <3>2. Pushed' /\ Unpushed' /\ InOrder'
      BY <2>1, <2>2, <3>1, PushKeeps DEF Pushed, Unpushed, InOrder, Updating
    <3> QED
      BY <2>3, <3>1, <3>2 DEF Progress, Recorded, FailureLeavesPrefix
  <2> QED
    BY <2>4, <2>5
<1>4. CASE QueueStop
  BY <1>4, <1>a DEF QueueStop, Progress, Remaining, StopsOnce, Pushed, Unpushed, InOrder,
     Recorded, FailureLeavesPrefix, Updating
<1>5. CASE SawShutoff
  BY <1>5, <1>a DEF SawShutoff, Progress, Remaining, StopsOnce, Pushed, Unpushed, InOrder,
     Recorded, FailureLeavesPrefix, Updating
<1>6. CASE Edit
  <2> DEFINE g == First(todo)
  <2>1. g \in todo /\ \A h \in todo \ {g} : Rank(g) < Rank(h)
    BY <1>6, EditNext DEF Edit
  <2>2. /\ vmPc = "edit" /\ todo' = todo \ {g} /\ live' = [live EXCEPT ![g] = plan.vm[g]]
        /\ vmPc' = AfterEdit(todo') /\ UNCHANGED <<plan, vmState, stops>>
    BY <1>6 DEF Edit
  <2> HIDE DEF g
  <2>3. Remaining' /\ StopsOnce' /\ vmPc' \in {"edit", "start"}
    BY <1>a, <2>2 DEF Remaining, StopsOnce, AfterEdit
  <2>4. Pushed' /\ Unpushed' /\ InOrder'
    BY <2>1, <2>2, PushKeeps DEF Pushed, Unpushed, InOrder, Updating
  <2> QED
    BY <2>3, <2>4 DEF Progress, Recorded, FailureLeavesPrefix
<1>7. CASE EditRefused
  <2>1. FailureLeavesPrefix'
    BY <1>7, PrefixAtFailure DEF EditRefused, Updating
  <2> QED
    BY <1>7, <1>a, <2>1 DEF EditRefused, Progress, Remaining, StopsOnce, Pushed, Unpushed,
       InOrder, Recorded, Updating
<1>8. CASE QueueStart
  BY <1>8, <1>a DEF QueueStart, Progress, Remaining, StopsOnce, Pushed, Unpushed, InOrder,
     Recorded, FailureLeavesPrefix, Updating
<1>9. CASE SawRunning
  BY <1>9, <1>a DEF SawRunning, RecordIfDone, Progress, Remaining, StopsOnce, Pushed, Unpushed,
     InOrder, Recorded, FailureLeavesPrefix, Updating
<1>10. CASE VmWaitExpires
  <2>1. FailureLeavesPrefix'
    BY <1>10, PrefixAtFailure DEF VmWaitExpires, Updating
  <2> QED
    BY <1>10, <1>a, <2>1 DEF VmWaitExpires, Progress, Remaining, StopsOnce, Pushed, Unpushed,
       InOrder, Recorded, Updating
<1>11. CASE VmFault
  <2>1. vmPc \in Updating /\ vmPc' = "failed" /\ UNCHANGED <<plan, vmState, todo, stops>>
    BY <1>11 DEF VmFault, Updating
  <2>2. \/ UNCHANGED live
        \/ \E g \in todo : /\ \A h \in todo \ {g} : Rank(g) < Rank(h)
                          /\ live' = [live EXCEPT ![g] = plan.vm[g]]
    BY <1>11, PushNext, EditNext DEF VmFault
  <2>3. FailureLeavesPrefix'
    BY <2>1, <2>2, PrefixAtFailure
  <2> QED
    BY <1>a, <2>1, <2>3 DEF Progress, Remaining, StopsOnce, Pushed, Unpushed, InOrder,
       Recorded, Updating
<1>12. CASE PowerUpdate \/ PowerFault
  BY <1>12, ProgressKept DEF PowerUpdate, PowerQueue, PowerReached, PowerSkip, PowerWaitExpires,
     PowerFault
<1>13. CASE RunAction \/ ActionFails \/ Meddle
  BY <1>13, ProgressKept DEF RunAction, ActionFails, Meddle
<1>14. CASE UNCHANGED vars
  BY <1>14, ProgressKept DEF vars
<1> QED
  BY <1>1, <1>2, <1>3, <1>4, <1>5, <1>6, <1>7, <1>8, <1>9, <1>10, <1>11, <1>12, <1>13, <1>14
  DEF Next, VmUpdate

\* At every place of sylve_vm's Update, through failures, refusals and expired
\* waits, what is pushed and what is left is as Progress says.
THEOREM VmProgress == Spec => []Progress
BY InitTypes, TypesStep, InitProgress, ProgressStep, PTL DEF Spec

\* However many of the groups that need the VM Shutoff an apply changes, Update
\* stops it once. (vm_resource.go:624-639)
THEOREM VmRestartsOnce == Spec => []AtMostOneRestart
<1>1. Progress => AtMostOneRestart
  BY DEF Progress, StopsOnce, AtMostOneRestart
<1> QED
  BY <1>1, VmProgress, PTL

\* When Update reports success, or there was nothing to do, the recorded state,
\* the plan and Sylve agree. (vm_resource.go:552-673)
THEOREM VmStateHonest == Spec => []RecordedIsLive
<1>1. TypeOK /\ Progress => RecordedIsLive
  <2> SUFFICES ASSUME TypeOK, Progress, vmPc \in {"idle", "ok"}
               PROVE  vmState = live /\ live = plan.vm
    BY DEF RecordedIsLive
  <2>1. plan.vm \in VmConfig /\ live \in VmConfig
    BY DEF TypeOK, Config
  <2>2. \A g \in Changing : live[g] = plan.vm[g]
    BY DEF Progress, Remaining, Pushed
  <2>3. live = plan.vm
    BY <2>1, <2>2 DEF VmConfig
  <2> QED
    BY <2>3 DEF Progress, Recorded
<1> QED
  BY <1>1, VmTypes, VmProgress, PTL

\* Wherever Update fails, and whether or not the failing call took effect, the
\* groups changed so far are the first ones in its order. (vm_resource.go:552-660)
THEOREM VmFailsInOrder == Spec => []FailureLeavesPrefix
<1>1. Progress => FailureLeavesPrefix
  BY DEF Progress
<1> QED
  BY <1>1, VmProgress, PTL

------------------------------------------------------------------------------
(* The queue while nothing fails and nobody interferes.                    *)

Brings(action) == IF action = "start" THEN "Running" ELSE "Shutoff"

\* What is queued changes nothing.
Quiet == \A i \in 1 .. Len(queue) : Brings(queue[i]) = domain

\* The domain is where `action` brings it and stays there, or `action` is queued
\* behind actions that change nothing.
Toward(action) ==
  \/ domain = Brings(action) /\ Quiet
  \/ /\ domain # Brings(action)
     /\ Len(queue) > 0 /\ queue[Len(queue)] = action
     /\ \A i \in 1 .. Len(queue) - 1 : Brings(queue[i]) = domain

\* Who waits, waits for the last action queued; who does not wait, is not
\* overtaken by one.  (Beside a disk, Update may be "failed" with no call failed:
\* VmSkipForDisk.)
Calm ==
  (Undisturbed /\ (refers \/ ~PowerManaged)) =>
    /\ vmPc # "refused"
    /\ ~PowerManaged => powerPc = "idle"
    /\ vmPc \in {"push", "stop", "idle", "ok", "failed"} /\ powerPc # "wait" => Quiet
    /\ vmPc = "waitOff" => Toward("stop")
    /\ vmPc \in {"edit", "start"} => domain = "Shutoff" /\ Quiet
    /\ vmPc = "waitOn" => Toward("start")
    /\ powerPc = "wait" => vmPc \in {"idle", "ok"} /\ Toward(ActionFor(plan.power))

LEMMA InitCalm == Init => Calm
BY DEF Init, Calm, Quiet

LEMMA QueueingCalm ==
  ASSUME TypeOK, Quiet, NEW a \in Actions, queue' = Append(queue, a), domain' = domain
  PROVE  Toward(a)'
<1>1. queue \in Seq(Actions)
  BY DEF TypeOK
<1>2. Len(queue') = Len(queue) + 1 /\ Len(queue) \in Nat
  BY <1>1
<1>3. queue'[Len(queue) + 1] = a /\ \A i \in 1 .. Len(queue) : queue'[i] = queue[i]
  BY <1>1
<1> QED
  BY <1>2, <1>3 DEF Toward, Quiet

LEMMA RunQuiet == ASSUME TypeOK, Quiet, RunAction PROVE Quiet' /\ domain' = domain
<1>1. queue \in Seq(Actions) /\ queue # << >> /\ queue' = Tail(queue)
  BY DEF TypeOK, RunAction
<1>2. Len(queue) \in Nat /\ Len(queue) > 0 /\ Head(queue) = queue[1]
  BY <1>1
<1>3. Len(queue') = Len(queue) - 1 /\ \A i \in 1 .. Len(queue') : queue'[i] = queue[i + 1]
  BY <1>1
<1>4. domain' = domain
  BY <1>2 DEF Quiet, RunAction, Brings
<1> QED
  BY <1>2, <1>3, <1>4 DEF Quiet

LEMMA RunToward ==
  ASSUME TypeOK, NEW a \in Actions, Toward(a), RunAction PROVE Toward(a)'
<1>1. CASE domain = Brings(a) /\ Quiet
  BY <1>1, RunQuiet DEF Toward
<1>2. CASE /\ domain # Brings(a)
           /\ Len(queue) > 0 /\ queue[Len(queue)] = a
           /\ \A i \in 1 .. Len(queue) - 1 : Brings(queue[i]) = domain
  <2>1. queue \in Seq(Actions) /\ queue # << >> /\ queue' = Tail(queue)
    BY DEF TypeOK, RunAction
  <2>2. domain' = Brings(queue[1])
    BY <2>1 DEF RunAction, Brings
  <2>. Len(queue) \in Nat /\ Len(queue) > 0
    BY <2>1
  <2>3. Len(queue') = Len(queue) - 1 /\ \A i \in 1 .. Len(queue') : queue'[i] = queue[i + 1]
    BY <2>1
  <2>4. CASE Len(queue) = 1
    BY <1>2, <2>2, <2>3, <2>4 DEF Toward, Quiet
  <2>5. CASE Len(queue) > 1
    <3>1. domain' = domain
      BY <1>2, <2>2, <2>5
    <3> QED
      BY <1>2, <2>2, <2>3, <2>5, <3>1 DEF Toward
  <2>6. PICK n \in Nat : n = Len(queue) /\ n # 0
    BY <1>2
  <2>7. n = 1 \/ n > 1
    BY <2>6
  <2> QED
    BY <2>4, <2>5, <2>6, <2>7
<1> QED
  BY <1>1, <1>2 DEF Toward

LEMMA CalmStep == TypeOK /\ Calm /\ [Next]_vars => Calm'
<1> SUFFICES ASSUME TypeOK, Calm, [Next]_vars,
                    Undisturbed', refers' \/ ~PowerManaged
             PROVE  Calm'
  BY DEF Calm
<1> USE DEF terraformVars, serverVars, bounds
<1>a. faults \in Nat /\ meddling \in Nat
  BY DEF TypeOK
<1>1. CASE VmFault \/ PowerFault \/ ActionFails \/ Meddle
  BY <1>1, <1>a DEF VmFault, PowerFault, ActionFails, Meddle, Undisturbed
<1>b. CASE ~(VmFault \/ PowerFault \/ ActionFails \/ Meddle)
  <2> Undisturbed /\ (refers \/ ~PowerManaged)
    BY <1>a, <1>b DEF Undisturbed, Next, VmUpdate, PowerUpdate, BeginApply, EditConfig, Push,
       QueueStop, SawShutoff, Edit, EditRefused, QueueStart, SawRunning, VmWaitExpires, PowerQueue,
       PowerReached, PowerSkip, PowerWaitExpires, RunAction, vars
  <2>a. /\ vmPc # "refused"
        /\ ~PowerManaged => powerPc = "idle"
        /\ vmPc \in {"push", "stop", "idle", "ok", "failed"} /\ powerPc # "wait" => Quiet
        /\ vmPc = "waitOff" => Toward("stop")
        /\ vmPc \in {"edit", "start"} => domain = "Shutoff" /\ Quiet
        /\ vmPc = "waitOn" => Toward("start")
        /\ powerPc = "wait" => vmPc \in {"idle", "ok"} /\ Toward(ActionFor(plan.power))
    BY DEF Calm
  <2>b. UNCHANGED <<domain, queue>> => Quiet' = Quiet
    BY DEF Quiet
  <2>c. UNCHANGED <<domain, queue>> => \A a \in Actions : Toward(a)' = Toward(a)
    BY DEF Quiet, Toward
  <2>d. ActionFor(plan.power) \in Actions /\ ActionFor(plan'.power) \in Actions
        /\ "stop" \in Actions /\ "start" \in Actions
    BY DEF ActionFor, Actions
  <2>1. CASE BeginApply
    <3>1. Quiet /\ UNCHANGED <<domain, queue>>
      BY <2>1, <2>a DEF BeginApply, Finished, VmDone, PowerDone
    <3>2. vmPc' \in {"idle", "push", "stop"} /\ powerPc' \in {"queue", "idle"}
      BY <2>1 DEF BeginApply, AfterPush
    <3>3. ~PowerManaged => powerPc' = "idle"
      BY <2>1 DEF BeginApply
    <3> QED
      BY <2>b, <3>1, <3>2, <3>3 DEF Calm
  <2>2. CASE EditConfig
    BY <2>2, <2>a, <2>b, <2>c, <2>d DEF EditConfig, Calm
  <2>3. CASE Push
    <3>1. vmPc' \in {"push", "stop", "ok"}
      BY <2>3 DEF Push, AfterPush
    <3> QED
      BY <2>3, <2>a, <2>b, <3>1 DEF Push, Calm
  <2>4. CASE QueueStop
    <3>1. Toward("stop")'
      BY <2>4, <2>a, <2>d, QueueingCalm DEF QueueStop
    <3> QED
      BY <2>4, <2>a, <3>1 DEF QueueStop, Calm
  <2>5. CASE SawShutoff
    <3>1. Quiet
      BY <2>5, <2>a DEF SawShutoff, Toward, Brings
    <3> QED
      BY <2>5, <2>a, <2>b, <3>1 DEF SawShutoff, Calm
  <2>6. CASE Edit
    <3>1. vmPc' \in {"edit", "start"}
      BY <2>6 DEF Edit, AfterEdit
    <3> QED
      BY <2>6, <2>a, <2>b, <3>1 DEF Edit, Calm
  <2>7. CASE EditRefused
    BY <2>7, <2>a DEF EditRefused
  <2>8. CASE QueueStart
    <3>1. Toward("start")'
      BY <2>8, <2>a, <2>d, QueueingCalm DEF QueueStart
    <3> QED
      BY <2>8, <2>a, <3>1 DEF QueueStart, Calm
  <2>9. CASE SawRunning
    <3>1. Quiet
      BY <2>9, <2>a DEF SawRunning, Toward, Brings
    <3> QED
      BY <2>9, <2>a, <2>b, <3>1 DEF SawRunning, Calm
  <2>10. CASE VmWaitExpires
    BY <2>10, <2>a DEF VmWaitExpires, Toward, Brings
  <2>11. CASE PowerQueue
    <3>1. vmPc \in {"idle", "ok"} /\ Quiet
      BY <2>11, <2>a DEF PowerQueue, MayPower
    <3>2. \A a \in Actions : a = ActionFor(plan.power) => Toward(a)'
      BY <2>11, <3>1, QueueingCalm DEF PowerQueue
    <3>3. plan' = plan /\ vmPc' = vmPc /\ powerPc' = "wait" /\ PowerManaged
      BY <2>11, <2>a DEF PowerQueue
    <3> QED
      BY <2>d, <3>1, <3>2, <3>3 DEF Calm
  <2>12. CASE PowerReached
    <3>1. Quiet
      BY <2>12, <2>a DEF PowerReached, Toward, Brings, ActionFor, StatusFor
    <3> QED
      BY <2>12, <2>a, <2>b, <3>1 DEF PowerReached, Calm
  <2>13. CASE PowerSkip
    <3>1. UNCHANGED <<vmPc, plan, domain, queue>> /\ vmPc = "failed" /\ PowerManaged
      BY <2>13, <2>a DEF PowerSkip
    <3>2. Quiet /\ powerPc' = "skipped"
      BY <2>13, <2>a, <3>1 DEF PowerSkip
    <3> QED
      BY <2>b, <3>1, <3>2 DEF Calm
  <2>14. CASE PowerWaitExpires
    BY <2>14, <2>a DEF PowerWaitExpires, Toward, Brings, ActionFor, StatusFor, Quiet
  <2>15. CASE RunAction
    <3>1. \A a \in Actions : Toward(a) => Toward(a)'
      BY <2>15, RunToward
    <3>2. Quiet => Quiet' /\ domain' = domain
      BY <2>15, RunQuiet
    <3>3. UNCHANGED <<vmPc, powerPc, plan>>
      BY <2>15 DEF RunAction
    <3> QED
      BY <2>a, <2>d, <3>1, <3>2, <3>3 DEF Calm
  <2>16. CASE UNCHANGED vars
    <3>1. UNCHANGED <<vmPc, powerPc, plan, domain, queue>>
      BY <2>16 DEF vars
    <3> QED
      BY <2>a, <2>b, <2>c, <2>d, <3>1 DEF Calm
  <2> QED
    BY <1>b, <2>1, <2>2, <2>3, <2>4, <2>5, <2>6, <2>7, <2>8, <2>9, <2>10, <2>11, <2>12, <2>13,
       <2>14, <2>15, <2>16 DEF Next, VmUpdate, PowerUpdate
<1> QED
  BY <1>1, <1>b

\* As long as nothing fails and nobody else changes the power state, and with the
\* reference that makes sylve_vm_power wait for sylve_vm, Update's edits always
\* find the VM Shutoff: any number of groups, applies and changes of the
\* configuration.  It takes the queue: a stop left behind by an earlier apply
\* would overtake the next one's start. (vm_resource.go:611-670)
THEOREM VmNoSelfCollision == Spec => []NoSelfCollision
<1>1. Spec => []Calm
  BY InitTypes, TypesStep, InitCalm, CalmStep, PTL DEF Spec
<1>2. Calm => NoSelfCollision
  BY DEF Calm, NoSelfCollision
<1> QED
  BY <1>1, <1>2, PTL
=============================================================================
