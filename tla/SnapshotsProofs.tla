--------------------------- MODULE SnapshotsProofs ---------------------------
(***************************************************************************)
(* Proofs about Snapshots, for any set of snapshot resources and any       *)
(* bounds.  Beside the types, the inductive invariant says:                *)
(*                                                                         *)
(*   Planning   while an apply runs, its plan is the configuration; the    *)
(*              rollback is about to fire only if its trigger is not       *)
(*              recorded, and about to be updated only if it is            *)
(*   Counting   a rollback whose answer arrived is recorded                *)
(*   Surviving  while nothing fails and nobody interferes, the ids         *)
(*              recorded are ids Sylve gave, all different                 *)
(***************************************************************************)
EXTENDS Snapshots, TLAPS

Planning ==
  /\ config.trigger >= 1
  /\ ~Finished => plan = config
  /\ rollPc \in {"replace", "fire"} => rolled.trigger # config.trigger
  /\ rollPc = "update" => rolled.trigger = config.trigger

Counting ==
  /\ FiresOncePerTrigger
  /\ fired > lost => rolled.trigger = config.trigger

IInv == TypeOK /\ Planning /\ Counting

LEMMA InitIInv == Init => IInv
<1> USE BoundsAssumption, TargetAssumption
<1>1. Init => TypeOK
    BY DEF Init, TypeOK, Config, NoSnapshot, NoRollback, Over, Settled
<1>2. Init => Planning /\ Counting
    BY DEF Init, Planning, Counting, FiresOncePerTrigger, Finished, NoRollback, Over, Settled
<1> QED BY <1>1, <1>2 DEF IInv

------------------------------------------------------------------------------
(* What a snapshot taken, removed or restored leaves well typed.           *)

PointsOK == /\ points \subseteq [id : 1 .. lastId, data : 0 .. written]
            /\ lastId \in Nat /\ written \in 0 .. MaxWrites /\ data \in 0 .. written

LEMMA TakeOK == ASSUME PointsOK, Take PROVE PointsOK'
<1> USE BoundsAssumption DEF PointsOK, Take
<1>1. points' \subseteq [id : 1 .. lastId', data : 0 .. written']
  <2> SUFFICES ASSUME NEW p \in points' PROVE p \in [id : 1 .. lastId', data : 0 .. written']
      OBVIOUS
  <2>1. CASE p \in points
      BY <2>1
  <2>2. CASE p = [id |-> lastId + 1, data |-> data]
      BY <2>2
  <2> QED BY <2>1, <2>2
<1> QED BY <1>1

LEMMA RestoreOK == ASSUME PointsOK, NEW id, Restore(id) PROVE PointsOK'
<1> USE BoundsAssumption DEF PointsOK, Restore
<1>1. PICK p \in points : p.id = id /\ data' = p.data
    OBVIOUS
<1>2. data' \in 0 .. written
    BY <1>1
<1>3. points' \subseteq points
    OBVIOUS
<1> QED BY <1>2, <1>3

------------------------------------------------------------------------------
(* Every step preserves the types.                                         *)

LEMMA TypesStep == ASSUME IInv, Next PROVE TypeOK'
<1> USE BoundsAssumption, TargetAssumption
        DEF terraformVars, serverVars, history, bounds, Fault, NoFault, Goto, Record,
            Over, Settled, Config, NoSnapshot, NoRollback
<1>0. TypeOK /\ Planning
    BY DEF IInv
<1>p. PointsOK /\ lastId \in Nat
    BY <1>0 DEF TypeOK, PointsOK
<1>1. CASE BeginApply
  <2>1. PICK blank \in {{}} \cup {{s} : s \in Snapshots} :
          /\ IF blank = {} THEN NoFault ELSE Fault
          /\ recorded' = [s \in Snapshots |-> Refreshed(s, blank)]
      BY <1>1 DEF BeginApply
  <2>2. recorded' \in [Snapshots -> [id : Nat, name : Nat]]
      BY <1>0, <2>1 DEF TypeOK, Refreshed
  <2>3. pc' \in [Snapshots -> Over \cup {"delete", "create"}]
      BY <1>1 DEF BeginApply, Planned
  <2>4. rollPc' \in Over \cup {"replace", "fire", "update"}
      BY <1>1 DEF BeginApply, PlannedRollback
  <2>5. faults' \in 0 .. MaxFaults
      BY <1>0, <2>1 DEF TypeOK
  <2> QED BY <1>0, <1>1, <2>2, <2>3, <2>4, <2>5 DEF BeginApply, TypeOK
<1>2. CASE EditConfig
  <2>1. config' \in Config
      BY <1>0, <1>2 DEF EditConfig, TypeOK
  <2>2. fired' \in Nat /\ lost' \in Nat
      BY <1>0, <1>2 DEF EditConfig, TypeOK
  <2> QED BY <1>0, <1>2, <2>1, <2>2 DEF EditConfig, TypeOK
<1>3. ASSUME NEW s \in Snapshots, Delete(s) PROVE TypeOK'
    BY <1>0, <1>3 DEF Delete, Remove, TypeOK
<1>4. ASSUME NEW s \in Snapshots, DeleteFails(s) PROVE TypeOK'
    BY <1>0, <1>4 DEF DeleteFails, Remove, TypeOK
<1>5. ASSUME NEW s \in Snapshots, Create(s) PROVE TypeOK'
  <2>1. PointsOK' /\ lastId' \in Nat
      BY <1>p, <1>5, TakeOK DEF Create, PointsOK
  <2>2. recorded' \in [Snapshots -> [id : Nat, name : Nat]]
      BY <1>0, <1>5, <2>1 DEF Create, TypeOK
  <2> QED BY <1>0, <1>5, <2>1, <2>2 DEF Create, TypeOK, PointsOK
<1>6. ASSUME NEW s \in Snapshots, CreateFails(s) PROVE TypeOK'
  <2>1. PointsOK'
    <3>1. CASE Take
        BY <1>p, <3>1, TakeOK
    <3>2. CASE UNCHANGED serverVars
        BY <1>p, <3>2 DEF PointsOK
    <3> QED BY <1>6, <3>1, <3>2 DEF CreateFails
  <2>2. recorded' \in [Snapshots -> [id : Nat, name : Nat]]
      BY <1>0, <1>6 DEF CreateFails, TypeOK
  <2>3. pc' \in [Snapshots -> Over \cup {"delete", "create"}]
      BY <1>0, <1>6 DEF CreateFails, TypeOK
  <2> QED BY <1>0, <1>6, <2>1, <2>2, <2>3 DEF CreateFails, TypeOK, PointsOK
<1>7. CASE DropRollback
    BY <1>0, <1>7 DEF DropRollback, TypeOK
<1>8. CASE Rollback
  <2>1. PointsOK'
      BY <1>p, <1>8, RestoreOK DEF Rollback
  <2>2. fired' \in Nat
      BY <1>0, <1>8 DEF Rollback, Restore, TypeOK
  <2> QED BY <1>0, <1>8, <2>1, <2>2 DEF Rollback, Restore, TypeOK, PointsOK
<1>9. CASE RollbackDeclined
    BY <1>0, <1>9 DEF RollbackDeclined, TypeOK
<1>10. CASE UpdateRollback
    BY <1>0, <1>10 DEF UpdateRollback, TypeOK
<1>11. CASE SkipRollback
    BY <1>0, <1>11 DEF SkipRollback, TypeOK
<1>12. CASE RollbackFails
  <2>1. CASE Restore(recorded[Target].id) /\ lost' = lost + 1
    <3>1. PointsOK' /\ fired' \in Nat /\ lost' \in Nat
        BY <1>0, <1>p, <2>1, RestoreOK DEF Restore, TypeOK
    <3> QED BY <1>0, <1>12, <3>1 DEF RollbackFails, TypeOK, PointsOK
  <2>2. CASE UNCHANGED <<serverVars, history>>
      BY <1>0, <1>12, <2>2 DEF RollbackFails, TypeOK
  <2> QED BY <1>12, <2>1, <2>2 DEF RollbackFails
<1>13. CASE GuestWrites
  <2>1. written' \in 0 .. MaxWrites /\ data' \in 0 .. written'
      BY <1>0, <1>13 DEF GuestWrites, TypeOK
  <2>2. points' \subseteq [id : 1 .. lastId', data : 0 .. written']
      BY <1>0, <1>13 DEF GuestWrites, TypeOK
  <2> QED BY <1>0, <1>13, <2>1, <2>2 DEF GuestWrites, TypeOK
<1>14. CASE Meddle
  <2>1. PointsOK'
    <3>1. CASE Take
        BY <1>p, <3>1, TakeOK
    <3>2. CASE (\E id \in Ids : Remove(id)) /\ UNCHANGED <<lastId, data, written>>
        BY <1>p, <3>2 DEF PointsOK, Remove
    <3> QED BY <1>14, <3>1, <3>2 DEF Meddle
  <2> QED BY <1>0, <1>14, <2>1 DEF Meddle, TypeOK, PointsOK
<1> QED BY <1>1, <1>2, <1>3, <1>4, <1>5, <1>6, <1>7, <1>8, <1>9, <1>10, <1>11, <1>12,
           <1>13, <1>14 DEF Next, Apply, ApplyRollback

------------------------------------------------------------------------------
(* Every step preserves what is known about plan and record.               *)

LEMMA RecordStep == ASSUME IInv, Next PROVE Planning' /\ Counting'
<1> USE TargetAssumption
        DEF terraformVars, serverVars, history, bounds, Over, Settled, NoRollback,
            Finished, FiresOncePerTrigger
<1>0. TypeOK /\ Planning /\ Counting
    BY DEF IInv
<1>t. config.trigger \in Nat /\ plan.trigger \in Nat /\ rolled.trigger \in Nat
      /\ fired \in Nat /\ lost \in Nat
    BY <1>0 DEF TypeOK, Config
<1>1. CASE BeginApply
  <2>1. /\ plan' = config /\ UNCHANGED <<config, rolled, fired, lost>>
        /\ rollPc' = PlannedRollback
      BY <1>1 DEF BeginApply
  <2>2. /\ rollPc' \in {"replace", "fire"} => rolled.trigger # config.trigger
        /\ rollPc' = "update" => rolled.trigger = config.trigger
      BY <1>0, <1>t, <2>1 DEF PlannedRollback, Planning
  <2> QED BY <1>0, <2>1, <2>2 DEF Planning, Counting
<1>2. CASE EditConfig
  <2>1. UNCHANGED <<pc, rollPc, rolled, plan>> /\ Finished
      BY <1>2 DEF EditConfig
  <2>2. CASE \E s \in Snapshots : config' = [config EXCEPT !.name[s] = @ + 1] /\ UNCHANGED history
    <3>1. config'.trigger = config.trigger
        BY <1>0, <2>2 DEF TypeOK, Config
    <3> QED BY <1>0, <2>1, <2>2, <3>1 DEF Planning, Counting
  <2>3. CASE config' = [config EXCEPT !.trigger = @ + 1] /\ fired' = 0 /\ lost' = 0
    <3>1. config'.trigger = config.trigger + 1
        BY <1>0, <2>3 DEF TypeOK, Config
    <3> QED BY <1>0, <1>t, <2>1, <2>3, <3>1 DEF Planning, Counting
  <2> QED BY <1>2, <2>2, <2>3 DEF EditConfig
<1>3. ASSUME NEW s \in Snapshots, Apply(s) \/ DeleteFails(s) \/ CreateFails(s)
      PROVE  Planning' /\ Counting'
  <2>1. /\ UNCHANGED <<config, plan, rolled, rollPc, fired, lost>>
        /\ pc[s] \in {"delete", "create"}
      BY <1>3 DEF Apply, Delete, Create, DeleteFails, CreateFails, MayDelete
  <2>2. plan = config
      BY <1>0, <2>1 DEF Planning
  <2> QED BY <1>0, <2>1, <2>2 DEF Planning, Counting
<1>4. CASE ApplyRollback \/ RollbackFails
  <2>1. plan = config /\ UNCHANGED <<config, plan, pc>>
      BY <1>0, <1>4 DEF Planning, ApplyRollback, DropRollback, Rollback, RollbackDeclined,
         UpdateRollback, SkipRollback, RollbackFails, MayRoll
  <2>2. CASE DropRollback
      BY <1>0, <1>t, <2>1, <2>2 DEF DropRollback, Planning, Counting
  <2>3. CASE Rollback
      BY <1>0, <1>t, <2>1, <2>3 DEF Rollback, MayRoll, Restore, Planning, Counting
  <2>4. CASE RollbackDeclined
      BY <1>0, <2>1, <2>4 DEF RollbackDeclined, Planning, Counting
  <2>5. CASE UpdateRollback
      BY <1>0, <1>t, <2>1, <2>5 DEF UpdateRollback, Planning, Counting
  <2>6. CASE SkipRollback
      BY <1>0, <2>1, <2>6 DEF SkipRollback, Planning, Counting
  <2>7. CASE RollbackFails
      BY <1>0, <1>t, <2>1, <2>7 DEF RollbackFails, MayRoll, Restore, Planning, Counting
  <2> QED BY <1>4, <2>2, <2>3, <2>4, <2>5, <2>6, <2>7 DEF ApplyRollback
<1>5. CASE GuestWrites \/ Meddle
    BY <1>0, <1>5 DEF GuestWrites, Meddle, Planning, Counting
<1> QED BY <1>1, <1>2, <1>3, <1>4, <1>5 DEF Next

LEMMA Inductive == Spec => []IInv
<1>1. IInv /\ [Next]_vars => IInv'
  <2> SUFFICES ASSUME IInv, [Next]_vars PROVE IInv'
      OBVIOUS
  <2>1. CASE Next
      BY <2>1, TypesStep, RecordStep DEF IInv
  <2>2. CASE UNCHANGED vars
      BY <2>2 DEF vars, terraformVars, serverVars, history, bounds, IInv, TypeOK, Planning,
         Counting, FiresOncePerTrigger, Finished
  <2> QED BY <2>1, <2>2
<1> QED BY <1>1, InitIInv, PTL DEF Spec

------------------------------------------------------------------------------
(* The results.                                                            *)

\* The recorded state, the plan and Sylve's snapshots keep their types.
THEOREM SnapshotTypes == Spec => []TypeOK
<1>1. IInv => TypeOK
    BY DEF IInv
<1> QED BY <1>1, Inductive, PTL

\* However often the user applies, whatever fails and whatever the operator
\* does, a trigger's rollback is carried out once, and once more for every
\* answer that was lost.
THEOREM RollbackOncePerTrigger == Spec => []FiresOncePerTrigger
<1>1. IInv => FiresOncePerTrigger
    BY DEF IInv, Counting
<1> QED BY <1>1, Inductive, PTL

\* One step of the resources, seen as the one-shot action, is a step of it:
\* nothing but a rollback asked for and not recorded takes the data back.
LEMMA PromiseStep == ASSUME IInv, Next PROVE [Promise!Next]_(Promise!vars)
<1> USE TargetAssumption, BoundsAssumption
        DEF terraformVars, serverVars, history, bounds, Over, Settled, NoRollback, Finished,
            Promise!Next, Promise!vars, Promise!Ask, Promise!Fire, Promise!Drop, Promise!Write
<1>0. TypeOK /\ Planning
    BY DEF IInv
<1>t. config.trigger \in Nat /\ plan.trigger \in Nat /\ rolled.trigger \in Nat
      /\ fired \in Nat /\ lost \in Nat /\ written \in Nat
    BY <1>0 DEF TypeOK, Config
<1>1. CASE BeginApply
    BY <1>1 DEF BeginApply
<1>2. CASE EditConfig
  <2>1. CASE \E s \in Snapshots : config' = [config EXCEPT !.name[s] = @ + 1] /\ UNCHANGED history
    <3>1. config'.trigger = config.trigger
        BY <1>0, <2>1 DEF TypeOK, Config
    <3> QED BY <1>2, <2>1, <3>1 DEF EditConfig
  <2>2. CASE config' = [config EXCEPT !.trigger = @ + 1] /\ fired' = 0 /\ lost' = 0
    <3>1. config'.trigger = config.trigger + 1
        BY <1>0, <2>2 DEF TypeOK, Config
    <3> QED BY <1>2, <2>2, <3>1 DEF EditConfig
  <2> QED BY <1>2, <2>1, <2>2 DEF EditConfig
<1>3. ASSUME NEW s \in Snapshots, Apply(s) \/ DeleteFails(s) \/ CreateFails(s)
      PROVE  UNCHANGED Promise!vars
    BY <1>3 DEF Apply, Delete, Create, DeleteFails, CreateFails, Take
<1>4. CASE DropRollback
    BY <1>0, <1>4 DEF DropRollback, Planning
<1>5. CASE Rollback
  <2>1. data' \in 0 .. written
      BY <1>0, <1>5, RestoreOK DEF Rollback, Restore, TypeOK, PointsOK
  <2>2. rolled'.trigger = config.trigger
      BY <1>0, <1>5 DEF Rollback, MayRoll, Planning
  <2> QED BY <1>0, <1>5, <2>1, <2>2 DEF Rollback, MayRoll, Restore, Planning
<1>6. CASE RollbackDeclined \/ SkipRollback
    BY <1>6 DEF RollbackDeclined, SkipRollback
<1>7. CASE UpdateRollback
    BY <1>0, <1>7 DEF UpdateRollback, Planning
<1>8. CASE RollbackFails
  <2>1. CASE Restore(recorded[Target].id)
    <3>1. data' \in 0 .. written
        BY <1>0, <2>1, RestoreOK DEF Restore, TypeOK, PointsOK
    <3> QED BY <1>0, <1>8, <2>1, <3>1 DEF RollbackFails, MayRoll, Restore, Planning
  <2>2. CASE UNCHANGED <<serverVars, history>>
      BY <1>8, <2>2 DEF RollbackFails
  <2> QED BY <1>8, <2>1, <2>2 DEF RollbackFails
<1>9. CASE GuestWrites
    BY <1>9 DEF GuestWrites
<1>10. CASE Meddle
    BY <1>10 DEF Meddle, Take
<1> QED BY <1>1, <1>2, <1>3, <1>4, <1>5, <1>6, <1>7, <1>8, <1>9, <1>10
    DEF Next, ApplyRollback

\* Snapshots and rollback implement the one-shot action.
THEOREM RollbackIsOneShot == Spec => ImplementsOneShot
<1>1. Init => Promise!Init
    BY DEF Init, Promise!Init, NoRollback
<1>2. IInv /\ [Next]_vars => [Promise!Next]_(Promise!vars)
  <2>1. ASSUME UNCHANGED vars PROVE UNCHANGED Promise!vars
      BY <2>1 DEF vars, terraformVars, serverVars, history, Promise!vars
  <2> QED BY <2>1, PromiseStep
<1> QED BY <1>1, <1>2, Inductive, PTL DEF Spec, ImplementsOneShot, Promise!Spec

------------------------------------------------------------------------------
(* What a rollback destroys.                                               *)

Quiet == meddling = 0 /\ faults = 0

\* While nobody interferes and nothing fails, recorded ids were given by Sylve and
\* differ; and the target stays what it was once the rollback has run.
Surviving ==
  Quiet =>
    /\ \A s \in Snapshots : recorded[s] # NoSnapshot => recorded[s].id \in 1 .. lastId
    /\ \A s, t \in Snapshots :
         s # t /\ recorded[s] # NoSnapshot => recorded[s].id # recorded[t].id
    /\ rollPc = "ok" => pc[Target] \in Settled

LEMMA SurvivingStep ==
  ASSUME TypeOK, Surviving, OnlyNewerDestroyed, Next
  PROVE  Surviving' /\ OnlyNewerDestroyed'
<1> SUFFICES ASSUME Quiet' PROVE Surviving' /\ OnlyNewerDestroyed'
    BY DEF Surviving, OnlyNewerDestroyed, Quiet
<1> USE TargetAssumption
        DEF terraformVars, serverVars, history, bounds, Goto, Record, Settled
<1>t. /\ recorded \in [Snapshots -> [id : Nat, name : Nat]] /\ DOMAIN pc = Snapshots
      /\ lastId \in Nat /\ \A p \in points : p.id \in 1 .. lastId
      /\ faults \in Nat /\ meddling \in Nat
    BY BoundsAssumption DEF TypeOK
<1>f. ~Fault
    BY <1>t DEF Fault, Quiet
<1>m. ~Meddle
    BY <1>t DEF Meddle, Quiet
<1>q. Quiet
    BY <1>t, <1>f, <1>m DEF Next, BeginApply, EditConfig, Apply, Delete, Create, DeleteFails,
       CreateFails, ApplyRollback, DropRollback, Rollback, RollbackDeclined, UpdateRollback,
       SkipRollback, RollbackFails, GuestWrites, Quiet, NoFault
<1>s. /\ \A s \in Snapshots : recorded[s] # NoSnapshot => recorded[s].id \in 1 .. lastId
      /\ \A s, t \in Snapshots :
           s # t /\ recorded[s] # NoSnapshot => recorded[s].id # recorded[t].id
      /\ rollPc = "ok" => pc[Target] \in Settled
    BY <1>q DEF Surviving
<1>o. \A s \in Snapshots :
        (recorded[s] # NoSnapshot /\ recorded[s].id \notin Ids) =>
           rollPc = "ok" /\ recorded[s].id > recorded[Target].id
    BY <1>q DEF OnlyNewerDestroyed, Quiet
<1>1. CASE BeginApply
  <2>1. /\ recorded' = [s \in Snapshots |-> Refreshed(s, {})]
        /\ UNCHANGED <<points, lastId>> /\ rollPc' # "ok"
      BY <1>1, <1>f DEF BeginApply, PlannedRollback
  <2>2. \A s \in Snapshots : \/ recorded'[s] = recorded[s] /\ recorded[s].id \in Ids
                             \/ recorded'[s] = NoSnapshot
      BY <2>1 DEF Refreshed
  <2>3. NoSnapshot.id = 0
      BY DEF NoSnapshot
  <2> QED BY <1>s, <2>1, <2>2, <2>3 DEF Surviving, OnlyNewerDestroyed, Ids
<1>2. ASSUME NEW s \in Snapshots, Delete(s) PROVE Surviving' /\ OnlyNewerDestroyed'
  <2>1. /\ recorded' = [recorded EXCEPT ![s] = NoSnapshot]
        /\ pc' = [pc EXCEPT ![s] = "create"]
        /\ UNCHANGED <<rollPc, lastId>> /\ pc[s] = "delete"
        /\ \A i \in Ids : i = recorded[s].id \/ i \in Ids'
      BY <1>2 DEF Delete, MayDelete, Remove, Ids
  <2>2. recorded'[s] = NoSnapshot /\ NoSnapshot.id = 0
        /\ \A t \in Snapshots \ {s} : recorded'[t] = recorded[t]
      BY <1>t, <2>1 DEF NoSnapshot
  <2>3. rollPc = "ok" => s # Target
      BY <1>s, <2>1
  <2>4. Surviving'
    <3>1. \A t \in Snapshots : recorded'[t] # NoSnapshot => recorded'[t].id \in 1 .. lastId'
        BY <1>s, <2>1, <2>2
    <3>2. \A t, u \in Snapshots :
            t # u /\ recorded'[t] # NoSnapshot => recorded'[t].id # recorded'[u].id
        BY <1>s, <1>t, <2>2
    <3>3. rollPc' = "ok" => pc'[Target] \in Settled
        BY <1>s, <1>t, <2>1, <2>3
    <3> QED BY <3>1, <3>2, <3>3 DEF Surviving
  <2>5. \A t \in Snapshots : recorded'[t] # NoSnapshot /\ recorded'[t].id \notin Ids' =>
          recorded[t].id \notin Ids
      BY <1>s, <2>1, <2>2
  <2> QED BY <1>o, <2>1, <2>2, <2>3, <2>4, <2>5 DEF OnlyNewerDestroyed
<1>3. ASSUME NEW s \in Snapshots, Create(s) PROVE Surviving' /\ OnlyNewerDestroyed'
  <2>1. /\ lastId' = lastId + 1 /\ points' = points \cup {[id |-> lastId', data |-> data]}
        /\ recorded' = [recorded EXCEPT ![s] = [id |-> lastId', name |-> plan.name[s]]]
        /\ pc' = [pc EXCEPT ![s] = "ok"] /\ rollPc' = rollPc /\ pc[s] = "create"
      BY <1>3 DEF Create, Take
  <2>2. recorded'[s].id = lastId + 1
        /\ \A t \in Snapshots \ {s} : recorded'[t] = recorded[t]
      BY <1>t, <2>1
  <2>3. Ids' = Ids \cup {lastId + 1}
    <3> DEFINE taken == [id |-> lastId', data |-> data]
    <3>1. taken.id = lastId + 1 /\ points' = points \cup {taken}
        BY <2>1
    <3> HIDE DEF taken
    <3> QED BY <3>1 DEF Ids
  <2>4. rollPc = "ok" => s # Target
      BY <1>s, <2>1
  <2>5. \A t \in Snapshots \ {s} : recorded[t].id # lastId + 1
    <3>1. NoSnapshot.id = 0
        BY DEF NoSnapshot
    <3> QED BY <1>s, <1>t, <3>1
  <2>6. Surviving'
      BY <1>s, <1>t, <2>1, <2>2, <2>4, <2>5 DEF Surviving
  <2> QED BY <1>o, <2>1, <2>2, <2>3, <2>4, <2>6 DEF OnlyNewerDestroyed
<1>4. CASE Rollback
  <2>1. /\ UNCHANGED <<recorded, pc, lastId>> /\ rollPc' = "ok" /\ rollPc = "fire"
        /\ pc[Target] \in Settled
        /\ points' = {p \in points : p.id <= recorded[Target].id}
      BY <1>4 DEF Rollback, MayRoll, Restore
  <2>2. \A s \in Snapshots : recorded[s] # NoSnapshot => recorded[s].id \in Ids
      BY <1>o, <2>1
  <2>3. \A i \in Ids \ Ids' : i > recorded[Target].id
      BY <1>t, <2>1 DEF Ids
  <2> QED BY <1>s, <2>1, <2>2, <2>3 DEF Surviving, OnlyNewerDestroyed
<1>5. CASE UpdateRollback
  <2>1. /\ UNCHANGED <<recorded, pc, points, lastId>> /\ rollPc = "update"
        /\ pc[Target] \in Settled
      BY <1>5 DEF UpdateRollback
  <2> QED BY <1>s, <1>o, <2>1 DEF Surviving, OnlyNewerDestroyed, Ids
<1>6. CASE DropRollback \/ RollbackDeclined \/ SkipRollback
  <2>1. UNCHANGED <<recorded, pc, points, lastId>> /\ rollPc # "ok" /\ rollPc' # "ok"
      BY <1>6 DEF DropRollback, RollbackDeclined, SkipRollback, MayRoll
  <2> QED BY <1>s, <1>o, <2>1 DEF Surviving, OnlyNewerDestroyed, Ids
<1>7. CASE EditConfig \/ GuestWrites
  <2>1. UNCHANGED <<recorded, pc, points, lastId, rollPc>>
      BY <1>7 DEF EditConfig, GuestWrites
  <2> QED BY <1>s, <1>o, <2>1 DEF Surviving, OnlyNewerDestroyed, Ids
<1> QED BY <1>f, <1>m, <1>1, <1>2, <1>3, <1>4, <1>5, <1>6, <1>7
    DEF Next, Apply, ApplyRollback, DeleteFails, CreateFails, RollbackFails

\* While nobody interferes and no call fails, no snapshot but one newer than the
\* rollback's target is ever gone from Sylve and still recorded.
THEOREM OlderSurvive == Spec => []OnlyNewerDestroyed
<1>1. Init => Surviving /\ OnlyNewerDestroyed
  <2> SUFFICES ASSUME Init PROVE Surviving /\ OnlyNewerDestroyed
      OBVIOUS
  <2>1. \A s \in Snapshots : recorded[s] = NoSnapshot
      BY DEF Init
  <2> QED BY <2>1 DEF Init, Surviving, OnlyNewerDestroyed
<1>2. IInv /\ Surviving /\ OnlyNewerDestroyed /\ [Next]_vars => Surviving' /\ OnlyNewerDestroyed'
  <2>1. CASE UNCHANGED vars
      BY <2>1 DEF vars, terraformVars, serverVars, history, bounds, Surviving, OnlyNewerDestroyed,
         Quiet, Ids
  <2> QED BY <2>1, SurvivingStep DEF IInv
<1> QED BY <1>1, <1>2, Inductive, PTL DEF Spec
==============================================================================
