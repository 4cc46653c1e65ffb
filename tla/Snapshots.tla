------------------------------ MODULE Snapshots ------------------------------
(***************************************************************************)
(* The snapshots of one guest and the rollback to one of them:             *)
(* sylve_vm_snapshot and sylve_vm_snapshot_rollback                        *)
(* (src/internal/provider/vm_snapshot*_resource.go), and their equals for  *)
(* jails, whose code differs in names only.                                *)
(*                                                                         *)
(* The rollback's snapshot_id refers to the snapshot Target, so Terraform  *)
(* runs it after Target; the other snapshots are independent of it and run *)
(* before, after or between.  A rollback destroys, at Sylve, every newer   *)
(* snapshot, also those that other resources have recorded.                *)
(*                                                                         *)
(* The guest writes data all the time; a snapshot keeps the version of the *)
(* moment, a rollback brings it back.                                      *)
(*                                                                         *)
(* The snapshots' descriptions are taken to be set: one left out is read   *)
(* back as "" and would replace the snapshot in every apply                *)
(* (vm_snapshot_resource.go:73-77,155; `description` in SchemaPlan).  A    *)
(* failed call has its effect by then or never.                            *)
(***************************************************************************)
EXTENDS Naturals, FiniteSets

CONSTANTS Snapshots,    \* the snapshot resources of the configuration
          Target,       \* the one that the rollback refers to
          MaxEdits,     \* bound: changes of the configuration
          MaxFaults,    \* bound: calls that fail, or answer with nothing
          MaxMeddling,  \* bound: snapshots taken or removed by the operator
          MaxWrites     \* bound: versions of the data the guest writes

ASSUME TargetAssumption == Target \in Snapshots
ASSUME BoundsAssumption ==
  MaxEdits \in Nat /\ MaxFaults \in Nat /\ MaxMeddling \in Nat /\ MaxWrites \in Nat

VARIABLES config,    \* [name, trigger]: names and trigger are counted from 1
          plan,      \* the configuration the running apply was planned from
          recorded,  \* state of the snapshot resources
          rolled,    \* state of the rollback resource
          pc,        \* where Create or Delete of each snapshot stands
          rollPc,    \* where the rollback resource stands
          points,    \* Sylve: the guest's snapshots; a larger id is newer
          lastId,    \* Sylve: the id given last
          data,      \* Sylve: the version of the guest's data
          written,   \* the newest version the guest has written
          fired,     \* rollbacks carried out since the trigger was changed
          lost,      \* rollbacks among them whose answer was lost
          edits, faults, meddling

terraformVars == <<plan, recorded, rolled, pc, rollPc>>
serverVars == <<points, lastId, data, written>>
history == <<fired, lost>>
bounds == <<edits, faults, meddling>>
vars == <<config, terraformVars, serverVars, history, bounds>>

NoSnapshot == [id |-> 0, name |-> 0]
NoRollback == [snapshot |-> 0, trigger |-> 0]
Settled == {"idle", "ok"}
Over == Settled \cup {"failed", "skipped"}

Config == [name : [Snapshots -> Nat], trigger : Nat]

TypeOK ==
  /\ config \in Config /\ plan \in Config
  /\ recorded \in [Snapshots -> [id : Nat, name : Nat]]
  /\ rolled \in [snapshot : Nat, trigger : Nat]
  /\ pc \in [Snapshots -> Over \cup {"delete", "create"}]
  /\ rollPc \in Over \cup {"replace", "fire", "update"}
  /\ points \subseteq [id : 1 .. lastId, data : 0 .. written]
  /\ lastId \in Nat /\ data \in 0 .. written /\ written \in 0 .. MaxWrites
  /\ fired \in Nat /\ lost \in Nat
  /\ edits \in 0 .. MaxEdits /\ faults \in 0 .. MaxFaults /\ meddling \in 0 .. MaxMeddling

\* A guest without snapshots, and a configuration not applied yet.
Init ==
  /\ config = [name |-> [s \in Snapshots |-> 1], trigger |-> 1]
  /\ plan = config
  /\ recorded = [s \in Snapshots |-> NoSnapshot]
  /\ rolled = NoRollback
  /\ pc = [s \in Snapshots |-> "idle"] /\ rollPc = "idle"
  /\ points = {} /\ lastId = 0 /\ data = 0 /\ written = 0
  /\ fired = 0 /\ lost = 0
  /\ edits = 0 /\ faults = 0 /\ meddling = 0

Ids == {p.id : p \in points}

Fault == faults < MaxFaults /\ faults' = faults + 1
NoFault == UNCHANGED faults

------------------------------------------------------------------------------
(* Refresh and plan.                                                       *)

Finished == rollPc \in Over /\ \A s \in Snapshots : pc[s] \in Over

\* Read of a snapshot: list, filter by id, and drop it when it is not there.
Refreshed(s, blank) ==
  IF recorded[s].id \in Ids /\ s \notin blank THEN recorded[s] ELSE NoSnapshot

\* The name forces replacement, which deletes first; so would the description,
\* which is set and never edited here.
Planned(r, name) ==
  IF r = NoSnapshot THEN "create" ELSE IF r.name # name THEN "delete" ELSE "idle"

\* Mutation of PlannedRollback: Read checks that the snapshot is still there.
PlannedRollbackChecked ==
  IF rolled = NoRollback \/ rolled.snapshot \notin Ids THEN "fire"
  ELSE IF rolled.trigger # config.trigger THEN "replace"
  ELSE IF recorded'[Target].id # rolled.snapshot \/ pc'[Target] # "idle" THEN "update"
  ELSE "idle"

\* Read of the rollback believes the state; only `trigger` forces replacement;
\* a snapshot_id that changes, or is not known yet, is an update in place.
PlannedRollback ==
  IF rolled = NoRollback THEN "fire"
  ELSE IF rolled.trigger # config.trigger THEN "replace"
  ELSE IF recorded'[Target].id # rolled.snapshot \/ pc'[Target] # "idle" THEN "update"
  ELSE "idle"

\* A list that comes back with an empty body makes a snapshot look removed.
BeginApply ==
  /\ Finished
  /\ plan' = config
  /\ \E blank \in {{}} \cup {{s} : s \in Snapshots} :
       /\ IF blank = {} THEN NoFault ELSE Fault
       /\ recorded' = [s \in Snapshots |-> Refreshed(s, blank)]
  /\ pc' = [s \in Snapshots |-> Planned(recorded'[s], config.name[s])]
  /\ rollPc' = PlannedRollback
  /\ UNCHANGED <<config, rolled, serverVars, history, edits, meddling>>

\* The user renames a snapshot, or changes the trigger.
EditConfig ==
  /\ Finished
  /\ edits < MaxEdits
  /\ edits' = edits + 1
  /\ \/ /\ \E s \in Snapshots : config' = [config EXCEPT !.name[s] = @ + 1]
        /\ UNCHANGED history
     \/ /\ config' = [config EXCEPT !.trigger = @ + 1]
        /\ fired' = 0 /\ lost' = 0
  /\ UNCHANGED <<terraformVars, serverVars, faults, meddling>>

------------------------------------------------------------------------------
(* The snapshot resources.                                                 *)

Goto(s, place) == pc' = [pc EXCEPT ![s] = place]
Record(s, r) == recorded' = [recorded EXCEPT ![s] = r]

\* What depends on Target is destroyed before Target is.
MayDelete(s) == pc[s] = "delete" /\ (s = Target => rollPc # "replace")

Remove(id) == points' = {p \in points : p.id # id}

\* A snapshot that is gone already (404) counts as deleted.
Delete(s) ==
  /\ MayDelete(s)
  /\ Remove(recorded[s].id)
  /\ Record(s, NoSnapshot)
  /\ Goto(s, "create")
  /\ UNCHANGED <<config, plan, rolled, rollPc, lastId, data, written, history, bounds>>

DeleteFails(s) ==
  /\ MayDelete(s)
  /\ Fault
  /\ Remove(recorded[s].id) \/ UNCHANGED points
  /\ Goto(s, "failed")
  /\ UNCHANGED <<config, plan, recorded, rolled, rollPc, lastId, data, written, history,
                 edits, meddling>>

Take ==
  /\ lastId' = lastId + 1
  /\ points' = points \cup {[id |-> lastId', data |-> data]}
  /\ UNCHANGED <<data, written>>

\* The answer to the POST carries the id.
Create(s) ==
  /\ pc[s] = "create"
  /\ Take
  /\ Record(s, [id |-> lastId', name |-> plan.name[s]])
  /\ Goto(s, "ok")
  /\ UNCHANGED <<config, plan, rolled, rollPc, history, bounds>>

\* The POST fails with or without its effect, or it answers 2xx with an empty
\* body: then the zero value of the object, whose id is 0, is recorded.
CreateFails(s) ==
  /\ pc[s] = "create"
  /\ Fault
  /\ \/ UNCHANGED <<serverVars, recorded>> /\ Goto(s, "failed")
     \/ Take /\ Goto(s, "failed") /\ UNCHANGED recorded
     \/ Take /\ Goto(s, "ok") /\ Record(s, [id |-> 0, name |-> plan.name[s]])
  /\ UNCHANGED <<config, plan, rolled, rollPc, history, edits, meddling>>

------------------------------------------------------------------------------
(* The rollback resource.                                                  *)

\* Delete does nothing; Terraform forgets the resource before its Create.
DropRollback ==
  /\ rollPc = "replace"
  /\ rollPc' = "fire"
  /\ rolled' = NoRollback
  /\ UNCHANGED <<config, plan, recorded, pc, serverVars, history, bounds>>

\* Mutation of Restore: the server keeps the newer ones, drops the older.
RestoreOlder(id) ==
  /\ \E p \in points : p.id = id /\ data' = p.data
  /\ points' = {p \in points : p.id >= id}
  /\ fired' = fired + 1
  /\ UNCHANGED <<lastId, written>>

\* Sylve "hardcodes" destroying what is newer than the snapshot.
Restore(id) ==
  /\ \E p \in points : p.id = id /\ data' = p.data
  /\ points' = {p \in points : p.id <= id}
  /\ fired' = fired + 1
  /\ UNCHANGED <<lastId, written>>

MayRoll == rollPc = "fire" /\ pc[Target] \in Settled

Rollback ==
  /\ MayRoll
  /\ Restore(recorded[Target].id)
  /\ rolled' = [snapshot |-> recorded[Target].id, trigger |-> plan.trigger]
  /\ rollPc' = "ok"
  /\ UNCHANGED <<config, plan, recorded, pc, lost, bounds>>

\* The snapshot is not there (any more): Sylve declines.
RollbackDeclined ==
  /\ MayRoll
  /\ recorded[Target].id \notin Ids
  /\ rollPc' = "failed"
  /\ UNCHANGED <<config, plan, recorded, rolled, pc, serverVars, history, bounds>>

\* Create returns before it has set the state.
RollbackFails ==
  /\ MayRoll
  /\ Fault
  /\ \/ Restore(recorded[Target].id) /\ lost' = lost + 1
     \/ UNCHANGED <<serverVars, history>>
  /\ rollPc' = "failed"
  /\ UNCHANGED <<config, plan, recorded, rolled, pc, edits, meddling>>

\* Mutation of UpdateRollback: a changed snapshot_id rolls back to that one.
UpdateRollbackFiring ==
  /\ rollPc = "update"
  /\ pc[Target] \in Settled
  /\ Restore(recorded[Target].id)
  /\ rolled' = [snapshot |-> recorded[Target].id, trigger |-> plan.trigger]
  /\ rollPc' = "ok"
  /\ UNCHANGED <<config, plan, recorded, pc, lost, bounds>>

\* Mutation of UpdateRollback: the prior state is kept.
UpdateRollbackKeeping ==
  /\ rollPc = "update"
  /\ pc[Target] \in Settled
  /\ rollPc' = "ok"
  /\ UNCHANGED <<config, plan, recorded, rolled, pc, serverVars, history, bounds>>

\* Update records the plan, and calls nobody.
UpdateRollback ==
  /\ rollPc = "update"
  /\ pc[Target] \in Settled
  /\ rolled' = [snapshot |-> recorded[Target].id, trigger |-> plan.trigger]
  /\ rollPc' = "ok"
  /\ UNCHANGED <<config, plan, recorded, pc, serverVars, history, bounds>>

SkipRollback ==
  /\ rollPc \in {"fire", "update"}
  /\ pc[Target] = "failed"
  /\ rollPc' = "skipped"
  /\ UNCHANGED <<config, plan, recorded, rolled, pc, serverVars, history, bounds>>

------------------------------------------------------------------------------
(* The guest and Sylve's operator.                                         *)

GuestWrites ==
  /\ written < MaxWrites
  /\ written' = written + 1
  /\ data' = written'
  /\ UNCHANGED <<config, terraformVars, points, lastId, history, bounds>>

Meddle ==
  /\ meddling < MaxMeddling
  /\ meddling' = meddling + 1
  /\ \/ Take
     \/ /\ \E id \in Ids : Remove(id)
        /\ UNCHANGED <<lastId, data, written>>
  /\ UNCHANGED <<config, terraformVars, history, edits, faults>>

------------------------------------------------------------------------------

Apply(s) == Delete(s) \/ Create(s)
ApplyRollback == DropRollback \/ Rollback \/ RollbackDeclined \/ UpdateRollback \/ SkipRollback

Next ==
  \/ BeginApply \/ EditConfig
  \/ \E s \in Snapshots : Apply(s) \/ DeleteFails(s) \/ CreateFails(s)
  \/ ApplyRollback \/ RollbackFails
  \/ GuestWrites \/ Meddle

Spec == Init /\ [][Next]_vars

\* Terraform's workers run, and the user applies again.
FairSpec ==
  /\ Spec
  /\ WF_vars(BeginApply)
  /\ \A s \in Snapshots : WF_vars(Apply(s))
  /\ WF_vars(ApplyRollback)

------------------------------------------------------------------------------
(* Properties.                                                             *)

\* A trigger fires the rollback once, and once more for every answer that was
\* lost; never because of a refresh, of another snapshot, or of what the
\* operator does.  "nothing happens again unless `trigger` changes"
\* (vm_snapshot_rollback_resource.go:55)
FiresOncePerTrigger == fired <= 1 + lost

\* A recorded snapshot that Sylve no longer has, while nobody interfered and
\* no call failed, is newer than the one rolled back to in this apply: the
\* target itself and everything older survive.  (vm_snapshot.go:79-86)
OnlyNewerDestroyed ==
  (meddling = 0 /\ faults = 0) =>
    \A s \in Snapshots :
      (recorded[s] # NoSnapshot /\ recorded[s].id \notin Ids) =>
        /\ rollPc = "ok"
        /\ recorded[s].id > recorded[Target].id

\* Snapshot and rollback resources together keep the promise of a one-shot
\* action: only a rollback that is asked for and not yet recorded takes the
\* guest's data back, and recorded means carried out.
Promise == INSTANCE OneShot WITH asked <- config.trigger, done <- rolled.trigger
ImplementsOneShot == Promise!Spec

\* Once the configuration is left alone and nothing fails any more, repeated
\* applies take again what a rollback has destroyed, and come to rest: the
\* snapshots and the rollback do not undo each other for ever.
Applied ==
  /\ \A s \in Snapshots : recorded[s].name = config.name[s] /\ recorded[s].id \in Ids
  /\ rolled = [snapshot |-> recorded[Target].id, trigger |-> config.trigger]
EventuallyApplied == <>[]Applied
==============================================================================
