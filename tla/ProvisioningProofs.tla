-------------------------- MODULE ProvisioningProofs --------------------------
(***************************************************************************)
(* Proofs about Provisioning, for any set of resources, types, keys and    *)
(* configurations, and any bounds.                                         *)
(*                                                                         *)
(* Everything is about what a resource holds: the id in its entry, or the  *)
(* one its running Create is about to record.  Unconditionally (IInv):     *)
(*                                                                         *)
(*   Server  ids, and the keys that Sylve guards, are unique               *)
(*   Places  what the place of an operation says of the entry              *)
(*   Keyed   what is held has the resource's key, as it is sent            *)
(*   Own     and where a lookup cannot mistake it, is its own              *)
(*                                                                         *)
(* and from there, each with what it needs,                                *)
(*                                                                         *)
(*   Apart   no two hold the same, if keys differ                          *)
(*   Mine    what is held is the newest of one's own, while the operator   *)
(*           keeps out                                                     *)
(*   Kept    nothing that a lookup can find is out of reach, while besides *)
(*           no call is lost                                               *)
(***************************************************************************)
EXTENDS Provisioning, FiniteSetTheorems, TLAPS

------------------------------------------------------------------------------
(* The invariant.                                                          *)

\* The ids that the state, or a Create about to record one, has of r.
Held(r) == {record[r], found[r]} \cap Ids

\* Ids are unique; so are keys where Sylve sees to it; and every object of
\* Terraform's has the key of the resource that made it, in the form Sylve stores.
Server ==
  /\ \A o, p \in objects : o.id = p.id => o = p
  /\ \A o, p \in objects : o.key = p.key /\ TypeOfKey(o.key).unique => o = p
  /\ \A o \in objects : o.by \in Resources => o.key = Stored(KeyOf[o.by])

\* What is known of a resource by the place of its operation.
Places ==
  \A r \in Resources :
    /\ pc[r] \in {"create", "lookup", "flash"} =>
         record[r] = None /\ r \notin tainted /\ r \in wanted
    /\ found[r] # None <=> pc[r] = "flash"
    /\ pc[r] = "lookup" => Type(r).names # "answer"
    /\ pc[r] = "flash" => Type(r).then = "flash"
    /\ record[r] = Unset => Type(r).names = "answer"

\* An id held is that of an object with the resource's key, or of none.
Keyed == \A r \in Resources : \A o \in objects : o.id \in Held(r) => o.key = KeyOf[r]

\* As long as no object is taken away by the operator, a lookup by a unique key
\* finds what its own POST made.
Own ==
  meddling.removed = 0 =>
    \A r \in Resources :
      Type(r).names \in {"first", "answer"} =>
        /\ \A o \in objects : o.id \in Held(r) => o.by = r
        /\ pc[r] = "lookup" => \E o \in objects : o.by = r

IInv == TypeOK /\ Server /\ Places /\ Keyed /\ Own

\* No two resources hold the same id.
Apart == \A r, s \in Resources : r # s => Held(r) \cap Held(s) = {}

\* While the operator keeps out, what a resource holds is the newest of its own,
\* those aside that a POST given up on has made.
Mine ==
  Undisturbed =>
    /\ \A o \in objects : o.by \in Resources
    /\ \A r \in Resources : \A o \in objects :
         /\ o.id \in Held(r) => o.by = r
         /\ o.by = r /\ ~o.late => \A i \in Held(r) : o.id <= i

\* While, besides, nothing is lost, a resource has one object, which its entry or
\* its running Create leads to unless Sylve has cleaned the key; and what reports
\* success is what is wanted.
Kept ==
  losses = 0 /\ Undisturbed =>
    /\ \A o \in objects : o.status # "failed"
    /\ \A o, p \in objects : o.by = p.by => o = p
    /\ \A o \in objects : pc[o.by] = "flash" => o.id = found[o.by]
    /\ \A o \in objects : Orphan(o) => Missed(o)
    /\ \A r \in Resources :
         /\ pc[r] \in {"lookup", "flash"} => \E o \in objects : o.by = r
         /\ pc[r] = "ok" => IF r \in wanted THEN Denoted(r) # {} ELSE record[r] = None

------------------------------------------------------------------------------
(* The table of types, and keys.                                           *)

\* What the proofs need of a type: a lookup that takes the first match is by a
\* key that Sylve keeps unique, and only such a lookup is followed by a flash.
LEMMA TypeShape ==
  ASSUME NEW r \in Resources
  PROVE  /\ Type(r).names \in {"chosen", "first", "newest", "answer"}
         /\ Type(r).names \in {"chosen", "first"} => Type(r).unique
         /\ Type(r).then = "flash" => Type(r).names = "first"
         /\ KeyOf[r] \in DOMAIN Cleans => Type(r).names = "first" /\ Type(r).unique
<1>1. TypeOf[r] \in DOMAIN Types
  BY TypeOfAssumption
<1>2. Type(r) \in {Vm, Jail, VmStorage, VmNetwork, VmSnapshot, JailSnapshot, Download,
                   ZfsVolume, ZfsFilesystem, ManualSwitch, NetworkObject}
  BY <1>1 DEF Type, Types
<1>3. KeyOf[r] \in DOMAIN Cleans => Type(r) = Download
  BY CleansAssumption DEF Type, Types
<1> QED
  BY <1>2, <1>3 DEF Vm, Jail, VmStorage, VmNetwork, VmSnapshot, JailSnapshot, Download,
     ZfsVolume, ZfsFilesystem, ManualSwitch, NetworkObject

\* The type of a key is that of any resource that has it.
LEMMA KeyType == ASSUME NEW r \in Resources PROVE TypeOfKey(Stored(KeyOf[r])) = Type(r)
<1> DEFINE s == CHOOSE s \in Resources : Stored(KeyOf[s]) = Stored(KeyOf[r])
<1>1. s \in Resources /\ Stored(KeyOf[s]) = Stored(KeyOf[r])
  OBVIOUS
<1>2. TypeOf[s] = TypeOf[r]
  BY <1>1, KeysBelongToTypes
<1> QED
  BY <1>2 DEF TypeOfKey, Type

\* Sylve stores the key of r as it is sent.
Plain(r) == Stored(KeyOf[r]) = KeyOf[r]

\* Keys are plain but where the first match is taken.
LEMMA PlainKey ==
  ASSUME NEW r \in Resources, Type(r).names # "first" \/ ~Type(r).unique
  PROVE  Plain(r)
BY TypeShape DEF Plain, Stored

\* What a lookup can find has a plain key.
LEMMA FoundKey ==
  ASSUME TypeOK, NEW r \in Resources, NEW o \in objects, o.key = KeyOf[r]
  PROVE  Plain(r) /\ TypeOfKey(KeyOf[r]) = Type(r)
<1>1. PICK s \in Resources : o.key = Stored(KeyOf[s])
  BY DEF TypeOK, Objects, Keys
<1>2. Plain(r)
  BY <1>1, CleansAssumption DEF Plain, Stored
<1> QED
  BY <1>2, KeyType DEF Plain

\* Resources whose keys are stored alike are of one type, and have one key unless
\* the first match is taken.
LEMMA SameKey ==
  ASSUME NEW r \in Resources, NEW s \in Resources, Stored(KeyOf[r]) = Stored(KeyOf[s])
  PROVE  /\ Type(r) = Type(s)
         /\ Type(r).names # "first" => KeyOf[r] = KeyOf[s]
<1>1. Type(r) = Type(s)
  BY KeysBelongToTypes DEF Type
<1> QED
  BY <1>1, PlainKey DEF Plain

------------------------------------------------------------------------------
(* What a step makes of Sylve's objects.                                   *)

\* A download that ends is the same object with another status.
LEMMA EndedObjects ==
  ASSUME objects \in SUBSET Objects, NEW o \in objects, NEW status \in Statuses,
         objects' = Ended(o, status)
  PROVE  /\ \A p \in objects' : \E q \in objects :
              /\ p.id = q.id /\ p.key = q.key /\ p.by = q.by /\ p.late = q.late
              /\ p = q \/ p.status = status
         /\ \A q \in objects : \E p \in objects' : p.id = q.id /\ p.key = q.key /\ p.by = q.by
         /\ objects' \in SUBSET Objects
<1> DEFINE e == [o EXCEPT !.status = status]
<1> DEFINE Any == [id : Ids, key : Keys, by : Resources \cup {"operator"},
                   status : Statuses, late : BOOLEAN]
<1>1. o \in Any
  BY DEF Objects
<1>2. /\ e \in Any
      /\ e.id = o.id /\ e.key = o.key /\ e.by = o.by /\ e.status = status /\ e.late = o.late
  BY <1>1
<1>3. \A p \in objects' : p = e \/ p \in objects
  BY DEF Ended
<1>4. \A q \in objects : q = o \/ q \in objects'
  BY DEF Ended
<1>5. e \in objects'
  BY DEF Ended
<1>6. \A q \in objects : \E p \in objects' : p.id = q.id /\ p.key = q.key /\ p.by = q.by
  BY <1>2, <1>4, <1>5
<1>7. \A p \in objects' : \E q \in objects :
        /\ p.id = q.id /\ p.key = q.key /\ p.by = q.by /\ p.late = q.late
        /\ p = q \/ p.status = status
  BY <1>2, <1>3
<1>8. objects' \in SUBSET Objects
  BY <1>2, <1>3, objects' = Ended(o, status) DEF Objects, Ids
<1> QED
  BY <1>6, <1>7, <1>8

------------------------------------------------------------------------------
(* Types.                                                                  *)

LEMMA InitTypes == Init => TypeOK
BY BoundsAssumption DEF Init, TypeOK, Ids, Done, Objects

\* An object added leaves the objects well typed; so does an id used for it.
LEMMA AddedObject ==
  ASSUME TypeOK, NEW o, o.id = nextId,
         o \in [id : {nextId}, key : Keys, by : Resources \cup {"operator"},
                status : Statuses, late : BOOLEAN],
         objects' = objects \cup {o}, nextId' = nextId + 1
  PROVE  /\ objects' \in SUBSET Objects' /\ nextId' \in Nat \ {0}
         /\ Ids' = Ids \cup {nextId} /\ nextId \notin Ids
<1>1. nextId \in Nat \ {0} /\ objects \in SUBSET Objects
  BY DEF TypeOK
<1>2. nextId' \in Nat \ {0} /\ Ids' = Ids \cup {nextId} /\ nextId \notin Ids
  BY <1>1 DEF Ids
<1>3. Objects \subseteq Objects' /\ o \in Objects'
  BY <1>2 DEF Objects
<1> QED
  BY <1>1, <1>2, <1>3

LEMMA PostedObject ==
  ASSUME NEW r \in Resources
  PROVE  /\ Posted(r) \in [id : {nextId}, key : Keys, by : Resources \cup {"operator"},
                           status : Statuses, late : BOOLEAN]
         /\ Posted(r).id = nextId /\ Posted(r).key = Stored(KeyOf[r]) /\ Posted(r).by = r
         /\ Posted(r).status # "failed" /\ ~Posted(r).late
BY DEF Posted, Keys, Statuses

\* What a POST that was given up on makes.
Belated(r) == [Posted(r) EXCEPT !.late = TRUE]

LEMMA BelatedObject ==
  ASSUME NEW r \in Resources
  PROVE  /\ Belated(r) \in [id : {nextId}, key : Keys, by : Resources \cup {"operator"},
                            status : Statuses, late : BOOLEAN]
         /\ Belated(r).id = nextId /\ Belated(r).key = Stored(KeyOf[r]) /\ Belated(r).by = r
         /\ Belated(r).late
BY DEF Belated, Posted, Keys, Statuses

\* A POST is on its way only after a loss.
LEMMA LateStep == TypeOK /\ [Next]_vars => late' \in [Resources -> 0 .. losses']
<1> SUFFICES ASSUME TypeOK, [Next]_vars PROVE late' \in [Resources -> 0 .. losses']
  OBVIOUS
<1> USE DEF terraform, server, Fault, LosingFault
<1>o. late \in [Resources -> 0 .. losses] /\ losses \in Nat
  BY BoundsAssumption DEF TypeOK
<1>1. CASE late' = late /\ losses' \in {losses, losses + 1}
  BY <1>1, <1>o
<1>2. ASSUME NEW r \in Resources, PostFails(r) PROVE late' \in [Resources -> 0 .. losses']
  <2>1. losses' = losses + 1 /\ late' \in {late, [late EXCEPT ![r] = @ + 1]}
    BY <1>2 DEF PostFails
  <2> QED
    BY <1>o, <2>1
<1>3. ASSUME NEW r \in Resources, PostArrives(r) PROVE late' \in [Resources -> 0 .. losses']
  BY <1>3, <1>o DEF PostArrives
<1>4. CASE BeginApply \/ BlankRefresh \/ EditConfig \/ UNCHANGED vars
           \/ DownloadEnds \/ DownloadBreaks \/ Meddle
  BY <1>1, <1>4 DEF BeginApply, BlankRefresh, EditConfig, vars, DownloadEnds, DownloadBreaks, Meddle
<1>5. ASSUME NEW r \in Resources, Operation(r) \/ Failure(r), ~PostFails(r)
      PROVE  late' \in [Resources -> 0 .. losses']
  BY <1>1, <1>5 DEF Operation, Failure, Post, PostRefused, LookUp, NotFound, Flash, Delete,
     LookUpFails, FlashFails, DeleteFails
<1> QED
  BY <1>2, <1>3, <1>4, <1>5 DEF Next

LEMMA TypesStep == TypeOK /\ [Next]_vars => TypeOK'
<1> SUFFICES ASSUME TypeOK, [Next]_vars PROVE TypeOK'
  OBVIOUS
<1> USE BoundsAssumption DEF terraform, server, Fault, LosingFault, Goto, Done
<1>o. /\ wanted \in Configurations /\ tainted \in SUBSET Resources
      /\ record \in [Resources -> Ids \cup {None, Unset}]
      /\ pc \in [Resources -> Done \cup {"delete", "create", "lookup", "flash"}]
      /\ found \in [Resources -> Ids \cup {None}]
      /\ nextId \in Nat \ {0} /\ objects \in SUBSET Objects
  BY DEF TypeOK
<1>b. /\ losses \in 0 .. faults /\ faults \in 0 .. MaxFaults /\ edits \in 0 .. MaxEdits
      /\ meddling \in [added : 0 .. MaxMeddling, removed : 0 .. MaxMeddling]
  BY DEF TypeOK
<1>l. late' \in [Resources -> 0 .. losses']
  BY LateStep
<1>i. \A o \in objects : o.id \in Ids
  BY <1>o DEF Objects
<1>u. nextId' = nextId => Ids' = Ids /\ Objects' = Objects
  BY DEF Ids, Objects
<1>1. CASE BeginApply
  <2>1. record' \in [Resources -> Ids \cup {None, Unset}]
    BY <1>1, <1>o DEF BeginApply, Refreshed
  <2>2. pc' \in [Resources -> Done \cup {"delete", "create", "lookup", "flash"}]
    BY <1>1 DEF BeginApply, Planned
  <2>3. tainted' \in SUBSET Resources
    BY <1>1, <1>o DEF BeginApply
  <2> QED
    BY <1>1, <1>o, <1>b, <1>l, <1>u, <2>1, <2>2, <2>3 DEF BeginApply, TypeOK
<1>2. CASE BlankRefresh
  <2>1. record' \in [Resources -> Ids \cup {None, Unset}] /\ tainted' \in SUBSET Resources
    BY <1>2, <1>o DEF BlankRefresh
  <2> QED
    BY <1>2, <1>o, <1>b, <1>l, <1>u, <2>1 DEF BlankRefresh, TypeOK
<1>3. CASE EditConfig
  BY <1>3, <1>o, <1>b, <1>l, <1>u DEF EditConfig, TypeOK
<1>4. ASSUME NEW r \in Resources, Post(r) PROVE TypeOK'
  <2>1. /\ objects' \in SUBSET Objects' /\ nextId' \in Nat \ {0}
        /\ Ids' = Ids \cup {nextId}
    BY <1>4, PostedObject, AddedObject DEF Post
  <2>2. record' \in [Resources -> Ids' \cup {None, Unset}] /\ found' \in [Resources -> Ids' \cup {None}]
    BY <1>4, <1>o, <2>1 DEF Post
  <2> QED
    BY <1>4, <1>o, <1>b, <1>l, <2>1, <2>2 DEF Post, TypeOK
<1>5. ASSUME NEW r \in Resources, PostRefused(r) PROVE TypeOK'
  BY <1>5, <1>o, <1>b, <1>l, <1>u DEF PostRefused, TypeOK
<1>6. ASSUME NEW r \in Resources, PostFails(r) PROVE TypeOK'
  <2>1. CASE UNCHANGED <<record, objects, nextId>>
    BY <1>6, <2>1, <1>o, <1>b, <1>l, <1>u DEF PostFails, TypeOK
  <2>2. CASE objects' = objects \cup {Posted(r)} /\ nextId' = nextId + 1
    <3>1. /\ objects' \in SUBSET Objects' /\ nextId' \in Nat \ {0}
          /\ Ids' = Ids \cup {nextId}
      BY <2>2, PostedObject, AddedObject
    <3>2. record' \in [Resources -> Ids' \cup {None, Unset}] /\ found' \in [Resources -> Ids' \cup {None}]
      BY <1>6, <1>o, <3>1 DEF PostFails
    <3> QED
      BY <1>6, <1>o, <1>b, <1>l, <3>1, <3>2 DEF PostFails, TypeOK
  <2> QED
    BY <1>6, <2>1, <2>2 DEF PostFails
<1>7. ASSUME NEW r \in Resources, LookUp(r) PROVE TypeOK'
  <2>1. PICK o \in Match(r) : Take(r, o)
    BY <1>7 DEF LookUp
  <2>2. o.id \in Ids
    BY <1>i, <2>1 DEF Match, Matching, With
  <2>3. /\ record' \in [Resources -> Ids \cup {None, Unset}]
        /\ found' \in [Resources -> Ids \cup {None}]
        /\ pc' \in [Resources -> Done \cup {"delete", "create", "lookup", "flash"}]
    BY <1>o, <2>1, <2>2 DEF Take
  <2> QED
    BY <1>7, <1>o, <1>b, <1>l, <1>u, <2>3 DEF LookUp, TypeOK
<1>8. ASSUME NEW r \in Resources, NotFound(r) \/ LookUpFails(r) PROVE TypeOK'
  BY <1>8, <1>o, <1>b, <1>l, <1>u DEF NotFound, LookUpFails, TypeOK
<1>9. ASSUME NEW r \in Resources, Flash(r) \/ FlashFails(r) PROVE TypeOK'
  <2>1. /\ record' \in [Resources -> Ids \cup {None, Unset}]
        /\ found' \in [Resources -> Ids \cup {None}]
    BY <1>9, <1>o DEF Flash, FlashFails
  <2> QED
    BY <1>9, <1>o, <1>b, <1>l, <1>u, <2>1 DEF Flash, FlashFails, TypeOK
<1>10. ASSUME NEW r \in Resources, Delete(r) \/ DeleteFails(r) PROVE TypeOK'
  <2>1. objects' \in SUBSET Objects
    BY <1>10, <1>o DEF Delete, DeleteFails
  <2>2. /\ record' \in [Resources -> Ids \cup {None, Unset}]
        /\ pc' \in [Resources -> Done \cup {"delete", "create", "lookup", "flash"}]
        /\ tainted' \in SUBSET Resources
    BY <1>10, <1>o DEF Delete, DeleteFails
  <2> QED
    BY <1>10, <1>o, <1>b, <1>l, <1>u, <2>1, <2>2 DEF Delete, DeleteFails, TypeOK
<1>11. CASE DownloadEnds \/ DownloadBreaks
  <2>1. PICK o \in objects, status \in Statuses : objects' = Ended(o, status)
    BY <1>11 DEF DownloadEnds, DownloadBreaks, Statuses
  <2>2. objects' \in SUBSET Objects
    BY <1>o, <2>1, EndedObjects
  <2> QED
    BY <1>11, <1>o, <1>b, <1>l, <1>u, <2>2 DEF DownloadEnds, DownloadBreaks, TypeOK
<1>12. CASE Meddle
  <2>m. meddling' \in [added : 0 .. MaxMeddling, removed : 0 .. MaxMeddling]
    BY <1>12, <1>b DEF Meddle
  <2>1. CASE (\E o \in objects : objects' = objects \ {o}) /\ UNCHANGED nextId
    BY <1>12, <1>o, <1>b, <1>l, <1>u, <2>1, <2>m DEF Meddle, TypeOK
  <2>2. ASSUME NEW k \in {Stored(KeyOf[r]) : r \in wanted}, nextId' = nextId + 1,
               objects' = objects \cup
                  {[id |-> nextId, key |-> k, by |-> "operator", status |-> "done",
                    late |-> FALSE]}
        PROVE  TypeOK'
    <3>1. k \in Keys
      BY <1>o, ConfigurationsAssumption DEF Keys
    <3>2. /\ objects' \in SUBSET Objects' /\ nextId' \in Nat \ {0}
          /\ Ids' = Ids \cup {nextId}
      BY <2>2, <3>1, AddedObject DEF Statuses
    <3>3. record' \in [Resources -> Ids' \cup {None, Unset}] /\ found' \in [Resources -> Ids' \cup {None}]
      BY <1>12, <1>o, <3>2 DEF Meddle
    <3> QED
      BY <1>12, <1>o, <1>b, <1>l, <2>m, <3>2, <3>3 DEF Meddle, TypeOK
  <2> QED
    BY <1>12, <2>1, <2>2 DEF Meddle
<1>13. CASE UNCHANGED vars
  BY <1>13, <1>o, <1>b, <1>l, <1>u DEF vars, TypeOK
<1>14. ASSUME NEW r \in Resources, PostArrives(r) PROVE TypeOK'
  <2>1. CASE UNCHANGED <<objects, nextId>>
    BY <1>14, <2>1, <1>o, <1>b, <1>l, <1>u DEF PostArrives, TypeOK
  <2>2. CASE objects' = objects \cup {Belated(r)} /\ nextId' = nextId + 1
    <3>1. /\ objects' \in SUBSET Objects' /\ nextId' \in Nat \ {0}
          /\ Ids' = Ids \cup {nextId}
      BY <2>2, BelatedObject, AddedObject
    <3>2. record' \in [Resources -> Ids' \cup {None, Unset}] /\ found' \in [Resources -> Ids' \cup {None}]
      BY <1>14, <1>o, <3>1 DEF PostArrives
    <3> QED
      BY <1>14, <1>o, <1>b, <1>l, <3>1, <3>2 DEF PostArrives, TypeOK
  <2> QED
    BY <1>14, <2>1, <2>2 DEF PostArrives, Belated
<1> QED
  BY <1>1, <1>2, <1>3, <1>4, <1>5, <1>6, <1>7, <1>8, <1>9, <1>10, <1>11, <1>12, <1>13, <1>14
  DEF Next, Operation, Failure

\* The recorded state, the places of the operations and Sylve's objects keep
\* their types; a loss is always a fault.
THEOREM ProvisionTypes == Spec => []TypeOK
<1> QED
  BY InitTypes, TypesStep, PTL DEF Spec

------------------------------------------------------------------------------
(* Sylve's objects.                                                        *)

Shrinks == objects' \subseteq objects /\ nextId' = nextId
Ends == /\ \E o \in objects, status \in Statuses : objects' = Ended(o, status)
        /\ UNCHANGED <<nextId, terraform>>
Adds(o) == objects' = objects \cup {o} /\ nextId' = nextId + 1
ByResource == \E r \in Resources : /\ Post(r) \/ PostFails(r)
                                 /\ pc[r] = "create" /\ ~Refused(r) /\ Adds(Posted(r))
ByLatePost == \E r \in Resources : PostArrives(r) /\ ~Refused(r) /\ Adds(Belated(r))
ByOperator ==
  /\ \E o : /\ Adds(o)
            /\ o.id = nextId /\ o.by = "operator" /\ o.key \in Keys /\ o.status = "done"
            /\ TypeOfKey(o.key).unique => \A p \in objects : p.key # o.key
  /\ meddling'.added = meddling.added + 1
  /\ UNCHANGED terraform

\* What any step makes of the objects.
LEMMA Change ==
  TypeOK /\ [Next]_vars => Shrinks \/ Ends \/ ByResource \/ ByLatePost \/ ByOperator
<1> SUFFICES ASSUME TypeOK, [Next]_vars
             PROVE  Shrinks \/ Ends \/ ByResource \/ ByLatePost \/ ByOperator
  OBVIOUS
<1> USE DEF terraform, server
<1>1. CASE BeginApply \/ BlankRefresh \/ EditConfig \/ UNCHANGED vars
  BY <1>1 DEF BeginApply, BlankRefresh, EditConfig, vars, Shrinks
<1>2. ASSUME NEW r \in Resources, Operation(r) \/ Failure(r), nextId' = nextId PROVE Shrinks
  <2>1. nextId \in Nat
    BY DEF TypeOK
  <2> QED
    BY <1>2, <2>1 DEF Operation, Failure, Post, PostRefused, LookUp, NotFound, Flash, Delete,
       PostFails, LookUpFails, FlashFails, DeleteFails, Shrinks
<1>3. ASSUME NEW r \in Resources, Operation(r) \/ Failure(r), nextId' # nextId PROVE ByResource
  <2>1. pc[r] = "create" /\ ~Refused(r) /\ Adds(Posted(r))
    BY <1>3 DEF Operation, Failure, Post, PostRefused, LookUp, NotFound, Flash, Delete,
       PostFails, LookUpFails, FlashFails, DeleteFails, Adds
  <2>2. Post(r) \/ PostFails(r)
    BY <1>3 DEF Operation, Failure, Post, PostRefused, LookUp, NotFound, Flash, Delete,
       PostFails, LookUpFails, FlashFails, DeleteFails
  <2> QED
    BY <2>1, <2>2 DEF ByResource
<1>4. CASE DownloadEnds \/ DownloadBreaks
  BY <1>4 DEF DownloadEnds, DownloadBreaks, Ends, Statuses
<1>5. CASE Meddle
  <2>1. CASE (\E o \in objects : objects' = objects \ {o}) /\ UNCHANGED nextId
    BY <2>1 DEF Shrinks
  <2>2. ASSUME NEW k \in {Stored(KeyOf[r]) : r \in wanted}, nextId' = nextId + 1,
               TypeOfKey(k).unique => With(k) = {},
               meddling' = [meddling EXCEPT !.added = @ + 1], UNCHANGED terraform,
               objects' = objects \cup
                  {[id |-> nextId, key |-> k, by |-> "operator", status |-> "done",
                    late |-> FALSE]}
        PROVE  ByOperator
    <3> DEFINE o == [id |-> nextId, key |-> k, by |-> "operator", status |-> "done",
                     late |-> FALSE]
    <3>1. k \in Keys
      BY ConfigurationsAssumption DEF Keys, TypeOK
    <3>2. meddling'.added = meddling.added + 1
      BY <2>2 DEF TypeOK
    <3>3. Adds(o)
      BY <2>2 DEF Adds
    <3> QED
      BY <2>2, <3>1, <3>2, <3>3 DEF ByOperator, With
  <2> QED
    BY <1>5, <2>1, <2>2 DEF Meddle
<1>6. ASSUME NEW r \in Resources, PostArrives(r) PROVE Shrinks \/ ByLatePost
  BY <1>6 DEF PostArrives, Shrinks, ByLatePost, Adds, Belated
<1> QED
  BY <1>1, <1>2, <1>3, <1>4, <1>5, <1>6 DEF Next

LEMMA AddKeepsServer ==
  ASSUME TypeOK, Server, NEW o, Adds(o), o.id = nextId,
         o.by \in Resources => o.key = Stored(KeyOf[o.by]),
         TypeOfKey(o.key).unique => \A p \in objects : p.key # o.key
  PROVE  Server'
<1>1. \A p \in objects : p.id < nextId /\ p.id \in Nat
  BY DEF TypeOK, Objects, Ids
<1>2. nextId \in Nat
  BY DEF TypeOK
<1>3. \A p \in objects' : p \in objects \/ p = o
  BY DEF Adds
<1>4. \A p, q \in objects' : p.id = q.id => p = q
  BY <1>1, <1>2, <1>3 DEF Server
<1>5. \A p, q \in objects' : p.key = q.key /\ TypeOfKey(p.key).unique => p = q
  BY <1>3 DEF Server
<1>6. \A p \in objects' : p.by \in Resources => p.key = Stored(KeyOf[p.by])
  BY <1>3 DEF Server
<1> QED
  BY <1>4, <1>5, <1>6 DEF Server, TypeOfKey, Type

LEMMA ServerStep == TypeOK /\ Server /\ [Next]_vars => Server'
<1> SUFFICES ASSUME TypeOK, Server, [Next]_vars PROVE Server'
  OBVIOUS
<1>1. CASE Shrinks
  BY <1>1 DEF Shrinks, Server, TypeOfKey, Type
<1>2. CASE Ends
  <2>1. PICK o \in objects, status \in Statuses : objects' = Ended(o, status)
    BY <1>2 DEF Ends
  <2> DEFINE e == [o EXCEPT !.status = status]
  <2>2. o \in [id : Ids, key : Keys, by : Resources \cup {"operator"},
               status : Statuses, late : BOOLEAN]
    BY DEF TypeOK, Objects
  <2>3. e.id = o.id /\ e.key = o.key /\ e.by = o.by
    BY <2>2
  <2>4. objects' = (objects \ {o}) \cup {e}
    BY <2>1 DEF Ended
  <2> HIDE DEF e
  <2> QED
    BY <2>3, <2>4 DEF Server, TypeOfKey, Type
<1>3. CASE ByResource \/ ByLatePost
  <2>1. PICK r \in Resources : ~Refused(r) /\ (Adds(Posted(r)) \/ Adds(Belated(r)))
    BY <1>3 DEF ByResource, ByLatePost
  <2>2. TypeOfKey(Stored(KeyOf[r])).unique => \A p \in objects : p.key # Stored(KeyOf[r])
    BY <2>1, KeyType DEF Refused, With
  <2> QED
    BY <2>1, <2>2, PostedObject, BelatedObject, AddKeepsServer
<1>4. CASE ByOperator
  <2>1. PICK o : /\ Adds(o) /\ o.id = nextId /\ o.by = "operator"
                 /\ TypeOfKey(o.key).unique => \A p \in objects : p.key # o.key
    BY <1>4 DEF ByOperator
  <2> QED
    BY <2>1, AddKeepsServer, OperatorAssumption
<1> QED
  BY <1>1, <1>2, <1>3, <1>4, Change

------------------------------------------------------------------------------
(* The places of the operations.                                           *)

\* An operation leaves other resources' places, entries and finds alone.
LEMMA Bystander ==
  ASSUME TypeOK, NEW r \in Resources, NEW s \in Resources, r # s, Operation(r) \/ Failure(r)
  PROVE  /\ UNCHANGED <<wanted, record[s], found[s], pc[s]>>
         /\ s \in tainted' <=> s \in tainted
<1>1. /\ DOMAIN pc = Resources /\ DOMAIN found = Resources /\ DOMAIN record = Resources
      /\ tainted \in SUBSET Resources
  BY DEF TypeOK
<1> QED
  BY <1>1 DEF Operation, Failure, Post, PostRefused, LookUp, NotFound, Flash, Delete,
     PostFails, LookUpFails, FlashFails, DeleteFails, Take, Goto, terraform, server

LEMMA PlacesStep == TypeOK /\ Places /\ [Next]_vars => Places'
<1> SUFFICES ASSUME TypeOK, Places, [Next]_vars, NEW s \in Resources
             PROVE  /\ pc'[s] \in {"create", "lookup", "flash"} =>
                         record'[s] = None /\ s \notin tainted' /\ s \in wanted'
                    /\ found'[s] # None <=> pc'[s] = "flash"
                    /\ pc'[s] = "lookup" => Type(s).names # "answer"
                    /\ pc'[s] = "flash" => Type(s).then = "flash"
                    /\ record'[s] = Unset => Type(s).names = "answer"
  BY DEF Places, Type
<1> USE DEF terraform, server, Goto, Fault, LosingFault
<1>a. /\ pc[s] \in {"create", "lookup", "flash"} =>
            record[s] = None /\ s \notin tainted /\ s \in wanted
      /\ found[s] # None <=> pc[s] = "flash"
      /\ pc[s] = "lookup" => Type(s).names # "answer"
      /\ pc[s] = "flash" => Type(s).then = "flash"
      /\ record[s] = Unset => Type(s).names = "answer"
  BY DEF Places
<1>o. /\ tainted \in SUBSET Resources
      /\ record \in [Resources -> Ids \cup {None, Unset}]
      /\ DOMAIN pc = Resources /\ DOMAIN found = Resources
      /\ found[s] \in Ids \cup {None}
      /\ None \notin Ids /\ Unset \notin Ids /\ None # Unset
      /\ \A o \in objects : o.id \in Ids
  BY DEF TypeOK, Ids, None, Unset, Objects
<1>1. CASE BeginApply
  BY <1>1, <1>a, <1>o DEF BeginApply, Refreshed, Planned, Finished, Done
<1>2. CASE BlankRefresh
  BY <1>2, <1>a, <1>o DEF BlankRefresh, Finished, Done
<1>3. CASE EditConfig
  BY <1>3, <1>a, <1>o DEF EditConfig, Finished, Done
<1>4. ASSUME NEW r \in Resources, Operation(r) \/ Failure(r), r # s
      PROVE  /\ UNCHANGED <<wanted, record[s], found[s], pc[s]>>
             /\ s \in tainted' <=> s \in tainted
  BY <1>4, Bystander
<1>5. CASE Post(s) \/ PostFails(s)
  <2>1. nextId # None /\ nextId # Unset
    BY DEF TypeOK, None, Unset
  <2> QED
    BY <1>5, <1>a, <1>o, <2>1 DEF Post, PostFails
<1>6. CASE LookUp(s)
  <2>1. PICK o \in Match(s) : Take(s, o)
    BY <1>6 DEF LookUp
  <2>2. o.id \in Ids
    BY <1>o, <2>1 DEF Match, Matching, With
  <2> QED
    BY <1>6, <1>a, <1>o, <2>1, <2>2 DEF LookUp, Take
<1>7. CASE PostRefused(s) \/ NotFound(s) \/ LookUpFails(s)
  BY <1>7, <1>a, <1>o DEF PostRefused, NotFound, LookUpFails
<1>8. CASE Flash(s) \/ FlashFails(s)
  BY <1>8, <1>a, <1>o DEF Flash, FlashFails
<1>9. CASE Delete(s) \/ DeleteFails(s)
  BY <1>9, <1>a, <1>o DEF Delete, DeleteFails
<1>10. CASE \/ DownloadEnds \/ DownloadBreaks \/ Meddle \/ UNCHANGED vars
            \/ \E r \in Resources : PostArrives(r)
  BY <1>10, <1>a DEF DownloadEnds, DownloadBreaks, Meddle, PostArrives, vars
<1> QED
  BY <1>a, <1>1, <1>2, <1>3, <1>4, <1>5, <1>6, <1>7, <1>8, <1>9, <1>10
  DEF Next, Operation, Failure

------------------------------------------------------------------------------
(* What is held, and by which resource.                                    *)

\* Every object has been there before the step, or has a new id.
LEMMA Origin ==
  ASSUME TypeOK, [Next]_vars, NEW p \in objects'
  PROVE  \/ p.id \in Ids /\ \E q \in objects :
               p.id = q.id /\ p.key = q.key /\ p.by = q.by /\ p.late = q.late
         \/ p.id = nextId /\ p.id \notin Ids
<1>o. /\ objects \in SUBSET Objects /\ nextId \in Nat \ {0} /\ nextId \notin Ids
      /\ \A q \in objects : q.id \in Ids
  BY DEF TypeOK, Objects, Ids
<1>1. CASE Shrinks
  BY <1>1, <1>o DEF Shrinks
<1>2. CASE Ends
  BY <1>2, <1>o, EndedObjects DEF Ends
<1>3. CASE ByResource \/ ByLatePost
  BY <1>3, <1>o, PostedObject, BelatedObject DEF ByResource, ByLatePost, Adds
<1>4. CASE ByOperator
  BY <1>4, <1>o DEF ByOperator, Adds
<1> QED
  BY <1>1, <1>2, <1>3, <1>4, Change

\* A resource comes to hold an id in two ways: its POST is answered with it, or
\* its lookup has found it.
Answered(r) == /\ Post(r) /\ Type(r).names = "answer"
               /\ Held(r) = {} /\ Held(r)' = {nextId}
Found(r) == /\ pc[r] = "lookup" /\ UNCHANGED objects
            /\ Held(r) = {}
            /\ \E o \in Match(r) : Held(r)' = {o.id}

LEMMA HeldStep ==
  ASSUME TypeOK, Places, [Next]_vars, NEW s \in Resources
  PROVE  Held(s)' \subseteq Held(s) \/ Answered(s) \/ Found(s)
<1> USE DEF terraform, server, Goto, Fault, LosingFault
<1>o. /\ record[s] \in Ids \cup {None, Unset} /\ found[s] \in Ids \cup {None}
      /\ DOMAIN record = Resources /\ DOMAIN found = Resources
      /\ nextId \in Nat \ {0}
      /\ \A o \in objects : o.id \in Ids
  BY DEF TypeOK, Objects
<1>n. /\ None \notin Ids /\ Unset \notin Ids /\ None # Unset /\ nextId \notin Ids
      /\ nextId # None /\ nextId # Unset
  BY <1>o DEF Ids, None, Unset
<1>i. Ids' = Ids \/ Ids' = Ids \cup {nextId}
  <2>1. nextId' = nextId \/ nextId' = nextId + 1
    BY Change DEF Shrinks, Ends, ByResource, ByLatePost, ByOperator, Adds
  <2> QED
    BY <2>1, <1>o DEF Ids
<1>a. ASSUME record'[s] \in {record[s], None, Unset, found[s]}, found'[s] \in {found[s], None}
      PROVE  Held(s)' \subseteq Held(s)
  BY <1>a, <1>o, <1>n, <1>i DEF Held
<1>1. CASE BeginApply \/ BlankRefresh \/ EditConfig
  BY <1>1, <1>a, <1>o DEF BeginApply, BlankRefresh, EditConfig, Refreshed
<1>2. ASSUME NEW r \in Resources, Operation(r) \/ Failure(r), r # s
      PROVE  record'[s] = record[s] /\ found'[s] = found[s]
  BY <1>2, Bystander
<1>3. CASE Post(s)
  <2>1. record[s] = None /\ found[s] = None
    BY <1>3 DEF Post, Places
  <2>2. CASE Type(s).names = "answer"
    <3>1. Held(s) = {}
      BY <2>1, <1>n DEF Held
    <3>2. record'[s] = nextId /\ found'[s] = None /\ nextId' = nextId + 1
      BY <1>3, <2>1, <2>2, <1>o DEF Post
    <3>3. Ids' = Ids \cup {nextId}
      BY <3>2, <1>o DEF Ids
    <3>4. Held(s)' = {nextId}
      BY <3>2, <3>3, <1>n DEF Held
    <3> QED
      BY <1>3, <2>2, <3>1, <3>4 DEF Answered
  <2>3. CASE Type(s).names # "answer"
    BY <1>3, <1>a, <2>3 DEF Post
  <2> QED
    BY <2>2, <2>3
<1>4. CASE PostFails(s)
  BY <1>4, <1>a, <1>o DEF PostFails
<1>5. CASE LookUp(s)
  <2>1. PICK o \in Match(s) : Take(s, o)
    BY <1>5 DEF LookUp
  <2>2. record[s] = None /\ found[s] = None /\ pc[s] = "lookup" /\ UNCHANGED <<objects, nextId>>
    BY <1>5 DEF LookUp, Places
  <2>3. o.id \in Ids /\ Ids' = Ids /\ Held(s) = {}
    BY <2>1, <2>2, <1>o, <1>n DEF Match, Matching, With, Held, Ids
  <2>4. CASE UNCHANGED <<record, found>>
    BY <2>4, <1>a
  <2>5. CASE \/ record'[s] = o.id /\ found'[s] = None
             \/ record'[s] = None /\ found'[s] = o.id
    <3>1. Held(s)' = {o.id}
      BY <2>3, <2>5, <1>n DEF Held
    <3> QED
      BY <2>1, <2>2, <2>3, <3>1 DEF Found
  <2>6. \/ UNCHANGED <<record, found>>
        \/ record'[s] = o.id /\ found'[s] = None
        \/ record'[s] = None /\ found'[s] = o.id
    BY <2>1, <2>2, <1>o DEF Take
  <2> QED
    BY <2>4, <2>5, <2>6
<1>6. CASE \/ PostRefused(s) \/ NotFound(s) \/ LookUpFails(s)
           \/ Flash(s) \/ FlashFails(s) \/ Delete(s) \/ DeleteFails(s)
  BY <1>6, <1>a, <1>o DEF PostRefused, NotFound, LookUpFails, Flash, FlashFails, Delete, DeleteFails
<1>7. CASE \/ DownloadEnds \/ DownloadBreaks \/ Meddle \/ UNCHANGED vars
           \/ \E r \in Resources : PostArrives(r)
  BY <1>7, <1>a DEF DownloadEnds, DownloadBreaks, Meddle, PostArrives, vars
<1> QED
  BY <1>a, <1>1, <1>2, <1>3, <1>4, <1>5, <1>6, <1>7 DEF Next, Operation, Failure

LEMMA KeyedStep == TypeOK /\ Server /\ Places /\ Keyed /\ [Next]_vars => Keyed'
<1> SUFFICES ASSUME TypeOK, Server, Places, Keyed, [Next]_vars,
                    NEW s \in Resources, NEW p \in objects', p.id \in Held(s)'
             PROVE  p.key = KeyOf[s]
  BY DEF Keyed, Held
<1>o. Held(s) \subseteq Ids /\ nextId \notin Ids /\ objects \in SUBSET Objects
  BY DEF TypeOK, Held, Ids
<1>1. CASE Held(s)' \subseteq Held(s)
  <2>1. PICK q \in objects : p.id = q.id /\ p.key = q.key
    BY <1>1, <1>o, Origin
  <2> QED
    BY <1>1, <2>1 DEF Keyed
<1>2. CASE Answered(s)
  <2>1. p.id = nextId /\ objects' = objects \cup {Posted(s)} /\ Plain(s)
    BY <1>2, PlainKey DEF Answered, Post
  <2>2. p \notin objects
    BY <2>1, <1>o DEF Objects
  <2> QED
    BY <2>1, <2>2, PostedObject DEF Plain
<1>3. CASE Found(s)
  BY <1>3 DEF Found, Match, Matching, With, Server
<1> QED
  BY <1>1, <1>2, <1>3, HeldStep

\* What a Delete removes has the key of the resource deleted; without the
\* chosen number it also has the id held.
LEMMA DenotedObject ==
  ASSUME TypeOK, Places, Keyed, NEW s \in Resources, NEW o \in Denoted(s)
  PROVE  /\ o \in objects /\ o.key = KeyOf[s]
         /\ Type(s).names # "chosen" => o.id \in Held(s)
<1>1. o \in objects /\ (Type(s).names = "chosen" => o.key = KeyOf[s])
  BY DEF Denoted
<1>2. CASE Type(s).names # "chosen"
  <2>1. o.id = record[s] /\ o.id \in Ids
    BY <1>1, <1>2 DEF Denoted, TypeOK, Objects
  <2>2. o.id \in Held(s)
    BY <2>1 DEF Held
  <2> QED
    BY <1>1, <2>2 DEF Keyed
<1> QED
  BY <1>1, <1>2

------------------------------------------------------------------------------
(* What is taken away, and by whom.                                        *)

\* An object stays, with its id, key and maker, unless it is deleted for a
\* resource that denotes it, or by the operator.
LEMMA Survives ==
  ASSUME TypeOK, [Next]_vars, NEW q \in objects
  PROVE  \/ \E p \in objects' : p.id = q.id /\ p.key = q.key /\ p.by = q.by
         \/ \E r \in Resources : (Delete(r) \/ DeleteFails(r)) /\ q \in Denoted(r)
         \/ meddling'.removed = meddling.removed + 1
<1> USE DEF terraform, server
<1>k. CASE objects \subseteq objects'
  BY <1>k
<1>1. CASE BeginApply \/ BlankRefresh \/ EditConfig \/ UNCHANGED vars
  BY <1>1, <1>k DEF BeginApply, BlankRefresh, EditConfig, vars
<1>2. ASSUME NEW r \in Resources, Delete(r) \/ DeleteFails(r)
      PROVE  objects \subseteq objects' \/ q \in objects' \/ q \in Denoted(r)
  BY <1>2 DEF Delete, DeleteFails
<1>3. ASSUME NEW r \in Resources, Operation(r) \/ Failure(r), ~Delete(r), ~DeleteFails(r)
      PROVE  objects \subseteq objects'
  BY <1>3 DEF Operation, Failure, Post, PostRefused, LookUp, NotFound, Flash,
     PostFails, LookUpFails, FlashFails
<1>4. CASE DownloadEnds \/ DownloadBreaks
  <2>1. PICK o \in objects, status \in Statuses : objects' = Ended(o, status)
    BY <1>4 DEF DownloadEnds, DownloadBreaks, Statuses
  <2> QED
    BY <2>1, EndedObjects DEF TypeOK
<1>5. CASE Meddle
  <2>1. CASE meddling' = [meddling EXCEPT !.removed = @ + 1]
    BY <2>1 DEF TypeOK
  <2> QED
    BY <1>5, <1>k, <2>1 DEF Meddle
<1>6. ASSUME NEW r \in Resources, PostArrives(r) PROVE objects \subseteq objects'
  BY <1>6 DEF PostArrives
<1> QED
  BY <1>k, <1>1, <1>2, <1>3, <1>4, <1>5, <1>6 DEF Next, Operation, Failure

\* The operator's removals are counted.
LEMMA MeddlingGrows ==
  ASSUME TypeOK, [Next]_vars
  PROVE  /\ meddling'.removed = 0 => meddling.removed = 0
         /\ Undisturbed' => Undisturbed
<1>o. meddling \in [added : Nat, removed : Nat]
  BY BoundsAssumption DEF TypeOK
<1>1. CASE UNCHANGED meddling
  BY <1>1 DEF Undisturbed
<1>2. CASE Meddle
  <2>1. \/ meddling' = [meddling EXCEPT !.removed = @ + 1]
        \/ meddling' = [meddling EXCEPT !.added = @ + 1]
    BY <1>2 DEF Meddle
  <2>2. \/ meddling'.removed = meddling.removed + 1 /\ meddling'.added = meddling.added
        \/ meddling'.added = meddling.added + 1 /\ meddling'.removed = meddling.removed
    BY <2>1, <1>o
  <2>3. Undisturbed' => meddling'.added = 0 /\ meddling'.removed = 0
    BY DEF Undisturbed
  <2> QED
    BY <1>o, <2>2, <2>3
<1> QED
  BY <1>1, <1>2 DEF Next, Operation, Failure, Post, PostRefused, LookUp, NotFound, Flash, Delete,
     PostFails, LookUpFails, FlashFails, DeleteFails, BeginApply, BlankRefresh, EditConfig,
     PostArrives, DownloadEnds, DownloadBreaks, vars

\* A lookup goes on, or follows its POST.
LEMMA LookupStep ==
  ASSUME TypeOK, [Next]_vars, NEW s \in Resources, pc'[s] = "lookup"
  PROVE  pc[s] = "lookup" \/ Post(s)
<1> USE DEF terraform, server, Goto
<1>o. DOMAIN pc = Resources
  BY DEF TypeOK
<1>1. ASSUME NEW r \in Resources, Operation(r) \/ Failure(r), r # s PROVE pc'[s] = pc[s]
  BY <1>1, Bystander
<1>2. CASE LookUp(s)
  BY <1>2 DEF LookUp
<1>3. ASSUME PostRefused(s) \/ NotFound(s) \/ Flash(s) \/ Delete(s) \/ Failure(s)
      PROVE  pc'[s] # "lookup"
  BY <1>3, <1>o DEF PostRefused, NotFound, Flash, Delete, Failure,
     PostFails, LookUpFails, FlashFails, DeleteFails
<1>4. CASE BeginApply \/ EditConfig
  BY <1>4 DEF BeginApply, EditConfig, Planned
<1>5. CASE \/ BlankRefresh \/ DownloadEnds \/ DownloadBreaks \/ Meddle \/ UNCHANGED vars
           \/ \E r \in Resources : PostArrives(r)
  BY <1>5 DEF BlankRefresh, DownloadEnds, DownloadBreaks, Meddle, PostArrives, vars
<1> QED
  BY <1>1, <1>2, <1>3, <1>4, <1>5 DEF Next, Operation

\* With keys Sylve keeps unique, the object found is the object posted.
LEMMA OwnStep == IInv /\ [Next]_vars => Own'
<1> SUFFICES ASSUME IInv, [Next]_vars, meddling'.removed = 0, NEW s \in Resources,
                    Type(s).names \in {"first", "answer"}
             PROVE  /\ \A p \in objects' : p.id \in Held(s)' => p.by = s
                    /\ pc'[s] = "lookup" => \E p \in objects' : p.by = s
  BY DEF Own, Held, Type
<1>t. TypeOK /\ Server /\ Places /\ Keyed /\ Own
  BY DEF IInv
<1>m. meddling.removed = 0
  BY <1>t, MeddlingGrows
<1>n. meddling'.removed # meddling.removed + 1
  BY <1>m
<1>o. Held(s) \subseteq Ids /\ nextId \notin Ids /\ objects \in SUBSET Objects
  BY <1>t DEF TypeOK, Held, Ids
<1>1. ASSUME NEW p \in objects', p.id \in Held(s)' PROVE p.by = s
  <2>1. CASE Held(s)' \subseteq Held(s)
    <3>1. PICK q \in objects : p.id = q.id /\ p.by = q.by
      BY <1>1, <1>t, <1>o, <2>1, Origin
    <3> QED
      BY <1>1, <1>t, <1>m, <2>1, <3>1 DEF Own
  <2>2. CASE Answered(s)
    <3>1. p.id = nextId /\ objects' = objects \cup {Posted(s)}
      BY <1>1, <2>2 DEF Answered, Post
    <3>2. p \notin objects
      BY <3>1, <1>o DEF Objects
    <3> QED
      BY <3>1, <3>2, PostedObject
  <2>3. CASE Found(s)
    <3>1. PICK o \in Match(s) : Held(s)' = {o.id}
      BY <2>3 DEF Found
    <3>2. o \in objects /\ o.key = KeyOf[s] /\ p \in objects /\ p.id = o.id
      BY <1>1, <2>3, <3>1 DEF Found, Match, Matching, With
    <3>3. PICK q \in objects : q.by = s
      BY <1>t, <1>m, <2>3 DEF Own, Found
    <3>4. Type(s).unique /\ Plain(s) /\ TypeOfKey(KeyOf[s]) = Type(s)
      BY <1>t, <2>3, <3>2, TypeShape, FoundKey DEF Places, Found
    <3>5. q.key = KeyOf[s]
      BY <1>t, <3>3, <3>4 DEF Server, Plain
    <3>6. q = o /\ p = o
      BY <1>t, <3>2, <3>3, <3>4, <3>5 DEF Server
    <3> QED
      BY <3>3, <3>6
  <2> QED
    BY <1>t, <2>1, <2>2, <2>3, HeldStep
<1>2. ASSUME pc'[s] = "lookup" PROVE \E p \in objects' : p.by = s
  <2>1. CASE Post(s)
    BY <2>1, PostedObject DEF Post
  <2>2. CASE pc[s] = "lookup"
    <3>1. PICK q \in objects : q.by = s
      BY <1>t, <1>m, <2>2 DEF Own
    <3>2. ASSUME NEW r \in Resources, Delete(r) \/ DeleteFails(r), q \in Denoted(r) PROVE FALSE
      <4>1. q.key = KeyOf[r] /\ q.key = Stored(KeyOf[s])
        BY <1>t, <3>1, <3>2, DenotedObject DEF Server
      <4>2. Plain(r)
        BY <1>t, <3>1, <3>2, <4>1, FoundKey
      <4>3. Type(r) = Type(s)
        BY <3>2, <4>1, <4>2, SameKey DEF Plain
      <4>4. q.id \in Held(r)
        BY <1>t, <3>2, <4>3, DenotedObject
      <4>5. q.by = r
        BY <1>t, <1>m, <3>1, <4>3, <4>4 DEF Own
      <4> QED
        BY <3>1, <3>2, <4>5, <2>2 DEF Delete, DeleteFails
    <3> QED
      BY <1>t, <1>n, <3>1, <3>2, Survives
  <2> QED
    BY <1>2, <1>t, <2>1, <2>2, LookupStep
<1> QED
  BY <1>1, <1>2

LEMMA InitInv == Init => IInv
<1> SUFFICES ASSUME Init PROVE IInv
  OBVIOUS
<1>1. TypeOK
  BY InitTypes
<1>2. /\ objects = {} /\ nextId = 1
      /\ \A r \in Resources : pc[r] = "idle" /\ record[r] = None /\ found[r] = None
  BY DEF Init
<1>3. None # Unset
  BY DEF None, Unset
<1> QED
  BY <1>1, <1>2, <1>3 DEF IInv, Server, Places, Keyed, Own

\* The invariant holds: unique ids and keys, what the place of an operation says
\* of its entry, and whose object it is that a resource holds.
THEOREM ProvisioningInvariant == Spec => []IInv
<1>1. IInv /\ [Next]_vars => IInv'
  BY TypesStep, ServerStep, PlacesStep, KeyedStep, OwnStep DEF IInv
<1> QED
  BY <1>1, InitInv, PTL DEF Spec

\* Terraform removes no object that the operator made, except for a VM or jail of
\* that number, a NIC, or after the operator has removed something.
THEOREM DeletesOwnOnly == Spec => NeverDeletesForeign
<1>1. ASSUME IInv, [Next]_vars, NEW o \in objects, o.id \notin IdsOf(objects'),
             meddling' = meddling, meddling.removed = 0,
             TypeOfKey(o.key).names \notin {"chosen", "newest"}
      PROVE  o.by # "operator"
  <2>t. TypeOK /\ Server /\ Places /\ Keyed /\ Own
    BY <1>1 DEF IInv
  <2>1. ~ \E p \in objects' : p.id = o.id
    BY <1>1 DEF IdsOf
  <2>2. meddling'.removed # meddling.removed + 1
    BY <1>1
  <2>3. PICK r \in Resources : o \in Denoted(r)
    BY <1>1, <2>t, <2>1, <2>2, Survives
  <2>4. o.key = KeyOf[r] /\ Type(r).names \in {"first", "answer"}
    BY <1>1, <2>t, <2>3, DenotedObject, FoundKey, TypeShape
  <2>5. o.by = r
    BY <1>1, <2>t, <2>3, <2>4, DenotedObject DEF Own
  <2> QED
    BY <2>5, OperatorAssumption
<1>2. IInv /\ [Next]_vars =>
        [\A o \in objects :
           (o.id \notin IdsOf(objects') /\ meddling' = meddling /\ meddling.removed = 0
              /\ TypeOfKey(o.key).names \notin {"chosen", "newest"})
             => o.by # "operator"]_vars
  BY <1>1
<1> QED
  BY <1>2, ProvisioningInvariant, PTL DEF Spec, NeverDeletesForeign

------------------------------------------------------------------------------
(* No two entries for one object.                                          *)

\* Resources have different keys, unless the answer to their POST names the object.
DistinctKeys ==
  \A r, s \in Resources : r # s /\ KeyOf[r] = KeyOf[s] => Type(r).names = "answer"

LEMMA ApartStep == DistinctKeys /\ IInv /\ Apart /\ [Next]_vars => Apart'
<1> SUFFICES ASSUME DistinctKeys, IInv, Apart, [Next]_vars,
                    NEW r \in Resources, NEW s \in Resources, r # s,
                    NEW i, i \in Held(r)', i \in Held(s)'
             PROVE  FALSE
  BY DEF Apart, Held
<1>t. TypeOK /\ Server /\ Places /\ Keyed
  BY DEF IInv
<1>o. Held(s) \subseteq Ids /\ Held(r) \subseteq Ids /\ nextId \notin Ids
      /\ \A o \in objects : o.id \in Ids
  BY <1>t DEF TypeOK, Held, Ids, Objects
\* It cannot be that one of them only keeps what the other comes to hold.
<1>1. ASSUME NEW a \in {r, s}, NEW b \in {r, s}, a # b, Found(a) PROVE i \notin Held(b)
  <2>1. PICK o \in objects : o.id = i /\ o.key = KeyOf[a]
    BY <1>1 DEF Found, Match, Matching, With
  <2>2. Type(a).names # "answer"
    BY <1>t, <1>1 DEF Places, Found
  <2>3. KeyOf[b] # KeyOf[a]
    BY <1>1, <2>2 DEF DistinctKeys
  <2> QED
    BY <1>t, <1>1, <2>1, <2>3 DEF Keyed
<1>2. ASSUME NEW a \in {r, s}, Answered(a) PROVE i = nextId /\ objects' # objects /\ pc'[a] # pc[a]
  <2>1. i = nextId /\ Post(a) /\ Type(a).names = "answer"
    BY <1>2 DEF Answered
  <2>2. objects' # objects
    BY <1>o, <2>1, PostedObject DEF Post
  <2> QED
    BY <1>t, <2>1, <2>2 DEF Post, Goto, TypeOK
<1>3. CASE Answered(r) \/ Answered(s)
  <2>1. i = nextId /\ objects' # objects
    BY <1>2, <1>3
  <2>2. Answered(r) /\ Answered(s)
    BY <1>t, <1>o, <2>1, HeldStep DEF Found
  <2>3. Post(r) /\ pc'[s] # pc[s]
    BY <1>2, <2>2 DEF Answered
  <2> QED
    BY <1>t, <2>3 DEF Post, Goto, TypeOK
<1>4. CASE Found(r) /\ Found(s)
  <2>1. PICK o \in objects : o.id = i /\ o.key = KeyOf[r]
    BY <1>4 DEF Found, Match, Matching, With
  <2>2. PICK p \in objects : p.id = i /\ p.key = KeyOf[s]
    BY <1>4 DEF Found, Match, Matching, With
  <2>3. KeyOf[r] = KeyOf[s]
    BY <1>t, <2>1, <2>2 DEF Server
  <2>4. Type(r).names # "answer"
    BY <1>t, <1>4 DEF Places, Found
  <2> QED
    BY <2>3, <2>4 DEF DistinctKeys
<1>5. CASE Held(r)' \subseteq Held(r) /\ Held(s)' \subseteq Held(s)
  BY <1>5 DEF Apart
<1> QED
  BY <1>t, <1>1, <1>3, <1>4, <1>5, HeldStep

\* No two resources have the same object in their state, provided that no two
\* have one key; only a snapshot's POST says which of its namesakes it made.
THEOREM NoObjectTwice == DistinctKeys /\ Spec => []NoAlias
<1> SUFFICES ASSUME DistinctKeys PROVE Spec => []NoAlias
  OBVIOUS
<1>1. Init => Apart
  BY DEF Init, Apart, Held, None, Ids
<1>2. IInv /\ Apart => NoAlias
  BY DEF IInv, TypeOK, Apart, Held, NoAlias
<1>3. IInv /\ Apart /\ [Next]_vars => Apart'
  BY ApartStep
<1> QED
  BY <1>1, <1>2, <1>3, ProvisioningInvariant, PTL DEF Spec

------------------------------------------------------------------------------
(* Left to itself, Terraform keeps track of what it made.                  *)

\* No two VMs or jails of one number, and no two identical NICs: what is looked up
\* by the chosen number, or as the newest match, has a key of its own.
DistinctGuesses ==
  \A r, s \in Resources :
    r # s /\ KeyOf[r] = KeyOf[s] => Type(r).names \notin {"chosen", "newest"}

\* Without the operator, a new object was just posted, or has arrived late.
LEMMA NewObject ==
  ASSUME TypeOK, [Next]_vars, Undisturbed', NEW p \in objects', p.id \notin Ids
  PROVE  /\ p.by \in Resources /\ p.id = nextId
         /\ \/ pc[p.by] = "create" /\ (Post(p.by) \/ PostFails(p.by)) /\ p = Posted(p.by)
            \/ p.late /\ PostArrives(p.by)
<1>1. Undisturbed
  BY MeddlingGrows
<1>o. objects \in SUBSET Objects /\ \A o \in objects : o.id \in Ids
  BY DEF TypeOK, Objects
<1>2. ~Shrinks
  BY <1>o DEF Shrinks
<1>3. ~Ends
  BY <1>o, EndedObjects DEF Ends
<1>4. ~ByOperator
  BY <1>1 DEF ByOperator, Undisturbed
<1>5. CASE ByResource
  <2>1. PICK r \in Resources : pc[r] = "create" /\ (Post(r) \/ PostFails(r)) /\ Adds(Posted(r))
    BY <1>5 DEF ByResource
  <2>2. p = Posted(r)
    BY <2>1, <1>o DEF Adds
  <2> QED
    BY <2>1, <2>2, PostedObject
<1>6. CASE ByLatePost
  <2>1. PICK r \in Resources : PostArrives(r) /\ Adds(Belated(r))
    BY <1>6 DEF ByLatePost
  <2>2. p = Belated(r)
    BY <2>1, <1>o DEF Adds
  <2> QED
    BY <2>1, <2>2, BelatedObject
<1> QED
  BY <1>2, <1>3, <1>4, <1>5, <1>6, Change

LEMMA MineStep == DistinctGuesses /\ IInv /\ Mine /\ [Next]_vars => Mine'
<1> SUFFICES ASSUME DistinctGuesses, IInv, Mine, [Next]_vars, Undisturbed'
             PROVE  /\ \A p \in objects' : p.by \in Resources
                    /\ \A r \in Resources : \A p \in objects' :
                         /\ p.id \in Held(r)' => p.by = r
                         /\ p.by = r /\ ~p.late => \A i \in Held(r)' : p.id <= i
  BY DEF Mine
<1>t. TypeOK /\ Server /\ Places /\ Keyed /\ Own
  BY DEF IInv
<1>u. Undisturbed /\ meddling.removed = 0
  BY <1>t, MeddlingGrows DEF Undisturbed
<1>o. /\ nextId \notin Ids /\ nextId \in Nat
      /\ \A o \in objects : o.id \in Ids
      /\ \A i \in Ids : i \in Nat /\ i < nextId
  BY <1>t DEF TypeOK, Ids, Objects
<1>h. \A r \in Resources : Held(r) \subseteq Ids
  BY DEF Held
<1>m. /\ \A o \in objects : o.by \in Resources
      /\ \A r \in Resources : \A o \in objects :
           /\ o.id \in Held(r) => o.by = r
           /\ o.by = r /\ ~o.late => \A i \in Held(r) : o.id <= i
  BY <1>u DEF Mine
<1>1. ASSUME NEW p \in objects' PROVE p.by \in Resources
  <2>1. CASE \E q \in objects : p.by = q.by
    BY <2>1, <1>m
  <2> QED
    BY <1>t, <2>1, NewObject, Origin
<1>2. ASSUME NEW r \in Resources, NEW p \in objects',
             Held(r)' \subseteq Held(r)
      PROVE  /\ p.id \in Held(r)' => p.by = r
             /\ p.by = r /\ ~p.late => \A i \in Held(r)' : p.id <= i
  <2>1. CASE \E q \in objects : p.id = q.id /\ p.by = q.by /\ p.late = q.late
    BY <1>2, <1>m, <2>1
  <2>2. CASE p.id \notin Ids
    <3>1. p.by \in Resources /\ (pc[p.by] = "create" \/ p.late)
      BY <1>t, <2>2, NewObject
    <3>2. pc[p.by] = "create" => Held(p.by) = {}
      <4>1. pc[p.by] = "create" => record[p.by] = None /\ found[p.by] = None /\ None \notin Ids
        BY <1>t, <3>1 DEF Places, None, Ids
      <4> QED
        BY <4>1 DEF Held
    <3> QED
      BY <1>2, <1>h, <2>2, <3>1, <3>2
  <2> QED
    BY <1>t, <2>1, <2>2, Origin
<1>3. ASSUME NEW r \in Resources, NEW p \in objects', Answered(r)
      PROVE  /\ p.id \in Held(r)' => p.by = r
             /\ p.by = r /\ ~p.late => \A i \in Held(r)' : p.id <= i
  <2>1. p \in objects \/ p = Posted(r)
    BY <1>3 DEF Answered, Post
  <2>2. CASE p \in objects
    BY <1>3, <1>o, <2>2 DEF Answered
  <2>3. CASE p = Posted(r)
    BY <1>3, <1>o, <2>3, PostedObject DEF Answered
  <2> QED
    BY <2>1, <2>2, <2>3
<1>4. ASSUME NEW r \in Resources, NEW p \in objects', Found(r)
      PROVE  /\ p.id \in Held(r)' => p.by = r
             /\ p.by = r /\ ~p.late => \A i \in Held(r)' : p.id <= i
  <2>1. PICK o \in Match(r) : Held(r)' = {o.id}
    BY <1>4 DEF Found
  <2>2. p \in objects /\ o \in objects /\ o.key = KeyOf[r] /\ o.id \in Nat
    BY <1>4, <1>o, <2>1 DEF Found, Match, Matching, With
  <2>3. Type(r).names \in {"chosen", "first", "newest"}
    BY <1>t, <1>4, TypeShape DEF Places, Found
  <2>4. ASSUME p.id = o.id PROVE p.by = r
    <3>1. p = o /\ p.by \in Resources /\ Stored(KeyOf[p.by]) = Stored(KeyOf[r])
      BY <1>t, <1>m, <2>2, <2>4, FoundKey DEF Server, Plain
    <3>2. CASE Type(r).names \in {"chosen", "newest"}
      BY <3>1, <3>2, SameKey DEF DistinctGuesses
    <3>3. CASE Type(r).names = "first"
      <4>1. PICK q \in objects : q.by = r
        BY <1>t, <1>u, <1>4, <3>3 DEF Own, Found
      <4>2. TypeOfKey(KeyOf[r]).unique /\ q.key = KeyOf[r]
        BY <1>t, <2>2, <3>3, <4>1, FoundKey, TypeShape DEF Server, Plain
      <4>3. q = o
        BY <1>t, <2>2, <4>2 DEF Server
      <4> QED
        BY <3>1, <4>1, <4>3
    <3> QED
      BY <2>3, <3>2, <3>3
  <2>5. ASSUME p.by = r PROVE p.id <= o.id
    <3>1. p.key = KeyOf[r]
      BY <1>t, <2>2, <2>5, FoundKey DEF Server, Plain
    <3>2. CASE Type(r).names = "newest"
      BY <2>1, <2>2, <3>1, <3>2 DEF Match, Matching, With
    <3>3. CASE Type(r).unique
      <4>1. p = o
        BY <1>t, <2>2, <3>1, <3>3, FoundKey DEF Server
      <4> QED
        BY <2>2, <4>1
    <3> QED
      BY <2>3, <3>2, <3>3, TypeShape
  <2> QED
    BY <2>1, <2>4, <2>5
<1> QED
  BY <1>t, <1>1, <1>2, <1>3, <1>4, HeldStep

\* The entry a Create leaves is for an object of the resource's own, and none that
\* it posted in time is newer, whatever fails, while no operator interferes and no
\* two resources are looked up by the same number or the same best match.
THEOREM RecordsAreOwn == DistinctGuesses /\ Spec => []RecordsOwnNewest
<1> SUFFICES ASSUME DistinctGuesses PROVE Spec => []RecordsOwnNewest
  OBVIOUS
<1>1. Init => Mine
  BY DEF Init, Mine
<1>2. Mine => RecordsOwnNewest
  BY DEF Mine, Held, RecordsOwnNewest
<1>3. IInv /\ Mine /\ [Next]_vars => Mine'
  BY MineStep
<1> QED
  BY <1>1, <1>2, <1>3, ProvisioningInvariant, PTL DEF Spec

\* What a resource's entry leads to, the resource made.
LEMMA DenotedIsOwn ==
  ASSUME DistinctGuesses, IInv, Mine, Undisturbed, NEW r \in Resources, NEW o \in Denoted(r)
  PROVE  o.by = r
<1>t. TypeOK /\ Server /\ Places /\ Keyed
  BY DEF IInv
<1>1. o \in objects /\ o.by \in Resources /\ o.key = KeyOf[r]
  BY <1>t, DenotedObject DEF Mine
<1>2. CASE Type(r).names = "chosen"
  <2>1. Stored(KeyOf[r]) = Stored(KeyOf[o.by])
    BY <1>t, <1>1, FoundKey DEF Server, Plain
  <2> QED
    BY <1>1, <1>2, <2>1, SameKey DEF DistinctGuesses
<1>3. CASE Type(r).names # "chosen"
  BY <1>t, <1>1, <1>3, DenotedObject DEF Mine
<1> QED
  BY <1>2, <1>3

\* The steps that lose nothing, while the operator keeps out.
LEMMA QuietStep ==
  ASSUME TypeOK, [Next]_vars, losses' = 0, Undisturbed'
  PROVE  /\ losses = 0 /\ Undisturbed
         /\ \/ BeginApply \/ EditConfig \/ DownloadEnds \/ UNCHANGED vars
            \/ \E r \in Resources : Operation(r) \/ FlashFails(r) \/ DeleteFails(r)
         /\ \A r \in Resources : ~PostArrives(r) /\ ~PostFails(r)
<1>o. losses \in Nat /\ late \in [Resources -> 0 .. losses] /\ meddling \in [added : Nat, removed : Nat]
  BY BoundsAssumption DEF TypeOK
<1>1. ~LosingFault
  BY <1>o DEF LosingFault
<1>2. ~Meddle
  <2>1. ASSUME Meddle PROVE \/ meddling'.removed = meddling.removed + 1
                            \/ meddling'.added = meddling.added + 1
    BY <2>1, <1>o DEF Meddle
  <2> QED
    BY <1>o, <2>1, MeddlingGrows DEF Undisturbed
<1>3. \A r \in Resources : ~PostArrives(r) /\ ~PostFails(r)
  BY <1>o, <1>1 DEF PostArrives, PostFails
<1>4. \/ BeginApply \/ EditConfig \/ DownloadEnds \/ UNCHANGED vars
      \/ \E r \in Resources : Operation(r) \/ FlashFails(r) \/ DeleteFails(r)
  BY <1>1, <1>2, <1>3 DEF Next, Failure, BlankRefresh, PostFails, LookUpFails, DownloadBreaks
<1>5. losses' = losses
  BY <1>4 DEF Operation, Post, PostRefused, LookUp, NotFound, Flash, Delete, FlashFails,
     DeleteFails, BeginApply, EditConfig, DownloadEnds, vars
<1> QED
  BY <1>4, <1>5, <1>3, MeddlingGrows

\* A resource's object goes only in the resource's own Delete.
LEMMA OwnSurvives ==
  ASSUME DistinctGuesses, IInv, Mine, [Next]_vars, losses' = 0, Undisturbed', NEW q \in objects,
         ~Delete(q.by), ~DeleteFails(q.by)
  PROVE  \E p \in objects' : p.id = q.id /\ p.key = q.key /\ p.by = q.by
<1>t. TypeOK /\ Undisturbed /\ meddling'.removed # meddling.removed + 1
  <2>1. TypeOK /\ Undisturbed
    BY QuietStep DEF IInv
  <2> QED
    BY <2>1 DEF Undisturbed
<1> QED
  BY <1>t, Survives, DenotedIsOwn

\* A resource whose Create is about to post has no object that its lookup would
\* find: it would be lost.
LEMMA NoneYet ==
  ASSUME Server, Places, Kept, losses = 0, Undisturbed,
         NEW r \in Resources, pc[r] = "create", Plain(r), NEW q \in objects
  PROVE  q.by # r
BY DEF Server, Kept, Places, Orphan, Denoted, Missed, Plain

\* One object for each resource, which a running Create can count on.
LEMMA KeptObjects ==
  ASSUME DistinctGuesses, IInv, Mine, Kept, [Next]_vars, losses' = 0, Undisturbed'
  PROVE  /\ \A p \in objects' : p.status # "failed"
         /\ \A p, q \in objects' : p.by = q.by => p = q
         /\ \A r \in Resources :
              pc'[r] \in {"lookup", "flash"} => \E p \in objects' : p.by = r
<1>t. TypeOK /\ Server /\ Places
  BY DEF IInv
<1>q. /\ losses = 0 /\ Undisturbed
      /\ \/ BeginApply \/ EditConfig \/ DownloadEnds \/ UNCHANGED vars
         \/ \E r \in Resources : Operation(r) \/ FlashFails(r) \/ DeleteFails(r)
      /\ \A r \in Resources : ~PostArrives(r)
  BY <1>t, QuietStep
<1>k. /\ \A o \in objects : o.status # "failed"
      /\ \A o, p \in objects : o.by = p.by => o = p
      /\ \A r \in Resources : pc[r] \in {"lookup", "flash"} => \E o \in objects : o.by = r
  BY <1>q DEF Kept
<1>i. \A o \in objects : o.by \in Resources /\ o.id \in Ids
  BY <1>t, <1>q DEF Mine, TypeOK, Objects
<1>1. ASSUME NEW p \in objects' PROVE p.status # "failed"
  <2>1. CASE DownloadEnds
    <3>1. PICK o \in objects : objects' = Ended(o, "done")
      BY <2>1 DEF DownloadEnds
    <3>2. p \in objects \/ p.status = "done"
      BY <1>t, <3>1, EndedObjects DEF TypeOK, Statuses
    <3> QED
      BY <1>k, <3>2
  <2>2. ASSUME NEW r \in Resources, Post(r) PROVE p.status # "failed"
    BY <1>k, <2>2, PostedObject DEF Post
  <2>3. ASSUME objects' \subseteq objects PROVE p.status # "failed"
    BY <1>k, <2>3
  <2> QED
    BY <1>q, <2>1, <2>2, <2>3 DEF Operation, PostRefused, LookUp, NotFound, Flash, Delete,
       FlashFails, DeleteFails, BeginApply, EditConfig, vars, terraform, server
<1>2. ASSUME NEW r \in Resources, pc[r] = "create", Plain(r), NEW q \in objects PROVE q.by # r
  BY <1>t, <1>q, <1>2, NoneYet
<1>3. ASSUME NEW p \in objects', NEW q \in objects', p.by = q.by PROVE p = q
  <2>1. Server' /\ p.by \in Resources
    BY <1>t, ServerStep, MineStep DEF Mine
  <2>2. CASE ~Plain(p.by)
    <3>1. p.key = Stored(KeyOf[p.by]) /\ q.key = p.key /\ Type(p.by).unique
      BY <1>3, <2>1, <2>2, PlainKey DEF Server
    <3> QED
      BY <2>1, <3>1, KeyType DEF Server, TypeOfKey, Type
  <2>3. ASSUME Plain(p.by) PROVE p.id = q.id
    <3>1. CASE p.id \in Ids /\ q.id \in Ids
      BY <1>t, <1>k, <1>3, <3>1, Origin
    <3>2. CASE p.id \notin Ids /\ q.id \notin Ids
      BY <1>t, <3>2, NewObject
    <3>3. ASSUME NEW a \in {p, q}, NEW b \in {p, q}, a.id \notin Ids, b.id \in Ids PROVE FALSE
      <4>1. a \in objects' /\ b \in objects' /\ a.by = b.by
        BY <1>3
      <4>2. pc[a.by] = "create" /\ a.by \in Resources
        BY <1>t, <1>q, <3>3, <4>1, NewObject
      <4>3. PICK o \in objects : o.by = b.by
        BY <1>t, <3>3, <4>1, Origin DEF Ids, TypeOK
      <4> QED
        BY <1>2, <1>3, <2>3, <4>1, <4>2, <4>3
    <3> QED
      BY <3>1, <3>2, <3>3
  <2> QED
    BY <2>1, <2>3, <2>2 DEF Server
<1>4. ASSUME NEW r \in Resources, pc'[r] \in {"lookup", "flash"}
      PROVE  \E p \in objects' : p.by = r
  <2>1. CASE Post(r)
    BY <2>1, PostedObject DEF Post
  <2>2. CASE pc[r] \in {"lookup", "flash"}
    <3>1. PICK q \in objects : q.by = r
      BY <1>k, <2>2
    <3>2. ~Delete(q.by) /\ ~DeleteFails(q.by)
      BY <2>2, <3>1 DEF Delete, DeleteFails
    <3> QED
      BY <3>1, <3>2, OwnSurvives
  <2>3. CASE pc'[r] = "flash" /\ pc[r] # "flash"
    <3>1. Places' /\ found[r] = None
      BY <1>t, <2>3, PlacesStep DEF Places
    <3>2. found'[r] # None
      BY <2>3, <3>1 DEF Places
    <3>3. pc[r] = "lookup"
      BY <1>t, <1>q, <2>3, <3>1, <3>2 DEF Operation, Post, PostRefused, LookUp, Take, NotFound,
         Flash, Delete, FlashFails, DeleteFails, BeginApply, EditConfig, DownloadEnds,
         TypeOK, terraform, server, vars
    <3> QED
      BY <2>2, <3>3
  <2> QED
    BY <1>t, <1>4, <2>1, <2>2, <2>3, LookupStep
<1> QED
  BY <1>1, <1>3, <1>4

\* A resource's entry, or its running Create, leads to its object.
LEMMA KeptEntries ==
  ASSUME DistinctGuesses, IInv, Mine, Kept, [Next]_vars, losses' = 0, Undisturbed',
         NEW s \in Resources
  PROVE  /\ \A p \in objects' : p.by = s /\ pc'[s] = "flash" => p.id = found'[s]
         /\ Plain(s) => \A p \in objects' :
              p.by = s /\ pc'[s] \notin {"lookup", "flash"} => p \in Denoted(s)'
         /\ pc'[s] = "ok" => IF s \in wanted' THEN Denoted(s)' # {} ELSE record'[s] = None
<1> USE DEF terraform, server, Goto
<1>t. TypeOK /\ Server /\ Places /\ Server' /\ Mine'
  BY ServerStep, MineStep DEF IInv
<1>q. /\ losses = 0 /\ Undisturbed
      /\ \/ BeginApply \/ EditConfig \/ DownloadEnds \/ UNCHANGED vars
         \/ \E r \in Resources : Operation(r) \/ FlashFails(r) \/ DeleteFails(r)
      /\ \A r \in Resources : ~PostArrives(r) /\ ~PostFails(r)
  BY <1>t, QuietStep
<1>k. /\ \A o \in objects : o.status # "failed"
      /\ \A o, p \in objects : o.by = p.by => o = p
      /\ \A o \in objects : pc[o.by] = "flash" => o.id = found[o.by]
      /\ Plain(s) => \A o \in objects :
           o.by = s /\ pc[s] \notin {"lookup", "flash"} => o \in Denoted(s)
      /\ pc[s] \in {"lookup", "flash"} => \E o \in objects : o.by = s
      /\ pc[s] = "ok" => IF s \in wanted THEN Denoted(s) # {} ELSE record[s] = None
  BY <1>t, <1>q DEF Kept, Orphan, Missed, Server, Plain
<1>o. /\ DOMAIN pc = Resources /\ DOMAIN found = Resources /\ DOMAIN record = Resources
      /\ nextId # None /\ \A o \in objects : o.id # None
  BY <1>t DEF TypeOK, Objects, Ids, None
<1>d. ASSUME NEW p \in objects', p.by = s, record'[s] # None,
             Type(s).names # "chosen" => p.id = record'[s]
      PROVE  p \in Denoted(s)'
  BY <1>t, <1>d, PlainKey DEF Server, Denoted, Type, Plain
<1> DEFINE Goal ==
  /\ \A p \in objects' : p.by = s /\ pc'[s] = "flash" => p.id = found'[s]
  /\ Plain(s) => \A p \in objects' :
       p.by = s /\ pc'[s] \notin {"lookup", "flash"} => p \in Denoted(s)'
  /\ pc'[s] = "ok" => IF s \in wanted' THEN Denoted(s)' # {} ELSE record'[s] = None
<1>1. CASE Post(s)
  <2>1. pc'[s] # "flash" /\ wanted' = wanted /\ s \in wanted /\ Posted(s) \in objects'
    BY <1>1, <1>t, <1>o DEF Post, Places
  <2>2. CASE pc'[s] # "lookup"
    <3>1. record'[s] = nextId
      BY <1>1, <1>o, <2>2 DEF Post
    <3>2. Posted(s) \in Denoted(s)'
      BY <1>d, <1>o, <2>1, <3>1, PostedObject
    <3>3. \A p \in objects' : p.by = s => p = Posted(s)
      BY <1>1, <1>t, <1>q, <1>o, <2>2, NoneYet, PlainKey DEF Post
    <3> QED
      BY <2>1, <3>2, <3>3
  <2> QED
    BY <1>1, <1>o, <2>1, <2>2 DEF Post
<1>2. CASE LookUp(s)
  <2>1. PICK o \in Match(s) : Take(s, o)
    BY <1>2 DEF LookUp
  <2>2. /\ o \in objects /\ o.status # "failed" /\ objects' = objects /\ nextId' = nextId
        /\ wanted' = wanted /\ s \in wanted /\ record[s] = None
    BY <1>2, <1>t, <1>k, <2>1 DEF LookUp, Match, Matching, With, Places
  <2>3. o.id \in Ids' /\ o \in objects'
    BY <1>t, <2>2 DEF TypeOK, Objects, Ids
  <2>4. CASE pc'[s] = "flash" /\ found'[s] = o.id
    <3>1. o.id \in Held(s)'
      BY <2>3, <2>4 DEF Held
    <3>2. o.by = s
      BY <1>t, <1>q, <2>3, <3>1 DEF Mine
    <3> QED
      BY <1>k, <2>2, <2>4, <3>2
  <2>5. CASE pc'[s] = "ok" /\ record'[s] = o.id
    <3>1. o.id \in Held(s)'
      BY <2>3, <2>5 DEF Held
    <3>2. o.by = s
      BY <1>t, <1>q, <2>3, <3>1 DEF Mine
    <3>3. o \in Denoted(s)'
      BY <1>d, <1>o, <2>2, <2>5, <3>2
    <3> QED
      BY <1>k, <2>2, <2>5, <3>2, <3>3
  <2> QED
    BY <1>o, <2>1, <2>2, <2>4, <2>5 DEF Take
<1>3. CASE NotFound(s) \/ PostRefused(s)
  <2>1. objects' = objects /\ pc'[s] = "failed"
    BY <1>3, <1>o DEF NotFound, PostRefused
  <2>2. Plain(s) => \A p \in objects : p.by # s
    BY <1>3, <1>t, <1>q, NoneYet DEF NotFound, PostRefused, Matching, With, Server, Plain
  <2> QED
    BY <2>1, <2>2
<1>4. CASE Flash(s) \/ FlashFails(s)
  <2>1. /\ objects' = objects /\ record'[s] = found[s] /\ pc'[s] \in {"ok", "failed"}
        /\ wanted' = wanted /\ s \in wanted /\ pc[s] = "flash"
    BY <1>4, <1>t, <1>o DEF Flash, FlashFails, Places
  <2>2. \A p \in objects' : p.by = s => p \in Denoted(s)'
    BY <1>d, <1>k, <1>o, <2>1
  <2> QED
    BY <1>k, <2>1, <2>2
<1>5. CASE Delete(s)
  <2>1. /\ objects' = objects \ Denoted(s) /\ pc[s] = "delete" /\ record'[s] = None
        /\ pc'[s] = (IF s \in wanted THEN "create" ELSE "ok") /\ wanted' = wanted
    BY <1>5, <1>o DEF Delete
  <2> QED
    BY <1>k, <2>1
<1>6. CASE DeleteFails(s)
  <2>1. /\ objects' \subseteq objects /\ pc[s] = "delete" /\ record'[s] = record[s]
        /\ pc'[s] = "failed"
    BY <1>6, <1>o DEF DeleteFails
  <2>2. Plain(s) => \A p \in objects' : p.by = s => p \in Denoted(s)'
    BY <1>d, <1>k, <2>1 DEF Denoted
  <2> QED
    BY <2>1, <2>2
<1>7. CASE BeginApply \/ EditConfig
  <2>1. objects' = objects /\ pc[s] \notin {"lookup", "flash"} /\ pc'[s] \notin {"lookup", "flash"}
    BY <1>7 DEF BeginApply, EditConfig, Finished, Done, Planned
  <2>2. Denoted(s) # {} => record'[s] = record[s]
    BY <1>7 DEF BeginApply, EditConfig, Refreshed
  <2>3. Plain(s) => \A p \in objects' : p.by = s => p \in Denoted(s)'
    BY <1>d, <1>k, <2>1, <2>2 DEF Denoted
  <2>4. pc'[s] = "ok" => IF s \in wanted' THEN Denoted(s)' # {} ELSE record'[s] = None
    <3>1. CASE EditConfig
      BY <3>1 DEF EditConfig
    <3>2. CASE BeginApply
      <4>1. Denoted(s) # {} => Denoted(s)' = Denoted(s)
        BY <2>1, <2>2 DEF Denoted, Type
      <4>2. wanted' = wanted /\ record'[s] = Refreshed(s) /\ pc'[s] = Planned(s)
        BY <3>2 DEF BeginApply
      <4> QED
        BY <4>1, <4>2 DEF Planned, Refreshed
    <3> QED
      BY <1>7, <3>1, <3>2
  <2> QED
    BY <2>1, <2>3, <2>4
<1>8. ASSUME UNCHANGED <<wanted, record[s], found[s], pc[s]>>,
             ~Post(s), ~PostFails(s), ~Delete(s), ~DeleteFails(s)
      PROVE  Goal
  <2>1. ASSUME NEW p \in objects', p.by = s
        PROVE  \E q \in objects : p.id = q.id /\ q.by = s
    BY <1>8, <1>t, <1>q, <2>1, Origin, NewObject
  <2>2. Plain(s) => \A p \in objects' :
          p.by = s /\ pc'[s] \notin {"lookup", "flash"} => p \in Denoted(s)'
    BY <1>d, <1>k, <1>8, <2>1 DEF Denoted
  <2>3. ASSUME pc'[s] = "ok", s \in wanted' PROVE Denoted(s)' # {}
    <3>1. PICK q \in Denoted(s) : q.by = s
      BY <1>8, <1>k, <1>q, <2>3, DenotedIsOwn
    <3>2. PICK p \in objects' : p.id = q.id /\ p.by = s
      BY <1>8, <3>1, OwnSurvives DEF Denoted
    <3>3. Plain(s)
      BY <1>t, <3>1, DenotedObject, FoundKey DEF IInv
    <3>4. p \in Denoted(s)'
      BY <2>2, <2>3, <3>2, <3>3
    <3> QED
      BY <3>4
  <2> QED
    BY <1>k, <1>8, <2>1, <2>2, <2>3
<1>9. CASE DownloadEnds \/ UNCHANGED vars
  <2>1. pc' = pc /\ record' = record /\ found' = found /\ wanted' = wanted
    BY <1>9 DEF DownloadEnds, vars
  <2>2. ~Delete(s) /\ ~DeleteFails(s) /\ ~Post(s) /\ ~PostFails(s)
    BY <2>1, <1>o DEF Delete, DeleteFails, Post, PostFails
  <2> QED
    BY <1>8, <2>1, <2>2
<1>10. ASSUME NEW r \in Resources, r # s, Operation(r) \/ FlashFails(r) \/ DeleteFails(r)
       PROVE  Goal
  <2>1. UNCHANGED <<wanted, record[s], found[s], pc[s]>>
    BY <1>10, <1>t, Bystander DEF Failure
  <2>2. ~Delete(s) /\ ~DeleteFails(s) /\ ~Post(s) /\ ~PostFails(s)
    BY <2>1, <1>o DEF Delete, DeleteFails, Post, PostFails
  <2> QED
    BY <1>8, <2>1, <2>2
<1> QED
  BY <1>q, <1>1, <1>2, <1>3, <1>4, <1>5, <1>6, <1>7, <1>9, <1>10 DEF Operation

LEMMA KeptStep == DistinctGuesses /\ IInv /\ Mine /\ Kept /\ [Next]_vars => Kept'
<1> SUFFICES ASSUME DistinctGuesses, IInv, Mine, Kept, [Next]_vars, losses' = 0, Undisturbed'
             PROVE  /\ \A p \in objects' : p.status # "failed"
                    /\ \A o, p \in objects' : o.by = p.by => o = p
                    /\ \A p \in objects' : pc'[p.by] = "flash" => p.id = found'[p.by]
                    /\ \A p \in objects' : Orphan(p)' => Missed(p)
                    /\ \A r \in Resources :
                         /\ pc'[r] \in {"lookup", "flash"} => \E p \in objects' : p.by = r
                         /\ pc'[r] = "ok" =>
                              IF r \in wanted' THEN Denoted(r)' # {} ELSE record'[r] = None
  BY DEF Kept, Orphan, Denoted, Type, Missed
<1>1. \A p \in objects' : p.by \in Resources
  BY MineStep DEF Mine
<1>2. \A p \in objects' : pc'[p.by] = "flash" => p.id = found'[p.by]
  BY <1>1, KeptEntries
<1>3. ASSUME NEW p \in objects', Orphan(p)' PROVE Missed(p)
  <2>1. Server' /\ p.by \in Resources
    BY <1>1, ServerStep DEF IInv
  <2>2. ~Plain(p.by)
    BY <1>3, <2>1, KeptEntries DEF Orphan
  <2> QED
    BY <2>1, <2>2 DEF Server, Plain, Missed
<1> QED
  BY <1>2, <1>3, KeptObjects, KeptEntries

LEMMA KeptAlways == DistinctGuesses /\ Spec => [](IInv /\ Mine /\ Kept)
<1> SUFFICES ASSUME DistinctGuesses PROVE Spec => [](IInv /\ Mine /\ Kept)
  OBVIOUS
<1>1. Init => Mine /\ Kept
  BY DEF Init, Mine, Kept
<1>2. IInv /\ Mine /\ Kept /\ [Next]_vars => Mine' /\ Kept'
  BY MineStep, KeptStep
<1> QED
  BY <1>1, <1>2, ProvisioningInvariant, PTL DEF Spec

\* Nothing that Terraform made is ever without an entry or a running Create that
\* leads to it, as long as no call is lost and no operator interferes, except what
\* Sylve stores under another key than the one looked up.
THEOREM NothingIsLost == DistinctGuesses /\ Spec => []NothingLost
<1>1. Kept => NothingLost
  BY DEF Kept, NothingLost
<1> QED
  BY <1>1, KeptAlways, PTL

\* After an apply without losses and interference, a resource that reports
\* success has the one object it is to have, or none if it is not wanted.
THEOREM SuccessIsTrue == DistinctGuesses /\ Spec => []OkMeansThere
<1> SUFFICES ASSUME DistinctGuesses PROVE Spec => []OkMeansThere
  OBVIOUS
<1>1. ASSUME IInv, Mine, Kept, losses = 0, Undisturbed, NEW r \in Resources, pc[r] = "ok",
             NEW made, made = {o \in objects : o.by = r /\ ~Missed(o)}
      PROVE  made = Denoted(r) /\ Cardinality(made) = (IF r \in wanted THEN 1 ELSE 0)
  <2>1. \A o \in made : o \in Denoted(r)
    BY <1>1 DEF Kept, Orphan
  <2>2. \A o \in Denoted(r) : o \in made
    BY <1>1, DenotedIsOwn, DenotedObject DEF IInv, Missed
  <2>3. CASE r \in wanted
    <3>1. PICK o \in made : TRUE
      BY <1>1, <2>2, <2>3 DEF Kept
    <3>2. made = {o}
      BY <1>1, <3>1 DEF Kept
    <3> QED
      BY <2>1, <2>2, <2>3, <3>2, FS_Singleton
  <2>4. CASE r \notin wanted
    <3>1. Denoted(r) = {}
      BY <1>1, <2>4 DEF Kept, Denoted
    <3> QED
      BY <2>1, <2>4, <3>1, FS_EmptySet
  <2> QED
    BY <2>3, <2>4
<1>2. IInv /\ Mine /\ Kept => OkMeansThere
  BY <1>1 DEF OkMeansThere
<1> QED
  BY <1>2, KeptAlways, PTL
=============================================================================
