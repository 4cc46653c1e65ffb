----------------------------- MODULE Provisioning -----------------------------
(***************************************************************************)
(* How resources come into being and go away: Create, Read and Delete of   *)
(* the resources in src/internal/provider, with the client calls they make *)
(* in src/internal/sylveclient.                                            *)
(*                                                                         *)
(* Few of Sylve's create calls say what they created.  Create therefore    *)
(* posts, and then looks the new object up: by the id the user chose, by   *)
(* name, or by best match.  Between the two calls other resources of the   *)
(* same apply run theirs, Sylve's operator works too, and either call may  *)
(* fail: what has been created by then is recorded nowhere.  A POST that   *)
(* is given up on may still be carried out later.                          *)
(*                                                                         *)
(* Sylve stores the source of a "path" download in another form than it is *)
(* sent, "the cleaned source path", and the lookup compares with the one   *)
(* sent: it "can miss" (downloads.go:97-103).                              *)
(*                                                                         *)
(* Terraform refreshes (Read), plans and applies again and again; it runs  *)
(* the operations of independent resources concurrently.  A resource whose *)
(* Create recorded it and then failed is tainted, and replaced.            *)
(***************************************************************************)
EXTENDS Integers, FiniteSets

CONSTANTS Resources,   \* the resources of all configurations
          TypeOf,      \* the type of each
          KeyOf,       \* what its object is looked up by after the POST
          Cleans,      \* keys that Sylve stores in another form, and that form
          Configurations,  \* the configurations: sets of resources
          MaxEdits,    \* bound: resources added to or taken from the configuration
          MaxFaults,   \* bound: failed calls, failed downloads
          MaxMeddling  \* bound: objects the operator adds or removes

\* names:  how Create learns which object it made
\* unique: Sylve refuses a second object with the same key.  The repository says
\*         so of VMs, jails, downloads and network objects, and ZFS sees to it
\*         for datasets; of switches, and of the storages of a VM, it is assumed.
\* then:   what is left to do once the object is found
Vm            == [names |-> "chosen", unique |-> TRUE,  then |-> "record"]
Jail          == [names |-> "chosen", unique |-> TRUE,  then |-> "record"]
VmStorage     == [names |-> "first",  unique |-> TRUE,  then |-> "record"]
VmNetwork     == [names |-> "newest", unique |-> FALSE, then |-> "record"]
VmSnapshot    == [names |-> "answer", unique |-> FALSE, then |-> "record"]
JailSnapshot  == [names |-> "answer", unique |-> FALSE, then |-> "record"]
Download      == [names |-> "first",  unique |-> TRUE,  then |-> "await"]
ZfsVolume     == [names |-> "first",  unique |-> TRUE,  then |-> "flash"]
ZfsFilesystem == [names |-> "first",  unique |-> TRUE,  then |-> "record"]
ManualSwitch  == [names |-> "first",  unique |-> TRUE,  then |-> "record"]
NetworkObject == [names |-> "answer", unique |-> TRUE,  then |-> "record"]

Types == [sylve_vm |-> Vm, sylve_jail |-> Jail, sylve_vm_storage |-> VmStorage,
          sylve_vm_network |-> VmNetwork, sylve_vm_snapshot |-> VmSnapshot,
          sylve_jail_snapshot |-> JailSnapshot, sylve_download |-> Download,
          sylve_zfs_volume |-> ZfsVolume, sylve_zfs_filesystem |-> ZfsFilesystem,
          sylve_manual_switch |-> ManualSwitch, sylve_network_object |-> NetworkObject]

ASSUME TypeOfAssumption == TypeOf \in [Resources -> DOMAIN Types]
ASSUME KeyOfAssumption == DOMAIN KeyOf = Resources
ASSUME ConfigurationsAssumption == Configurations \subseteq SUBSET Resources
Stored(k) == IF k \in DOMAIN Cleans THEN Cleans[k] ELSE k

ASSUME CleansAssumption ==
  /\ \A k \in DOMAIN Cleans : Cleans[k] \notin DOMAIN Cleans
  /\ \A r \in Resources : KeyOf[r] \in DOMAIN Cleans => TypeOf[r] = "sylve_download"
ASSUME KeysBelongToTypes ==
  \A r, s \in Resources : Stored(KeyOf[r]) = Stored(KeyOf[s]) => TypeOf[r] = TypeOf[s]
ASSUME BoundsAssumption == {MaxEdits, MaxFaults, MaxMeddling} \subseteq Nat
ASSUME OperatorAssumption == "operator" \notin Resources

VARIABLES wanted,    \* the configuration
          record,    \* the id in Terraform's state, None without an entry
          tainted,   \* entries whose Create failed after recording them
          pc,        \* where each resource's operation stands
          found,     \* the id Create has looked up and not recorded yet
          objects,   \* Sylve: what there is
          nextId,    \* Sylve: ids are never used again
          late,      \* POSTs given up on that Sylve has yet to act on
          losses,    \* calls failed between a Create's POST and its recording
          faults, edits, meddling   \* how much of each bound is used

terraform == <<record, tainted, pc, found>>
server == <<objects, nextId, late>>
vars == <<wanted, terraform, server, losses, faults, edits, meddling>>

None == -1
Unset == 0        \* the zero value of an id the answer did not carry
Type(r) == Types[TypeOf[r]]
Keys == {Stored(KeyOf[r]) : r \in Resources}
TypeOfKey(k) == Type(CHOOSE r \in Resources : Stored(KeyOf[r]) = k)
Done == {"idle", "ok", "failed"}
Statuses == {"pending", "done", "failed"}

Ids == 1 .. (nextId - 1)
Objects == [id : Ids, key : Keys, by : Resources \cup {"operator"},
            status : Statuses, late : BOOLEAN]

TypeOK ==
  /\ wanted \in Configurations
  /\ record \in [Resources -> Ids \cup {None, Unset}]
  /\ tainted \in SUBSET Resources
  /\ pc \in [Resources -> Done \cup {"delete", "create", "lookup", "flash"}]
  /\ found \in [Resources -> Ids \cup {None}]
  /\ nextId \in Nat \ {0}
  /\ objects \in SUBSET Objects
  /\ losses \in 0 .. faults /\ late \in [Resources -> 0 .. losses]
  /\ faults \in 0 .. MaxFaults /\ edits \in 0 .. MaxEdits
  /\ meddling \in [added : 0 .. MaxMeddling, removed : 0 .. MaxMeddling]

Init ==
  /\ wanted \in Configurations
  /\ record = [r \in Resources |-> None]
  /\ tainted = {}
  /\ pc = [r \in Resources |-> "idle"]
  /\ found = [r \in Resources |-> None]
  /\ objects = {} /\ nextId = 1 /\ late = [r \in Resources |-> 0]
  /\ losses = 0 /\ faults = 0 /\ edits = 0
  /\ meddling = [added |-> 0, removed |-> 0]

------------------------------------------------------------------------------

\* What Read and Delete of r address: an id, or the number the user chose.
Denoted(r) ==
  IF record[r] = None THEN {}
  ELSE {o \in objects : IF Type(r).names = "chosen" THEN o.key = KeyOf[r] ELSE o.id = record[r]}

With(key) == {o \in objects : o.key = key}
Matching(r) == With(KeyOf[r])
IdsOf(some) == {o.id : o \in some}

Goto(r, label) == pc' = [pc EXCEPT ![r] = label]

\* Losing: the failure leaves Terraform without what a POST may have created.
Fault == faults < MaxFaults /\ faults' = faults + 1
LosingFault == Fault /\ losses' = losses + 1

------------------------------------------------------------------------------
(* Terraform: refresh, plan, and the configuration.                        *)

Finished == \A r \in Resources : pc[r] \in Done

\* Mutation of Refreshed: a 404 is reported as an error, and the entry kept.
RefreshedKeeping(r) == record[r]

\* Read removes from the state what Sylve answers 404 for.
Refreshed(r) == IF Denoted(r) = {} THEN None ELSE record[r]

Planned(r) ==
  IF Refreshed(r) = None THEN IF r \in wanted THEN "create" ELSE "ok"
  ELSE IF r \in wanted /\ r \notin tainted THEN "ok" ELSE "delete"

BeginApply ==
  /\ Finished
  /\ record' = [r \in Resources |-> Refreshed(r)]
  /\ tainted' = {r \in tainted : Refreshed(r) # None}
  /\ pc' = [r \in Resources |-> Planned(r)]
  /\ UNCHANGED <<wanted, found, server, losses, faults, edits, meddling>>

\* The list that Read searches arrives empty (an empty body is not decoded, see
\* "blank" in ApiCall): the entry is not in it, and is removed from the state.
BlankRefresh ==
  /\ Finished
  /\ LosingFault
  /\ \E r \in Resources :
       /\ Type(r).names # "chosen"
       /\ record[r] # None
       /\ record' = [record EXCEPT ![r] = None]
       /\ tainted' = tainted \ {r}
  /\ UNCHANGED <<wanted, pc, found, server, edits, meddling>>

EditConfig ==
  /\ Finished
  /\ edits < MaxEdits
  /\ edits' = edits + 1
  /\ \E r \in Resources : wanted' = IF r \in wanted THEN wanted \ {r} ELSE wanted \cup {r}
  /\ wanted' \in Configurations
  /\ pc' = [r \in Resources |-> "idle"]
  /\ UNCHANGED <<record, tainted, found, server, losses, faults, meddling>>

------------------------------------------------------------------------------
(* Create.                                                                 *)

Posted(r) == [id |-> nextId, key |-> Stored(KeyOf[r]), by |-> r,
              status |-> IF Type(r).then = "await" THEN "pending" ELSE "done",
              late |-> FALSE]

Refused(r) == Type(r).unique /\ With(Stored(KeyOf[r])) # {}

Post(r) ==
  /\ pc[r] = "create"
  /\ ~Refused(r)
  /\ objects' = objects \cup {Posted(r)}
  /\ nextId' = nextId + 1
  /\ IF Type(r).names = "answer"
     THEN record' = [record EXCEPT ![r] = nextId] /\ Goto(r, "ok")
     ELSE UNCHANGED record /\ Goto(r, "lookup")
  /\ UNCHANGED <<wanted, tainted, found, late, losses, faults, edits, meddling>>

\* Mutation of PostRefused: what is there already is looked up and taken over.
PostRefusedAdopting(r) ==
  /\ pc[r] = "create"
  /\ Refused(r)
  /\ Goto(r, "lookup")
  /\ UNCHANGED <<wanted, record, tainted, found, server, losses, faults, edits, meddling>>

PostRefused(r) ==
  /\ pc[r] = "create"
  /\ Refused(r)
  /\ Goto(r, "failed")
  /\ UNCHANGED <<wanted, record, tainted, found, server, losses, faults, edits, meddling>>

\* The POST fails: it never reaches Sylve, or may yet, or Sylve has acted on it;
\* or it succeeds with an empty body, and the id that was to be in it is recorded
\* as zero.
PostFails(r) ==
  /\ pc[r] = "create"
  /\ LosingFault
  /\ \/ /\ Goto(r, "failed")
        /\ late' \in {late, [late EXCEPT ![r] = @ + 1]}
        /\ UNCHANGED <<record, objects, nextId>>
     \/ /\ ~Refused(r)
        /\ objects' = objects \cup {Posted(r)}
        /\ nextId' = nextId + 1
        /\ \/ Goto(r, "failed") /\ UNCHANGED record
           \/ /\ Type(r).names = "answer"
              /\ record' = [record EXCEPT ![r] = Unset]
              /\ Goto(r, "ok")
        /\ UNCHANGED late
  /\ UNCHANGED <<wanted, tainted, found, edits, meddling>>

\* A POST given up on reaches Sylve after all.
PostArrives(r) ==
  /\ late[r] > 0
  /\ late' = [late EXCEPT ![r] = @ - 1]
  /\ IF Refused(r) THEN UNCHANGED <<objects, nextId>>
     ELSE /\ objects' = objects \cup {[Posted(r) EXCEPT !.late = TRUE]}
          /\ nextId' = nextId + 1
  /\ UNCHANGED <<wanted, terraform, losses, faults, edits, meddling>>

\* Mutation of Match: a NIC is whatever was created last.
MatchAny(r) == IF Type(r).names = "newest"
               THEN {o \in objects : \A p \in objects : p.id <= o.id}
               ELSE Matching(r)

\* Mutation of Match: the first entry that matches, for a NIC as well.
MatchFirst(r) == {o \in Matching(r) : \A p \in Matching(r) : o.id <= p.id}

\* The lookup that follows the POST; lists are in the order of creation.
Match(r) ==
  {o \in Matching(r) : \A p \in Matching(r) :
     IF Type(r).names = "newest" THEN p.id <= o.id ELSE o.id <= p.id}

\* What Create makes of the object it has found: record it, flash it first, or
\* give up because the download has failed.
Take(r, o) ==
  CASE o.status = "failed"     -> /\ Goto(r, "failed")
                                  /\ UNCHANGED <<record, found>>
    [] Type(r).then = "flash"  -> /\ found' = [found EXCEPT ![r] = o.id]
                                  /\ Goto(r, "flash")
                                  /\ UNCHANGED record
    [] OTHER                   -> /\ record' = [record EXCEPT ![r] = o.id]
                                  /\ Goto(r, "ok")
                                  /\ UNCHANGED found

\* A download that is not finished is polled again.
LookUp(r) ==
  /\ pc[r] = "lookup"
  /\ \E o \in Match(r) : o.status # "pending" /\ Take(r, o)
  /\ UNCHANGED <<wanted, tainted, server, losses, faults, edits, meddling>>

\* What was posted is not in the list: it is gone, or is there in another form.
NotFound(r) ==
  /\ pc[r] = "lookup"
  /\ Matching(r) = {}
  /\ Goto(r, "failed")
  /\ UNCHANGED <<wanted, record, tainted, found, server, losses, faults, edits, meddling>>

\* The lookup fails, or a download outlasts its timeout.
LookUpFails(r) ==
  /\ pc[r] = "lookup"
  /\ LosingFault
  /\ Goto(r, "failed")
  /\ UNCHANGED <<wanted, record, tainted, found, server, edits, meddling>>

Flash(r) ==
  /\ pc[r] = "flash"
  /\ record' = [record EXCEPT ![r] = found[r]]
  /\ found' = [found EXCEPT ![r] = None]
  /\ Goto(r, "ok")
  /\ UNCHANGED <<wanted, tainted, server, losses, faults, edits, meddling>>

\* Mutation of FlashFails: the error returns before the state is set.
FlashFailsUnrecorded(r) ==
  /\ pc[r] = "flash"
  /\ Fault
  /\ found' = [found EXCEPT ![r] = None]
  /\ Goto(r, "failed")
  /\ UNCHANGED <<wanted, record, tainted, server, losses, edits, meddling>>

\* The volume is there: it is recorded before the error is returned.
FlashFails(r) ==
  /\ pc[r] = "flash"
  /\ Fault
  /\ record' = [record EXCEPT ![r] = found[r]]
  /\ tainted' = tainted \cup {r}
  /\ found' = [found EXCEPT ![r] = None]
  /\ Goto(r, "failed")
  /\ UNCHANGED <<wanted, server, losses, edits, meddling>>

------------------------------------------------------------------------------
(* Delete, by itself or as the first half of a replacement.                *)

\* A 404 is as good as a success.
Delete(r) ==
  /\ pc[r] = "delete"
  /\ objects' = objects \ Denoted(r)
  /\ record' = [record EXCEPT ![r] = None]
  /\ tainted' = tainted \ {r}
  /\ Goto(r, IF r \in wanted THEN "create" ELSE "ok")
  /\ UNCHANGED <<wanted, found, nextId, late, losses, faults, edits, meddling>>

\* Mutation of DeleteFails: the entry is dropped although the call failed.
DeleteFailsForgetting(r) ==
  /\ pc[r] = "delete"
  /\ Fault
  /\ objects' \in {objects, objects \ Denoted(r)}
  /\ record' = [record EXCEPT ![r] = None]
  /\ tainted' = tainted \ {r}
  /\ Goto(r, "failed")
  /\ UNCHANGED <<wanted, found, nextId, late, losses, edits, meddling>>

\* The error keeps the entry in the state.
DeleteFails(r) ==
  /\ pc[r] = "delete"
  /\ Fault
  /\ objects' \in {objects, objects \ Denoted(r)}
  /\ Goto(r, "failed")
  /\ UNCHANGED <<wanted, record, tainted, found, nextId, late, losses, edits, meddling>>

------------------------------------------------------------------------------
(* Sylve's download job, and the operator at Sylve's own UI.               *)

Ended(o, status) == (objects \ {o}) \cup {[o EXCEPT !.status = status]}

DownloadEnds ==
  /\ \E o \in objects : o.status = "pending" /\ objects' = Ended(o, "done")
  /\ UNCHANGED <<wanted, terraform, nextId, late, losses, faults, edits, meddling>>

DownloadBreaks ==
  /\ LosingFault
  /\ \E o \in objects : o.status = "pending" /\ objects' = Ended(o, "failed")
  /\ UNCHANGED <<wanted, terraform, nextId, late, edits, meddling>>

Meddle ==
  /\ meddling.added + meddling.removed < MaxMeddling
  /\ \/ /\ \E o \in objects : objects' = objects \ {o}
        /\ meddling' = [meddling EXCEPT !.removed = @ + 1]
        /\ UNCHANGED nextId
     \/ /\ \E k \in {Stored(KeyOf[r]) : r \in wanted} :
             /\ TypeOfKey(k).unique => With(k) = {}
             /\ objects' = objects \cup
                  {[id |-> nextId, key |-> k, by |-> "operator", status |-> "done",
                    late |-> FALSE]}
        /\ meddling' = [meddling EXCEPT !.added = @ + 1]
        /\ nextId' = nextId + 1
  /\ UNCHANGED <<wanted, terraform, late, losses, faults, edits>>

------------------------------------------------------------------------------

Operation(r) == \/ Post(r) \/ PostRefused(r) \/ LookUp(r) \/ NotFound(r)
                \/ Flash(r) \/ Delete(r)
Failure(r) == PostFails(r) \/ LookUpFails(r) \/ FlashFails(r) \/ DeleteFails(r)

Next ==
  \/ BeginApply \/ BlankRefresh \/ EditConfig
  \/ \E r \in Resources : Operation(r) \/ Failure(r) \/ PostArrives(r)
  \/ DownloadEnds \/ DownloadBreaks \/ Meddle

Spec == Init /\ [][Next]_vars

(***************************************************************************)
(* The user applies again, Terraform's workers run what is planned, and a  *)
(* download ends.  Nobody has to fail, to meddle or to edit.               *)
(***************************************************************************)
FairSpec ==
  /\ Spec
  /\ WF_vars(BeginApply)
  /\ \A r \in Resources : WF_vars(Operation(r))
  /\ WF_vars(DownloadEnds)

------------------------------------------------------------------------------
(* Properties.                                                             *)

Undisturbed == meddling = [added |-> 0, removed |-> 0]

\* An object that Terraform created and that no entry of the state leads to.
Orphan(o) == /\ o.by \in Resources
             /\ pc[o.by] \notin {"lookup", "flash"}
             /\ o \notin Denoted(o.by)

\* An object of Terraform's that the lookup of its Create cannot find, because
\* Sylve stores its key in another form. (downloads.go:97-103)
Missed(o) == o.by \in Resources /\ o.key # KeyOf[o.by]

\* As long as no call fails between a Create's POST and its recording, the only
\* objects of Terraform's that the state does not lead to are downloads whose
\* path Sylve has cleaned, however the resources' operations interleave, and
\* whatever else fails: a volume whose flash failed is still in the state.
\* (zfs_volume_resource.go:166-176, and every Create's order of calls)
NothingLost == losses = 0 /\ Undisturbed => \A o \in objects : Orphan(o) => Missed(o)

\* "terraform apply blocks until the download reaches a terminal state"
\* (download_resource.go:66-68): when an apply in which no call has failed has
\* ended, no download is still running.
ApplyBlocks ==
  faults = 0 /\ Undisturbed /\ Finished => \A o \in objects : o.status # "pending"

\* The entry a Create leaves behind is for the object this very Create made,
\* not for another resource's and not for one an earlier Create lost (or, if a
\* POST given up on came through meanwhile, for the object of that).
\* (vm_network.go:124-143, vm_storage.go:159-172)
RecordsOwnNewest ==
  Undisturbed =>
    \A r \in Resources : \A o \in objects :
      record[r] \in Ids => /\ o.by = r /\ ~o.late => o.id <= record[r]
                           /\ o.id = record[r] => o.by = r

\* No two resources have the same object in their state. The id recorded is
\* "this network entry's own numeric ID". (vm_network_resource.go:55)
NoAlias ==
  \A r, s \in Resources :
    r # s /\ record[r] \in Ids => record[r] # record[s]

\* Terraform deletes only what a Create of its own made, even with an operator
\* who creates objects of the same names.  (Three exceptions: a VM or jail is
\* whatever carries its number, a NIC is found by best match, and an operator
\* who removes objects may put another in the place of one that was posted and
\* not looked up yet.)  (vm_storage.go:159-172, zfs.go:101-115)
NeverDeletesForeign ==
  [][\A o \in objects :
       (o.id \notin IdsOf(objects') /\ meddling' = meddling /\ meddling.removed = 0
          /\ TypeOfKey(o.key).names \notin {"chosen", "newest"})
         => o.by # "operator"]_vars

\* When an apply has ended, a resource that reports success has exactly one
\* object if the configuration wants it and none if not, and that object is the
\* one in the state, unless calls were lost or the operator interfered, and but
\* for downloads whose path Sylve has cleaned.
OkMeansThere ==
  losses = 0 /\ Undisturbed /\ Finished =>
    \A r \in Resources :
      pc[r] = "ok" =>
        LET made == {o \in objects : o.by = r /\ ~Missed(o)} IN
          made = Denoted(r) /\ Cardinality(made) = (IF r \in wanted THEN 1 ELSE 0)

Provisioned(r) == Denoted(r) # {} /\ r \notin tainted

\* An object in the way that Terraform does not know as its own: the user has
\* to import or remove it.
Blocked(r) == Refused(r) /\ Denoted(r) = {}

\* Once nobody interferes and nothing fails, repeated applies either provision
\* a wanted resource or are refused for ever because of an object that a lost
\* Create, one whose lookup missed it, or the operator left under the same name;
\* and they get rid of what is not wanted.
EventuallySettled ==
  \A r \in Resources :
    <>[](IF r \in wanted THEN Provisioned(r) \/ Blocked(r) ELSE record[r] = None)
==============================================================================
