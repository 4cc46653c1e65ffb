------------------------------- MODULE Updates -------------------------------
(***************************************************************************)
(* Update of one object in place, for the resource types whose Update is   *)
(* more than a state write: sylve_jail pushes four attributes one request  *)
(* each; storage entries, NICs and network objects go out as whole records;*)
(* a ZFS dataset is sent the keys of `properties`, and never read back; the *)
(* VNC group of sylve_vm travels with a flag that no attribute stands for  *)
(* and that SetVMVNC re-reads just before.                                 *)
(*                                                                         *)
(* Between the refresh that an apply was planned from and its requests the *)
(* operator may change the same object; any request may fail, without its  *)
(* effect, with it, or with an effect that comes later; the prior state is *)
(* then kept.  A GET that comes back with an empty body is a success with  *)
(* zero values ("blank" in ApiCall).                                       *)
(***************************************************************************)
EXTENDS FiniteSetsExt, Integers, Sequences

CONSTANTS Kinds,        \* the resource types looked at
          Values,       \* bound: the values of an attribute
          MaxEdits,     \* bound: changes of the configuration
          MaxFaults,    \* bound: failed requests
          MaxMeddling   \* bound: changes made outside Terraform

\* requests:  the attributes each request of Update carries, in order
\* selective: a request is made only if one of its attributes differs
\* readBack:  Read sets the attributes from Sylve
\* sticky:    an attribute left out of the configuration keeps its value
\* optional:  attributes that may be left out
\* positive:  attributes whose zero value is left out of the request
\* bare:      Read decodes the object itself, where no body is a zero object; an
\*            entry that Read looks for in a list is missing then (Provisioning)
SylveJail == [requests |-> <<{"name"}, {"description"}, {"cores"}, {"memory"}>>,
              selective |-> TRUE, readBack |-> TRUE, sticky |-> TRUE, optional |-> {"cores"},
              positive |-> {}, bare |-> TRUE]
SylveVmStorage == [requests |-> <<{"emulation", "size"}>>,
                   selective |-> FALSE, readBack |-> TRUE, sticky |-> TRUE, optional |-> {"size"},
                   positive |-> {}, bare |-> FALSE]
SylveVmNetwork == [requests |-> <<{"switch_name", "mac_id"}>>,
                   selective |-> FALSE, readBack |-> TRUE, sticky |-> TRUE, optional |-> {"mac_id"},
                   positive |-> {"mac_id"}, bare |-> FALSE]
SylveNetworkObject == [requests |-> <<{"name", "values"}>>,
                       selective |-> FALSE, readBack |-> TRUE, sticky |-> FALSE, optional |-> {},
                       positive |-> {}, bare |-> FALSE]
SylveZfsFilesystem == [requests |-> <<{"compression", "quota"}>>,
                       selective |-> FALSE, readBack |-> FALSE, sticky |-> FALSE,
                       optional |-> {"compression", "quota"},
                       positive |-> {}, bare |-> FALSE]
SylveZfsVolume == [requests |-> <<{"compression", "volsize"}>>,
                   selective |-> FALSE, readBack |-> FALSE, sticky |-> FALSE,
                   optional |-> {"compression"},
                   positive |-> {}, bare |-> FALSE]
SylveVmVnc == [requests |-> <<{"vnc_bind", "vnc_password"}>>,
               selective |-> TRUE, readBack |-> TRUE, sticky |-> TRUE, optional |-> {"vnc_password"},
               positive |-> {}, bare |-> TRUE]

Update == [sylve_jail |-> SylveJail, sylve_vm_storage |-> SylveVmStorage,
           sylve_vm_network |-> SylveVmNetwork, sylve_network_object |-> SylveNetworkObject,
           sylve_zfs_filesystem |-> SylveZfsFilesystem, sylve_zfs_volume |-> SylveZfsVolume,
           sylve_vm |-> SylveVmVnc]

Unset == "unset"
Zero == "zero"              \* "" or 0
Enabled == "vnc_enabled"    \* in no schema; SetVMVNC echoes it

ASSUME KindsAssumption == Kinds \subseteq DOMAIN Update
ASSUME ValuesAssumption == Values # {} /\ {Unset, Zero} \cap Values = {}
ASSUME BoundsAssumption == {MaxEdits, MaxFaults, MaxMeddling} \subseteq Nat

VARIABLES kind,      \* the type of the object this behaviour is about
          config,    \* its attributes in the configuration
          plan,      \* in the plan of the running apply
          state,     \* in Terraform's state
          live,      \* in Sylve
          enabled,   \* Sylve: vnc_enabled
          fetched,   \* vnc_enabled as SetVMVNC has read it
          misread,   \* that read came back empty
          late,      \* requests given up on that Sylve may still carry out
          pc,        \* where Update stands
          todo,      \* the requests still to be made
          others,    \* what others have changed since it was last read
          edits, faults, meddling   \* how much of each bound is used

object == <<live, enabled>>
vnc == <<fetched, misread>>
vars == <<kind, config, plan, state, object, vnc, late, pc, todo, others, edits, faults, meddling>>

Requests == Update[kind].requests
Attributes == UNION {Requests[i] : i \in DOMAIN Requests}
Configs == {c \in [Attributes -> Values \cup {Unset}] :
              \A a \in Attributes : c[a] = Unset => a \in Update[kind].optional}
Done == {"idle", "ok", "failed"}

\* An attribute left out at Create has what Sylve gives it, if Read sees that.
Created == [a \in Attributes |-> IF config[a] = Unset /\ Update[kind].sticky THEN Zero ELSE config[a]]

Init ==
  /\ kind \in Kinds
  /\ config \in {c \in Configs : \A a \in Attributes : c[a] \in {Unset, CHOOSE v \in Values : TRUE}}
  /\ plan = Created /\ state = Created /\ live = Created
  /\ enabled \in IF kind = "sylve_vm" THEN BOOLEAN ELSE {FALSE}
  /\ fetched = FALSE /\ misread = FALSE
  /\ pc = "idle" /\ todo = {} /\ others = {} /\ late = {}
  /\ edits = 0 /\ faults = 0 /\ meddling = 0

------------------------------------------------------------------------------
(* Terraform: refresh and plan.                                            *)

Seen == IF Update[kind].readBack THEN live ELSE state

Planned(seen) == [a \in Attributes |->
                    IF config[a] = Unset /\ Update[kind].sticky THEN seen[a] ELSE config[a]]

\* Mutation of Needed: every attribute is pushed once Update runs.
NeededAlways(i, old, new) == TRUE

\* Does Update make request i?
Needed(i, old, new) == Update[kind].selective => \E a \in Requests[i] : new[a] # old[a]

Refresh(seen) ==
  /\ pc \in Done
  /\ state' = seen
  /\ plan' = Planned(seen)
  /\ IF plan' = state'
     THEN pc' = "idle" /\ todo' = {}
     ELSE pc' = "update" /\ todo' = {i \in DOMAIN Requests : Needed(i, state', plan')}
  /\ UNCHANGED <<kind, config, object, vnc, late, edits, meddling>>

BeginApply ==
  /\ Refresh(Seen)
  /\ others' = IF Update[kind].readBack THEN others \cap {Enabled} ELSE others
  /\ UNCHANGED faults

\* The GET of Read comes back empty: zero values are recorded, and planned for
\* what the configuration leaves out.  (The attributes whose change replaces the
\* object are not modelled: one that is configured would make this plan a
\* replacement.)
BeginApplyBlank ==
  /\ Update[kind].bare
  /\ faults < MaxFaults
  /\ faults' = faults + 1
  /\ Refresh([a \in Attributes |-> Zero])
  /\ UNCHANGED others

EditConfig ==
  /\ pc \in Done
  /\ edits < MaxEdits
  /\ edits' = edits + 1
  /\ config' \in Configs \ {config}
  /\ UNCHANGED <<kind, plan, state, object, vnc, late, pc, todo, others, faults, meddling>>

------------------------------------------------------------------------------
(* Update.                                                                 *)

Fetching == kind = "sylve_vm" /\ pc = "update"

\* Mutation of Fetch: the flag is taken to be what a new VM has.
FetchDefault ==
  /\ Fetching
  /\ fetched' = TRUE /\ misread' = FALSE
  /\ others' = others \ {Enabled}
  /\ pc' = "fetched"
  /\ UNCHANGED <<kind, config, plan, state, object, late, todo, edits, faults, meddling>>

\* The GET of SetVMVNC.
Fetch ==
  /\ Fetching
  /\ fetched' = enabled /\ misread' = FALSE
  /\ others' = others \ {Enabled}
  /\ pc' = "fetched"
  /\ UNCHANGED <<kind, config, plan, state, object, late, todo, edits, faults, meddling>>

\* The same GET with an empty body: a VM without VNC, as far as SetVMVNC can tell.
FetchBlank ==
  /\ Fetching
  /\ faults < MaxFaults
  /\ faults' = faults + 1
  /\ fetched' = FALSE /\ misread' = TRUE
  /\ pc' = "fetched"
  /\ UNCHANGED <<kind, config, plan, state, object, late, todo, others, edits, meddling>>

Sending == pc = IF kind = "sylve_vm" THEN "fetched" ELSE "update"
Current == Min(todo)

\* What is left out of the plan is left out of the request: a removed key of
\* `properties` stays as it is in Sylve.  So is a mac_id of zero.
Sent == {a \in Requests[Current] :
           plan[a] # Unset /\ ~(plan[a] = Zero /\ a \in Update[kind].positive)}

Request == [values |-> [a \in Sent |-> plan[a]], flag |-> fetched]

CarriedOut(request) ==
  /\ live' = [a \in Attributes |->
                IF a \in DOMAIN request.values THEN request.values[a] ELSE live[a]]
  /\ enabled' = IF kind = "sylve_vm" THEN request.flag ELSE enabled

\* Mutation of Send: the first request is the last.
SendOnce ==
  /\ Sending
  /\ CarriedOut(Request)
  /\ others' = others \ (Sent \cup {Enabled})
  /\ todo' = {}
  /\ pc' = "ok"
  /\ state' = plan
  /\ UNCHANGED <<kind, config, plan, vnc, late, edits, faults, meddling>>

\* An empty map of properties is not sent; nothing is written then.
Send ==
  /\ Sending
  /\ CarriedOut(Request)
  /\ others' = others \ (Sent \cup {Enabled})
  /\ todo' = todo \ {Current}
  /\ pc' = IF todo' = {} THEN "ok" ELSE "update"
  /\ state' = IF todo' = {} THEN plan ELSE state
  /\ UNCHANGED <<kind, config, plan, vnc, late, edits, faults, meddling>>

\* Mutation of RequestFails: the plan is recorded before the error is returned.
RequestFailsRecording ==
  /\ pc \in {"update", "fetched"}
  /\ Sent # {}
  /\ faults < MaxFaults
  /\ faults' = faults + 1
  /\ pc' = "failed" /\ todo' = {}
  /\ state' = plan
  /\ \/ UNCHANGED <<object, late>>
     \/ Sending /\ CarriedOut(Request) /\ UNCHANGED late
     \/ Sending /\ late' = late \cup {Request} /\ UNCHANGED object
  /\ UNCHANGED <<kind, config, plan, vnc, others, edits, meddling>>

\* A diagnostic; the prior state is kept.
RequestFails ==
  /\ pc \in {"update", "fetched"}
  /\ Sent # {}
  /\ faults < MaxFaults
  /\ faults' = faults + 1
  /\ pc' = "failed" /\ todo' = {}
  /\ \/ UNCHANGED <<object, late>>
     \/ Sending /\ CarriedOut(Request) /\ UNCHANGED late
     \/ Sending /\ late' = late \cup {Request} /\ UNCHANGED object
  /\ UNCHANGED <<kind, config, plan, state, vnc, others, edits, meddling>>

------------------------------------------------------------------------------

\* A request that was given up on is carried out after all (client.go:165): by now
\* this is somebody else's change.
RequestArrives ==
  /\ \E request \in late :
       /\ CarriedOut(request)
       /\ late' = late \ {request}
       /\ others' = others \cup DOMAIN request.values \cup {Enabled}
  /\ UNCHANGED <<kind, config, plan, state, vnc, pc, todo, edits, faults, meddling>>

\* The operator at Sylve's UI.
Meddle ==
  /\ meddling < MaxMeddling
  /\ meddling' = meddling + 1
  /\ \/ \E a \in Attributes : \E v \in Values \ {live[a]} :
          /\ live' = [live EXCEPT ![a] = v]
          /\ others' = others \cup {a}
          /\ UNCHANGED enabled
     \/ /\ kind = "sylve_vm"
        /\ enabled' = ~enabled
        /\ others' = others \cup {Enabled}
        /\ UNCHANGED live
  /\ UNCHANGED <<kind, config, plan, state, vnc, late, pc, todo, edits, faults>>

Step == Fetch \/ Send

Next == \/ BeginApply \/ BeginApplyBlank \/ EditConfig
        \/ Step \/ FetchBlank \/ RequestFails
        \/ RequestArrives \/ Meddle

Spec == Init /\ [][Next]_vars

\* The user applies again, and a running Update goes on.  Nobody has to fail, to
\* meddle or to edit.
FairSpec == Spec /\ WF_vars(BeginApply) /\ WF_vars(Step)

------------------------------------------------------------------------------
(* Properties.                                                             *)

\* After a successful Update Sylve has every attribute that the configuration
\* sets, whatever earlier applies left half done, but for what others have changed
\* since the refresh: also of an object that is never read back, and of one whose
\* refresh came back empty.
\* (jail_resource.go:318-355, vm_storage_resource.go:273-319,
\* zfs_filesystem_resource.go:188-212)
SuccessMeansLive ==
  pc = "ok" => \A a \in Attributes \ others : plan[a] \in Values => live[a] = plan[a]

\* What an operator changes while an apply runs is not undone by it, unless the
\* request carries an attribute the plan does change: Update compares before it
\* pushes.  (jail_resource.go:327-350, vm_resource.go:629-630)
OnlyDifferencesPushed ==
  [][\A a \in Attributes :
       live'[a] # live[a] /\ meddling' = meddling /\ late \subseteq late' =>
         \E i \in DOMAIN Requests :
           a \in Requests[i] /\ \E b \in Requests[i] : plan[b] # state[b]]_vars

\* VNC goes on or off at Sylve by a request of the running Update.
Switched == enabled' # enabled /\ meddling' = meddling /\ late \subseteq late'

\* A change of VNC settings switches VNC neither on nor off, unless the operator
\* does it between the re-read and the write, or the re-read came back empty; and
\* then it goes off. (vm.go:352-366)
EnabledKept ==
  [][Switched => Enabled \in others \/ (misread /\ ~enabled')]_vars

\* SetVMVNC "always re-fetches the live VM first and echoes its existing vncEnabled
\* back unchanged rather than risk resetting it". (vm.go:337-339)
EnabledEchoed == [][Switched => Enabled \in others]_vars

\* Repeated applies bring every attribute that is set to its configured value,
\* after failures and after changes by others.  An object that is not read back
\* gets there if nobody else changes it, and if no configuration is taken back
\* after a request of its apply has failed: Terraform then takes the old values
\* for the ones in force, and sends nothing.
Settled == \A a \in Attributes : config[a] # Unset => live[a] = config[a]
EventuallySettled ==
  <>[](Update[kind].readBack \/ (meddling = 0 /\ (faults = 0 \/ edits <= 1)) => Settled)

\* "changing this attribute is applied via Update (PATCH)" of `properties`
\* (zfs_filesystem_resource.go:83-84): a key that has been removed is not in force.
RemovalApplied ==
  pc = "ok" /\ kind \in {"sylve_zfs_filesystem", "sylve_zfs_volume"} /\ faults = 0 /\ meddling = 0
    => \A a \in Attributes : plan[a] = Unset => live[a] = Unset
==============================================================================
