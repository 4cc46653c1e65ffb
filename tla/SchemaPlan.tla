------------------------------ MODULE SchemaPlan ------------------------------
(***************************************************************************)
(* One attribute of one resource through plan and apply: what its schema   *)
(* says (src/internal/provider, every Schema method), what Create, Read,   *)
(* Update and ImportState do with it, and what Terraform makes of that.    *)
(*                                                                         *)
(* Whether an attribute is sent at create, read back, pushed by Update or  *)
(* forces a replacement is decided in four places of each resource; a slip *)
(* in one of them is a change that silently does nothing, a plan that      *)
(* never comes to rest, or an object that is destroyed for nothing.        *)
(*                                                                         *)
(* Attributes are independent of each other here: the behaviour follows    *)
(* the one chosen in Init.  Attributes that only Sylve sets are left out.  *)
(***************************************************************************)
EXTENDS Naturals

CONSTANTS Subjects,   \* the <<resource type, attribute>> pairs looked at
          Values,     \* bound: the values of an attribute, other than "" and null
          MaxEdits,   \* bound: changes of the configuration
          MaxDrifts   \* bound: changes made outside Terraform

\* What is said of an attribute:
\*   required, sticky  Required; Optional + Computed with UseStateForUnknown
\*                     (neither: Optional)
\*   replace           RequiresReplace
\*   sent, pushed      Create sends it; Update sends it when it differs
\*   read, addressed   Read sets it from Sylve; ImportState sets it
Address       == {"required", "replace", "sent", "addressed"}
InPlace       == {"required", "sent", "read", "pushed"}
StickyInPlace == {"sticky", "sent", "read", "pushed"}
Fixed         == {"required", "replace", "sent", "read"}
StickyFixed   == {"sticky", "replace", "sent", "read"}
Immutable     == {"replace", "sent", "read"}
WriteOnly     == {"replace", "sent"}

SylveVm ==
  [rid |-> Address, name |-> InPlace, description |-> StickyInPlace, ram |-> InPlace,
   cpu_cores |-> InPlace, cpu_sockets |-> InPlace, cpu_threads |-> InPlace,
   time_offset |-> StickyInPlace, vnc_port |-> Fixed, vnc_bind |-> StickyInPlace,
   vnc_password |-> StickyInPlace, vnc_resolution |-> StickyFixed, vnc_wait |-> StickyFixed,
   serial |-> StickyInPlace, tpm_emulation |-> StickyInPlace,
   qemu_guest_agent |-> StickyInPlace, start_at_boot |-> StickyInPlace,
   start_order |-> StickyInPlace, storage_pool |-> WriteOnly, storage_type |-> WriteOnly,
   storage_size |-> {"sent"}, storage_emulation_type |-> WriteOnly,
   switch_name |-> WriteOnly, switch_emulation_type |-> WriteOnly, mac_id |-> {"sent"},
   iso |-> WriteOnly, cloud_init |-> WriteOnly, cloud_init_data |-> StickyInPlace,
   cloud_init_metadata |-> StickyInPlace, cloud_init_network_config |-> StickyInPlace]

SylveVmPower == [rid |-> Address, state |-> InPlace]

\* AttachStorage has no `enable`; a storage entry starts out enabled.
SylveVmStorage ==
  [rid |-> Address, name |-> InPlace, attach_type |-> WriteOnly \cup {"required"},
   storage_type |-> WriteOnly \cup {"required"}, emulation |-> InPlace, pool |-> WriteOnly,
   size |-> StickyInPlace, dataset |-> WriteOnly, download_uuid |-> WriteOnly,
   raw_path |-> WriteOnly, filesystem_target |-> StickyInPlace,
   read_only |-> StickyInPlace, boot_order |-> StickyInPlace,
   enable |-> StickyInPlace \ {"sent"}]

\* Mutations of SylveVmNetwork: Update forgets the switch; mac_id is not
\* Computed; AttachNetwork forgets mac_id.
SylveVmNetworkUnpushed ==
  [rid |-> Address, switch_name |-> InPlace \ {"pushed"}, emulation |-> InPlace,
   mac_id |-> StickyInPlace]
SylveVmNetworkUncomputed ==
  [rid |-> Address, switch_name |-> InPlace, emulation |-> InPlace,
   mac_id |-> StickyInPlace \ {"sticky"}]
SylveVmNetworkUnsent ==
  [rid |-> Address, switch_name |-> InPlace, emulation |-> InPlace,
   mac_id |-> StickyInPlace \ {"sent"}]

SylveVmNetwork ==
  [rid |-> Address, switch_name |-> InPlace, emulation |-> InPlace, mac_id |-> StickyInPlace]

SylveVmSnapshot == [rid |-> Address, name |-> Fixed, description |-> Immutable]
SylveJailSnapshot == [ctid |-> Address, name |-> Fixed, description |-> Immutable]

\* Rolling back is what Create does; Read and Update touch nothing but the state.
SylveVmSnapshotRollback ==
  [rid |-> {"required", "sent"}, snapshot_id |-> {"required", "sent"},
   trigger |-> WriteOnly \cup {"required"}]
SylveJailSnapshotRollback ==
  [ctid |-> {"required", "sent"}, snapshot_id |-> {"required", "sent"},
   trigger |-> WriteOnly \cup {"required"}]

SylveJail ==
  [ctid |-> Address, name |-> InPlace, hostname |-> StickyInPlace \ {"pushed"},
   description |-> StickyInPlace, type |-> Fixed, pool |-> WriteOnly, base |-> WriteOnly,
   switch_name |-> WriteOnly, cores |-> StickyInPlace, memory |-> StickyInPlace,
   resource_limits |-> StickyFixed, start_at_boot |-> StickyFixed,
   start_order |-> StickyFixed, clean_environment |-> StickyFixed,
   additional_options |-> StickyFixed, devfs_ruleset |-> StickyFixed,
   fstab |-> StickyFixed, resolv_conf |-> StickyFixed]

SylveDownload ==
  [url |-> Fixed, filename |-> StickyFixed, utype |-> StickyFixed, ignore_tls |-> StickyFixed,
   automatic_extraction |-> StickyFixed, automatic_raw_conversion |-> StickyFixed]

SylveZfsVolume ==
  [name |-> WriteOnly \cup {"required"}, parent |-> WriteOnly \cup {"required"},
   properties |-> {"required", "sent", "pushed"}, flash_from_download_uuid |-> WriteOnly]
SylveZfsFilesystem ==
  [name |-> WriteOnly \cup {"required"}, parent |-> WriteOnly \cup {"required"},
   properties |-> {"sent", "pushed"}]

\* Mutation of SylveManualSwitch: Read leaves the name alone.
SylveManualSwitchUnread == [name |-> WriteOnly \cup {"required"}, bridge |-> Fixed]

SylveManualSwitch == [name |-> Fixed, bridge |-> Fixed]
SylveNetworkObject == [name |-> InPlace, type |-> Fixed, values |-> InPlace]

Schema ==
  [sylve_vm |-> SylveVm, sylve_vm_power |-> SylveVmPower, sylve_vm_storage |-> SylveVmStorage,
   sylve_vm_network |-> SylveVmNetwork, sylve_vm_snapshot |-> SylveVmSnapshot,
   sylve_jail_snapshot |-> SylveJailSnapshot,
   sylve_vm_snapshot_rollback |-> SylveVmSnapshotRollback,
   sylve_jail_snapshot_rollback |-> SylveJailSnapshotRollback,
   sylve_jail |-> SylveJail, sylve_download |-> SylveDownload,
   sylve_zfs_volume |-> SylveZfsVolume, sylve_zfs_filesystem |-> SylveZfsFilesystem,
   sylve_manual_switch |-> SylveManualSwitch, sylve_network_object |-> SylveNetworkObject]

AllAttributes == UNION {{t} \X DOMAIN Schema[t] : t \in DOMAIN Schema}
Actions == {"sylve_vm_snapshot_rollback", "sylve_jail_snapshot_rollback"}

Null == "null"         \* the attribute is not set
Empty == "empty"       \* Sylve's own value for what it was not told
Unknown == "unknown"   \* to be known after apply

ASSUME SubjectsAssumption == Subjects \subseteq AllAttributes
ASSUME ValuesAssumption == {Null, Empty, Unknown} \cap Values = {}
ASSUME BoundsAssumption == MaxEdits \in Nat /\ MaxDrifts \in Nat

------------------------------------------------------------------------------

VARIABLES subject,   \* the attribute this behaviour is about
          config,    \* its value in the configuration
          managed,   \* is the resource in Terraform's state?
          tainted,   \* its Create was not what had been planned
          state,     \* its value in the state
          real,      \* its value in Sylve; Null when there is no such object
          outcome,   \* what the latest apply or import did
          touched,   \* configuration or Sylve changed since then
          drifted,   \* somebody changed it outside Terraform
          edits, drifts   \* how much of each bound is used

world == <<managed, tainted, state, real>>
vars == <<subject, config, world, outcome, touched, drifted, edits, drifts>>

Is(trait) == trait \in Schema[subject[1]][subject[2]]
Configurable == Values \cup (IF Is("required") THEN {} ELSE {Null})
Reals == Values \cup {Empty}

TypeOK ==
  /\ subject \in Subjects
  /\ config \in Values \cup {Null}
  /\ managed \in BOOLEAN /\ tainted \in BOOLEAN
  /\ state \in Values \cup {Null, Empty}
  /\ real \in Reals \cup {Null}
  /\ outcome \in {"none", "noop", "created", "updated", "replaced", "imported"}
  /\ touched \in BOOLEAN /\ drifted \in BOOLEAN
  /\ edits \in 0 .. MaxEdits /\ drifts \in 0 .. MaxDrifts

\* Nothing there yet, or an object that is to be imported, with a configuration
\* that says what it is.
Init ==
  /\ subject \in Subjects
  /\ managed = FALSE /\ tainted = FALSE /\ state = Null
  /\ \/ real = Null /\ config \in Configurable
     \/ /\ subject[1] \notin Actions
        /\ real \in (IF Is("required") THEN Values ELSE Reals)
        /\ config \in {real, Null} \cap Configurable
  /\ outcome = "none" /\ touched = FALSE /\ drifted = FALSE
  /\ edits = 0 /\ drifts = 0

\* Create: Sylve fills in what it is not told; sticky attributes are recorded
\* as Sylve has them.  Terraform rejects a result that differs from the plan,
\* and taints the resource.
Created(planned) ==
  /\ real' = IF Is("sent") /\ planned \in Values THEN planned ELSE Empty
  /\ state' = IF Is("sticky") THEN real' ELSE planned
  /\ tainted' = (planned \in Values /\ state' # planned)

\* Update: the plan is recorded, whether or not it has been pushed.  (An attribute
\* is one value: what becomes of a key taken out of `properties` is in Updates.)
Updated(planned) ==
  /\ real' = IF Is("pushed") /\ planned # Null THEN planned ELSE real
  /\ state' = planned
  /\ UNCHANGED tainted

\* Read.
Seen == IF Is("read") THEN real ELSE state

\* The framework's plan: an unset sticky attribute keeps what the state has.
Planned == IF config # Null \/ ~Is("sticky") THEN config
           ELSE IF managed /\ ~tainted THEN Seen ELSE Unknown

ApplyCreate ==
  /\ ~managed /\ real = Null
  /\ Created(Planned)
  /\ managed' = TRUE
  /\ outcome' = "created"

ApplyNothing ==
  /\ managed /\ ~tainted /\ Planned = Seen
  /\ state' = Seen
  /\ outcome' = "noop"
  /\ UNCHANGED <<managed, tainted, real>>

ApplyReplace ==
  /\ managed
  /\ tainted \/ (Planned # Seen /\ Is("replace"))
  /\ Created(Planned)
  /\ outcome' = "replaced"
  /\ UNCHANGED managed

ApplyUpdate ==
  /\ managed /\ ~tainted /\ Planned # Seen /\ ~Is("replace")
  /\ Updated(Planned)
  /\ outcome' = "updated"
  /\ UNCHANGED managed

Apply ==
  /\ ApplyCreate \/ ApplyNothing \/ ApplyReplace \/ ApplyUpdate
  /\ touched' = FALSE
  /\ drifted' = (drifted /\ real' = real)
  /\ UNCHANGED <<subject, config, edits, drifts>>

\* ImportState, and the Read that follows it.
Import ==
  /\ ~managed /\ real # Null
  /\ managed' = TRUE
  /\ state' = IF Is("read") \/ Is("addressed") THEN real ELSE Null
  /\ outcome' = "imported"
  /\ UNCHANGED <<subject, config, tainted, real, touched, drifted, edits, drifts>>

EditConfig ==
  /\ managed
  /\ edits < MaxEdits
  /\ edits' = edits + 1
  /\ \E v \in Configurable \ {config} : config' = v
  /\ touched' = TRUE
  /\ UNCHANGED <<subject, world, outcome, drifted, drifts>>

\* Somebody changes the attribute at Sylve's UI.
Drift ==
  /\ managed
  /\ drifts < MaxDrifts
  /\ drifts' = drifts + 1
  /\ \E v \in Reals \ {real} : real' = v
  /\ touched' = TRUE /\ drifted' = TRUE
  /\ UNCHANGED <<subject, config, managed, tainted, state, outcome, edits>>

Next == Apply \/ Import \/ EditConfig \/ Drift

Spec == Init /\ [][Next]_vars

------------------------------------------------------------------------------
(* Properties.                                                             *)

Settled == outcome \in {"noop", "created", "updated", "replaced"} /\ ~touched /\ ~tainted

\* After an apply that reported success Sylve has the configured value: changing
\* an attribute has an effect in place or "forces recreation rather than
\* silently doing nothing". (vm_resource.go:42-43)  What somebody else changed
\* is only seen where Read reads it.
Honoured == Settled /\ config # Null /\ (drifted => Is("read")) => real = config

\* An apply right after a successful one, with nothing changed in between, does
\* nothing: plans come to rest.
PlansComeToRest == [][Settled /\ Apply => outcome' = "noop"]_vars

\* Importing an object and applying a configuration that says what the object
\* is never replaces it: "reconcile config to match reality before applying".
\* (zfs_filesystem_resource.go:226-229)
ImportKeeps == [][outcome = "imported" /\ ~touched /\ Apply => outcome' # "replaced"]_vars

\* What is documented not to be read back.
DocumentedWriteOnly ==
  ({"sylve_vm"} \X {"storage_pool", "storage_type", "storage_emulation_type", "switch_name",
                    "switch_emulation_type", "iso", "cloud_init"})
  \cup ({"sylve_jail"} \X {"pool", "base", "switch_name"})
  \cup ({"sylve_vm_storage"} \X {"attach_type", "storage_type", "pool", "dataset",
                                  "download_uuid", "raw_path"})
  \cup ({"sylve_zfs_volume"} \X {"name", "parent", "flash_from_download_uuid"})
  \cup ({"sylve_zfs_filesystem"} \X {"name", "parent"})

\* The documented way out: an imported object is not replaced by a configuration
\* that says what the object is, and nothing of what is never read back.
\* (jail_resource.go:112-132, 370-373, vm_resource.go:689-696)
ImportKeepsWhenOmitted ==
  [][(outcome = "imported" /\ ~touched /\ (subject \in DocumentedWriteOnly => config = Null) /\ Apply)
       => outcome' # "replaced"]_vars

\* Create results in what has been planned; otherwise Terraform rejects it, and
\* every further apply destroys and creates the object again.
AppliedAsPlanned == ~tainted

\* "Update is never reached in practice: every attribute forces replacement".
\* (download_resource.go:241-242, vm_snapshot_resource.go:160-161,
\* manual_switch_resource.go:139-141, vm_snapshot_rollback_resource.go:133-134)
UpdateUnreachable ==
  subject[1] \in Actions \cup {"sylve_download", "sylve_vm_snapshot", "sylve_jail_snapshot",
                               "sylve_manual_switch"}
    => outcome # "updated"
==============================================================================
