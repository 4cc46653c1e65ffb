--------------------------- MODULE SchemaPlanProofs ---------------------------
(***************************************************************************)
(* Proofs about SchemaPlan, for every attribute that MCSchemaPlan counts   *)
(* as Sound, any values and any bounds.                                    *)
(*                                                                         *)
(* What the proofs use of a schema is said once (Coherent), and read off   *)
(* the table of attributes type by type; the rest does not look into the   *)
(* table.  The inductive invariant says                                    *)
(*                                                                         *)
(*   Unmanaged  what there is before the first apply or import             *)
(*   Recorded   what Read does not refresh is in the state as it is in     *)
(*              Sylve, unless somebody else changed it                     *)
(*   Imported   after an import, the state has what the object is          *)
(*   Resting    after an apply, the plan is what Read sees                 *)
(***************************************************************************)
EXTENDS MCSchemaPlan, TLAPS

\* The traits of an attribute go together: it is sent at create; a change is
\* pushed or replaces; what is read back is configured or computed; what import
\* sets is required; and what replaces, but is not known after an import, is
\* documented to be write-only.
Coherent(a) ==
  LET traits == Schema[a[1]][a[2]] IN
    /\ "sent" \in traits
    /\ "replace" \in traits \/ "pushed" \in traits
    /\ "read" \in traits => "required" \in traits \/ "sticky" \in traits
    /\ "addressed" \in traits => "required" \in traits
    /\ "replace" \in traits /\ "read" \notin traits /\ "addressed" \notin traits =>
         /\ a \in DocumentedWriteOnly \/ a[1] \in Actions
         /\ "sticky" \notin traits

AllCoherent == \A a \in Subjects : Coherent(a)

Unmanaged ==
  ~managed =>
    /\ state = Null /\ outcome = "none" /\ ~touched /\ ~drifted
    /\ real # Null => subject[1] \notin Actions /\ config \in {real, Null}

Recorded == managed /\ ~drifted /\ ~Is("read") /\ state \in Values => real = state

Imported ==
  outcome = "imported" /\ ~touched =>
    /\ subject[1] \notin Actions
    /\ config \in {real, Null}
    /\ state = IF Is("read") \/ Is("addressed") THEN real ELSE Null

Resting == Settled => managed /\ Planned = Seen

IInv ==
  /\ TypeOK /\ config \in Configurable
  /\ managed => real # Null
  /\ ~tainted
  /\ Unmanaged /\ Recorded /\ Imported /\ Resting /\ Honoured

------------------------------------------------------------------------------
(* The table.                                                              *)

\* What Coherent says of the traits by themselves, and of the exceptions.
WellFormed(traits) ==
  /\ "sent" \in traits
  /\ "replace" \in traits \/ "pushed" \in traits
  /\ "read" \in traits => "required" \in traits \/ "sticky" \in traits
  /\ "addressed" \in traits => "required" \in traits
HiddenFromImport(traits) ==
  "replace" \in traits /\ "read" \notin traits /\ "addressed" \notin traits

Kinds == {Address, InPlace, StickyInPlace, Fixed, StickyFixed,
          {"required", "sent", "pushed"}, {"sent", "pushed"}}
HiddenKinds == {WriteOnly, WriteOnly \cup {"required"}}

LEMMA KindsAreWellFormed == \A T \in Kinds : WellFormed(T) /\ ~HiddenFromImport(T)
BY DEF Kinds, Address, InPlace, StickyInPlace, Fixed, StickyFixed, WellFormed, HiddenFromImport

LEMMA HiddenKindsAreWellFormed == \A T \in HiddenKinds : WellFormed(T) /\ "sticky" \notin T
BY DEF HiddenKinds, WriteOnly, WellFormed

LEMMA VmTable ==
  ASSUME NEW x \in DOMAIN SylveVm, x \notin {"storage_size", "mac_id"}
  PROVE  \/ SylveVm[x] \in Kinds
         \/ SylveVm[x] \in HiddenKinds /\ <<"sylve_vm", x>> \in DocumentedWriteOnly
<1>1. CASE x \in {"storage_pool", "storage_type", "storage_emulation_type", "switch_name",
                  "switch_emulation_type", "iso", "cloud_init"}
  BY <1>1 DEF SylveVm, HiddenKinds, DocumentedWriteOnly
<1>2. CASE x \notin {"storage_pool", "storage_type", "storage_emulation_type", "switch_name",
                     "switch_emulation_type", "iso", "cloud_init"}
  BY <1>2 DEF SylveVm, Kinds
<1> QED
  BY <1>1, <1>2

LEMMA StorageTable ==
  ASSUME NEW x \in DOMAIN SylveVmStorage, x # "enable"
  PROVE  \/ SylveVmStorage[x] \in Kinds
         \/ SylveVmStorage[x] \in HiddenKinds /\ <<"sylve_vm_storage", x>> \in DocumentedWriteOnly
<1>1. CASE x \in {"attach_type", "storage_type", "pool", "dataset", "download_uuid", "raw_path"}
  BY <1>1 DEF SylveVmStorage, HiddenKinds, DocumentedWriteOnly
<1>2. CASE x \notin {"attach_type", "storage_type", "pool", "dataset", "download_uuid", "raw_path"}
  BY <1>2 DEF SylveVmStorage, Kinds
<1> QED
  BY <1>1, <1>2

LEMMA JailTable ==
  ASSUME NEW x \in DOMAIN SylveJail, x # "hostname"
  PROVE  \/ SylveJail[x] \in Kinds
         \/ SylveJail[x] \in HiddenKinds /\ <<"sylve_jail", x>> \in DocumentedWriteOnly
<1>1. CASE x \in {"pool", "base", "switch_name"}
  BY <1>1 DEF SylveJail, HiddenKinds, DocumentedWriteOnly
<1>2. CASE x \notin {"pool", "base", "switch_name"}
  BY <1>2 DEF SylveJail, Kinds
<1> QED
  BY <1>1, <1>2

LEMMA ZfsTables ==
  /\ \A x \in DOMAIN SylveZfsVolume :
       \/ SylveZfsVolume[x] \in Kinds
       \/ SylveZfsVolume[x] \in HiddenKinds /\ <<"sylve_zfs_volume", x>> \in DocumentedWriteOnly
  /\ \A x \in DOMAIN SylveZfsFilesystem :
       \/ SylveZfsFilesystem[x] \in Kinds
       \/ /\ SylveZfsFilesystem[x] \in HiddenKinds
          /\ <<"sylve_zfs_filesystem", x>> \in DocumentedWriteOnly
BY DEF SylveZfsVolume, SylveZfsFilesystem, Kinds, HiddenKinds, DocumentedWriteOnly

LEMMA OtherTables ==
  /\ \A x \in DOMAIN SylveVmPower : SylveVmPower[x] \in Kinds
  /\ \A x \in DOMAIN SylveVmNetwork : SylveVmNetwork[x] \in Kinds
  /\ \A x \in DOMAIN SylveVmSnapshot \ {"description"} : SylveVmSnapshot[x] \in Kinds
  /\ \A x \in DOMAIN SylveJailSnapshot \ {"description"} : SylveJailSnapshot[x] \in Kinds
  /\ \A x \in DOMAIN SylveDownload : SylveDownload[x] \in Kinds
  /\ \A x \in DOMAIN SylveManualSwitch : SylveManualSwitch[x] \in Kinds
  /\ \A x \in DOMAIN SylveNetworkObject : SylveNetworkObject[x] \in Kinds
  /\ SylveVmSnapshotRollback["trigger"] \in HiddenKinds
  /\ SylveJailSnapshotRollback["trigger"] \in HiddenKinds
BY DEF SylveVmPower, SylveVmNetwork, SylveVmSnapshot, SylveJailSnapshot, SylveDownload,
   SylveManualSwitch, SylveNetworkObject, SylveVmSnapshotRollback, SylveJailSnapshotRollback,
   Kinds, HiddenKinds

LEMMA SoundKinds ==
  ASSUME NEW a \in Sound
  PROVE  \/ Schema[a[1]][a[2]] \in Kinds
         \/ /\ Schema[a[1]][a[2]] \in HiddenKinds
            /\ a \in DocumentedWriteOnly \/ a[1] \in Actions
<1>1. PICK t \in DOMAIN Schema : a \in {t} \X DOMAIN Schema[t]
  BY DEF Sound, AllAttributes
<1>2. PICK x \in DOMAIN Schema[t] : a = <<t, x>>
  BY <1>1
<1>3. a[1] = t /\ a[2] = x
  BY <1>2
<1>4. /\ t = "sylve_vm" => x \notin {"storage_size", "mac_id"}
      /\ t = "sylve_jail" => x # "hostname"
      /\ t = "sylve_vm_storage" => x # "enable"
      /\ t \in {"sylve_vm_snapshot", "sylve_jail_snapshot"} => x # "description"
  BY <1>2 DEF Sound, Unpushed, UnpushedHostname, ReadBackUncomputed, Unsent
<1>5. t \in Actions => x = "trigger"
  BY <1>3 DEF Sound, RollbackArguments
<1>6. CASE t = "sylve_vm"
  BY <1>2, <1>3, <1>4, <1>6, VmTable DEF Schema
<1>7. CASE t = "sylve_jail"
  BY <1>2, <1>3, <1>4, <1>7, JailTable DEF Schema
<1>8. CASE t = "sylve_vm_storage"
  BY <1>2, <1>3, <1>4, <1>8, StorageTable DEF Schema
<1>9. CASE t \in {"sylve_zfs_volume", "sylve_zfs_filesystem"}
  BY <1>2, <1>3, <1>9, ZfsTables DEF Schema
<1>10. CASE t \in Actions
  BY <1>2, <1>3, <1>5, <1>10, OtherTables DEF Schema, Actions
<1>11. CASE t \in {"sylve_vm_power", "sylve_vm_network", "sylve_vm_snapshot",
                   "sylve_jail_snapshot", "sylve_download", "sylve_manual_switch",
                   "sylve_network_object"}
  BY <1>2, <1>3, <1>4, <1>11, OtherTables DEF Schema
<1>12. t \in {"sylve_vm", "sylve_jail", "sylve_vm_storage", "sylve_zfs_volume",
              "sylve_zfs_filesystem", "sylve_vm_power", "sylve_vm_network",
              "sylve_vm_snapshot", "sylve_jail_snapshot", "sylve_download",
              "sylve_manual_switch", "sylve_network_object"} \cup Actions
  BY DEF Schema, Actions
<1> QED
  BY <1>6, <1>7, <1>8, <1>9, <1>10, <1>11, <1>12

\* The attributes called sound are coherent.
LEMMA SoundIsCoherent == ASSUME NEW a \in Sound PROVE Coherent(a)
<1> DEFINE traits == Schema[a[1]][a[2]]
<1>1. \/ WellFormed(traits) /\ ~HiddenFromImport(traits)
      \/ /\ WellFormed(traits) /\ "sticky" \notin traits
         /\ a \in DocumentedWriteOnly \/ a[1] \in Actions
  BY SoundKinds, KindsAreWellFormed, HiddenKindsAreWellFormed
<1> QED
  BY <1>1 DEF Coherent, WellFormed, HiddenFromImport

------------------------------------------------------------------------------
(* The invariant.                                                          *)

\* What the proofs use of the schema from here on.
LEMMA Traits ==
  ASSUME AllCoherent, subject \in Subjects
  PROVE  /\ Is("sent")
         /\ Is("replace") \/ Is("pushed")
         /\ Is("read") => Is("required") \/ Is("sticky")
         /\ Is("addressed") => Is("required")
         /\ Is("replace") /\ ~Is("read") /\ ~Is("addressed") =>
              /\ subject \in DocumentedWriteOnly \/ subject[1] \in Actions
              /\ ~Is("sticky")
BY DEF AllCoherent, Coherent, Is

LEMMA Words ==
  /\ Null \notin Values /\ Empty \notin Values /\ Unknown \notin Values
  /\ Null # Empty /\ Null # Unknown /\ Empty # Unknown
BY ValuesAssumption DEF Null, Empty, Unknown

LEMMA InitIInv == Init => IInv
<1> SUFFICES ASSUME Init PROVE IInv
  OBVIOUS
<1> USE BoundsAssumption, Words DEF Init, Configurable, Reals
<1>1. config \in Configurable /\ config \in Values \cup {Null} /\ real \in Reals \cup {Null}
  OBVIOUS
<1>2. TypeOK
  <2>1. managed \in BOOLEAN /\ tainted \in BOOLEAN /\ touched \in BOOLEAN /\ drifted \in BOOLEAN
    OBVIOUS
  <2>2. edits \in 0 .. MaxEdits /\ drifts \in 0 .. MaxDrifts
    OBVIOUS
  <2> QED
    BY <1>1, <2>1, <2>2 DEF TypeOK
<1>3. Unmanaged /\ Recorded /\ Imported /\ Resting /\ Honoured
  BY DEF Unmanaged, Recorded, Imported, Resting, Honoured, Settled
<1> QED
  BY <1>1, <1>2, <1>3 DEF IInv

\* What Create leaves: what was planned, or what Sylve fills in.
LEMMA CreatedAsPlanned ==
  ASSUME TypeOK, config \in Configurable, AllCoherent, Created(Planned),
         UNCHANGED <<subject, config>>, managed'
  PROVE  /\ ~tainted' /\ real' \in Reals /\ state' \in Values \cup {Null, Empty}
         /\ config # Null => real' = config
         /\ state' \in Values => real' = state'
         /\ Planned' = Seen'
<1> USE Words DEF Created, Reals
<1>t. /\ Is("sent")
      /\ Is("read") => Is("required") \/ Is("sticky")
      /\ config \in Values \cup {Null} /\ (Is("required") => config # Null)
  BY Traits DEF TypeOK, Configurable
<1>s. Is("sticky")' = Is("sticky") /\ Is("read")' = Is("read")
  BY DEF Is
<1>1. CASE config # Null
  <2>1. Planned = config /\ Planned' = config /\ config \in Values
    BY <1>1, <1>t DEF Planned
  <2>2. real' = config /\ state' = config
    BY <1>t, <2>1
  <2>3. ~tainted'
    BY <2>1, <2>2
  <2>4. Seen' = config
    BY <1>t, <1>s, <2>1, <2>2, <1>1 DEF Seen
  <2> QED
    BY <1>1, <2>1, <2>2, <2>3, <2>4
<1>2. CASE config = Null /\ Is("sticky")
  <2>1. state' = real' /\ real' \in Reals
    BY <1>2
  <2>2. Planned \in Values => state' = Planned
    BY <1>t, <1>2
  <2>3. ~tainted'
    BY <2>2
  <2> QED
    BY <1>2, <1>s, <2>1, <2>3 DEF Seen, Planned
<1>3. CASE config = Null /\ ~Is("sticky")
  <2>1. Planned = Null /\ Planned' = Null
    BY <1>3, <1>s DEF Planned
  <2>2. ~Is("read") /\ state' = Null /\ real' = Empty
    BY <1>t, <1>3, <2>1
  <2> QED
    BY <1>3, <1>s, <2>1, <2>2 DEF Seen
<1> QED
  BY <1>1, <1>2, <1>3

LEMMA SameTraits ==
  ASSUME subject' = subject
  PROVE  /\ \A trait : Is(trait)' <=> Is(trait)
         /\ Configurable' = Configurable
BY DEF Is, Configurable

\* Create, as a first apply or as a replacement.
LEMMA CreateStep ==
  ASSUME AllCoherent, IInv, Apply, ApplyCreate \/ ApplyReplace PROVE IInv'
<1> USE Words
<1>1. /\ Created(Planned) /\ managed' = TRUE /\ outcome' \in {"created", "replaced"}
      /\ UNCHANGED <<subject, config, edits, drifts>> /\ touched' = FALSE
      /\ drifted' = (drifted /\ real' = real)
  BY DEF Apply, ApplyCreate, ApplyReplace, IInv, TypeOK
<1>2. TypeOK /\ config \in Configurable
  BY DEF IInv
<1>3. /\ ~tainted' /\ real' \in Reals /\ state' \in Values \cup {Null, Empty}
      /\ config # Null => real' = config
      /\ state' \in Values => real' = state'
      /\ Planned' = Seen'
  BY <1>1, <1>2, CreatedAsPlanned
<1>4. tainted' \in BOOLEAN
  BY <1>1 DEF Created
<1>5. TypeOK'
  BY <1>1, <1>2, <1>3, <1>4 DEF TypeOK, Reals
<1>6. config' \in Configurable' /\ real' # Null
  BY <1>1, <1>2, <1>3, SameTraits DEF Reals
<1>7. Unmanaged' /\ Recorded' /\ Imported' /\ Resting' /\ Honoured'
  BY <1>1, <1>3 DEF Unmanaged, Recorded, Imported, Resting, Honoured
<1> QED
  BY <1>3, <1>5, <1>6, <1>7 DEF IInv

\* An apply that finds nothing to do.
LEMMA NothingStep == ASSUME AllCoherent, IInv, Apply, ApplyNothing PROVE IInv'
<1> USE Words
<1>1. /\ managed /\ ~tainted /\ Planned = Seen /\ state' = Seen /\ outcome' = "noop"
      /\ UNCHANGED <<managed, tainted, real, subject, config, edits, drifts>> /\ touched' = FALSE
      /\ drifted' = drifted
  BY DEF Apply, ApplyNothing, IInv, TypeOK
<1>2. /\ TypeOK /\ config \in Configurable /\ real # Null /\ Recorded
  BY <1>1 DEF IInv
<1>3. \A trait : Is(trait)' <=> Is(trait)
  BY <1>1, SameTraits
<1>4. Seen' = Seen /\ Planned' = Planned
  <2>1. Seen' = Seen
    BY <1>1, <1>3 DEF Seen
  <2> QED
    BY <1>1, <1>3, <2>1 DEF Planned
<1>5. state' \in Values \cup {Null, Empty}
  BY <1>1, <1>2 DEF Seen, TypeOK, Reals
<1>6. TypeOK'
  BY <1>1, <1>2, <1>5 DEF TypeOK, Reals
<1>7. Recorded'
  BY <1>1, <1>2, <1>3 DEF Recorded, Seen
<1>8. Honoured'
  <2> SUFFICES ASSUME config # Null, drifted => Is("read") PROVE real = config
    BY <1>1, <1>3 DEF Honoured
  <2>1. Seen = config /\ config \in Values
    BY <1>1, <1>2 DEF Planned, TypeOK
  <2> QED
    BY <1>1, <1>2, <2>1 DEF Seen, Recorded
<1>9. Unmanaged' /\ Imported' /\ Resting'
  BY <1>1, <1>4 DEF Unmanaged, Imported, Resting
<1>10. config' \in Configurable' /\ real' # Null
  BY <1>1, <1>2, SameTraits
<1> QED
  BY <1>1, <1>6, <1>7, <1>8, <1>9, <1>10 DEF IInv

\* An update in place.
LEMMA UpdateStep == ASSUME AllCoherent, IInv, Apply, ApplyUpdate PROVE IInv'
<1> USE Words
<1>1. /\ managed /\ ~tainted /\ Planned # Seen /\ ~Is("replace") /\ outcome' = "updated"
      /\ real' = (IF Is("pushed") /\ Planned # Null THEN Planned ELSE real)
      /\ state' = Planned
      /\ UNCHANGED <<managed, tainted, subject, config, edits, drifts>> /\ touched' = FALSE
      /\ drifted' = (drifted /\ real' = real)
  BY DEF Apply, ApplyUpdate, Updated
<1>2. TypeOK /\ config \in Configurable /\ real # Null /\ Recorded
  BY <1>1 DEF IInv
<1>3. /\ \A trait : Is(trait)' <=> Is(trait)
      /\ Is("pushed") /\ (Is("read") => Is("required") \/ Is("sticky"))
  BY <1>1, <1>2, SameTraits, Traits DEF TypeOK
\* Otherwise the plan would be what is seen.
<1>4. config # Null \/ ~Is("sticky")
  BY <1>1 DEF Planned
<1>5. Planned = config /\ Planned' = config
  BY <1>1, <1>3, <1>4 DEF Planned
<1>6. config \in Values \/ (config = Null /\ ~Is("read"))
  BY <1>2, <1>3, <1>4 DEF TypeOK, Configurable
<1>7. Seen' = config
  BY <1>1, <1>3, <1>5, <1>6 DEF Seen
<1>8. TypeOK' /\ real' # Null
  BY <1>1, <1>2, <1>5, <1>6 DEF TypeOK, Reals
<1>9. Recorded' /\ Honoured'
  BY <1>1, <1>3, <1>5 DEF Recorded, Honoured
<1>10. Unmanaged' /\ Imported' /\ Resting'
  BY <1>1, <1>5, <1>7 DEF Unmanaged, Imported, Resting
<1>11. config' \in Configurable'
  BY <1>1, <1>2, SameTraits
<1> QED
  BY <1>1, <1>8, <1>9, <1>10, <1>11 DEF IInv

LEMMA ImportStep == ASSUME IInv, Import PROVE IInv'
<1> USE Words
<1>1. /\ ~managed /\ real # Null /\ managed' = TRUE /\ outcome' = "imported"
      /\ state' = IF Is("read") \/ Is("addressed") THEN real ELSE Null
      /\ UNCHANGED <<subject, config, tainted, real, touched, drifted, edits, drifts>>
  BY DEF Import
<1>2. TypeOK /\ config \in Configurable /\ ~tainted
  BY DEF IInv
<1>3. subject[1] \notin Actions /\ config \in {real, Null}
  BY <1>1 DEF IInv, Unmanaged
<1>4. \A trait : Is(trait)' <=> Is(trait)
  BY <1>1, SameTraits
<1>5. TypeOK' /\ config' \in Configurable'
  BY <1>1, <1>2, SameTraits DEF TypeOK, Reals
<1>6. Unmanaged' /\ Recorded' /\ Imported'
  BY <1>1, <1>3, <1>4 DEF Unmanaged, Recorded, Imported
<1>7. ~Settled'
  BY <1>1 DEF Settled
<1> QED
  BY <1>1, <1>2, <1>5, <1>6, <1>7 DEF IInv, Resting, Honoured

\* A change of the configuration, or of the object.
LEMMA ChangeStep == ASSUME IInv, EditConfig \/ Drift PROVE IInv'
<1> USE Words
<1>1. /\ managed /\ managed' = TRUE /\ touched' = TRUE
      /\ UNCHANGED <<subject, tainted, state, outcome>>
      /\ \/ drifted' = TRUE /\ real' \in Reals /\ config' = config
         \/ drifted' = drifted /\ real' = real /\ config' \in Configurable
      /\ edits' \in 0 .. MaxEdits /\ drifts' \in 0 .. MaxDrifts
  BY BoundsAssumption DEF EditConfig, Drift, world, IInv, TypeOK
<1>2. TypeOK /\ config \in Configurable /\ real # Null /\ Recorded /\ ~tainted
  BY <1>1 DEF IInv
<1>3. TypeOK' /\ config' \in Configurable' /\ real' # Null
  BY <1>1, <1>2, SameTraits DEF TypeOK, Reals, Configurable
<1>4. Recorded'
  BY <1>1, <1>2, SameTraits DEF Recorded
<1> QED
  BY <1>1, <1>2, <1>3, <1>4 DEF IInv, Unmanaged, Imported, Resting, Honoured, Settled

LEMMA Inductive == AllCoherent /\ Spec => []IInv
<1> SUFFICES ASSUME AllCoherent PROVE Spec => []IInv
  OBVIOUS
<1>1. IInv /\ [Next]_vars => IInv'
  <2> SUFFICES ASSUME IInv, [Next]_vars PROVE IInv'
    OBVIOUS
  <2>1. CASE Apply
    BY <2>1, CreateStep, NothingStep, UpdateStep DEF Apply
  <2>2. CASE UNCHANGED vars
    BY <2>2 DEF vars, world, IInv, TypeOK, Configurable, Reals, Is, Unmanaged, Recorded,
       Imported, Resting, Honoured, Settled, Planned, Seen
  <2> QED
    BY <2>1, <2>2, ImportStep, ChangeStep DEF Next
<1> QED
  BY <1>1, InitIInv, PTL DEF Spec

------------------------------------------------------------------------------
(* The results.                                                            *)

LEMMA SoundInvariant == Subjects \subseteq Sound /\ Spec => []IInv
BY SoundIsCoherent, Inductive DEF AllCoherent

\* For every sound attribute: after an apply that reported success, Sylve has the
\* value of the configuration, unless somebody else changed what is never read.
THEOREM ConfigurationHonoured == Subjects \subseteq Sound /\ Spec => []Honoured
<1>1. IInv => Honoured
  BY DEF IInv
<1> QED
  BY <1>1, SoundInvariant, PTL

\* For every sound attribute: Create results in what was planned, so that
\* Terraform never taints the resource for it.
THEOREM CreatesAsPlanned == Subjects \subseteq Sound /\ Spec => []AppliedAsPlanned
<1>1. IInv => AppliedAsPlanned
  BY DEF IInv, AppliedAsPlanned
<1> QED
  BY <1>1, SoundInvariant, PTL

\* For every sound attribute: an apply that follows a successful one, with nothing
\* changed in between, does nothing.
THEOREM PlansRest == Subjects \subseteq Sound /\ Spec => PlansComeToRest
<1>1. ASSUME IInv, Settled, Apply PROVE outcome' = "noop"
  <2>1. managed /\ ~tainted /\ Planned = Seen
    BY <1>1 DEF IInv, Resting
  <2> QED
    BY <1>1, <2>1 DEF Apply, ApplyCreate, ApplyNothing, ApplyReplace, ApplyUpdate
<1>2. IInv /\ [Next]_vars => [Settled /\ Apply => outcome' = "noop"]_vars
  BY <1>1
<1> QED
  BY <1>2, SoundInvariant, PTL DEF Spec, PlansComeToRest

\* For every sound attribute: what is imported is not replaced by a configuration
\* that says what the object is and omits what is documented as write-only.
THEOREM ImportsAreKept == Subjects \subseteq Sound /\ Spec => ImportKeepsWhenOmitted
<1> SUFFICES ASSUME Subjects \subseteq Sound PROVE Spec => ImportKeepsWhenOmitted
  OBVIOUS
<1>0. AllCoherent
  BY SoundIsCoherent DEF AllCoherent
<1>1. ASSUME IInv, outcome = "imported", ~touched,
             subject \in DocumentedWriteOnly => config = Null, Apply
      PROVE  outcome' # "replaced"
  <2>1. /\ managed /\ ~tainted /\ real # Null /\ TypeOK /\ config \in Configurable
        /\ subject[1] \notin Actions /\ config \in {real, Null}
        /\ state = IF Is("read") \/ Is("addressed") THEN real ELSE Null
    BY <1>1 DEF IInv, Unmanaged, Imported
  <2>2. SUFFICES ASSUME Is("replace") PROVE Planned = Seen
    BY <1>1, <2>1 DEF Apply, ApplyCreate, ApplyNothing, ApplyReplace, ApplyUpdate
  <2>3. CASE Is("read") \/ Is("addressed")
    <3>1. Seen = real
      BY <2>1, <2>3 DEF Seen
    <3>2. config = Null => Is("sticky")
      BY <1>0, <2>1, <2>3, Traits, Words DEF TypeOK, Configurable
    <3> QED
      BY <2>1, <3>1, <3>2 DEF Planned
  <2>4. CASE ~Is("read") /\ ~Is("addressed")
    <3>1. config = Null /\ ~Is("sticky")
      BY <1>0, <1>1, <2>1, <2>2, <2>4, Traits DEF TypeOK
    <3> QED
      BY <2>1, <2>4, <3>1 DEF Planned, Seen
  <2> QED
    BY <2>3, <2>4
<1>2. IInv /\ [Next]_vars =>
        [(outcome = "imported" /\ ~touched
            /\ (subject \in DocumentedWriteOnly => config = Null) /\ Apply)
           => outcome' # "replaced"]_vars
  BY <1>1
<1> QED
  BY <1>2, SoundInvariant, PTL DEF Spec, ImportKeepsWhenOmitted
==============================================================================
