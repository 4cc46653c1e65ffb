--------------------------- MODULE MCProvisioning ---------------------------
(***************************************************************************)
(* Instances of Provisioning: resources, their types and their keys, and   *)
(* the configurations that the user goes back and forth between.           *)
(***************************************************************************)
EXTENDS Provisioning

\* All of some resources, or all but one.
Around(full) == {full} \cup {full \ {r} : r \in full}

\* Two NICs on different switches next to a volume that is flashed; and a
\* resource of each other way to learn what was made; a download from a path that
\* Sylve cleans; and a storage.
MixedTypes == [nicA |-> "sylve_vm_network", nicB |-> "sylve_vm_network",
               vol |-> "sylve_zfs_volume",
               vm |-> "sylve_vm", obj |-> "sylve_network_object", iso |-> "sylve_download",
               img |-> "sylve_download", disk |-> "sylve_vm_storage"]
MixedKeys == [nicA |-> "lan", nicB |-> "wan", vol |-> "tank/disk",
              vm |-> "100", obj |-> "mac1", iso |-> "https",
              img |-> "/isos//img", disk |-> "root"]
MixedConfigurations ==
  {{"nicA", "nicB", "vol"}, {"nicB", "vol"}, {"vol"}}
    \cup Around({"vm", "obj"}) \cup Around({"iso", "img"}) \cup Around({"disk"})
\* Sylve cleans paths.
MixedCleans == [path \in {"/isos//img"} |-> "/isos/img"]

\* Two identical NICs.
TwinTypes == [nicA |-> "sylve_vm_network", nicB |-> "sylve_vm_network"]
TwinKeys == [nicA |-> "lan", nicB |-> "lan"]
TwinCleans == <<>>
TwinConfigurations == {{"nicA", "nicB"}}
=============================================================================
