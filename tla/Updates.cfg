CONSTANTS
  Kinds = {"sylve_jail", "sylve_vm_storage", "sylve_vm_network", "sylve_network_object", "sylve_zfs_filesystem", "sylve_zfs_volume", "sylve_vm"}
  Values = {"a", "b"}
  MaxEdits = 2
  MaxFaults = 1
  MaxMeddling = 2
SPECIFICATION FairSpec
INVARIANT SuccessMeansLive
PROPERTY OnlyDifferencesPushed
PROPERTY EnabledKept
PROPERTY EventuallySettled
