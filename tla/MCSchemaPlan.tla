---------------------------- MODULE MCSchemaPlan ----------------------------
(***************************************************************************)
(* Instances of SchemaPlan: which attributes a run looks at.               *)
(***************************************************************************)
EXTENDS SchemaPlan

\* Attributes without RequiresReplace that Update does not push.
Unpushed == {<<"sylve_vm", "storage_size">>, <<"sylve_vm", "mac_id">>}
UnpushedHostname == {<<"sylve_jail", "hostname">>}

\* The rollbacks' arguments other than the trigger.
RollbackArguments == {a \in AllAttributes : a[1] \in Actions /\ a[2] # "trigger"}

\* Optional attributes that are not Computed but are read back.
ReadBackUncomputed == {<<"sylve_vm_snapshot", "description">>,
                       <<"sylve_jail_snapshot", "description">>}

Unsent == {<<"sylve_vm_storage", "enable">>}

\* Everything that is none of these.
Sound == AllAttributes \ (Unpushed \cup UnpushedHostname \cup RollbackArguments
                            \cup ReadBackUncomputed \cup Unsent)
=============================================================================
