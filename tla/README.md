# A specification of terraform-provider-sylve

TLA+ models of the Terraform provider for Sylve (a manager of bhyve virtual
machines and FreeBSD jails), the TLC runs that check them, and proofs about the
parts that matter most. All paths below are relative to `src/`.

## The system

Terraform loads the provider as a plugin and calls Create, Read, Update, Delete
and ImportState of its resources, those of independent resources concurrently
(ten at a time by default). Every resource holds the same `sylveclient.Client`,
which turns each operation into a few HTTP calls to one Sylve node. The provider
keeps no state of its own between two runs of Terraform but what it puts into
Terraform's state file; Sylve has the truth.

| Component | State | Operations | What makes it correct |
|---|---|---|---|
| HTTP client, `internal/sylveclient/client.go` | one bearer token, one mutex | `do` (check the token, log in, send, log in again on a 401 and send again), `Login` | a call acts at most once; its result says what has happened; logins exclude each other; the token never goes back; every call returns |
| `sylve_vm`, `internal/provider/vm_resource.go` | the recorded attributes; the VM at Sylve | Create, Read, Delete; Update: nine groups of attributes pushed one by one, and VNC and cloud-init inside one stop / wait / edit / start / wait | one restart at most; no edit refused by its own doing; an honest state after a failure half way; convergence |
| `sylve_vm_power`, `vm_power_resource.go` | recorded power state; the live domain status | start or stop, then wait up to two minutes; Read of the live status | drift is seen and corrected; a success means the status was reached |
| `sylve_vm_storage`, `vm_storage_resource.go` | the recorded entry; the disk at Sylve | attach, update, detach, each refused unless the VM is Shutoff | the first boot finds its disk; a replacement does not end half way; a stopped VM gets its disk |
| Lifecycle queue and domain status (Sylve), `vm.go:445-525` | queued actions, the status, two generations of the API | `DoVMAction` only queues, `GetDomainStatus` falls back from the new path to the old, `WaitForDomainStatus` polls | a wait is not satisfied by the wrong action; a VM is never taken for deleted because its host is old |
| Eleven resources that have an object at Sylve (VM, jail, storage, NIC, snapshots, download, dataset, volume, switch, network object) | the recorded id | Create: POST, then look the object up by number, by name or by best match; download: wait; volume: flash | the id recorded is one's own object's; nothing created is lost; nothing foreign is deleted; repeated applies settle |
| Updates of seven of them | recorded attributes, live attributes | one request per attribute (jail), whole records, `properties` that are never read back, VNC with an echoed flag | success means in force; only what differs is pushed; failures half way are repaired |
| Snapshots and rollbacks, `*_snapshot*_resource.go` | recorded snapshots, `trigger`; the guest's data | take, remove; Create of a rollback rolls back; its Read, Update, Delete do nothing at Sylve | a trigger fires once; only newer snapshots go; the two kinds of resource come to rest |
| Schemas and plan modifiers of fourteen resources | per attribute: configuration, state, Sylve's value | plan, Create, Read, Update, ImportState | a change has an effect, plans come to rest, an import does not destroy |
| Provider configuration, `provider.go` | the settings | logs in once, hands the client to the resources | a client that cannot log in reaches no resource |
| Guest agent data source | none | one read | (no sequence of steps) |

The behaviours that are hard here: calls of concurrent resources interleave
between a POST and the lookup that follows; any call may fail before or after
it took effect, and nothing is journalled; actions are queued and carried out
later than the call that asked for them; a host may be of an older generation or
upgraded at any moment; there is an operator at Sylve's UI; and a resource that
failed half way is retried by somebody who applies again. `PROJECT.json` lists
each such place under `hazards`, with its line.

## Modules

| Module | Models | Extends or instantiates |
|---|---|---|
| `ApiCall` | abstract: what a caller of `do` may rely on | |
| `ApiClient` | `client.go` in full | `ApiCall` (refinement) |
| `ApiClientProofs` | proofs about `ApiClient` | `ApiClient`, `TLAPS` |
| `VmLifecycle` | Update of `sylve_vm` and `sylve_vm_power`, composed over Sylve's queue | |
| `VmLifecycleProofs` | proofs about `VmLifecycle` | `VmLifecycle`, `TLAPS` |
| `VmDisks` | `sylve_vm_storage` composed with both | `VmLifecycle` |
| `VmDisksProofs` | proofs about `VmDisks` | `VmDisks`, `VmLifecycleProofs` |
| `DomainStatus` | the status query, the queued action and the wait, call by call, against either generation of hosts | |
| `DomainStatusProofs` | proofs about `DomainStatus` | `DomainStatus`, `TLAPS` |
| `Provisioning`, `MCProvisioning` | Create, Read, Delete of eleven resource types | |
| `ProvisioningProofs` | proofs about `Provisioning` | `Provisioning`, `TLAPS` |
| `Updates` | Update of seven types, request by request | |
| `UpdatesProofs` | proofs about `Updates` | `Updates`, `TLAPS` |
| `OneShot` | abstract: what a rollback resource promises | |
| `Snapshots` | snapshot and rollback resources of one guest | `OneShot` (refinement) |
| `SnapshotsProofs` | proofs about `Snapshots` | `Snapshots`, `TLAPS` |
| `SchemaPlan`, `MCSchemaPlan` | attributes through plan, apply, refresh, import | |
| `SchemaPlanProofs` | proofs about `SchemaPlan` | `MCSchemaPlan`, `TLAPS` |

The layers meet in the results of a call. `ApiCall` promises that a call
acts at most once, that a `loginError` has not and never will, that a
`netError` may or may not, and that a success with an empty body decodes
nothing. `VmFault`, `DiskFault`, `RequestFails`, `PostFails`, `LookUpFails`,
`DeleteFails`, `CreateFails`, `RollbackFails`, `BlankRefresh`, `BeginApplyBlank`,
`FetchBlank` and the `Fault` branches of `DomainStatus` are those outcomes as one
resource sees them. A request that was given up on may be carried out later than
its error is seen (`client.go:165`): `PostArrives` in `Provisioning` and
`RequestArrives` in `Updates` are that. In `VmLifecycle`, `VmDisks`,
`DomainStatus` and `Snapshots` a failed call has its effect by then or never.

**ApiClient.** One call is one invocation of `do`; `pc` is where it stands:
`check` (the needLogin test), `lock` (waiting for the mutex in `Login`), `login`
(inside its round trip, mutex held), `read` (about to take the token and send),
`sent`. Critical sections that only read the token are one step, which needs the
mutex free. `flight` is what the network holds for the call; the server is four
actions: grant or deny a login, reject a stale token, carry out, decline. Bodies
are `json`, `garbled` (cut off, or the web UI's page) or `empty`. One request of
one call is in flight at a time, because `do` waits.

**VmLifecycle.** `vmPc` and `powerPc` are the places of the two Updates,
`todo` what is not pushed yet; `live`, `domain`, `queue` are Sylve. `BeginApply`
is refresh and plan of both resources, then the Updates run: `sylve_vm_power`
after `sylve_vm` if its `rid` refers to it (`refers`), beside it if the `rid` is
a literal. `VmFault` is every `return` after a diagnostic, with and without the
effect of the call that failed. An apply that fails keeps the prior recorded
state; a later refresh replaces it.

**VmDisks.** The same actions, next to one disk: `diskPc` is where its Create,
Update or Delete stands, and `domain` decides whether Sylve refuses. Terraform's
order is in the guards: a disk that goes is detached before its VM is updated,
one that comes is attached after; `sylve_vm_power` waits for the disk where
there is a `depends_on` (`ordered`, chosen in `DiskInit`). `*Skip*` actions are
what Terraform does to the dependents of a resource that failed.

**DomainStatus.** One `sylve_vm_power` and one host, a request at a time: `act`
(DoVMAction), `new` and `old` (the two paths of GetDomainStatus), `answered`,
`sleep` (between two polls). A host answers a route it does not have with
`UnknownRoute`: `"page"` is what the comment at `vm.go:485-489` describes, a
status below 300 and the web UI's HTML; `"missing"` is a 404. VmLifecycle's wait
is this one with the polls left out.

**Provisioning.** The types differ in three things, which are their descriptors:
how Create learns what it made, whether Sylve refuses duplicates, and what is
left to do after the lookup. `objects` remembers who made each object, for the
properties only. A resource recorded by a failed Create is tainted and replaced.
`Cleans` says which keys Sylve stores in another form, and which: the source of
a `path` download, so that the lookup after its POST misses it
(`downloads.go:97-103`). `late` counts POSTs that were given up on and that Sylve
has yet to act on. That Sylve refuses a second object of the same name is what
the repository says of VMs, jails, downloads and network objects, and what ZFS
does for datasets; of the storages of one VM and of switches it is assumed.

**Updates.** A table says which attributes each request of an Update carries,
whether it is made only if one of them differs, whether Read sets them, and what
becomes of an attribute that is left out. `others` remembers what an operator,
or a request given up on and carried out late, has changed since it was read, for
the properties only. `Fetch` is the GET in `SetVMVNC`, `FetchBlank` the same GET
answered by a success without a body, whose VM has the zero values.
`BeginApplyBlank` is a Read answered that way, for the two types whose Read decodes
the object itself; a type that Read looks up in a list is `Provisioning`'s
`BlankRefresh`. A plan whose refresh was empty replaces the object if an
attribute that requires it is configured; that replacement is not modelled, but
the Update that follows if none is.

**Snapshots.** Resources `Snapshots`, one of them the `Target` that the
rollback's `snapshot_id` refers to; `points` is what Sylve has, `data` and
`written` the guest's data. VM and jail snapshots have the same code but for
names. `OneShot` knows only the trigger, the record and the data.

**SchemaPlan.** A table gives, for every configurable attribute, what its schema
and the four methods do with it; the actions are the framework's plan and apply
over that table. A behaviour follows one attribute, chosen in `Init`.

## Runs

| Run | Module, bounds | Question |
|---|---|---|
| `api_client` | `ApiClient`: two calls (one decodes), four tokens | do concurrent calls, expiring tokens and lost answers keep the promises of `ApiCall`, and does every call return? |
| `vm_lifecycle` | `VmLifecycle`: one online and both offline groups, two edits, two faults, one interference | does Update restart once, stay honest, and converge? |
| `vm_disks` | `VmDisks`: VNC, one disk of two sources and two settings, with and without `depends_on`, with a reference and with a literal rid; one edit, one fault, one interference | when is a disk refused, and does it arrive? |
| `domain_status` | `DomainStatus`: two faults, two interferences, two queued actions, a host upgraded at any moment | does a success mean anything, and is a VM ever taken for deleted that is not? |
| `provisioning` | `MCProvisioning`: two NICs on different switches with a flashed volume, one NIC or both or none; a VM and a network object, two downloads one of whose paths Sylve cleans, and a storage, each of these all or all but one; one edit, two faults, one interference | do lookups find the right object under interleaving, and what is lost? |
| `updates` | `Updates`: seven types, two values and "left out", two edits, one fault (a failure with its effect at once, late or never, or an empty answer), two interferences | is what an Update reports in force, and what it does not report left alone? |
| `snapshots` | `Snapshots`: two snapshots, two edits, one fault, one interference, one write of the guest | does a trigger fire once, and do snapshots and rollback come to rest? |
| `schema_sound` | `MCSchemaPlan`: 88 of the 98 attributes of 14 resources, two values, two edits, two drifts | do changes have an effect, do plans come to rest, do imports keep? |
| `vm_left_off` | `VmLifecycle`, no `sylve_vm_power` | finding 1 |
| `domain_deleted` | `DomainStatus`, no faults | finding 2 |
| `vm_disk_order` | `VmDisks`, no faults | finding 3 |
| `provision_twins` | two identical NICs, nothing else | finding 4 |

*Why the bounds are enough.* Two calls exhibit every race over one token and one
mutex: a third repeats what the second does (and the proofs are for any
number). Four tokens allow for the login in Configure, a first login and a
re-login each, and then denial. In VmLifecycle one online group stands for the
nine that are pushed the same way, both offline ones are there; two faults allow
a failure and a failure of the retry, and two edits a change of mind after a half
done apply. In VmDisks one edit may change VM, power state and disk together,
from any of the initial combinations; one fault or one interference is enough to
disturb each step of the replacement. In DomainStatus both requests of a query
may fail, and a VM may be started and deleted within one wait. In Provisioning
two resources of one type give the races over lookups, and one of another type
something unrelated to interleave with; the others are there one or two at a
time for what their types do differently, and two faults let a POST given up on
meet a later Create of the same resource, and that fail. In Updates two edits let a
change be taken back, and two interferences let an operator touch both what the
plan changes and what it does not. In Snapshots one snapshot is the target and
one is older or newer than it, in every order. `MaxEdits`, `MaxFaults`,
`MaxMeddling`, `MaxDrifts`, `MaxTokens`, `MaxQueue` and `MaxWrites` are the only
bounds in guards; ids need no bound, as edits, faults and interferences bound the steps that
create objects.

*Fairness.* Goroutines and Terraform's workers run while they can (weak fairness
on each step); a free mutex is got by one that waits; the transport answers or
fails, which is an assumption on the server and TCP, as the client has no
timeout; Sylve works its queue off and its downloads end; waits have
deadlines; the user applies again. Nothing forces a fault, an edit, an upgrade,
an interference or a late effect, and nothing forces the server to forget a token.

*The properties.* `AtMostOnce`, `LoginErrorMeansUntouched`, `OkMeansExecuted`
relate a result to what the server did; `ImplementsApiCall` is the refinement.
`TokenNeverRegresses` and `RetryIsFresher` are about what other calls do between two
of one's own steps. `NoSelfCollision` and `AtMostOneRestart` are the two
halves of the fix described in `vm_resource.go:611-628`. `FailureLeavesPrefix`,
`RecordedIsLive` and `EventuallyConverges` are about failures in the middle.
`FirstBootInOrder` and `NoHalfReplacement` say when the reference and the
`depends_on` of `README.md:266-272` protect a disk, and `StoppedVmArrives` which configurations
arrive without it. `OkMeansReached`, `GoneMeansDeleted` and
`EitherGenerationServed` are what the fallback between two paths must not spoil.
`NothingLost`, `RecordsOwnNewest`, `NoAlias`, `OkMeansThere`,
`NeverDeletesForeign` and `EventuallySettled` relate Terraform's state to Sylve's
objects; `NothingLost` leaves out the downloads that their own lookup misses
(`Missed`), and finding 5 is about them. `SuccessMeansLive`,
`OnlyDifferencesPushed` and `EnabledKept` relate an Update to what an operator does
meanwhile, and to answers that came back empty: `EnabledKept` allows VNC to go
off after an empty re-read, which is finding 6. `FiresOncePerTrigger` counts
rollbacks, `OnlyNewerDestroyed` looks at what they take with them,
`ImplementsOneShot` is the refinement. Several properties hold only while no call was lost after its
POST (`losses = 0`) or nobody interfered (`Undisturbed`): that is what the code
can promise, and the liveness properties say what remains true without.

Each property of a passing run has a mutation of the model (an operator whose
comment begins "Mutation of") under which TLC finds it violated.

The type invariants of `Provisioning`, `SchemaPlan`, `VmDisks` and `Snapshots` are
in no cfg, as they are proved; so is
`LoginExclusive`, and so are the properties the next section names
without a run.

## What does not hold

Four runs check what a comment or description says and the code does not:

1. `vm_left_off`: an Update that fails between its stop and its start leaves a
   running VM off, and if the edit was done the next apply plans nothing.
2. `domain_deleted`: a deleted VM is never noticed by `sylve_vm_power`'s Read:
   the 404 of the new path is replaced by the decode error of the old one. It
   would be noticed on hosts that answer unknown routes with a 404 (`UnknownRoute =
   "missing"`), but there a VM on an old host that is upgraded between the two
   requests would look deleted.
3. `vm_disk_order`: with the `depends_on` of the README, a configuration that
   stops the VM and changes its disk is refused for ever.
4. `provision_twins`: two identical NICs of one apply record one id.

Findings without a run of their own, each an operator or property that can be put
into a cfg:

5. A download from a path that Sylve cleans is posted and not found. Create fails,
   the job runs on, no entry leads to it, and every further apply is refused
   because of it; no call has failed (`ApplyBlocks`; "img" of `MCProvisioning`).
6. The re-read in `SetVMVNC` may succeed with an empty body and be taken for a VM
   without VNC, which the PUT then makes of it; nobody else has touched it
   (`EnabledEchoed`, which `EnabledKept` weakens by this case).
7. A VNC or cloud-init change starts a VM that was stopped and is configured
   as stopped; the apply reports success, a further one stops it again
   (`SuccessKeepsPower`).
8. Any power word but `running` is applied as a stop (`InvalidPowerRejected`, with
   `"paused"` in `PowerWords`).
9. `storage_size` and `mac_id` of `sylve_vm` lack RequiresReplace; changes are
   recorded and do nothing (`Honoured` for `Unpushed`).
10. `rid`/`ctid` and `snapshot_id` of the rollbacks can change without a rollback
    (`UpdateUnreachable` for `RollbackArguments`).
11. `name` and `parent` of `sylve_zfs_filesystem` and `sylve_zfs_volume` cannot be
    reconciled after an import (`ImportKeeps`).
12. A key removed from a dataset's `properties` stays in force at Sylve
    (`RemovalApplied`).

Behaviours that properties excuse, because nothing in the code or its
documentation promises otherwise:

- With a literal `rid`, `sylve_vm_power` may start the VM between the stop and
  the edits of each apply, so that a configuration that changes VNC or cloud-init
  and wants the VM running may be refused again and again. `NoSelfCollision` and
  `EventuallyConverges` are about `rid`s that refer to the VM.
- With a literal `rid` and the `depends_on`, the start of `sylve_vm_power` and the stop and
  start of the VM's own Update can leave a start in the queue after both have
  returned; it boots the VM in the middle of the next apply, whose disk is then
  refused. It takes two changes of the configuration, one more than the bound of
  `vm_disks`; `FirstBootInOrder` and `NoHalfReplacement` are about `rid`s that
  refer to the VM, and proved for any number of changes.
- A disk that is replaced while its VM changes too, on a VM that is to be
  stopped, with a reference: the refused detach fails the VM's Update, and that the stop
  (`OneAtATime` in `StoppedVmArrives`).
- A replaced disk can be detached, the VM restarted by its own Update, and the
  attach refused: the VM runs without a disk (`stops > 0` in `NoHalfReplacement`).
- A change of `properties` whose answer was lost and that is then taken back in
  the configuration stays in force (`Updates!EventuallySettled`).

`schema_sound` leaves the attributes of 9 and 10 out, and four more that its
properties fail for: `sylve_jail.hostname` (not pushed by Update, so that the
next plan has the same diff), `description` of both snapshots when it is not
configured (read back as the empty string, which replaces the snapshot), and
`sylve_vm_storage.enable` (not sent at create, so that `enable = false` gives a
result that was not planned). `ImportKeepsWhenOmitted` excuses the attributes that
are documented as write-only unless they are omitted from the configuration.

## Proofs

What a run checks on a small instance, these modules prove for every value of the
constants. None of the properties is inductive; each module first proves a
stronger invariant, one step per action.

**ApiClientProofs**, for every set of calls and every number of tokens, from the
assumptions of `ApiClient` (`Decoding` is a set of calls, `MaxTokens` a natural
number, and `"free"` is not a call): all that `api_client` checks but
`EveryCallReturns`. `IInv` adds to the types and to `LoginExclusive` what each
place of `do` may rely on:

- `Tokens`: no token in use is newer than the last one granted, and none that a
  request carried is newer than the cached one.
- `Fresh`: a login answer in flight is newer than the cached token. It needs
  `LoginExclusive`: nobody else can store a token while the answer travels. And
  a call about to retry carried a token older than the cached one.
- `Flights`: what may be in flight at each place; a call in `lock` has
  nothing in flight, so that a failed login leaves nothing behind.
- `Effects`: a request in flight or answered 401 has not been acted on; this is
  why the resend cannot act twice.

The steps of client, server and `ServerForget` give `Spec => []IInv`; every safety
property follows from it, the two action properties and the step of the
refinement (`Implementation`) from `IInv` and one step.

**VmLifecycleProofs**, for every set of changed groups, any values, any number of
edits, faults and interferences: all that `vm_lifecycle` checks but
`EventuallyConverges`. `Progress` says, for each place of Update, what is pushed
(`Pushed`: it is in Sylve), what is not (`Unpushed`: it differs and is as
recorded), in which order (`InOrder`) and how many stops there were
(`StopsOnce`). `AtMostOneRestart`, `RecordedIsLive` and `FailureLeavesPrefix`
follow. `NoSelfCollision` is about the queue: `Calm` says that while nothing has
failed and nobody interfered, the queue holds only actions that change nothing
(`Quiet`), but for the last one while somebody waits for it (`Toward`). So the
status that ends a wait cannot be undone by an action queued earlier.

**VmDisksProofs**, for every set of disks, groups and values and all bounds: the
types, `FirstBootInOrder` and `NoHalfReplacement`. `Calm` holds beside a disk too
(the proof is `VmLifecycleProofs`' but for the steps that skip what depends on
the disk). `DetachFirst` and `PowerLast` say what waits for what. `StillOff` says
that while the disk is not where the plan wants it, a VM that was off when the
apply was planned, or when the old disk was detached, is off, and nothing is
queued or waited for that would start it.

**ProvisioningProofs**, for any set of resources, types, keys and configurations
and all bounds: all that `provisioning` checks but `EventuallySettled`. What a
resource *holds* is the id in its entry or the one its running Create is about to
record. `Server` (unique ids and keys), `Places` (what the place of an operation
says of the entry), `Keyed` (what is held has the resource's key) and `Own`
(where the lookup cannot be mistaken, it is the resource's own) hold without a
hypothesis; `NeverDeletesForeign` follows. `Apart` (no two resources hold one
id), `Mine` (what is held is the newest of one's own) and `Kept` (nothing made is
out of reach) need a word about the configuration: `NoAlias` that no two
resources share a key, unless the answer to the POST names the object
(`DistinctKeys`); `RecordsOwnNewest`, `NothingLost` and `OkMeansThere` only that no
two VMs or jails have one number and no two NICs are identical
(`DistinctGuesses`). `MCProvisioning`'s resources meet both, and finding 4 is what
happens without. A resource is `Plain` if Sylve stores its key as it is sent; what
the others make is `Missed`, and no entry ever holds it. A POST comes through late
only after a loss (`LateStep`), so that `Kept` need not speak of it, and `Mine`
leaves what it made aside.

**SchemaPlanProofs**, for every attribute that `MCSchemaPlan` counts as `Sound`, any
values and all bounds: all that `schema_sound` checks. `Coherent` says what the proofs
use of the traits of an attribute, and lemmas read it off the table, type by
type; `Recorded` (what Read does not refresh is in the state as it is in Sylve),
`Imported` and `Resting` (after an apply, the plan is what Read sees) then need
no table. The attributes that are not sound are those that the section above names.

**SnapshotsProofs**, for every set of snapshots and all bounds: the types,
`FiresOncePerTrigger`, `OnlyNewerDestroyed`, and every step of the refinement of
`OneShot`. `Planning` says that a rollback is only on its way if the recorded
trigger is not the configured one, `Counting` that a rollback whose answer arrived
is recorded. `Surviving` says that, undisturbed, the recorded ids are Sylve's and
differ, and that the target stays what it was once the rollback has run: so what
the rollback destroys is newer than the target Terraform still records.

**DomainStatusProofs**, for every number of faults, interferences and queued
actions: the types, `OkMeansReached`, `EitherGenerationServed`, and
`GoneMeansDeleted` from the assumption `UnknownRoute = "page"` (without which it
is false, see finding 2). `Answers` says that a status answered is one the
domain has had since the operation began and that "not found" is only answered for
a VM that is gone; `Served` that an undisturbed Read asks the old path only on an
old host.

**UpdatesProofs**, for every set of the seven types, any values and all bounds:
`SuccessMeansLive`, `OnlyDifferencesPushed`, `EnabledKept`. `Shape` states what
they need of the table: a type whose requests are not selective has one
request with all attributes, and a selective one is read back.
A row added to the table has to keep that. `Work` says that the requests left have something to change, and
those made are in force but for what others have changed; `Echo` that the flag
read by `SetVMVNC` is still the one in force, or somebody else has changed it, or
the read came back empty, and what is written is that VNC is off. A late request
counts as somebody else's.

*Only model-checked*: all liveness (`EveryCallReturns`, `EveryOpReturns`,
`EventuallyConverges`, `EventuallySettled`, `EventuallyApplied`,
`StoppedVmArrives`), as the prover has no rules for ENABLED and fairness. Every
invariant and every action property that a run checks is proved.

## Not modelled

Formats, URLs, wording and validation of arguments; the guest agent data source (a
single read, flattened); the program entry and the documentation scripts; the
transport's TLS settings; how the provider finds its settings in
attributes and environment variables; the inverse order in which Terraform
destroys dependent resources (but for the rollback before its target); the
client's calls that no resource uses (jail start and stop); a refresh of
`sylve_vm` that comes back empty in `VmLifecycle` and `VmDisks` (it is in
`Updates`); a snapshot without a configured description in `Snapshots` (every apply
replaces it, see the end of "What does not hold").

## Plan

1. *done* `ApiCall`, `ApiClient` and its proofs: everything else rests on it.
2. *done* `VmLifecycle`, `Provisioning`, `SchemaPlan` with their runs.
3. *done* `VmLifecycle` with a `sylve_vm_power` that does not refer to its VM;
   `VmDisks`; `DomainStatus`; `Snapshots` and `OneShot`; `Updates`.
4. *done* Proofs of `VmLifecycle`, `Snapshots`, `DomainStatus`, `Updates`.
5. *done* `ProvisioningProofs`, `SchemaPlanProofs`, `VmDisksProofs`, and
   `OnlyNewerDestroyed` in `SnapshotsProofs`.
6. An abstract `Converger` (the world is what the configuration says, or an apply
   has failed) that `VmLifecycle` and `Updates` implement.

## Running

    tlc -config VmLifecycle.cfg VmLifecycle
    tlapm VmLifecycleProofs.tla

A run takes up to two minutes; the proofs of a module between a few seconds and a
few minutes.
