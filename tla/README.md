# solidfire-go in TLA+

Models, checks and proofs for the NetApp SolidFire / Element client in this
repository: the SDK (`sdk/`), the tenant client built on it (`methods/`), the
backup scheduler (`example/s3-backup/`) and the program that creates volumes
(`example/create-volumes/`). Paths and line numbers below are relative to
`src/`. `PROJECT.json` holds the map from definitions to source lines, the runs,
the mutants, the hazards and the findings.

## 1. Inventory

| Component | Source | State it keeps | Operations |
|---|---|---|---|
| JSON-RPC call | `sdk/base_methods.go`, `sdk/base_types.go` | URL and credentials; the process-wide `http.DefaultTransport` | `Connect`, `MakeSFCall` |
| Generated API | `sdk/generated_*.go` | none | one wrapper per method (438), each `MakeSFCall` + `&res`; 273 request types; stubs that return an error |
| Tenant client | `methods/methods.go` | `Client`: account ID, CHAP secrets, SVIP, limits | three constructors around `initAccount`; `GetCreateVolume`, `GetVolumeByName`, `GetVolume`, `ListVolumes`, `DeleteVolume`, `ExpandVolume`, `ModifyQoS`, group snapshots, `ConnectVolume` |
| Asynchronous wait | `sdk/async_utils.go` | ticker and context | `WaitForAsyncResult` |
| Backup scheduler | `example/s3-backup/main.go` | pending volumes, active jobs, load per node, node of each volume | `RunSmartBackup`, `startBackupJob`, `BackupToS3Simple` |
| iSCSI attach | `sdk/utils.go`, `methods/methods.go:315` | none in the process; iscsiadm's node records and sessions | `ConnectVolume`, `LoginWithChap`, `WaitForPathToExist`, `GetDeviceFileFromIscsiPath` |
| Older client | `example/create-volumes` | as the tenant client | `NewClient`, `CreateVolume`, `main` |
| Endpoint parsing | `methods/methods.go:33` | none | `parseEndpointString` |
| Redaction | `sdk/security.go`, `example/account-redact` | none | `Redact`, `String` |
| Proxy example | `example/secure-api-proxy` | configuration | request check, response filter |
| Integration test | `methods/*_test.go` | none | a run of the client against a real cluster |

**How they interact.** Everything above the SDK talks to one cluster over
JSON-RPC. Each goroutine or process has its own `Client` or `SFClient`; they
share no memory except the transport, so what couples them is the cluster
(accounts, volumes, asynchronous results, slots for bulk volume jobs) and, for
callers on one host, iscsiadm's records and the kernel's sessions and devices.
Every operation is a sequence of calls or commands with decisions in between,
and nothing in the code makes two of them one step.

**What is hard.**

- *Races through the cluster*: look-then-add of the account
  (`methods.go:149-159`), look-then-create of a volume (`183-191`), two
  users who modify different fields of one volume, two callers who connect one
  volume on one host.
- *Calls that do not end well*: a request may be lost, executed with its answer
  lost, or executed later; a reply may be an error, or end early, which
  `MakeSFCall` takes for a success with a zero result (`base_methods.go:70-72`).
- *Sequences without undo*: five iscsiadm commands on one record
  (`utils.go:109-141`), a failure in the middle, and a next attempt that meets
  what is left.
- *Time*: a context that is done while the goroutine is blocked in a call; jobs
  that are not visible yet; results removed before a reply arrived; a device
  that appears after the wait for it.
- *Books*: load per node and list of active jobs, adjusted in several places.
- *Stale data*: a name held by a volume marked for deletion; the node of a
  volume that moved; a device name used again.
- *What a message cannot say*: `omitempty` and 64-bit sizes.
- *One address, two readings*: the SVIP is part of the portal and of the path of
  a device.

**What makes each component correct.**

- Tenant client: a client works on the account of its own tenant; who keeps
  trying gets a client; a name does not multiply beyond what races and faults
  explain; the volume returned is the caller's and has the name asked for; a
  deletion or an expansion reported is one that was done, and stays.
- Generated API: a call acts on the fields its caller named and on no other,
  however late it arrives; no error means that the values are in force.
- Asynchronous wait: it returns once, with the job's own final status or with
  the error of a context that is done; it returns when the job is finished and
  when the context is done.
- Backup scheduler: every volume is pending, active or ended, and only one of
  these; the load counts the active jobs; a node is not overloaded beyond
  untracked jobs and moves; a printed end is true; the run ends.
- iSCSI attach: the login finds complete credentials; the device returned is
  the volume's own; an error is explained by a failure, by an earlier wait that
  gave up, or by another caller of the same volume; who tries again is attached in
  the end.

## 2. Modules

```
SFCall                     one call: fate -> (error, result)   SFCallProofs
  |-- VolumeClient         tenant client     MCVolumeClient, VolumeClientProofs
  |     `-- TenantVolumes  what its users may rely on (refined by VolumeClient)
  |-- ApiUpdate            optional fields   MCApiUpdate, ApiUpdateProofs
  |     |-- FieldStore     what such a call promises (refined by ApiUpdate)
  |     `-- ApiMethods     the 438 wrappers (used by MCApiUpdate)
  |           `-- StorageRequests, ClusterRequests <- ApiRequests
  |-- AsyncWait            waiting for a job MCAsyncWait, AsyncWaitProofs
  |     `-- JobFuture      what waiting promises (refined by AsyncWait)
  |-- BackupScheduler      RunSmartBackup    MCBackupScheduler, BackupSchedulerProofs
  |     `-- BackupPromise  what a backup promises (refined by BackupScheduler)
  `-- CreateVolumes        the older client  CreateVolumesProofs
IscsiConnect               ConnectVolume     MCIscsiConnect, IscsiConnectProofs
```

Operators marked `\* mutant` stand beside the definition they deviate from and
are used by no specification: `PROJECT.json` pairs each with the property that
it breaks.

### SFCall

`MakeSFCall` without its transport. A call has a *fate* (delivered, refused,
cut, http, lost) and the cluster's refusal, if any; `SdkError` and `SdkResult`
give what the caller sees. The generated wrappers add nothing but the type, so
all modules use these two operators for every call, and all proofs about a call
cite the theorems of `SFCallProofs` about them. `Fates` is a constant: the
fates that can happen in the system at hand.

### VolumeClient and TenantVolumes

Cluster state: `accounts`, `volumes` (a volume's ID is its index), `late`
(requests that were given up and not yet executed). Caller state: `pc`,
`accountID`, `want`, `ret`.

| Action | Code |
|---|---|
| `GetAccountByName`, `AddAccount`, `GetClusterInfo` | the three calls of `initAccount`, `methods.go:143-179` |
| `Reconstruct` | an error, or exit, of a constructor, and the application's next try |
| `GetCreateVolume` | `methods.go:181-189` with all of `GetVolumeByName`, 240-257 |
| `CreateVolume` | `methods.go:191-196` |
| `DeleteVolume` | `methods.go:199-212` |
| `GetVolume` | `methods.go:259-295` |
| `Arrive`, `Purge` | the network delivers a late request; the cluster purges a deleted volume |

A call is one step: the cluster executes a request at one moment, and a caller
does nothing between sending it and using the answer. A caller does one thing
at a time; several goroutines on one `Client` are several callers, since
nothing writes a `Client` after construction. `CreateVolume` requests carry the
caller's own account ID, as `example/create-volumes/main.go:148` builds them;
the code does not check it. The request's other fields do not affect the control
flow. The account ID is identified with the account's name, which the cluster
keeps unique.

`TenantVolumes` is the abstract specification: a store of volumes that keep name
and tenant for good and go from active to deleted to purged, and for each caller
what its last operation gave it. `GiveExisting` may give a volume of the caller's
tenant that is active (`GetVolume`) or not purged (`GetCreateVolume`: a volume
marked for deletion is given too), `GiveNew` one made for the caller in the same
step. A volume may also be made for any caller at any time (`Serve`): that is
what a lost or late `CreateVolume` looks like from outside. `VolumeClient`
implements it with `volumes` as it is and `given` read off `ret`; that a
construction failed, an account is unknown or a request still travels does not
show.

### ApiRequests, StorageRequests, ClusterRequests and ApiMethods

The request types of `generated_model.go` and the wrappers of
`generated_methods.go`. Of a request type only one thing reaches the cluster's
behaviour besides the values: which fields are in the message when they hold the
zero value. So a type is its set of fields without `omitempty`, its set of
fields with it, and its fields that are structs by value, for which
`encoding/json` ignores `omitempty`; these have a definition of their own
(`QoS`, `ScheduleInfo`, `LdapConfiguration`, `SnapMirrorVolumeInfo`). The
definitions keep the names of the types; requests about what is stored and
requests about the cluster itself are two modules. `Wrappers` maps each method's
name to the request it sends, in groups as the file has them.

### ApiUpdate and FieldStore

Several users of the SDK on one object. A user names a field or none, beside
those that the method needs (`Invoke`); the composite literal holds zeros elsewhere
(`Literal`), the encoder drops fields (`InMessage`), and the cluster merges what it
is told into what it has (`Merged`), now, never or later (`Call`, `Arrive`). For a
method that changes nothing that stays, the object is the arguments the last call
was carried out with. The operations of the tenant client that are one call with
optional fields are actions of their own: `ExpandVolume` with the multiplication in
an int64, `ModifyQoS`, `CreateGroupSnapshot` with its limits of 2 and 32 volumes,
its default retention and the three other fields of its literal,
`DeleteGroupSnapshot`.

`MCApiUpdate` says of each method that changes something which fields tell the
object (`ObjectOf`) and which others its callers cannot do without (`NeededBy`).
That is knowledge about the API, stated apart from the tags of the request types, so
that a tag that is wrong shows: were `omitempty` to drop out of `qos`, an
`ExpandVolume` would reset it, and `StorePromise` would fail. For the methods that
change nothing that stays, what every call must give is read off the request type,
and the property is about the rest.

`FieldStore` is the abstract specification: a request acts on the fields it names
and leaves every other one. `ApiUpdate` implements it with `object <- stored` and
`named <- acted`, a history variable: the fields named by the request that was
carried out last, late ones included. Three methods break the promise and are kept
out of the run (`StructAlwaysSent`): their requests hold a struct by value with
required fields inside, which is in every message whether its caller named it or
not (section 6).

### AsyncWait and JobFuture

A call here is three steps (`Call`, `Serve`, `Receive`), because the time in
between matters: the context may be done, the job may end, another poller may
remove the result. (`BackupToS3Simple` prints its handle, `main.go:239`, so the
user of a `WaitForAsyncResult` may be waiting for the same job.) `Call`, `ContextDone` are the branches of the `select`
(`async_utils.go:18-28`), `WaiterReceives` the rest of the loop (28-46),
`ConsumerReceives` the loop of `BackupToS3Simple` (`main.go:248-268`). `Removes`
is the difference between the two: `KeepResult`.

`JobFuture` is the abstract specification: a job that ends once, contexts that
may be done, and for each waiter one `Resolve`, to the job's status or to the
context's error. `AsyncWait` refines it with `outcome` restricted to the waiters
and a job that is not yet visible mapped to one that is running.

### BackupScheduler and BackupPromise

The single goroutine of `RunSmartBackup`, in phases: limits, report, then
passes of *poll* (`main.go:104-139`) and *schedule* (141-189), until nothing is
pending or active. `pending` is `pendingVolumes` less those started in the
current pass, and `active` is `activeJobs` less those found finished in it: the
code builds `remainingPending` and `newActive` on the side, which no one else
can see. The order of the two slices is abstracted to sets: volumes and jobs are
taken in any order, and a volume that `Locate` has found may be started after
another one of the same pass, so the model has more orders than the code. The
IDs given to `RunSmartBackup` are taken to be distinct. The sleep between passes
is no step. The cluster is modelled as far as the scheduler sees it:
a limit `Cap` per node and two jobs per volume (`generated_methods.go:596`),
jobs that end when they like, results removed when a final status is returned
without `KeepResult`, volumes that move.

`BackupPromise` is the abstract specification: a volume goes from pending to
active once, and then to an end that a backup of this volume really came to.
`BackupScheduler` implements it with the stage of a volume read off `pending`
and `report`, and the ends off the cluster's jobs.

### IscsiConnect

One program counter per caller through `ConnectVolume` (`methods.go:315-345`):
`ConnectVolume` (with `GetVolume`, which finds the volume or not), `Look` (the
first wait, one try), `Update` (the four commands of `LoginWithChap` that write
the node record, one step each), `Login`, `WaitForPathToExist` (five tries),
`GetDeviceFileFromIscsiPath`. The host is external: `record[v]`, `session`,
`device[v]`; `DeviceAppears` gives a session's volume any free device name,
`SessionLost` takes session and device away. A command that fails may have done
its work. After an error the caller calls again. Which volume a caller connects
is chosen in `Init`, so callers share a volume or do not. Between two calls the
target stays: other targets have other records and paths.

Addresses are abstracted to the ports in them. `naming`, chosen in `Init`, says how
the cluster gives its SVIP, how udev writes the portal into the link of a device,
and which portals iscsiadm takes for the target's. `PathExists` is true if the path
that `ConnectVolume` builds from the SVIP (`methods.go:322`) is that link; `Reached`
if the SVIP with the port that `LoginWithChap` appends (`utils.go:111`) is such a
portal. An attach needs both.

### CreateVolumes

`NewClient`, `CreateVolume` and `main` of `example/create-volumes`, run again by
its user after an exit.

## 3. Runs

Each run that passes:

| Run | Configuration | Shows |
|---|---|---|
| `client_race` | 2 callers of 1 tenant, 1 name, 4 volumes, 1 call refused, http or lost | `TypeOK`, `TenantAgreement`, `SameNameBound`, `NameBoundInv`, `DeleteConfirmed`, `EventuallyConnected` |
| `client_tenants` | 2 callers of 2 tenants, 2 names, 2 volumes, 1 lost call | `ReturnedVolumeMatches`, `ServicePromise` |
| `api_update` | the methods that have a field besides the object's ID (174 of 438), 2 callers, 2 calls, 1 fault | `TypeOK`, `ExpansionKept`, `StorePromise`, `Confirmed` |
| `async_wait` | 2 waiters, 1 consumer, 2 faults of any kind | `TypeOK`, `FuturePromise`, `FinishedReported`, `CancelledReturns` |
| `backup_faults` | 2 volumes, 2 nodes, cap 3 (so 1 job per node), 2 faults of any kind, 1 move | `TypeOK`, `LoadCounts`, `Conservation`, `NodeLimit`, `ReportTrue`, `KeepsPromise`, `DoneMeansBackedUp`, `BackupsCounted`, `StuckJobsCounted`, `Terminates` |
| `iscsi_attach` | 2 callers, 2 volumes, 2 device names, 3 ways to read addresses, 1 fault | `TypeOK`, `RecordPrepared`, `CredentialsExplained`, `LoginErrorExplained`, `DeviceOfVolume`, `EventuallyAttached` |

The other six runs each find one counterexample; section 6 lists them.

**Why the bounds are enough.**

- `client_race`: the race over the account and the race over a name need two
  callers; the bound on copies is 2 + 1 there, and with 4 volumes the cluster has
  room for one more than the bound, so a violation would fit. One fault gives
  every kind of misfire, including a create that arrives after its retry. What
  more callers or faults could do is settled by the proofs, which hold for any
  number.
- `client_tenants`: two tenants with a volume each are what is needed to receive
  someone else's. The lost call makes a volume appear that nobody was given, which
  `ServicePromise` has to explain.
- `api_update`: undoing another's work takes two callers and a call each; the
  late request of the first call may arrive before, between and after. An int64
  is scaled to `Word` = 64 values and a GiB to 4, so that of the sizes 0, 3, 7, 8,
  16, 19 the first three fit, 8 becomes the most negative number, 16 becomes zero
  (and is left out of the message) and 19 a small positive one. `Default` = 9
  differs from every value a caller names, and from the zero that a struct sent
  unasked would leave. `Given` is one value: what a caller writes into a field that
  it must fill in anyway only has to be told from nothing. Of the other 264 methods,
  261 have no field besides the key, so there is nothing to name, and three are
  `StructAlwaysSent`.
- `async_wait`: two waiters and one who takes the result away race for it, and with
  two faults a waiter fails before and after the job ends.
- `backup_faults`: two volumes on one node with one slot make one wait for the
  other; two faults allow a lost start followed by a second start, or a lost
  start and a lost poll; the move makes a located node stale. Three volumes with
  one fault was also checked once; it takes minutes and showed nothing new.
- `iscsi_attach`: whether the callers share a volume is open in `Init`. Two device
  names for two volumes make names come back on the other volume. One fault at
  any of the commands, looks or sessions leaves every kind of remains for the next
  attempt. The three namings are the SVIP as the cluster has it (the path is not
  udev's), and an SVIP with a port, where iscsiadm does or does not read past the
  second port of the portal: an attach can succeed only where it does, and the
  first naming is the one of run `iscsi_path`.

`MaxFaults`, `MaxMoves`, `MaxVolumes` and `MaxCalls` are the only bounds on growth.
The callers of `api_update`, which checks safety only, are symmetric; in the other
runs no model values are declared so, since most of them check liveness.

`CHECK_DEADLOCK FALSE` is set where the program stops or the bound on calls is
used up: all pollers have ended, the scheduler is done, `MaxCalls` calls are made,
the program that creates volumes has made ten.

**Fairness.**

- `VolumeClient!FairSpec`: `WF(Construct(c))`. A goroutine that is constructing
  goes on, and the application tries again after a failure; the code leaves the
  retry to its user. No operation is fair, nor is the network.
- `AsyncWait!FairSpec`: `WF(Call)`, since the ticker ticks; `SF(ContextDone)`,
  since Go's `select` chooses at random among the ready cases, so a context that
  stays done is chosen eventually although each single pass may take the tick;
  `WF(Serve)` and `WF(Receive)`, that a call is answered or fails. The code does
  not ensure the last; `SilentSpec` is the specification without it.
- `BackupScheduler!FairSpec`: `WF(Program)`, the goroutine runs on and its calls
  return, and `WF(JobEnds(h))`, each job ends. `Terminates` holds only if the
  report came and no final status, and no handle, was lost on its way: its
  antecedent says so, and the hazards say what happens otherwise.
- `IscsiConnect!FairSpec`: `WF(Wanting(c) /\ Connect(c))`, a call under way goes on
  and a caller that got an error calls again, as one that wants its volume does;
  a caller that has its device need not call. `WF(DeviceAppears(v))`, the kernel
  makes the device of a session in the end, however often a wait has given up
  before.

## 4. Proofs

`tlapm` proves, for every value of the constants:

| Theorem | States | Argument |
|---|---|---|
| `SFCallProofs!ErrorHasNoResult` | an error comes with the zero result | by cases on the fate |
| `SFCallProofs!NoErrorHasResult` | if no reply is cut, no error means carried out, and the result is the answer (`base_methods.go:88`) | the same |
| `SFCallProofs!OnlyCutIsSilent` | a result other than the answer without an error: if and only if the reply is cut | the same |
| `VolumeClientProofs!TypeCorrect` | `Spec => []TypeOK` | inductive as it stands; one lemma per action |
| `VolumeClientProofs!NameBoundInvariant` | `Spec => []NameBoundInv` | inductive invariant, below |
| `VolumeClientProofs!SameNameBounded` | `Spec => []SameNameBound` | the part of it about volumes |
| `VolumeClientProofs!TenantAgreed` | `Spec => []TenantAgreement` if no reply is cut | strengthened by the same for callers that are past the account |
| `VolumeClientProofs!ReturnedAlwaysMatches` | `Spec => []ReturnedVolumeMatches` | IDs keep name and owner (`VolumesKept`), what is returned was listed for an account that is the caller's (`OwnedInv`, `AccountInv`) |
| `VolumeClientProofs!ServiceInvariant` | `Spec => []ServiceInv` | `MatchInv`, and every late create is for a caller's tenant or for no account |
| `VolumeClientProofs!ServicePromised` | `Spec => ServicePromise` | step simulation, below |
| `VolumeClientProofs!DeletionConfirmed` | `Spec => DeleteConfirmed` if no reply is cut | step by step; only `DeleteVolume` returns so |
| `ApiUpdateProofs!TypeCorrect` | `Spec => []TypeOK` | with late requests saying zero about what they do not name |
| `ApiUpdateProofs!StorePromised` | `Spec => StorePromise`, if the types put no field into every message but those that callers need (`NothingUnasked`) | a literal is zero outside the fields it names, and a zero is sent only for a field of `Always` |
| `ApiUpdateProofs!ClientPromised` | the same for the methods that the tenant client calls, with no such condition | their request types as declared (`ClientTags`) |
| `ApiUpdateProofs!OneFieldAtATime` | each step changes one field at most, if a request of the methods names one at most and its type sends no other, and the cluster keeps what it is told | from `StorePromise`'s step, and `acted` has one field at most (`StepNamesOne`) |
| `ApiUpdateProofs!VolumeUsersIndependent` | `ModifyVolume` as declared is such a method | the definition of `ModifyVolumeRequest` |
| `ApiUpdateProofs!ConfirmedAlways` | `Spec => Confirmed` if no reply is cut | a sayable value is in the message, and no error means executed |
| `ApiUpdateProofs!ExpansionAlwaysKept` | `Spec => []ExpansionKept` if no reply is cut | sizes only grow |
| `AsyncWaitProofs!TypeCorrect` | `Spec => []TypeOK` | inductive |
| `AsyncWaitProofs!ResultKept` | without consumers the result of a job is never removed | only a request without `KeepResult` removes it |
| `AsyncWaitProofs!LostForGood` | a final status that is removed and in no consumer's hands stays out of reach | only a poll of a stored result puts one into a reply |
| `AsyncWaitProofs!FuturePromised` | `Spec => FuturePromise` | step simulation under `WaitInv`: each action maps to a step of `JobFuture` or a stutter |
| `BackupSchedulerProofs!TypeCorrect` | `Spec => []TypeOK` | inductive |
| `BackupSchedulerProofs!LoadAlwaysCounts` | `Spec => []LoadCounts` | inductive invariant, below |
| `BackupSchedulerProofs!AlwaysConserved` | `Spec => []Conservation` | from `BookInv` |
| `BackupSchedulerProofs!ReportAlwaysTrue` | `Spec => []ReportTrue` | a job's final status never changes |
| `BackupSchedulerProofs!NodeAlwaysLimited` | `Spec => []NodeLimit` | counting, below |
| `BackupSchedulerProofs!DoneAlwaysBackedUp` | `Spec => []DoneMeansBackedUp` | at the end nothing is pending or active, so `BookInv` gives a printed end, and `ReportTrue` its job |
| `BackupSchedulerProofs!BackupsAlwaysCounted` | `Spec => []BackupsCounted` | counting over all sets of volumes at once, below |
| `BackupSchedulerProofs!EveryJobEnds` | no handle exceeds the number of volumes and `MaxFaults` | `BackupsCounted` of all volumes; so the fairness of `FairSpec` is about every job |
| `BackupSchedulerProofs!StuckAlwaysCounted` | `Spec => []StuckJobsCounted` | an active job loses its result only in a poll that failed, or has no handle because its start was cut |
| `BackupSchedulerProofs!OneBackup` | without faults a volume has no job while pending and one afterwards | `BackupsCounted` of one volume |
| `BackupSchedulerProofs!ReserveKept` | two slots of each node are left to restores, but for one for each failed call and each move, if no reply is cut and the limit is above 2 | `NodeLimit`, and `maxJobs` is the limit less two (`main.go:62-65`) |
| `BackupSchedulerProofs!ReportNeeded` | without the report no volume is located, nothing is started and the run does not end | `BlindInv` |
| `BackupSchedulerProofs!PromiseKept` | `Spec => KeepsPromise` | step simulation under the same invariant |
| `IscsiConnectProofs!TypeCorrect` | `Spec => []TypeOK` | inductive |
| `IscsiConnectProofs!RecordAlwaysPrepared` | `Spec => []RecordPrepared` | a record is written by the callers of its volume only, and the first command wipes it |
| `IscsiConnectProofs!CredentialsAlwaysExplained` | `Spec => []CredentialsExplained` | while nothing fails, the last of a volume's callers to be in the middle of its commands leaves a complete record |
| `IscsiConnectProofs!DeviceAlwaysOfVolume` | `Spec => DeviceOfVolume` | `DeviceInv`: a path leads to a device only while its session is up, and no two paths to the same |
| `IscsiConnectProofs!LoginErrorAlwaysExplained` | `Spec => LoginErrorExplained` | `NormalInv`: what the state of a caller on its own says about its session and its last error while nothing has failed |
| `CreateVolumesProofs!TypeCorrect` | the state is well typed | inductive |
| `CreateVolumesProofs!AllCreated` | a run that comes to the end of its loop leaves all ten volumes created, in the tenant's account, if no reply is cut | `LoopInv`: the volumes below `next` exist, by this run or an earlier one |

*Volumes of a name.* `SameNameBound` is not inductive. A caller that has looked
and seen nothing, or a create that still travels, will add a volume that the bound
must already pay for. `PlacesInv` therefore counts volumes, callers about to
create and late creates together, and bounds the sum by the tenant's callers plus
`faults`. A caller takes a place only when it saw no volume of the name, so when
every place is held by another caller or was paid for by a fault; a call that ends
badly moves its place to `late` and raises `faults` by one, which leaves room for
its caller to come back. `LateInv` supplies that `late` is finite and not larger
than `faults`, and `AccountInv` that a caller's account is its tenant's or none,
so that only `Users(a)` can create in account `a`.

*The promise of the tenant client.* Each answer is shown to be given by an action
of `TenantVolumes` in the step that gives it: `ListingGives` (the volume that the
listing found), `CreationGives` (the one just made), `LookupGives`,
`DeletionGives` (nothing). A late request is served as if its sender asked at that
moment, for which `ProperInv` is needed: the account in it is the tenant of a
caller, or none, in which case the cluster refuses it. Cut replies are allowed:
the zero volume that they give is no volume, so nothing was given.

*Books of the scheduler.* `Inv` is `TypeOK` with `BookInv` (a volume is pending, or
has one active job, or its end is printed, and only one of these), `HandleInv`
(what a handle in the list of active jobs refers to), `EarlyInv` (what is still
empty before the first pass) and `LoadInv`. The proofs go through the forms a step
can have (a job ends, a volume moves, one is located, started, found finished, or
only the phase changes), so that each property is shown once per form and not
once per action.

*Load of a node.* The jobs running on a node are those that an active job holds
and that were started where the volume now is, those whose volume has moved since
it was located, and those that no active job holds. The first are bounded by
`nodeActiveJobs` and so by the limit; `StrayedInv` bounds the second by the moves,
`UntrackedInv` the third by the faults. The sum is `NodeLimit`.

*Number of backups.* For a set `S` of volumes, the jobs of `S` and the volumes of
`S` that are no longer pending differ by at most `faults`. A call that goes well
adds one to both numbers or to none; a call that ends otherwise may add to one of
them only, and raises `faults`. With all volumes for `S` it bounds the handles, with a single one it
bounds the backups of that volume.

*Without the report.* The finding of run `backup_fallback` is proved for every
instance: `known` is what the report gave, and while it is empty `Locate` finds
no node, so nothing leaves `pending`. That the loop goes on for ever is then the
part `phase # "done"`.

Assumptions: `FatesAssumption`, `ConstantsAssumption`, `UpdateAssumption`,
`WaitAssumption`, `BackupAssumption`, `HostAssumption`, `NoDeviceAssumption` in the
modules that declare the constants; TLC evaluates them in the runs. Some theorems
assume more, and say so after ASSUME. That no reply is cut: `TenantAgreed`,
`DeletionConfirmed`, `ConfirmedAlways`, `ExpansionAlwaysKept`, `ReserveKept`,
`AllCreated` and `NoErrorHasResult` (`OnlyCutIsSilent` shows that this is the one
fate to exclude). That the request types send nothing unasked: `StorePromised` and
`OneFieldAtATime`, met by the types that the tenant client uses (`ClientPromised`,
`VolumeUsersIndependent`). No consumers in
`ResultKept`, no faults in `OneBackup`: these two are about what goes right when
nobody interferes. `AllCreated` takes the tenant's account to differ from the
zero account, and the cluster's refusal to differ from no error.

**Only model-checked**: the liveness properties `EventuallyConnected`,
`FinishedReported`, `CancelledReturns`, `Terminates` and `EventuallyAttached`, as
fairness and `ENABLED` are out of the prover's reach. `LostForGood` and
`EveryJobEnds` are the safety facts next to `FinishedReported` and `Terminates`:
the first is why these must exclude a lost result, the second why the fairness
they assume leaves no job out. The invariants and action properties of all passing
runs are theorems. There is no induction over
data in these modules, and no recursive operator.

## 5. Not modelled

- `Connect`: it stores the endpoint and calls `GetAPI`; its outcome is ignored by
  each constructor, so it changes nothing.
- The stubs (`generated_stubs.go`) return a constant error. The result types are
  modelled only where a caller in this repository uses them: what the cluster puts
  into the others, nothing here depends on.
- `NewClientFromSecrets` also fetches limits and only warns on failure; nothing
  reads them.
- `parseEndpointString`: splits one string into four, once, before any call; no
  state and no error path.
- `Redact` and the `String` methods: they clear two fields of a copy for the log.
- The proxy decides about each request and each response on its own, from a
  configuration read once; there is no state between two requests, and what
  happens to them is `httputil.ReverseProxy`.
- The data race on `TLSClientConfig` (`base_methods.go:101`) and the body that is
  not closed when the status is not 200 (`base_methods.go:69`): what they can break
  is inside `net/http`.
- The helpers of `sdk/utils.go` that nobody calls (`iscsiSupported`,
  `iscsiDiscovery`, `iscsiLogin`, `iscsiDisableDelete`, `iscsiadmCmd`,
  `GetInitiatorIqns`), and `ListVolumes`, `ListGroupSnapshots`,
  `GetClusterVersion`, `ListISCSISessions` of the tenant client, each of which
  returns what one call returned.
- The integration test, read as a source of intent.

## 6. Where code and words differ

Each run ends in the counterexample named here; quotes and lines are in
`PROJECT.json`.

| Run | Property | In short |
|---|---|---|
| `client_list_error` | `NilErrorHasVolume` | a failed listing becomes a zero volume without error |
| `async_silent` | `CancelledReturns` | an unanswered call outlives the context |
| `iscsi_path` | `ConnectAttaches` | the path has no port, so the device is never found and every further login is refused |
| `backup_fallback` | `FallbackLocates` | without the report the fallback cannot find a node |
| `api_resume` | `EveryValueTaken` | a request to restart a paused replication does not say so |
| `old_account` | `AccountTaken` | the first run for a new tenant creates its volumes in account 0 |

Five more can be read off the models without a run of their own:

- Two first clients of a tenant: the construction of the one that adds the account
  second fails, while `methods/README.md:17` says that the init routine collects
  what it needs. `EventuallyConnected` is about the one who tries again.
- `GetCreateVolume` returns a volume marked for deletion if it is the first of the
  name: `GetVolumeByName` (`methods.go:251-255`) looks at no status, and the listing
  is one of "active and (pending) deleted volumes" (`generated_methods.go`, comment
  on `ListVolumesForAccount`).
- `s3-backup/main.go:62` reduces the limit "by 1 or 2 to leave room for restores",
  the code only from 3 on: of a limit of 1 or 2 nothing is left free.
- A reply to `GetAccountByName` that ends early is a success with the zero result
  (`base_methods.go:70-72`), so a `Client` may be constructed with account 0, while
  `methods.go:144` says that it verifies the account. `TenantAgreed` therefore
  excludes cut replies.
- `TestLdapAuthentication` sends an `ldapConfiguration` of zeros when its caller
  names none, as `omitempty` has no effect on a struct, while its comment
  (`generated_model.go:7327`) describes the call with and without one. The same
  holds for the volumes in `ListSnapMirrorRelationships` and
  `ResyncSnapMirrorRelationship`. Each of them breaks `StorePromise` when it is the
  only method of `api_update`.

Remarks that no doc contradicts:

- An `ExpandVolume` by more than an int64 holds wraps round, and a size that wraps
  to zero is not sent at all; both are confirmed without error. `Confirmed` and
  `ExpansionKept` are about the sizes that fit.
- The attach asks for the path, not for the session: a caller whose first wait ended
  before the device came logs in again and is refused, which is why
  `LoginErrorExplained` allows for that error.
- Two callers who connect the same volume at the same time can each replace the
  record of the other before its login, and go on so for ever; hence `Alone` in
  `RecordPrepared` and `EventuallyAttached`. `CredentialsExplained` says that it
  takes a caller in the middle of its commands each time.

**The address of the portal.** `initAccount` stores the SVIP of `ClusterInfo`
(`methods.go:175`), over whatever the configuration said; it is an address without
a port. `LoginWithChap` appends `:3260` and reaches the target. The link that udev
makes for the device carries the portal with its port, and the path of
`methods.go:322` does not. So the wait never finds the device: the first call gives
up, the session stays, and each later call finds no path, logs in again and is
refused. An SVIP with a port, as in `methods/README.md:11` and
`methods/integration_test.go:16`, would fit the path and give the portal two ports.
How udev and iscsiadm write and read addresses is outside this repository, which
is why `naming` leaves it open, `iscsi_attach` checks all three cases and
`EventuallyAttached` is about the one in which both fit.

## 7. Plan

Done, in the order of what the program is for: `SFCall`, `VolumeClient`,
`AsyncWait` and `JobFuture`, `BackupScheduler` and `BackupPromise`, `ApiUpdate` with
the request types, wrappers and `FieldStore`, `IscsiConnect`, each with its proofs,
and `CreateVolumes` with its run; then `TenantVolumes`, the fields that a request
names against those its message carries, the naming of the iSCSI portal and of the
device path, and the theorems about `SFCall` and `CreateVolumes`.

Next: an abstract specification of the attach, which would join `DeviceOfVolume`
with what an error excuses; progress lemmas for the two waits (what one step of a
poller or of the scheduler decreases) that come as near to `FinishedReported` and
`Terminates` as safety allows.

Left, if it proves worth a property: `parseEndpointString` and the proxy's filter
as pure operators against a reference definition; results of methods that a new
caller comes to depend on, as in `VolumeClient`.
