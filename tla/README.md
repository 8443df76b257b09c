# A TLA+ verification of sdc-cloudapi

cloudapi is the public HTTP front of a SmartDataCenter: a restify server in
node.js that keeps no data of its own. Every request runs through a chain of
handlers, and each handler is a sequence of asynchronous calls to back ends:
VMAPI (machines and their jobs), NAPI (networks and NICs), UFDS (accounts,
users, roles), IMGAPI, PAPI, FWAPI and CNAPI. Between two calls of one request
every other request of the process runs, and so do the other cloudapi
processes, the jobs of VMAPI and whatever else a data center does. Nothing is
locked and nothing is transactional. What a handler read before a call may be
wrong after it, a call may fail after an earlier one has had its effect, and a
reply may be lost although the effect took place.

That is what these modules are about: **one action is one back-end call with
the local code that follows its reply**, up to the next call. Parsing,
formatting of answers, HTTP headers and logging are left out unless a property
depends on them.

Source files are named as in the repository (`lib/nics.js`, `plugins/...`).

## 1. The system and its parts

| Part | State it touches | Operations | What is hard | What makes it correct |
|---|---|---|---|---|
| NICs (`lib/nics.js`) | NIC records in NAPI, `add_nics`/`remove_nics` jobs in VMAPI, the machine's vNICs | POST, DELETE (GET, list) | a pipeline of up to seven calls over three stores; clean-up after a failure; jobs later and in any order; machines destroyed meanwhile | one NIC per network, no vNIC without a record, no MAC used twice, no record left behind, requests end |
| Provisioning (`create` in `lib/machines.js`, `plugins/provision_limits.js`, `capi_limits.js`, `jpc_free_tier.js`) | machines and VMAPI's index of them, limits in UFDS and CAPI | POST of a machine | count first, create later; an index that lags; lost replies; how defaults and own limits combine; disk in GiB here and in MiB there | limits by number and memory hold up to what races past them; no refusal that is not due |
| Roles and tags (`lib/roles.js`, `lib/resources.js`, `lib/membership.js`) | role entries and resource entries in UFDS | POST, update, DELETE of roles, PUT of tags | two entries, two calls, tags after the answer; values loaded at the start are written back at the end | one tag entry per role, updates keep tags, deleted roles have none |
| Machines (`lib/machines.js`, `metadata.js`, `tags.js`, `snapshots.js`) | the machine in VMAPI and its jobs | start, stop, reboot, resize, rename, firewall, DELETE; metadata; tags; snapshots | the effect is a job's, later; decisions by a machine read before; read then replace of metadata | requests that are not overlapped have their effect; protected keys stay; one answer per request |
| Fabric networks and configuration (`lib/networks.js`, `lib/config.js`) | networks in NAPI, the default network in UFDS | create, delete, UpdateConfig | check in one service, write in the other | the default network exists |
| Users, policies and what roles refer to (`lib/users.js`, `policies.js`, `membership.js`) | users, policies and roles in UFDS; a cache per request | CRUD of users and policies; names into ids before a role is written, ids into names before it is answered | clients name users by logins that change hands; roles go on referring to the deleted; one search per attribute, each at another time | a role is given who was named, an answer names who is meant |
| Authentication and authorization (`lib/auth.js`, `keys.js`, the writes of users, roles, policies, tags) | the master UFDS, the local UFDS behind it, mahi behind it as well, a cache in the client of each | six reads in four services, before any handler runs | each read may see another version, an older one if it is cached; account in the path, `?as-role`, two schemes | only own accounts; nobody gets in by what is gone; deletions take effect |
| Server (`lib/app.js`, `lib/plugins`) | connections to UFDS (local and master), the list of plug-ins | start-up, time-outs, `close` | which client is recycled; which listener hears an error; one url or two | a hung connection is replaced, a lost one does not end a server that listens, each client is closed once, UFDS's plug-ins prevail |
| Throttling, audit, analytics, services, docs, images, firewall rules, accounts | none that requests share | – | – | – |

Parts interact through the back ends only: NIC and provisioning requests race
with machine deletion in VMAPI, roles with tags in UFDS, fabric networks with
the account's configuration. The chain of `lib/app.js` (authentication,
`loadAccount`, packages, networks, `loadMachine`, `loadResource`, `authorize`)
runs before every handler; of it the modules contain the members that read
what a handler later decides by (`GetMachine`, `Load`, `LoadMachine`,
`LoadResource`, `PreLoadNetworks`), and `Access` is that chain itself, up to
the handler.

The hazards of this code, each at its line and with the properties that watch
it, are listed in `PROJECT.json`.

## 2. Modules

### Nics, NicLedger — NICs of machines

`nics` are the records in NAPI (MAC, machine, network, provisioning or
running), `vnics` what is plugged into machines, `jobs` the queue of VMAPI,
`alive` the machines that are not destroyed. A request has a program counter
`pc` named after the function of `lib/nics.js` that is next, its parameters
`req` and the handler's variable `nic`, which decides whether the final
callback cleans up. `CheckNicDoesntExist`, `CheckServerHasTag`, `AddToNapi`,
`AddToVm`, `RemoveFromNapi`, `CheckNicExists` and `RemoveFromNics` are the
functions of those names; `GetMachine` and `GetNetwork` the handlers before
them. Pools are modelled as the code sees them: NAPI gives a NIC on a network
of the pool, `CheckNicDoesntExist` compares with the pool.

External: NAPI hands out free MACs, VMAPI accepts a job unless the machine is
destroyed and runs or fails jobs in any order, `DestroyVm` removes a machine
and its records. Which calls may fail (`Rejecting`) and which may take effect
and lose their reply (`Losing`), whether processes die (`Crashes`) and whether
clients await one POST before the same again (`Serial`) are constants, so that
each property is checked under exactly the faults it survives.

`NicLedger` is the abstract promise: a NIC is entered before it is plugged,
leaves with its plug, and a machine has one NIC per network. `Nics` implements
it with records as entries (`LedgerSpec`).

### Limits, Provision — machines under limits

`Limits` is the pure part of the plugins: which limits are relevant to an
image, how `filterLimits()` combines an account's limits with defaults
(`FilterLimits`, catch-all included, in the code's order), `CapiLimit`, and
beside them `DocumentedLimits`, the rule of the administrator's guide.

`Provision` has the machines of one account (`vms`), what VMAPI's index shows
of them (`listed`), and the chain of CreateMachine: `Load` (image, package),
the three plugins in their order, `LoadSSHKeys` (with password and package
checks), `CreateVm` and `GetVm` after its 200 ms. `Lag` says whether the index
is up to date, behind for less than those 200 ms, or longer. What machines come
to is a number of units: one for each machine, megabyte or gigabyte that a
machine has, counted as the cardinality of a set of pairs. The units are the code's.
The package asked for adds its `quota` in MiB (`Increment`); a machine that VMAPI lists
adds its own in whole GiB, as `create()` divided it (`lib/machines.js:381`), and a KVM machine
10 (`Size`). `Sum` adds the one to the other as `plugins/provision_limits.js:365-369` does.
`Amount` and `Total` are what a machine is in the guide's units, MiB throughout; only the
properties use them.

### Roles — roles and role tags

`roles` and `entries` are the role entries and resource entries in UFDS.
`LoadResource` is the chain's preloading of the tag entry; `SaveResource`
decides which tags to write (header, loaded, active roles of a sub-user) and
`PreloadGroups` resolves their names; `ModifyResource` writes them.
`CreateRole`, `GetRole`, `ModifyRole`, `TranslateGroup`, `DeleteRole` and
`DeleteResource` are the calls of `lib/roles.js` and of what follows it in the
chain. A request on a role and its tags are calls of their own, so they fail
and lose replies separately.

### Members — users, policies, and the roles that refer to them

`name` is what UFDS calls each user and policy, `roles` the ids that roles
refer to. A request on a role (`RequestRole`) runs the pipeline of
`parseParams()`: `Preload` once per attribute, which searches for what is not
in `cache` and ends in `_verifyParams`; `AddRole`, or `GetRole` and
`ModifyRole`; and `translateGroup()`, which is `Translate` once per attribute.
`Store`, `Loaded` and `Missing` are the cache of a request: one table of users and one of
policies, each record under its id and under its name. A request on a user
(`RequestUser`) finds it by login or id (`GetUser`), updates it by what it found and
reads the answer again by the path (`UpdateUser`, `AnswerUser`), or lists
its roles (`MapRoles`, `MapDefaultRoles`). Requests of one call (`CreateUser`,
`DeleteUser`, `CreatePolicy`, `UpdatePolicy`, `DeletePolicy`, `DeleteRole`)
are one action. `borne` and `alone` are history: the names that users and policies
bore since a request came, and whether anything else was written.

`Roles` has the other half of the same handlers, names and tags; neither half
reads what the other writes, so they are modules of their own. Both read UFDS
afresh: the `cache` here is `req.cache` of one request, and the cache of the UFDS client
(section 5) is left out.

### Access — who may do what

`log` has the versions of the directory, the last of which the master UFDS
has; `local` and `mahi` are the versions that the local UFDS and mahi have
(`LocalCatchesUp`, `MahiCatchesUp`). The clients of all three keep what they read
for a while (`ufds.cache` and `mahi` of the configuration,
`sapi_manifests/cloudapi/template:12-15` and `63-66`), and nothing here asks them not to
(`lib/auth.js` passes no `noCache`). An entry was cached at a time of its own, so each read
takes any version of its store from `oldest` on (`Readable`), and `Expire` is the age of
a cache going by. A request goes through `GetAccount`,
`GetSubUser`, `GetKey` (signatures) or `GetAccount`, `Authenticate`, `GetMetadata` (basic
authentication, and accounts that must sign), `LoadAccount` (the account of the path),
`LoadResource` (role tags, from the master), `Forbid`, `GetRoles` (active roles), `MahiGetUser`
and `MahiGetAccount` (what policies allow), to `Handler`, which may write a
new version: a key, a deleted user, members of a role, a policy's rules or
tags. `WriteElsewhere` are the same writes by other servers. The rule language
of policies is data: `rules` says which roles allow which operation. A deployment
without mahi has no account management (`HasMahi`, `AccountMgmt`): sub-users are turned away
and roles are not looked at. An account that is disabled, and a sub-user that is, are
turned away as well.

### UfdsClients — start-up and the connections to UFDS

`conn` is the state of the two clients (with one url, of one), `listener` what listens to
the "error" of each, `server` the
stage of the process, `call` the client that each request waits for. `Connect`,
`Connected`, `Refused`, `LoadPluginsCfg` and `ConfigTimeout` are start-up; `Hang`, `Broken` and `Reconnect` what
connections do. A new client has the one-shot listener of `createUfdsClient`
(`lib/app.js:147`), which ends the process; `Connected` swaps it for the one that logs;
`Raise` is an error of the client, heard by whichever is there. `Timeout` is the handler of
a client's "timeout" event, which destroys the socket that `Recycled` names; `Close` to `CloseFails` the chain of `close`; `Restart` is SMF's. `LoadPlugins` merges
the plug-ins of the configuration file, a sequence that may name one twice, with those of
UFDS, whose names differ because they are the entries' `cn` (`NamedOnce`, the one assumption).

### Machines — updates, metadata, tags, snapshots

`vm` is one machine in VMAPI, `jobs` what VMAPI has queued for it together with
the snapshot jobs that `listJobs` remembers. A request loads what it will
decide by into `machine` (`LoadMachine`, the first half of `DeleteAllMetadata`
and of `GetSnapshot`), asks for a job and is answered (`sent`); `JobSucceeds`
and `JobFails` take jobs in any order. `Update` is the chain of the seven update
handlers (`StartStopReboot`, `Resize`, `Rename`, `SwitchFirewall`, then the
invalid action): they differ in the job they ask for, in `FirewallIs` and in
what they refuse. `quiet` is history: whether a request or
job on the same part of the machine overlapped.

### Fabrics — fabric networks and the default network

`fabrics` in NAPI, `default` in UFDS, and what a request read before
(`known`). `PreLoadNetworks` then `UpdateConfig`; `GetConfig` then
`DeleteFabricNetwork`. `contended` is history: networks that were deleted by
one request while another in flight made them the default.

### MC modules and proof modules

`MCNics`, `MCProvision`, `MCRoles`, `MCMachines`, `MCFabrics`, `MCMembers`,
`MCAccess` and `MCUfdsClients` give structured values to constants, symmetry sets,
for Machines a state constraint and for Members a view.
`NicsProofs`, `ProvisionProofs`, `MachinesProofs`, `FabricsProofs`, `RolesProofs`,
`MembersProofs`, `AccessProofs` and `UfdsClientsProofs` hold theorems.

## 3. Runs

| Run | Instance | Result |
|---|---|---|
| `nics_serial` | 2 requests, 1 machine, 2 networks, 2 MACs; calls fail, replies of three calls get lost, processes die; clients await each POST | `OneNicPerNetwork` and the refinement of `NicLedger` hold |
| `nics_shared` | 2 requests, 2 machines, a pool, a server without the tag; clients do not wait | `NoPhantomNic`, `NoSharedMac`, `NoStaleNic`, `CreatedIsVisible` hold |
| `nics_live` | as above under `FairSpec`, lost replies of `addNics` included | every request is answered, no NIC stays provisioning |
| `provision_limits` | 2 POSTs, 3 machines, 4 images of which two are versions of one, 2 packages, all plugins, limits by number, memory and disk | limits by number or memory, the number for an image and the free tier are overshot by at most one machine per other POST in flight; refusals are due |
| `roles_serial` | 2 requests, 2 roles, 2 tag entries; calls fail and replies get lost; clients await the end of a request on a role | one entry per role, updates keep tags, deletes remove them, no request gives `administrator` a policy |
| `machines_quiet` | 2 requests, 2 jobs, all operations but one, failing calls and lost replies | requests that nothing overlaps have their effect, created keys stay, created snapshots exist |
| `machines_answers` | 2 requests | **violated**: an update of a deleted machine is answered twice |
| `fabrics` | 3 requests, 3 networks and one shared | the default exists unless deleted while being made the default |
| `members` | a request on a role and one on a user, 2 users, a policy, a role and 2 names that any of them may bear; every call may fail | roles are given who was named, answers name who is meant; undisturbed requests are right; an update answers with the user that it changed |
| `access` | one request at a time beside writes elsewhere, an account, an operator, a sub-user, a role, 3 versions of the directory; copies and caches at any age; under `FairSpec` | own accounts only; everything that lets a request in was so in the store it is read from during the request, or before it by no more than a cache's age; decisions are right while copies and caches are up to date; deletions take effect |
| `ufds_clients` | 2 requests, one url and two, plug-ins in the file, in UFDS and in both | a server that listens survives each error of its clients, calls on the local UFDS end, each client is closed once, UFDS's plug-ins prevail |
| `ufds_master` | 2 requests, two urls | **violated**: a master UFDS that hangs is never recycled, because its handler destroys the local client's socket |

The violated properties quote the repository's documentation or comments; the
quotations are under "findings" in `PROJECT.json`.

**Known divergences without a run.** The modules contain, and the properties
step around, five more places where code and text disagree:

* a second POST of a pool adds a second NIC on the same network, because
  `lib/nics.js:193` compares the NIC's network with the pool
  (`docs/index.restdown:7358` allows one NIC per network). The instance of `nics_serial` has
  no pool, and the theorem `SerialClientsGetOneNic` assumes that there is none;
* `plugins/provision_limits.js:110-124` drops a default as soon as the account has any
  limit that is relevant to the image, where `docs/admin.restdown:832-834` drops the
  defaults it overrides. `RefusalsAreDue` asks only that no POST is refused that the
  guide allows, counting disk in MiB; it does not ask for the reverse;
* a limit on disk is not kept, not even by an account that awaits each POST:
  `plugins/provision_limits.js:365-369` adds what machines have in GiB (`lib/machines.js:374`
  and `381`) to the package's MiB, where `docs/admin.restdown:772-773` has the value in
  megabytes. Two machines of 1024 MB pass a limit of 2000, the first counting as 1.
  `LimitsHold` is about number and memory; `RefusalsAreDue` is about disk as well;
* a role that is renamed to `administrator` keeps the policies it has
  (`lib/roles.js:387` looks at what the request names; compare lines 227 and
  389). `AdministratorGainsNoPolicies` says what does hold;
* a snapshot that is still in the queue shows as deleted
  (`lib/snapshots.js:265`; compare lines 91-92).

**What the passing properties leave open, on purpose.** Some promises hold only
for clients that wait. Two concurrent POSTs of one network do get two NICs,
concurrent requests on one role do make two tag entries, and a DELETE of all
metadata may lose authorized keys that a POST sets for the first time while it
runs; those races follow from reading first and writing later, and the code has
nothing against them. `Serial`, `Awaits`, `quiet` and `contended` state the condition under
which the promise does hold, and the runs and theorems show that no further
condition is needed. A lost reply of `addNics` breaks `NoPhantomNic` and
`NoSharedMac`, because the clean-up removes the record from under the queued
job: `nics_shared` therefore loses other replies only, while `nics_live`
includes it.

**Bounds.** Two requests suffice for each race found here: a race has one
request that read and one that wrote in between; a job or a machine's
destruction is an actor of its own. `fabrics` uses three, since an update, a
delete and a second update can alternate. Two MACs, two networks and two
machines are the least for which a MAC can be handed to somebody else.
`VmIds = 3` exceeds every limit in `MCProvision` by a racing pair. `provision_limits` has
an image for each plugin: the account has no limit on `node`, which leaves its free machines to
`jpc_free_tier` alone, `capi_limits` alone has a number for `base`, which `provision_limits`
limits by memory (and lets a third machine pass in a race), and Windows, whose machines `capi_limits` does not
find, is left to `provision_limits`. IMGAPI answers there, because `capi_limits` lets a
machine pass when it does not. Job and
machine identifiers are bounds on what is pending or ever created, not on the
length of a behaviour: slots are reused for ever. In `Machines` the
constraint `OnePartAndPower` keeps to states in which only one of firewall,
metadata, tags and snapshots has been touched, together with one power request
or job; these parts share no variable component in the model, as they share no
field of a machine in VMAPI, and the machine's existence, which they do share,
is power's. `SomeOps` leaves out reboot, which takes the path of stop. `members` has one
slot for requests on roles and one for requests on users: a second request on a role
writes nothing that the first reads but the role itself, which `DeleteRole` and an
earlier request of the same slot have written by then, while users and policies are
created, renamed and deleted by actions that need no slot. Its view (`Pending`)
forgets an answer that was given and what was looked up once the role is
written, neither of which is read again. `access` has one slot, since
requests in flight meet only in the directory, where `WriteElsewhere` stands for
the others; three versions are one write before and one during a request, and
two versions by which a copy or a cache may be behind, and let a key be deleted, created and
deleted again. The operator's account is also the one that others have no access to. `CHECK_DEADLOCK FALSE` is set in the other runs because the bounds (MACs, machines or
roles ever created, jobs) and destroyed machines bring the models to a stop where
the system would simply have nothing left to do.

**Fairness.** In `nics_live`, `FairSpec` is weak fairness of each
request's next step and of each job: a call is answered or its client times
out (both are outcomes of the action, and restify clients have time-outs), and
VMAPI works off its queue. Nothing forces clients to send requests, machines to
be destroyed, or calls to succeed. A process that dies takes its requests along, so
`Crashes` is off there, and so is failure of the clean-up call itself
(`deleteNic`): if both addNics and its clean-up fail, the code logs it
and gives up. In `access` replication goes on, cached entries expire (each cache has an
age in the configuration) and each call returns, with a result or an error. In `ufds_clients` and `ufds_master` timers fire, UFDS answers
while the connection is up and the client library reconnects
(`lib/app.js:151` logs "UFDS reconnected"); that a UFDS which hangs ever answers is
not assumed, because only the time-out handlers are there to deal with it.

## 4. Proofs

All theorems hold for every value of the constants under the modules' named
assumptions, which are about their types and about names being distinct.

**NicsProofs.** `TypeCorrect` rests on `TypeInv`, which ties each step to the
parameters of its request and to whether `nic` is set. `Custody` strengthens
it: a provisioning record is held by exactly one request or one pending job,
MACs have one record, and a running record is what a vNIC has. It is not
preserved if `addNics` may lose its reply, hence the hypothesis of
`PluggedNicsAreRecorded` and `MacsAreUnique`. `FailedAddsLeaveNoNic` adds
`Reliable` (no lost replies of the two writes that make a NIC, no failed
clean-up, no crash). `SerialClientsGetOneNic` needs `Serial` and no pools: its
invariant says that a request past `checkNicDoesntExist` for a network and
machine is the only one, and that no record for them exists.
`NicsKeepTheLedger` maps each action to a step of `NicLedger` or to a stutter.

`CreatedNicsAreVisible` takes from `Custody` that the record of a request in `addToVm` is
still there and its own, so that the Location of a 201 leads to it; it too needs that
`addNics` loses no reply.

**ProvisionProofs.** `TypeCorrect`; then `LimitsAreKept`: for each limit in force, by
number or memory, what is held, plus what the requests past the check will add,
never exceeds the limit by more than one machine of the largest package per other
request (`Within`). It needs `InHand`: a
machine that the index does not show yet is in the hands of the request that
created it, which is what the 200 ms are for, hence `Lag # "long"`; and
`NamesFixOs`: images of one name have one operating system, since the plugin
asks IMGAPI for names in one case and filters by OS in the other. Because `Total`
counts units in a set, the steps need only the library's facts on cardinality of
unions and subsets, and no induction over the machines.
With `Cardinality(Slots) = 1` nothing of the overshoot remains: `SerialAccountsKeepLimits`
says that an account that awaits each POST keeps these limits, lost replies of `createVm`
included. Neither is about disk, where the code keeps no limit (section 3). It needs that one package takes most (`LargestExists`), which for finitely many
packages follows from the library's theorem that strict inclusion is well-founded on
finite sets.
`FreeTierIsBounded` and `CapiLimitsAreKept` are the same argument for the plugins that
count machines, each with its own set of requests and of steps after the check
(`NumberStep`). `CapiLimitsAreKept` is about zones only, since the plugin searches by
`image_uuid`, and assumes that IMGAPI lists the images: when it does not, the plugin logs
the error and lets the machine pass. The run has the same assumption.
`RefusalsHaveCause` needs neither hypothesis, since it compares with what the index
shows. A POST is refused in one step (`Unanswered` until then), and every limit that
`FilterLimits` lets through is one that the guide applies, counting the same machines. Of disk
the plugin counts GiB where the guide counts MiB, so what it counts is never more, provided
that each package has at least the 10 MiB that a KVM machine counts.

**FabricsProofs.** `TypeCorrect` and `DefaultStays`. `DefaultNetworkExists`
alone is not inductive: it needs that an UpdateConfig that saw its network in
the list still finds it or is contended (`Listed`), that a DELETE which saw
another default is still not about the default or is contended
(`NotDefault`), and that two requests in flight on one network are recorded
(`Recorded`).

**MachinesProofs.** `TypeCorrect` and `CreatedKeysAreKept`. That keys of
`create()` stay needs to be known of three things at once: of the machine
(`VmInv`), of every job, which must neither remove such a key nor store anything
but a client's value under it (`GoodJobs`), and of a DELETE of all metadata
between its two calls, which must have read them (`StepInv`).
`QuietRequestsAreServed` is the property of
`machines_quiet` without its bound of one part and the power at a time. A quiet
request has its part of the machine to itself until its job is queued
(`RequestsAlone`), its job from then on (`JobsAlone`); so what the request read
still holds when it acts on it (`ReadsHold`), and what the job sets and removes is
still right when it runs (`JobsRight`), because jobs keep to their field of the
machine (`OwnFields`). `HandleEffect` reduces the thirteen handlers to
three kinds of step: an answer, a read, a job. `CreatedSnapshotsAreThere` adds
`SnapshotInv`: what a quiet GET of a snapshot has read of the machine is still so when the jobs are
listed.

**RolesProofs.** `TypeCorrect` for any clients; the other four for clients that
await the end of a request on a role (`Awaits = "end"`), whatever calls are
refused or lose their reply. `OneEntryPerRole` is not inductive: `Alone`
(no two requests on one role), `UuidsDiffer` and `Known` (past `LoadResource` a request
has the uuid of its role's entry, or there is none) have to come along, and `Born`,
so that a role's first request meets no entry.
`KnownTags` and `Checked` say that the tags loaded and the check of the
administrator are still right at the write; `UpdatesKeepTags` and
`AdministratorGainsNoPolicies` follow. `DeletedLoseTags` assumes
further that the last call is not refused, since the code has answered by then.

**MembersProofs.** `TypeCorrect`: in a table of the cache each record stands under
its id or name, and no user in the table of policies (`TableAt`), which is what a lookup by a
key relies on. `Given` and `Borne` are the action properties `GivenAsNamed`
and `AnsweredAsBorne`, for any number of users, policies, roles and
requests. Their invariant (`RoleAt`) says that what a request holds of others, in its cache,
among what it looked up and in the answer it has begun, was so at some time since
it came, and that what it looked up went by the names it asked for; and that
an idle request holds nothing (`IdleAt`), which is where a cache that outlived its request
would break it. `Undisturbed` and `UpdatesAnswered` have an invariant of their own (`AloneInv`),
of which all but `Unique` (a login is borne by one user) and `UserAsked` (what an update
found goes by its path) is about requests that no other has disturbed by a write:
cached records are as UFDS has them
(`FreshAt`), each attribute past its search was found in full (`LookedUpAt`), the role is as it was
read or written with what was found (`WrittenAt`), the answer so far has the names of the
ids of the role (`TranslatedAt`), and the user of an update has the login it asked for
(`UserKnown`). The lemma that carries them is `LoadedFresh`: with a fresh cache and unique names,
what is cached and a search for the rest are together what one search for all finds.

**AccessProofs.** `TypeCorrect`, `OwnAccount`, `Evidence` and `DecisionsAreGrants`, for every
directory, every set of requests and any number of writes. For each step
the invariant says which evidence has been gathered: whose account it is (`AccountAt`), the key and
the user (`AuthenticAt`), tags, active roles and rules (`RolesAt`). Evidence
is about the versions that a read may have taken since the request arrived, the oldest
that was still cached then included, and is kept because versions are only added and neither
copies nor caches move back (`Since`). Most steps only read, which `OnlyReads` says once. `DecisionsAreGrants`, that decisions are
those of the directory while nothing is written and copies and caches are up to date (`UpToDate`), has
`QuietInv`: a signed request that no write has disturbed has read each thing from one version,
the last.

**UfdsClientsProofs.** `TypeCorrect`, `EachClosedOnce`, `UfdsPrevails` and `LossIsSurvived`. A
client is closed once because the chain of `close` has one client at a time, and what it
has counted so far follows from which connection is closed (`CloseInv`). `UfdsPrevails` needs
to know of the list of plug-ins only what `LoadPlugins` makes of it (`LoadedInv`); a file that
names a plug-in twice is allowed, and then only the plug-ins of UFDS are named once.
`LossIsSurvived` rests on `ListenerInv`: a client that was connected has the listener that logs,
and a server listens only after each of its clients was.

**Model-checked only.** The liveness properties `RequestsEnd`, `ProvisioningEnds`,
`DeletionsTakeEffect` and `CallsOnLocalEnd`: fairness and `ENABLED` are beyond
this prover. Every invariant and action property of the passing runs is stated by a theorem; where
a property needs clients that wait, an index that keeps up or replies that arrive, the
theorem says so in its hypotheses (`Serial`, `Awaits`, `Lag`, `Reliable`, `Losing`) and the run
in its constants.

## 5. Not modelled

* Of authentication, the tokens of keyapi, the data centers that an account may
  use and how a signature is verified; the language of policies' rules is data.
* The cache of the UFDS client, except in `Access`. Roles, users, policies and the
  default network are read as UFDS has them, while the code may see an entry for as long as
  the cache keeps it; the promises of `Roles`, `Members` and `Fabrics` are about a
  cache that has expired or is off (`ufds.cache` of the configuration).
* The owner of a NIC (`lib/nics.js:398`): a NIC of another account is answered like one
  that does not exist, and the account modelled is the only one.
* The end of start-up. While the first connection is being made no timer runs
  (`lib/app.js:146-162`), so a UFDS that neither accepts nor refuses keeps the server
  waiting; no property says otherwise.
* Formats, schemas, the 6.5 dialect, response headers, audit records.
* The payload of `createVm` (networks chosen, placement, passwords, role tags).
* `list` and `get` operations, except those that combine several reads (GET of
  a snapshot, of a role, of a user with its roles). The list of roles
  (`lib/roles.js:353`) and of snapshots have rules of their own.
* Role tags of resources that are not roles: the same code, with other paths.
* Accounts, firewall rules, images: single calls that forward what they are
  given.
* `lib/analytics.js`, `datacenters.js`, `services.js`, `docs.js`,
  `throttle.js` (restify's token bucket), `bleeding-edge.js` (unused),
  `bench/`, `deps/`, `tools/`, `boot/`, `node-http-signature`.

## 6. Plan

1. `Nics`, `NicLedger`, `NicsProofs` – done.
2. `Limits`, `Provision`, `ProvisionProofs` – done.
3. `Roles`, `RolesProofs` – done.
4. `Machines`, `MachinesProofs` – done.
5. `Fabrics`, `FabricsProofs` – done.
6. `UfdsClients`, `UfdsClientsProofs` – done.
7. `Members`, `MembersProofs` – done.
8. `Access`, `AccessProofs` – done.
9. Later: an abstract specification for role tags (a role's tags change only by
   requests that name tags or delete the role) that `Roles` implements, with its
   proof; the list of snapshots with the jobs' order; role tags in `Provision`.
