----------------------------- MODULE Provision -----------------------------
(***************************************************************************)
(* Creating machines under provisioning limits: the CreateMachine chain of *)
(* lib/machines.js with its preProvision plugins.                          *)
(*                                                                         *)
(* A plugin counts the machines VMAPI lists and lets the request go on;    *)
(* VMAPI hears of the new machine several calls later, so requests in      *)
(* flight at once are not counted by each other. The requests are those of *)
(* one account; each action is one call with the local code that follows   *)
(* its reply.                                                              *)
(***************************************************************************)
EXTENDS Limits

CONSTANTS
    Slots,         \* POSTs of the account in flight at once
    VmIds,         \* bound: machines ever created
    Packages,
    Ram,           \* [Packages -> Nat]
    Quota,         \* [Packages -> Nat], disk in MiB
    Offered,       \* pairs of an image and a package that are both active
    Fitting,       \* pairs that create() accepts
    FreePackages,  \* jpc_free_tier: the packages of the offering
    Eligible,      \* jpc_free_tier: whether the account is new enough
    IsAdmin,       \* whether the account is an administrator's
    Plugins,       \* the plugins that are enabled
    Rejecting,     \* calls that may fail without taking effect
    Losing,        \* calls that may take effect and lose their reply
    Kvm,           \* the images of KVM machines: their image and quota are a disk's
    Lag            \* how long VMAPI's index may miss a machine just created

Calls == {"load", "listLimits", "listImages", "countVms", "listKeys", "createVm", "getVm"}

ASSUME ProvisionAssumption ==
    /\ IsFiniteSet(Slots) /\ Slots # {}
    /\ IsFiniteSet(VmIds)
    /\ "none" \notin VmIds
    /\ Ram \in [Packages -> Nat]
    /\ Quota \in [Packages -> Nat]
    /\ Offered \subseteq (Images \X Packages)
    /\ Fitting \subseteq (Images \X Packages)
    /\ FreePackages \subseteq Packages
    /\ {Eligible, IsAdmin} \subseteq BOOLEAN
    /\ Kvm \subseteq Images
    /\ Lag \in {"none", "short", "long"}  \* "short": under the 200 ms of create()
    /\ Plugins \subseteq {"provision_limits", "capi_limits", "jpc_free_tier"}
    /\ Rejecting \subseteq Calls
    /\ Losing \subseteq {"createVm"}

VARIABLES
    vms,      \* VMAPI: the account's machines
    listed,   \* VMAPI: the machines its index knows
    pc,       \* the next call of each request
    req,      \* the image and the package each request asks for
    made,     \* the reply of createVm: the machine's id
    answer    \* how the latest request of each slot was answered

vars == <<vms, listed, pc, req, made, answer>>
backend == <<vms, listed>>

States == {"provisioning", "running", "failed", "destroyed"}

Vm == [image: Images, package: Packages, state: States]

NoVm == [state |-> "none"]

NoId == "none"

Request == [image: Images, package: Packages]

NoRequest == [image |-> "none"]

Steps == {"idle", "load", "provision_limits", "capi_limits", "jpc_free_tier",
          "loadSSHKeys", "createVm", "getVm"}

Answers == {"none", "201", "403", "409", "error"}

-----------------------------------------------------------------------------
(* What VMAPI lists and what the plugins make of it. *)

Active(v) == vms[v].state \in {"provisioning", "running"}

Listing == {v \in listed : Active(v)}

\* The images that tell the plugin what its machines run: those with the operating
\* system of the image asked for if a limit checks it, else those with its name.
Fetched(image) ==
    IF \E l \in FilterLimits(image) : l.check = "os" /\ l.value # 0
    THEN {i \in Images : OsOf[i] = OsOf[image]}
    ELSE {i \in Images : NameOf[i] = NameOf[image]}

\* The machines of a limit: all of them, those with the operating system or those
\* with the name of the image asked for.
Counted(l, image, machines) ==
    {v \in machines :
        \/ CatchAll(l)
        \/ /\ vms[v].image \in Fetched(image)
           /\ \/ l.check = "os" /\ OsOf[vms[v].image] = OsOf[image]
              \/ l.check = "image" /\ NameOf[vms[v].image] = NameOf[image]}

\* What the machine asked for adds to the count of a limit: disk in MiB.
Increment(by, package) ==
    CASE by = "ram" -> Ram[package]
      [] by = "quota" -> Quota[package]
      [] by = "machines" -> 1

\* What a machine adds once VMAPI lists it: disk in whole GiB, as create() gave it, and
\* for a KVM machine the 10 GiB of its root dataset whatever its package.
Size(by, vm) ==
    IF by # "quota" THEN Increment(by, vm.package)
    ELSE IF vm.image \in Kvm THEN 10
    ELSE Quota[vm.package] \div 1024

\* The sum of the sizes: the units they are made of.
Total(size) == Cardinality(UNION {{x} \X (1..size[x]) : x \in DOMAIN size})

\* The sum over the machines of a limit as they are listed.
Sum(by, machines) == Total([v \in machines |-> Size(by, vms[v])])

\* Mutant: the machine asked for is not counted.
SatisfiesWithoutSelf(l, r) ==
    l.value = 0 \/ (l.value > 0 /\ Sum(l.by, Counted(l, r.image, Listing)) <= l.value)

\* -1 forbids, 0 is no limit.
Satisfies(l, r) ==
    \/ l.value = 0
    \/ /\ l.value > 0
       /\ Sum(l.by, Counted(l, r.image, Listing)) + Increment(l.by, r.package) <= l.value

\* Mutant: machines of another version of the image are not counted.
SameImage(image) == {v \in Listing : vms[v].image \notin Kvm /\ vms[v].image = image}

\* capi_limits looks for machines by their image_uuid, which only zones have.
SameName(image) ==
    {v \in Listing : vms[v].image \notin Kvm /\ NameOf[vms[v].image] = NameOf[image]}

\* Mutant: jpc_free_tier does not count what is still provisioning.
FreeRunning ==
    {v \in Listing : vms[v].state = "running" /\ vms[v].package \in FreePackages}

FreeMachines == {v \in Listing : vms[v].package \in FreePackages}

-----------------------------------------------------------------------------
Init ==
    /\ vms = [v \in VmIds |-> NoVm]
    /\ listed = {}
    /\ pc = [s \in Slots |-> "idle"]
    /\ req = [s \in Slots |-> NoRequest]
    /\ made = [s \in Slots |-> NoId]
    /\ answer = [s \in Slots |-> "none"]

Goto(s, step) ==
    /\ pc' = [pc EXCEPT ![s] = step]
    /\ UNCHANGED <<req, answer>>

\* Mutant: the id of the machine outlives its request.
RespondKeepingMade(s, code) ==
    /\ pc' = [pc EXCEPT ![s] = "idle"]
    /\ req' = [req EXCEPT ![s] = NoRequest]
    /\ answer' = [answer EXCEPT ![s] = code]
    /\ UNCHANGED made

Respond(s, code) ==
    /\ pc' = [pc EXCEPT ![s] = "idle"]
    /\ req' = [req EXCEPT ![s] = NoRequest]
    /\ made' = [made EXCEPT ![s] = NoId]
    /\ answer' = [answer EXCEPT ![s] = code]

Rejected(s, call) ==
    /\ call \in Rejecting
    /\ Respond(s, "error")
    /\ UNCHANGED backend

Pass(s, step) ==
    /\ Goto(s, step)
    /\ UNCHANGED <<made, backend>>

Refuse(s) ==
    /\ Respond(s, "403")
    /\ UNCHANGED backend

Arrive(s) ==
    /\ pc[s] = "idle"
    /\ \E r \in Request : req' = [req EXCEPT ![s] = r]
    /\ pc' = [pc EXCEPT ![s] = "load"]
    /\ answer' = [answer EXCEPT ![s] = "none"]
    /\ UNCHANGED <<made, backend>>

-----------------------------------------------------------------------------
(* POST /:account/machines. The plugins run in the order of the configuration,
   here provision_limits, capi_limits, jpc_free_tier.                      *)

\* The image, the package and the networks, in the chain of every request.
Load(s) ==
    /\ pc[s] = "load"
    /\ \/ Rejected(s, "load")
       \/ Pass(s, "provision_limits")

\* A plugin that is enabled and has an opinion on the account.
Enabled(plugin) == plugin \in Plugins /\ ~IsAdmin

\* listLimits(), then listImages() and listVms() unless the limits decide alone,
\* then one limit after the other.
ProvisionLimits(s) ==
    /\ pc[s] = "provision_limits"
    /\ LET limits == FilterLimits(req[s].image)
       IN  \/ /\ Enabled("provision_limits")
              /\ \/ Rejected(s, "listLimits")
                 \/ /\ \A l \in limits : l.value >= 0
                    /\ \E l \in limits : l.value > 0
                    /\ Rejected(s, "listImages") \/ Rejected(s, "countVms")
           \/ IF Enabled("provision_limits") => \A l \in limits : Satisfies(l, req[s])
              THEN Pass(s, "capi_limits")
              ELSE Refuse(s)

\* A limit of 0 asks nothing of VMAPI, and without a list of images the machine is
\* allowed.
CapiLimits(s) ==
    /\ pc[s] = "capi_limits"
    /\ LET limit == CapiLimit(req[s].image)
       IN  \/ Enabled("capi_limits") /\ Rejected(s, "listLimits")
           \/ Enabled("capi_limits") /\ limit > 0 /\ Rejected(s, "countVms")
           \/ /\ Enabled("capi_limits") /\ limit > 0 /\ "listImages" \in Rejecting
              /\ Pass(s, "jpc_free_tier")
           \/ IF Enabled("capi_limits") =>
                    limit = 0 \/ Cardinality(SameName(req[s].image)) < limit
              THEN Pass(s, "jpc_free_tier")
              ELSE Refuse(s)

FreeTier(s) ==
    /\ pc[s] = "jpc_free_tier"
    /\ LET applies == Enabled("jpc_free_tier") /\ req[s].package \in FreePackages
       IN  \/ applies /\ Eligible /\ Rejected(s, "countVms")
           \/ IF applies => Eligible /\ FreeMachines = {}
              THEN Pass(s, "loadSSHKeys")
              ELSE Refuse(s)

\* ensureDataset(), ensurePackage() and checkPassword() first. The account may
\* have lost its last key, and the image may not need one.
LoadSSHKeys(s) ==
    /\ pc[s] = "loadSSHKeys"
    /\ \/ Rejected(s, "listKeys")
       \/ /\ <<req[s].image, req[s].package>> \notin Offered
          /\ Respond(s, "error")
          /\ UNCHANGED backend
       \/ /\ <<req[s].image, req[s].package>> \in Offered
          /\ \/ Pass(s, "createVm")
             \/ Respond(s, "409") /\ UNCHANGED backend

\* What create() itself asks of the image, the package and the networks.
Fits(r) == <<r.image, r.package>> \in Fitting

\* The machine that the parameters of createVm describe.
Created(r) == [image |-> r.image, package |-> r.package, state |-> "provisioning"]

\* The machine is in VMAPI's index at once or later; a lost reply shows as a timeout.
CreateVm(s) ==
    /\ pc[s] = "createVm"
    /\ \/ Rejected(s, "createVm")
       \/ /\ ~Fits(req[s])
          /\ Respond(s, "error")
          /\ UNCHANGED backend
       \/ /\ Fits(req[s])
          /\ \E v \in VmIds :
                /\ vms[v] = NoVm
                /\ vms' = [vms EXCEPT ![v] = Created(req[s])]
                /\ \/ listed' = listed \cup {v}
                   \/ Lag # "none" /\ UNCHANGED listed
                /\ \/ Goto(s, "getVm") /\ made' = [made EXCEPT ![s] = v]
                   \/ /\ "createVm" \in Losing
                      /\ v \in listed' \/ Lag = "long"
                      /\ Respond(s, "error")

\* 200 ms later: the machine is listed, unless the index lags behind more.
GetVm(s) ==
    /\ pc[s] = "getVm"
    /\ made[s] \in listed \/ Lag = "long"
    /\ \/ Rejected(s, "getVm")
       \/ /\ Respond(s, IF made[s] \in listed THEN "201" ELSE "error")
          /\ UNCHANGED backend

-----------------------------------------------------------------------------
(* VMAPI: the provision job, the end of a machine, the index. *)

Become(v, from, to) ==
    /\ vms[v].state \in from
    /\ vms' = [vms EXCEPT ![v].state = to]
    /\ UNCHANGED <<listed, pc, req, made, answer>>

ProvisionEnds(v) ==
    \/ Become(v, {"provisioning"}, "running")
    \/ Become(v, {"provisioning"}, "failed")

DestroyVm(v) == Become(v, {"running", "failed"}, "destroyed")

Index(v) ==
    /\ vms[v] # NoVm
    /\ v \notin listed
    /\ listed' = listed \cup {v}
    /\ UNCHANGED <<vms, pc, req, made, answer>>

-----------------------------------------------------------------------------
Handle(s) ==
    \/ Load(s)
    \/ ProvisionLimits(s)
    \/ CapiLimits(s)
    \/ FreeTier(s)
    \/ LoadSSHKeys(s)
    \/ CreateVm(s)
    \/ GetVm(s)

Next ==
    \/ \E s \in Slots : Arrive(s) \/ Handle(s)
    \/ \E v \in VmIds : ProvisionEnds(v) \/ DestroyVm(v) \/ Index(v)

Spec == Init /\ [][Next]_vars

-----------------------------------------------------------------------------
(* Properties. *)

TypeOK ==
    /\ vms \in [VmIds -> Vm \cup {NoVm}]
    /\ listed \subseteq {v \in VmIds : vms[v] # NoVm}
    /\ pc \in [Slots -> Steps]
    /\ req \in [Slots -> Request \cup {NoRequest}]
    /\ made \in [Slots -> VmIds \cup {NoId}]
    /\ \A s \in Slots : made[s] # NoId <=> pc[s] = "getVm"
    /\ answer \in [Slots -> Answers]

\* The account's machines that a limit is about.
Held(l) == {v \in VmIds : Active(v) /\ Relevant(vms[v].image, l)}

\* A limit that provision_limits applies to every image it is about.
InForce(l) ==
    /\ Enabled("provision_limits")
    /\ l.value > 0
    /\ \A i \in Images : Relevant(i, l) => l \in FilterLimits(i)

\* What machines take in the units of the guide and of their packages: disk in MiB.
Amount(by, machines) == Total([v \in machines |-> Increment(by, vms[v].package)])

Largest(by) == {p \in Packages : \A q \in Packages : Increment(by, q) <= Increment(by, p)}

\* No more than the limit, but for one machine of each other request in flight.
HeldWithin(l) ==
    \A p \in Largest(l.by) :
        Amount(l.by, Held(l)) <= l.value + (Cardinality(Slots) - 1) * Increment(l.by, p)

\* Limits on the number of machines and on memory. Requests that race past the check
\* before either machine exists overshoot a limit, but each by no more than one
\* machine; requests one after the other do not, even when the replies of createVm get
\* lost. Limits on disk do not hold in the code, which counts what the account's
\* machines have in GiB and what is asked for in MiB (Sum).
LimitsHold ==
    \A l \in Defaults \cup Parsed : InForce(l) /\ l.by # "quota" => HeldWithin(l)

\* In the same way the free tier of an account is one machine per POST in flight.
FreeTierHolds ==
    Enabled("jpc_free_tier") =>
        Cardinality({v \in VmIds : Active(v) /\ vms[v].package \in FreePackages})
            <= Cardinality(Slots)

\* The account's machines that capi_limits finds when it searches for an image's name.
NamedAs(image) ==
    {v \in VmIds : /\ Active(v)
                   /\ vms[v].image \notin Kvm
                   /\ NameOf[vms[v].image] = NameOf[image]}

\* Where capi_limits has a number for an image, the account has no more machines of the
\* image's name, whatever their version, than that and one for each other POST in flight.
CapiLimitsHold ==
    Enabled("capi_limits") =>
        \A image \in Images : CapiLimit(image) > 0 =>
            Cardinality(NamedAs(image)) <= CapiLimit(image) + Cardinality(Slots) - 1

\* No POST is refused by provision_limits while a machine more would satisfy every limit
\* that the administrator's guide says applies to it, disk in megabytes.
RefusalsAreDue ==
    [][\A s \in Slots :
        pc[s] = "provision_limits" /\ answer'[s] = "403" =>
            \E l \in DocumentedLimits(req[s].image) :
                \/ l.value < 0
                \/ /\ l.value > 0
                   /\ Amount(l.by, {v \in Held(l) : v \in listed})
                          + Increment(l.by, req[s].package) > l.value]_vars

=============================================================================
