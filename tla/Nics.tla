-------------------------------- MODULE Nics --------------------------------
(***************************************************************************)
(* Adding NICs to machines and removing them (lib/nics.js).                *)
(*                                                                         *)
(* A request runs through a vasync pipeline of calls to three back ends    *)
(* that share nothing: NAPI keeps the NIC records, VMAPI queues the jobs   *)
(* that change machines, and the machines themselves carry the vNICs.      *)
(* One action is one back-end call with the local code that follows its    *)
(* reply; other requests and jobs run between two calls of a request.      *)
(***************************************************************************)
EXTENDS Naturals, FiniteSets

CONSTANTS
    Slots,      \* requests in flight at once, over all cloudapi processes
    Vms,        \* machines of one account
    Networks,   \* NAPI networks
    Pools,      \* NAPI network pools
    Members,    \* [Pools -> SUBSET Networks], the networks of a pool
    Usable,     \* networks and pools the account may provision on
    Reachable,  \* [Vms -> SUBSET], those whose NIC tag the VM's server has
    Macs,       \* MAC addresses NAPI can hand out
    JobIds,     \* bound: jobs pending in VMAPI at once
    NoMac,      \* "nic" before addToNapi() has filled it in
    Rejecting,  \* back-end calls that may fail without taking effect
    Losing,     \* back-end calls that may take effect and lose their reply
    Crashes,    \* whether a cloudapi process may die between two calls
    Serial      \* whether clients await a POST before repeating it

Targets == Networks \cup Pools

WriteCalls == {"provisionNic", "deleteNic", "addNics", "removeNics"}

ReadCalls == {"getVm", "getNetwork", "listNics", "listServerNics", "getNic"}

\* A read that loses its reply is a read that fails: only writes are in Losing.
ASSUME NicsAssumption ==
    /\ Members \in [Pools -> SUBSET Networks]
    /\ Reachable \in [Vms -> SUBSET Targets]
    /\ Usable \subseteq Targets
    /\ Networks \cap Pools = {}
    /\ NoMac \notin Macs
    /\ Rejecting \subseteq (ReadCalls \cup WriteCalls)
    /\ Losing \subseteq WriteCalls
    /\ Crashes \in BOOLEAN
    /\ Serial \in BOOLEAN

VARIABLES
    nics,    \* NAPI: the records of NICs that belong to machines
    vnics,   \* the machines: which MAC is plugged into which machine
    jobs,    \* VMAPI: the add and remove jobs that have not run yet
    alive,   \* VMAPI: the machines that are not destroyed
    pc,      \* the next call of each request
    req,     \* each request's parameters
    nic,     \* the handler's "nic" variable, its MAC
    answer   \* how the latest request of each slot was answered

vars == <<nics, vnics, jobs, alive, pc, req, nic, answer>>
backends == <<nics, vnics, jobs, alive>>

Nic == [mac: Macs, vm: Vms, network: Networks, state: {"provisioning", "running"}]

Job == [id: JobIds, op: {"add", "remove"}, vm: Vms, mac: Macs]

AddRequest == [op: {"add"}, vm: Vms, network: Targets]

RemoveRequest == [op: {"remove"}, vm: Vms, mac: Macs]

NoRequest == [op |-> "none"]

Request == AddRequest \cup RemoveRequest \cup {NoRequest}

AddSteps == {"getNetwork", "checkNicDoesntExist", "checkServerHasTag",
             "addToNapi", "addToVm", "removeFromNapi"}

RemoveSteps == {"checkNicExists", "removeFromNics"}

Steps == {"idle", "getMachine"} \cup AddSteps \cup RemoveSteps

Answers == {"none", "201", "204", "302", "error"}

-----------------------------------------------------------------------------
(* What the back ends do. *)

Listed(mac) == \E n \in nics : n.mac = mac

\* NAPI's provisionNic(): a NIC on the network asked for or, for a pool, on one
\* of its networks, with a MAC that no NIC has.
Provisioned(vm, target) ==
    {n \in Nic : /\ n.vm = vm
                 /\ n.state = "provisioning"
                 /\ ~Listed(n.mac)
                 /\ IF target \in Pools THEN n.network \in Members[target]
                                        ELSE n.network = target}

Without(mac) == {n \in nics : n.mac # mac}

\* VMAPI takes a job for a machine that is not destroyed.
Accepts(vm) == vm \in alive /\ \E id \in JobIds : \A j \in jobs : j.id # id

Queue(op, vm, mac) ==
    \E id \in JobIds :
        /\ \A j \in jobs : j.id # id
        /\ jobs' = jobs \cup {[id |-> id, op |-> op, vm |-> vm, mac |-> mac]}

-----------------------------------------------------------------------------
Init ==
    /\ nics = {}
    /\ vnics = {}
    /\ jobs = {}
    /\ alive = Vms
    /\ pc = [s \in Slots |-> "idle"]
    /\ req = [s \in Slots |-> NoRequest]
    /\ nic = [s \in Slots |-> NoMac]
    /\ answer = [s \in Slots |-> "none"]

Goto(s, step) ==
    /\ pc' = [pc EXCEPT ![s] = step]
    /\ UNCHANGED <<req, answer>>

Respond(s, code) ==
    /\ pc' = [pc EXCEPT ![s] = "idle"]
    /\ nic' = [nic EXCEPT ![s] = NoMac]
    /\ answer' = [answer EXCEPT ![s] = code]
    /\ req' = [req EXCEPT ![s] = NoRequest]

\* Mutant: the error is answered without the clean-up.
FailWithoutCleanup(s) == Respond(s, "error")

\* The pipeline's final callback with an error: clean NAPI up if a NIC was
\* created there, else answer.
Fail(s) ==
    IF nic[s] # NoMac
    THEN Goto(s, "removeFromNapi") /\ UNCHANGED nic
    ELSE Respond(s, "error")

\* A call whose reply is an error, although it did nothing.
Rejected(s, call) ==
    /\ call \in Rejecting
    /\ Fail(s)
    /\ UNCHANGED backends

\* Two POSTs of one network to one machine overlap unless clients wait.
Overlaps(s, r) ==
    /\ pc[s] # "idle"
    /\ req[s].op = "add"
    /\ req[s].vm = r.vm
    /\ req[s].network = r.network

Arrive(s) ==
    /\ pc[s] = "idle"
    /\ \E r \in AddRequest \cup RemoveRequest :
        /\ Serial /\ r.op = "add" => \A t \in Slots : ~Overlaps(t, r)
        /\ req' = [req EXCEPT ![s] = r]
    /\ pc' = [pc EXCEPT ![s] = "getMachine"]
    /\ answer' = [answer EXCEPT ![s] = "none"]
    /\ UNCHANGED <<nic, backends>>

-----------------------------------------------------------------------------
(* POST /:account/machines/:machine/nics, and getMachine() of both routes.
   VMAPI still describes a machine that was destroyed.                     *)

GetMachine(s) ==
    /\ pc[s] = "getMachine"
    /\ \/ Rejected(s, "getVm")
       \/ /\ Goto(s, IF req[s].op = "add" THEN "getNetwork" ELSE "checkNicExists")
          /\ UNCHANGED <<nic, backends>>

\* getNetworkPool() and then getNetwork(): two reads of the same unchanging data.
GetNetwork(s) ==
    /\ pc[s] = "getNetwork"
    /\ \/ Rejected(s, "getNetwork")
       \/ /\ IF req[s].network \in Usable
             THEN Goto(s, "checkNicDoesntExist") /\ UNCHANGED nic
             ELSE Fail(s)
          /\ UNCHANGED backends

\* Mutant: only NICs that are already running count.
RunningNetworkNics(s) ==
    {n \in nics : n.vm = req[s].vm /\ n.network = req[s].network /\ n.state = "running"}

\* The filter compares the uuid in the request, a network's or a pool's, with
\* the network each NIC is on.
NetworkNics(s) == {n \in nics : n.vm = req[s].vm /\ n.network = req[s].network}

CheckNicDoesntExist(s) ==
    /\ pc[s] = "checkNicDoesntExist"
    /\ \/ Rejected(s, "listNics")
       \/ /\ IF NetworkNics(s) = {}
             THEN Goto(s, "checkServerHasTag") /\ UNCHANGED nic
             ELSE IF \A m, n \in NetworkNics(s) : m = n
                  THEN Respond(s, "302")
                  ELSE Fail(s)
          /\ UNCHANGED backends

CheckServerHasTag(s) ==
    /\ pc[s] = "checkServerHasTag"
    /\ \/ Rejected(s, "listServerNics")
       \/ /\ IF req[s].network \in Reachable[req[s].vm]
             THEN Goto(s, "addToNapi") /\ UNCHANGED nic
             ELSE Fail(s)
          /\ UNCHANGED backends

\* Mutant: the reply is not kept in "nic".
AddToNapiForgetsNic(s) ==
    /\ pc[s] = "addToNapi"
    /\ \E n \in Provisioned(req[s].vm, req[s].network) :
        /\ nics' = nics \cup {n}
        /\ Goto(s, "addToVm")
        /\ UNCHANGED <<nic, vnics, jobs, alive>>

\* With its reply lost, "nic" stays empty and nothing will be cleaned up. NAPI
\* refuses when it has nothing left to hand out.
AddToNapi(s) ==
    /\ pc[s] = "addToNapi"
    /\ \/ Rejected(s, "provisionNic")
       \/ /\ Provisioned(req[s].vm, req[s].network) = {}
          /\ Fail(s)
          /\ UNCHANGED backends
       \/ \E n \in Provisioned(req[s].vm, req[s].network) :
            /\ nics' = nics \cup {n}
            /\ \/ Goto(s, "addToVm") /\ nic' = [nic EXCEPT ![s] = n.mac]
               \/ "provisionNic" \in Losing /\ Fail(s)
            /\ UNCHANGED <<vnics, jobs, alive>>

\* addToVm() and, in the same turn, writeResult().
AddToVm(s) ==
    /\ pc[s] = "addToVm"
    /\ \/ Rejected(s, "addNics")
       \/ /\ ~Accepts(req[s].vm)
          /\ Fail(s)
          /\ UNCHANGED backends
       \/ /\ Accepts(req[s].vm)
          /\ Queue("add", req[s].vm, nic[s])
          /\ \/ Respond(s, "201")
             \/ "addNics" \in Losing /\ Fail(s)
          /\ UNCHANGED <<nics, vnics, alive>>

\* One attempt; an error of the clean-up is logged and dropped.
RemoveFromNapi(s) ==
    /\ pc[s] = "removeFromNapi"
    /\ \/ "deleteNic" \in Rejecting /\ UNCHANGED nics
       \/ nics' = Without(nic[s])
    /\ Respond(s, "error")
    /\ UNCHANGED <<vnics, jobs, alive>>

-----------------------------------------------------------------------------
(* DELETE /:account/machines/:machine/nics/:mac. The NIC is looked up by its
   MAC alone.                                                              *)

\* Mutant: no callback when NAPI does not know the MAC.
CheckNicExistsHangs(s) ==
    /\ pc[s] = "checkNicExists"
    /\ Listed(req[s].mac)
    /\ Goto(s, "removeFromNics")
    /\ UNCHANGED <<nic, backends>>

\* A NIC of another owner is answered like one that NAPI does not know; nics has the
\* account's only.
CheckNicExists(s) ==
    /\ pc[s] = "checkNicExists"
    /\ \/ Rejected(s, "getNic")
       \/ /\ IF Listed(req[s].mac)
             THEN Goto(s, "removeFromNics") /\ UNCHANGED nic
             ELSE Fail(s)
          /\ UNCHANGED backends

\* Mutant: the record is deleted at once, ahead of the job.
RemoveFromNicsAndNapi(s) ==
    /\ pc[s] = "removeFromNics"
    /\ Accepts(req[s].vm)
    /\ Queue("remove", req[s].vm, req[s].mac)
    /\ nics' = Without(req[s].mac)
    /\ Respond(s, "204")
    /\ UNCHANGED <<vnics, alive>>

RemoveFromNics(s) ==
    /\ pc[s] = "removeFromNics"
    /\ \/ Rejected(s, "removeNics")
       \/ /\ ~Accepts(req[s].vm)
          /\ Fail(s)
          /\ UNCHANGED backends
       \/ /\ Accepts(req[s].vm)
          /\ Queue("remove", req[s].vm, req[s].mac)
          /\ \/ Respond(s, "204")
             \/ "removeNics" \in Losing /\ Fail(s)
          /\ UNCHANGED <<nics, vnics, alive>>

-----------------------------------------------------------------------------
(* The jobs, and the machines they work on. A job and VMAPI's report of it to
   NAPI are one step.                                                      *)

RunAddJob(j) ==
    /\ j.op = "add"
    /\ j.vm \in alive
    /\ vnics' = vnics \cup {<<j.vm, j.mac>>}
    /\ nics' = {IF n.mac = j.mac THEN [n EXCEPT !.state = "running"] ELSE n : n \in nics}

\* The NIC of a provision that fails is removed.
FailAddJob(j) ==
    /\ j.op = "add"
    /\ nics' = Without(j.mac)
    /\ UNCHANGED vnics

RunRemoveJob(j) ==
    /\ j.op = "remove"
    /\ <<j.vm, j.mac>> \in vnics
    /\ vnics' = vnics \ {<<j.vm, j.mac>>}
    /\ nics' = Without(j.mac)

\* The NIC is not, or no longer, plugged into that machine; or the job breaks.
FailRemoveJob(j) ==
    /\ j.op = "remove"
    /\ UNCHANGED <<nics, vnics>>

RunJob(id) ==
    \E j \in jobs :
        /\ j.id = id
        /\ RunAddJob(j) \/ FailAddJob(j) \/ RunRemoveJob(j) \/ FailRemoveJob(j)
        /\ jobs' = jobs \ {j}
        /\ UNCHANGED <<alive, pc, req, nic, answer>>

\* The machine is deleted by another request, with the NICs plugged into it.
DestroyVm(v) ==
    /\ v \in alive
    /\ alive' = alive \ {v}
    /\ vnics' = {p \in vnics : p[1] # v}
    /\ nics' = {n \in nics : <<v, n.mac>> \notin vnics}
    /\ UNCHANGED <<jobs, pc, req, nic, answer>>

\* The process dies between two calls: nobody cleans up, nobody answers.
Crash(s) ==
    /\ Crashes
    /\ pc[s] # "idle"
    /\ Respond(s, "none")
    /\ UNCHANGED backends

-----------------------------------------------------------------------------
Handle(s) ==
    \/ GetMachine(s)
    \/ GetNetwork(s)
    \/ CheckNicDoesntExist(s)
    \/ CheckServerHasTag(s)
    \/ AddToNapi(s)
    \/ AddToVm(s)
    \/ RemoveFromNapi(s)
    \/ CheckNicExists(s)
    \/ RemoveFromNics(s)

Next ==
    \/ \E s \in Slots : Arrive(s) \/ Handle(s) \/ Crash(s)
    \/ \E id \in JobIds : RunJob(id)
    \/ \E v \in Vms : DestroyVm(v)

Spec == Init /\ [][Next]_vars

\* Every call is answered or times out, and VMAPI works its queue off.
FairSpec ==
    /\ Spec
    /\ \A s \in Slots : WF_vars(Handle(s))
    /\ \A id \in JobIds : WF_vars(RunJob(id))

-----------------------------------------------------------------------------
(* Properties. *)

TypeOK ==
    /\ nics \subseteq Nic
    /\ vnics \subseteq (Vms \X Macs)
    /\ jobs \subseteq Job
    /\ alive \subseteq Vms
    /\ pc \in [Slots -> Steps]
    /\ req \in [Slots -> Request]
    /\ nic \in [Slots -> Macs \cup {NoMac}]
    /\ answer \in [Slots -> Answers]

\* When clients do not repeat a POST before its answer, and name networks rather
\* than pools, a machine never gets two NICs on one network: whatever calls fail,
\* lose their reply or are never made, checkNicDoesntExist() sees every earlier
\* attempt that left a record.
OneNicPerNetwork ==
    \A m, n \in nics : m.vm = n.vm /\ m.network = n.network => m = n

\* A NIC plugged into a machine is in NAPI, on that machine and running: the
\* clean-up of a failed POST never takes the record from under a job that is
\* going to plug the NIC in. It is why the record comes first.
NoPhantomNic ==
    \A p \in vnics : \E n \in nics : n.mac = p[2] /\ n.vm = p[1] /\ n.state = "running"

\* No machine shares its MAC with another.
NoSharedMac == \A p, q \in vnics : p[2] = q[2] => p = q

\* A NIC that NAPI shows as provisioning is on its way: a request still has it in
\* hand or a job is going to plug it in. None is left by a request that failed.
NoStaleNic ==
    \A n \in nics : n.state = "provisioning" =>
        \/ \E s \in Slots : nic[s] = n.mac
        \/ \E j \in jobs : j.op = "add" /\ j.vm = n.vm /\ j.mac = n.mac

\* A POST answered 201 shows its NIC under Location at once, although the machine
\* has not got it yet, and no other request or job has taken it away meanwhile.
CreatedIsVisible ==
    [][\A s \in Slots :
        pc[s] = "addToVm" /\ pc'[s] = "idle" /\ answer'[s] = "201" =>
            \E n \in nics' : n.mac = nic[s] /\ n.vm = req[s].vm]_vars

\* The records in NAPI and the vNICs on the machines keep the ledger of NicLedger.
Ledger ==
    INSTANCE NicLedger WITH
        entries <- {[mac |-> n.mac, vm |-> n.vm, network |-> n.network] : n \in nics},
        plugged <- vnics

LedgerSpec == Ledger!Spec

\* Every request is answered.
RequestsEnd == \A s \in Slots : pc[s] # "idle" ~> pc[s] = "idle"

\* Polling the Location of a new NIC ends: it becomes running or is gone.
ProvisioningEnds ==
    \A m \in Macs :
        (\E n \in nics : n.mac = m /\ n.state = "provisioning")
            ~> ~(\E n \in nics : n.mac = m /\ n.state = "provisioning")

=============================================================================
