----------------------------- MODULE NicsProofs -----------------------------
(***************************************************************************)
(* Proofs about Nics, for any number of machines, networks, pools, MACs,   *)
(* pending jobs and concurrent requests.                                   *)
(***************************************************************************)
EXTENDS Nics, TLAPS

-----------------------------------------------------------------------------
(* Type correctness. A step only makes sense with the parameters its route
   has parsed, and the handler's "nic" variable is set exactly between
   addToNapi() and the answer.                                             *)

RequestsOK ==
    /\ pc \in [Slots -> Steps]
    /\ req \in [Slots -> Request]
    /\ nic \in [Slots -> Macs \cup {NoMac}]
    /\ answer \in [Slots -> Answers]

RouteOK(s) ==
    /\ pc[s] = "getMachine" => req[s] \in AddRequest \cup RemoveRequest
    /\ pc[s] \in AddSteps => req[s] \in AddRequest
    /\ pc[s] \in RemoveSteps => req[s] \in RemoveRequest
    /\ nic[s] # NoMac <=> pc[s] \in {"addToVm", "removeFromNapi"}

StoresOK ==
    /\ nics \subseteq Nic
    /\ vnics \subseteq (Vms \X Macs)
    /\ jobs \subseteq Job
    /\ alive \subseteq Vms

TypeInv ==
    /\ StoresOK
    /\ RequestsOK
    /\ \A s \in Slots : RouteOK(s)

USE DEF AddSteps, RemoveSteps, Steps, Answers

\* Moving on to a step of the request's own route keeps the requests well-formed.
LEMMA GotoOK ==
    ASSUME TypeInv, NEW s \in Slots, NEW step \in Steps, NEW m \in Macs \cup {NoMac},
           Goto(s, step), nic' = [nic EXCEPT ![s] = m],
           step # "idle",
           step = "getMachine" => req[s] \in AddRequest \cup RemoveRequest,
           step \in AddSteps => req[s] \in AddRequest,
           step \in RemoveSteps => req[s] \in RemoveRequest,
           m # NoMac <=> step \in {"addToVm", "removeFromNapi"}
    PROVE  RequestsOK' /\ \A t \in Slots : RouteOK(t)'
  BY DEF TypeInv, RequestsOK, RouteOK, Goto

\* So does an answer, which empties the slot.
LEMMA RespondOK ==
    ASSUME TypeInv, NEW s \in Slots, NEW code \in Answers, Respond(s, code)
    PROVE  RequestsOK' /\ \A t \in Slots : RouteOK(t)'
  <1>1. NoRequest \in Request
    BY DEF Request
  <1>2. RequestsOK'
    BY <1>1 DEF TypeInv, RequestsOK, Respond
  <1>3. ASSUME NEW t \in Slots PROVE RouteOK(t)'
    BY <1>3 DEF TypeInv, RequestsOK, RouteOK, Respond
  <1> QED
    BY <1>2, <1>3

\* And an error, which does either.
LEMMA FailOK ==
    ASSUME TypeInv, NEW s \in Slots, pc[s] # "idle", Fail(s)
    PROVE  RequestsOK' /\ \A t \in Slots : RouteOK(t)'
  <1>1. CASE nic[s] = NoMac
    BY <1>1, RespondOK DEF Fail
  <1>2. CASE nic[s] # NoMac
    <2>1. Goto(s, "removeFromNapi") /\ nic' = [nic EXCEPT ![s] = nic[s]]
      BY <1>2 DEF Fail, TypeInv, RequestsOK
    <2>2. nic[s] \in Macs \cup {NoMac} /\ req[s] \in AddRequest
      BY <1>2 DEF TypeInv, RequestsOK, RouteOK
    <2> QED
      BY <1>2, <2>1, <2>2, GotoOK
  <1> QED
    BY <1>1, <1>2

LEMMA RejectedOK ==
    ASSUME TypeInv, NEW s \in Slots, pc[s] # "idle", NEW call, Rejected(s, call)
    PROVE  TypeInv'
  <1>1. StoresOK'
    BY DEF Rejected, backends, TypeInv, StoresOK
  <1>2. RequestsOK' /\ \A t \in Slots : RouteOK(t)'
    BY FailOK DEF Rejected
  <1> QED
    BY <1>1, <1>2 DEF TypeInv

LEMMA QueueOK ==
    ASSUME TypeInv, NEW op \in {"add", "remove"}, NEW vm \in Vms, NEW mac \in Macs,
           Queue(op, vm, mac)
    PROVE  jobs' \subseteq Job
  BY DEF Queue, TypeInv, StoresOK, Job

\* What each route's parameters are.
LEMMA RequestFields ==
    /\ \A r \in AddRequest : r.op = "add" /\ r.vm \in Vms /\ r.network \in Targets
    /\ \A r \in RemoveRequest : r.op = "remove" /\ r.vm \in Vms /\ r.mac \in Macs
  BY DEF AddRequest, RemoveRequest

LEMMA HandleTypeInv ==
    ASSUME TypeInv, NEW s \in Slots, Handle(s)
    PROVE  TypeInv'
  <1> USE RequestFields
  <1>m. nic = [nic EXCEPT ![s] = nic[s]] /\ nic[s] \in Macs \cup {NoMac}
    BY DEF TypeInv, RequestsOK
  <1>r. RouteOK(s)
    BY DEF TypeInv
  <1>b. UNCHANGED backends => StoresOK'
    BY DEF backends, TypeInv, StoresOK
  <1>1. CASE GetMachine(s)
    <2>1. CASE Rejected(s, "getVm")
      BY <1>1, <2>1, RejectedOK DEF GetMachine
    <2>2. CASE Goto(s, "getNetwork") /\ req[s].op = "add" /\ UNCHANGED <<nic, backends>>
      <3>1. req[s] \in AddRequest /\ nic[s] = NoMac
        BY <1>1, <2>2, <1>r DEF GetMachine, RouteOK
      <3> QED
        BY <2>2, <3>1, <1>m, <1>b, GotoOK DEF TypeInv
    <2>3. CASE Goto(s, "checkNicExists") /\ req[s].op # "add" /\ UNCHANGED <<nic, backends>>
      <3>1. req[s] \in RemoveRequest /\ nic[s] = NoMac
        BY <1>1, <2>3, <1>r DEF GetMachine, RouteOK
      <3> QED
        BY <2>3, <3>1, <1>m, <1>b, GotoOK DEF TypeInv
    <2> QED
      BY <1>1, <2>1, <2>2, <2>3 DEF GetMachine
  <1>2. CASE GetNetwork(s)
    <2>1. pc[s] # "idle" /\ req[s] \in AddRequest /\ nic[s] = NoMac
      BY <1>2, <1>r DEF GetNetwork, RouteOK
    <2>2. CASE Goto(s, "checkNicDoesntExist") /\ UNCHANGED <<nic, backends>>
      BY <2>1, <2>2, <1>m, <1>b, GotoOK DEF TypeInv
    <2> QED
      BY <1>2, <2>1, <2>2, <1>b, RejectedOK, FailOK DEF GetNetwork, TypeInv
  <1>3. CASE CheckNicDoesntExist(s)
    <2>1. pc[s] # "idle" /\ req[s] \in AddRequest /\ nic[s] = NoMac
      BY <1>3, <1>r DEF CheckNicDoesntExist, RouteOK
    <2>2. CASE Goto(s, "checkServerHasTag") /\ UNCHANGED <<nic, backends>>
      BY <2>1, <2>2, <1>m, <1>b, GotoOK DEF TypeInv
    <2> QED
      BY <1>3, <2>1, <2>2, <1>b, RejectedOK, FailOK, RespondOK
      DEF CheckNicDoesntExist, TypeInv
  <1>4. CASE CheckServerHasTag(s)
    <2>1. pc[s] # "idle" /\ req[s] \in AddRequest /\ nic[s] = NoMac
      BY <1>4, <1>r DEF CheckServerHasTag, RouteOK
    <2>2. CASE Goto(s, "addToNapi") /\ UNCHANGED <<nic, backends>>
      BY <2>1, <2>2, <1>m, <1>b, GotoOK DEF TypeInv
    <2> QED
      BY <1>4, <2>1, <2>2, <1>b, RejectedOK, FailOK DEF CheckServerHasTag, TypeInv
  <1>5. CASE AddToNapi(s)
    <2>1. pc[s] # "idle" /\ req[s] \in AddRequest
      BY <1>5, <1>r DEF AddToNapi, RouteOK
    <2>2. CASE Fail(s) /\ UNCHANGED backends
      BY <2>1, <2>2, <1>b, FailOK DEF TypeInv
    <2>3. ASSUME NEW n \in Provisioned(req[s].vm, req[s].network),
                 nics' = nics \cup {n},
                 UNCHANGED <<vnics, jobs, alive>>,
                 \/ Goto(s, "addToVm") /\ nic' = [nic EXCEPT ![s] = n.mac]
                 \/ Fail(s)
          PROVE  TypeInv'
      <3>1. n \in Nic /\ n.mac \in Macs
        BY DEF Provisioned, Nic
      <3>2. StoresOK'
        BY <2>3, <3>1 DEF TypeInv, StoresOK
      <3>3. n.mac # NoMac
        BY <3>1, NicsAssumption
      <3>4. CASE Goto(s, "addToVm") /\ nic' = [nic EXCEPT ![s] = n.mac]
        BY <2>1, <3>1, <3>2, <3>3, <3>4, GotoOK DEF TypeInv
      <3>5. CASE Fail(s)
        BY <2>1, <3>2, <3>5, FailOK DEF TypeInv
      <3> QED
        BY <2>3, <3>4, <3>5
    <2> QED
      BY <1>5, <2>1, <2>2, <2>3, RejectedOK DEF AddToNapi
  <1>6. CASE AddToVm(s)
    <2>1. pc[s] # "idle" /\ req[s] \in AddRequest /\ nic[s] \in Macs
      BY <1>6, <1>r, <1>m DEF AddToVm, RouteOK
    <2>2. CASE Fail(s) /\ UNCHANGED backends
      BY <2>1, <2>2, <1>b, FailOK DEF TypeInv
    <2>3. CASE /\ Queue("add", req[s].vm, nic[s])
               /\ Respond(s, "201") \/ Fail(s)
               /\ UNCHANGED <<nics, vnics, alive>>
      <3>1. StoresOK'
        BY <2>1, <2>3, QueueOK DEF TypeInv, StoresOK
      <3> QED
        BY <2>1, <2>3, <3>1, RespondOK, FailOK DEF TypeInv
    <2> QED
      BY <1>6, <2>1, <2>2, <2>3, RejectedOK DEF AddToVm
  <1>7. CASE RemoveFromNapi(s)
    <2>1. StoresOK'
      BY <1>7 DEF RemoveFromNapi, Without, TypeInv, StoresOK
    <2> QED
      BY <1>7, <2>1, RespondOK DEF RemoveFromNapi, TypeInv
  <1>8. CASE CheckNicExists(s)
    <2>1. pc[s] # "idle" /\ req[s] \in RemoveRequest /\ nic[s] = NoMac
      BY <1>8, <1>r DEF CheckNicExists, RouteOK
    <2>2. CASE Goto(s, "removeFromNics") /\ UNCHANGED <<nic, backends>>
      BY <2>1, <2>2, <1>m, <1>b, GotoOK DEF TypeInv
    <2> QED
      BY <1>8, <2>1, <2>2, <1>b, RejectedOK, FailOK DEF CheckNicExists, TypeInv
  <1>9. CASE RemoveFromNics(s)
    <2>1. pc[s] # "idle" /\ req[s] \in RemoveRequest
      BY <1>9, <1>r DEF RemoveFromNics, RouteOK
    <2>2. CASE Fail(s) /\ UNCHANGED backends
      BY <2>1, <2>2, <1>b, FailOK DEF TypeInv
    <2>3. CASE /\ Queue("remove", req[s].vm, req[s].mac)
               /\ Respond(s, "204") \/ Fail(s)
               /\ UNCHANGED <<nics, vnics, alive>>
      <3>1. StoresOK'
        BY <2>1, <2>3, QueueOK DEF TypeInv, StoresOK
      <3> QED
        BY <2>1, <2>3, <3>1, RespondOK, FailOK DEF TypeInv
    <2> QED
      BY <1>9, <2>1, <2>2, <2>3, RejectedOK DEF RemoveFromNics
  <1> QED
    BY <1>1, <1>2, <1>3, <1>4, <1>5, <1>6, <1>7, <1>8, <1>9 DEF Handle

LEMMA JobTypeInv ==
    ASSUME TypeInv, NEW id \in JobIds, RunJob(id)
    PROVE  TypeInv'
  <1> PICK j \in jobs : /\ RunAddJob(j) \/ FailAddJob(j) \/ RunRemoveJob(j) \/ FailRemoveJob(j)
                        /\ jobs' = jobs \ {j}
                        /\ UNCHANGED <<alive, pc, req, nic, answer>>
    BY DEF RunJob
  <1>1. j.vm \in Vms /\ j.mac \in Macs
    BY DEF TypeInv, StoresOK, Job
  <1>2. vnics' \subseteq (Vms \X Macs)
    BY <1>1 DEF RunAddJob, FailAddJob, RunRemoveJob, FailRemoveJob, TypeInv, StoresOK
  <1>3. nics' \subseteq Nic
    <2>1. \A n \in Nic : [n EXCEPT !.state = "running"] \in Nic
      BY DEF Nic
    <2> QED
      BY <2>1 DEF RunAddJob, FailAddJob, RunRemoveJob, FailRemoveJob, Without, TypeInv, StoresOK
  <1>4. StoresOK'
    BY <1>2, <1>3 DEF TypeInv, StoresOK
  <1>5. RequestsOK' /\ \A t \in Slots : RouteOK(t)'
    BY DEF TypeInv, RequestsOK, RouteOK
  <1> QED
    BY <1>4, <1>5 DEF TypeInv

LEMMA InitTypeInv == Init => TypeInv
  <1> SUFFICES ASSUME Init PROVE TypeInv
    OBVIOUS
  <1>1. NoRequest \in Request
    BY DEF Request
  <1>2. StoresOK /\ RequestsOK
    BY <1>1 DEF Init, StoresOK, RequestsOK
  <1>3. \A s \in Slots : RouteOK(s)
    BY DEF Init, RouteOK
  <1> QED
    BY <1>2, <1>3 DEF TypeInv

LEMMA NextTypeInv == TypeInv /\ [Next]_vars => TypeInv'
  <1> SUFFICES ASSUME TypeInv, [Next]_vars PROVE TypeInv'
    OBVIOUS
  <1>1. ASSUME NEW s \in Slots, Arrive(s) PROVE TypeInv'
    <2> PICK r \in AddRequest \cup RemoveRequest : req' = [req EXCEPT ![s] = r]
      BY <1>1 DEF Arrive
    <2>1. StoresOK'
      BY <1>1 DEF Arrive, backends, TypeInv, StoresOK
    <2>2. RequestsOK'
      BY <1>1 DEF Arrive, TypeInv, RequestsOK, Request
    <2>3. ASSUME NEW t \in Slots PROVE RouteOK(t)'
      BY <1>1 DEF Arrive, TypeInv, RequestsOK, RouteOK
    <2> QED
      BY <2>1, <2>2, <2>3 DEF TypeInv
  <1>2. ASSUME NEW s \in Slots, Crash(s) PROVE TypeInv'
    <2>1. StoresOK'
      BY <1>2 DEF Crash, backends, TypeInv, StoresOK
    <2> QED
      BY <1>2, <2>1, RespondOK DEF Crash, TypeInv
  <1>3. ASSUME NEW v \in Vms, DestroyVm(v) PROVE TypeInv'
    <2>1. StoresOK'
      BY <1>3 DEF DestroyVm, TypeInv, StoresOK
    <2>2. RequestsOK' /\ \A t \in Slots : RouteOK(t)'
      BY <1>3 DEF DestroyVm, TypeInv, RequestsOK, RouteOK
    <2> QED
      BY <2>1, <2>2 DEF TypeInv
  <1>4. CASE UNCHANGED vars
    BY <1>4 DEF vars, TypeInv, StoresOK, RequestsOK, RouteOK
  <1> QED
    BY <1>1, <1>2, <1>3, <1>4, HandleTypeInv, JobTypeInv DEF Next

LEMMA TypeInvariant == Spec => []TypeInv
  BY InitTypeInv, NextTypeInv, PTL DEF Spec

\* Every store and every request of lib/nics.js keeps its shape.
THEOREM TypeCorrect == Spec => []TypeOK
  <1>1. TypeInv => TypeOK
    BY DEF TypeInv, TypeOK, StoresOK, RequestsOK
  <1> QED
    BY <1>1, TypeInvariant, PTL

-----------------------------------------------------------------------------
(* Custody. A NIC record is provisioning while one request has it in hand,
   then while one job is pending for it; afterwards it is running, or gone. *)

OneRecord == \A m, n \in nics : m.mac = n.mac => m = n

Provisioning(vm, mac) ==
    \E n \in nics : n.mac = mac /\ n.vm = vm /\ n.state = "provisioning"

JobCustody ==
    \A j \in jobs : j.op = "add" =>
        /\ Provisioning(j.vm, j.mac)
        /\ \A s \in Slots : nic[s] # j.mac
        /\ \A k \in jobs : k.op = "add" /\ k.mac = j.mac => k = j

RequestCustody ==
    \A s \in Slots : nic[s] # NoMac =>
        /\ Provisioning(req[s].vm, nic[s])
        /\ \A t \in Slots : nic[t] = nic[s] => t = s

Custody == OneRecord /\ JobCustody /\ RequestCustody /\ NoPhantomNic

\* A step that leaves the back ends alone and at most lets go of NICs.
LetsGo ==
    /\ UNCHANGED backends
    /\ \A t \in Slots : nic'[t] = NoMac \/ (nic'[t] = nic[t] /\ req'[t] = req[t])

LEMMA LetsGoCustody ==
    ASSUME TypeInv, Custody, LetsGo
    PROVE  Custody'
  <1>1. OneRecord' /\ NoPhantomNic'
    BY DEF LetsGo, backends, Custody, OneRecord, NoPhantomNic
  <1>2. JobCustody'
    <2>1. \A j \in jobs : j.mac # NoMac
      BY NicsAssumption DEF TypeInv, StoresOK, Job
    <2> QED
      BY <2>1 DEF LetsGo, backends, Custody, JobCustody, Provisioning
  <1>3. RequestCustody'
    BY DEF LetsGo, backends, Custody, RequestCustody, Provisioning
  <1> QED
    BY <1>1, <1>2, <1>3 DEF Custody

\* What the three ways out of a call do to the requests.
LEMMA RequestMoves ==
    ASSUME TypeInv, NEW s \in Slots
    PROVE  /\ \A step : Goto(s, step) /\ UNCHANGED nic =>
                /\ nic' = nic
                /\ req' = req
           /\ \A code : Respond(s, code) =>
                /\ nic'[s] = NoMac
                /\ \A t \in Slots \ {s} : nic'[t] = nic[t] /\ req'[t] = req[t]
           /\ Fail(s) =>
                /\ nic'[s] = nic[s]
                /\ nic[s] # NoMac => req'[s] = req[s]
                /\ \A t \in Slots \ {s} : nic'[t] = nic[t] /\ req'[t] = req[t]
  BY DEF TypeInv, RequestsOK, Goto, Respond, Fail

\* The steps of a request that only read, or fail without an effect.
Quiet(s) ==
    /\ UNCHANGED backends
    /\ \/ \E step : Goto(s, step) /\ UNCHANGED nic
       \/ \E code : Respond(s, code)
       \/ Fail(s)

LEMMA QuietCustody ==
    ASSUME TypeInv, Custody, NEW s \in Slots, Quiet(s)
    PROVE  Custody'
  <1>1. ASSUME NEW t \in Slots PROVE nic'[t] = NoMac \/ (nic'[t] = nic[t] /\ req'[t] = req[t])
    <2>1. CASE \E step : Goto(s, step) /\ UNCHANGED nic
      BY <2>1, RequestMoves
    <2>2. CASE \E code : Respond(s, code)
      BY <2>2, RequestMoves
    <2>3. CASE Fail(s)
      <3>1. nic[s] = NoMac => nic'[s] = NoMac
        BY <2>3, RequestMoves
      <3> QED
        BY <2>3, <3>1, RequestMoves
    <2> QED
      BY <2>1, <2>2, <2>3 DEF Quiet
  <1> QED
    BY <1>1, LetsGoCustody DEF LetsGo, Quiet

LEMMA ReadsAreQuiet ==
    ASSUME NEW s \in Slots,
           \/ GetMachine(s) \/ GetNetwork(s) \/ CheckNicDoesntExist(s)
           \/ CheckServerHasTag(s) \/ CheckNicExists(s)
    PROVE  Quiet(s)
  BY DEF GetMachine, GetNetwork, CheckNicDoesntExist, CheckServerHasTag,
         CheckNicExists, Rejected, Quiet, backends

\* provisionNic() hands its record to the request, or to nobody.
LEMMA AddToNapiCustody ==
    ASSUME TypeInv, Custody, NEW s \in Slots, AddToNapi(s)
    PROVE  Custody'
  <1>1. CASE Quiet(s)
    BY <1>1, QuietCustody
  <1>2. ASSUME NEW n \in Provisioned(req[s].vm, req[s].network),
               nics' = nics \cup {n},
               UNCHANGED <<vnics, jobs, alive>>,
               \/ Goto(s, "addToVm") /\ nic' = [nic EXCEPT ![s] = n.mac]
               \/ Fail(s)
        PROVE  Custody'
    <2>1. /\ n \in Nic /\ n.vm = req[s].vm /\ n.state = "provisioning"
          /\ \A m \in nics : m.mac # n.mac
      BY DEF Provisioned, Listed
    <2>2. nic[s] = NoMac
      BY NicsAssumption, AddToNapi(s) DEF AddToNapi, TypeInv, RouteOK
    <2>3. n.mac # NoMac
      BY <2>1, NicsAssumption DEF Nic
    <2>4. OneRecord'
      BY <1>2, <2>1 DEF Custody, OneRecord
    <2>5. NoPhantomNic'
      BY <1>2 DEF Custody, NoPhantomNic
    <2>6. \A vm, mac : Provisioning(vm, mac) => Provisioning(vm, mac)' /\ mac # n.mac
      BY <1>2, <2>1 DEF Provisioning
    <2>7. /\ \A t \in Slots \ {s} : nic'[t] = nic[t] /\ req'[t] = req[t]
          /\ nic'[s] = NoMac \/ (nic'[s] = n.mac /\ req'[s] = req[s])
      <3>1. CASE Goto(s, "addToVm") /\ nic' = [nic EXCEPT ![s] = n.mac]
        BY <3>1 DEF Goto, TypeInv, RequestsOK
      <3>2. CASE Fail(s)
        BY <2>2, <3>2, RequestMoves
      <3> QED
        BY <1>2, <3>1, <3>2
    <2>8. JobCustody'
      <3> SUFFICES ASSUME NEW j \in jobs, j.op = "add"
                   PROVE  /\ Provisioning(j.vm, j.mac)'
                          /\ \A t \in Slots : nic'[t] # j.mac
                          /\ \A k \in jobs : k.op = "add" /\ k.mac = j.mac => k = j
        BY <1>2 DEF JobCustody
      <3>1. Provisioning(j.vm, j.mac) /\ \A t \in Slots : nic[t] # j.mac
        BY DEF Custody, JobCustody
      <3>2. j.mac # NoMac
        BY NicsAssumption DEF TypeInv, StoresOK, Job
      <3> QED
        BY <2>6, <2>7, <3>1, <3>2 DEF Custody, JobCustody
    <2>9. RequestCustody'
      <3> SUFFICES ASSUME NEW t \in Slots, nic'[t] # NoMac
                   PROVE  /\ Provisioning(req[t].vm, nic[t])'
                          /\ \A u \in Slots : nic'[u] = nic'[t] => u = t
        BY DEF RequestCustody
      <3>1. CASE t = s
        <4>1. Provisioning(req[s].vm, n.mac)'
          BY <1>2, <2>1, <2>7, <3>1 DEF Provisioning
        <4>2. \A u \in Slots \ {s} : nic[u] # n.mac
          BY <2>3, <2>6 DEF Custody, RequestCustody
        <4> QED
          BY <2>7, <3>1, <4>1, <4>2
      <3>2. CASE t # s
        <4>1. nic'[t] = nic[t] /\ req'[t] = req[t] /\ Provisioning(req[t].vm, nic[t])
          BY <2>7, <3>2 DEF Custody, RequestCustody
        <4>2. Provisioning(req[t].vm, nic[t])'
          BY <1>2, <4>1 DEF Provisioning
        <4>3. nic[t] # n.mac
          BY <2>6, <4>1
        <4>4. \A u \in Slots : nic'[u] = nic'[t] => u = t
          BY <2>7, <3>2, <4>1, <4>3 DEF Custody, RequestCustody
        <4> QED
          BY <4>2, <4>4
      <3> QED
        BY <3>1, <3>2
    <2> QED
      BY <2>4, <2>5, <2>8, <2>9 DEF Custody
  <1> QED
    BY <1>1, <1>2 DEF AddToNapi, Rejected, Quiet

\* addNics() takes the record over from the request, unless its reply is lost.
LEMMA AddToVmCustody ==
    ASSUME TypeInv, Custody, "addNics" \notin Losing, NEW s \in Slots, AddToVm(s)
    PROVE  Custody'
  <1>1. CASE Quiet(s)
    BY <1>1, QuietCustody
  <1>2. CASE /\ Queue("add", req[s].vm, nic[s])
             /\ Respond(s, "201")
             /\ UNCHANGED <<nics, vnics, alive>>
    <2> PICK id \in JobIds :
          jobs' = jobs \cup {[id |-> id, op |-> "add", vm |-> req[s].vm, mac |-> nic[s]]}
      BY <1>2 DEF Queue
    <2> DEFINE new == [id |-> id, op |-> "add", vm |-> req[s].vm, mac |-> nic[s]]
    <2>1. nic[s] # NoMac
      BY DEF AddToVm, TypeInv, RouteOK
    <2>2. /\ nic'[s] = NoMac
          /\ \A t \in Slots \ {s} : nic'[t] = nic[t] /\ req'[t] = req[t]
      BY <1>2, RequestMoves
    <2>3. OneRecord' /\ NoPhantomNic'
      BY <1>2 DEF Custody, OneRecord, NoPhantomNic
    <2>4. RequestCustody'
      BY <1>2, <2>2 DEF Custody, RequestCustody, Provisioning
    <2>5. JobCustody'
      <3> SUFFICES ASSUME NEW j \in jobs', j.op = "add"
                   PROVE  /\ Provisioning(j.vm, j.mac)'
                          /\ \A t \in Slots : nic'[t] # j.mac
                          /\ \A k \in jobs' : k.op = "add" /\ k.mac = j.mac => k = j
        BY DEF JobCustody
      <3>1. new.op = "add" /\ new.vm = req[s].vm /\ new.mac = nic[s]
        OBVIOUS
      <3>2. \A k \in jobs : k.op = "add" => k.mac # nic[s]
        BY DEF Custody, JobCustody
      <3>3. CASE j = new
        <4>1. Provisioning(j.vm, j.mac)'
          BY <1>2, <2>1, <3>1, <3>3 DEF Custody, RequestCustody, Provisioning
        <4>2. \A t \in Slots : nic'[t] # j.mac
          BY <2>1, <2>2, <3>1, <3>3 DEF Custody, RequestCustody
        <4> QED
          BY <3>1, <3>2, <3>3, <4>1, <4>2
      <3>4. CASE j \in jobs
        <4>1. j.mac # NoMac
          BY <3>4, NicsAssumption DEF TypeInv, StoresOK, Job
        <4>2. Provisioning(j.vm, j.mac)'
          BY <1>2, <3>4 DEF Custody, JobCustody, Provisioning
        <4>3. \A t \in Slots : nic'[t] # j.mac
          BY <2>2, <3>4, <4>1 DEF Custody, JobCustody
        <4>4. j.mac # new.mac
          BY <3>1, <3>2, <3>4
        <4> QED
          BY <3>4, <4>2, <4>3, <4>4 DEF Custody, JobCustody
      <3> QED
        BY <3>3, <3>4
    <2> QED
      BY <2>3, <2>4, <2>5 DEF Custody
  <1> QED
    BY <1>1, <1>2 DEF AddToVm, Rejected, Quiet

\* Steps that drop records of NICs nobody has in hand, and jobs.
LEMMA DropCustody ==
    ASSUME TypeInv, Custody,
           nics' \subseteq nics, vnics' \subseteq vnics, jobs' \subseteq jobs,
           \A s \in Slots : nic'[s] = NoMac \/ (nic'[s] = nic[s] /\ req'[s] = req[s]),
           \A n \in nics \ nics' : n.state = "provisioning" =>
               /\ \A s \in Slots : nic'[s] # n.mac
               /\ \A j \in jobs' : j.op = "add" => j.mac # n.mac,
           \A n \in nics \ nics' : n.state = "running" => <<n.vm, n.mac>> \notin vnics'
    PROVE  Custody'
  <1>1. OneRecord'
    BY DEF Custody, OneRecord
  <1>2. NoPhantomNic'
    <2> SUFFICES ASSUME NEW p \in vnics'
                 PROVE  \E n \in nics' : n.mac = p[2] /\ n.vm = p[1] /\ n.state = "running"
      BY DEF NoPhantomNic
    <2> PICK n \in nics : n.mac = p[2] /\ n.vm = p[1] /\ n.state = "running"
      BY DEF Custody, NoPhantomNic
    <2>1. <<n.vm, n.mac>> \in vnics'
      BY DEF TypeInv, StoresOK
    <2> QED
      BY <2>1
  <1>3. JobCustody'
    <2>1. \A j \in jobs : j.mac # NoMac
      BY NicsAssumption DEF TypeInv, StoresOK, Job
    <2> QED
      BY <2>1 DEF Custody, JobCustody, Provisioning
  <1>4. RequestCustody'
    BY DEF Custody, RequestCustody, Provisioning
  <1> QED
    BY <1>1, <1>2, <1>3, <1>4 DEF Custody

LEMMA RemoveFromNapiCustody ==
    ASSUME TypeInv, Custody, NEW s \in Slots, RemoveFromNapi(s)
    PROVE  Custody'
  <1>1. nic[s] # NoMac
    BY DEF RemoveFromNapi, TypeInv, RouteOK
  <1>2. /\ nic'[s] = NoMac
        /\ \A t \in Slots \ {s} : nic'[t] = nic[t] /\ req'[t] = req[t]
    BY RequestMoves DEF RemoveFromNapi
  <1>3. nics' \subseteq nics /\ \A n \in nics \ nics' : n.mac = nic[s]
    BY DEF RemoveFromNapi, Without
  <1>4. \A n \in nics : n.mac = nic[s] => n.state = "provisioning"
    BY <1>1 DEF Custody, OneRecord, RequestCustody, Provisioning
  <1>5. \A j \in jobs : j.op = "add" => j.mac # nic[s]
    BY DEF Custody, JobCustody
  <1>6. \A t \in Slots : nic'[t] # nic[s]
    BY <1>1, <1>2 DEF Custody, RequestCustody
  <1>7. UNCHANGED <<vnics, jobs>>
    BY DEF RemoveFromNapi
  <1> QED
    BY <1>2, <1>3, <1>4, <1>5, <1>6, <1>7, DropCustody

LEMMA RemoveFromNicsCustody ==
    ASSUME TypeInv, Custody, NEW s \in Slots, RemoveFromNics(s)
    PROVE  Custody'
  <1>1. CASE Quiet(s)
    BY <1>1, QuietCustody
  <1>2. CASE /\ Queue("remove", req[s].vm, req[s].mac)
             /\ Respond(s, "204") \/ Fail(s)
             /\ UNCHANGED <<nics, vnics, alive>>
    <2>1. nic[s] = NoMac
      BY NicsAssumption DEF RemoveFromNics, TypeInv, RouteOK
    <2>2. \A t \in Slots : nic'[t] = NoMac \/ (nic'[t] = nic[t] /\ req'[t] = req[t])
      BY <1>2, <2>1, RequestMoves
    <2>3. OneRecord' /\ NoPhantomNic'
      BY <1>2 DEF Custody, OneRecord, NoPhantomNic
    <2>4. RequestCustody'
      BY <1>2, <2>2 DEF Custody, RequestCustody, Provisioning
    <2>5. JobCustody'
      <3>1. \A j \in jobs : j.mac # NoMac
        BY NicsAssumption DEF TypeInv, StoresOK, Job
      <3>2. \A j \in jobs' : j.op = "add" => j \in jobs
        BY <1>2 DEF Queue
      <3> QED
        BY <1>2, <2>2, <3>1, <3>2 DEF Custody, JobCustody, Provisioning
    <2> QED
      BY <2>3, <2>4, <2>5 DEF Custody
  <1> QED
    BY <1>1, <1>2 DEF RemoveFromNics, Rejected, Quiet

\* The record m after VMAPI has reported that mac is running, which was a before.
Reported(a, m, mac) ==
    /\ m.mac = a.mac /\ m.vm = a.vm /\ m.network = a.network
    /\ IF a.mac = mac THEN m = [a EXCEPT !.state = "running"] /\ m.state = "running"
                      ELSE m = a

LEMMA ReportedNics ==
    ASSUME TypeInv, NEW j \in jobs, RunAddJob(j)
    PROVE  /\ \A m \in nics' : \E a \in nics : Reported(a, m, j.mac)
           /\ \A a \in nics : \E m \in nics' : Reported(a, m, j.mac)
  <1> DEFINE report(a) == IF a.mac = j.mac THEN [a EXCEPT !.state = "running"] ELSE a
  <1>1. nics' = {report(a) : a \in nics}
    BY DEF RunAddJob
  <1>2. \A a \in nics : Reported(a, report(a), j.mac)
    BY DEF TypeInv, StoresOK, Nic, Reported
  <1> QED
    BY <1>1, <1>2

\* A job that runs plugs in the NIC it has custody of, or unplugs one.
LEMMA RunJobCustody ==
    ASSUME TypeInv, Custody, NEW id \in JobIds, RunJob(id)
    PROVE  Custody'
  <1> PICK j \in jobs : /\ RunAddJob(j) \/ FailAddJob(j) \/ RunRemoveJob(j) \/ FailRemoveJob(j)
                        /\ jobs' = jobs \ {j}
                        /\ UNCHANGED <<alive, pc, req, nic, answer>>
    BY DEF RunJob
  <1>1. CASE RunAddJob(j)
    <2>1. vnics' = vnics \cup {<<j.vm, j.mac>>}
      BY <1>1 DEF RunAddJob
    <2>2. /\ \A m \in nics' : \E a \in nics : Reported(a, m, j.mac)
          /\ \A a \in nics : \E m \in nics' : Reported(a, m, j.mac)
      BY <1>1, ReportedNics
    <2>3. \A vm, mac : Provisioning(vm, mac) /\ mac # j.mac => Provisioning(vm, mac)'
      BY <2>2 DEF Provisioning, Reported
    <2>4. /\ Provisioning(j.vm, j.mac)
          /\ \A s \in Slots : nic[s] # j.mac
          /\ \A k \in jobs' : k.op = "add" => k.mac # j.mac
      BY <1>1 DEF RunAddJob, Custody, JobCustody
    <2>5. OneRecord'
      <3> SUFFICES ASSUME NEW m \in nics', NEW n \in nics', m.mac = n.mac
                   PROVE  m = n
        BY DEF OneRecord
      <3>1. PICK a \in nics, b \in nics : Reported(a, m, j.mac) /\ Reported(b, n, j.mac)
        BY <2>2
      <3>2. a = b
        BY <3>1 DEF Reported, Custody, OneRecord
      <3> QED
        BY <3>1, <3>2 DEF Reported
    <2>6. JobCustody'
      BY <2>3, <2>4 DEF Custody, JobCustody
    <2>7. RequestCustody'
      BY <2>3, <2>4 DEF Custody, RequestCustody
    <2>8. NoPhantomNic'
      <3> SUFFICES ASSUME NEW p \in vnics'
                   PROVE  \E n \in nics' : n.mac = p[2] /\ n.vm = p[1] /\ n.state = "running"
        BY DEF NoPhantomNic
      <3>1. CASE p \in vnics
        <4> PICK a \in nics : a.mac = p[2] /\ a.vm = p[1] /\ a.state = "running"
          BY <3>1 DEF Custody, NoPhantomNic
        <4> PICK m \in nics' : Reported(a, m, j.mac)
          BY <2>2
        <4> QED
          BY DEF Reported
      <3>2. CASE p = <<j.vm, j.mac>>
        <4> PICK a \in nics : a.mac = j.mac /\ a.vm = j.vm
          BY <2>4 DEF Provisioning
        <4> PICK m \in nics' : Reported(a, m, j.mac)
          BY <2>2
        <4> QED
          BY <3>2 DEF Reported
      <3> QED
        BY <2>1, <3>1, <3>2
    <2> QED
      BY <2>5, <2>6, <2>7, <2>8 DEF Custody
  <1>2. CASE FailAddJob(j)
    <2>1. /\ \A s \in Slots : nic[s] # j.mac
          /\ \A k \in jobs' : k.op = "add" => k.mac # j.mac
          /\ \A n \in nics : n.mac = j.mac => n.state = "provisioning"
      BY <1>2 DEF FailAddJob, Custody, OneRecord, JobCustody, Provisioning
    <2> QED
      BY <1>2, <2>1, DropCustody DEF FailAddJob, Without
  <1>3. CASE RunRemoveJob(j)
    <2>1. \A n \in nics : n.mac = j.mac => n.state = "running" /\ n.vm = j.vm
      BY <1>3 DEF RunRemoveJob, Custody, OneRecord, NoPhantomNic
    <2>2. \A n \in nics \ nics' : n.mac = j.mac
      BY <1>3 DEF RunRemoveJob, Without
    <2>3. nics' \subseteq nics /\ vnics' = vnics \ {<<j.vm, j.mac>>}
      BY <1>3 DEF RunRemoveJob, Without
    <2>4. \A n \in nics \ nics' : n.state = "running" => <<n.vm, n.mac>> \notin vnics'
      BY <2>1, <2>2, <2>3
    <2>5. \A n \in nics \ nics' : n.state # "provisioning"
      BY <2>1, <2>2
    <2> QED
      BY <2>3, <2>4, <2>5, DropCustody
  <1>4. CASE FailRemoveJob(j)
    BY <1>4, DropCustody DEF FailRemoveJob
  <1> QED
    BY <1>1, <1>2, <1>3, <1>4

LEMMA DestroyVmCustody ==
    ASSUME TypeInv, Custody, NEW v \in Vms, DestroyVm(v)
    PROVE  Custody'
  <1>1. nics' \subseteq nics /\ vnics' \subseteq vnics /\ jobs' = jobs /\ UNCHANGED <<nic, req>>
    BY DEF DestroyVm
  <1>2. \A n \in nics \ nics' : n.state = "running" /\ n.vm = v
    BY DEF DestroyVm, Custody, OneRecord, NoPhantomNic
  <1>3. \A n \in nics \ nics' : <<n.vm, n.mac>> \notin vnics'
    BY <1>2 DEF DestroyVm
  <1> QED
    BY <1>1, <1>2, <1>3, DropCustody

\* As long as no addNics() takes effect behind an error, custody is kept by every
\* step: also by those of processes that die and of calls that fail.
LEMMA NextCustody ==
    ASSUME "addNics" \notin Losing
    PROVE  TypeInv /\ Custody /\ [Next]_vars => Custody'
  <1> SUFFICES ASSUME TypeInv, Custody, [Next]_vars PROVE Custody'
    OBVIOUS
  <1>1. ASSUME NEW s \in Slots, Arrive(s) PROVE Custody'
    <2>1. nic[s] = NoMac
      BY <1>1, NicsAssumption DEF Arrive, TypeInv, RouteOK
    <2>2. \A t \in Slots \ {s} : req'[t] = req[t]
      BY <1>1 DEF Arrive, TypeInv, RequestsOK
    <2> QED
      BY <1>1, <2>1, <2>2, LetsGoCustody DEF Arrive, LetsGo
  <1>2. ASSUME NEW s \in Slots, Crash(s) PROVE Custody'
    BY <1>2, QuietCustody DEF Crash, Quiet
  <1>3. ASSUME NEW s \in Slots, Handle(s) PROVE Custody'
    BY <1>3, ReadsAreQuiet, QuietCustody, AddToNapiCustody, AddToVmCustody,
       RemoveFromNapiCustody, RemoveFromNicsCustody DEF Handle
  <1>4. CASE UNCHANGED vars
    BY <1>4, LetsGoCustody DEF vars, LetsGo, backends
  <1> QED
    BY <1>1, <1>2, <1>3, <1>4, RunJobCustody, DestroyVmCustody DEF Next

LEMMA CustodyInvariant ==
    ASSUME "addNics" \notin Losing
    PROVE  Spec => []Custody
  <1>1. Init => Custody
    BY DEF Init, Custody, OneRecord, JobCustody, RequestCustody, NoPhantomNic
  <1> QED
    BY <1>1, NextCustody, TypeInvariant, PTL DEF Spec

\* Whatever runs concurrently, fails or dies, a vNIC on a machine has its record in
\* NAPI, provided the replies of addNics() arrive.
THEOREM PluggedNicsAreRecorded ==
    ASSUME "addNics" \notin Losing
    PROVE  Spec => []NoPhantomNic
  <1>1. Custody => NoPhantomNic
    BY DEF Custody
  <1> QED
    BY <1>1, CustodyInvariant, PTL

\* And no two machines are given one MAC.
THEOREM MacsAreUnique ==
    ASSUME "addNics" \notin Losing
    PROVE  Spec => []NoSharedMac
  <1>1. TypeInv /\ Custody => NoSharedMac
    BY DEF TypeInv, StoresOK, Custody, OneRecord, NoPhantomNic, NoSharedMac
  <1> QED
    BY <1>1, CustodyInvariant, TypeInvariant, PTL

\* The record that a POST answered 201 names under Location is there: the request has it
\* in hand until addToVm() is answered, and no clean-up, job or destroyed machine
\* takes it from there, provided the replies of addNics() arrive.
THEOREM CreatedNicsAreVisible ==
    ASSUME "addNics" \notin Losing
    PROVE  Spec => CreatedIsVisible
  <1>1. TypeInv /\ Custody /\ [Next]_vars =>
            [\A s \in Slots :
                pc[s] = "addToVm" /\ pc'[s] = "idle" /\ answer'[s] = "201" =>
                    \E n \in nics' : n.mac = nic[s] /\ n.vm = req[s].vm]_vars
    <2> SUFFICES ASSUME TypeInv, Custody, Next,
                        NEW s \in Slots, pc[s] = "addToVm", pc'[s] = "idle"
                 PROVE  \E n \in nics' : n.mac = nic[s] /\ n.vm = req[s].vm
      OBVIOUS
    <2>1. \E n \in nics : n.mac = nic[s] /\ n.vm = req[s].vm
      <3>1. nic[s] # NoMac
        BY DEF TypeInv, RouteOK
      <3> QED
        BY <3>1 DEF Custody, RequestCustody, Provisioning
    <2>2. nics' = nics
      <3>1. ASSUME NEW t \in Slots, t # s, Arrive(t) \/ Handle(t) \/ Crash(t)
            PROVE  pc'[s] = pc[s]
        BY <3>1 DEF TypeInv, RequestsOK, Arrive, Handle, Crash, GetMachine, GetNetwork,
            CheckNicDoesntExist, CheckServerHasTag, AddToNapi, AddToVm, RemoveFromNapi,
            CheckNicExists, RemoveFromNics, Rejected, Fail, Goto, Respond
      <3>2. CASE Arrive(s) \/ Handle(s) \/ Crash(s)
        BY <3>2 DEF Arrive, Handle, Crash, GetMachine, GetNetwork, CheckNicDoesntExist,
            CheckServerHasTag, AddToNapi, AddToVm, RemoveFromNapi, CheckNicExists,
            RemoveFromNics, Rejected, backends
      <3> QED
        BY <3>1, <3>2 DEF Next, RunJob, DestroyVm
    <2> QED
      BY <2>1, <2>2
  <1> QED
    BY <1>1, CustodyInvariant, TypeInvariant, PTL DEF Spec, CreatedIsVisible

-----------------------------------------------------------------------------
(* No stale NICs. A POST that fails cleans up, as long as it knows what it has
   created, the clean-up works and its process lives.                      *)

Reliable ==
    /\ "addNics" \notin Losing
    /\ "provisionNic" \notin Losing
    /\ "deleteNic" \notin Rejecting
    /\ ~Crashes

LEMMA FailKeepsNic ==
    ASSUME TypeInv, NEW s \in Slots, Fail(s)
    PROVE  nic' = nic
  BY DEF TypeInv, RequestsOK, Fail, Respond

LEMMA ReadsKeepNic ==
    ASSUME TypeInv, NEW s \in Slots,
           \/ GetMachine(s) \/ GetNetwork(s) \/ CheckNicDoesntExist(s)
           \/ CheckServerHasTag(s) \/ CheckNicExists(s)
    PROVE  UNCHANGED <<nics, jobs, nic>>
  <1>1. UNCHANGED <<nics, jobs>>
    BY ReadsAreQuiet DEF Quiet, backends
  <1>2. nic[s] = NoMac
    BY DEF GetMachine, GetNetwork, CheckNicDoesntExist, CheckServerHasTag,
           CheckNicExists, TypeInv, RouteOK
  <1>3. \A code : Respond(s, code) => nic' = nic
    BY <1>2 DEF Respond, TypeInv, RequestsOK
  <1> QED
    BY <1>1, <1>3, FailKeepsNic
    DEF GetMachine, GetNetwork, CheckNicDoesntExist, CheckServerHasTag,
        CheckNicExists, Rejected

LEMMA NextNoStaleNic ==
    ASSUME Reliable
    PROVE  TypeInv /\ Custody /\ NoStaleNic /\ [Next]_vars => NoStaleNic'
  <1> SUFFICES ASSUME TypeInv, Custody, NoStaleNic, [Next]_vars PROVE NoStaleNic'
    OBVIOUS
  <1>q. UNCHANGED <<nics, jobs, nic>> => NoStaleNic'
    BY DEF NoStaleNic
  <1>1. ASSUME NEW s \in Slots, Arrive(s) PROVE NoStaleNic'
    BY <1>1, <1>q DEF Arrive, backends
  <1>2. ASSUME NEW s \in Slots, AddToNapi(s) PROVE NoStaleNic'
    <2>1. nic[s] = NoMac
      BY <1>2 DEF AddToNapi, TypeInv, RouteOK
    <2>2. CASE Fail(s) /\ UNCHANGED backends
      BY <2>2, <1>q, FailKeepsNic DEF backends
    <2>3. ASSUME NEW n \in Provisioned(req[s].vm, req[s].network),
                 nics' = nics \cup {n}, jobs' = jobs,
                 nic' = [nic EXCEPT ![s] = n.mac]
          PROVE  NoStaleNic'
      <3>1. nic'[s] = n.mac /\ \A t \in Slots \ {s} : nic'[t] = nic[t]
        BY <2>3 DEF TypeInv, RequestsOK
      <3>2. \A m \in nics : m.mac # NoMac
        BY NicsAssumption DEF TypeInv, StoresOK, Nic
      <3> QED
        BY <2>1, <2>3, <3>1, <3>2 DEF NoStaleNic
    <2> QED
      BY <1>2, <2>2, <2>3 DEF AddToNapi, Rejected, Reliable
  <1>3. ASSUME NEW s \in Slots, AddToVm(s) PROVE NoStaleNic'
    <2>1. CASE Fail(s) /\ UNCHANGED backends
      BY <2>1, <1>q, FailKeepsNic DEF backends
    <2>2. CASE Queue("add", req[s].vm, nic[s]) /\ Respond(s, "201") /\ nics' = nics
      <3> SUFFICES ASSUME NEW n \in nics, n.state = "provisioning"
                   PROVE  \/ \E t \in Slots : nic'[t] = n.mac
                          \/ \E j \in jobs' : j.op = "add" /\ j.vm = n.vm /\ j.mac = n.mac
        BY <2>2 DEF NoStaleNic
      <3>1. \A t \in Slots \ {s} : nic'[t] = nic[t]
        BY <2>2, RequestMoves
      <3>2. jobs \subseteq jobs'
        BY <2>2 DEF Queue
      <3>3. CASE nic[s] = n.mac
        <4>1. nic[s] # NoMac
          BY <1>3 DEF AddToVm, TypeInv, RouteOK
        <4>2. n.vm = req[s].vm
          BY <3>3, <4>1 DEF Custody, RequestCustody, OneRecord, Provisioning
        <4>3. PICK id \in JobIds :
                jobs' = jobs \cup {[id |-> id, op |-> "add", vm |-> req[s].vm, mac |-> nic[s]]}
          BY <2>2 DEF Queue
        <4>4. [id |-> id, op |-> "add", vm |-> req[s].vm, mac |-> nic[s]] \in jobs'
          BY <4>3
        <4> QED
          BY <3>3, <4>2, <4>4
      <3> QED
        BY <3>1, <3>2, <3>3 DEF NoStaleNic
    <2> QED
      BY <1>3, <2>1, <2>2 DEF AddToVm, Rejected, Reliable
  <1>4. ASSUME NEW s \in Slots, RemoveFromNapi(s) PROVE NoStaleNic'
    <2>1. \A t \in Slots \ {s} : nic'[t] = nic[t]
      BY <1>4, RequestMoves DEF RemoveFromNapi
    <2> QED
      BY <1>4, <2>1 DEF RemoveFromNapi, Without, NoStaleNic, Reliable
  <1>5. ASSUME NEW s \in Slots, RemoveFromNics(s) PROVE NoStaleNic'
    <2>1. nic[s] = NoMac
      BY <1>5 DEF RemoveFromNics, TypeInv, RouteOK
    <2>2. nic' = nic
      BY <1>5, <2>1, FailKeepsNic
      DEF RemoveFromNics, Rejected, Respond, TypeInv, RequestsOK
    <2>3. nics' = nics /\ jobs \subseteq jobs'
      BY <1>5 DEF RemoveFromNics, Rejected, backends, Queue
    <2> QED
      BY <2>2, <2>3 DEF NoStaleNic
  <1>6. ASSUME NEW id \in JobIds, RunJob(id) PROVE NoStaleNic'
    <2> PICK j \in jobs : /\ RunAddJob(j) \/ FailAddJob(j) \/ RunRemoveJob(j) \/ FailRemoveJob(j)
                          /\ jobs' = jobs \ {j}
                          /\ UNCHANGED <<alive, pc, req, nic, answer>>
      BY <1>6 DEF RunJob
    <2> SUFFICES ASSUME NEW m \in nics', m.state = "provisioning"
                 PROVE  m \in nics /\ (j.op = "add" => m.mac # j.mac)
      BY DEF NoStaleNic
    <2>1. CASE RunAddJob(j)
      BY <2>1, ReportedNics DEF Reported
    <2>2. CASE FailAddJob(j)
      BY <2>2 DEF FailAddJob, Without
    <2>3. CASE RunRemoveJob(j) \/ FailRemoveJob(j)
      BY <2>3 DEF RunRemoveJob, FailRemoveJob, Without
    <2> QED
      BY <2>1, <2>2, <2>3
  <1>7. ASSUME NEW v \in Vms, DestroyVm(v) PROVE NoStaleNic'
    BY <1>7 DEF DestroyVm, NoStaleNic
  <1>8. CASE UNCHANGED vars
    BY <1>8, <1>q DEF vars
  <1>9. \A s \in Slots : ~Crash(s)
    BY DEF Crash, Reliable
  <1> QED
    BY <1>1, <1>2, <1>3, <1>4, <1>5, <1>6, <1>7, <1>8, <1>9, <1>q, ReadsKeepNic
    DEF Next, Handle

\* No failed POST leaves a NIC in NAPI that will be provisioning for ever.
THEOREM FailedAddsLeaveNoNic ==
    ASSUME Reliable
    PROVE  Spec => []NoStaleNic
  <1>1. Init => NoStaleNic
    BY DEF Init, NoStaleNic
  <1>2. "addNics" \notin Losing
    BY DEF Reliable
  <1>3. Spec => []Custody
    BY <1>2, CustodyInvariant
  <1> QED
    BY <1>1, <1>3, NextNoStaleNic, TypeInvariant, PTL DEF Spec

-----------------------------------------------------------------------------
(* One NIC per network. With no two overlapping POSTs of one network to one
   machine, what checkNicDoesntExist() saw still holds in addToNapi().     *)

NoOverlap ==
    \A s, t \in Slots :
        /\ pc[s] # "idle" /\ req[s].op = "add"
        /\ pc[t] # "idle" /\ req[t].op = "add"
        /\ req[s].vm = req[t].vm /\ req[s].network = req[t].network
        => s = t

StillAbsent ==
    \A s \in Slots : pc[s] \in {"checkServerHasTag", "addToNapi"} =>
        \A n \in nics : n.vm = req[s].vm => n.network # req[s].network

SerialInv == OneRecord /\ NoOverlap /\ StillAbsent /\ OneNicPerNetwork

LEMMA SlotMoves ==
    ASSUME TypeInv, NEW s \in Slots, Handle(s) \/ Crash(s)
    PROVE  /\ \A t \in Slots \ {s} : pc'[t] = pc[t] /\ req'[t] = req[t]
           /\ pc'[s] = "idle" \/ req'[s] = req[s]
           /\ pc'[s] = "addToNapi" => pc[s] = "checkServerHasTag"
           /\ pc'[s] = "checkServerHasTag" => pc[s] = "checkNicDoesntExist" /\ NetworkNics(s) = {}
  <1>1. \A step : Goto(s, step) =>
            /\ \A t \in Slots \ {s} : pc'[t] = pc[t] /\ req'[t] = req[t]
            /\ pc'[s] = step /\ req'[s] = req[s]
    BY DEF Goto, TypeInv, RequestsOK
  <1>2. \A code : Respond(s, code) =>
            /\ \A t \in Slots \ {s} : pc'[t] = pc[t] /\ req'[t] = req[t]
            /\ pc'[s] = "idle"
    BY DEF Respond, TypeInv, RequestsOK
  <1>3. Fail(s) =>
            /\ \A t \in Slots \ {s} : pc'[t] = pc[t] /\ req'[t] = req[t]
            /\ pc'[s] \in {"idle", "removeFromNapi"}
            /\ pc'[s] = "idle" \/ req'[s] = req[s]
    BY <1>1, <1>2 DEF Fail
  <1>4. CASE Crash(s)
    BY <1>2, <1>4 DEF Crash
  <1>5. CASE GetMachine(s) \/ GetNetwork(s) \/ CheckServerHasTag(s)
    BY <1>1, <1>3, <1>5 DEF GetMachine, GetNetwork, CheckServerHasTag, Rejected
  <1>6. CASE CheckNicDoesntExist(s)
    BY <1>1, <1>2, <1>3, <1>6 DEF CheckNicDoesntExist, Rejected
  <1>7. CASE AddToNapi(s)
    BY <1>1, <1>3, <1>7 DEF AddToNapi, Rejected
  <1>8. CASE AddToVm(s) \/ RemoveFromNapi(s)
    BY <1>2, <1>3, <1>8 DEF AddToVm, RemoveFromNapi, Rejected
  <1>9. CASE CheckNicExists(s) \/ RemoveFromNics(s)
    BY <1>1, <1>2, <1>3, <1>9 DEF CheckNicExists, RemoveFromNics, Rejected
  <1> QED
    BY <1>4, <1>5, <1>6, <1>7, <1>8, <1>9 DEF Handle

\* Only provisionNic() puts a machine on a network it is not on.
NoNewNic ==
    /\ \A m \in nics' : \E a \in nics : m.mac = a.mac /\ m.vm = a.vm /\ m.network = a.network
    /\ OneRecord => OneRecord'

LEMMA OnlyAddToNapiAdds ==
    ASSUME TypeInv, [Next]_vars, \A s \in Slots : ~AddToNapi(s)
    PROVE  NoNewNic
  <1>0. nics' \subseteq nics => NoNewNic
    BY DEF NoNewNic, OneRecord
  <1>1. ASSUME NEW id \in JobIds, RunJob(id) PROVE NoNewNic
    <2> PICK j \in jobs : RunAddJob(j) \/ FailAddJob(j) \/ RunRemoveJob(j) \/ FailRemoveJob(j)
      BY <1>1 DEF RunJob
    <2>1. CASE RunAddJob(j)
      <3>1. ASSUME OneRecord PROVE OneRecord'
        <4> SUFFICES ASSUME NEW m \in nics', NEW n \in nics', m.mac = n.mac
                     PROVE  m = n
          BY DEF OneRecord
        <4>1. PICK a \in nics, b \in nics : Reported(a, m, j.mac) /\ Reported(b, n, j.mac)
          BY <2>1, ReportedNics
        <4>2. a = b
          BY <3>1, <4>1 DEF Reported, OneRecord
        <4> QED
          BY <4>1, <4>2 DEF Reported
      <3> QED
        BY <2>1, <3>1, ReportedNics DEF Reported, NoNewNic
    <2> QED
      BY <1>0, <2>1 DEF FailAddJob, RunRemoveJob, FailRemoveJob, Without
  <1>2. ASSUME NEW s \in Slots, Arrive(s) \/ Crash(s) PROVE NoNewNic
    BY <1>0, <1>2 DEF Arrive, Crash, backends
  <1>3. ASSUME NEW s \in Slots, Handle(s) PROVE NoNewNic
    <2>1. CASE AddToVm(s) \/ RemoveFromNapi(s) \/ RemoveFromNics(s)
      BY <1>0, <2>1 DEF AddToVm, RemoveFromNapi, RemoveFromNics, Without, Rejected, backends
    <2> QED
      BY <1>0, <1>3, <2>1, ReadsKeepNic DEF Handle
  <1> QED
    BY <1>0, <1>1, <1>2, <1>3 DEF Next, vars, DestroyVm

LEMMA NextSerialInv ==
    ASSUME Serial, Pools = {}
    PROVE  TypeInv /\ SerialInv /\ [Next]_vars => SerialInv'
  <1> SUFFICES ASSUME TypeInv, SerialInv, [Next]_vars PROVE SerialInv'
    OBVIOUS
  <1>1. ASSUME NEW s \in Slots, AddToNapi(s) PROVE SerialInv'
    <2>1. /\ \A t \in Slots \ {s} : pc'[t] = pc[t] /\ req'[t] = req[t]
          /\ pc'[s] = "idle" \/ req'[s] = req[s]
          /\ pc'[s] \notin {"checkServerHasTag", "addToNapi"}
      BY <1>1, SlotMoves DEF Handle, AddToNapi
    <2>2. NoOverlap'
      BY <1>1, <2>1 DEF SerialInv, NoOverlap, AddToNapi
    <2>3. CASE nics' = nics
      BY <2>1, <2>2, <2>3 DEF SerialInv, OneRecord, StillAbsent, OneNicPerNetwork
    <2>4. ASSUME NEW n \in Provisioned(req[s].vm, req[s].network), nics' = nics \cup {n}
          PROVE  SerialInv'
      <3>1. n.vm = req[s].vm /\ n.network = req[s].network
        BY DEF Provisioned
      <3>2. \A m \in nics : m.vm = n.vm => m.network # n.network
        BY <1>1, <3>1 DEF AddToNapi, SerialInv, StillAbsent
      <3>3. OneNicPerNetwork' /\ OneRecord'
        BY <2>4, <3>2 DEF SerialInv, OneNicPerNetwork, OneRecord, Provisioned, Listed
      <3>4. StillAbsent'
        <4> SUFFICES ASSUME NEW t \in Slots, pc'[t] \in {"checkServerHasTag", "addToNapi"},
                            NEW m \in nics', m.vm = req'[t].vm
                     PROVE  m.network # req'[t].network
          BY DEF StillAbsent
        <4>1. t # s /\ pc'[t] = pc[t] /\ req'[t] = req[t]
          BY <2>1
        <4>2. req[t].op = "add" /\ req[s].op = "add"
          BY <1>1, <4>1, RequestFields DEF AddToNapi, TypeInv, RouteOK
        <4>3. CASE m \in nics
          BY <4>1, <4>3 DEF SerialInv, StillAbsent
        <4>4. CASE m = n
          BY <1>1, <3>1, <4>1, <4>2, <4>4 DEF AddToNapi, SerialInv, NoOverlap
        <4> QED
          BY <2>4, <4>3, <4>4
      <3> QED
        BY <2>2, <3>3, <3>4 DEF SerialInv
    <2> QED
      BY <1>1, <2>3, <2>4 DEF AddToNapi, Rejected, backends
  <1>2. CASE NoNewNic
    <2>1. OneRecord'
      BY <1>2 DEF NoNewNic, SerialInv
    <2>2. OneNicPerNetwork'
      <3> SUFFICES ASSUME NEW m \in nics', NEW n \in nics', m.vm = n.vm, m.network = n.network
                   PROVE  m = n
        BY DEF OneNicPerNetwork
      <3> PICK a \in nics : m.mac = a.mac /\ m.vm = a.vm /\ m.network = a.network
        BY <1>2 DEF NoNewNic
      <3> PICK b \in nics : n.mac = b.mac /\ n.vm = b.vm /\ n.network = b.network
        BY <1>2 DEF NoNewNic
      <3>1. m.mac = n.mac
        BY DEF SerialInv, OneNicPerNetwork
      <3> QED
        BY <2>1, <3>1 DEF OneRecord
    <2>3. \A vm, net : (\A a \in nics : a.vm = vm => a.network # net)
                        => \A m \in nics' : m.vm = vm => m.network # net
      BY <1>2 DEF NoNewNic
    <2>4. ASSUME NEW s \in Slots, Handle(s) \/ Crash(s) PROVE NoOverlap' /\ StillAbsent'
      <3>1. NoOverlap'
        <4>1. pc[s] # "idle"
          BY <2>4 DEF Crash, Handle, GetMachine, GetNetwork, CheckNicDoesntExist,
                      CheckServerHasTag, AddToNapi, AddToVm, RemoveFromNapi,
                      CheckNicExists, RemoveFromNics
        <4>2. \A t \in Slots : pc'[t] # "idle" => pc[t] # "idle" /\ req'[t] = req[t]
          BY <2>4, <4>1, SlotMoves
        <4> QED
          BY <4>2 DEF SerialInv, NoOverlap
      <3>2. ASSUME NEW t \in Slots, pc'[t] \in {"checkServerHasTag", "addToNapi"}
            PROVE  \A m \in nics' : m.vm = req'[t].vm => m.network # req'[t].network
        <4>1. req'[t] = req[t]
          BY <2>4, <3>2, SlotMoves
        <4>2. \A a \in nics : a.vm = req[t].vm => a.network # req[t].network
          BY <2>4, <3>2, SlotMoves DEF SerialInv, StillAbsent, NetworkNics
        <4> QED
          BY <2>3, <4>1, <4>2
      <3> QED
        BY <3>1, <3>2 DEF StillAbsent
    <2>5. ASSUME NEW s \in Slots, Arrive(s) PROVE NoOverlap' /\ StillAbsent'
      <3> PICK r \in AddRequest \cup RemoveRequest :
            /\ r.op = "add" => \A t \in Slots : ~Overlaps(t, r)
            /\ req' = [req EXCEPT ![s] = r]
        BY <2>5 DEF Arrive
      <3>1. /\ req'[s] = r /\ \A t \in Slots \ {s} : req'[t] = req[t] /\ pc'[t] = pc[t]
            /\ pc'[s] = "getMachine" /\ nics' = nics
        BY <2>5 DEF Arrive, backends, TypeInv, RequestsOK
      <3>2. NoOverlap'
        BY <3>1 DEF SerialInv, NoOverlap, Overlaps
      <3>3. StillAbsent'
        BY <3>1 DEF SerialInv, StillAbsent
      <3> QED
        BY <3>2, <3>3
    <2>6. ASSUME UNCHANGED <<pc, req>> PROVE NoOverlap' /\ StillAbsent'
      <3>1. NoOverlap'
        BY <2>6 DEF SerialInv, NoOverlap
      <3>2. StillAbsent'
        BY <2>3, <2>6 DEF SerialInv, StillAbsent
      <3> QED
        BY <3>1, <3>2
    <2> QED
      BY <2>1, <2>2, <2>4, <2>5, <2>6 DEF SerialInv, Next, RunJob, DestroyVm, vars
  <1> QED
    BY <1>1, <1>2, OnlyAddToNapiAdds

LEMMA SerialInvariant ==
    ASSUME Serial, Pools = {}
    PROVE  Spec => []SerialInv
  <1>1. Init => SerialInv
    BY DEF Init, SerialInv, OneRecord, NoOverlap, StillAbsent, OneNicPerNetwork
  <1> QED
    BY <1>1, NextSerialInv, TypeInvariant, PTL DEF Spec

\* Clients that wait for the answer to a POST before they repeat it never get two
\* NICs on one network, whatever call fails or takes effect behind an error.
THEOREM SerialClientsGetOneNic ==
    ASSUME Serial, Pools = {}
    PROVE  Spec => []OneNicPerNetwork
  <1>1. SerialInv => OneNicPerNetwork
    BY DEF SerialInv
  <1> QED
    BY <1>1, SerialInvariant, PTL

-----------------------------------------------------------------------------
(* The refinement of NicLedger. Each step of a request or a job enters,
   withdraws, plugs in or unplugs NICs, or leaves the ledger alone.        *)

EntryOf(n) == [mac |-> n.mac, vm |-> n.vm, network |-> n.network]

Entries == {EntryOf(n) : n \in nics}

LEMMA EntryFields ==
    ASSUME TypeInv
    PROVE  /\ \A n \in nics : /\ EntryOf(n) \in Ledger!Entry /\ EntryOf(n) \in Entries
                              /\ EntryOf(n).mac = n.mac /\ EntryOf(n).vm = n.vm
                              /\ EntryOf(n).network = n.network
           /\ \A e \in Entries : \E n \in nics : e = EntryOf(n)
  BY DEF Entries, EntryOf, Ledger!Entry, TypeInv, StoresOK, Nic

\* Deleting a record withdraws its entry.
LEMMA WithoutEntries ==
    ASSUME TypeInv, OneRecord, NEW n \in nics, nics' = Without(n.mac)
    PROVE  Entries' = Entries \ {EntryOf(n)}
  <1>1. \A m \in nics : EntryOf(m) = EntryOf(n) => m = n
    BY EntryFields DEF OneRecord
  <1>2. nics' = nics \ {n}
    BY DEF Without, OneRecord
  <1> QED
    BY <1>1, <1>2 DEF Entries

LEMMA LedgerStep ==
    ASSUME Serial, Pools = {}, "addNics" \notin Losing,
           TypeInv, Custody, SerialInv, [Next]_vars
    PROVE  [Ledger!Next]_<<Entries, vnics>>
  <1> USE DEF Custody
  <1>e. /\ Entries = {[mac |-> n.mac, vm |-> n.vm, network |-> n.network] : n \in nics}
        /\ Entries' = {[mac |-> n.mac, vm |-> n.vm, network |-> n.network] : n \in nics'}
    BY DEF Entries, EntryOf
  <1>0. UNCHANGED <<nics, vnics>> => UNCHANGED <<Entries, vnics>>
    BY DEF Entries
  <1>1. ASSUME NEW s \in Slots, AddToNapi(s), nics' # nics
        PROVE  Ledger!Next
    <2> PICK n \in Provisioned(req[s].vm, req[s].network) : nics' = nics \cup {n}
      BY <1>1 DEF AddToNapi, Rejected, backends
    <2>1. /\ n \in Nic /\ n.vm = req[s].vm /\ n.network = req[s].network
          /\ \A m \in nics : m.mac # n.mac
      BY DEF Provisioned, Listed
    <2>2. \A m \in nics : m.vm = n.vm => m.network # n.network
      BY <1>1, <2>1 DEF AddToNapi, SerialInv, StillAbsent
    <2>3. /\ EntryOf(n) \in Ledger!Entry /\ EntryOf(n).mac = n.mac
          /\ EntryOf(n).vm = n.vm /\ EntryOf(n).network = n.network
      BY <2>1 DEF EntryOf, Ledger!Entry, Nic
    <2>4. Entries' = Entries \cup {EntryOf(n)}
      BY DEF Entries
    <2>5. UNCHANGED vnics
      BY <1>1 DEF AddToNapi, Rejected, backends
    <2>6. \A f \in Entries : /\ f.mac # EntryOf(n).mac
                             /\ f.vm = EntryOf(n).vm => f.network # EntryOf(n).network
      BY <2>1, <2>2, <2>3, EntryFields
    <2>7. Ledger!Enter(EntryOf(n))
      BY <1>e, <2>4, <2>5, <2>6 DEF Ledger!Enter
    <2> QED
      BY <2>3, <2>7 DEF Ledger!Next
  <1>w. ASSUME NEW n \in nics, n.state = "provisioning", nics' = Without(n.mac), UNCHANGED vnics
        PROVE  Ledger!Next
    <2>1. Entries' = Entries \ {EntryOf(n)}
      BY <1>w, WithoutEntries
    <2>2. \A p \in vnics : p[2] # EntryOf(n).mac
      BY <1>w, EntryFields DEF NoPhantomNic, OneRecord
    <2>3. EntryOf(n) \in Ledger!Entry /\ EntryOf(n) \in Entries
      BY EntryFields
    <2>4. Ledger!Withdraw(EntryOf(n))
      BY <1>w, <2>1, <2>2, <2>3 DEF Ledger!Withdraw, Entries, EntryOf
    <2> QED
      BY <2>3, <2>4 DEF Ledger!Next
  <1>u. ASSUME NEW gone \in SUBSET vnics, vnics' = vnics \ gone,
               nics' = {n \in nics : <<n.vm, n.mac>> \notin gone}
        PROVE  Ledger!Next
    <2>1. Entries' = {e \in Entries : <<e.vm, e.mac>> \notin gone}
      <3>1. \A n \in nics : EntryOf(n).vm = n.vm /\ EntryOf(n).mac = n.mac
        BY EntryFields
      <3> QED
        BY <1>u, <3>1 DEF Entries
    <2>2. Ledger!Unplug(gone)
      BY <1>u, <2>1 DEF Ledger!Unplug, Entries, EntryOf
    <2> QED
      BY <2>2 DEF Ledger!Next
  <1>2. ASSUME NEW s \in Slots, RemoveFromNapi(s), nics' # nics
        PROVE  Ledger!Next
    <2>1. nic[s] # NoMac
      BY <1>2 DEF RemoveFromNapi, TypeInv, RouteOK
    <2>2. PICK n \in nics : n.mac = nic[s] /\ n.state = "provisioning"
      BY <2>1 DEF RequestCustody, Provisioning
    <2> QED
      BY <1>2, <1>w, <2>2 DEF RemoveFromNapi
  <1>3. ASSUME NEW id \in JobIds, RunJob(id)
        PROVE  Ledger!Next \/ UNCHANGED <<nics, vnics>>
    <2> PICK j \in jobs : RunAddJob(j) \/ FailAddJob(j) \/ RunRemoveJob(j) \/ FailRemoveJob(j)
      BY <1>3 DEF RunJob
    <2>1. CASE RunAddJob(j)
      <3>1. PICK n \in nics : n.mac = j.mac /\ n.vm = j.vm /\ n.state = "provisioning"
        BY <2>1 DEF RunAddJob, JobCustody, Provisioning
      <3>2. Entries' = Entries
        <4>1. \A m : \A a \in nics : Reported(a, m, j.mac) => EntryOf(m) = EntryOf(a)
          BY DEF Reported, EntryOf
        <4>2. /\ \A m \in nics' : \E a \in nics : EntryOf(m) = EntryOf(a)
              /\ \A a \in nics : \E m \in nics' : EntryOf(m) = EntryOf(a)
          BY <2>1, <4>1, ReportedNics
        <4> QED
          BY <4>2 DEF Entries
      <3>3. \A p \in vnics : p[2] # EntryOf(n).mac
        BY <3>1, EntryFields DEF NoPhantomNic, OneRecord
      <3>4. vnics' = vnics \cup {<<EntryOf(n).vm, EntryOf(n).mac>>}
        BY <2>1, <3>1, EntryFields DEF RunAddJob
      <3>5. EntryOf(n) \in Ledger!Entry /\ EntryOf(n) \in Entries
        BY EntryFields
      <3>6. Ledger!Plug(EntryOf(n))
        BY <3>2, <3>3, <3>4, <3>5 DEF Ledger!Plug, Entries, EntryOf
      <3> QED
        BY <3>5, <3>6 DEF Ledger!Next
    <2>2. CASE FailAddJob(j)
      <3>1. PICK n \in nics : n.mac = j.mac /\ n.state = "provisioning"
        BY <2>2 DEF FailAddJob, JobCustody, Provisioning
      <3> QED
        BY <2>2, <3>1, <1>w DEF FailAddJob
    <2>3. CASE RunRemoveJob(j)
      <3>1. \A n \in nics : n.mac = j.mac => n.vm = j.vm
        BY <2>3 DEF RunRemoveJob, OneRecord, NoPhantomNic
      <3>2. nics' = {n \in nics : <<n.vm, n.mac>> \notin {<<j.vm, j.mac>>}}
        BY <2>3, <3>1 DEF RunRemoveJob, Without
      <3> QED
        BY <2>3, <3>2, <1>u DEF RunRemoveJob
    <2> QED
      BY <2>1, <2>2, <2>3 DEF FailRemoveJob
  <1>4. ASSUME NEW v \in Vms, DestroyVm(v)
        PROVE  Ledger!Next
    <2> DEFINE gone == {p \in vnics : p[1] = v}
    <2>1. vnics' = vnics \ gone
      BY <1>4 DEF DestroyVm
    <2>2. nics' = {n \in nics : <<n.vm, n.mac>> \notin gone}
      <3>1. \A n \in nics : <<v, n.mac>> \in vnics => n.vm = v
        BY DEF NoPhantomNic, OneRecord
      <3>2. \A n \in nics : <<v, n.mac>> \in vnics <=> <<n.vm, n.mac>> \in gone
        BY <3>1
      <3> QED
        BY <1>4, <3>2 DEF DestroyVm
    <2> HIDE DEF gone
    <2>3. gone \in SUBSET vnics
      BY DEF gone
    <2> QED
      BY <1>u, <2>1, <2>2, <2>3
  <1>5. ASSUME NEW s \in Slots, Handle(s), ~AddToNapi(s), ~RemoveFromNapi(s)
        PROVE  UNCHANGED <<nics, vnics>>
    <2>1. CASE AddToVm(s) \/ RemoveFromNics(s)
      BY <2>1 DEF AddToVm, RemoveFromNics, Rejected, backends
    <2> QED
      BY <1>5, <2>1, ReadsAreQuiet DEF Handle, Quiet, backends
  <1>6. ASSUME NEW s \in Slots, AddToNapi(s) \/ RemoveFromNapi(s)
        PROVE  UNCHANGED vnics
    BY <1>6 DEF AddToNapi, RemoveFromNapi, Rejected, backends
  <1>7. ASSUME NEW s \in Slots, Arrive(s) \/ Crash(s)
        PROVE  UNCHANGED <<nics, vnics>>
    BY <1>7 DEF Arrive, Crash, backends
  <1> QED
    BY <1>0, <1>1, <1>2, <1>3, <1>4, <1>5, <1>6, <1>7 DEF Next, vars

\* NAPI and the machines together keep the ledger of NicLedger.
THEOREM NicsKeepTheLedger ==
    ASSUME Serial, Pools = {}, "addNics" \notin Losing
    PROVE  Spec => LedgerSpec
  <1>1. Init => Ledger!Init
    BY DEF Init, Ledger!Init
  <1>2. TypeInv /\ Custody /\ SerialInv /\ [Next]_vars
          => [Ledger!Next]_<<{[mac |-> n.mac, vm |-> n.vm, network |-> n.network] : n \in nics}, vnics>>
    BY LedgerStep DEF Entries, EntryOf
  <1> QED
    BY <1>1, <1>2, TypeInvariant, CustodyInvariant, SerialInvariant, PTL
    DEF Spec, LedgerSpec, Ledger!Spec

=============================================================================
