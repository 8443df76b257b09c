------------------------------ MODULE Machines ------------------------------
(***************************************************************************)
(* What clients do to a machine that exists: the update actions and DELETE *)
(* of lib/machines.js, lib/metadata.js, lib/tags.js and lib/snapshots.js.  *)
(*                                                                         *)
(* A request loads the machine, then asks VMAPI for a job and is answered; *)
(* the job changes the machine later. So a handler decides by a machine    *)
(* that other requests and jobs may have changed since. Each action is one *)
(* call with the local code that follows its reply.                        *)
(***************************************************************************)
EXTENDS Naturals, Sequences, SequencesExt

CONSTANTS
    Slots,      \* requests in flight at once
    MaxJobs,    \* bound: jobs pending in VMAPI and snapshot jobs it remembers
    MetaKeys,   \* customer metadata that clients may set and delete
    TagKeys,
    Values,
    Absent,     \* the value of a key that is not set
    SnapNames,
    Created,    \* the protected keys that create() stored
    Ops,        \* the operations of the clients
    Failures    \* "rejected": calls may fail; "lost": a reply may be lost

None == "none"

UpdateOps == {"start", "stop", "reboot", "resize", "rename",
              "enable_firewall", "disable_firewall", "bogus"}

MetaOps == {"addMetadata", "deleteMetadata", "deleteAllMetadata"}

TagOps == {"addTags", "replaceTags", "deleteTag", "deleteAllTags"}

SnapshotOps == {"createSnapshot", "getSnapshot", "startFromSnapshot", "deleteSnapshot"}

\* DELETE leaves these keys of the metadata alone, one by one or all at once.
Protected == {"administrator_pw", "root_authorized_keys"}

\* "uuid" stands for the parameters that DELETE of all metadata stores with it, and
\* Own for their values.
Metadata == MetaKeys \cup Protected \cup {"uuid"}

Keys == Metadata \cup TagKeys

Own == "own"

ASSUME MachinesAssumption ==
    /\ MaxJobs \in Nat
    /\ Created \subseteq Protected
    /\ Absent \notin Values
    /\ TagKeys \cap Metadata = {}  \* tags and metadata are fields of their own
    /\ MetaKeys \cap (Protected \cup {"uuid"}) = {}
    /\ Ops \subseteq (UpdateOps \cup {"delete"} \cup MetaOps \cup TagOps \cup SnapshotOps)
    /\ Failures \subseteq {"rejected", "lost"}

VARIABLES
    vm,        \* VMAPI: the machine
    jobs,      \* VMAPI: its jobs, the latest first
    pc,        \* the next call of each request
    req,       \* each request's parameters
    machine,   \* what each request knows of the machine
    sent,      \* the answers that the latest step sent to its client
    quiet      \* history: no request on the same part of the machine overlapped

vars == <<vm, jobs, pc, req, machine, sent, quiet>>

Vm == [state: {"running", "stopped", "deleted"}, firewall: BOOLEAN,
       data: [Keys -> Values \cup {Absent, Own}], snapshots: SUBSET SnapNames]

\* What the handlers keep of it: the update handlers its state and its firewall,
\* DELETE of all metadata the protected keys, GET of a snapshot the snapshots.
Seen == [state: {"running", "stopped", "deleted"}, firewall: BOOLEAN]
            \cup [data: [Protected -> Values \cup {Absent}]]
            \cup [snapshots: SUBSET SnapNames]

Nothing == [state |-> "none"]

\* A value for each of the keys that a POST names, here one key.
Settings(keys) == UNION {[{k} -> Values] : k \in keys}

Request ==
    [op: UpdateOps \cup {"delete", "deleteAllMetadata", "deleteAllTags"}, arg: {None}]
        \cup [op: {"addMetadata"}, arg: Settings(MetaKeys \cup {"root_authorized_keys"})]
        \cup [op: {"deleteMetadata"}, arg: MetaKeys \cup Protected]
        \cup [op: {"addTags", "replaceTags"}, arg: Settings(TagKeys)]
        \cup [op: {"deleteTag"}, arg: TagKeys]
        \cup [op: SnapshotOps, arg: SnapNames]

NoRequest == [op |-> "none"]

\* What a job sets and removes is worked out when VMAPI takes it.
Job == [req: Request, set: UNION {[K -> Values \cup {Own}] : K \in SUBSET Keys}, remove: SUBSET Keys,
        execution: {"queued", "succeeded", "failed"}, quiet: BOOLEAN]

Steps == {"idle", "loadMachine", "update", "delete", "addMetadata", "listMetadata",
          "deleteMetadata", "listAllMetadata", "setMetadata", "addTags", "listTags",
          "replaceTags", "deleteTag", "deleteAllTags", "createSnapshot", "getVm",
          "listJobs", "startFromSnapshot", "deleteSnapshot"}

Codes == {"200", "201", "202", "204", "404", "409", "410", "error",
          "queued", "created", "failed", "deleted"}

\* The part of the machine that an operation is about.
Part(op) ==
    CASE op \in {"enable_firewall", "disable_firewall"} -> "firewall"
      [] op \in MetaOps -> "metadata"
      [] op \in TagOps -> "tags"
      [] op \in SnapshotOps -> "snapshots"
      [] OTHER -> "power"

Pending(job) == job.execution = "queued"

\* The keys of a kind that the machine has.
Present(keys) == {k \in keys : vm.data[k] # Absent}

-----------------------------------------------------------------------------
Init ==
    /\ \E d \in [Created -> Values] :
           vm = [state |-> "running", firewall |-> FALSE, snapshots |-> {},
                 data |-> [k \in Keys |-> IF k \in Created THEN d[k] ELSE Absent]]
    /\ jobs = <<>>
    /\ pc = [s \in Slots |-> "idle"]
    /\ req = [s \in Slots |-> NoRequest]
    /\ machine = [s \in Slots |-> Nothing]
    /\ sent = <<>>
    /\ quiet = [s \in Slots |-> TRUE]

Goto(s, step) ==
    /\ pc' = [pc EXCEPT ![s] = step]
    /\ sent' = <<>>
    /\ UNCHANGED <<req, quiet>>

\* What a chain sends from here to its end, seldom more than one answer.
End(s, codes) ==
    /\ pc' = [pc EXCEPT ![s] = "idle"]
    /\ req' = [req EXCEPT ![s] = NoRequest]
    /\ machine' = [machine EXCEPT ![s] = Nothing]
    /\ sent' = codes
    /\ quiet' = [quiet EXCEPT ![s] = TRUE]

Rejected(s) ==
    /\ "rejected" \in Failures
    /\ End(s, <<"error">>)
    /\ UNCHANGED <<vm, jobs>>

Arrive(s) ==
    /\ pc[s] = "idle"
    /\ \E r \in Request :
        /\ r.op \in Ops
        /\ req' = [req EXCEPT ![s] = r]
        /\ LET Meets(o) == Part(o.op) = Part(r.op)
           IN  /\ quiet' = [t \in Slots |->
                    IF t = s
                    THEN /\ \A u \in Slots : req[u] # NoRequest => ~Meets(req[u])
                         /\ \A i \in DOMAIN jobs : Pending(jobs[i]) => ~Meets(jobs[i].req)
                    ELSE quiet[t] /\ (req[t] # NoRequest => ~Meets(req[t]))]
               /\ jobs' = [i \in DOMAIN jobs |->
                    [jobs[i] EXCEPT !.quiet = @ /\ ~(Pending(jobs[i]) /\ Meets(jobs[i].req))]]
    /\ pc' = [pc EXCEPT ![s] = "loadMachine"]
    /\ sent' = <<>>
    /\ UNCHANGED <<vm, machine>>

-----------------------------------------------------------------------------
(* VMAPI takes a job. *)

Accepts(op) ==
    /\ vm.state # "deleted"
    /\ op = "start" => vm.state = "stopped"
    /\ op \in {"stop", "reboot"} => vm.state = "running"

Queue(s, set, remove) ==
    /\ Len(jobs) < MaxJobs
    /\ jobs' = <<[req |-> req[s], set |-> set, remove |-> remove,
                  execution |-> "queued", quiet |-> quiet[s]]>> \o jobs

\* A call for a job, that refuses it, queues it, or queues it and loses the reply;
\* then what the handler does with the reply.
Call(s, set, remove, Continue) ==
    \/ Rejected(s)
    \/ ~Accepts(req[s].op) /\ End(s, <<"error">>) /\ UNCHANGED <<vm, jobs>>
    \/ /\ Accepts(req[s].op)
       /\ Queue(s, set, remove)
       /\ \/ Continue
          \/ "lost" \in Failures /\ End(s, <<"error">>)
       /\ UNCHANGED vm

Simply(s, code) == Call(s, <<>>, {}, End(s, <<code>>))

-----------------------------------------------------------------------------
(* The handlers of machines.js. *)

\* loadMachine(), in the chain of every route that names a machine.
LoadMachine(s) ==
    /\ pc[s] = "loadMachine"
    /\ \/ Rejected(s)
       \/ /\ machine' = [machine EXCEPT ![s] =
                 IF req[s].op \in UpdateOps \cup {"delete"}
                 THEN [state |-> vm.state, firewall |-> vm.firewall] ELSE Nothing]
          /\ Goto(s, CASE req[s].op \in UpdateOps -> "update"
                       [] req[s].op = "deleteAllMetadata" -> "listAllMetadata"
                       [] req[s].op = "getSnapshot" -> "getVm"
                       [] OTHER -> req[s].op)
          /\ UNCHANGED <<vm, jobs>>

\* For a machine that is deleted a handler sends 410 and passes the request on to the
\* end of the chain, where no action is valid.
Gone(s) ==
    /\ machine[s].state = "deleted"
    /\ End(s, <<"410", "409">>)
    /\ UNCHANGED <<vm, jobs>>

\* A job for a machine that was there when it was loaded.
UpdateVm(s) == machine[s].state # "deleted" /\ Simply(s, "202")

StartStopReboot(s) ==
    /\ req[s].op \in {"start", "stop", "reboot"}
    /\ Gone(s) \/ UpdateVm(s)

\* The package or the name may not do.
Invalid(s) ==
    /\ machine[s].state # "deleted"
    /\ End(s, <<"409">>)
    /\ UNCHANGED <<vm, jobs>>

Resize(s) ==
    /\ req[s].op = "resize"
    /\ Gone(s) \/ Invalid(s) \/ UpdateVm(s)

Rename(s) ==
    /\ req[s].op = "rename"
    /\ Gone(s) \/ Invalid(s) \/ UpdateVm(s)

\* Mutant: a job is only needed to switch the firewall on.
FirewallIsDisabled(s) ==
    \/ req[s].op = "enable_firewall" /\ machine[s].firewall
    \/ req[s].op = "disable_firewall"

\* No need to queue a job if it is what it is asked to be.
FirewallIs(s) ==
    \/ req[s].op = "enable_firewall" /\ machine[s].firewall
    \/ req[s].op = "disable_firewall" /\ ~machine[s].firewall

SwitchFirewall(s) ==
    /\ req[s].op \in {"enable_firewall", "disable_firewall"}
    /\ \/ Gone(s)
       \/ /\ machine[s].state # "deleted" /\ FirewallIs(s)
          /\ End(s, <<"202">>)
          /\ UNCHANGED <<vm, jobs>>
       \/ ~FirewallIs(s) /\ UpdateVm(s)

\* The chain of the update handlers.
Update(s) ==
    /\ pc[s] = "update"
    /\ \/ StartStopReboot(s)
       \/ Resize(s)
       \/ Rename(s)
       \/ SwitchFirewall(s)
       \/ req[s].op = "bogus" /\ End(s, <<"409">>) /\ UNCHANGED <<vm, jobs>>

Delete(s) ==
    /\ pc[s] = "delete"
    /\ IF machine[s].state = "deleted"
       THEN End(s, <<"410">>) /\ UNCHANGED <<vm, jobs>>
       ELSE Simply(s, "204")

-----------------------------------------------------------------------------
(* metadata.js and tags.js. *)

\* What the answer shows is read after the job is queued.
Show(s) ==
    \/ Rejected(s)
    \/ End(s, <<"200">>) /\ UNCHANGED <<vm, jobs>>

AddMetadata(s) ==
    \/ /\ pc[s] = "addMetadata"
       /\ Call(s, req[s].arg, {}, Goto(s, "listMetadata") /\ UNCHANGED machine)
    \/ pc[s] = "listMetadata" /\ Show(s)

AddTags(s) ==
    \/ /\ pc[s] = "addTags"
       /\ Call(s, req[s].arg, {}, Goto(s, "listTags") /\ UNCHANGED machine)
    \/ pc[s] = "listTags" /\ Show(s)

\* Mutant: any key may be deleted.
DeleteAnyMetadata(s) ==
    /\ pc[s] = "deleteMetadata"
    /\ Call(s, <<>>, {req[s].arg}, End(s, <<"204">>))

DeleteMetadata(s) ==
    /\ pc[s] = "deleteMetadata"
    /\ IF req[s].arg \in Protected
       THEN End(s, <<"409">>) /\ UNCHANGED <<vm, jobs>>
       ELSE Call(s, <<>>, {req[s].arg}, End(s, <<"204">>))

\* Mutant: keys that are not set are kept as well.
AllProtected(s) == Protected

\* The keys that DELETE of all metadata keeps.
Kept(s) == {k \in Protected : machine[s].data[k] # Absent}

\* listMetadata(), then setMetadata() with the protected keys it showed.
DeleteAllMetadata(s) ==
    \/ /\ pc[s] = "listAllMetadata"
       /\ \/ Rejected(s)
          \/ /\ machine' = [machine EXCEPT ![s] =
                    [data |-> [k \in Protected |-> vm.data[k]]]]
             /\ Goto(s, "setMetadata")
             /\ UNCHANGED <<vm, jobs>>
    \/ /\ pc[s] = "setMetadata"
       /\ LET new == [k \in Kept(s) \cup {"uuid"} |->
                          IF k = "uuid" THEN Own ELSE machine[s].data[k]]
          IN  Call(s, new, Present(Metadata) \ DOMAIN new, End(s, <<"204">>))

ReplaceTags(s) ==
    /\ pc[s] = "replaceTags"
    /\ Call(s, req[s].arg, Present(TagKeys) \ DOMAIN req[s].arg, End(s, <<"200">>))

DeleteTags(s) ==
    \/ /\ pc[s] = "deleteTag"
       /\ Call(s, <<>>, {req[s].arg}, End(s, <<"204">>))
    \/ /\ pc[s] = "deleteAllTags"
       /\ Call(s, <<>>, Present(TagKeys), End(s, <<"204">>))

-----------------------------------------------------------------------------
(* snapshots.js *)

CreateSnapshot(s) == pc[s] = "createSnapshot" /\ Simply(s, "201")

StartFromSnapshot(s) == pc[s] = "startFromSnapshot" /\ Simply(s, "202")

DeleteSnapshot(s) == pc[s] = "deleteSnapshot" /\ Simply(s, "204")

\* The jobs that took a snapshot of this name, and the latest of them.
SnapshotJobs(name) ==
    {i \in DOMAIN jobs : jobs[i].req.op = "createSnapshot" /\ jobs[i].req.arg = name}

Latest(name) == {i \in SnapshotJobs(name) : \A j \in SnapshotJobs(name) : i <= j}

\* Mutant: the job tells the state, whatever the machine has.
JobState(s, execution) == IF execution = "succeeded" THEN "created" ELSE execution

\* A snapshot that the machine does not have is "deleted", whatever its job says.
SnapshotState(s, execution) ==
    IF req[s].arg \notin machine[s].snapshots THEN "deleted"
    ELSE IF execution = "succeeded" THEN "created" ELSE execution

\* getVm(), then listJobs().
GetSnapshot(s) ==
    \/ /\ pc[s] = "getVm"
       /\ \/ Rejected(s)
          \/ /\ machine' = [machine EXCEPT ![s] = [snapshots |-> vm.snapshots]]
             /\ Goto(s, "listJobs")
             /\ UNCHANGED <<vm, jobs>>
    \/ /\ pc[s] = "listJobs"
       /\ \/ Rejected(s)
          \/ /\ \/ SnapshotJobs(req[s].arg) = {} /\ End(s, <<"404">>)
                \/ \E i \in Latest(req[s].arg) : End(s, <<SnapshotState(s, jobs[i].execution)>>)
             /\ UNCHANGED <<vm, jobs>>

-----------------------------------------------------------------------------
(* The jobs, in any order. *)

Changed(job) ==
    CASE job.req.op \in {"start", "startFromSnapshot"} -> [vm EXCEPT !.state = "running"]
      [] job.req.op = "stop" -> [vm EXCEPT !.state = "stopped"]
      [] job.req.op = "delete" -> [vm EXCEPT !.state = "deleted"]
      [] job.req.op = "enable_firewall" -> [vm EXCEPT !.firewall = TRUE]
      [] job.req.op = "disable_firewall" -> [vm EXCEPT !.firewall = FALSE]
      [] job.req.op = "createSnapshot" -> [vm EXCEPT !.snapshots = @ \cup {job.req.arg}]
      [] job.req.op = "deleteSnapshot" -> [vm EXCEPT !.snapshots = @ \ {job.req.arg}]
      [] job.req.op \in MetaOps \cup TagOps ->
            [vm EXCEPT !.data = [k \in Keys |->
                IF k \in DOMAIN job.set THEN job.set[k]
                ELSE IF k \in job.remove THEN Absent ELSE @[k]]]
      [] OTHER -> vm

Possible(job) ==
    /\ vm.state # "deleted"
    /\ job.req.op = "createSnapshot" => job.req.arg \notin vm.snapshots
    /\ job.req.op \in {"startFromSnapshot", "deleteSnapshot"} =>
           job.req.arg \in vm.snapshots

\* A job that took a snapshot stays to tell how it ended.
Ended(i, execution) ==
    IF jobs[i].req.op = "createSnapshot"
    THEN [jobs EXCEPT ![i].execution = execution]
    ELSE RemoveAt(jobs, i)

JobSucceeds(i) ==
    /\ Pending(jobs[i])
    /\ Possible(jobs[i])
    /\ vm' = Changed(jobs[i])
    /\ jobs' = Ended(i, "succeeded")
    /\ sent' = <<>>
    /\ UNCHANGED <<pc, req, machine, quiet>>

JobFails(i) ==
    /\ Pending(jobs[i])
    /\ jobs' = Ended(i, "failed")
    /\ sent' = <<>>
    /\ UNCHANGED <<vm, pc, req, machine, quiet>>

-----------------------------------------------------------------------------
Handle(s) ==
    \/ LoadMachine(s)
    \/ Update(s)
    \/ Delete(s)
    \/ AddMetadata(s)
    \/ AddTags(s)
    \/ DeleteMetadata(s)
    \/ DeleteAllMetadata(s)
    \/ ReplaceTags(s)
    \/ DeleteTags(s)
    \/ CreateSnapshot(s)
    \/ StartFromSnapshot(s)
    \/ DeleteSnapshot(s)
    \/ GetSnapshot(s)

Next ==
    \/ \E s \in Slots : Arrive(s) \/ Handle(s)
    \/ \E i \in DOMAIN jobs : JobSucceeds(i) \/ JobFails(i)

Spec == Init /\ [][Next]_vars

-----------------------------------------------------------------------------
(* Properties. *)

TypeOK ==
    /\ vm \in Vm
    /\ jobs \in Seq(Job)
    /\ pc \in [Slots -> Steps]
    /\ req \in [Slots -> Request \cup {NoRequest}]
    /\ machine \in [Slots -> Seen \cup {Nothing}]
    /\ sent \in Seq(Codes)
    /\ quiet \in [Slots -> BOOLEAN]

\* The password and the authorized keys that create() gave a machine never get lost,
\* whatever requests and jobs run into each other. (Authorized keys that a client
\* sets first may: a DELETE of all metadata may have looked before.)
CreatedKeysStay == \A k \in Created : vm.data[k] # Absent

\* What the client of a request expects of the machine.
TakesEffect(r, before, after) ==
    CASE r.op = "enable_firewall" -> after.firewall
      [] r.op = "disable_firewall" -> ~after.firewall
      [] r.op \in {"addMetadata", "addTags"} ->
            \A k \in DOMAIN r.arg : after.data[k] = r.arg[k]
      [] r.op \in {"deleteMetadata", "deleteTag"} -> after.data[r.arg] = Absent
      [] r.op = "deleteAllMetadata" ->
            /\ \A k \in MetaKeys : after.data[k] = Absent
            /\ \A k \in Protected : after.data[k] = before.data[k]
      [] r.op = "replaceTags" ->
            \A k \in TagKeys : after.data[k] = IF k \in DOMAIN r.arg THEN r.arg[k] ELSE Absent
      [] r.op = "deleteAllTags" -> \A k \in TagKeys : after.data[k] = Absent
      [] OTHER -> TRUE

\* A request that no request on the same part of the machine overlaps, from its
\* arrival to the end of its job, has its effect when its job succeeds; if it is
\* answered without a job, the machine is as asked already. Requests that do overlap
\* may miss theirs: the decision to do without a job, the keys to keep and the
\* keys to remove are all read before other jobs run.
QuietRequestsTakeEffect ==
    [][/\ \A i \in DOMAIN jobs :
            JobSucceeds(i) /\ jobs[i].quiet => TakesEffect(jobs[i].req, vm, vm')
       /\ \A s \in Slots :
            pc[s] = "update" /\ sent' = <<"202">> /\ jobs' = jobs /\ quiet[s]
                => TakesEffect(req[s], vm, vm)]_vars

\* A client that polls a snapshot until it is created can start from it, unless
\* another request on snapshots overlaps.
CreatedSnapshotsExist ==
    [][\A s \in Slots :
        pc[s] = "listJobs" /\ sent' = <<"created">> /\ quiet[s]
            => req[s].arg \in vm.snapshots]_vars

\* A request is answered once: the handler that runs stops the chain.
OneAnswer == Len(sent) <= 1

=============================================================================
