-------------------------- MODULE MachinesProofs ---------------------------
(***************************************************************************)
(* Machines for any number of requests, jobs, keys and values: its types,  *)
(* that what create() stored in the metadata stays, that requests which    *)
(* nothing overlaps have their effect, and that a snapshot which is told   *)
(* to be created exists.                                                   *)
(***************************************************************************)
EXTENDS Machines, SequenceTheorems, TLAPS

\* What jobs may set and remove: never a protected key that create() stored, and
\* values of clients for the protected keys.
GoodSettings ==
    {f \in UNION {[K -> Values \cup {Own}] : K \in SUBSET Keys} :
        \A k \in DOMAIN f \cap Protected : f[k] \in Values}

GoodRemovals == {K \in SUBSET Keys : K \cap Created = {}}

GoodJobs == {j \in Job : j.set \in GoodSettings /\ j.remove \in GoodRemovals}

VmInv ==
    /\ vm \in Vm
    /\ \A k \in Protected : vm.data[k] \in Values \cup {Absent}
    /\ CreatedKeysStay

JobsInv == jobs \in Seq(GoodJobs)

\* The operation that each step belongs to, and what DELETE of all metadata read.
StepInv(s) ==
    /\ pc[s] # "idle" => req[s] \in Request
    /\ pc[s] \in {"addMetadata", "deleteMetadata", "addTags", "replaceTags", "deleteTag"}
           => req[s].op = pc[s]
    /\ pc[s] = "setMetadata" =>
           /\ machine[s] \in [data: [Protected -> Values \cup {Absent}]]
           /\ \A k \in Created : machine[s].data[k] # Absent

ControlInv ==
    /\ pc \in [Slots -> Steps]
    /\ req \in [Slots -> Request \cup {NoRequest}]
    /\ machine \in [Slots -> Seen \cup {Nothing}]
    /\ sent \in Seq(Codes)
    /\ quiet \in [Slots -> BOOLEAN]
    /\ \A s \in Slots : StepInv(s)

Inv == VmInv /\ JobsInv /\ ControlInv

-----------------------------------------------------------------------------
(* What jobs are asked to set and to remove. *)

LEMMA SetIsGood ==
    ASSUME NEW K \in SUBSET Keys, NEW f \in [K -> Values \cup {Own}],
           \A k \in K \cap Protected : f[k] \in Values
    PROVE  f \in GoodSettings
  BY DEF GoodSettings

LEMMA NothingIsGood == <<>> \in GoodSettings
<1>1. <<>> \in [{} -> Values \cup {Own}]
  OBVIOUS
<1> QED
  BY <1>1, SetIsGood

LEMMA SettingIsGood ==
    ASSUME NEW K \in SUBSET Keys, NEW f \in Settings(K)
    PROVE  f \in GoodSettings
<1>1. PICK k \in K : f \in [{k} -> Values]
  BY DEF Settings
<1>2. f \in [{k} -> Values \cup {Own}] /\ \A l \in {k} \cap Protected : f[l] \in Values
  BY <1>1
<1> QED
  BY <1>2, SetIsGood

\* What each request carries.
LEMMA RequestFacts ==
    ASSUME NEW r \in Request
    PROVE  /\ r.op = "addMetadata" => r.arg \in Settings(MetaKeys \cup {"root_authorized_keys"})
           /\ r.op \in {"addTags", "replaceTags"} => r.arg \in Settings(TagKeys)
           /\ r.op = "deleteMetadata" => r.arg \in MetaKeys \cup Protected
           /\ r.op = "deleteTag" => r.arg \in TagKeys
           /\ r.op \in SnapshotOps => r.arg \in SnapNames
           /\ r.op \in UpdateOps \cup {"delete"} \cup MetaOps \cup TagOps \cup SnapshotOps
           /\ r # NoRequest
  BY DEF Request, UpdateOps, MetaOps, TagOps, SnapshotOps, NoRequest

\* A job that VMAPI takes with good parameters is a good job.
LEMMA QueueOK ==
    ASSUME JobsInv, ControlInv, NEW s \in Slots, pc[s] # "idle",
           NEW f \in GoodSettings, NEW K \in GoodRemovals, Queue(s, f, K)
    PROVE  JobsInv'
<1> DEFINE job == [req |-> req[s], set |-> f, remove |-> K,
                   execution |-> "queued", quiet |-> quiet[s]]
<1>1. req[s] \in Request /\ quiet[s] \in BOOLEAN
  BY DEF ControlInv, StepInv
<1>2. job \in GoodJobs
  BY <1>1 DEF GoodJobs, Job, GoodSettings, GoodRemovals
<1>3. jobs' = <<job>> \o jobs
  BY DEF Queue
<1>4. <<job>> \in Seq(GoodJobs) /\ jobs \in Seq(GoodJobs)
  BY <1>2 DEF JobsInv
<1> QED
  BY <1>3, <1>4, ConcatProperties DEF JobsInv

\* A job that ends leaves good jobs.
LEMMA EndedOK ==
    ASSUME JobsInv, NEW i \in DOMAIN jobs, NEW execution \in {"succeeded", "failed"},
           jobs' = Ended(i, execution)
    PROVE  JobsInv'
<1>1. jobs \in Seq(GoodJobs) /\ DOMAIN jobs = 1 .. Len(jobs) /\ Len(jobs) \in Nat
  BY LenProperties DEF JobsInv
<1>2. jobs[i] \in GoodJobs
  BY <1>1
<1>3. CASE jobs[i].req.op = "createSnapshot"
  <2>1. [jobs[i] EXCEPT !.execution = execution] \in GoodJobs
    BY <1>2 DEF GoodJobs, Job
  <2>2. jobs' = [jobs EXCEPT ![i] = [jobs[i] EXCEPT !.execution = execution]]
    BY <1>3 DEF Ended
  <2> QED
    BY <1>1, <2>1, <2>2, ExceptSeq DEF JobsInv
<1>4. CASE jobs[i].req.op # "createSnapshot"
  <2>1. jobs' = SubSeq(jobs, 1, i - 1) \o SubSeq(jobs, i + 1, Len(jobs))
    BY <1>4 DEF Ended, RemoveAt
  <2>2. SubSeq(jobs, 1, i - 1) \in Seq(GoodJobs)
    BY <1>1, SubSeqProperties
  <2>3. SubSeq(jobs, i + 1, Len(jobs)) \in Seq(GoodJobs)
    BY <1>1, SubSeqProperties
  <2> QED
    BY <2>1, <2>2, <2>3, ConcatProperties DEF JobsInv
<1> QED
  BY <1>3, <1>4

\* What DELETE of all metadata stores holds the protected keys that create() stored,
\* so that they are not among what it removes.
LEMMA StoreIsGood ==
    ASSUME ControlInv, NEW s \in Slots, pc[s] = "setMetadata",
           NEW new, new = [k \in Kept(s) \cup {"uuid"} |->
                               IF k = "uuid" THEN Own ELSE machine[s].data[k]]
    PROVE  new \in GoodSettings /\ Present(Metadata) \ DOMAIN new \in GoodRemovals
<1>1. /\ machine[s] \in [data: [Protected -> Values \cup {Absent}]]
      /\ \A k \in Created : machine[s].data[k] # Absent
  BY DEF ControlInv, StepInv
<1>2. Kept(s) \subseteq Protected /\ Created \subseteq Kept(s)
  BY <1>1, MachinesAssumption DEF Kept
<1>3. \A k \in Kept(s) : machine[s].data[k] \in Values /\ k # "uuid"
  BY <1>1 DEF Kept, Protected
<1>4. Kept(s) \cup {"uuid"} \in SUBSET Keys
  BY <1>2 DEF Keys, Metadata
<1>5. new \in [Kept(s) \cup {"uuid"} -> Values \cup {Own}]
  BY <1>3
<1>6. \A k \in (Kept(s) \cup {"uuid"}) \cap Protected : new[k] \in Values
  BY <1>3 DEF Protected
<1>7. Present(Metadata) \ DOMAIN new \in GoodRemovals
  BY <1>2, <1>5 DEF GoodRemovals, Present, Keys
<1> QED
  BY <1>4, <1>5, <1>6, <1>7, SetIsGood

\* Each step takes no job, a good one, changes what is known of the jobs or ends one.
LEMMA JobsStep ==
    ASSUME VmInv, JobsInv, ControlInv, [Next]_vars
    PROVE  JobsInv'
<1>1. ASSUME NEW s \in Slots, Handle(s)
      PROVE  \/ UNCHANGED jobs
             \/ pc[s] # "idle" /\ \E f \in GoodSettings, K \in GoodRemovals : Queue(s, f, K)
  <2> USE DEF Call, Rejected
  <2>1. {} \in GoodRemovals /\ <<>> \in GoodSettings
    BY NothingIsGood DEF GoodRemovals
  <2>2. MetaKeys \cup {"root_authorized_keys"} \in SUBSET Keys /\ TagKeys \in SUBSET Keys
    BY DEF Keys, Metadata, Protected
  <2>3. Created \subseteq Protected /\ TagKeys \cap Created = {}
    BY MachinesAssumption DEF Metadata
  <2>4. pc[s] # "idle" => req[s] \in Request
    BY DEF ControlInv, StepInv
  <2>5. CASE LoadMachine(s)
    BY <2>5 DEF LoadMachine
  <2>6. CASE Update(s)
    BY <2>6, <2>1 DEF Update, StartStopReboot, Resize, Rename, SwitchFirewall, Gone,
                      UpdateVm, Invalid, Simply
  <2>7. CASE Delete(s)
    BY <2>7, <2>1 DEF Delete, Simply
  <2>8. CASE AddMetadata(s)
    <3>1. pc[s] = "addMetadata" => req[s].arg \in GoodSettings
      BY <2>2, <2>4, RequestFacts, SettingIsGood DEF ControlInv, StepInv
    <3> QED
      BY <2>8, <2>1, <3>1 DEF AddMetadata, Show
  <2>9. CASE AddTags(s)
    <3>1. pc[s] = "addTags" => req[s].arg \in GoodSettings
      BY <2>2, <2>4, RequestFacts, SettingIsGood DEF ControlInv, StepInv
    <3> QED
      BY <2>9, <2>1, <3>1 DEF AddTags, Show
  <2>10. CASE DeleteMetadata(s)
    <3>1. req[s].arg \notin Protected /\ pc[s] = "deleteMetadata" => {req[s].arg} \in GoodRemovals
      BY <2>2, <2>3, <2>4, RequestFacts DEF ControlInv, StepInv, GoodRemovals, Keys, Metadata
    <3> QED
      BY <2>10, <2>1, <3>1 DEF DeleteMetadata
  <2>11. CASE DeleteAllMetadata(s)
    BY <2>11, StoreIsGood DEF DeleteAllMetadata
  <2>12. CASE ReplaceTags(s)
    <3>1. pc[s] = "replaceTags" => req[s].arg \in GoodSettings
      BY <2>2, <2>4, RequestFacts, SettingIsGood DEF ControlInv, StepInv
    <3>2. Present(TagKeys) \ DOMAIN req[s].arg \in GoodRemovals
      BY <2>2, <2>3 DEF Present, GoodRemovals
    <3> QED
      BY <2>12, <3>1, <3>2 DEF ReplaceTags
  <2>13. CASE DeleteTags(s)
    <3>1. pc[s] = "deleteTag" => {req[s].arg} \in GoodRemovals
      BY <2>2, <2>3, <2>4, RequestFacts DEF ControlInv, StepInv, GoodRemovals
    <3>2. Present(TagKeys) \in GoodRemovals
      BY <2>2, <2>3 DEF Present, GoodRemovals
    <3> QED
      BY <2>13, <2>1, <3>1, <3>2 DEF DeleteTags
  <2>14. CASE CreateSnapshot(s) \/ StartFromSnapshot(s) \/ DeleteSnapshot(s)
    BY <2>14, <2>1 DEF CreateSnapshot, StartFromSnapshot, DeleteSnapshot, Simply
  <2>15. CASE GetSnapshot(s)
    BY <2>15 DEF GetSnapshot
  <2> QED
    BY <1>1, <2>5, <2>6, <2>7, <2>8, <2>9, <2>10, <2>11, <2>12, <2>13, <2>14, <2>15 DEF Handle
<1>2. ASSUME NEW s \in Slots, Arrive(s)
      PROVE  JobsInv'
  <2>1. jobs \in Seq(GoodJobs) /\ DOMAIN jobs = 1 .. Len(jobs) /\ Len(jobs) \in Nat
    BY LenProperties DEF JobsInv
  <2>2. PICK r \in Request :
            jobs' = [i \in DOMAIN jobs |->
                [jobs[i] EXCEPT !.quiet = @ /\ ~(Pending(jobs[i]) /\ Part(jobs[i].req.op) = Part(r.op))]]
    BY <1>2 DEF Arrive
  <2>3. \A i \in DOMAIN jobs : jobs'[i] \in GoodJobs
    <3> SUFFICES ASSUME NEW i \in DOMAIN jobs PROVE jobs'[i] \in GoodJobs
      OBVIOUS
    <3> DEFINE q == jobs[i].quiet /\ ~(Pending(jobs[i]) /\ Part(jobs[i].req.op) = Part(r.op))
    <3>1. jobs[i] \in GoodJobs
      BY <2>1
    <3>2. q \in BOOLEAN
      OBVIOUS
    <3>3. jobs'[i] = [jobs[i] EXCEPT !.quiet = q]
      BY <2>2
    <3> HIDE DEF q
    <3> QED
      BY <3>1, <3>2, <3>3 DEF GoodJobs, Job
  <2>4. DOMAIN jobs' = 1 .. Len(jobs)
    BY <2>1, <2>2
  <2>5. jobs' = [i \in 1 .. Len(jobs) |-> jobs'[i]]
    BY <2>1, <2>2
  <2> QED
    BY <2>1, <2>3, <2>5 DEF JobsInv
<1>3. CASE UNCHANGED vars
  BY <1>3 DEF vars, JobsInv
<1> QED
  BY <1>1, <1>2, <1>3, QueueOK, EndedOK DEF Next, JobSucceeds, JobFails, JobsInv

-----------------------------------------------------------------------------
\* Only a job that succeeds changes the machine.
LEMMA VmStep ==
    ASSUME VmInv, JobsInv, [Next]_vars
    PROVE  VmInv'
<1>1. ASSUME NEW i \in DOMAIN jobs, JobSucceeds(i)
      PROVE  VmInv'
  <2> DEFINE job == jobs[i]
  <2>1. job \in GoodJobs
    BY LenProperties DEF JobsInv
  <2>2. /\ job.req \in Request
        /\ job.remove \cap Created = {}
        /\ \A k \in DOMAIN job.set \cap Protected : job.set[k] \in Values
        /\ \A k \in DOMAIN job.set : job.set[k] \in Values \cup {Own}
    BY <2>1 DEF GoodJobs, GoodSettings, GoodRemovals, Job
  <2>3. vm' = Changed(job)
    BY <1>1 DEF JobSucceeds
  <2> HIDE DEF job
  <2>4. CASE job.req.op \in MetaOps \cup TagOps
    <3> DEFINE data == [k \in Keys |-> IF k \in DOMAIN job.set THEN job.set[k]
                                       ELSE IF k \in job.remove THEN Absent ELSE vm.data[k]]
    <3>1. vm' = [vm EXCEPT !.data = data]
      BY <2>3, <2>4 DEF Changed, MetaOps, TagOps, Vm, VmInv
    <3>2. data \in [Keys -> Values \cup {Absent, Own}]
      BY <2>2 DEF VmInv, Vm
    <3>3. \A k \in Protected : data[k] \in Values \cup {Absent}
      BY <2>2 DEF VmInv, Keys, Metadata
    <3>4. \A k \in Created : data[k] # Absent
      BY <2>2, MachinesAssumption DEF VmInv, CreatedKeysStay, Keys, Metadata
    <3> HIDE DEF data
    <3>5. vm'.data = data /\ vm' \in Vm
      BY <3>1, <3>2 DEF VmInv, Vm
    <3> QED
      BY <3>3, <3>4, <3>5 DEF VmInv, CreatedKeysStay
  <2>5. CASE job.req.op \notin MetaOps \cup TagOps
    <3>1. job.req.op \in SnapshotOps => job.req.arg \in SnapNames
      BY <2>2, RequestFacts
    <3>2. vm' \in Vm /\ vm'.data = vm.data
      BY <2>3, <2>5, <3>1 DEF Changed, VmInv, Vm, SnapshotOps
    <3> QED
      BY <3>2 DEF VmInv, CreatedKeysStay
  <2> QED
    BY <2>4, <2>5
<1>2. ASSUME NEW s \in Slots, Arrive(s) \/ Handle(s)
      PROVE  UNCHANGED vm
  BY <1>2 DEF Arrive, Handle, LoadMachine, Update, StartStopReboot, Resize, Rename,
              SwitchFirewall, Gone, UpdateVm, Invalid, Delete, AddMetadata, AddTags, Show,
              DeleteMetadata, DeleteAllMetadata, ReplaceTags, DeleteTags, CreateSnapshot,
              StartFromSnapshot, DeleteSnapshot, GetSnapshot, Simply, Call, Rejected
<1>3. CASE UNCHANGED vm
  BY <1>3 DEF VmInv, CreatedKeysStay
<1> QED
  BY <1>1, <1>2, <1>3 DEF Next, vars, JobFails

\* A request that is answered leaves nothing behind.
LEMMA EndOK ==
    ASSUME ControlInv, NEW s \in Slots, NEW codes \in Seq(Codes), End(s, codes)
    PROVE  ControlInv'
<1>1. /\ pc' \in [Slots -> Steps]
      /\ req' \in [Slots -> Request \cup {NoRequest}]
      /\ machine' \in [Slots -> Seen \cup {Nothing}]
      /\ sent' \in Seq(Codes)
      /\ quiet' \in [Slots -> BOOLEAN]
  BY DEF ControlInv, End, Steps
<1>2. ASSUME NEW t \in Slots PROVE StepInv(t)'
  BY DEF ControlInv, End, StepInv
<1> QED
  BY <1>1, <1>2 DEF ControlInv

\* A request goes to a next step that keeps StepInv.
LEMMA GotoOK ==
    ASSUME ControlInv, NEW s \in Slots, pc[s] # "idle", NEW step \in Steps, Goto(s, step),
           machine' \in [Slots -> Seen \cup {Nothing}],
           \A t \in Slots \ {s} : machine'[t] = machine[t],
           StepInv(s)'
    PROVE  ControlInv'
<1>1. /\ pc' \in [Slots -> Steps]
      /\ req' = req
      /\ sent' \in Seq(Codes)
      /\ quiet' = quiet
  BY DEF ControlInv, Goto
<1>2. ASSUME NEW t \in Slots \ {s} PROVE StepInv(t)'
  BY DEF ControlInv, Goto, StepInv
<1> QED
  BY <1>1, <1>2 DEF ControlInv

\* Where LoadMachine leads.
LEMMA LoadOK ==
    ASSUME VmInv, ControlInv, NEW s \in Slots, pc[s] = "loadMachine",
           machine' = [machine EXCEPT ![s] =
               IF req[s].op \in UpdateOps \cup {"delete"}
               THEN [state |-> vm.state, firewall |-> vm.firewall] ELSE Nothing],
           NEW step, Goto(s, step),
           step = CASE req[s].op \in UpdateOps -> "update"
                    [] req[s].op = "deleteAllMetadata" -> "listAllMetadata"
                    [] req[s].op = "getSnapshot" -> "getVm"
                    [] OTHER -> req[s].op
    PROVE  ControlInv'
<1>1. req[s] \in Request
  BY DEF ControlInv, StepInv
<1>2. req[s].op \in UpdateOps \cup {"delete"} \cup MetaOps \cup TagOps \cup SnapshotOps
  BY <1>1, RequestFacts
<1>3. \/ step \in {"update", "listAllMetadata", "getVm"}
      \/ /\ step = req[s].op
         /\ step \in {"delete", "addMetadata", "deleteMetadata", "addTags", "replaceTags",
                      "deleteTag", "deleteAllTags", "createSnapshot", "startFromSnapshot",
                      "deleteSnapshot"}
  BY <1>2 DEF UpdateOps, MetaOps, TagOps, SnapshotOps
<1>4. machine' \in [Slots -> Seen \cup {Nothing}] /\ \A t \in Slots \ {s} : machine'[t] = machine[t]
  BY DEF ControlInv, VmInv, Vm, Seen
<1>5. StepInv(s)'
  BY <1>1, <1>3 DEF ControlInv, StepInv, Goto
<1>6. step \in Steps
  BY <1>3 DEF Steps
<1> QED
  BY <1>4, <1>5, <1>6, GotoOK

\* A request that goes on to read what it has changed.
LEMMA ListOK ==
    ASSUME ControlInv, NEW s \in Slots, pc[s] \in {"addMetadata", "addTags"},
           NEW step \in {"listMetadata", "listTags"}, Goto(s, step), UNCHANGED machine
    PROVE  ControlInv'
<1>1. pc[s] # "idle" /\ step \in Steps
  BY DEF Steps
<1>2. pc'[s] = step /\ req'[s] = req[s]
  BY DEF ControlInv, Goto
<1>3. req[s] \in Request
  BY <1>1 DEF ControlInv, StepInv
<1>4. StepInv(s)'
  BY <1>2, <1>3 DEF StepInv
<1>5. machine' \in [Slots -> Seen \cup {Nothing}]
  BY DEF ControlInv
<1> QED
  BY <1>1, <1>4, <1>5, GotoOK

\* How GET of a snapshot is answered.
LEMMA SnapshotCodes ==
    ASSUME JobsInv, NEW s \in Slots, NEW i \in Latest(req[s].arg)
    PROVE  <<SnapshotState(s, jobs[i].execution)>> \in Seq(Codes)
<1>1. jobs[i] \in GoodJobs
  BY LenProperties DEF JobsInv, Latest, SnapshotJobs
<1>2. jobs[i].execution \in {"queued", "succeeded", "failed"}
  BY <1>1 DEF GoodJobs, Job
<1>3. SnapshotState(s, jobs[i].execution) \in Codes
  BY <1>2 DEF SnapshotState, Codes
<1> QED
  BY <1>3

LEMMA ControlStep ==
    ASSUME VmInv, JobsInv, ControlInv, [Next]_vars
    PROVE  ControlInv'
<1>1. ASSUME NEW s \in Slots, Handle(s)
      PROVE  ControlInv'
  <2>1. \A code \in Codes : <<code>> \in Seq(Codes)
    OBVIOUS
  <2>2. {"200", "201", "202", "204", "404", "409", "410", "error"} \subseteq Codes
    BY DEF Codes
  <2>3. <<"410", "409">> \in Seq(Codes)
    BY <2>2
  <2> DEFINE Answered == \E codes \in Seq(Codes) : End(s, codes)
  <2>4. Rejected(s) => Answered
    BY <2>1, <2>2 DEF Rejected
  <2>5. \A f, K, code : code \in Codes /\ Call(s, f, K, End(s, <<code>>)) => Answered
    BY <2>1, <2>2, <2>4 DEF Call
  <2>6. \A code \in Codes : Simply(s, code) => Answered
    BY <2>5 DEF Simply
  <2>7. \A f, K, step : Call(s, f, K, Goto(s, step) /\ UNCHANGED machine)
            => Answered \/ (Goto(s, step) /\ UNCHANGED machine)
    BY <2>1, <2>2, <2>4 DEF Call
  <2> HIDE DEF Answered
  <2>7a. Show(s) => Answered
    BY <2>1, <2>2, <2>4 DEF Show, Answered
  <2>8. CASE LoadMachine(s)
    BY <2>8, <2>4, EndOK, LoadOK DEF LoadMachine, Answered
  <2>9. CASE Update(s)
    <3>1. Gone(s) \/ Invalid(s) => Answered
      BY <2>1, <2>2, <2>3 DEF Gone, Invalid, Answered
    <3>2. UpdateVm(s) => Answered
      BY <2>2, <2>6 DEF UpdateVm
    <3>3. SwitchFirewall(s) => Answered
      BY <2>1, <2>2, <3>1, <3>2 DEF SwitchFirewall, Answered
    <3>4. Answered
      BY <2>1, <2>2, <2>9, <3>1, <3>2, <3>3 DEF Update, StartStopReboot, Resize, Rename, Answered
    <3> QED
      BY <3>4, EndOK DEF Answered
  <2>10. CASE Delete(s)
    <3>1. Answered
      BY <2>1, <2>2, <2>6, <2>10 DEF Delete, Answered
    <3> QED
      BY <3>1, EndOK DEF Answered
  <2>11. CASE AddMetadata(s)
    <3>1. \/ Answered
          \/ pc[s] = "addMetadata" /\ Goto(s, "listMetadata") /\ UNCHANGED machine
      <4>1. CASE pc[s] = "addMetadata"
        BY <2>7, <2>11, <2>7a, <4>1 DEF AddMetadata
      <4>2. CASE pc[s] # "addMetadata"
        BY <2>11, <2>7a, <4>2 DEF AddMetadata
      <4> QED
        BY <4>1, <4>2
    <3>2. CASE pc[s] = "addMetadata" /\ Goto(s, "listMetadata") /\ UNCHANGED machine
      BY <3>2, ListOK
    <3> QED
      BY <3>1, <3>2, EndOK DEF Answered
  <2>12. CASE AddTags(s)
    <3>1. \/ Answered
          \/ pc[s] = "addTags" /\ Goto(s, "listTags") /\ UNCHANGED machine
      <4>1. CASE pc[s] = "addTags"
        BY <2>7, <2>12, <2>7a, <4>1 DEF AddTags
      <4>2. CASE pc[s] # "addTags"
        BY <2>12, <2>7a, <4>2 DEF AddTags
      <4> QED
        BY <4>1, <4>2
    <3>2. CASE pc[s] = "addTags" /\ Goto(s, "listTags") /\ UNCHANGED machine
      BY <3>2, ListOK
    <3> QED
      BY <3>1, <3>2, EndOK DEF Answered
  <2>13. CASE DeleteMetadata(s)
    <3>1. Answered
      BY <2>1, <2>2, <2>5, <2>13 DEF DeleteMetadata, Answered
    <3> QED
      BY <3>1, EndOK DEF Answered
  <2>14. CASE DeleteAllMetadata(s)
    <3>1. CASE pc[s] = "listAllMetadata" /\ ~Rejected(s)
      <4>1. /\ machine' = [machine EXCEPT ![s] = [data |-> [k \in Protected |-> vm.data[k]]]]
            /\ Goto(s, "setMetadata")
        BY <2>14, <3>1 DEF DeleteAllMetadata
      <4>2. [data |-> [k \in Protected |-> vm.data[k]]] \in [data: [Protected -> Values \cup {Absent}]]
        BY DEF VmInv
      <4>3. machine' \in [Slots -> Seen \cup {Nothing}] /\ \A t \in Slots \ {s} : machine'[t] = machine[t]
        BY <4>1, <4>2 DEF ControlInv, Seen
      <4>4. machine'[s] = [data |-> [k \in Protected |-> vm.data[k]]]
        BY <4>1 DEF ControlInv
      <4>5. \A k \in Created : machine'[s].data[k] # Absent
        BY <4>4, MachinesAssumption DEF VmInv, CreatedKeysStay
      <4>6. StepInv(s)'
        BY <3>1, <4>1, <4>2, <4>4, <4>5 DEF ControlInv, StepInv, Goto
      <4> QED
        BY <3>1, <4>1, <4>3, <4>6, GotoOK DEF Steps
    <3>2. CASE pc[s] = "setMetadata" \/ Rejected(s)
      <4>1. Answered
        BY <2>2, <2>4, <2>5, <2>14, <3>2 DEF DeleteAllMetadata
      <4> QED
        BY <4>1, EndOK DEF Answered
    <3> QED
      BY <2>14, <3>1, <3>2 DEF DeleteAllMetadata
  <2>15. CASE ReplaceTags(s) \/ DeleteTags(s)
    <3>1. Answered
      BY <2>2, <2>5, <2>15 DEF ReplaceTags, DeleteTags
    <3> QED
      BY <3>1, EndOK DEF Answered
  <2>16. CASE CreateSnapshot(s) \/ StartFromSnapshot(s) \/ DeleteSnapshot(s)
    <3>1. Answered
      BY <2>2, <2>6, <2>16 DEF CreateSnapshot, StartFromSnapshot, DeleteSnapshot
    <3> QED
      BY <3>1, EndOK DEF Answered
  <2>17. CASE GetSnapshot(s)
    <3>1. CASE pc[s] = "getVm" /\ ~Rejected(s)
      <4>1. machine' = [machine EXCEPT ![s] = [snapshots |-> vm.snapshots]] /\ Goto(s, "listJobs")
        BY <2>17, <3>1 DEF GetSnapshot
      <4>2. machine' \in [Slots -> Seen \cup {Nothing}] /\ \A t \in Slots \ {s} : machine'[t] = machine[t]
        BY <4>1 DEF ControlInv, VmInv, Vm, Seen
      <4>3. StepInv(s)'
        BY <3>1, <4>1 DEF ControlInv, StepInv, Goto
      <4> QED
        BY <3>1, <4>1, <4>2, <4>3, GotoOK DEF Steps
    <3>2. CASE pc[s] = "listJobs" \/ Rejected(s)
      <4>1. Answered
        BY <2>1, <2>2, <2>4, <2>17, <3>2, SnapshotCodes DEF GetSnapshot, Answered
      <4> QED
        BY <4>1, EndOK DEF Answered
    <3> QED
      BY <2>17, <3>1, <3>2 DEF GetSnapshot
  <2> QED
    BY <1>1, <2>8, <2>9, <2>10, <2>11, <2>12, <2>13, <2>14, <2>15, <2>16, <2>17 DEF Handle
<1>2. ASSUME NEW s \in Slots, Arrive(s)
      PROVE  ControlInv'
  <2>1. PICK r \in Request : req' = [req EXCEPT ![s] = r]
    BY <1>2 DEF Arrive
  <2>2. /\ pc' = [pc EXCEPT ![s] = "loadMachine"]
        /\ sent' = <<>>
        /\ machine' = machine
    BY <1>2 DEF Arrive
  <2>3. quiet' \in [Slots -> BOOLEAN]
    BY <1>2 DEF Arrive, ControlInv
  <2>4. \A t \in Slots : StepInv(t)'
    BY <2>1, <2>2 DEF ControlInv, StepInv
  <2>5. pc' \in [Slots -> Steps] /\ sent' \in Seq(Codes)
    BY <2>2 DEF ControlInv, Steps
  <2>6. req' \in [Slots -> Request \cup {NoRequest}] /\ machine' \in [Slots -> Seen \cup {Nothing}]
    BY <2>1, <2>2 DEF ControlInv
  <2> QED
    BY <2>3, <2>4, <2>5, <2>6 DEF ControlInv
<1>3. ASSUME NEW i \in DOMAIN jobs, JobSucceeds(i) \/ JobFails(i)
      PROVE  ControlInv'
  <2>1. UNCHANGED <<pc, req, machine, quiet>> /\ sent' = <<>>
    BY <1>3 DEF JobSucceeds, JobFails
  <2>2. \A t \in Slots : StepInv(t)'
    BY <2>1 DEF ControlInv, StepInv
  <2>3. sent' \in Seq(Codes)
    BY <2>1
  <2> QED
    BY <2>1, <2>2, <2>3 DEF ControlInv
<1>4. CASE UNCHANGED vars
  BY <1>4 DEF vars, ControlInv, StepInv
<1> QED
  BY <1>1, <1>2, <1>3, <1>4 DEF Next

LEMMA InitInv == Init => Inv
<1> SUFFICES ASSUME Init PROVE Inv
  OBVIOUS
<1>1. PICK d \in [Created -> Values] :
          vm = [state |-> "running", firewall |-> FALSE, snapshots |-> {},
                data |-> [k \in Keys |-> IF k \in Created THEN d[k] ELSE Absent]]
  BY DEF Init
<1>2. Created \subseteq Keys /\ Protected \subseteq Keys
  BY MachinesAssumption DEF Keys, Metadata
<1>3. VmInv
  BY <1>1, <1>2, MachinesAssumption DEF VmInv, Vm, CreatedKeysStay
<1>4. JobsInv /\ sent \in Seq(Codes)
  BY DEF Init, JobsInv
<1>5. ControlInv
  BY <1>4 DEF Init, ControlInv, StepInv, Steps
<1> QED
  BY <1>3, <1>4, <1>5 DEF Inv

LEMMA NextInv == Inv /\ [Next]_vars => Inv'
  BY VmStep, JobsStep, ControlStep DEF Inv

LEMMA SpecInv == Spec => []Inv
<1> QED
  BY InitInv, NextInv, PTL DEF Spec

-----------------------------------------------------------------------------
\* The types of the machine, of its jobs and of what requests know: what DELETE of all
\* metadata stores is made of keys and values that VMAPI gave out, and snapshots are
\* answered with a state that the API has.
THEOREM TypeCorrect == Spec => []TypeOK
<1>1. Inv => TypeOK
  <2> SUFFICES ASSUME Inv PROVE TypeOK
    OBVIOUS
  <2>1. jobs \in Seq(Job)
    <3>1. GoodJobs \subseteq Job
      BY DEF GoodJobs
    <3> QED
      BY <3>1, SeqMonotonic DEF Inv, JobsInv
  <2> QED
    BY <2>1 DEF Inv, VmInv, ControlInv, TypeOK
<1> QED
  BY <1>1, SpecInv, PTL

\* The password and the authorized keys that create() stored stay in the metadata for
\* any number of requests and jobs in any order: DELETE refuses protected keys
\* and DELETE of all metadata stores again those it read, which nobody removes between
\* its two calls.
THEOREM CreatedKeysAreKept == Spec => []CreatedKeysStay
<1>1. Inv => CreatedKeysStay
  BY DEF Inv, VmInv
<1> QED
  BY <1>1, SpecInv, PTL

-----------------------------------------------------------------------------
(***************************************************************************)
(* Requests that nothing on the same part of the machine overlaps: their   *)
(* effect, and what they are told, for any number of requests and jobs on  *)
(* all parts.                                                              *)
(***************************************************************************)

\* A request that may still ask for a job.
Busy(s) == pc[s] \notin {"idle", "listMetadata", "listTags"}

\* A job of a request on metadata or tags keeps to its field of the machine.
OwnFields(job) ==
    /\ job.req.op \in MetaOps => DOMAIN job.set \cup job.remove \subseteq Metadata
    /\ job.req.op \in TagOps => DOMAIN job.set \cup job.remove \subseteq TagKeys

\* What a job sets and removes is right for the machine as it is now.
Right(job) ==
    /\ job.req.op \in {"addMetadata", "addTags"} => job.set = job.req.arg
    /\ job.req.op \in {"deleteMetadata", "deleteTag"} =>
           job.req.arg \notin DOMAIN job.set /\ job.req.arg \in job.remove
    /\ job.req.op = "deleteAllMetadata" =>
           /\ \A k \in Protected :
                  IF k \in DOMAIN job.set THEN job.set[k] = vm.data[k]
                  ELSE vm.data[k] = Absent
           /\ \A k \in MetaKeys :
                  k \notin DOMAIN job.set /\ (vm.data[k] # Absent => k \in job.remove)
    /\ job.req.op = "replaceTags" =>
           /\ job.set = job.req.arg
           /\ \A k \in TagKeys \ DOMAIN job.set : vm.data[k] # Absent => k \in job.remove
    /\ job.req.op = "deleteAllTags" =>
           \A k \in TagKeys :
               k \notin DOMAIN job.set /\ (vm.data[k] # Absent => k \in job.remove)

\* Two operations on different parts of the machine.
Apart(r1, r2) == Part(r1.op) # Part(r2.op)

\* A quiet request has its part of the machine to itself until its job is queued.
RequestsAlone ==
    \A s \in Slots : Busy(s) /\ quiet[s] =>
        /\ \A t \in Slots \ {s} : pc[t] # "idle" => Apart(req[s], req[t])
        /\ \A i \in DOMAIN jobs : Pending(jobs[i]) => Apart(req[s], jobs[i].req)

\* A quiet job has it from then on.
JobsAlone ==
    \A i \in DOMAIN jobs : Pending(jobs[i]) /\ jobs[i].quiet =>
        /\ \A t \in Slots : Busy(t) => Apart(jobs[i].req, req[t])
        /\ \A j \in DOMAIN jobs \ {i} : Pending(jobs[j]) => Apart(jobs[i].req, jobs[j].req)

\* So what a quiet request has read is still so.
ReadsHold ==
    \A s \in Slots : quiet[s] =>
        /\ pc[s] = "update" /\ req[s].op \in {"enable_firewall", "disable_firewall"}
               => machine[s].firewall = vm.firewall
        /\ pc[s] = "setMetadata" =>
               /\ req[s].op = "deleteAllMetadata"
               /\ \A k \in Protected : machine[s].data[k] = vm.data[k]

JobsRight ==
    \A i \in DOMAIN jobs :
        /\ OwnFields(jobs[i])
        /\ Pending(jobs[i]) /\ jobs[i].quiet => Right(jobs[i])

\* The operation of each step, as far as MachinesProofs does not need it.
StepOps ==
    \A s \in Slots :
        /\ pc[s] = "idle" <=> req[s] = NoRequest
        /\ pc[s] \in {"delete", "deleteAllTags", "createSnapshot", "startFromSnapshot", "deleteSnapshot"}
               => req[s].op = pc[s]
        /\ pc[s] = "update" => req[s].op \in UpdateOps
        /\ pc[s] \in {"listAllMetadata", "setMetadata"} => req[s].op = "deleteAllMetadata"

QuietInv == StepOps /\ RequestsAlone /\ JobsAlone /\ ReadsHold /\ JobsRight

-----------------------------------------------------------------------------
(* The jobs after each kind of step. *)

LEMMA JobFacts ==
    ASSUME JobsInv
    PROVE  /\ Len(jobs) \in Nat
           /\ DOMAIN jobs = 1 .. Len(jobs)
           /\ jobs \in Seq(GoodJobs)
           /\ \A i \in DOMAIN jobs : jobs[i] \in GoodJobs
  BY LenProperties DEF JobsInv

\* The job that a request asks for.
Asked(s, f, K) == [req |-> req[s], set |-> f, remove |-> K,
                   execution |-> "queued", quiet |-> quiet[s]]

LEMMA QueuedJobs ==
    ASSUME JobsInv, ControlInv, NEW s \in Slots, pc[s] # "idle",
           NEW f \in GoodSettings, NEW K \in GoodRemovals, Queue(s, f, K)
    PROVE  /\ DOMAIN jobs' = 1 .. (Len(jobs) + 1)
           /\ jobs'[1] = Asked(s, f, K)
           /\ \A k \in DOMAIN jobs' \ {1} : k - 1 \in DOMAIN jobs /\ jobs'[k] = jobs[k - 1]
           /\ jobs' # jobs
<1>1. Len(jobs) \in Nat /\ DOMAIN jobs = 1 .. Len(jobs) /\ jobs \in Seq(GoodJobs)
  BY JobFacts
<1>2. jobs' = <<Asked(s, f, K)>> \o jobs
  BY DEF Queue, Asked
<1>3. Asked(s, f, K) \in GoodJobs
  BY DEF ControlInv, StepInv, Asked, GoodJobs, Job, GoodSettings, GoodRemovals
<1>4. /\ jobs' \in Seq(GoodJobs)
      /\ Len(jobs') = Len(jobs) + 1
      /\ \A i \in 1 .. (Len(jobs) + 1) :
             jobs'[i] = IF i <= 1 THEN Asked(s, f, K) ELSE jobs[i - 1]
  <2>1. <<Asked(s, f, K)>> \in Seq(GoodJobs) /\ Len(<<Asked(s, f, K)>>) = 1
        /\ <<Asked(s, f, K)>>[1] = Asked(s, f, K)
    BY <1>3
  <2>2. /\ <<Asked(s, f, K)>> \o jobs \in Seq(GoodJobs)
        /\ Len(<<Asked(s, f, K)>> \o jobs) = 1 + Len(jobs)
        /\ \A i \in 1 .. 1 + Len(jobs) : (<<Asked(s, f, K)>> \o jobs)[i] =
               IF i <= 1 THEN <<Asked(s, f, K)>>[i] ELSE jobs[i - 1]
    BY <1>1, <2>1, ConcatProperties
  <2> QED
    BY <1>1, <1>2, <2>1, <2>2
<1>5. DOMAIN jobs' = 1 .. (Len(jobs) + 1)
  BY <1>4, LenProperties
<1> QED
  BY <1>1, <1>4, <1>5

\* Where the job at k was before the job at i ended.
Old(k, i) == IF jobs[i].req.op = "createSnapshot" \/ k < i THEN k ELSE k + 1

LEMMA EndedJobs ==
    ASSUME JobsInv, NEW i \in DOMAIN jobs, NEW execution \in {"succeeded", "failed"},
           jobs' = Ended(i, execution)
    PROVE  /\ DOMAIN jobs' \subseteq DOMAIN jobs
           /\ \A k \in DOMAIN jobs' :
                  /\ Old(k, i) \in DOMAIN jobs
                  /\ \/ jobs'[k] = jobs[Old(k, i)] /\ Old(k, i) # i
                     \/ ~Pending(jobs'[k]) /\ jobs'[k] = [jobs[i] EXCEPT !.execution = execution]
           /\ \A k, l \in DOMAIN jobs' : k # l => Old(k, i) # Old(l, i)
<1>1. Len(jobs) \in Nat /\ DOMAIN jobs = 1 .. Len(jobs) /\ jobs \in Seq(GoodJobs)
  BY JobFacts
<1>2. CASE jobs[i].req.op = "createSnapshot"
  <2>1. jobs' = [jobs EXCEPT ![i].execution = execution]
    BY <1>2 DEF Ended
  <2>2. jobs'[i] = [jobs[i] EXCEPT !.execution = execution] /\ ~Pending(jobs'[i])
    <3>1. jobs[i] \in GoodJobs
      BY JobFacts
    <3> QED
      BY <2>1, <3>1 DEF Pending, GoodJobs, Job
  <2> QED
    BY <1>1, <1>2, <2>1, <2>2 DEF Old
<1>3. CASE jobs[i].req.op # "createSnapshot"
  <2>1. jobs' = SubSeq(jobs, 1, i - 1) \o SubSeq(jobs, i + 1, Len(jobs))
    BY <1>3 DEF Ended, RemoveAt
  <2>2. /\ SubSeq(jobs, 1, i - 1) \in Seq(GoodJobs)
        /\ Len(SubSeq(jobs, 1, i - 1)) = i - 1
        /\ \A k \in 1 .. (i - 1) : SubSeq(jobs, 1, i - 1)[k] = jobs[k]
    <3>1. \A k \in 1 .. (i - 1) : jobs[k] \in GoodJobs
      BY <1>1
    <3> QED
      BY <1>1, <3>1, SubSeqProperties
  <2>3. /\ SubSeq(jobs, i + 1, Len(jobs)) \in Seq(GoodJobs)
        /\ Len(SubSeq(jobs, i + 1, Len(jobs))) = Len(jobs) - i
        /\ \A k \in 1 .. (Len(jobs) - i) : SubSeq(jobs, i + 1, Len(jobs))[k] = jobs[k + i]
    <3>1. \A k \in (i + 1) .. Len(jobs) : jobs[k] \in GoodJobs
      BY <1>1
    <3> QED
      BY <1>1, <3>1, SubSeqProperties
  <2>4. /\ jobs' \in Seq(GoodJobs)
        /\ Len(jobs') = Len(jobs) - 1
        /\ \A k \in 1 .. (Len(jobs) - 1) :
               jobs'[k] = IF k < i THEN jobs[k] ELSE jobs[k + 1]
    <3> DEFINE front == SubSeq(jobs, 1, i - 1)
               back == SubSeq(jobs, i + 1, Len(jobs))
    <3>1. /\ front \o back \in Seq(GoodJobs)
          /\ Len(front \o back) = Len(front) + Len(back)
          /\ \A k \in 1 .. Len(front) + Len(back) :
                 (front \o back)[k] = IF k <= Len(front) THEN front[k] ELSE back[k - Len(front)]
      BY <2>2, <2>3, ConcatProperties
    <3> HIDE DEF front, back
    <3>2. /\ Len(front) = i - 1 /\ Len(back) = Len(jobs) - i
          /\ \A k \in 1 .. (i - 1) : front[k] = jobs[k]
          /\ \A k \in 1 .. (Len(jobs) - i) : back[k] = jobs[k + i]
      BY <2>2, <2>3 DEF front, back
    <3>3. jobs' = front \o back
      BY <2>1 DEF front, back
    <3>4. ASSUME NEW k \in 1 .. (Len(jobs) - 1)
          PROVE  jobs'[k] = IF k < i THEN jobs[k] ELSE jobs[k + 1]
      <4>1. i \in 1 .. Len(jobs)
        BY <1>1
      <4>2. CASE k < i
        BY <1>1, <3>1, <3>2, <3>3, <4>1, <4>2
      <4>3. CASE k >= i
        <5>1. k - (i - 1) \in 1 .. (Len(jobs) - i) /\ (k - (i - 1)) + i = k + 1
          BY <1>1, <4>1, <4>3
        <5>2. jobs'[k] = back[k - (i - 1)]
          <6>1. k \in 1 .. Len(front) + Len(back) /\ ~(k <= Len(front)) /\ Len(front) = i - 1
            BY <1>1, <3>2, <4>1, <4>3
          <6> QED
            BY <3>1, <3>3, <6>1
        <5>3. back[k - (i - 1)] = jobs[k + 1]
          <6> DEFINE l == k - (i - 1)
          <6>1. l \in 1 .. (Len(jobs) - i) /\ l + i = k + 1
            BY <5>1
          <6> HIDE DEF l
          <6>2. back[l] = jobs[l + i]
            BY <3>2, <6>1
          <6> QED
            BY <6>1, <6>2 DEF l
        <5>4. ~(k < i)
          BY <1>1, <4>1, <4>3
        <5> QED
          BY <5>2, <5>3, <5>4
      <4> QED
        BY <1>1, <4>1, <4>2, <4>3
    <3>5. Len(jobs') = Len(jobs) - 1
      <4>1. (i - 1) + (Len(jobs) - i) = Len(jobs) - 1
        BY <1>1
      <4> QED
        BY <3>1, <3>2, <3>3, <4>1
    <3>6. jobs' \in Seq(GoodJobs)
      BY <3>1, <3>3
    <3> HIDE DEF back, front
    <3> QED
      BY <3>4, <3>5, <3>6
  <2>5. DOMAIN jobs' = 1 .. (Len(jobs) - 1)
    BY <2>4, LenProperties
  <2> QED
    BY <1>1, <1>3, <2>4, <2>5 DEF Old
<1> QED
  BY <1>2, <1>3

-----------------------------------------------------------------------------
(* What a handler's step does: it answers without a job, reads, or asks for a job. *)

AnswersOnly(s) ==
    /\ UNCHANGED jobs
    /\ \E codes : End(s, codes)
    /\ sent' = <<"202">> =>
           pc[s] = "update" /\ FirewallIs(s) /\ machine[s].state # "deleted"

Reads(s) ==
    /\ UNCHANGED jobs
    /\ \E step \in Steps \ {"idle"} :
           /\ Goto(s, step)
           /\ Busy(s)
           /\ step \in {"delete", "addMetadata", "deleteMetadata", "addTags", "replaceTags",
                        "deleteTag", "deleteAllTags", "createSnapshot", "startFromSnapshot",
                        "deleteSnapshot"}
                  => req[s].op = step
           /\ step = "update" =>
                  req[s].op \in UpdateOps /\ machine'[s].firewall = vm.firewall
           /\ step \in {"listAllMetadata", "setMetadata"} => req[s].op = "deleteAllMetadata"
           /\ step = "setMetadata" => \A k \in Protected : machine'[s].data[k] = vm.data[k]
    /\ \A t \in Slots \ {s} : machine'[t] = machine[t]

Asks(s) ==
    /\ Busy(s)
    /\ \E f \in GoodSettings, K \in GoodRemovals :
           /\ Queue(s, f, K)
           /\ OwnFields(Asked(s, f, K))
           /\ quiet[s] => Right(Asked(s, f, K))
    /\ \/ \E codes : End(s, codes)
       \/ UNCHANGED machine /\ \E step \in {"listMetadata", "listTags"} : Goto(s, step)

\* A call for a job that is right, and then an answer or the list of what is set.
LEMMA CallAsks ==
    ASSUME ControlInv, NEW s \in Slots, Busy(s), NEW f \in GoodSettings, NEW K \in GoodRemovals,
           OwnFields(Asked(s, f, K)), quiet[s] => Right(Asked(s, f, K)),
           NEW code, NEW step \in {"listMetadata", "listTags"},
           \/ Call(s, f, K, End(s, <<code>>))
           \/ Call(s, f, K, Goto(s, step) /\ UNCHANGED machine)
    PROVE  UNCHANGED vm /\ (AnswersOnly(s) \/ Asks(s))
<1>1. CASE Queue(s, f, K) /\ UNCHANGED vm
           /\ \/ End(s, <<code>>)
              \/ End(s, <<"error">>)
              \/ Goto(s, step) /\ UNCHANGED machine
  BY <1>1 DEF Asks
<1>2. CASE End(s, <<"error">>) /\ UNCHANGED <<vm, jobs>>
  <2>1. sent' = <<"error">> /\ <<"error">> # <<"202">>
    BY <1>2 DEF End
  <2> QED
    BY <1>2, <2>1 DEF AnswersOnly
<1> QED
  BY <1>1, <1>2 DEF Call, Rejected

\* Jobs on other parts than metadata and tags set and remove nothing.
LEMMA OtherJobs ==
    ASSUME NEW s \in Slots, req[s].op \notin MetaOps \cup TagOps, NEW f, NEW K
    PROVE  OwnFields(Asked(s, f, K)) /\ Right(Asked(s, f, K))
  BY DEF OwnFields, Right, Asked, MetaOps, TagOps

LEMMA RejectedAnswers ==
    ASSUME NEW s \in Slots, Rejected(s)
    PROVE  UNCHANGED vm /\ AnswersOnly(s)
<1>1. sent' = <<"error">> /\ <<"error">> # <<"202">>
  BY DEF Rejected, End
<1> QED
  BY <1>1 DEF Rejected, AnswersOnly

LEMMA SimplyAsks ==
    ASSUME ControlInv, NEW s \in Slots, Busy(s), req[s].op \notin MetaOps \cup TagOps,
           NEW code, Simply(s, code)
    PROVE  UNCHANGED vm /\ (AnswersOnly(s) \/ Asks(s))
<1>1. <<>> \in GoodSettings /\ {} \in GoodRemovals
  BY NothingIsGood DEF GoodRemovals
<1>2. OwnFields(Asked(s, <<>>, {})) /\ Right(Asked(s, <<>>, {}))
  BY OtherJobs
<1>3. Call(s, <<>>, {}, End(s, <<code>>))
  BY DEF Simply
<1> QED
  BY <1>1, <1>2, <1>3, CallAsks

\* The job that DELETE of all metadata asks for.
LEMMA StoreIsRight ==
    ASSUME Inv, StepOps, ReadsHold, NEW s \in Slots, pc[s] = "setMetadata",
           NEW new, new = [k \in Kept(s) \cup {"uuid"} |->
                               IF k = "uuid" THEN Own ELSE machine[s].data[k]]
    PROVE  LET K == Present(Metadata) \ DOMAIN new
           IN  OwnFields(Asked(s, new, K)) /\ (quiet[s] => Right(Asked(s, new, K)))
<1> DEFINE K == Present(Metadata) \ DOMAIN new
           job == Asked(s, new, K)
<1>1. req[s].op = "deleteAllMetadata"
  BY DEF StepOps
<1>2. DOMAIN new = Kept(s) \cup {"uuid"} /\ Kept(s) \subseteq Protected
  BY DEF Kept
<1>3. /\ job.req.op = "deleteAllMetadata"
      /\ job.set = new
      /\ job.remove = K
  BY <1>1 DEF Asked
<1>4. OwnFields(job)
  BY <1>2, <1>3 DEF OwnFields, Metadata, Present, MetaOps, TagOps
<1>5. ASSUME quiet[s] PROVE Right(job)
  <2>1. \A k \in Protected : machine[s].data[k] = vm.data[k]
    BY <1>5 DEF ReadsHold
  <2>2. ASSUME NEW k \in Protected
        PROVE  IF k \in DOMAIN new THEN new[k] = vm.data[k] ELSE vm.data[k] = Absent
    BY <1>2, <2>1 DEF Kept, Protected
  <2>3. ASSUME NEW k \in MetaKeys
        PROVE  k \notin DOMAIN new /\ (vm.data[k] # Absent => k \in K)
    BY <1>2, MachinesAssumption DEF Present, Metadata
  <2> QED
    BY <1>3, <2>2, <2>3 DEF Right
<1> QED
  BY <1>4, <1>5

LEMMA HandleEffect ==
    ASSUME Inv, StepOps, ReadsHold, NEW s \in Slots, Handle(s)
    PROVE  UNCHANGED vm /\ (AnswersOnly(s) \/ Reads(s) \/ Asks(s))
<1> DEFINE Goal == UNCHANGED vm /\ (AnswersOnly(s) \/ Reads(s) \/ Asks(s))
<1> USE DEF Inv
<1>1. <<>> \in GoodSettings /\ {} \in GoodRemovals
  BY NothingIsGood DEF GoodRemovals
<1>2. pc[s] # "idle" => req[s] \in Request
  BY DEF ControlInv, StepInv
<1>3. MetaKeys \cup {"root_authorized_keys"} \in SUBSET Keys /\ TagKeys \in SUBSET Keys
  BY DEF Keys, Metadata, Protected
<1>4. \A K \in SUBSET TagKeys : K \in GoodRemovals
  BY <1>3, MachinesAssumption DEF GoodRemovals, Metadata
<1>5. CASE LoadMachine(s)
  <2>1. CASE Rejected(s)
    BY <2>1, RejectedAnswers
  <2>2. CASE ~Rejected(s)
    <3> DEFINE step == CASE req[s].op \in UpdateOps -> "update"
                         [] req[s].op = "deleteAllMetadata" -> "listAllMetadata"
                         [] req[s].op = "getSnapshot" -> "getVm"
                         [] OTHER -> req[s].op
    <3>1. /\ pc[s] = "loadMachine"
          /\ machine' = [machine EXCEPT ![s] =
                 IF req[s].op \in UpdateOps \cup {"delete"}
                 THEN [state |-> vm.state, firewall |-> vm.firewall] ELSE Nothing]
          /\ Goto(s, step)
          /\ UNCHANGED <<vm, jobs>>
      BY <1>5, <2>2 DEF LoadMachine
    <3>2. req[s].op \in UpdateOps \cup {"delete"} \cup MetaOps \cup TagOps \cup SnapshotOps
      BY <1>2, <3>1, RequestFacts
    <3>3. /\ step = "update" => req[s].op \in UpdateOps
          /\ step = "listAllMetadata" => req[s].op = "deleteAllMetadata"
          /\ step \in {"update", "listAllMetadata", "getVm"}
                 \/ /\ step = req[s].op
                    /\ step \in {"delete", "addMetadata", "deleteMetadata", "addTags", "replaceTags",
                                 "deleteTag", "deleteAllTags", "createSnapshot",
                                 "startFromSnapshot", "deleteSnapshot"}
      BY <3>2 DEF UpdateOps, MetaOps, TagOps, SnapshotOps
    <3> HIDE DEF step
    <3>4. step \in Steps \ {"idle"} /\ step # "setMetadata"
      BY <3>3 DEF Steps
    <3>5. step = "update" => machine'[s].firewall = vm.firewall
      BY <3>1, <3>3 DEF ControlInv
    <3>6. Busy(s) /\ \A t \in Slots \ {s} : machine'[t] = machine[t]
      BY <3>1 DEF Busy, ControlInv
    <3>7. step \in {"delete", "addMetadata", "deleteMetadata", "addTags", "replaceTags",
                    "deleteTag", "deleteAllTags", "createSnapshot", "startFromSnapshot",
                    "deleteSnapshot"} => req[s].op = step
      BY <3>3
    <3> QED
      BY <3>1, <3>3, <3>4, <3>5, <3>6, <3>7 DEF Reads
  <2> QED
    BY <2>1, <2>2
<1>6. CASE Update(s)
  <2>1. pc[s] = "update" /\ req[s].op \in UpdateOps /\ Busy(s)
    BY <1>6 DEF Update, StepOps, Busy
  <2>2. req[s].op \notin MetaOps \cup TagOps
    BY <2>1 DEF UpdateOps, MetaOps, TagOps
  <2>3. ASSUME NEW codes, codes \in {<<"409">>, <<"410", "409">>}, End(s, codes),
               UNCHANGED <<vm, jobs>>
        PROVE  Goal
    <3>1. sent' = codes /\ codes # <<"202">>
      BY <2>3 DEF End
    <3> QED
      BY <2>3, <3>1 DEF AnswersOnly
  <2>4. UpdateVm(s) => Goal
    BY <2>1, <2>2, SimplyAsks DEF UpdateVm
  <2>5. Gone(s) \/ Invalid(s) => Goal
    BY <2>3 DEF Gone, Invalid
  <2>6. SwitchFirewall(s) => Goal
    BY <2>1, <2>4, <2>5 DEF SwitchFirewall, AnswersOnly
  <2> QED
    BY <1>6, <2>3, <2>4, <2>5, <2>6 DEF Update, StartStopReboot, Resize, Rename
<1>7. CASE Delete(s)
  <2>1. pc[s] = "delete" /\ Busy(s) /\ req[s].op \notin MetaOps \cup TagOps
    BY <1>7 DEF Delete, StepOps, Busy, MetaOps, TagOps
  <2>2. CASE End(s, <<"410">>) /\ UNCHANGED <<vm, jobs>>
    <3>1. sent' = <<"410">> /\ <<"410">> # <<"202">>
      BY <2>2 DEF End
    <3> QED
      BY <2>2, <3>1 DEF AnswersOnly
  <2> QED
    BY <1>7, <2>1, <2>2, SimplyAsks DEF Delete
<1>8. CASE AddMetadata(s)
  <2>1. CASE pc[s] = "addMetadata"
    <3>1. req[s].op = "addMetadata" /\ Busy(s)
      BY <2>1 DEF ControlInv, StepInv, Busy
    <3>2. req[s].arg \in Settings(MetaKeys \cup {"root_authorized_keys"})
      BY <1>2, <2>1, <3>1, RequestFacts
    <3>3. DOMAIN req[s].arg \subseteq Metadata
      BY <3>2 DEF Settings, Metadata, Protected
    <3>4. req[s].arg \in GoodSettings
      BY <1>3, <3>2, SettingIsGood
    <3>5. OwnFields(Asked(s, req[s].arg, {})) /\ Right(Asked(s, req[s].arg, {}))
      BY <3>1, <3>3 DEF OwnFields, Right, Asked, TagOps
    <3>6. Call(s, req[s].arg, {}, Goto(s, "listMetadata") /\ UNCHANGED machine)
      BY <1>8, <2>1 DEF AddMetadata
    <3> QED
      BY <1>1, <3>1, <3>4, <3>5, <3>6, CallAsks
  <2>2. CASE Show(s)
    <3>1. CASE End(s, <<"200">>) /\ UNCHANGED <<vm, jobs>>
      <4>1. sent' = <<"200">> /\ <<"200">> # <<"202">>
        BY <3>1 DEF End
      <4> QED
        BY <3>1, <4>1 DEF AnswersOnly
    <3> QED
      BY <2>2, <3>1, RejectedAnswers DEF Show
  <2> QED
    BY <1>8, <2>1, <2>2 DEF AddMetadata
<1>9. CASE AddTags(s)
  <2>1. CASE pc[s] = "addTags"
    <3>1. req[s].op = "addTags" /\ Busy(s)
      BY <2>1 DEF ControlInv, StepInv, Busy
    <3>2. req[s].arg \in Settings(TagKeys)
      BY <1>2, <2>1, <3>1, RequestFacts
    <3>3. DOMAIN req[s].arg \subseteq TagKeys
      BY <3>2 DEF Settings
    <3>4. req[s].arg \in GoodSettings
      BY <1>3, <3>2, SettingIsGood
    <3>5. OwnFields(Asked(s, req[s].arg, {})) /\ Right(Asked(s, req[s].arg, {}))
      BY <3>1, <3>3 DEF OwnFields, Right, Asked, MetaOps
    <3>6. Call(s, req[s].arg, {}, Goto(s, "listTags") /\ UNCHANGED machine)
      BY <1>9, <2>1 DEF AddTags
    <3> QED
      BY <1>1, <3>1, <3>4, <3>5, <3>6, CallAsks
  <2>2. CASE Show(s)
    <3>1. CASE End(s, <<"200">>) /\ UNCHANGED <<vm, jobs>>
      <4>1. sent' = <<"200">> /\ <<"200">> # <<"202">>
        BY <3>1 DEF End
      <4> QED
        BY <3>1, <4>1 DEF AnswersOnly
    <3> QED
      BY <2>2, <3>1, RejectedAnswers DEF Show
  <2> QED
    BY <1>9, <2>1, <2>2 DEF AddTags
<1>10. CASE DeleteMetadata(s)
  <2>1. pc[s] = "deleteMetadata" /\ req[s].op = "deleteMetadata" /\ Busy(s)
    BY <1>10 DEF DeleteMetadata, ControlInv, StepInv, Busy
  <2>2. req[s].arg \in MetaKeys \cup Protected
    BY <1>2, <2>1, RequestFacts
  <2>3. CASE req[s].arg \in Protected
    <3>1. End(s, <<"409">>) /\ UNCHANGED <<vm, jobs>>
      BY <1>10, <2>3 DEF DeleteMetadata
    <3>2. sent' = <<"409">> /\ <<"409">> # <<"202">>
      BY <3>1 DEF End
    <3> QED
      BY <3>1, <3>2 DEF AnswersOnly
  <2>4. CASE req[s].arg \notin Protected
    <3>1. {req[s].arg} \in GoodRemovals
      BY <2>2, <2>4, MachinesAssumption DEF GoodRemovals, Keys, Metadata
    <3>2. OwnFields(Asked(s, <<>>, {req[s].arg})) /\ Right(Asked(s, <<>>, {req[s].arg}))
      BY <2>1, <2>2 DEF OwnFields, Right, Asked, TagOps, Metadata
    <3>3. Call(s, <<>>, {req[s].arg}, End(s, <<"204">>))
      BY <1>10, <2>4 DEF DeleteMetadata
    <3> QED
      BY <1>1, <2>1, <3>1, <3>2, <3>3, CallAsks
  <2> QED
    BY <2>3, <2>4
<1>11. CASE DeleteAllMetadata(s)
  <2>1. CASE Rejected(s)
    BY <2>1, RejectedAnswers
  <2>2. CASE pc[s] = "listAllMetadata" /\ ~Rejected(s)
    <3>1. /\ machine' = [machine EXCEPT ![s] = [data |-> [k \in Protected |-> vm.data[k]]]]
          /\ Goto(s, "setMetadata")
          /\ UNCHANGED <<vm, jobs>>
      BY <1>11, <2>2 DEF DeleteAllMetadata
    <3>2. machine'[s] = [data |-> [k \in Protected |-> vm.data[k]]]
      BY <3>1 DEF ControlInv
    <3>3. \A k \in Protected : machine'[s].data[k] = vm.data[k]
      BY <3>2
    <3>4. req[s].op = "deleteAllMetadata" /\ Busy(s)
      BY <2>2 DEF StepOps, Busy
    <3>5. \A t \in Slots \ {s} : machine'[t] = machine[t]
      BY <3>1 DEF ControlInv
    <3> QED
      BY <3>1, <3>3, <3>4, <3>5 DEF Reads, Steps
  <2>3. CASE pc[s] = "setMetadata"
    <3> DEFINE new == [k \in Kept(s) \cup {"uuid"} |->
                           IF k = "uuid" THEN Own ELSE machine[s].data[k]]
               K == Present(Metadata) \ DOMAIN new
    <3>1. new \in GoodSettings /\ K \in GoodRemovals
      BY <2>3, StoreIsGood
    <3>2. OwnFields(Asked(s, new, K)) /\ (quiet[s] => Right(Asked(s, new, K)))
      BY <2>3, StoreIsRight
    <3>3. Call(s, new, K, End(s, <<"204">>))
      BY <1>11, <2>3 DEF DeleteAllMetadata
    <3>4. Busy(s)
      BY <2>3 DEF Busy
    <3> HIDE DEF new, K
    <3> QED
      BY <3>1, <3>2, <3>3, <3>4, CallAsks
  <2> QED
    BY <1>11, <2>1, <2>2, <2>3 DEF DeleteAllMetadata
<1>12. CASE ReplaceTags(s)
  <2> DEFINE K == Present(TagKeys) \ DOMAIN req[s].arg
  <2>1. pc[s] = "replaceTags" /\ req[s].op = "replaceTags" /\ Busy(s)
    BY <1>12 DEF ReplaceTags, ControlInv, StepInv, Busy
  <2>2. req[s].arg \in Settings(TagKeys)
    BY <1>2, <2>1, RequestFacts
  <2>3. DOMAIN req[s].arg \subseteq TagKeys
    BY <2>2 DEF Settings
  <2>4. req[s].arg \in GoodSettings /\ K \in GoodRemovals
    BY <1>3, <1>4, <2>2, SettingIsGood DEF Present
  <2>5. OwnFields(Asked(s, req[s].arg, K)) /\ Right(Asked(s, req[s].arg, K))
    BY <2>1, <2>3 DEF OwnFields, Right, Asked, MetaOps, Present
  <2>6. Call(s, req[s].arg, K, End(s, <<"200">>))
    BY <1>12 DEF ReplaceTags
  <2> HIDE DEF K
  <2> QED
    BY <2>1, <2>4, <2>5, <2>6, CallAsks
<1>13. CASE DeleteTags(s)
  <2>1. CASE pc[s] = "deleteTag"
    <3>1. req[s].op = "deleteTag" /\ Busy(s)
      BY <2>1 DEF ControlInv, StepInv, Busy
    <3>2. req[s].arg \in TagKeys
      BY <1>2, <2>1, <3>1, RequestFacts
    <3>3. {req[s].arg} \in GoodRemovals
      BY <1>4, <3>2
    <3>4. OwnFields(Asked(s, <<>>, {req[s].arg})) /\ Right(Asked(s, <<>>, {req[s].arg}))
      BY <3>1, <3>2 DEF OwnFields, Right, Asked, MetaOps
    <3>5. Call(s, <<>>, {req[s].arg}, End(s, <<"204">>))
      BY <1>13, <2>1 DEF DeleteTags
    <3> QED
      BY <1>1, <3>1, <3>3, <3>4, <3>5, CallAsks
  <2>2. CASE pc[s] = "deleteAllTags"
    <3>1. req[s].op = "deleteAllTags" /\ Busy(s)
      BY <2>2 DEF StepOps, Busy
    <3>2. Present(TagKeys) \in GoodRemovals
      BY <1>4 DEF Present
    <3>3. OwnFields(Asked(s, <<>>, Present(TagKeys))) /\ Right(Asked(s, <<>>, Present(TagKeys)))
      BY <3>1 DEF OwnFields, Right, Asked, MetaOps, Present
    <3>4. Call(s, <<>>, Present(TagKeys), End(s, <<"204">>))
      BY <1>13, <2>2 DEF DeleteTags
    <3> QED
      BY <1>1, <3>1, <3>2, <3>3, <3>4, CallAsks
  <2> QED
    BY <1>13, <2>1, <2>2 DEF DeleteTags
<1>14. CASE CreateSnapshot(s) \/ StartFromSnapshot(s) \/ DeleteSnapshot(s)
  <2>1. pc[s] \in {"createSnapshot", "startFromSnapshot", "deleteSnapshot"}
    BY <1>14 DEF CreateSnapshot, StartFromSnapshot, DeleteSnapshot
  <2>2. Busy(s) /\ req[s].op \notin MetaOps \cup TagOps
    BY <2>1 DEF StepOps, Busy, MetaOps, TagOps
  <2>3. \E code : Simply(s, code)
    BY <1>14 DEF CreateSnapshot, StartFromSnapshot, DeleteSnapshot
  <2> QED
    BY <2>2, <2>3, SimplyAsks
<1>15. CASE GetSnapshot(s)
  <2>1. CASE Rejected(s)
    BY <2>1, RejectedAnswers
  <2>2. CASE pc[s] = "getVm" /\ ~Rejected(s)
    <3>1. /\ machine' = [machine EXCEPT ![s] = [snapshots |-> vm.snapshots]]
          /\ Goto(s, "listJobs")
          /\ UNCHANGED <<vm, jobs>>
      BY <1>15, <2>2 DEF GetSnapshot
    <3> QED
      BY <2>2, <3>1 DEF Reads, Busy, Steps, ControlInv
  <2>3. CASE pc[s] = "listJobs" /\ ~Rejected(s)
    <3>1. PICK code : End(s, <<code>>) /\ UNCHANGED <<vm, jobs>>
                      /\ code \in {"404", "queued", "failed", "created", "deleted"}
      <4>1. \A i \in Latest(req[s].arg) :
                SnapshotState(s, jobs[i].execution) \in {"queued", "failed", "created", "deleted"}
        <5> SUFFICES ASSUME NEW i \in Latest(req[s].arg)
                     PROVE  SnapshotState(s, jobs[i].execution)
                                \in {"queued", "failed", "created", "deleted"}
          OBVIOUS
        <5>1. jobs[i] \in GoodJobs
          BY JobFacts DEF Latest, SnapshotJobs
        <5>2. jobs[i].execution \in {"queued", "succeeded", "failed"}
          BY <5>1 DEF GoodJobs, Job
        <5> QED
          BY <5>2 DEF SnapshotState
      <4> QED
        BY <1>15, <2>3, <4>1 DEF GetSnapshot
    <3>2. sent' = <<code>> /\ <<code>> # <<"202">>
      BY <3>1 DEF End
    <3> QED
      BY <3>1, <3>2 DEF AnswersOnly
  <2> QED
    BY <1>15, <2>1, <2>2, <2>3 DEF GetSnapshot
<1> QED
  BY <1>5, <1>6, <1>7, <1>8, <1>9, <1>10, <1>11, <1>12, <1>13, <1>14, <1>15 DEF Handle

-----------------------------------------------------------------------------
(* What a job changes. *)

LEMMA PartFacts ==
    ASSUME NEW op
    PROVE  /\ op \in {"enable_firewall", "disable_firewall"} <=> Part(op) = "firewall"
           /\ op \in MetaOps <=> Part(op) = "metadata"
           /\ op \in TagOps <=> Part(op) = "tags"
<1>1. CASE op \in {"enable_firewall", "disable_firewall"}
  BY <1>1 DEF Part, MetaOps, TagOps, SnapshotOps
<1>2. CASE op \in MetaOps
  BY <1>2 DEF Part, MetaOps, TagOps, SnapshotOps
<1>3. CASE op \in TagOps
  BY <1>3 DEF Part, MetaOps, TagOps, SnapshotOps
<1>4. CASE op \in SnapshotOps
  BY <1>4 DEF Part, MetaOps, TagOps, SnapshotOps
<1>5. CASE op \notin {"enable_firewall", "disable_firewall"} \cup MetaOps \cup TagOps \cup SnapshotOps
  BY <1>5 DEF Part, MetaOps, TagOps, SnapshotOps
<1> QED
  BY <1>1, <1>2, <1>3, <1>4, <1>5

\* A job on metadata or tags changes the keys it sets or removes.
LEMMA DataAfter ==
    ASSUME vm \in Vm, NEW job, job.req.op \in MetaOps \cup TagOps, vm' = Changed(job)
    PROVE  /\ vm'.firewall = vm.firewall
           /\ \A k \in Keys : vm'.data[k] =
                  IF k \in DOMAIN job.set THEN job.set[k]
                  ELSE IF k \in job.remove THEN Absent ELSE vm.data[k]
<1> DEFINE data == [k \in Keys |-> IF k \in DOMAIN job.set THEN job.set[k]
                                   ELSE IF k \in job.remove THEN Absent ELSE vm.data[k]]
<1>1. vm' = [vm EXCEPT !.data = data]
  BY DEF Changed, MetaOps, TagOps, Vm
<1> HIDE DEF data
<1>2. vm'.data = data /\ vm'.firewall = vm.firewall
  BY <1>1 DEF Vm
<1> QED
  BY <1>2 DEF data

\* Other jobs change no data, and only those on the firewall change the firewall.
LEMMA DataStays ==
    ASSUME vm \in Vm, NEW job, job.req.op \notin MetaOps \cup TagOps, vm' = Changed(job)
    PROVE  /\ vm'.data = vm.data
           /\ job.req.op \notin {"enable_firewall", "disable_firewall"}
                  => vm'.firewall = vm.firewall
  BY DEF Changed, Vm

LEMMA OtherPartsStay ==
    ASSUME vm \in Vm, NEW job, OwnFields(job), vm' = Changed(job)
    PROVE  /\ Part(job.req.op) # "firewall" => vm'.firewall = vm.firewall
           /\ Part(job.req.op) # "metadata" => \A k \in Metadata : vm'.data[k] = vm.data[k]
           /\ Part(job.req.op) # "tags" => \A k \in TagKeys : vm'.data[k] = vm.data[k]
<1>1. TagKeys \cap Metadata = {} /\ Keys = Metadata \cup TagKeys
  BY MachinesAssumption DEF Keys
<1>2. CASE job.req.op \in MetaOps
  BY <1>1, <1>2, DataAfter, PartFacts DEF OwnFields
<1>3. CASE job.req.op \in TagOps
  BY <1>1, <1>3, DataAfter, PartFacts DEF OwnFields
<1>4. CASE job.req.op \notin MetaOps \cup TagOps
  BY <1>4, DataStays, PartFacts
<1> QED
  BY <1>2, <1>3, <1>4

\* What a job sets and removes stays right as long as its part of the machine does.
LEMMA RightStays ==
    ASSUME NEW job, Right(job),
           Part(job.req.op) = "metadata" => \A k \in Metadata : vm'.data[k] = vm.data[k],
           Part(job.req.op) = "tags" => \A k \in TagKeys : vm'.data[k] = vm.data[k]
    PROVE  /\ job.req.op \in {"addMetadata", "addTags"} => job.set = job.req.arg
           /\ job.req.op \in {"deleteMetadata", "deleteTag"} =>
                  job.req.arg \notin DOMAIN job.set /\ job.req.arg \in job.remove
           /\ job.req.op = "deleteAllMetadata" =>
                  /\ \A k \in Protected :
                         IF k \in DOMAIN job.set THEN job.set[k] = vm'.data[k]
                         ELSE vm'.data[k] = Absent
                  /\ \A k \in MetaKeys :
                         k \notin DOMAIN job.set /\ (vm'.data[k] # Absent => k \in job.remove)
           /\ job.req.op = "replaceTags" =>
                  /\ job.set = job.req.arg
                  /\ \A k \in TagKeys \ DOMAIN job.set : vm'.data[k] # Absent => k \in job.remove
           /\ job.req.op = "deleteAllTags" =>
                  \A k \in TagKeys :
                      k \notin DOMAIN job.set /\ (vm'.data[k] # Absent => k \in job.remove)
<1>1. job.req.op = "deleteAllMetadata" => \A k \in Metadata : vm'.data[k] = vm.data[k]
  BY PartFacts DEF MetaOps
<1>2. job.req.op \in {"replaceTags", "deleteAllTags"} => \A k \in TagKeys : vm'.data[k] = vm.data[k]
  BY PartFacts DEF TagOps
<1> QED
  BY <1>1, <1>2 DEF Right, Metadata

\* A quiet job that succeeds has the effect its client asked for.
LEMMA RightTakesEffect ==
    ASSUME vm \in Vm, NEW job \in GoodJobs, OwnFields(job), Right(job), vm' = Changed(job)
    PROVE  TakesEffect(job.req, vm, vm')
<1>1. job.req \in Request
  BY DEF GoodJobs, Job
<1>2. job.req.op \in UpdateOps \cup {"delete"} \cup MetaOps \cup TagOps \cup SnapshotOps
  BY <1>1, RequestFacts
<1>3. Protected \subseteq Keys /\ MetaKeys \subseteq Keys /\ TagKeys \subseteq Keys
  BY DEF Keys, Metadata
<1>4. CASE job.req.op \in {"enable_firewall", "disable_firewall"}
  <2>1. job.req.op = "enable_firewall" => vm'.firewall
    BY DEF Changed, Vm, MetaOps, TagOps
  <2>2. job.req.op = "disable_firewall" => ~vm'.firewall
    BY DEF Changed, Vm, MetaOps, TagOps
  <2> QED
    BY <1>4, <2>1, <2>2 DEF TakesEffect
<1>5. CASE job.req.op \in {"addMetadata", "addTags"}
  <2>1. DOMAIN job.set \subseteq Keys
    BY DEF GoodJobs, GoodSettings
  <2>2. \A k \in DOMAIN job.req.arg : vm'.data[k] = job.req.arg[k]
    BY <1>5, <2>1, DataAfter DEF Right, MetaOps, TagOps
  <2> QED
    BY <1>5, <2>2 DEF TakesEffect
<1>6. CASE job.req.op \in {"deleteMetadata", "deleteTag"}
  <2>1. job.req.arg \in Keys
    BY <1>1, <1>3, <1>6, RequestFacts
  <2>2. vm'.data[job.req.arg] = Absent
    BY <1>6, <2>1, DataAfter DEF Right, MetaOps, TagOps
  <2> QED
    BY <1>6, <2>2 DEF TakesEffect
<1>7. CASE job.req.op = "deleteAllMetadata"
  <2>1. \A k \in MetaKeys : vm'.data[k] = Absent
    BY <1>3, <1>7, DataAfter DEF Right, MetaOps
  <2>2. \A k \in Protected : vm'.data[k] = vm.data[k]
    BY <1>3, <1>7, DataAfter DEF Right, MetaOps
  <2> QED
    BY <1>7, <2>1, <2>2 DEF TakesEffect
<1>8. CASE job.req.op = "replaceTags"
  <2>1. \A k \in TagKeys :
            vm'.data[k] = IF k \in DOMAIN job.req.arg THEN job.req.arg[k] ELSE Absent
    BY <1>3, <1>8, DataAfter DEF Right, TagOps
  <2> QED
    BY <1>8, <2>1 DEF TakesEffect
<1>9. CASE job.req.op = "deleteAllTags"
  <2>1. \A k \in TagKeys : vm'.data[k] = Absent
    BY <1>3, <1>9, DataAfter DEF Right, TagOps
  <2> QED
    BY <1>9, <2>1 DEF TakesEffect
<1>10. CASE job.req.op \in (UpdateOps \ {"enable_firewall", "disable_firewall"})
                               \cup {"delete"} \cup SnapshotOps
  BY <1>10 DEF TakesEffect, UpdateOps, SnapshotOps
<1> QED
  BY <1>2, <1>4, <1>5, <1>6, <1>7, <1>8, <1>9, <1>10 DEF UpdateOps, MetaOps, TagOps

-----------------------------------------------------------------------------
(* Each step keeps QuietInv. *)

\* A request that arrives takes the quiet of whatever is on its part of the machine.
LEMMA ArriveKeeps ==
    ASSUME Inv, QuietInv, NEW s \in Slots, Arrive(s)
    PROVE  QuietInv'
<1> USE DEF Inv, QuietInv
<1>1. PICK r \in Request :
          /\ req' = [req EXCEPT ![s] = r]
          /\ quiet' = [t \in Slots |->
                 IF t = s
                 THEN /\ \A u \in Slots : req[u] # NoRequest => ~(Part(req[u].op) = Part(r.op))
                      /\ \A i \in DOMAIN jobs :
                             Pending(jobs[i]) => ~(Part(jobs[i].req.op) = Part(r.op))
                 ELSE quiet[t] /\ (req[t] # NoRequest => ~(Part(req[t].op) = Part(r.op)))]
          /\ jobs' = [i \in DOMAIN jobs |->
                 [jobs[i] EXCEPT !.quiet =
                      @ /\ ~(Pending(jobs[i]) /\ Part(jobs[i].req.op) = Part(r.op))]]
  BY DEF Arrive
<1>2. /\ pc[s] = "idle"
      /\ pc' = [pc EXCEPT ![s] = "loadMachine"]
      /\ UNCHANGED <<vm, machine>>
  BY DEF Arrive
<1>3. /\ pc'[s] = "loadMachine" /\ req'[s] = r
      /\ \A t \in Slots \ {s} :
             /\ pc'[t] = pc[t] /\ req'[t] = req[t]
             /\ quiet'[t] => quiet[t] /\ (req[t] # NoRequest => Apart(req[t], r))
      /\ quiet'[s] =>
             /\ \A u \in Slots : req[u] # NoRequest => Apart(r, req[u])
             /\ \A i \in DOMAIN jobs : Pending(jobs[i]) => Apart(r, jobs[i].req)
  BY <1>1, <1>2 DEF ControlInv, Apart
<1>4. /\ DOMAIN jobs' = DOMAIN jobs
      /\ \A i \in DOMAIN jobs :
             /\ jobs'[i].req = jobs[i].req
             /\ jobs'[i].set = jobs[i].set
             /\ jobs'[i].remove = jobs[i].remove
             /\ jobs'[i].execution = jobs[i].execution
             /\ jobs'[i].quiet /\ Pending(jobs[i]) => jobs[i].quiet /\ Apart(jobs[i].req, r)
  <2>1. DOMAIN jobs' = DOMAIN jobs
    BY <1>1
  <2>2. ASSUME NEW i \in DOMAIN jobs
        PROVE  /\ jobs'[i].req = jobs[i].req
               /\ jobs'[i].set = jobs[i].set
               /\ jobs'[i].remove = jobs[i].remove
               /\ jobs'[i].execution = jobs[i].execution
               /\ jobs'[i].quiet /\ Pending(jobs[i]) => jobs[i].quiet /\ Apart(jobs[i].req, r)
    <3> DEFINE q == jobs[i].quiet /\ ~(Pending(jobs[i]) /\ Part(jobs[i].req.op) = Part(r.op))
    <3>1. jobs[i] \in GoodJobs
      BY <2>2, JobFacts
    <3>2. jobs'[i] = [jobs[i] EXCEPT !.quiet = q]
      BY <1>1
    <3>3. q => jobs[i].quiet /\ (Pending(jobs[i]) => Apart(jobs[i].req, r))
      BY DEF Apart
    <3> HIDE DEF q
    <3>4. /\ jobs'[i].req = jobs[i].req
          /\ jobs'[i].set = jobs[i].set
          /\ jobs'[i].remove = jobs[i].remove
          /\ jobs'[i].execution = jobs[i].execution
          /\ jobs'[i].quiet = q
      BY <3>1, <3>2 DEF GoodJobs, Job
    <3> QED
      BY <3>3, <3>4
  <2> QED
    BY <2>1, <2>2
<1>5. \A i \in DOMAIN jobs : Pending(jobs'[i]) <=> Pending(jobs[i])
  BY <1>4 DEF Pending
<1>6. r # NoRequest
  BY RequestFacts
<1>7. StepOps'
  BY <1>2, <1>3, <1>6 DEF StepOps
<1>8. ASSUME NEW t \in Slots, Busy(t)', quiet'[t]
      PROVE  /\ \A u \in Slots \ {t} : pc'[u] # "idle" => Apart(req'[t], req'[u])
             /\ \A i \in DOMAIN jobs' : Pending(jobs'[i]) => Apart(req'[t], jobs'[i].req)
  <2>1. CASE t = s
    BY <1>3, <1>4, <1>5, <1>8, <2>1 DEF StepOps
  <2>2. CASE t # s
    <3>1. Busy(t) /\ quiet[t] /\ Apart(req[t], r)
      BY <1>3, <1>8, <2>2 DEF Busy, StepOps
    <3> QED
      BY <1>3, <1>4, <1>5, <2>2, <3>1 DEF RequestsAlone
  <2> QED
    BY <2>1, <2>2
<1>9. RequestsAlone'
  BY <1>8 DEF RequestsAlone
<1>10. ASSUME NEW i \in DOMAIN jobs', Pending(jobs'[i]), jobs'[i].quiet
       PROVE  /\ \A t \in Slots : Busy(t)' => Apart(jobs'[i].req, req'[t])
              /\ \A j \in DOMAIN jobs' \ {i} : Pending(jobs'[j]) => Apart(jobs'[i].req, jobs'[j].req)
  <2>1. i \in DOMAIN jobs /\ Pending(jobs[i]) /\ jobs[i].quiet /\ Apart(jobs[i].req, r)
    BY <1>4, <1>5, <1>10
  <2>2. \A t \in Slots : Busy(t)' /\ t # s => Busy(t)
    BY <1>3 DEF Busy
  <2> QED
    BY <1>3, <1>4, <1>5, <2>1, <2>2 DEF JobsAlone
<1>11. JobsAlone'
  BY <1>10 DEF JobsAlone
<1>12. ReadsHold'
  BY <1>2, <1>3 DEF ReadsHold
<1>13. JobsRight'
  BY <1>2, <1>4, <1>5 DEF JobsRight, OwnFields, Right
<1> QED
  BY <1>7, <1>9, <1>11, <1>12, <1>13

\* A handler's step, as the other requests and the jobs see it.
LEMMA HandleFrame ==
    ASSUME Inv, QuietInv, NEW s \in Slots, AnswersOnly(s) \/ Reads(s) \/ Asks(s)
    PROVE  /\ \A t \in Slots \ {s} :
                  /\ pc'[t] = pc[t] /\ req'[t] = req[t]
                  /\ machine'[t] = machine[t] /\ quiet'[t] = quiet[t]
           /\ \/ pc'[s] = "idle" /\ req'[s] = NoRequest
              \/ pc'[s] \in Steps \ {"idle"} /\ req'[s] = req[s] /\ quiet'[s] = quiet[s]
                 /\ (Reads(s) \/ Asks(s))
<1> USE DEF Inv
<1>1. ASSUME NEW codes, End(s, codes)
      PROVE  /\ \A t \in Slots \ {s} :
                    /\ pc'[t] = pc[t] /\ req'[t] = req[t]
                    /\ machine'[t] = machine[t] /\ quiet'[t] = quiet[t]
             /\ pc'[s] = "idle" /\ req'[s] = NoRequest
  BY <1>1 DEF End, ControlInv
<1>2. ASSUME NEW step \in Steps \ {"idle"}, Goto(s, step)
      PROVE  /\ \A t \in Slots \ {s} :
                    pc'[t] = pc[t] /\ req'[t] = req[t] /\ quiet'[t] = quiet[t]
             /\ pc'[s] = step /\ req'[s] = req[s] /\ quiet'[s] = quiet[s]
  BY <1>2 DEF Goto, ControlInv
<1>3. CASE AnswersOnly(s)
  BY <1>1, <1>3 DEF AnswersOnly
<1>4. CASE Reads(s)
  BY <1>2, <1>4 DEF Reads
<1>5. CASE Asks(s)
  <2>1. {"listMetadata", "listTags"} \subseteq Steps \ {"idle"}
    BY DEF Steps
  <2> QED
    BY <1>1, <1>2, <1>5, <2>1 DEF Asks
<1> QED
  BY <1>3, <1>4, <1>5

\* The jobs after a handler's step: as before, or with the one it asked for.
LEMMA HandleJobs ==
    ASSUME Inv, QuietInv, NEW s \in Slots, AnswersOnly(s) \/ Reads(s) \/ Asks(s)
    PROVE  \/ UNCHANGED jobs /\ (Busy(s)' => Busy(s))
           \/ /\ Busy(s) /\ ~Busy(s)'
              /\ DOMAIN jobs' = 1 .. (Len(jobs) + 1)
              /\ jobs'[1].req = req[s] /\ jobs'[1].quiet = quiet[s]
              /\ OwnFields(jobs'[1])
              /\ quiet[s] => \E job : job = jobs'[1] /\ Right(job)
              /\ \A k \in DOMAIN jobs' \ {1} : k - 1 \in DOMAIN jobs /\ jobs'[k] = jobs[k - 1]
              /\ jobs' # jobs
<1> USE DEF Inv
<1>1. CASE AnswersOnly(s)
  <2>1. PICK codes : End(s, codes)
    BY <1>1 DEF AnswersOnly
  <2>2. pc'[s] = "idle"
    BY <2>1 DEF End, ControlInv
  <2> QED
    BY <1>1, <2>2 DEF AnswersOnly, Busy
<1>2. CASE Reads(s)
  BY <1>2 DEF Reads
<1>3. CASE Asks(s)
  <2>1. PICK f \in GoodSettings, K \in GoodRemovals :
            /\ Queue(s, f, K)
            /\ OwnFields(Asked(s, f, K))
            /\ quiet[s] => Right(Asked(s, f, K))
    BY <1>3 DEF Asks
  <2>2. Busy(s) /\ pc[s] # "idle"
    BY <1>3 DEF Asks, Busy
  <2>3. pc'[s] \in {"idle", "listMetadata", "listTags"}
    BY <1>3 DEF Asks, End, Goto, ControlInv
  <2>4. /\ DOMAIN jobs' = 1 .. (Len(jobs) + 1)
        /\ jobs'[1] = Asked(s, f, K)
        /\ \A k \in DOMAIN jobs' \ {1} : k - 1 \in DOMAIN jobs /\ jobs'[k] = jobs[k - 1]
        /\ jobs' # jobs
    BY <2>1, <2>2, QueuedJobs
  <2>5. jobs'[1].req = req[s] /\ jobs'[1].quiet = quiet[s]
    BY <2>4 DEF Asked
  <2>6. PICK job : job = Asked(s, f, K)
    OBVIOUS
  <2>7. OwnFields(jobs'[1]) /\ (quiet[s] => job = jobs'[1] /\ Right(job))
    BY <2>1, <2>4, <2>6
  <2> QED
    BY <2>2, <2>3, <2>4, <2>5, <2>7 DEF Busy
<1> QED
  BY <1>1, <1>2, <1>3

LEMMA HandleKeeps ==
    ASSUME Inv, QuietInv, NEW s \in Slots, Handle(s)
    PROVE  QuietInv'
<1> USE DEF Inv, QuietInv
<1>1. UNCHANGED vm /\ (AnswersOnly(s) \/ Reads(s) \/ Asks(s))
  BY HandleEffect
<1>2. /\ \A t \in Slots \ {s} :
             /\ pc'[t] = pc[t] /\ req'[t] = req[t]
             /\ machine'[t] = machine[t] /\ quiet'[t] = quiet[t]
      /\ \/ pc'[s] = "idle" /\ req'[s] = NoRequest
         \/ pc'[s] \in Steps \ {"idle"} /\ req'[s] = req[s] /\ quiet'[s] = quiet[s]
            /\ (Reads(s) \/ Asks(s))
  BY <1>1, HandleFrame
<1>3. \/ UNCHANGED jobs /\ (Busy(s)' => Busy(s))
      \/ /\ Busy(s) /\ ~Busy(s)'
         /\ DOMAIN jobs' = 1 .. (Len(jobs) + 1)
         /\ jobs'[1].req = req[s] /\ jobs'[1].quiet = quiet[s]
         /\ OwnFields(jobs'[1])
         /\ quiet[s] => \E job : job = jobs'[1] /\ Right(job)
         /\ \A k \in DOMAIN jobs' \ {1} : k - 1 \in DOMAIN jobs /\ jobs'[k] = jobs[k - 1]
         /\ jobs' # jobs
  BY <1>1, HandleJobs
<1>4. DOMAIN jobs = 1 .. Len(jobs) /\ Len(jobs) \in Nat
  BY JobFacts
<1>5. Reads(s) \/ Asks(s) => Busy(s) /\ pc[s] # "idle" /\ req[s] # NoRequest
  BY DEF Reads, Asks, Busy, StepOps
<1>6. Reads(s) => /\ pc'[s] \in {"delete", "deleteAllTags", "createSnapshot", "startFromSnapshot",
                                 "deleteSnapshot"} => req[s].op = pc'[s]
                  /\ pc'[s] = "update" =>
                         req[s].op \in UpdateOps /\ machine'[s].firewall = vm.firewall
                  /\ pc'[s] \in {"listAllMetadata", "setMetadata"} => req[s].op = "deleteAllMetadata"
                  /\ pc'[s] = "setMetadata" => \A k \in Protected : machine'[s].data[k] = vm.data[k]
  <2> SUFFICES ASSUME Reads(s), NEW step \in Steps \ {"idle"}, Goto(s, step),
                      step \in {"delete", "addMetadata", "deleteMetadata", "addTags", "replaceTags",
                                "deleteTag", "deleteAllTags", "createSnapshot", "startFromSnapshot",
                                "deleteSnapshot"} => req[s].op = step,
                      step = "update" =>
                          req[s].op \in UpdateOps /\ machine'[s].firewall = vm.firewall,
                      step \in {"listAllMetadata", "setMetadata"} => req[s].op = "deleteAllMetadata",
                      step = "setMetadata" => \A k \in Protected : machine'[s].data[k] = vm.data[k]
               PROVE  /\ pc'[s] \in {"delete", "deleteAllTags", "createSnapshot", "startFromSnapshot",
                                     "deleteSnapshot"} => req[s].op = pc'[s]
                      /\ pc'[s] = "update" =>
                             req[s].op \in UpdateOps /\ machine'[s].firewall = vm.firewall
                      /\ pc'[s] \in {"listAllMetadata", "setMetadata"} => req[s].op = "deleteAllMetadata"
                      /\ pc'[s] = "setMetadata" => \A k \in Protected : machine'[s].data[k] = vm.data[k]
    BY DEF Reads
  <2>1. pc'[s] = step
    BY DEF Goto, ControlInv
  <2> QED
    BY <2>1
<1>7. Asks(s) => pc'[s] \in {"idle", "listMetadata", "listTags"}
  BY DEF Asks, End, Goto, ControlInv
<1>8. StepOps'
  <2>1. ASSUME NEW t \in Slots \ {s}
        PROVE  /\ pc'[t] = "idle" <=> req'[t] = NoRequest
               /\ pc'[t] \in {"delete", "deleteAllTags", "createSnapshot", "startFromSnapshot", "deleteSnapshot"}
                      => req'[t].op = pc'[t]
               /\ pc'[t] = "update" => req'[t].op \in UpdateOps
               /\ pc'[t] \in {"listAllMetadata", "setMetadata"} => req'[t].op = "deleteAllMetadata"
    BY <1>2, <2>1 DEF StepOps
  <2>2. /\ pc'[s] = "idle" <=> req'[s] = NoRequest
        /\ pc'[s] \in {"delete", "deleteAllTags", "createSnapshot", "startFromSnapshot", "deleteSnapshot"}
               => req'[s].op = pc'[s]
        /\ pc'[s] = "update" => req'[s].op \in UpdateOps
        /\ pc'[s] \in {"listAllMetadata", "setMetadata"} => req'[s].op = "deleteAllMetadata"
    BY <1>2, <1>5, <1>6, <1>7
  <2> QED
    BY <2>1, <2>2 DEF StepOps
<1>9. ASSUME NEW t \in Slots, Busy(t)', quiet'[t]
      PROVE  /\ Busy(t) /\ quiet[t] /\ req'[t] = req[t]
             /\ \A u \in Slots \ {t} : pc'[u] # "idle" => Apart(req'[t], req'[u])
             /\ \A i \in DOMAIN jobs' : Pending(jobs'[i]) => Apart(req'[t], jobs'[i].req)
  <2>1. Busy(t) /\ quiet[t] /\ req'[t] = req[t]
    BY <1>2, <1>5, <1>9 DEF Busy
  <2>2. \A u \in Slots \ {t} : pc'[u] # "idle" => pc[u] # "idle" /\ req'[u] = req[u]
    BY <1>2, <1>5
  <2>3. \A u \in Slots \ {t} : pc'[u] # "idle" => Apart(req'[t], req'[u])
    BY <2>1, <2>2 DEF RequestsAlone
  <2>4. CASE UNCHANGED jobs
    BY <2>1, <2>3, <2>4 DEF RequestsAlone
  <2>5. CASE ~UNCHANGED jobs
    <3>1. t # s /\ Busy(s) /\ pc[s] # "idle"
      BY <1>3, <1>9, <2>5 DEF Busy
    <3>2. Apart(req[t], req[s])
      BY <2>1, <3>1 DEF RequestsAlone
    <3>3. ASSUME NEW i \in DOMAIN jobs', Pending(jobs'[i])
          PROVE  Apart(req'[t], jobs'[i].req)
      BY <1>3, <2>1, <2>5, <3>2, <3>3 DEF RequestsAlone
    <3> QED
      BY <2>1, <2>3, <3>3
  <2> QED
    BY <2>4, <2>5
<1>10. RequestsAlone'
  BY <1>9 DEF RequestsAlone
<1>11. ASSUME NEW i \in DOMAIN jobs', Pending(jobs'[i]), jobs'[i].quiet
       PROVE  /\ \A t \in Slots : Busy(t)' => Apart(jobs'[i].req, req'[t])
              /\ \A j \in DOMAIN jobs' \ {i} : Pending(jobs'[j]) => Apart(jobs'[i].req, jobs'[j].req)
  <2>1. \A t \in Slots : Busy(t)' => Busy(t) /\ pc[t] # "idle" /\ req'[t] = req[t]
    BY <1>2, <1>5 DEF Busy
  <2>2. CASE UNCHANGED jobs
    BY <1>11, <2>1, <2>2 DEF JobsAlone
  <2>3. CASE ~UNCHANGED jobs /\ i = 1
    <3>1. Busy(s) /\ quiet[s] /\ ~Busy(s)' /\ jobs'[1].req = req[s]
      BY <1>3, <1>11, <2>3
    <3>2. ASSUME NEW t \in Slots, Busy(t)' PROVE Apart(jobs'[i].req, req'[t])
      BY <2>1, <2>3, <3>1, <3>2 DEF RequestsAlone, Apart
    <3>3. ASSUME NEW j \in DOMAIN jobs' \ {i}, Pending(jobs'[j])
          PROVE  Apart(jobs'[i].req, jobs'[j].req)
      <4>1. j - 1 \in DOMAIN jobs /\ jobs'[j] = jobs[j - 1]
        BY <1>3, <2>3, <3>3
      <4>2. Pending(jobs[j - 1])
        BY <3>3, <4>1
      <4> QED
        BY <2>3, <3>1, <4>1, <4>2 DEF RequestsAlone
    <3> QED
      BY <3>2, <3>3
  <2>4. CASE ~UNCHANGED jobs /\ i # 1
    <3>1. i - 1 \in DOMAIN jobs /\ jobs'[i] = jobs[i - 1] /\ Busy(s) /\ jobs'[1].req = req[s]
          /\ i \in Nat
      BY <1>3, <1>4, <2>4
    <3>2. Pending(jobs[i - 1]) /\ jobs[i - 1].quiet
      BY <1>11, <3>1
    <3>3. ASSUME NEW t \in Slots, Busy(t)' PROVE Apart(jobs'[i].req, req'[t])
      BY <2>1, <3>1, <3>2, <3>3 DEF JobsAlone
    <3>4. ASSUME NEW j \in DOMAIN jobs' \ {i}, Pending(jobs'[j])
          PROVE  Apart(jobs'[i].req, jobs'[j].req)
      <4>1. CASE j = 1
        BY <3>1, <3>2, <4>1 DEF JobsAlone
      <4>2. CASE j # 1
        <5>1. j - 1 \in DOMAIN jobs /\ jobs'[j] = jobs[j - 1] /\ j \in Nat
          BY <1>3, <1>4, <2>4, <3>4, <4>2
        <5>2. j - 1 # i - 1 /\ Pending(jobs[j - 1])
          BY <3>1, <3>4, <5>1
        <5> QED
          BY <3>1, <3>2, <5>1, <5>2 DEF JobsAlone
      <4> QED
        BY <4>1, <4>2
    <3> QED
      BY <3>3, <3>4
  <2> QED
    BY <2>2, <2>3, <2>4
<1>12. JobsAlone'
  BY <1>11 DEF JobsAlone
<1>13. ReadsHold'
  <2>1. ASSUME NEW t \in Slots \ {s}, quiet'[t]
        PROVE  /\ pc'[t] = "update" /\ req'[t].op \in {"enable_firewall", "disable_firewall"}
                      => machine'[t].firewall = vm'.firewall
               /\ pc'[t] = "setMetadata" =>
                      /\ req'[t].op = "deleteAllMetadata"
                      /\ \A k \in Protected : machine'[t].data[k] = vm'.data[k]
    BY <1>1, <1>2, <2>1 DEF ReadsHold
  <2>2. /\ pc'[s] = "update" => machine'[s].firewall = vm'.firewall
        /\ pc'[s] = "setMetadata" =>
               /\ req'[s].op = "deleteAllMetadata"
               /\ \A k \in Protected : machine'[s].data[k] = vm'.data[k]
    BY <1>1, <1>2, <1>6, <1>7
  <2> QED
    BY <2>1, <2>2 DEF ReadsHold
<1>14. JobsRight'
  <2>1. CASE UNCHANGED jobs
    BY <1>1, <2>1 DEF JobsRight, OwnFields, Right
  <2>2. CASE ~UNCHANGED jobs
    <3>1. ASSUME NEW i \in DOMAIN jobs'
          PROVE  \E job : /\ job = jobs'[i] /\ OwnFields(job)
                          /\ Pending(job) /\ job.quiet => Right(job)
      <4>1. CASE i = 1
        BY <1>3, <2>2, <4>1
      <4>2. CASE i # 1
        BY <1>3, <2>2, <3>1, <4>2 DEF JobsRight
      <4> QED
        BY <4>1, <4>2
    <3>2. ASSUME NEW i \in DOMAIN jobs'
          PROVE  OwnFields(jobs'[i]) /\ (Pending(jobs'[i]) /\ jobs'[i].quiet => Right(jobs[i])')
      <4>1. PICK job : /\ job = jobs'[i] /\ OwnFields(job)
                       /\ Pending(job) /\ job.quiet => Right(job)
        BY <3>1, <3>2
      <4> QED
        BY <1>1, <4>1 DEF Right
    <3> QED
      BY <3>2 DEF JobsRight, OwnFields, Pending
  <2> QED
    BY <2>1, <2>2
<1> QED
  BY <1>8, <1>10, <1>12, <1>13, <1>14

\* A job that ends changes its own part of the machine, which no quiet request or
\* other quiet job is about.
LEMMA EndKeeps ==
    ASSUME Inv, QuietInv, NEW i \in DOMAIN jobs, JobSucceeds(i) \/ JobFails(i)
    PROVE  QuietInv'
<1> USE DEF Inv, QuietInv
<1>1. /\ Pending(jobs[i])
      /\ UNCHANGED <<pc, req, machine, quiet>>
      /\ \E execution \in {"succeeded", "failed"} : jobs' = Ended(i, execution)
      /\ vm' = vm \/ vm' = Changed(jobs[i])
  BY DEF JobSucceeds, JobFails
<1>2. /\ DOMAIN jobs' \subseteq DOMAIN jobs
      /\ \A k \in DOMAIN jobs' :
             /\ Old(k, i) \in DOMAIN jobs
             /\ \/ jobs'[k] = jobs[Old(k, i)] /\ Old(k, i) # i
                \/ ~Pending(jobs'[k]) /\ \E e : jobs'[k] = [jobs[i] EXCEPT !.execution = e]
      /\ \A k, l \in DOMAIN jobs' : k # l => Old(k, i) # Old(l, i)
  BY <1>1, EndedJobs
<1>3. PICK ended : ended = jobs[i]
  OBVIOUS
<1>4. OwnFields(ended) /\ vm \in Vm
  BY <1>3 DEF JobsRight, VmInv
<1>5. /\ Part(ended.req.op) # "firewall" => vm'.firewall = vm.firewall
      /\ Part(ended.req.op) # "metadata" => \A k \in Metadata : vm'.data[k] = vm.data[k]
      /\ Part(ended.req.op) # "tags" => \A k \in TagKeys : vm'.data[k] = vm.data[k]
  <2>1. CASE vm' = vm
    BY <2>1
  <2>2. CASE vm' = Changed(ended)
    BY <1>4, <2>2, OtherPartsStay
  <2> QED
    BY <1>1, <1>3, <2>1, <2>2
<1>6. StepOps'
  BY <1>1 DEF StepOps
<1>7. \A k \in DOMAIN jobs' : Pending(jobs'[k]) =>
          /\ Old(k, i) \in DOMAIN jobs \ {i}
          /\ jobs'[k] = jobs[Old(k, i)]
  BY <1>2
<1>8. RequestsAlone'
  <2>1. \A s \in Slots : Busy(s)' <=> Busy(s)
    BY <1>1 DEF Busy
  <2>2. \A s \in Slots : Busy(s) /\ quiet[s] =>
            \A k \in DOMAIN jobs' : Pending(jobs'[k]) => Apart(req[s], jobs'[k].req)
    BY <1>7 DEF RequestsAlone
  <2>3. \A s \in Slots : Busy(s) /\ quiet[s] =>
            \A t \in Slots \ {s} : pc[t] # "idle" => Apart(req[s], req[t])
    BY DEF RequestsAlone
  <2> QED
    BY <1>1, <2>1, <2>2, <2>3 DEF RequestsAlone, Apart, Pending
<1>9. JobsAlone'
  <2>1. ASSUME NEW k \in DOMAIN jobs', Pending(jobs'[k]), jobs'[k].quiet
        PROVE  /\ \A t \in Slots : Busy(t)' => Apart(jobs'[k].req, req'[t])
               /\ \A l \in DOMAIN jobs' \ {k} :
                      Pending(jobs'[l]) => Apart(jobs'[k].req, jobs'[l].req)
    <3>1. PICK o \in DOMAIN jobs : o = Old(k, i) /\ jobs'[k] = jobs[o]
      BY <1>7, <2>1
    <3>2. Pending(jobs[o]) /\ jobs[o].quiet
      BY <2>1, <3>1
    <3>3. \A t \in Slots : Busy(t)' => Apart(jobs'[k].req, req'[t])
      BY <1>1, <3>1, <3>2 DEF JobsAlone, Busy
    <3>4. ASSUME NEW l \in DOMAIN jobs' \ {k}, Pending(jobs'[l])
          PROVE  Apart(jobs'[k].req, jobs'[l].req)
      <4>1. PICK n \in DOMAIN jobs : n = Old(l, i) /\ jobs'[l] = jobs[n]
        BY <1>7, <3>4
      <4>2. n # o
        BY <1>2, <3>1, <3>4, <4>1
      <4> QED
        BY <3>1, <3>2, <3>4, <4>1, <4>2 DEF JobsAlone
    <3> QED
      BY <3>3, <3>4
  <2> QED
    BY <2>1 DEF JobsAlone
<1>10. ReadsHold'
  <2>1. ASSUME NEW s \in Slots, quiet[s], pc[s] = "update",
               req[s].op \in {"enable_firewall", "disable_firewall"}
        PROVE  machine[s].firewall = vm'.firewall
    <3>1. Apart(req[s], ended.req)
      BY <1>1, <1>3, <2>1 DEF RequestsAlone, Busy
    <3>2. Part(req[s].op) = "firewall"
      BY <2>1, PartFacts
    <3> QED
      BY <1>5, <2>1, <3>1, <3>2 DEF ReadsHold, Apart
  <2>2. ASSUME NEW s \in Slots, quiet[s], pc[s] = "setMetadata"
        PROVE  /\ req[s].op = "deleteAllMetadata"
               /\ \A k \in Protected : machine[s].data[k] = vm'.data[k]
    <3>1. Apart(req[s], ended.req)
      BY <1>1, <1>3, <2>2 DEF RequestsAlone, Busy
    <3>2. req[s].op = "deleteAllMetadata"
      BY <2>2 DEF ReadsHold
    <3>3. Part(req[s].op) = "metadata"
      BY <3>2, PartFacts DEF MetaOps
    <3> QED
      BY <1>5, <2>2, <3>1, <3>2, <3>3 DEF ReadsHold, Apart, Metadata
  <2> QED
    BY <1>1, <2>1, <2>2 DEF ReadsHold
<1>11. JobsRight'
  <2>1. ASSUME NEW k \in DOMAIN jobs'
        PROVE  OwnFields(jobs'[k])
    <3>1. CASE jobs'[k] = jobs[Old(k, i)]
      BY <1>2, <2>1, <3>1 DEF JobsRight
    <3>2. CASE \E e : jobs'[k] = [jobs[i] EXCEPT !.execution = e]
      <4>1. PICK e : jobs'[k] = [jobs[i] EXCEPT !.execution = e]
        BY <3>2
      <4>2. ended \in GoodJobs
        BY <1>3, JobFacts
      <4>3. /\ jobs'[k].req = ended.req
            /\ jobs'[k].set = ended.set
            /\ jobs'[k].remove = ended.remove
        BY <1>3, <4>1, <4>2 DEF GoodJobs, Job
      <4> QED
        BY <1>4, <4>3 DEF OwnFields
    <3> QED
      BY <1>2, <2>1, <3>1, <3>2
  <2>2. ASSUME NEW k \in DOMAIN jobs', Pending(jobs'[k]), jobs'[k].quiet
        PROVE  Right(jobs[k])'
    <3>1. PICK o \in DOMAIN jobs \ {i} : o = Old(k, i) /\ jobs'[k] = jobs[o]
      BY <1>7, <2>2
    <3>2. Pending(jobs[o]) /\ jobs[o].quiet
      BY <2>2, <3>1
    <3>3. PICK job : job = jobs[o]
      OBVIOUS
    <3>4. Right(job) /\ Apart(job.req, ended.req)
      BY <1>1, <1>3, <3>1, <3>2, <3>3 DEF JobsRight, JobsAlone
    <3>5. /\ Part(job.req.op) = "metadata" => \A l \in Metadata : vm'.data[l] = vm.data[l]
          /\ Part(job.req.op) = "tags" => \A l \in TagKeys : vm'.data[l] = vm.data[l]
      BY <1>5, <3>4 DEF Apart
    <3>6. jobs'[k] = job
      BY <3>1, <3>3
    <3> QED
      BY <3>4, <3>5, <3>6, RightStays DEF Right
  <2> QED
    BY <2>1, <2>2 DEF JobsRight, OwnFields, Pending
<1> QED
  BY <1>6, <1>8, <1>9, <1>10, <1>11

LEMMA QuietInit == Init => QuietInv
<1> SUFFICES ASSUME Init PROVE QuietInv
  OBVIOUS
<1>1. /\ jobs = <<>>
      /\ \A s \in Slots : pc[s] = "idle" /\ req[s] = NoRequest
  BY DEF Init
<1>2. DOMAIN jobs = {}
  BY <1>1
<1> QED
  BY <1>1, <1>2 DEF QuietInv, StepOps, RequestsAlone, JobsAlone, ReadsHold, JobsRight, Busy

LEMMA QuietNext == Inv /\ QuietInv /\ [Next]_vars => QuietInv'
<1> SUFFICES ASSUME Inv, QuietInv, [Next]_vars PROVE QuietInv'
  OBVIOUS
<1>1. CASE UNCHANGED vars
  BY <1>1 DEF vars, QuietInv, StepOps, RequestsAlone, JobsAlone, ReadsHold, JobsRight, Busy,
              Apart, Pending, OwnFields, Right
<1> QED
  BY <1>1, ArriveKeeps, HandleKeeps, EndKeeps DEF Next

LEMMA SpecQuietInv == Spec => [](Inv /\ QuietInv)
<1>1. Inv /\ QuietInv /\ [Next]_vars => (Inv /\ QuietInv)'
  BY NextInv, QuietNext
<1>2. Init => Inv /\ QuietInv
  BY InitInv, QuietInit
<1> QED
  BY <1>1, <1>2, PTL DEF Spec

\* A request that no request on the same part of the machine overlaps, from its arrival
\* to the end of its job, has its effect, for any number of requests on all
\* parts: what the handler read is still so when VMAPI takes the job, what the job sets
\* and removes is still right when it runs, and when the handler does without a
\* job the machine is as asked.
THEOREM QuietRequestsAreServed == Spec => QuietRequestsTakeEffect
<1>1. Inv /\ QuietInv /\ [Next]_vars =>
          [/\ \A i \in DOMAIN jobs :
                  JobSucceeds(i) /\ jobs[i].quiet => TakesEffect(jobs[i].req, vm, vm')
           /\ \A s \in Slots :
                  pc[s] = "update" /\ sent' = <<"202">> /\ jobs' = jobs /\ quiet[s]
                      => TakesEffect(req[s], vm, vm)]_vars
  <2> SUFFICES ASSUME Inv, QuietInv, Next
               PROVE  /\ \A i \in DOMAIN jobs :
                             JobSucceeds(i) /\ jobs[i].quiet => TakesEffect(jobs[i].req, vm, vm')
                      /\ \A s \in Slots :
                             pc[s] = "update" /\ sent' = <<"202">> /\ jobs' = jobs /\ quiet[s]
                                 => TakesEffect(req[s], vm, vm)
    OBVIOUS
  <2>1. ASSUME NEW i \in DOMAIN jobs, JobSucceeds(i), jobs[i].quiet
        PROVE  TakesEffect(jobs[i].req, vm, vm')
    <3>1. PICK job : job = jobs[i]
      OBVIOUS
    <3>2. job \in GoodJobs /\ OwnFields(job) /\ Right(job) /\ vm \in Vm /\ vm' = Changed(job)
      BY <2>1, <3>1, JobFacts DEF Inv, QuietInv, JobsRight, VmInv, JobSucceeds
    <3> QED
      BY <3>1, <3>2, RightTakesEffect
  <2>2. ASSUME NEW s \in Slots, pc[s] = "update", sent' = <<"202">>, jobs' = jobs, quiet[s]
        PROVE  TakesEffect(req[s], vm, vm)
    <3>1. PICK t \in Slots : Handle(t)
      BY <2>2 DEF Next, Arrive, JobSucceeds, JobFails
    <3>2. AnswersOnly(t) \/ Reads(t) \/ Asks(t)
      BY <3>1, HandleEffect DEF QuietInv
    <3>3. ~Asks(t)
      <4> SUFFICES ASSUME Asks(t) PROVE FALSE
        OBVIOUS
      <4>1. PICK f \in GoodSettings, K \in GoodRemovals : Queue(t, f, K)
        BY DEF Asks
      <4>2. pc[t] # "idle"
        BY DEF Asks, Busy
      <4> QED
        BY <2>2, <4>1, <4>2, QueuedJobs DEF Inv
    <3>4. ~Reads(t)
      BY <2>2 DEF Reads, Goto
    <3>5. pc[t] = "update" /\ FirewallIs(t)
      BY <2>2, <3>2, <3>3, <3>4 DEF AnswersOnly
    <3>6. CASE t = s
      <4>1. machine[s].firewall = vm.firewall
        BY <2>2, <3>5, <3>6 DEF QuietInv, ReadsHold, FirewallIs
      <4> QED
        BY <3>5, <3>6, <4>1 DEF FirewallIs, TakesEffect
    <3>7. CASE t # s
      <4>1. Apart(req[s], req[t])
        BY <2>2, <3>5, <3>7 DEF QuietInv, RequestsAlone, Busy
      <4>2. req[s].op \notin {"enable_firewall", "disable_firewall"}
        BY <3>5, <4>1, PartFacts DEF FirewallIs, Apart
      <4>3. req[s].op \in UpdateOps
        BY <2>2 DEF QuietInv, StepOps
      <4> QED
        BY <4>2, <4>3 DEF TakesEffect, UpdateOps
    <3> QED
      BY <3>6, <3>7
  <2> QED
    BY <2>1, <2>2
<1> QED
  BY <1>1, SpecQuietInv, PTL DEF Spec, QuietRequestsTakeEffect

-----------------------------------------------------------------------------
(* GET of a snapshot: what it read of the machine is still so when it answers. *)

SnapshotInv ==
    \A s \in Slots :
        /\ pc[s] \in {"getVm", "listJobs"} => req[s].op = "getSnapshot"
        /\ pc[s] = "listJobs" /\ quiet[s] => machine[s].snapshots = vm.snapshots

\* The steps into getVm and listJobs, and the only one that answers "created".
LEMMA SnapshotSteps ==
    ASSUME Inv, NEW s \in Slots, Handle(s)
    PROVE  /\ pc'[s] = "getVm" => req[s].op = "getSnapshot"
           /\ pc'[s] = "listJobs" => pc[s] = "getVm" /\ machine'[s].snapshots = vm.snapshots
           /\ sent' = <<"created">> =>
                pc[s] = "listJobs" /\ req[s].arg \in machine[s].snapshots
<1> DEFINE Goal == /\ pc'[s] = "getVm" => req[s].op = "getSnapshot"
                   /\ pc'[s] = "listJobs" => pc[s] = "getVm" /\ machine'[s].snapshots = vm.snapshots
                   /\ sent' = <<"created">> =>
                        pc[s] = "listJobs" /\ req[s].arg \in machine[s].snapshots
<1>0. ControlInv /\ JobsInv
  BY DEF Inv
<1>1. ASSUME NEW codes, End(s, codes), codes # <<"created">>
      PROVE  Goal
  BY <1>0, <1>1 DEF End, ControlInv
<1>2. ASSUME NEW step, Goto(s, step), step \notin {"getVm", "listJobs"}
      PROVE  Goal
  <2>1. sent' = <<>> /\ pc'[s] = step
    BY <1>0, <1>2 DEF Goto, ControlInv
  <2>2. sent' # <<"created">>
    BY <2>1
  <2>. QED
    BY <1>2, <2>1, <2>2
<1>3. Rejected(s) => Goal
  BY <1>1 DEF Rejected
<1>4. ASSUME NEW code \in Codes \ {"created"}, End(s, <<code>>)
      PROVE  Goal
  <2>1. <<code>> # <<"created">>
    OBVIOUS
  <2>. QED
    BY <1>1, <1>4, <2>1
<1>5. ASSUME NEW code, Simply(s, code), code \in Codes \ {"created"}
      PROVE  Goal
  BY <1>3, <1>4, <1>5 DEF Simply, Call, Codes
<1>6. ASSUME End(s, <<"410", "409">>) PROVE Goal
  <2>1. <<"410", "409">> # <<"created">>
    OBVIOUS
  <2>. QED
    BY <1>1, <1>6, <2>1
<1>. SUFFICES Goal
  OBVIOUS
<1>. HIDE DEF Goal
<1>7. CASE LoadMachine(s)
  <2>1. CASE Rejected(s)
    BY <1>3, <2>1
  <2>2. CASE ~Rejected(s)
    <3> DEFINE step == CASE req[s].op \in UpdateOps -> "update"
                         [] req[s].op = "deleteAllMetadata" -> "listAllMetadata"
                         [] req[s].op = "getSnapshot" -> "getVm"
                         [] OTHER -> req[s].op
    <3>1. Goto(s, step)
      BY <1>7, <2>2 DEF LoadMachine
    <3>2. pc'[s] = step /\ sent' # <<"created">>
      BY <1>0, <3>1 DEF Goto, ControlInv
    <3>3. pc[s] = "loadMachine" => req[s] \in Request
      BY <1>0 DEF ControlInv, StepInv
    <3>4. req[s].op \in UpdateOps \cup {"delete"} \cup MetaOps \cup TagOps \cup SnapshotOps
      BY <1>7, <3>3, RequestFacts DEF LoadMachine
    <3>5. step # "listJobs" /\ (step = "getVm" => req[s].op = "getSnapshot")
      BY <3>4 DEF UpdateOps, MetaOps, TagOps, SnapshotOps
    <3>. HIDE DEF step
    <3>. QED
      BY <3>2, <3>5 DEF Goal
  <2>. QED
    BY <2>1, <2>2
<1>8. CASE Update(s)
  <2>1. UpdateVm(s) => Goal
    BY <1>5 DEF UpdateVm, Codes
  <2>2. Gone(s) \/ Invalid(s) \/ End(s, <<"409">>) \/ End(s, <<"202">>) => Goal
    BY <1>4, <1>6 DEF Gone, Invalid, Codes
  <2>. QED
    BY <1>8, <2>1, <2>2 DEF Update, StartStopReboot, Resize, Rename, SwitchFirewall
<1>9. CASE Delete(s)
  BY <1>4, <1>5, <1>9 DEF Delete, Codes
<1>10. ASSUME Show(s) PROVE Goal
  BY <1>3, <1>4, <1>10 DEF Show, Codes
<1>11. CASE AddMetadata(s) \/ AddTags(s)
  BY <1>2, <1>3, <1>4, <1>10, <1>11 DEF AddMetadata, AddTags, Call, Codes
<1>12. CASE DeleteMetadata(s)
  BY <1>3, <1>4, <1>12 DEF DeleteMetadata, Call, Codes
<1>13. CASE DeleteAllMetadata(s)
  <2>1. CASE pc[s] = "listAllMetadata"
    BY <1>2, <1>3, <1>13, <2>1 DEF DeleteAllMetadata
  <2>2. CASE pc[s] = "setMetadata"
    <3> DEFINE new == [k \in Kept(s) \cup {"uuid"} |->
                           IF k = "uuid" THEN Own ELSE machine[s].data[k]]
               K == Present(Metadata) \ DOMAIN new
    <3>1. Call(s, new, K, End(s, <<"204">>))
      BY <1>13, <2>2 DEF DeleteAllMetadata
    <3>. HIDE DEF new, K
    <3>. QED
      BY <1>3, <1>4, <3>1 DEF Call, Codes
  <2>. QED
    BY <1>13, <2>1, <2>2 DEF DeleteAllMetadata
<1>14. CASE ReplaceTags(s)
  BY <1>3, <1>4, <1>14 DEF ReplaceTags, Call, Codes
<1>15. CASE DeleteTags(s)
  BY <1>3, <1>4, <1>15 DEF DeleteTags, Call, Codes
<1>16. CASE CreateSnapshot(s) \/ StartFromSnapshot(s) \/ DeleteSnapshot(s)
  BY <1>5, <1>16 DEF Codes, CreateSnapshot, StartFromSnapshot, DeleteSnapshot
<1>17. CASE GetSnapshot(s)
  <2>1. CASE Rejected(s)
    BY <1>3, <2>1
  <2>2. CASE pc[s] = "getVm" /\ ~Rejected(s)
    <3>1. /\ machine' = [machine EXCEPT ![s] = [snapshots |-> vm.snapshots]]
          /\ Goto(s, "listJobs")
      BY <1>17, <2>2 DEF GetSnapshot
    <3>2. machine'[s] = [snapshots |-> vm.snapshots]
      BY <1>0, <3>1 DEF ControlInv
    <3>3. machine'[s].snapshots = vm.snapshots
      BY <3>2
    <3>4. pc'[s] = "listJobs" /\ sent' # <<"created">>
      BY <1>0, <3>1 DEF Goto, ControlInv
    <3>. QED
      BY <2>2, <3>3, <3>4 DEF Goal
  <2>3. CASE pc[s] = "listJobs" /\ ~Rejected(s)
    <3>1. PICK code : /\ End(s, <<code>>)
                      /\ code = "created" => req[s].arg \in machine[s].snapshots
      <4>1. ASSUME NEW i \in Latest(req[s].arg), End(s, <<SnapshotState(s, jobs[i].execution)>>)
            PROVE  \E code : /\ End(s, <<code>>)
                             /\ code = "created" => req[s].arg \in machine[s].snapshots
        <5>1. SnapshotState(s, jobs[i].execution) = "created" => req[s].arg \in machine[s].snapshots
          BY DEF SnapshotState
        <5>. QED
          BY <4>1, <5>1
      <4>2. CASE End(s, <<"404">>)
        BY <4>2
      <4>. QED
        BY <1>17, <2>3, <4>1, <4>2 DEF GetSnapshot
    <3>2. pc'[s] = "idle" /\ sent' = <<code>>
      BY <1>0, <3>1 DEF End, ControlInv
    <3>. QED
      BY <2>3, <3>1, <3>2 DEF Goal
  <2>. QED
    BY <1>17, <2>1, <2>2, <2>3 DEF GetSnapshot
<1>. QED
  BY <1>7, <1>8, <1>9, <1>11, <1>12, <1>13, <1>14, <1>15, <1>16, <1>17 DEF Handle

\* Only jobs on snapshots change them.
LEMMA SnapshotsStay ==
    ASSUME vm \in Vm, NEW job, Part(job.req.op) # "snapshots", vm' = Changed(job)
    PROVE  vm'.snapshots = vm.snapshots
<1>1. job.req.op \notin SnapshotOps
  BY DEF Part, SnapshotOps, MetaOps, TagOps
<1>2. CASE job.req.op \in MetaOps \cup TagOps
  <2> DEFINE data == [k \in Keys |-> IF k \in DOMAIN job.set THEN job.set[k]
                                     ELSE IF k \in job.remove THEN Absent ELSE vm.data[k]]
  <2>1. vm' = [vm EXCEPT !.data = data]
    BY <1>2 DEF Changed, MetaOps, TagOps, Vm
  <2>. HIDE DEF data
  <2>. QED
    BY <2>1 DEF Vm
<1>3. CASE job.req.op \notin MetaOps \cup TagOps
  BY <1>1, <1>3 DEF Changed, SnapshotOps, Vm
<1>. QED
  BY <1>2, <1>3

LEMMA SnapshotNext == Inv /\ QuietInv /\ SnapshotInv /\ [Next]_vars => SnapshotInv'
<1> SUFFICES ASSUME Inv, QuietInv, SnapshotInv, [Next]_vars, NEW s \in Slots
             PROVE  /\ pc'[s] \in {"getVm", "listJobs"} => req'[s].op = "getSnapshot"
                    /\ pc'[s] = "listJobs" /\ quiet'[s] => machine'[s].snapshots = vm'.snapshots
  BY DEF SnapshotInv
<1>1. /\ pc[s] \in {"getVm", "listJobs"} => req[s].op = "getSnapshot"
      /\ pc[s] = "listJobs" /\ quiet[s] => machine[s].snapshots = vm.snapshots
  BY DEF SnapshotInv
<1>2. CASE UNCHANGED vars
  BY <1>1, <1>2 DEF vars
<1>3. ASSUME NEW t \in Slots, Arrive(t)
      PROVE  /\ pc'[s] \in {"getVm", "listJobs"} => req'[s].op = "getSnapshot"
             /\ pc'[s] = "listJobs" /\ quiet'[s] => machine'[s].snapshots = vm'.snapshots
  <2>1. CASE s = t
    BY <1>3, <2>1 DEF Arrive, Inv, ControlInv
  <2>2. CASE s # t
    <3>1. /\ pc'[s] = pc[s] /\ req'[s] = req[s] /\ UNCHANGED <<vm, machine>>
          /\ quiet'[s] => quiet[s]
      BY <1>3, <2>2 DEF Arrive, Inv, ControlInv
    <3>. QED
      BY <1>1, <3>1
  <2>. QED
    BY <2>1, <2>2
<1>4. ASSUME NEW t \in Slots, Handle(t)
      PROVE  /\ pc'[s] \in {"getVm", "listJobs"} => req'[s].op = "getSnapshot"
             /\ pc'[s] = "listJobs" /\ quiet'[s] => machine'[s].snapshots = vm'.snapshots
  <2>1. UNCHANGED vm /\ (AnswersOnly(t) \/ Reads(t) \/ Asks(t))
    BY <1>4, HandleEffect DEF QuietInv
  <2>2. /\ \A u \in Slots \ {t} :
               /\ pc'[u] = pc[u] /\ req'[u] = req[u]
               /\ machine'[u] = machine[u] /\ quiet'[u] = quiet[u]
        /\ pc'[t] = "idle" \/ req'[t] = req[t]
    BY <2>1, HandleFrame
  <2>3. CASE s = t
    <3>1. /\ pc'[s] = "getVm" => req[s].op = "getSnapshot"
          /\ pc'[s] = "listJobs" => pc[s] = "getVm" /\ machine'[s].snapshots = vm.snapshots
      BY <1>4, <2>3, SnapshotSteps
    <3>. QED
      BY <1>1, <2>1, <2>2, <2>3, <3>1
  <2>4. CASE s # t
    BY <1>1, <2>1, <2>2, <2>4
  <2>. QED
    BY <2>3, <2>4
<1>5. ASSUME NEW i \in DOMAIN jobs, JobSucceeds(i) \/ JobFails(i)
      PROVE  /\ pc'[s] \in {"getVm", "listJobs"} => req'[s].op = "getSnapshot"
             /\ pc'[s] = "listJobs" /\ quiet'[s] => machine'[s].snapshots = vm'.snapshots
  <2>1. /\ Pending(jobs[i]) /\ UNCHANGED <<pc, req, machine, quiet>>
        /\ vm' = vm \/ vm' = Changed(jobs[i])
    BY <1>5 DEF JobSucceeds, JobFails
  <2>2. ASSUME pc[s] = "listJobs", quiet[s]
        PROVE  vm'.snapshots = vm.snapshots
    <3>1. Part(req[s].op) = "snapshots"
      BY <1>1, <2>2 DEF Part, SnapshotOps, MetaOps, TagOps
    <3>2. Apart(req[s], jobs[i].req)
      BY <2>1, <2>2 DEF QuietInv, RequestsAlone, Busy
    <3>. QED
      BY <2>1, <3>1, <3>2, SnapshotsStay DEF Apart, Inv, VmInv
  <2>. QED
    BY <1>1, <2>1, <2>2
<1>. QED
  BY <1>2, <1>3, <1>4, <1>5 DEF Next

\* "created" is told by a GET of the snapshot that read it on the machine; no job on
\* snapshots has run since, so the client that polled can start from it.
THEOREM CreatedSnapshotsAreThere == Spec => CreatedSnapshotsExist
<1>1. Init => SnapshotInv
  BY DEF Init, SnapshotInv
<1>2. Inv /\ QuietInv /\ SnapshotInv /\ [Next]_vars =>
          [\A s \in Slots :
              pc[s] = "listJobs" /\ sent' = <<"created">> /\ quiet[s]
                  => req[s].arg \in vm.snapshots]_vars
  <2> SUFFICES ASSUME Inv, QuietInv, SnapshotInv, Next,
                      NEW s \in Slots, pc[s] = "listJobs", sent' = <<"created">>, quiet[s]
               PROVE  req[s].arg \in vm.snapshots
    OBVIOUS
  <2>1. PICK t \in Slots : Handle(t)
    BY DEF Next, Arrive, JobSucceeds, JobFails
  <2>2. pc[t] = "listJobs" /\ req[t].arg \in machine[t].snapshots
    BY <2>1, SnapshotSteps
  <2>3. t = s
    <3>1. req[s].op = "getSnapshot" /\ req[t].op = "getSnapshot"
      BY <2>2 DEF SnapshotInv
    <3>2. t # s => Apart(req[s], req[t])
      BY <2>2 DEF QuietInv, RequestsAlone, Busy
    <3>. QED
      BY <3>1, <3>2 DEF Apart
  <2>. QED
    BY <2>2, <2>3 DEF SnapshotInv
<1>. QED
  BY <1>1, <1>2, SnapshotNext, SpecQuietInv, PTL DEF Spec, CreatedSnapshotsExist

=============================================================================
