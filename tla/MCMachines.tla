----------------------------- MODULE MCMachines -----------------------------
(***************************************************************************)
(* Instances of Machines for TLC.                                          *)
(***************************************************************************)
EXTENDS Machines, TLC

AllOps == UpdateOps \cup {"delete"} \cup MetaOps \cup TagOps \cup SnapshotOps

\* The operations; reboot differs from stop here by its name only.
SomeOps == AllOps \ {"reboot"}

\* The parts of the machine that requests and jobs are about, once for each of them.
InFlight ==
    [s \in {t \in Slots : req[t] # NoRequest} |-> Part(req[s].op)]

PendingJobs ==
    [i \in {j \in DOMAIN jobs : Pending(jobs[j])} |-> Part(jobs[i].req.op)]

\* The parts that are not as create() left them.
Touched ==
    {part \in {"firewall", "metadata", "tags", "snapshots"} :
        CASE part = "firewall" -> vm.firewall
          [] part = "metadata" -> Present(MetaKeys \cup {"uuid"}) # {}
          [] part = "tags" -> Present(TagKeys) # {}
          [] part = "snapshots" -> vm.snapshots # {} \/ \E i \in DOMAIN jobs : ~Pending(jobs[i])}

\* Bound: requests and jobs are about one part of the machine, besides one of them
\* that is about its power. The parts share no state.
OnePartAndPower ==
    /\ Cardinality((Touched \cup Range(InFlight) \cup Range(PendingJobs)) \ {"power"}) <= 1
    /\ Cardinality({s \in DOMAIN InFlight : InFlight[s] = "power"})
           + Cardinality({i \in DOMAIN PendingJobs : PendingJobs[i] = "power"}) <= 1

Symmetry == Permutations(Slots) \cup Permutations(Values)

=============================================================================
