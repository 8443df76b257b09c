------------------------------- MODULE MCNics -------------------------------
(***************************************************************************)
(* Instances of Nics for TLC.                                              *)
(***************************************************************************)
EXTENDS Nics, TLC

PoolMembers == [p \in Pools |-> Networks]

AllReachable == [v \in Vms |-> Targets]

\* The server of one machine lacks the tag of one network.
PartlyReachable ==
    LET v == CHOOSE v \in Vms : TRUE
        n == CHOOSE n \in Networks : TRUE
    IN  [w \in Vms |-> IF w = v THEN Targets ELSE Targets \ {n}]

Symmetry == Permutations(Macs) \cup Permutations(JobIds) \cup Permutations(Slots)

=============================================================================
