------------------------------ MODULE MCRoles ------------------------------
(***************************************************************************)
(* Instances of Roles for TLC: bodies with a name, with policies, with     *)
(* both and with neither.                                                  *)
(***************************************************************************)
EXTENDS Roles, TLC

CONSTANTS r1, r2, p1

NoChange == [name |-> {}, policies |-> {}]

Naming(n) == [name |-> {n}, policies |-> {}]

MCBodies == {NoChange, Naming("ops"), Naming("administrator"),
             [name |-> {"administrator"}, policies |-> {{p1}}],
             [name |-> {}, policies |-> {{p1}}]}

MCTagLists == {{"ops"}}

MCCallers == {{}, {{r1}}}

Symmetry == Permutations(Slots) \cup Permutations(Uuids)

=============================================================================
