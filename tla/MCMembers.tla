----------------------------- MODULE MCMembers -----------------------------
(***************************************************************************)
(* Instances of Members for TLC.                                           *)
(***************************************************************************)
EXTENDS Members, TLC

Body(members, defaults, policies) ==
    [members |-> members, default_members |-> defaults, policies |-> policies]

MCBodies == {Nothing, Body({{"a"}}, {{"a", "b"}}, {{"a"}}), Body({{}}, {}, {})}

\* What plays no part in the rest of a request is left out: an answer that was sent,
\* which a new request clears, and what was looked up, once it is written. The action
\* properties are evaluated on the steps themselves.
Pending ==
    <<name, roles, pc, req, cache, group, borne, alone,
      [s \in Slots |-> IF pc[s] = "idle" THEN NoAnswer ELSE answer[s]],
      [s \in Slots |-> IF pc[s] \in {Loading[attr] : attr \in Attributes} THEN {} ELSE found[s]]>>

MCPaths == UserIds \cup {"a"}

Symmetry == Permutations(UserIds)

=============================================================================
