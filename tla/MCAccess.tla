------------------------------ MODULE MCAccess ------------------------------
(***************************************************************************)
(* An instance of Access for TLC: an account, its sub-user, who has a role *)
(* but not by default, and an operator, whose account is also the one that *)
(* the others have no access to.                                           *)
(***************************************************************************)
EXTENDS Access, TLC

CONSTANTS acct, root, u1, ops

MCInitial ==
    [users |-> {u1}, keys |-> {acct, root, u1}, disabled |-> {}, signing |-> {},
     members |-> {<<u1, ops>>}, defaults |-> {}, rules |-> {<<ops, "GetUser">>}, tags |-> {ops}]

Signed(by, path, asRole, op) ==
    [scheme |-> "signature", by |-> by, current |-> TRUE, path |-> path, asRole |-> asRole, op |-> op]

Basic(by, path, op) ==
    [scheme |-> "basic", by |-> by, current |-> FALSE, path |-> path, asRole |-> {}, op |-> op]

MCRequests ==
    {Signed(u1, root, asRole, "GetUser") : asRole \in {{}, {{ops}}}}
        \cup {Signed(acct, root, {}, "DeleteUser"), Signed(root, acct, {}, "DeleteKey"),
              Basic(acct, "my", "GetUser"), [Basic(root, acct, "GetUser") EXCEPT !.current = TRUE]}

=============================================================================
