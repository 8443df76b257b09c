------------------------------ MODULE Fabrics -------------------------------
(***************************************************************************)
(* The fabric networks of an account in NAPI, and the account's default    *)
(* network in UFDS: lib/networks.js and lib/config.js. Two services that   *)
(* know nothing of each other, kept consistent by what a handler reads     *)
(* from one before it writes to the other.                                 *)
(***************************************************************************)
CONSTANTS
    Slots,    \* requests in flight at once
    Fabric,   \* uuids of fabric networks, never used twice
    Shared    \* networks and pools of the operator, which stay

ASSUME FabricsAssumption == Fabric \cap Shared = {}

Networks == Fabric \cup Shared

VARIABLES
    fabrics,    \* NAPI: whether each network exists
    default,    \* UFDS: the default network
    pc,         \* the next call of each request
    req,        \* each request's parameters
    known,      \* req.networks of an UpdateConfig; conf.default_network of a DELETE
    contended   \* history: networks deleted and made the default at the same time

vars == <<fabrics, default, pc, req, known, contended>>

Request == [op: {"create"}, network: Fabric]
               \cup [op: {"delete"}, network: Fabric]
               \cup [op: {"update"}, network: Networks]

NoRequest == [op |-> "none"]

Steps == {"idle", "preLoadNetworks", "createFabricNetwork", "updateDcLocalConfig",
          "getDcLocalConfig", "deleteFabricNetwork"}

Unborn == {n \in Fabric : fabrics[n] = "unborn"}

Live == {n \in Fabric : fabrics[n] = "live"}

-----------------------------------------------------------------------------
\* An account gets a default network before it can change it.
Init ==
    /\ fabrics \in [Fabric -> {"unborn", "live"}]
    /\ default \in Live \cup Shared
    /\ pc = [s \in Slots |-> "idle"]
    /\ req = [s \in Slots |-> NoRequest]
    /\ known = [s \in Slots |-> {}]
    /\ contended = {}

Goto(s, step) ==
    /\ pc' = [pc EXCEPT ![s] = step]
    /\ UNCHANGED <<fabrics, default, req, contended>>

\* Mutant: the next request finds what the last one knew.
EndKnowing(s) ==
    /\ pc' = [pc EXCEPT ![s] = "idle"]
    /\ req' = [req EXCEPT ![s] = NoRequest]
    /\ UNCHANGED <<known, contended>>

End(s) ==
    /\ pc' = [pc EXCEPT ![s] = "idle"]
    /\ req' = [req EXCEPT ![s] = NoRequest]
    /\ known' = [known EXCEPT ![s] = {}]
    /\ UNCHANGED contended

\* A call fails. (If only its reply is lost, the rest is as if it was not.)
Rejected(s) ==
    /\ End(s)
    /\ UNCHANGED <<fabrics, default>>

\* NAPI makes up the uuid of a new network.
Arrive(s) ==
    /\ pc[s] = "idle"
    /\ \E r \in Request :
        /\ IF r.op = "create"
           THEN r.network \in Unborn /\ \A t \in Slots : req[t] # r
           ELSE r.network \notin Unborn
        /\ req' = [req EXCEPT ![s] = r]
        /\ contended' = contended \cup
               {n \in {r.network} : \E t \in Slots : /\ req[t] # NoRequest
                                                     /\ req[t].network = n
                                                     /\ {req[t].op, r.op} = {"update", "delete"}}
    /\ pc' = [pc EXCEPT ![s] = "preLoadNetworks"]
    /\ UNCHANGED <<fabrics, default, known>>

\* In the chain of each of these routes; only UpdateConfig uses what it lists.
PreLoadNetworks(s) ==
    /\ pc[s] = "preLoadNetworks"
    /\ \/ Rejected(s)
       \/ /\ known' = [known EXCEPT ![s] = IF req[s].op = "update" THEN Live \cup Shared ELSE {}]
          /\ Goto(s, CASE req[s].op = "create" -> "createFabricNetwork"
                       [] req[s].op = "update" -> "updateDcLocalConfig"
                       [] req[s].op = "delete" -> "getDcLocalConfig")

CreateFabricNetwork(s) ==
    /\ pc[s] = "createFabricNetwork"
    /\ \/ Rejected(s)
       \/ /\ fabrics' = [fabrics EXCEPT ![req[s].network] = "live"]
          /\ End(s)
          /\ UNCHANGED default

\* Mutant: no check of the network.
UpdateConfigUnchecked(s) ==
    /\ pc[s] = "updateDcLocalConfig"
    /\ \/ Rejected(s)
       \/ default' = req[s].network /\ End(s) /\ UNCHANGED fabrics

\* An unknown network is refused.
UpdateConfig(s) ==
    /\ pc[s] = "updateDcLocalConfig"
    /\ \/ Rejected(s)
       \/ req[s].network \notin known[s] /\ End(s) /\ UNCHANGED <<fabrics, default>>
       \/ /\ req[s].network \in known[s]
          /\ default' = req[s].network
          /\ End(s)
          /\ UNCHANGED fabrics

GetConfig(s) ==
    /\ pc[s] = "getDcLocalConfig"
    /\ \/ Rejected(s)
       \/ /\ known' = [known EXCEPT ![s] = {default}]
          /\ Goto(s, "deleteFabricNetwork")

\* The default network is refused; NAPI has no network to delete if another request
\* was faster.
DeleteFabricNetwork(s) ==
    /\ pc[s] = "deleteFabricNetwork"
    /\ \/ Rejected(s)
       \/ /\ req[s].network \in known[s] \cup (Fabric \ Live)
          /\ End(s)
          /\ UNCHANGED <<fabrics, default>>
       \/ /\ req[s].network \in Live \ known[s]
          /\ fabrics' = [fabrics EXCEPT ![req[s].network] = "deleted"]
          /\ End(s)
          /\ UNCHANGED default

Next ==
    \E s \in Slots :
        \/ Arrive(s)
        \/ PreLoadNetworks(s)
        \/ CreateFabricNetwork(s)
        \/ UpdateConfig(s)
        \/ GetConfig(s)
        \/ DeleteFabricNetwork(s)

Spec == Init /\ [][Next]_vars

-----------------------------------------------------------------------------
(* Properties. *)

TypeOK ==
    /\ fabrics \in [Fabric -> {"unborn", "live", "deleted"}]
    /\ default \in Networks
    /\ pc \in [Slots -> Steps]
    /\ req \in [Slots -> Request \cup {NoRequest}]
    /\ known \in [Slots -> SUBSET Networks]
    /\ \A s \in Slots : pc[s] = "idle" => req[s] = NoRequest /\ known[s] = {}
    /\ contended \subseteq Fabric

\* The default network exists, whatever other requests run at the same time, unless
\* it was deleted while it was being made the default.
DefaultNetworkExists == default \in Live \cup Shared \cup contended

=============================================================================
