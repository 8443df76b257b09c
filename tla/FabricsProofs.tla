--------------------------- MODULE FabricsProofs ----------------------------
(***************************************************************************)
(* Fabrics for any number of networks and requests: its types, and that    *)
(* the two services agree on the default network.                          *)
(***************************************************************************)
EXTENDS Fabrics, TLAPS

\* Each step belongs to one kind of request, and a request in the chain of its kind
\* has its parameters.
StepsInv ==
    \A s \in Slots :
        /\ pc[s] = "idle" => req[s] = NoRequest /\ known[s] = {}
        /\ pc[s] # "idle" => req[s] \in Request
        /\ pc[s] = "createFabricNetwork" => req[s].op = "create"
        /\ pc[s] = "updateDcLocalConfig" => req[s].op = "update"
        /\ pc[s] \in {"getDcLocalConfig", "deleteFabricNetwork"} => req[s].op = "delete"

TypeInv ==
    /\ fabrics \in [Fabric -> {"unborn", "live", "deleted"}]
    /\ default \in Networks
    /\ pc \in [Slots -> Steps]
    /\ req \in [Slots -> Request \cup {NoRequest}]
    /\ known \in [Slots -> SUBSET Networks]
    /\ contended \subseteq Fabric
    /\ StepsInv

\* Contended networks are known as such while both requests are in flight.
Recorded ==
    \A s, t \in Slots :
        /\ req[s] # NoRequest /\ req[t] # NoRequest
        /\ req[s].op = "update" /\ req[t].op = "delete"
        /\ req[s].network = req[t].network
        => req[s].network \in contended

\* What an UpdateConfig has seen exists when it writes it, or is contended.
Listed ==
    \A s \in Slots :
        pc[s] = "updateDcLocalConfig" /\ req[s].network \in known[s]
            => req[s].network \in Live \cup Shared \cup contended

\* A DELETE that saw another default is not about the default, or is contended.
NotDefault ==
    \A s \in Slots :
        pc[s] = "deleteFabricNetwork" /\ req[s].network \notin known[s]
            => req[s].network # default \/ req[s].network \in contended

Inv == TypeInv /\ Recorded /\ Listed /\ NotDefault /\ DefaultNetworkExists

-----------------------------------------------------------------------------
\* No request is taken for one of the three kinds.
LEMMA RequestFacts ==
    ASSUME NEW r \in Request
    PROVE  /\ r # NoRequest
           /\ r.op \in {"create", "delete", "update"}
           /\ r.network \in Networks
           /\ r.op # "update" => r.network \in Fabric
  BY DEF Request, NoRequest, Networks

LEMMA InitInv == Init => Inv
  BY FabricsAssumption
  DEF Init, Inv, TypeInv, StepsInv, Recorded, Listed, NotDefault, DefaultNetworkExists,
      Live, Networks, Steps, NoRequest

LEMMA TypeStep == TypeInv /\ [Next]_vars => TypeInv'
<1> SUFFICES ASSUME TypeInv, [Next]_vars PROVE TypeInv'
  OBVIOUS
<1> USE DEF TypeInv, StepsInv
<1>1. CASE UNCHANGED vars
  BY <1>1 DEF vars
<1>2. ASSUME NEW s \in Slots, Arrive(s) PROVE TypeInv'
  <2>1. PICK r \in Request :
            /\ req' = [req EXCEPT ![s] = r]
            /\ r.op = "create" \/ r.network \notin Unborn
            /\ contended' = contended \cup
                   {n \in {r.network} : \E t \in Slots : /\ req[t] # NoRequest
                                                         /\ req[t].network = n
                                                         /\ {req[t].op, r.op} = {"update", "delete"}}
    BY <1>2 DEF Arrive
  <2>2. contended' \subseteq Fabric
    <3> SUFFICES ASSUME NEW t \in Slots, req[t] # NoRequest, req[t].network = r.network,
                        {req[t].op, r.op} = {"update", "delete"}
                 PROVE  r.network \in Fabric
      BY <2>1
    <3>1. req[t] \in Request
      OBVIOUS
    <3>2. req[t].op # "update" \/ r.op # "update"
      OBVIOUS
    <3> QED
      BY <3>1, <3>2, RequestFacts
  <2> QED
    BY <1>2, <2>1, <2>2 DEF Arrive, Steps
<1>3. ASSUME NEW s \in Slots, PreLoadNetworks(s) PROVE TypeInv'
  <2>1. pc[s] # "idle" /\ req[s] \in Request
    BY <1>3 DEF PreLoadNetworks
  <2>2. req[s].op \in {"create", "delete", "update"}
    BY <2>1, RequestFacts
  <2>3. CASE Rejected(s)
    BY <2>3 DEF Rejected, End, Steps
  <2>4. CASE ~Rejected(s)
    BY <1>3, <2>1, <2>2, <2>4 DEF PreLoadNetworks, Goto, Steps, Live, Networks
  <2> QED
    BY <2>3, <2>4
<1>4. ASSUME NEW s \in Slots, CreateFabricNetwork(s) PROVE TypeInv'
  BY <1>4 DEF CreateFabricNetwork, Rejected, End, Steps
<1>5. ASSUME NEW s \in Slots, UpdateConfig(s) PROVE TypeInv'
  BY <1>5, RequestFacts DEF UpdateConfig, Rejected, End, Steps
<1>6. ASSUME NEW s \in Slots, GetConfig(s) PROVE TypeInv'
  BY <1>6 DEF GetConfig, Rejected, Goto, End, Steps
<1>7. ASSUME NEW s \in Slots, DeleteFabricNetwork(s) PROVE TypeInv'
  BY <1>7 DEF DeleteFabricNetwork, Rejected, End, Steps
<1> QED
  BY <1>1, <1>2, <1>3, <1>4, <1>5, <1>6, <1>7 DEF Next

\* The type invariant holds for any number of networks and requests: NAPI, UFDS and
\* the requests keep the shapes that the handlers rely on.
THEOREM TypeCorrect == Spec => []TypeOK
<1>1. Init => TypeInv
  BY InitInv DEF Inv
<1>2. TypeInv => TypeOK
  BY DEF TypeInv, TypeOK, StepsInv
<1> QED
  BY <1>1, <1>2, TypeStep, PTL DEF Spec

-----------------------------------------------------------------------------
\* A request that ends, whatever else it does, takes nothing from the invariant.
LEMMA EndStep ==
    ASSUME Inv, TypeInv', NEW s \in Slots, End(s), UNCHANGED <<fabrics, default>>
    PROVE  Inv'
<1>1. \A t \in Slots : t # s => req'[t] = req[t] /\ pc'[t] = pc[t] /\ known'[t] = known[t]
  BY DEF Inv, TypeInv, End
<1>2. pc'[s] = "idle" /\ req'[s] = NoRequest /\ contended' = contended
  BY DEF Inv, TypeInv, End
<1>3. Live' = Live
  BY DEF Live
<1> QED
  BY <1>1, <1>2, <1>3 DEF Inv, Recorded, Listed, NotDefault, DefaultNetworkExists

LEMMA ArriveStep ==
    ASSUME Inv, TypeInv', NEW s \in Slots, Arrive(s)
    PROVE  Inv'
<1>1. PICK r \in Request :
          /\ req' = [req EXCEPT ![s] = r]
          /\ contended' = contended \cup
                 {n \in {r.network} : \E t \in Slots : /\ req[t] # NoRequest
                                                       /\ req[t].network = n
                                                       /\ {req[t].op, r.op} = {"update", "delete"}}
  BY DEF Arrive
<1>2. /\ pc' = [pc EXCEPT ![s] = "preLoadNetworks"]
      /\ pc[s] = "idle" /\ req[s] = NoRequest
      /\ UNCHANGED <<fabrics, default, known>>
  BY DEF Arrive, Inv, TypeInv, StepsInv
<1>3. Live' = Live /\ contended \subseteq contended'
  BY <1>1, <1>2 DEF Live
<1>4. \A t \in Slots : t # s => req'[t] = req[t] /\ pc'[t] = pc[t]
  BY <1>1, <1>2 DEF Inv, TypeInv
<1>5. req'[s] = r /\ pc'[s] = "preLoadNetworks"
  BY <1>1, <1>2 DEF Inv, TypeInv
<1>6. ASSUME NEW t \in Slots, t # s, req[t] # NoRequest, req[t].network = r.network,
             {req[t].op, r.op} = {"update", "delete"}
      PROVE  r.network \in contended'
  BY <1>1, <1>6
<1>7. Recorded'
  <2> SUFFICES ASSUME NEW t \in Slots, NEW u \in Slots,
                      req'[t] # NoRequest, req'[u] # NoRequest,
                      req'[t].op = "update", req'[u].op = "delete",
                      req'[t].network = req'[u].network
               PROVE  req'[t].network \in contended'
    BY DEF Recorded
  <2>1. CASE t = s
    BY <1>4, <1>5, <1>6, <2>1
  <2>2. CASE u = s
    BY <1>4, <1>5, <1>6, <2>2
  <2>3. CASE t # s /\ u # s
    BY <1>3, <1>4, <2>3 DEF Inv, Recorded
  <2> QED
    BY <2>1, <2>2, <2>3
<1> QED
  BY <1>2, <1>3, <1>4, <1>5, <1>7 DEF Inv, Listed, NotDefault, DefaultNetworkExists

LEMMA PreLoadNetworksStep ==
    ASSUME Inv, TypeInv', NEW s \in Slots, PreLoadNetworks(s)
    PROVE  Inv'
<1>1. CASE Rejected(s)
  BY <1>1, EndStep DEF Rejected
<1>2. CASE ~Rejected(s)
  <2>1. /\ pc[s] = "preLoadNetworks" /\ req[s] \in Request
        /\ known' = [known EXCEPT ![s] = IF req[s].op = "update" THEN Live \cup Shared ELSE {}]
        /\ UNCHANGED <<fabrics, default, req, contended>>
        /\ pc' = [pc EXCEPT ![s] =
               CASE req[s].op = "create" -> "createFabricNetwork"
                 [] req[s].op = "update" -> "updateDcLocalConfig"
                 [] req[s].op = "delete" -> "getDcLocalConfig"]
    BY <1>2 DEF PreLoadNetworks, Goto, Inv, TypeInv, StepsInv
  <2>2. \A t \in Slots : t # s => pc'[t] = pc[t] /\ known'[t] = known[t]
    BY <2>1 DEF Inv, TypeInv
  <2>3. known'[s] \subseteq Live \cup Shared /\ pc'[s] # "deleteFabricNetwork"
    BY <2>1, RequestFacts DEF Inv, TypeInv
  <2>4. Live' = Live
    BY <2>1 DEF Live
  <2> QED
    BY <2>1, <2>2, <2>3, <2>4 DEF Inv, Recorded, Listed, NotDefault, DefaultNetworkExists
<1> QED
  BY <1>1, <1>2

LEMMA CreateFabricNetworkStep ==
    ASSUME Inv, TypeInv', NEW s \in Slots, CreateFabricNetwork(s)
    PROVE  Inv'
<1>1. CASE Rejected(s)
  BY <1>1, EndStep DEF Rejected
<1>2. CASE ~Rejected(s)
  <2>1. /\ fabrics' = [fabrics EXCEPT ![req[s].network] = "live"]
        /\ End(s) /\ default' = default
    BY <1>2 DEF CreateFabricNetwork
  <2>2. Live \subseteq Live'
    BY <2>1 DEF Live, Inv, TypeInv
  <2>3. \A t \in Slots : t # s => req'[t] = req[t] /\ pc'[t] = pc[t] /\ known'[t] = known[t]
    BY <2>1 DEF Inv, TypeInv, End
  <2>4. pc'[s] = "idle" /\ req'[s] = NoRequest /\ contended' = contended
    BY <2>1 DEF Inv, TypeInv, End
  <2> QED
    BY <2>1, <2>2, <2>3, <2>4 DEF Inv, Recorded, Listed, NotDefault, DefaultNetworkExists
<1> QED
  BY <1>1, <1>2

LEMMA UpdateConfigStep ==
    ASSUME Inv, TypeInv', NEW s \in Slots, UpdateConfig(s)
    PROVE  Inv'
<1>1. CASE default' # default
  <2>1. /\ pc[s] = "updateDcLocalConfig" /\ req[s].network \in known[s]
        /\ default' = req[s].network /\ End(s) /\ fabrics' = fabrics
    BY <1>1 DEF UpdateConfig, Rejected
  <2>2. req[s].op = "update" /\ req[s] # NoRequest
    BY <2>1, RequestFacts DEF Inv, TypeInv, StepsInv
  <2>3. \A t \in Slots : t # s => req'[t] = req[t] /\ pc'[t] = pc[t] /\ known'[t] = known[t]
    BY <2>1 DEF Inv, TypeInv, End
  <2>4. pc'[s] = "idle" /\ req'[s] = NoRequest /\ contended' = contended /\ Live' = Live
    BY <2>1 DEF Inv, TypeInv, End, Live
  <2>5. NotDefault'
    <3> SUFFICES ASSUME NEW t \in Slots, t # s, pc[t] = "deleteFabricNetwork",
                        req[t].network = req[s].network
                 PROVE  req[t].network \in contended
      BY <2>1, <2>3, <2>4 DEF NotDefault
    <3>1. req[t].op = "delete" /\ req[t] # NoRequest
      BY RequestFacts DEF Inv, TypeInv, StepsInv
    <3> QED
      BY <2>2, <3>1 DEF Inv, Recorded
  <2>6. DefaultNetworkExists'
    BY <2>1, <2>4 DEF Inv, Listed, DefaultNetworkExists
  <2> QED
    BY <2>3, <2>4, <2>5, <2>6 DEF Inv, Recorded, Listed
<1>2. CASE default' = default
  BY <1>2, EndStep DEF UpdateConfig, Rejected
<1> QED
  BY <1>1, <1>2

LEMMA GetConfigStep ==
    ASSUME Inv, TypeInv', NEW s \in Slots, GetConfig(s)
    PROVE  Inv'
<1>1. CASE Rejected(s)
  BY <1>1, EndStep DEF Rejected
<1>2. CASE ~Rejected(s)
  <2>1. /\ known' = [known EXCEPT ![s] = {default}]
        /\ pc' = [pc EXCEPT ![s] = "deleteFabricNetwork"]
        /\ UNCHANGED <<fabrics, default, req, contended>>
    BY <1>2 DEF GetConfig, Goto
  <2>2. \A t \in Slots : t # s => pc'[t] = pc[t] /\ known'[t] = known[t]
    BY <2>1 DEF Inv, TypeInv
  <2>3. known'[s] = {default} /\ pc'[s] = "deleteFabricNetwork" /\ Live' = Live
    BY <2>1 DEF Inv, TypeInv, Live
  <2> QED
    BY <2>1, <2>2, <2>3 DEF Inv, Recorded, Listed, NotDefault, DefaultNetworkExists
<1> QED
  BY <1>1, <1>2

LEMMA DeleteFabricNetworkStep ==
    ASSUME Inv, TypeInv', NEW s \in Slots, DeleteFabricNetwork(s)
    PROVE  Inv'
<1>1. CASE fabrics' = fabrics
  BY <1>1, EndStep DEF DeleteFabricNetwork, Rejected
<1>2. CASE fabrics' # fabrics
  <2>1. /\ pc[s] = "deleteFabricNetwork" /\ req[s].network \in Live \ known[s]
        /\ fabrics' = [fabrics EXCEPT ![req[s].network] = "deleted"]
        /\ End(s) /\ default' = default
    BY <1>2 DEF DeleteFabricNetwork, Rejected
  <2>2. req[s].op = "delete" /\ req[s] # NoRequest
    BY <2>1, RequestFacts DEF Inv, TypeInv, StepsInv
  <2>3. \A t \in Slots : t # s => req'[t] = req[t] /\ pc'[t] = pc[t] /\ known'[t] = known[t]
    BY <2>1 DEF Inv, TypeInv, End
  <2>4. pc'[s] = "idle" /\ req'[s] = NoRequest /\ contended' = contended
    BY <2>1 DEF Inv, TypeInv, End
  <2>5. Live \ {req[s].network} \subseteq Live'
    BY <2>1 DEF Inv, TypeInv, Live
  <2>6. Listed'
    <3> SUFFICES ASSUME NEW t \in Slots, t # s, pc[t] = "updateDcLocalConfig",
                        req[t].network \in known[t]
                 PROVE  req[t].network \in Live' \cup Shared \cup contended
      BY <2>3, <2>4 DEF Listed
    <3>1. req[t].op = "update" /\ req[t] # NoRequest
      BY RequestFacts DEF Inv, TypeInv, StepsInv
    <3>2. CASE req[t].network = req[s].network
      BY <2>2, <3>1, <3>2 DEF Inv, Recorded
    <3>3. CASE req[t].network # req[s].network
      BY <2>5, <3>3 DEF Inv, Listed
    <3> QED
      BY <3>2, <3>3
  <2>7. DefaultNetworkExists'
    BY <2>1, <2>4, <2>5 DEF Inv, NotDefault, DefaultNetworkExists
  <2>8. Recorded' /\ NotDefault'
    BY <2>1, <2>3, <2>4 DEF Inv, Recorded, NotDefault
  <2> QED
    BY <2>6, <2>7, <2>8 DEF Inv
<1> QED
  BY <1>1, <1>2

LEMMA InvStep == Inv /\ [Next]_vars => Inv'
<1> SUFFICES ASSUME Inv, [Next]_vars PROVE Inv'
  OBVIOUS
<1>1. TypeInv'
  BY TypeStep DEF Inv
<1>2. CASE UNCHANGED vars
  BY <1>2 DEF vars, Inv, TypeInv, StepsInv, Recorded, Listed, NotDefault,
              DefaultNetworkExists, Live
<1>3. CASE Next
  BY <1>1, <1>3, ArriveStep, PreLoadNetworksStep, CreateFabricNetworkStep,
     UpdateConfigStep, GetConfigStep, DeleteFabricNetworkStep DEF Next
<1> QED
  BY <1>2, <1>3

\* For any number of networks and requests, UFDS never names a default network that
\* NAPI no longer has, except one that was deleted while a request in flight at the
\* same time made it the default: the order of reads and writes in updateConfig() and
\* deleteFabricNetwork() leaves that race only.
THEOREM DefaultStays == Spec => []DefaultNetworkExists
<1>1. Inv => DefaultNetworkExists
  BY DEF Inv
<1> QED
  BY <1>1, InitInv, InvStep, PTL DEF Spec

=============================================================================
