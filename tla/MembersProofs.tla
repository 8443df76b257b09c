--------------------------- MODULE MembersProofs ---------------------------
(***************************************************************************)
(* Members for any users, policies, roles and requests: its types, that a  *)
(* role is given only what went by the names asked for, that an answer     *)
(* names each member as it was called during the request, and what the     *)
(* requests that nobody disturbs answer.                                   *)
(***************************************************************************)
EXTENDS Members, TLAPS

RoleSteps == {"_getPolicies", "_getMembers", "_getDefaultMembers", "addRole", "getRole",
              "modifyRole", "_loadMembers", "_loadDefaultMembers", "_loadPolicies"}

UserSteps == {"getUser", "updateUser", "answerUser", "roles", "defaultRoles"}

\* Steps before the role is at hand whose references are translated.
Before == {"_getPolicies", "_getMembers", "_getDefaultMembers", "addRole", "getRole",
           "modifyRole"}

Fits(r, step) ==
    /\ step = "idle" => r = NoRequest
    /\ step \in RoleSteps => r \in RoleRequest
    /\ step \in UserSteps => r \in UserRequest

Kinds == {"users", "policies"}

IdsIn(kind) == IF kind = "policies" THEN PolicyIds ELSE UserIds

\* A table finds each record under its id or its name, and only records of its kind.
TableAt(s, kind) ==
    \A k \in DOMAIN cache[s][kind] :
        /\ cache[s][kind][k] \in Found
        /\ k \in {cache[s][kind][k].id, cache[s][kind][k].name}
        /\ cache[s][kind][k].id \in IdsIn(kind)

FoundIn(attr) == {f \in Found : f.id \in IdsOf(attr)}

Answer ==
    [code: {"none", "200", "404", "409", "error"},
     names: [Attributes -> SUBSET (Names \cup Found \cup RoleIds)]]

TypeInv ==
    /\ name \in [Ids -> Names \cup {"unborn", "deleted"}]
    /\ roles \in [RoleIds -> [state: {"unborn", "live", "deleted"}, refs: Refs]]
    /\ pc \in [Slots -> Steps]
    /\ req \in [Slots -> RoleRequest \cup UserRequest \cup {NoRequest}]
    /\ \A s \in Slots : Fits(req[s], pc[s])
    /\ DOMAIN cache = Slots
    /\ \A s \in Slots : DOMAIN cache[s] = Kinds /\ \A kind \in Kinds : TableAt(s, kind)
    /\ found \in [Slots -> [Attributes -> SUBSET Found]]
    /\ \A s \in Slots : \A attr \in Attributes : found[s][attr] \subseteq FoundIn(attr)
    /\ group \in [Slots -> Refs]
    /\ answer \in [Slots -> Answer]
    /\ borne \in [Slots -> SUBSET Found]
    /\ alone \in [Slots -> BOOLEAN]

\* The history of a request on a role covers everything that it knows.
RoleAt(s) ==
    /\ Current \subseteq borne[s]
    /\ \A kind \in Kinds : \A k \in DOMAIN cache[s][kind] : cache[s][kind][k] \in borne[s]
    /\ \A attr \in Attributes : \A f \in found[s][attr] :
        f \in borne[s] /\ f.name \in UNION req[s].names[attr]
    /\ pc[s] \in Before => answer[s].names = Nothing
    /\ \A attr \in Attributes : \A n \in answer[s].names[attr] :
        \E o \in group[s][attr] : [id |-> o, name |-> n] \in borne[s]

IdleAt(s) == cache[s] = EmptyCache /\ found[s] = Nothing /\ group[s] = Nothing

Inv ==
    /\ TypeInv
    /\ \A s \in Slots : pc[s] \in RoleSteps => RoleAt(s)
    /\ \A s \in Slots : pc[s] = "idle" => IdleAt(s)

-----------------------------------------------------------------------------
\* Names are no ids, and each attribute has ids of one kind.
LEMMA KindFacts ==
    /\ \A n \in Names : n \notin Ids
    /\ \A attr \in Attributes :
        /\ IdsIn(TableOf(attr)) = IdsOf(attr) /\ TableOf(attr) \in Kinds
        /\ IdsOf(attr) \subseteq Ids
        /\ Getting[attr] \in {"_getPolicies", "_getMembers", "_getDefaultMembers"}
        /\ Loading[attr] \in {"_loadMembers", "_loadDefaultMembers", "_loadPolicies"}
  BY MembersAssumption
  DEF Attributes, IdsIn, TableOf, IdsOf, Kinds, Ids, Getting, Loading

LEMMA StepFacts ==
    /\ RoleSteps \subseteq Steps /\ UserSteps \subseteq Steps /\ Before \subseteq RoleSteps
    /\ RoleSteps \cap UserSteps = {} /\ "idle" \in Steps
    /\ "idle" \notin RoleSteps \cup UserSteps
    /\ Steps = RoleSteps \cup UserSteps \cup {"idle"}
  BY DEF RoleSteps, UserSteps, Steps, Before

LEMMA RequestFacts ==
    /\ \A r \in RoleRequest :
        /\ r.op \in RoleOps /\ r.role \in RoleIds /\ r.names \in Bodies
        /\ r.names \in [Attributes -> Optional(SUBSET Names)]
        /\ \A attr \in Attributes : UNION r.names[attr] \subseteq Names
    /\ \A r \in UserRequest : r.op \notin RoleOps /\ r.path \in UserIds \cup Names /\ r.login \subseteq Names
    /\ NoRequest.op \notin RoleOps
<1>1. ASSUME NEW r \in RoleRequest
      PROVE  /\ r.op \in RoleOps /\ r.role \in RoleIds /\ r.names \in Bodies
             /\ r.names \in [Attributes -> Optional(SUBSET Names)]
             /\ \A attr \in Attributes : UNION r.names[attr] \subseteq Names
  <2>1. r.op \in RoleOps /\ r.role \in RoleIds /\ r.names \in Bodies
    BY DEF RoleRequest
  <2>2. r.names \in [Attributes -> Optional(SUBSET Names)]
    BY <2>1, MembersAssumption
  <2>3. \A attr \in Attributes : r.names[attr] \in Optional(SUBSET Names)
    BY <2>2
  <2> QED
    BY <2>1, <2>2, <2>3 DEF Optional
<1>2. ASSUME NEW r \in UserRequest
      PROVE  r.op \notin RoleOps /\ r.path \in UserIds \cup Names /\ r.login \subseteq Names
  <2>1. r.op \in {"updateUser", "getUser"} /\ r.path \in Paths /\ r.login \in Optional(Logins)
    BY DEF UserRequest
  <2> QED
    BY <2>1, MembersAssumption DEF RoleOps, Optional
<1> QED
  BY <1>1, <1>2 DEF NoRequest, RoleOps

LEMMA NothingFacts ==
    /\ Nothing \in [Attributes -> SUBSET Found] /\ Nothing \in Refs
    /\ Nothing \in [Attributes -> SUBSET (Names \cup Found \cup RoleIds)]
    /\ \A attr \in Attributes : Nothing[attr] = {}
    /\ DOMAIN EmptyCache = Kinds /\ \A kind \in Kinds : DOMAIN EmptyCache[kind] = {}
    /\ NoAnswer \in Answer
  BY DEF Nothing, Refs, EmptyCache, Kinds, NoAnswer, Answer

\* What is in a table after it took in the records of a search.
LEMMA StoreFacts ==
    ASSUME NEW table, NEW records,
           NEW k \in DOMAIN Store(table, records)
    PROVE  \/ Store(table, records)[k] \in records
                /\ k \in {Store(table, records)[k].id, Store(table, records)[k].name}
           \/ k \in DOMAIN table /\ Store(table, records)[k] = table[k]
<1>1. /\ k \in DOMAIN table \cup {f.id : f \in records} \cup {f.name : f \in records}
      /\ Store(table, records)[k] =
            (IF \E f \in records : k \in {f.id, f.name}
             THEN CHOOSE f \in records : k \in {f.id, f.name}
             ELSE table[k])
  BY DEF Store
<1>2. CASE \E f \in records : k \in {f.id, f.name}
  BY <1>1, <1>2
<1>3. CASE ~\E f \in records : k \in {f.id, f.name}
  BY <1>1, <1>3
<1> QED
  BY <1>2, <1>3

LEMMA SearchFacts ==
    ASSUME TypeInv, NEW attr \in Attributes, NEW by \in {"id", "name"}, NEW keys
    PROVE  /\ Current \subseteq Found
           /\ Search(attr, by, keys) \subseteq FoundIn(attr) \cap Current
           /\ \A f \in Search(attr, by, keys) : f[by] \in keys
<1>1. Current \subseteq Found
  BY DEF Current, Live, Found, TypeInv
<1> QED
  BY <1>1 DEF Search, FoundIn

\* What preloadUsers() and preloadPolicies() return is of the kind asked for, goes by
\* the keys, and is from the cache or as UFDS has it.
LEMMA LoadedFacts ==
    ASSUME TypeInv, NEW s \in Slots, NEW attr \in Attributes, NEW by \in {"id", "name"}, NEW keys,
           by = "id" => keys \subseteq Ids, by = "name" => keys \subseteq Names,
           NEW f \in Loaded(s, attr, by, keys)
    PROVE  /\ f \in FoundIn(attr) /\ f[by] \in keys
           /\ \/ f \in Current
              \/ \E k \in DOMAIN cache[s][TableOf(attr)] : f = cache[s][TableOf(attr)][k]
<1>1. CASE f \in Search(attr, by, Missing(s, attr, keys))
  BY <1>1, SearchFacts DEF Missing
<1>2. CASE f \in {cache[s][TableOf(attr)][k] : k \in keys \ Missing(s, attr, keys)}
  <2>1. PICK k \in keys : k \in DOMAIN cache[s][TableOf(attr)] /\ f = cache[s][TableOf(attr)][k]
    BY <1>2 DEF Missing
  <2>2. TableAt(s, TableOf(attr))
    BY KindFacts DEF TypeInv
  <2>3. f \in Found /\ k \in {f.id, f.name} /\ f.id \in IdsOf(attr)
    BY <2>1, <2>2, KindFacts DEF TableAt
  <2>4. f.id \in Ids /\ f.name \in Names
    BY <2>3 DEF Found
  <2>5. f[by] = k
    BY <2>1, <2>3, <2>4, KindFacts
  <2> QED
    BY <2>1, <2>3, <2>5 DEF FoundIn
<1> QED
  BY <1>1, <1>2 DEF Loaded

NameType == name \in [Ids -> Names \cup {"unborn", "deleted"}]

RolesType == roles \in [RoleIds -> [state: {"unborn", "live", "deleted"}, refs: Refs]]

HistoryType == borne \in [Slots -> SUBSET Found] /\ alone \in [Slots -> BOOLEAN]

\* A step of one request.
LEMMA StepType ==
    ASSUME TypeInv, NEW s \in Slots, NameType', RolesType', HistoryType',
           NEW step \in Steps, pc' = [pc EXCEPT ![s] = step],
           NEW r \in RoleRequest \cup UserRequest \cup {NoRequest},
           req' = [req EXCEPT ![s] = r], Fits(r, step),
           DOMAIN cache' = Slots, \A t \in Slots : t # s => cache'[t] = cache[t],
           DOMAIN cache'[s] = Kinds, \A kind \in Kinds : TableAt(s, kind)',
           found' \in [Slots -> [Attributes -> SUBSET Found]],
           \A t \in Slots : t # s => found'[t] = found[t],
           \A attr \in Attributes : found'[s][attr] \subseteq FoundIn(attr),
           group' \in [Slots -> Refs], answer' \in [Slots -> Answer]
    PROVE  TypeInv'
<1>1. /\ pc' \in [Slots -> Steps]
      /\ req' \in [Slots -> RoleRequest \cup UserRequest \cup {NoRequest}]
      /\ \A t \in Slots : Fits(req'[t], pc'[t])
  BY DEF TypeInv
<1>2. ASSUME NEW t \in Slots, t # s
      PROVE  DOMAIN cache'[t] = Kinds /\ \A kind \in Kinds : TableAt(t, kind)'
  <2>1. DOMAIN cache[t] = Kinds /\ (\A kind \in Kinds : TableAt(t, kind)) /\ cache'[t] = cache[t]
    BY <1>2 DEF TypeInv
  <2> QED
    BY <2>1 DEF TableAt
<1>3. \A t \in Slots : DOMAIN cache'[t] = Kinds /\ \A kind \in Kinds : TableAt(t, kind)'
  BY <1>2
<1>4. \A t \in Slots : \A attr \in Attributes : found'[t][attr] \subseteq FoundIn(attr)
  BY DEF TypeInv
<1> QED
  BY <1>1, <1>3, <1>4 DEF TypeInv, NameType, RolesType, HistoryType

LEMMA TypeFacts ==
    ASSUME TypeInv
    PROVE  NameType /\ RolesType /\ HistoryType
  BY DEF TypeInv, NameType, RolesType, HistoryType

LEMMA WitnessType ==
    ASSUME TypeInv, NameType', NEW others, Witness(others)
    PROVE  HistoryType' /\ Current' \subseteq Found
<1>1. Current' \subseteq Found
  BY DEF NameType, Current, Live, Found
<1>2. borne' \in [Slots -> SUBSET Found]
  BY <1>1 DEF Witness, TypeInv
<1>3. alone' \in [Slots -> BOOLEAN]
  BY DEF Witness, TypeInv
<1> QED
  BY <1>1, <1>2, <1>3 DEF HistoryType

LEMMA EndType ==
    ASSUME TypeInv, NEW s \in Slots, NEW code, NEW names, End(s, code, names), UNCHANGED ufds,
           [code |-> code, names |-> names] \in Answer
    PROVE  TypeInv'
<1>1. NameType' /\ RolesType'
  BY TypeFacts DEF NameType, RolesType, ufds
<1>2. HistoryType'
  BY DEF HistoryType, End, TypeInv
<1>3. /\ DOMAIN cache' = Slots /\ \A t \in Slots : t # s => cache'[t] = cache[t]
      /\ cache'[s] = EmptyCache
  BY DEF End, Forget, TypeInv
<1>4. DOMAIN cache'[s] = Kinds /\ \A kind \in Kinds : TableAt(s, kind)'
  BY <1>3, NothingFacts DEF TableAt
<1>5. /\ found' \in [Slots -> [Attributes -> SUBSET Found]] /\ group' \in [Slots -> Refs]
      /\ \A t \in Slots : t # s => found'[t] = found[t]
      /\ \A attr \in Attributes : found'[s][attr] \subseteq FoundIn(attr)
  BY NothingFacts DEF End, Forget, TypeInv
<1>6. answer' \in [Slots -> Answer]
  BY DEF End, TypeInv
<1>7. Fits(NoRequest, "idle") /\ "idle" \in Steps
  BY StepFacts DEF Fits
<1> QED
  BY <1>1, <1>2, <1>3, <1>4, <1>5, <1>6, <1>7, StepType DEF End

LEMMA RefuseType ==
    ASSUME TypeInv, NEW s \in Slots, NEW code \in {"404", "409", "error"}, Refuse(s, code)
    PROVE  TypeInv'
<1>1. [code |-> code, names |-> Nothing] \in Answer
  BY NothingFacts DEF Answer
<1> QED
  BY <1>1, EndType DEF Refuse

LEMMA FailType ==
    ASSUME TypeInv, NEW s \in Slots, NEW call, Fail(s, call)
    PROVE  TypeInv'
  BY RefuseType DEF Fail

LEMMA BeginType ==
    ASSUME TypeInv, NEW s \in Slots, NEW r \in RoleRequest \cup UserRequest, NEW step \in Steps,
           Fits(r, step), Begin(s, r, step)
    PROVE  TypeInv'
<1>1. NameType' /\ RolesType' /\ Current \subseteq Found
  BY TypeFacts DEF NameType, RolesType, Begin, ufds, Current, Live, Found
<1>2. HistoryType'
  BY <1>1 DEF HistoryType, Begin, TypeInv
<1>3. /\ DOMAIN cache' = Slots /\ DOMAIN cache'[s] = Kinds
      /\ \A t \in Slots : t # s => cache'[t] = cache[t] /\ found'[t] = found[t]
      /\ \A kind \in Kinds : TableAt(s, kind)'
  BY DEF Begin, TypeInv, TableAt
<1>4. /\ found' \in [Slots -> [Attributes -> SUBSET Found]] /\ group' \in [Slots -> Refs]
      /\ \A attr \in Attributes : found'[s][attr] \subseteq FoundIn(attr)
      /\ answer' \in [Slots -> Answer]
  BY NothingFacts DEF Begin, TypeInv
<1> QED
  BY <1>1, <1>2, <1>3, <1>4, StepType DEF Begin

\* The request goes on; what is not said of its variables stays.
LEMMA GoType ==
    ASSUME TypeInv, NEW s \in Slots, NameType', RolesType', HistoryType',
           NEW step \in Steps, Goto(s, step), Fits(req[s], step), req' = req,
           DOMAIN cache' = Slots, \A t \in Slots : t # s => cache'[t] = cache[t],
           DOMAIN cache'[s] = Kinds, \A kind \in Kinds : TableAt(s, kind)',
           found' \in [Slots -> [Attributes -> SUBSET Found]],
           \A t \in Slots : t # s => found'[t] = found[t],
           \A attr \in Attributes : found'[s][attr] \subseteq FoundIn(attr),
           group' \in [Slots -> Refs], answer' \in [Slots -> Answer]
    PROVE  TypeInv'
<1>1. /\ req[s] \in RoleRequest \cup UserRequest \cup {NoRequest}
      /\ req' = [req EXCEPT ![s] = req[s]] /\ pc' = [pc EXCEPT ![s] = step]
  BY DEF TypeInv, Goto
<1> QED
  BY <1>1, StepType

\* What a request knew, when it stays.
LEMMA SameType ==
    ASSUME TypeInv, NEW s \in Slots
    PROVE  /\ UNCHANGED cache =>
                /\ DOMAIN cache' = Slots /\ \A t \in Slots : t # s => cache'[t] = cache[t]
                /\ DOMAIN cache'[s] = Kinds /\ \A kind \in Kinds : TableAt(s, kind)'
           /\ UNCHANGED found =>
                /\ found' \in [Slots -> [Attributes -> SUBSET Found]]
                /\ \A t \in Slots : t # s => found'[t] = found[t]
                /\ \A attr \in Attributes : found'[s][attr] \subseteq FoundIn(attr)
           /\ UNCHANGED group => group' \in [Slots -> Refs]
           /\ UNCHANGED answer => answer' \in [Slots -> Answer]
           /\ UNCHANGED ufds => NameType' /\ RolesType'
           /\ UNCHANGED history => HistoryType'
  BY TypeFacts DEF TypeInv, TableAt, ufds, history, NameType, RolesType, HistoryType

\* The tables after what was loaded was cached.
LEMMA CacheType ==
    ASSUME TypeInv, NEW s \in Slots, NEW attr \in Attributes, NEW by \in {"id", "name"}, NEW keys,
           CacheLoaded(s, attr, by, keys)
    PROVE  /\ DOMAIN cache' = Slots /\ \A t \in Slots : t # s => cache'[t] = cache[t]
           /\ DOMAIN cache'[s] = Kinds /\ \A kind \in Kinds : TableAt(s, kind)'
           /\ \A kind \in Kinds : \A k \in DOMAIN cache'[s][kind] :
                \/ cache'[s][kind][k] \in Current
                \/ k \in DOMAIN cache[s][kind] /\ cache'[s][kind][k] = cache[s][kind][k]
<1> DEFINE kind0 == TableOf(attr)
           searched == Search(attr, by, Missing(s, attr, keys))
<1>1. DOMAIN cache = Slots /\ DOMAIN cache[s] = Kinds /\ kind0 \in Kinds
  BY KindFacts DEF TypeInv
<1>2. /\ DOMAIN cache' = Slots /\ \A t \in Slots : t # s => cache'[t] = cache[t]
      /\ DOMAIN cache'[s] = Kinds
      /\ cache'[s][kind0] = Store(cache[s][kind0], searched)
      /\ \A kind \in Kinds : kind # kind0 => cache'[s][kind] = cache[s][kind]
  BY <1>1 DEF CacheLoaded
<1>3. searched \subseteq FoundIn(attr) \cap Current
  BY SearchFacts
<1>4. IdsIn(kind0) = IdsOf(attr)
  BY KindFacts
<1> HIDE DEF kind0, searched
<1>5. ASSUME NEW k \in DOMAIN cache'[s][kind0]
      PROVE  /\ cache'[s][kind0][k] \in Found
             /\ k \in {cache'[s][kind0][k].id, cache'[s][kind0][k].name}
             /\ cache'[s][kind0][k].id \in IdsIn(kind0)
             /\ \/ cache'[s][kind0][k] \in Current
                \/ k \in DOMAIN cache[s][kind0] /\ cache'[s][kind0][k] = cache[s][kind0][k]
  <2>1. \/ cache'[s][kind0][k] \in searched
             /\ k \in {cache'[s][kind0][k].id, cache'[s][kind0][k].name}
        \/ k \in DOMAIN cache[s][kind0] /\ cache'[s][kind0][k] = cache[s][kind0][k]
    BY <1>2, StoreFacts
  <2>2. TableAt(s, kind0)
    BY <1>1 DEF TypeInv
  <2> QED
    BY <1>3, <1>4, <2>1, <2>2 DEF TableAt, FoundIn
<1>6. ASSUME NEW kind \in Kinds PROVE TableAt(s, kind)'
  <2>1. CASE kind = kind0
    BY <1>5, <2>1 DEF TableAt
  <2>2. CASE kind # kind0
    BY <1>2, <2>2 DEF TypeInv, TableAt
  <2> QED
    BY <2>1, <2>2
<1>7. ASSUME NEW kind \in Kinds, NEW k \in DOMAIN cache'[s][kind]
      PROVE  \/ cache'[s][kind][k] \in Current
             \/ k \in DOMAIN cache[s][kind] /\ cache'[s][kind][k] = cache[s][kind][k]
  <2>1. CASE kind = kind0
    BY <1>5, <2>1
  <2>2. CASE kind # kind0
    BY <1>2, <2>2
  <2> QED
    BY <2>1, <2>2
<1> QED
  BY <1>2, <1>6, <1>7

\* Preload that goes on.
PreloadGoes(s, attr, step) ==
    /\ pc[s] \in Before /\ step \in Before
    /\ found' = [found EXCEPT ![s] =
           [found[s] EXCEPT ![attr] = Loaded(s, attr, "name", UNION req[s].names[attr])]]
    /\ CacheLoaded(s, attr, "name", UNION req[s].names[attr])
    /\ Goto(s, step)
    /\ UNCHANGED <<ufds, req, group, answer, history>>

LEMMA PreloadCases ==
    ASSUME TypeInv, NEW s \in Slots, NEW attr \in Attributes, Preload(s, attr)
    PROVE  /\ pc[s] \in {"_getPolicies", "_getMembers", "_getDefaultMembers"}
           /\ \/ \E code \in {"409", "error"} : Refuse(s, code)
              \/ \E step \in {"_getMembers", "_getDefaultMembers", "addRole", "getRole"} :
                    PreloadGoes(s, attr, step)
<1>1. pc[s] \in {"_getPolicies", "_getMembers", "_getDefaultMembers"}
  BY KindFacts DEF Preload
<1>2. AfterPreload(s, attr) \in {"_getMembers", "_getDefaultMembers", "addRole", "getRole"}
  BY DEF AfterPreload, Attributes
<1>3. \/ \E code \in {"409", "error"} : Refuse(s, code)
      \/ PreloadGoes(s, attr, AfterPreload(s, attr))
  <2>1. CASE \E code \in {"409", "error"} : Refuse(s, code)
    BY <2>1
  <2>2. CASE ~\E code \in {"409", "error"} : Refuse(s, code)
    <3>1. /\ found' = [found EXCEPT ![s] =
               [found[s] EXCEPT ![attr] = Loaded(s, attr, "name", UNION req[s].names[attr])]]
          /\ CacheLoaded(s, attr, "name", UNION req[s].names[attr])
          /\ Goto(s, AfterPreload(s, attr))
          /\ UNCHANGED <<ufds, req, group, answer, history>>
      BY <2>2 DEF Preload, Fail
    <3> QED
      BY <1>1, <1>2, <3>1 DEF PreloadGoes, Before
  <2> QED
    BY <2>1, <2>2
<1> QED
  BY <1>1, <1>2, <1>3

LEMMA PreloadGoesType ==
    ASSUME TypeInv, NEW s \in Slots, NEW attr \in Attributes, NEW step, PreloadGoes(s, attr, step)
    PROVE  /\ TypeInv'
           /\ pc'[s] = step /\ req[s] \in RoleRequest
           /\ found'[s][attr] = Loaded(s, attr, "name", UNION req[s].names[attr])
           /\ \A other \in Attributes : other # attr => found'[s][other] = found[s][other]
<1>1. pc[s] \in RoleSteps /\ req[s] \in RoleRequest /\ step \in RoleSteps
  BY StepFacts DEF PreloadGoes, TypeInv, Fits
<1>2. step \in Steps /\ Fits(req[s], step)
  BY <1>1, StepFacts DEF Fits
<1> DEFINE records == Loaded(s, attr, "name", UNION req[s].names[attr])
<1>3. records \subseteq FoundIn(attr)
  BY <1>1, RequestFacts, LoadedFacts
<1> HIDE DEF records
<1>4. /\ found'[s][attr] = records
      /\ \A other \in Attributes : other # attr => found'[s][other] = found[s][other]
      /\ found'[s] \in [Attributes -> SUBSET Found]
      /\ \A t \in Slots : t # s => found'[t] = found[t]
      /\ found' \in [Slots -> [Attributes -> SUBSET Found]]
  <2>1. records \in SUBSET Found
    BY <1>3 DEF FoundIn
  <2>2. found' = [found EXCEPT ![s] = [found[s] EXCEPT ![attr] = records]]
    BY DEF PreloadGoes, records
  <2> QED
    BY <2>1, <2>2 DEF TypeInv
<1>5. \A other \in Attributes : found'[s][other] \subseteq FoundIn(other)
  BY <1>3, <1>4 DEF TypeInv
<1>6. TypeInv'
  <2>1. CacheLoaded(s, attr, "name", UNION req[s].names[attr]) /\ Goto(s, step) /\ req' = req
    BY DEF PreloadGoes
  <2>2. NameType' /\ RolesType' /\ HistoryType' /\ group' \in [Slots -> Refs] /\ answer' \in [Slots -> Answer]
    BY SameType DEF PreloadGoes
  <2>3. /\ DOMAIN cache' = Slots /\ \A t \in Slots : t # s => cache'[t] = cache[t]
        /\ DOMAIN cache'[s] = Kinds /\ \A kind \in Kinds : TableAt(s, kind)'
    BY <2>1, CacheType
  <2> QED
    BY <1>2, <1>4, <1>5, <2>1, <2>2, <2>3, GoType
<1>7. pc'[s] = step
  BY DEF PreloadGoes, Goto, TypeInv
<1> QED
  BY <1>1, <1>4, <1>6, <1>7 DEF records

\* What is written refers to users and policies, as it was.
LEMMA WrittenType ==
    ASSUME TypeInv, NEW s \in Slots, NEW before \in Refs
    PROVE  Written(s, before) \in Refs
<1>1. \A attr \in Attributes : before[attr] \subseteq IdsOf(attr) /\ before[attr] \subseteq Ids
  BY KindFacts DEF Refs
<1>2. ASSUME NEW attr \in Attributes PROVE {f.id : f \in found[s][attr]} \subseteq IdsOf(attr)
  BY DEF TypeInv, FoundIn
<1>3. \A attr \in Attributes : Written(s, before)[attr] \subseteq IdsOf(attr)
  BY <1>1, <1>2 DEF Written
<1>4. Written(s, before) \in [Attributes -> SUBSET Ids]
  BY <1>1, <1>2, KindFacts DEF Written
<1> QED
  BY <1>3, <1>4 DEF Refs

LEMMA WriteRoleType ==
    ASSUME TypeInv, NEW s \in Slots, pc[s] \in RoleSteps, NEW before \in Refs, WriteRole(s, before)
    PROVE  /\ TypeInv'
           /\ pc'[s] = "_loadMembers" /\ req[s] \in RoleRequest
           /\ group'[s] = Written(s, before) /\ \A t \in Slots : t # s => group'[t] = group[t]
           /\ roles'[req[s].role].refs = Written(s, before)
<1>1. req[s] \in RoleRequest /\ req[s].role \in RoleIds
  BY RequestFacts, StepFacts DEF TypeInv, Fits
<1>2. [state |-> "live", refs |-> Written(s, before)]
          \in [state: {"unborn", "live", "deleted"}, refs: Refs]
  BY WrittenType
<1>3. RolesType' /\ roles'[req[s].role] = [state |-> "live", refs |-> Written(s, before)]
  BY <1>1, <1>2 DEF WriteRole, RolesType, TypeInv
<1>4. NameType'
  BY DEF WriteRole, NameType, TypeInv
<1>5. HistoryType'
  BY <1>4, WitnessType DEF WriteRole
<1>6. group' \in [Slots -> Refs] /\ group'[s] = Written(s, before)
      /\ \A t \in Slots : t # s => group'[t] = group[t]
  BY WrittenType DEF WriteRole, TypeInv
<1>7. "_loadMembers" \in Steps /\ Fits(req[s], "_loadMembers")
  BY <1>1 DEF Steps, Fits, UserSteps
<1>8. TypeInv'
  BY <1>3, <1>4, <1>5, <1>6, <1>7, SameType, GoType DEF WriteRole
<1>9. pc'[s] = "_loadMembers"
  BY DEF WriteRole, Goto, TypeInv
<1> QED
  BY <1>1, <1>3, <1>6, <1>8, <1>9

LEMMA RoleType ==
    ASSUME TypeInv, NEW s \in Slots, AddRole(s) \/ GetRole(s) \/ ModifyRole(s)
    PROVE  TypeInv'
<1>1. pc[s] \in {"addRole", "getRole", "modifyRole"} /\ pc[s] \in RoleSteps
  BY DEF AddRole, GetRole, ModifyRole, RoleSteps
<1>2. req[s] \in RoleRequest /\ req[s].role \in RoleIds
  BY <1>1, RequestFacts DEF TypeInv, Fits
<1>3. roles[req[s].role].refs \in Refs
  BY <1>2 DEF TypeInv
<1>4. CASE \E code \in {"404", "error"} : Refuse(s, code)
  BY <1>4, RefuseType
<1>5. CASE \E before \in Refs : WriteRole(s, before)
  BY <1>1, <1>5, WriteRoleType
<1>6. CASE \E step \in {"modifyRole", "_loadMembers"} :
            /\ group' = [group EXCEPT ![s] = roles[req[s].role].refs]
            /\ Goto(s, step)
            /\ UNCHANGED <<ufds, req, cache, found, answer, history>>
  <2>1. PICK step \in {"modifyRole", "_loadMembers"} :
            /\ group' = [group EXCEPT ![s] = roles[req[s].role].refs]
            /\ Goto(s, step)
            /\ UNCHANGED <<ufds, req, cache, found, answer, history>>
    BY <1>6
  <2>2. step \in Steps /\ Fits(req[s], step)
    BY <1>2, <2>1 DEF Steps, Fits, UserSteps
  <2>3. group' \in [Slots -> Refs]
    BY <1>3, <2>1 DEF TypeInv
  <2> QED
    BY <2>1, <2>2, <2>3, SameType, GoType
<1>7. CASE AddRole(s)
  BY <1>4, <1>5, <1>7, NothingFacts DEF AddRole, Fail
<1>8. CASE GetRole(s)
  <2>1. CASE Fail(s, "getRole")
    BY <2>1, FailType
  <2>2. CASE ~Fail(s, "getRole") /\ req[s].op = "update"
    BY <1>4, <1>6, <1>8, <2>2 DEF GetRole
  <2>3. CASE ~Fail(s, "getRole") /\ req[s].op # "update"
    BY <1>4, <1>6, <1>8, <2>3 DEF GetRole
  <2> QED
    BY <2>1, <2>2, <2>3
<1>9. CASE ModifyRole(s)
  BY <1>3, <1>4, <1>5, <1>9 DEF ModifyRole, Fail
<1> QED
  BY <1>7, <1>8, <1>9

\* Translate that goes on, or ends.
Named(s, attr) ==
    [answer[s].names EXCEPT ![attr] = {f.name : f \in Loaded(s, attr, "id", group[s][attr])}]

LEMMA NamedType ==
    ASSUME TypeInv, NEW s \in Slots, NEW attr \in Attributes
    PROVE  /\ Named(s, attr) \in [Attributes -> SUBSET (Names \cup Found \cup RoleIds)]
           /\ group[s][attr] \subseteq Ids
           /\ \A n \in Named(s, attr)[attr] :
                \E f \in Loaded(s, attr, "id", group[s][attr]) :
                    n = f.name /\ f \in Found /\ f.id \in group[s][attr]
           /\ \A other \in Attributes : other # attr => Named(s, attr)[other] = answer[s].names[other]
<1>1. group[s][attr] \subseteq Ids
  BY DEF TypeInv, Refs
<1>2. ASSUME NEW f \in Loaded(s, attr, "id", group[s][attr])
      PROVE  f \in Found /\ f.id \in group[s][attr] /\ f.name \in Names
  BY <1>1, LoadedFacts DEF FoundIn, Found
<1>3. answer[s].names \in [Attributes -> SUBSET (Names \cup Found \cup RoleIds)]
  BY DEF TypeInv, Answer
<1> DEFINE names == {f.name : f \in Loaded(s, attr, "id", group[s][attr])}
<1>4. names \subseteq Names
  BY <1>2
<1>5. /\ Named(s, attr) \in [Attributes -> SUBSET (Names \cup Found \cup RoleIds)]
      /\ Named(s, attr)[attr] = names
      /\ \A other \in Attributes : other # attr => Named(s, attr)[other] = answer[s].names[other]
  <2> HIDE DEF names
  <2>1. Named(s, attr) = [answer[s].names EXCEPT ![attr] = names]
    BY DEF Named, names
  <2> QED
    BY <1>3, <1>4, <2>1
<1>6. \A n \in names : \E f \in Loaded(s, attr, "id", group[s][attr]) :
            n = f.name /\ f \in Found /\ f.id \in group[s][attr]
  BY <1>2
<1> QED
  BY <1>1, <1>5, <1>6

TranslateGoes(s, attr, step) ==
    /\ pc[s] \in RoleSteps /\ step \in RoleSteps \ Before
    /\ answer' = [answer EXCEPT ![s] = [answer[s] EXCEPT !.names = Named(s, attr)]]
    /\ CacheLoaded(s, attr, "id", group[s][attr])
    /\ Goto(s, step)
    /\ UNCHANGED <<ufds, req, found, group, history>>

LEMMA TranslateCases ==
    ASSUME TypeInv, NEW s \in Slots, NEW attr \in Attributes, Translate(s, attr)
    PROVE  /\ pc[s] \in {"_loadMembers", "_loadDefaultMembers", "_loadPolicies"}
           /\ \/ Refuse(s, "error")
              \/ \E step \in {"_loadDefaultMembers", "_loadPolicies"} : TranslateGoes(s, attr, step)
              \/ End(s, "200", Named(s, attr)) /\ UNCHANGED ufds
<1>1. pc[s] \in {"_loadMembers", "_loadDefaultMembers", "_loadPolicies"}
  BY KindFacts DEF Translate
<1>2. AfterTranslate(attr) \in {"_loadDefaultMembers", "_loadPolicies"}
  BY DEF AfterTranslate
<1>3. CASE Fail(s, "translate")
  BY <1>1, <1>3 DEF Fail
<1>4. CASE attr = "policies" /\ ~Fail(s, "translate")
  BY <1>1, <1>4 DEF Translate, Named
<1>5. CASE attr # "policies" /\ ~Fail(s, "translate")
  <2>1. /\ answer' = [answer EXCEPT ![s] = [answer[s] EXCEPT !.names = Named(s, attr)]]
        /\ CacheLoaded(s, attr, "id", group[s][attr])
        /\ Goto(s, AfterTranslate(attr))
        /\ UNCHANGED <<ufds, req, found, group, history>>
    BY <1>5 DEF Translate, Named
  <2>2. TranslateGoes(s, attr, AfterTranslate(attr))
    BY <1>1, <1>2, <2>1 DEF TranslateGoes, RoleSteps, Before
  <2> QED
    BY <1>1, <1>2, <2>2
<1> QED
  BY <1>3, <1>4, <1>5

LEMMA TranslateGoesType ==
    ASSUME TypeInv, NEW s \in Slots, NEW attr \in Attributes, NEW step, TranslateGoes(s, attr, step)
    PROVE  /\ TypeInv'
           /\ pc'[s] = step /\ req[s] \in RoleRequest
           /\ answer'[s].names = Named(s, attr)
<1>1. pc[s] \in RoleSteps /\ req[s] \in RoleRequest /\ step \in RoleSteps
  BY DEF TranslateGoes, TypeInv, Fits
<1>2. step \in Steps /\ Fits(req[s], step)
  BY <1>1, StepFacts DEF Fits
<1>3. answer' \in [Slots -> Answer] /\ answer'[s].names = Named(s, attr)
  <2>1. [answer[s] EXCEPT !.names = Named(s, attr)] \in Answer
    <3>1. Named(s, attr) \in [Attributes -> SUBSET (Names \cup Found \cup RoleIds)]
      BY NamedType
    <3>2. answer[s] \in Answer
      BY DEF TypeInv
    <3> QED
      BY <3>1, <3>2 DEF Answer
  <2>2. answer'[s] = [answer[s] EXCEPT !.names = Named(s, attr)]
    BY DEF TranslateGoes, TypeInv
  <2>3. answer'[s].names = Named(s, attr)
    BY <2>2 DEF TypeInv, Answer
  <2> QED
    BY <2>1, <2>3 DEF TranslateGoes, TypeInv
<1>4. /\ DOMAIN cache' = Slots /\ \A t \in Slots : t # s => cache'[t] = cache[t]
      /\ DOMAIN cache'[s] = Kinds /\ \A kind \in Kinds : TableAt(s, kind)'
  <2>1. CacheLoaded(s, attr, "id", group[s][attr])
    BY DEF TranslateGoes
  <2> QED
    BY <2>1, CacheType
<1>5. TypeInv'
  BY <1>2, <1>3, <1>4, SameType, GoType DEF TranslateGoes
<1>6. pc'[s] = step
  BY DEF TranslateGoes, Goto, TypeInv
<1> QED
  BY <1>1, <1>3, <1>5, <1>6

LEMMA TranslateType ==
    ASSUME TypeInv, NEW s \in Slots, NEW attr \in Attributes, Translate(s, attr)
    PROVE  TypeInv'
<1>1. CASE Refuse(s, "error")
  BY <1>1, RefuseType
<1>2. CASE \E step \in {"_loadDefaultMembers", "_loadPolicies"} : TranslateGoes(s, attr, step)
  BY <1>2, TranslateGoesType
<1>3. CASE End(s, "200", Named(s, attr)) /\ UNCHANGED ufds
  <2>1. [code |-> "200", names |-> Named(s, attr)] \in Answer
    BY NamedType DEF Answer
  <2> QED
    BY <1>3, <2>1, EndType
<1> QED
  BY <1>1, <1>2, <1>3, TranslateCases

\* Requests on users.
LEMMA UserAtType ==
    ASSUME TypeInv, NEW path
    PROVE  UserAt(path) \subseteq FoundIn("members") /\ UserAt(path) \subseteq Found
  BY SearchFacts DEF UserAt, Attributes, FoundIn

LEMMA UserType ==
    ASSUME TypeInv, NEW s \in Slots,
           \/ GetUser(s) \/ UpdateUser(s) \/ AnswerUser(s) \/ MapRoles(s) \/ MapDefaultRoles(s)
    PROVE  TypeInv'
<1>1. pc[s] \in UserSteps /\ req[s] \in UserRequest
  BY DEF GetUser, UpdateUser, AnswerUser, MapRoles, MapDefaultRoles, UserSteps, TypeInv, Fits
<1>2. CASE \E code \in {"404", "409", "error"} : Refuse(s, code)
  BY <1>2, RefuseType
<1>3. \A step \in UserSteps : step \in Steps /\ Fits(req[s], step)
  BY <1>1, StepFacts DEF Fits
<1>4. CASE GetUser(s) /\ ~\E code \in {"404", "409", "error"} : Refuse(s, code)
  <2>1. /\ found' = [found EXCEPT ![s] = [found[s] EXCEPT !["members"] = UserAt(req[s].path)]]
        /\ Goto(s, IF req[s].op = "updateUser" THEN "updateUser" ELSE "roles")
        /\ UNCHANGED <<ufds, req, cache, group, answer, history>>
    BY <1>4 DEF GetUser, Fail
  <2>2. PICK step \in UserSteps : Goto(s, step)
    <3>1. CASE req[s].op = "updateUser"
      BY <2>1, <3>1 DEF UserSteps
    <3>2. CASE req[s].op # "updateUser"
      BY <2>1, <3>2 DEF UserSteps
    <3> QED
      BY <3>1, <3>2
  <2>3. /\ found' \in [Slots -> [Attributes -> SUBSET Found]]
        /\ \A t \in Slots : t # s => found'[t] = found[t]
        /\ \A attr \in Attributes : found'[s][attr] \subseteq FoundIn(attr)
    BY <2>1, UserAtType DEF TypeInv
  <2> QED
    BY <1>3, <2>1, <2>2, <2>3, SameType, GoType
<1>5. CASE UpdateUser(s) /\ ~\E code \in {"404", "409", "error"} : Refuse(s, code)
  <2>1. /\ TheUser(s).id \in Live
        /\ name' = [name EXCEPT ![TheUser(s).id] =
               IF req[s].login = {} THEN name[TheUser(s).id] ELSE CHOOSE n \in req[s].login : TRUE]
        /\ Goto(s, "answerUser")
        /\ Witness(Slots \ {s})
        /\ UNCHANGED <<roles, req, cache, found, group, answer>>
    BY <1>5 DEF UpdateUser, Fail
  <2>2. (IF req[s].login = {} THEN name[TheUser(s).id] ELSE CHOOSE n \in req[s].login : TRUE) \in Names
    BY <1>1, <2>1, RequestFacts DEF Live
  <2>3. NameType'
    BY <2>1, <2>2 DEF NameType, TypeInv
  <2>4. HistoryType'
    BY <2>1, <2>3, WitnessType
  <2>5. RolesType'
    BY <2>1 DEF RolesType, TypeInv
  <2>6. "answerUser" \in UserSteps
    BY DEF UserSteps
  <2> QED
    BY <1>3, <2>1, <2>3, <2>4, <2>5, <2>6, SameType, GoType
<1>6. CASE AnswerUser(s) /\ ~\E code \in {"404", "409", "error"} : Refuse(s, code)
  <2>1. End(s, "200", [Nothing EXCEPT !["members"] = UserAt(req[s].path)]) /\ UNCHANGED ufds
    BY <1>6 DEF AnswerUser, Fail
  <2>2. [Nothing EXCEPT !["members"] = UserAt(req[s].path)]
            \in [Attributes -> SUBSET (Names \cup Found \cup RoleIds)]
    BY NothingFacts, UserAtType
  <2> QED
    BY <2>1, <2>2, EndType DEF Answer
<1>7. answer[s].names \in [Attributes -> SUBSET (Names \cup Found \cup RoleIds)] /\ answer[s] \in Answer
  BY DEF TypeInv, Answer
<1>8. \A attr, o : RolesWith(attr, o) \subseteq RoleIds
  BY DEF RolesWith, LiveRoles
<1>9. CASE MapRoles(s) /\ ~\E code \in {"404", "409", "error"} : Refuse(s, code)
  <2> DEFINE names == [answer[s].names EXCEPT !["members"] = RolesWith("members", TheUser(s).id)]
  <2>1. /\ answer' = [answer EXCEPT ![s] = [answer[s] EXCEPT !.names = names]]
        /\ Goto(s, "defaultRoles")
        /\ UNCHANGED <<ufds, req, cache, found, group, history>>
    BY <1>9 DEF MapRoles, Fail
  <2>2. names \in [Attributes -> SUBSET (Names \cup Found \cup RoleIds)]
    BY <1>7, <1>8
  <2> HIDE DEF names
  <2>3. [answer[s] EXCEPT !.names = names] \in Answer
    BY <1>7, <2>2 DEF Answer
  <2>4. answer' \in [Slots -> Answer]
    BY <2>1, <2>3 DEF TypeInv
  <2>5. "defaultRoles" \in UserSteps
    BY DEF UserSteps
  <2> QED
    BY <1>3, <2>1, <2>4, <2>5, SameType, GoType
<1>10. CASE MapDefaultRoles(s) /\ ~\E code \in {"404", "409", "error"} : Refuse(s, code)
  <2> DEFINE names == [answer[s].names EXCEPT !["default_members"] =
                           RolesWith("default_members", TheUser(s).id)]
  <2>1. End(s, "200", names) /\ UNCHANGED ufds
    BY <1>10 DEF MapDefaultRoles, Fail
  <2>2. names \in [Attributes -> SUBSET (Names \cup Found \cup RoleIds)]
    BY <1>7, <1>8
  <2> HIDE DEF names
  <2> QED
    BY <2>1, <2>2, EndType DEF Answer
<1> QED
  BY <1>2, <1>4, <1>5, <1>6, <1>9, <1>10

\* Requests of one call: only UFDS and the history change.
LEMMA OneCallType ==
    ASSUME TypeInv,
           \/ \E o \in UserIds : CreateUser(o) \/ DeleteUser(o)
           \/ \E o \in PolicyIds : CreatePolicy(o) \/ UpdatePolicy(o) \/ DeletePolicy(o)
           \/ \E r \in RoleIds : DeleteRole(r)
    PROVE  /\ TypeInv' /\ Witness(Slots)
           /\ UNCHANGED <<pc, req, cache, found, group, answer>>
<1>1. \/ \E o \in Ids : \E n \in Names \cup {"deleted"} :
            name' = [name EXCEPT ![o] = n] /\ roles' = roles
      \/ \E r \in RoleIds : roles' = [roles EXCEPT ![r].state = "deleted"] /\ name' = name
  BY DEF CreateUser, DeleteUser, CreatePolicy, UpdatePolicy, DeletePolicy, DeleteRole, Rename, Delete,
         Live, Ids
<1>2. UNCHANGED <<pc, req, cache, found, group, answer>> /\ Witness(Slots)
  BY DEF CreateUser, DeleteUser, CreatePolicy, UpdatePolicy, DeletePolicy, DeleteRole, Rename, Delete
<1>3. NameType' /\ RolesType'
  <2>1. NameType'
    BY <1>1 DEF NameType, TypeInv
  <2>2. CASE roles' = roles
    BY <2>1, <2>2 DEF RolesType, TypeInv
  <2>3. CASE \E r \in RoleIds : roles' = [roles EXCEPT ![r].state = "deleted"]
    <3>1. PICK r \in RoleIds : roles' = [roles EXCEPT ![r].state = "deleted"]
      BY <2>3
    <3>2. [roles[r] EXCEPT !.state = "deleted"] \in [state: {"unborn", "live", "deleted"}, refs: Refs]
      BY DEF TypeInv
    <3>3. roles' = [roles EXCEPT ![r] = [roles[r] EXCEPT !.state = "deleted"]]
      BY <3>1
    <3> QED
      BY <2>1, <3>2, <3>3 DEF RolesType, TypeInv
  <2> QED
    BY <1>1, <2>1, <2>2, <2>3
<1>4. HistoryType'
  BY <1>2, <1>3, WitnessType
<1>5. TypeInv'
  BY <1>2, <1>3, <1>4 DEF TypeInv, NameType, RolesType, HistoryType, TableAt
<1> QED
  BY <1>2, <1>5

LEMMA RequestType ==
    ASSUME TypeInv, NEW s \in Slots, RequestRole(s) \/ RequestUser(s)
    PROVE  TypeInv'
<1>1. CASE RequestUser(s)
  <2>1. PICK r \in UserRequest : Begin(s, r, "getUser")
    BY <1>1 DEF RequestUser
  <2>2. "getUser" \in Steps /\ Fits(r, "getUser")
    BY <2>1 DEF Steps, Fits, RoleSteps
  <2> QED
    BY <2>1, <2>2, BeginType
<1>2. CASE RequestRole(s)
  <2>1. PICK r \in RoleRequest : Begin(s, r, IF r.op = "get" THEN "getRole" ELSE "_getPolicies")
    BY <1>2 DEF RequestRole
  <2>2. PICK step \in {"getRole", "_getPolicies"} : Begin(s, r, step)
    BY <2>1
  <2>3. step \in Steps /\ Fits(r, step)
    BY <2>1, <2>2 DEF Steps, Fits, UserSteps
  <2> QED
    BY <2>2, <2>3, BeginType
<1> QED
  BY <1>1, <1>2

LEMMA InitType == Init => TypeInv
<1> SUFFICES ASSUME Init PROVE TypeInv
  OBVIOUS
<1>1. /\ name \in [Ids -> Names \cup {"unborn", "deleted"}]
      /\ roles \in [RoleIds -> [state: {"unborn", "live", "deleted"}, refs: Refs]]
      /\ pc \in [Slots -> Steps] /\ borne \in [Slots -> SUBSET Found] /\ alone \in [Slots -> BOOLEAN]
  BY NothingFacts DEF Init, Unborn, Steps
<1>2. \A s \in Slots : Fits(req[s], pc[s])
  BY StepFacts DEF Init, Fits
<1>3. /\ DOMAIN cache = Slots
      /\ \A s \in Slots : DOMAIN cache[s] = Kinds /\ \A kind \in Kinds : TableAt(s, kind)
  BY NothingFacts DEF Init, TableAt
<1>4. /\ found \in [Slots -> [Attributes -> SUBSET Found]] /\ group \in [Slots -> Refs]
      /\ \A s \in Slots : \A attr \in Attributes : found[s][attr] \subseteq FoundIn(attr)
      /\ answer \in [Slots -> Answer] /\ req \in [Slots -> {NoRequest}]
  BY NothingFacts DEF Init
<1> QED
  BY <1>1, <1>2, <1>3, <1>4 DEF TypeInv

LEMMA TypeStep == TypeInv /\ [Next]_vars => TypeInv'
<1> SUFFICES ASSUME TypeInv, [Next]_vars PROVE TypeInv'
  OBVIOUS
<1>1. CASE UNCHANGED vars
  BY <1>1 DEF vars, TypeInv, TableAt
<1>2. ASSUME NEW s \in Slots, RequestRole(s) \/ RequestUser(s) PROVE TypeInv'
  BY <1>2, RequestType
<1>3. ASSUME NEW s \in Slots, Handle(s) PROVE TypeInv'
  <2>1. ASSUME NEW attr \in Attributes, Preload(s, attr) PROVE TypeInv'
    BY <2>1, PreloadCases, PreloadGoesType, RefuseType
  <2> QED
    BY <1>3, <2>1, TranslateType, RoleType, UserType DEF Handle
<1>4. CASE \/ \E o \in UserIds : CreateUser(o) \/ DeleteUser(o)
           \/ \E o \in PolicyIds : CreatePolicy(o) \/ UpdatePolicy(o) \/ DeletePolicy(o)
           \/ \E r \in RoleIds : DeleteRole(r)
  BY <1>4, OneCallType
<1> QED
  BY <1>1, <1>2, <1>3, <1>4 DEF Next, Slots

\* Requests, what they cached and looked up, roles and names stay well-formed: the table
\* of a request finds records under their id or name, and never one of the other kind.
THEOREM TypeCorrect == Spec => []TypeOK
<1>1. TypeInv => TypeOK
  <2> SUFFICES ASSUME TypeInv PROVE TypeOK
    OBVIOUS
  <2>1. \A s \in Slots : \A kind \in Kinds : \A k \in DOMAIN cache[s][kind] :
            cache[s][kind][k] \in Found /\ k \in Ids \cup Names
    <3>1. \A f \in Found : f.id \in Ids /\ f.name \in Names
      BY DEF Found
    <3>2. \A s \in Slots : \A kind \in Kinds : TableAt(s, kind)
      BY DEF TypeInv
    <3> QED
      BY <3>1, <3>2 DEF TableAt
  <2>2. Tables
    BY <2>1 DEF Tables, Kinds
  <2>3. /\ \A s \in Slots : answer[s].code \in {"none", "200", "404", "409", "error"}
        /\ \A s \in Slots : req[s] \in RoleRequest \cup UserRequest \cup {NoRequest}
        /\ \A s \in Slots : borne[s] \subseteq Found
        /\ \A s \in Slots : \A attr \in Attributes : found[s][attr] \subseteq Found
    BY DEF TypeInv, Answer
  <2> QED
    BY <2>2, <2>3 DEF TypeInv, TypeOK
<1> QED
  BY <1>1, InitType, TypeStep, PTL DEF Spec

-----------------------------------------------------------------------------
(* What the history of a request covers. *)

\* A step of the request of slot s, for those of the other slots.
Others(s) ==
    \A t \in Slots : t # s =>
        /\ pc'[t] = pc[t] /\ req'[t] = req[t] /\ cache'[t] = cache[t]
        /\ found'[t] = found[t] /\ group'[t] = group[t] /\ answer'[t] = answer[t]
        /\ req[t] \in RoleRequest /\ Current \subseteq borne[t] =>
              borne[t] \subseteq borne'[t] /\ Current' \subseteq borne'[t]

LEMMA BorneGrows ==
    ASSUME TypeInv, NEW t \in Slots, req[t] \in RoleRequest, Current \subseteq borne[t],
           \/ UNCHANGED ufds /\ borne'[t] = borne[t]
           \/ \E others : Witness(others)
    PROVE  borne[t] \subseteq borne'[t] /\ Current' \subseteq borne'[t]
<1>1. CASE UNCHANGED ufds /\ borne'[t] = borne[t]
  <2>1. Current' = Current
    BY <1>1 DEF ufds, Current, Live
  <2> QED
    BY <1>1, <2>1
<1>2. CASE \E others : Witness(others)
  <2>1. req[t].op \in RoleOps
    BY RequestFacts
  <2>2. borne'[t] = borne[t] \cup Current'
    BY <1>2, <2>1 DEF Witness
  <2> QED
    BY <2>2
<1> QED
  BY <1>1, <1>2

\* A request of another slot keeps what it knew.
LEMMA KeepsAt ==
    ASSUME NEW t \in Slots, RoleAt(t),
           pc'[t] = pc[t], req'[t] = req[t], cache'[t] = cache[t], found'[t] = found[t],
           group'[t] = group[t], answer'[t] = answer[t],
           borne[t] \subseteq borne'[t], Current' \subseteq borne'[t]
    PROVE  RoleAt(t)'
<1>1. \A kind \in Kinds : \A k \in DOMAIN cache'[t][kind] : cache'[t][kind][k] \in borne'[t]
  BY DEF RoleAt
<1>2. \A attr \in Attributes : \A f \in found'[t][attr] :
          f \in borne'[t] /\ f.name \in UNION req'[t].names[attr]
  BY DEF RoleAt
<1>3. pc'[t] \in Before => answer'[t].names = Nothing
  BY DEF RoleAt
<1>4. \A attr \in Attributes : \A n \in answer'[t].names[attr] :
          \E o \in group'[t][attr] : [id |-> o, name |-> n] \in borne'[t]
  BY DEF RoleAt
<1> QED
  BY <1>1, <1>2, <1>3, <1>4 DEF RoleAt

LEMMA InvOfSlot ==
    ASSUME Inv, NEW s \in Slots, TypeInv', Others(s),
           pc'[s] \in RoleSteps => RoleAt(s)', pc'[s] = "idle" => IdleAt(s)'
    PROVE  Inv'
<1>1. ASSUME NEW t \in Slots, t # s, pc'[t] \in RoleSteps PROVE RoleAt(t)'
  <2>1. /\ pc'[t] = pc[t] /\ req'[t] = req[t] /\ cache'[t] = cache[t]
        /\ found'[t] = found[t] /\ group'[t] = group[t] /\ answer'[t] = answer[t]
        /\ req[t] \in RoleRequest /\ Current \subseteq borne[t] =>
              borne[t] \subseteq borne'[t] /\ Current' \subseteq borne'[t]
    BY <1>1 DEF Others
  <2>2. RoleAt(t) /\ req[t] \in RoleRequest
    BY <1>1, <2>1 DEF Inv, TypeInv, Fits
  <2>3. Current \subseteq borne[t]
    BY <2>2 DEF RoleAt
  <2> QED
    BY <2>1, <2>2, <2>3, KeepsAt
<1>2. ASSUME NEW t \in Slots, t # s, pc'[t] = "idle" PROVE IdleAt(t)'
  BY <1>2 DEF Others, Inv, IdleAt
<1>3. \A t \in Slots : pc'[t] \in RoleSteps => RoleAt(t)'
  BY <1>1
<1>4. \A t \in Slots : pc'[t] = "idle" => IdleAt(t)'
  BY <1>2
<1> QED
  BY <1>3, <1>4 DEF Inv

LEMMA EndAt ==
    ASSUME Inv, NEW s \in Slots, NEW code, NEW names, End(s, code, names), UNCHANGED ufds
    PROVE  Others(s) /\ pc'[s] = "idle" /\ IdleAt(s)' /\ answer'[s].code = code /\ answer'[s].names = names
<1>1. TypeInv
  BY DEF Inv
<1>2. pc'[s] = "idle" /\ cache'[s] = EmptyCache /\ found'[s] = Nothing /\ group'[s] = Nothing
  BY <1>1 DEF End, Forget, TypeInv
<1>3. answer'[s] = [code |-> code, names |-> names]
  BY <1>1 DEF End, TypeInv
<1>4. ASSUME NEW t \in Slots, t # s
      PROVE  /\ pc'[t] = pc[t] /\ req'[t] = req[t] /\ cache'[t] = cache[t]
             /\ found'[t] = found[t] /\ group'[t] = group[t] /\ answer'[t] = answer[t]
             /\ borne'[t] = borne[t]
  BY <1>1, <1>4 DEF End, Forget, TypeInv
<1>5. Others(s)
  BY <1>1, <1>4, BorneGrows DEF Others
<1> QED
  BY <1>2, <1>3, <1>5 DEF IdleAt

LEMMA RefuseAt ==
    ASSUME Inv, NEW s \in Slots, NEW code, Refuse(s, code)
    PROVE  Others(s) /\ pc'[s] = "idle" /\ IdleAt(s)' /\ answer'[s].code = code
  BY EndAt DEF Refuse

LEMMA BeginAt ==
    ASSUME Inv, NEW s \in Slots, NEW r \in RoleRequest \cup UserRequest, NEW step,
           step \in RoleSteps => r \in RoleRequest, Begin(s, r, step), step # "idle"
    PROVE  Others(s) /\ pc[s] = "idle" /\ pc'[s] = step /\ (pc'[s] \in RoleSteps => RoleAt(s)')
<1>1. TypeInv /\ pc[s] = "idle" /\ IdleAt(s)
  BY DEF Inv, Begin
<1>2. /\ pc'[s] = step /\ req'[s] = r /\ answer'[s] = NoAnswer
      /\ borne'[s] = (IF r.op \in RoleOps THEN Current ELSE {})
      /\ cache'[s] = EmptyCache /\ found'[s] = Nothing /\ group'[s] = Nothing
      /\ UNCHANGED ufds
  BY <1>1 DEF Begin, TypeInv, IdleAt
<1>3. ASSUME NEW t \in Slots, t # s
      PROVE  /\ pc'[t] = pc[t] /\ req'[t] = req[t] /\ cache'[t] = cache[t]
             /\ found'[t] = found[t] /\ group'[t] = group[t] /\ answer'[t] = answer[t]
             /\ borne'[t] = borne[t]
  BY <1>1, <1>3 DEF Begin, TypeInv
<1>4. Others(s)
  BY <1>1, <1>2, <1>3, BorneGrows DEF Others
<1>5. ASSUME r \in RoleRequest PROVE RoleAt(s)'
  <2>1. Current' = Current /\ borne'[s] = Current
    BY <1>2, <1>5, RequestFacts DEF ufds, Current, Live
  <2>2. answer'[s].names = Nothing
    BY <1>2 DEF NoAnswer
  <2> QED
    BY <1>2, <2>1, <2>2, NothingFacts DEF RoleAt
<1> QED
  BY <1>1, <1>2, <1>4, <1>5

\* The history of the step's own request.
LEMMA OwnBorne ==
    ASSUME Inv, NEW s \in Slots, pc[s] \in RoleSteps,
           (UNCHANGED <<ufds, history>>) \/ \E others : Witness(others)
    PROVE  /\ RoleAt(s) /\ req[s] \in RoleRequest
           /\ borne[s] \subseteq borne'[s] /\ Current' \subseteq borne'[s]
<1>1. RoleAt(s) /\ req[s] \in RoleRequest /\ TypeInv
  BY DEF Inv, TypeInv, Fits
<1>2. Current \subseteq borne[s]
  BY <1>1 DEF RoleAt
<1> QED
  BY <1>1, <1>2, BorneGrows DEF history

LEMMA OthersOf ==
    ASSUME Inv, NEW s \in Slots,
           \A t \in Slots : t # s =>
              /\ pc'[t] = pc[t] /\ req'[t] = req[t] /\ cache'[t] = cache[t]
              /\ found'[t] = found[t] /\ group'[t] = group[t] /\ answer'[t] = answer[t],
           (UNCHANGED <<ufds, history>>) \/ \E others : Witness(others)
    PROVE  Others(s)
<1>1. ASSUME NEW t \in Slots, req[t] \in RoleRequest, Current \subseteq borne[t]
      PROVE  borne[t] \subseteq borne'[t] /\ Current' \subseteq borne'[t]
  BY <1>1, BorneGrows DEF history, Inv
<1> QED
  BY <1>1 DEF Others

LEMMA PreloadAt ==
    ASSUME Inv, NEW s \in Slots, NEW attr \in Attributes, NEW step, PreloadGoes(s, attr, step)
    PROVE  TypeInv' /\ Others(s) /\ pc'[s] = step /\ RoleAt(s)'
<1>1. TypeInv /\ pc[s] \in RoleSteps /\ UNCHANGED <<ufds, req, group, answer, history>>
  BY StepFacts DEF Inv, PreloadGoes
<1>2. /\ TypeInv' /\ pc'[s] = step /\ req[s] \in RoleRequest
      /\ found'[s][attr] = Loaded(s, attr, "name", UNION req[s].names[attr])
      /\ \A other \in Attributes : other # attr => found'[s][other] = found[s][other]
  BY <1>1, PreloadGoesType
<1>3. /\ \A t \in Slots : t # s => cache'[t] = cache[t]
      /\ \A kind \in Kinds : \A k \in DOMAIN cache'[s][kind] :
            \/ cache'[s][kind][k] \in Current
            \/ k \in DOMAIN cache[s][kind] /\ cache'[s][kind][k] = cache[s][kind][k]
  <2>1. CacheLoaded(s, attr, "name", UNION req[s].names[attr])
    BY DEF PreloadGoes
  <2> QED
    BY <1>1, <2>1, CacheType
<1>4. Others(s)
  <2>1. \A t \in Slots : t # s =>
            /\ pc'[t] = pc[t] /\ req'[t] = req[t] /\ cache'[t] = cache[t]
            /\ found'[t] = found[t] /\ group'[t] = group[t] /\ answer'[t] = answer[t]
    BY <1>1, <1>3 DEF PreloadGoes, Goto, TypeInv
  <2> QED
    BY <1>1, <2>1, OthersOf
<1>5. /\ RoleAt(s) /\ borne[s] \subseteq borne'[s] /\ Current' \subseteq borne'[s]
      /\ Current \subseteq borne'[s]
  BY <1>1, OwnBorne DEF RoleAt
<1>6. \A kind \in Kinds : \A k \in DOMAIN cache'[s][kind] : cache'[s][kind][k] \in borne'[s]
  BY <1>3, <1>5 DEF RoleAt
<1>7. ASSUME NEW f \in found'[s][attr]
      PROVE  f \in borne'[s] /\ f.name \in UNION req[s].names[attr]
  <2>1. f \in Loaded(s, attr, "name", UNION req[s].names[attr])
    BY <1>2, <1>7
  <2>2. UNION req[s].names[attr] \subseteq Names
    BY <1>2, RequestFacts
  <2>3. /\ f.name \in UNION req[s].names[attr]
        /\ \/ f \in Current
           \/ \E k \in DOMAIN cache[s][TableOf(attr)] : f = cache[s][TableOf(attr)][k]
    BY <1>1, <2>1, <2>2, LoadedFacts
  <2> QED
    BY <1>5, <2>3, KindFacts DEF RoleAt
<1>8. \A other \in Attributes : \A f \in found'[s][other] :
          f \in borne'[s] /\ f.name \in UNION req'[s].names[other]
  <2>1. req'[s] = req[s]
    BY <1>1
  <2> QED
    BY <1>2, <1>5, <1>7, <2>1 DEF RoleAt
<1>9. pc[s] \in Before
  BY DEF PreloadGoes
<1> QED
  BY <1>1, <1>2, <1>4, <1>5, <1>6, <1>8, <1>9 DEF RoleAt

\* An answer under way names members of the role as they were called.
LEMMA NamedAt ==
    ASSUME Inv, NEW s \in Slots, NEW attr \in Attributes, pc[s] \in RoleSteps
    PROVE  \A other \in Attributes : \A n \in Named(s, attr)[other] :
                \E o \in group[s][other] : [id |-> o, name |-> n] \in borne[s]
<1>1. TypeInv /\ RoleAt(s)
  BY DEF Inv
<1>2. ASSUME NEW n \in Named(s, attr)[attr]
      PROVE  \E o \in group[s][attr] : [id |-> o, name |-> n] \in borne[s]
  <2>1. PICK f \in Loaded(s, attr, "id", group[s][attr]) :
            n = f.name /\ f \in Found /\ f.id \in group[s][attr]
    BY <1>1, <1>2, NamedType
  <2>2. group[s][attr] \subseteq Ids
    BY <1>1, NamedType
  <2>3. \/ f \in Current
        \/ \E k \in DOMAIN cache[s][TableOf(attr)] : f = cache[s][TableOf(attr)][k]
    BY <1>1, <2>1, <2>2, LoadedFacts
  <2>4. f \in borne[s]
    BY <1>1, <2>3, KindFacts DEF RoleAt
  <2>5. f = [id |-> f.id, name |-> n]
    BY <2>1 DEF Found
  <2> QED
    BY <2>1, <2>4, <2>5
<1>3. \A other \in Attributes : other # attr => Named(s, attr)[other] = answer[s].names[other]
  BY <1>1, NamedType
<1> QED
  BY <1>1, <1>2, <1>3 DEF RoleAt

LEMMA TranslateAt ==
    ASSUME Inv, NEW s \in Slots, NEW attr \in Attributes, NEW step, TranslateGoes(s, attr, step)
    PROVE  TypeInv' /\ Others(s) /\ pc'[s] = step /\ RoleAt(s)'
<1>1. TypeInv /\ pc[s] \in RoleSteps /\ UNCHANGED <<ufds, req, found, group, history>>
  BY DEF Inv, TranslateGoes
<1>2. TypeInv' /\ pc'[s] = step /\ answer'[s].names = Named(s, attr)
  BY <1>1, TranslateGoesType
<1>3. /\ \A t \in Slots : t # s => cache'[t] = cache[t]
      /\ \A kind \in Kinds : \A k \in DOMAIN cache'[s][kind] :
            \/ cache'[s][kind][k] \in Current
            \/ k \in DOMAIN cache[s][kind] /\ cache'[s][kind][k] = cache[s][kind][k]
  <2>1. CacheLoaded(s, attr, "id", group[s][attr])
    BY DEF TranslateGoes
  <2> QED
    BY <1>1, <2>1, CacheType
<1>4. Others(s)
  <2>1. \A t \in Slots : t # s =>
            /\ pc'[t] = pc[t] /\ req'[t] = req[t] /\ cache'[t] = cache[t]
            /\ found'[t] = found[t] /\ group'[t] = group[t] /\ answer'[t] = answer[t]
    BY <1>1, <1>3 DEF TranslateGoes, Goto, TypeInv
  <2> QED
    BY <1>1, <2>1, OthersOf
<1>5. RoleAt(s) /\ borne'[s] = borne[s] /\ Current' = Current
  BY <1>1 DEF Inv, history, ufds, Current, Live
<1>6. \A kind \in Kinds : \A k \in DOMAIN cache'[s][kind] : cache'[s][kind][k] \in borne'[s]
  BY <1>3, <1>5 DEF RoleAt
<1>7. \A other \in Attributes : \A n \in answer'[s].names[other] :
          \E o \in group'[s][other] : [id |-> o, name |-> n] \in borne'[s]
  <2>1. group'[s] = group[s]
    BY <1>1
  <2> QED
    BY <1>1, <1>2, <1>5, <2>1, NamedAt
<1>8. pc'[s] \notin Before
  BY <1>2 DEF TranslateGoes
<1>9. \A other \in Attributes : \A f \in found'[s][other] :
          f \in borne'[s] /\ f.name \in UNION req'[s].names[other]
  BY <1>1, <1>5 DEF RoleAt
<1> QED
  BY <1>2, <1>4, <1>5, <1>6, <1>7, <1>8, <1>9 DEF RoleAt

\* The role was read or written: only what it refers to is new to the request.
LEMMA GroupAt ==
    ASSUME Inv, NEW s \in Slots, pc[s] \in Before, NEW step \in RoleSteps, Goto(s, step),
           UNCHANGED <<req, cache, found, answer>>, \A t \in Slots : t # s => group'[t] = group[t],
           (UNCHANGED <<ufds, history>>) \/ \E others : Witness(others)
    PROVE  Others(s) /\ pc'[s] = step /\ RoleAt(s)'
<1>1. pc[s] \in RoleSteps /\ TypeInv
  BY StepFacts DEF Inv
<1>2. RoleAt(s) /\ borne[s] \subseteq borne'[s] /\ Current' \subseteq borne'[s]
  BY <1>1, OwnBorne
<1>3. Others(s)
  <2>1. \A t \in Slots : t # s => pc'[t] = pc[t]
    BY <1>1 DEF Goto, TypeInv
  <2> QED
    BY <2>1, OthersOf
<1>4. answer'[s].names = Nothing
  BY <1>2 DEF RoleAt
<1>5. /\ \A kind \in Kinds : \A k \in DOMAIN cache'[s][kind] : cache'[s][kind][k] \in borne'[s]
      /\ \A attr \in Attributes : \A f \in found'[s][attr] :
            f \in borne'[s] /\ f.name \in UNION req'[s].names[attr]
  BY <1>2 DEF RoleAt
<1>6. pc'[s] = step
  BY <1>1 DEF Goto, TypeInv
<1> QED
  BY <1>2, <1>3, <1>4, <1>5, <1>6, NothingFacts DEF RoleAt

LEMMA RoleCases ==
    ASSUME Inv, NEW s \in Slots, AddRole(s) \/ GetRole(s) \/ ModifyRole(s)
    PROVE  /\ pc[s] \in {"addRole", "getRole", "modifyRole"}
           /\ \/ \E code \in {"404", "error"} : Refuse(s, code)
              \/ \E before \in Refs : WriteRole(s, before)
              \/ pc[s] = "getRole" /\ \E step \in {"modifyRole", "_loadMembers"} :
                    /\ group' = [group EXCEPT ![s] = roles[req[s].role].refs]
                    /\ Goto(s, step)
                    /\ UNCHANGED <<ufds, req, cache, found, answer, history>>
<1>1. pc[s] \in {"addRole", "getRole", "modifyRole"}
  BY DEF AddRole, GetRole, ModifyRole
<1>2. req[s].role \in RoleIds /\ roles[req[s].role].refs \in Refs
  <2>1. req[s] \in RoleRequest
    BY <1>1 DEF Inv, TypeInv, Fits, RoleSteps
  <2>2. req[s].role \in RoleIds
    BY <2>1, RequestFacts
  <2> QED
    BY <2>2 DEF Inv, TypeInv
<1>3. CASE \E code \in {"404", "error"} : Refuse(s, code)
  BY <1>1, <1>3
<1>4. CASE AddRole(s)
  BY <1>1, <1>4, NothingFacts DEF AddRole, Fail
<1>5. CASE ModifyRole(s)
  BY <1>1, <1>2, <1>5 DEF ModifyRole, Fail
<1>6. CASE GetRole(s) /\ ~\E code \in {"404", "error"} : Refuse(s, code)
  <2>1. /\ pc[s] = "getRole"
        /\ group' = [group EXCEPT ![s] = roles[req[s].role].refs]
        /\ Goto(s, IF req[s].op = "update" THEN "modifyRole" ELSE "_loadMembers")
        /\ UNCHANGED <<ufds, req, cache, found, answer, history>>
    BY <1>6 DEF GetRole, Fail
  <2>2. PICK step \in {"modifyRole", "_loadMembers"} : Goto(s, step)
    <3>1. CASE req[s].op = "update"
      BY <2>1, <3>1
    <3>2. CASE req[s].op # "update"
      BY <2>1, <3>2
    <3> QED
      BY <3>1, <3>2
  <2> QED
    BY <1>1, <2>1, <2>2
<1> QED
  BY <1>3, <1>4, <1>5, <1>6

LEMMA RoleStepAt ==
    ASSUME Inv, NEW s \in Slots, AddRole(s) \/ GetRole(s) \/ ModifyRole(s)
    PROVE  Others(s) /\ (pc'[s] \in RoleSteps => RoleAt(s)') /\ (pc'[s] = "idle" => IdleAt(s)')
<1>1. pc[s] \in Before /\ TypeInv
  BY RoleCases DEF Before, Inv
<1>2. CASE \E code \in {"404", "error"} : Refuse(s, code)
  BY <1>2, RefuseAt, StepFacts
<1>3. CASE \E before \in Refs : WriteRole(s, before)
  <2>1. PICK before \in Refs : WriteRole(s, before)
    BY <1>3
  <2>2. /\ Goto(s, "_loadMembers") /\ UNCHANGED <<req, cache, found, answer>>
        /\ \E others : Witness(others)
        /\ \A t \in Slots : t # s => group'[t] = group[t]
    BY <1>1, <2>1 DEF WriteRole, TypeInv
  <2>3. "_loadMembers" \in RoleSteps /\ "_loadMembers" # "idle"
    BY DEF RoleSteps
  <2> QED
    BY <1>1, <2>2, <2>3, GroupAt
<1>4. CASE \E step \in {"modifyRole", "_loadMembers"} :
            /\ group' = [group EXCEPT ![s] = roles[req[s].role].refs]
            /\ Goto(s, step)
            /\ UNCHANGED <<ufds, req, cache, found, answer, history>>
  <2>1. PICK step \in {"modifyRole", "_loadMembers"} :
            /\ group' = [group EXCEPT ![s] = roles[req[s].role].refs]
            /\ Goto(s, step)
            /\ UNCHANGED <<ufds, req, cache, found, answer, history>>
    BY <1>4
  <2>2. \A t \in Slots : t # s => group'[t] = group[t]
    BY <1>1, <2>1 DEF TypeInv
  <2>3. step \in RoleSteps /\ step # "idle"
    BY <2>1 DEF RoleSteps
  <2> QED
    BY <1>1, <2>1, <2>2, <2>3, GroupAt
<1> QED
  BY <1>2, <1>3, <1>4, RoleCases

LEMMA UserStepAt ==
    ASSUME Inv, NEW s \in Slots,
           \/ GetUser(s) \/ UpdateUser(s) \/ AnswerUser(s) \/ MapRoles(s) \/ MapDefaultRoles(s)
    PROVE  /\ Others(s) /\ pc[s] \in UserSteps
           /\ pc'[s] \in UserSteps \/ (pc'[s] = "idle" /\ IdleAt(s)')
<1>1. pc[s] \in UserSteps /\ TypeInv
  BY DEF GetUser, UpdateUser, AnswerUser, MapRoles, MapDefaultRoles, UserSteps, Inv
<1>2. CASE \E code, names : End(s, code, names) /\ UNCHANGED ufds
  BY <1>1, <1>2, EndAt
<1>3. CASE /\ \E step \in UserSteps : Goto(s, step)
           /\ \A t \in Slots : t # s =>
                 /\ req'[t] = req[t] /\ cache'[t] = cache[t]
                 /\ found'[t] = found[t] /\ group'[t] = group[t] /\ answer'[t] = answer[t]
           /\ (UNCHANGED <<ufds, history>>) \/ \E others : Witness(others)
  <2>1. pc'[s] \in UserSteps /\ \A t \in Slots : t # s => pc'[t] = pc[t]
    BY <1>1, <1>3 DEF Goto, TypeInv
  <2> QED
    BY <1>1, <1>3, <2>1, OthersOf
<1> SUFFICES ASSUME ~\E code, names : End(s, code, names) /\ UNCHANGED ufds
             PROVE  /\ \E step \in UserSteps : Goto(s, step)
                    /\ \A t \in Slots : t # s =>
                          /\ req'[t] = req[t] /\ cache'[t] = cache[t]
                          /\ found'[t] = found[t] /\ group'[t] = group[t]
                          /\ answer'[t] = answer[t]
                    /\ (UNCHANGED <<ufds, history>>) \/ \E others : Witness(others)
  BY <1>1, <1>2, <1>3
<1>4. {"updateUser", "roles", "answerUser", "defaultRoles"} \subseteq UserSteps
  BY DEF UserSteps
<1>5. CASE GetUser(s)
  <2>1. /\ found' = [found EXCEPT ![s] = [found[s] EXCEPT !["members"] = UserAt(req[s].path)]]
        /\ Goto(s, IF req[s].op = "updateUser" THEN "updateUser" ELSE "roles")
        /\ UNCHANGED <<ufds, req, cache, group, answer, history>>
    BY <1>5 DEF GetUser, Fail, Refuse
  <2>2. \E step \in UserSteps : Goto(s, step)
    <3>1. CASE req[s].op = "updateUser"
      BY <1>4, <2>1, <3>1
    <3>2. CASE req[s].op # "updateUser"
      BY <1>4, <2>1, <3>2
    <3> QED
      BY <3>1, <3>2
  <2> QED
    BY <1>1, <2>1, <2>2 DEF TypeInv
<1>6. CASE UpdateUser(s)
  <2>1. /\ Goto(s, "answerUser") /\ Witness(Slots \ {s})
        /\ UNCHANGED <<roles, req, cache, found, group, answer>>
    BY <1>6 DEF UpdateUser, Fail, Refuse
  <2> QED
    BY <1>4, <2>1
<1>7. ~AnswerUser(s)
  BY DEF AnswerUser, Fail, Refuse
<1>8. CASE MapRoles(s)
  <2>1. /\ answer' = [answer EXCEPT ![s] = [answer[s] EXCEPT !.names =
               [answer[s].names EXCEPT !["members"] = RolesWith("members", TheUser(s).id)]]]
        /\ Goto(s, "defaultRoles")
        /\ UNCHANGED <<ufds, req, cache, found, group, history>>
    BY <1>8 DEF MapRoles, Fail, Refuse
  <2> QED
    BY <1>1, <1>4, <2>1 DEF TypeInv
<1>9. ~MapDefaultRoles(s)
  BY DEF MapDefaultRoles, Fail, Refuse
<1> QED
  BY <1>5, <1>6, <1>7, <1>8, <1>9

LEMMA HandleAt ==
    ASSUME Inv, NEW s \in Slots, Handle(s)
    PROVE  Others(s) /\ (pc'[s] \in RoleSteps => RoleAt(s)') /\ (pc'[s] = "idle" => IdleAt(s)')
<1> TypeInv
  BY DEF Inv
<1>1. ASSUME NEW attr \in Attributes, Preload(s, attr)
      PROVE  Others(s) /\ (pc'[s] \in RoleSteps => RoleAt(s)') /\ (pc'[s] = "idle" => IdleAt(s)')
  <2>1. CASE \E code : Refuse(s, code)
    BY <2>1, RefuseAt, StepFacts
  <2>2. CASE \E step : PreloadGoes(s, attr, step)
    <3>1. PICK step : PreloadGoes(s, attr, step)
      BY <2>2
    <3>2. step # "idle"
      BY <3>1 DEF PreloadGoes, Before
    <3> QED
      BY <3>1, <3>2, PreloadAt
  <2> QED
    BY <1>1, <2>1, <2>2, PreloadCases
<1>2. ASSUME NEW attr \in Attributes, Translate(s, attr)
      PROVE  Others(s) /\ (pc'[s] \in RoleSteps => RoleAt(s)') /\ (pc'[s] = "idle" => IdleAt(s)')
  <2>1. CASE Refuse(s, "error")
    BY <2>1, RefuseAt, StepFacts
  <2>2. CASE \E step : TranslateGoes(s, attr, step)
    <3>1. PICK step : TranslateGoes(s, attr, step)
      BY <2>2
    <3>2. step # "idle"
      BY <3>1 DEF TranslateGoes, RoleSteps
    <3> QED
      BY <3>1, <3>2, TranslateAt
  <2>3. CASE End(s, "200", Named(s, attr)) /\ UNCHANGED ufds
    BY <2>3, EndAt, StepFacts
  <2> QED
    BY <1>2, <2>1, <2>2, <2>3, TranslateCases
<1>3. CASE AddRole(s) \/ GetRole(s) \/ ModifyRole(s)
  BY <1>3, RoleStepAt
<1>4. CASE \/ GetUser(s) \/ UpdateUser(s) \/ AnswerUser(s) \/ MapRoles(s) \/ MapDefaultRoles(s)
  BY <1>4, UserStepAt, StepFacts
<1> QED
  BY <1>1, <1>2, <1>3, <1>4 DEF Handle

LEMMA RequestAt ==
    ASSUME Inv, NEW s \in Slots, RequestRole(s) \/ RequestUser(s)
    PROVE  /\ Others(s) /\ pc[s] = "idle"
           /\ (pc'[s] \in RoleSteps => RoleAt(s)') /\ pc'[s] # "idle"
<1>1. CASE RequestUser(s)
  <2>1. PICK r \in UserRequest : Begin(s, r, "getUser")
    BY <1>1 DEF RequestUser
  <2>2. "getUser" \notin RoleSteps /\ "getUser" # "idle"
    BY DEF RoleSteps
  <2> QED
    BY <2>1, <2>2, BeginAt
<1>2. CASE RequestRole(s)
  <2>1. PICK r \in RoleRequest : Begin(s, r, IF r.op = "get" THEN "getRole" ELSE "_getPolicies")
    BY <1>2 DEF RequestRole
  <2>2. PICK step \in {"getRole", "_getPolicies"} : Begin(s, r, step)
    BY <2>1
  <2>3. step # "idle"
    BY <2>2
  <2> QED
    BY <2>2, <2>3, BeginAt
<1> QED
  BY <1>1, <1>2

OneCall ==
    \/ \E o \in UserIds : CreateUser(o) \/ DeleteUser(o)
    \/ \E o \in PolicyIds : CreatePolicy(o) \/ UpdatePolicy(o) \/ DeletePolicy(o)
    \/ \E r \in RoleIds : DeleteRole(r)

LEMMA OneCallAt ==
    ASSUME Inv, OneCall
    PROVE  Inv' /\ UNCHANGED <<pc, req, cache, found, group, answer>>
<1>1. TypeInv /\ TypeInv' /\ Witness(Slots) /\ UNCHANGED <<pc, req, cache, found, group, answer>>
  BY OneCallType DEF Inv, OneCall
<1>2. ASSUME NEW t \in Slots, pc'[t] \in RoleSteps PROVE RoleAt(t)'
  <2>1. pc[t] \in RoleSteps
    BY <1>1, <1>2
  <2>2. RoleAt(t) /\ borne[t] \subseteq borne'[t] /\ Current' \subseteq borne'[t]
    BY <1>1, <2>1, OwnBorne
  <2> QED
    BY <1>1, <2>2, KeepsAt
<1>3. ASSUME NEW t \in Slots, pc'[t] = "idle" PROVE IdleAt(t)'
  BY <1>1, <1>3 DEF Inv, IdleAt
<1>4. \A t \in Slots : pc'[t] \in RoleSteps => RoleAt(t)'
  BY <1>2
<1>5. \A t \in Slots : pc'[t] = "idle" => IdleAt(t)'
  BY <1>3
<1> QED
  BY <1>1, <1>4, <1>5 DEF Inv

\* A step is a request of one slot, new or under way, or a request of one call.
LEMMA NextCases ==
    Next => \/ \E s \in Slots : RequestRole(s) \/ RequestUser(s)
            \/ \E s \in Slots : Handle(s)
            \/ OneCall
  BY DEF Next, OneCall, Slots

LEMMA InitInv == Init => Inv
<1> SUFFICES ASSUME Init PROVE Inv
  OBVIOUS
<1>1. TypeInv
  BY InitType
<1>2. \A s \in Slots : pc[s] = "idle" /\ IdleAt(s)
  BY DEF Init, IdleAt
<1> QED
  BY <1>1, <1>2, StepFacts DEF Inv

LEMMA InvStep == Inv /\ [Next]_vars => Inv'
<1> SUFFICES ASSUME Inv, [Next]_vars PROVE Inv'
  OBVIOUS
<1>1. TypeInv'
  BY TypeStep DEF Inv
<1>2. CASE UNCHANGED vars
  <2>1. UNCHANGED <<pc, req, cache, found, group, answer, ufds, history>>
    BY <1>2 DEF vars, ufds, history
  <2>2. Current' = Current /\ borne' = borne
    BY <2>1 DEF ufds, history, Current, Live
  <2>3. ASSUME NEW t \in Slots, pc'[t] \in RoleSteps PROVE RoleAt(t)'
    <3>1. RoleAt(t) /\ Current' \subseteq borne'[t]
      BY <2>1, <2>2, <2>3 DEF Inv, RoleAt
    <3> QED
      BY <2>1, <2>2, <3>1, KeepsAt
  <2>4. ASSUME NEW t \in Slots, pc'[t] = "idle" PROVE IdleAt(t)'
    BY <2>1, <2>4 DEF Inv, IdleAt
  <2>5. /\ \A t \in Slots : pc'[t] \in RoleSteps => RoleAt(t)'
        /\ \A t \in Slots : pc'[t] = "idle" => IdleAt(t)'
    BY <2>3, <2>4
  <2> QED
    BY <1>1, <2>5 DEF Inv
<1>3. CASE \E s \in Slots : RequestRole(s) \/ RequestUser(s)
  BY <1>1, <1>3, RequestAt, InvOfSlot
<1>4. CASE \E s \in Slots : Handle(s)
  BY <1>1, <1>4, HandleAt, InvOfSlot
<1>5. CASE OneCall
  BY <1>5, OneCallAt
<1> QED
  BY <1>2, <1>3, <1>4, <1>5, NextCases

-----------------------------------------------------------------------------
\* The step of a request on a role that is about to be written or answered.
LEMMA OwnStep ==
    ASSUME Inv, [Next]_vars, NEW s \in Slots, pc[s] # "idle", pc'[s] # pc[s]
    PROVE  Handle(s)
<1>1. CASE UNCHANGED vars
  BY <1>1 DEF vars
<1>2. CASE \E t \in Slots : RequestRole(t) \/ RequestUser(t)
  BY <1>2, RequestAt DEF Others
<1>3. CASE \E t \in Slots : Handle(t)
  BY <1>3, HandleAt DEF Others
<1>4. CASE OneCall
  BY <1>4, OneCallAt
<1> QED
  BY <1>1, <1>2, <1>3, <1>4, NextCases

LEMMA GivenStep ==
    ASSUME Inv, [Next]_vars, NEW s \in Slots, NEW attr \in Attributes,
           pc[s] \in {"addRole", "modifyRole"}, pc'[s] = "_loadMembers",
           req[s].names[attr] # {}
    PROVE  /\ roles'[req[s].role].refs[attr] \subseteq IdsOf(attr)
           /\ \A o \in roles'[req[s].role].refs[attr] :
                \E n \in UNION req[s].names[attr] : [id |-> o, name |-> n] \in borne[s]
<1>1. Handle(s) /\ TypeInv /\ pc[s] \in RoleSteps
  BY OwnStep DEF Inv, RoleSteps
<1>2. AddRole(s) \/ GetRole(s) \/ ModifyRole(s)
  <2>1. \A other \in Attributes : ~Preload(s, other) /\ ~Translate(s, other)
    BY <1>1, PreloadCases, TranslateCases
  <2>2. ~(GetUser(s) \/ UpdateUser(s) \/ AnswerUser(s) \/ MapRoles(s) \/ MapDefaultRoles(s))
    BY DEF GetUser, UpdateUser, AnswerUser, MapRoles, MapDefaultRoles
  <2> QED
    BY <1>1, <2>1, <2>2 DEF Handle
<1>3. PICK before \in Refs : WriteRole(s, before)
  <2>1. ~\E code \in {"404", "error"} : Refuse(s, code)
    BY RefuseAt
  <2> QED
    BY <1>2, <2>1, RoleCases
<1>4. roles'[req[s].role].refs = Written(s, before)
  BY <1>1, <1>3, WriteRoleType
<1>5. roles'[req[s].role].refs[attr] = {f.id : f \in found[s][attr]}
  BY <1>4 DEF Written
<1>6. ASSUME NEW f \in found[s][attr]
      PROVE  /\ f.id \in IdsOf(attr) /\ f.name \in UNION req[s].names[attr]
             /\ [id |-> f.id, name |-> f.name] \in borne[s]
  <2>1. f \in borne[s] /\ f.name \in UNION req[s].names[attr]
    BY <1>1 DEF Inv, RoleAt
  <2>2. f \in Found /\ f.id \in IdsOf(attr)
    BY <1>1 DEF TypeInv, FoundIn
  <2>3. f = [id |-> f.id, name |-> f.name]
    BY <2>2 DEF Found
  <2> QED
    BY <2>1, <2>2, <2>3
<1> QED
  BY <1>5, <1>6

\* A request ends by a step of its own.
LEMMA EndStep ==
    ASSUME Inv, [Next]_vars, NEW s \in Slots, req[s] # NoRequest, req'[s] = NoRequest
    PROVE  Handle(s) /\ pc[s] # "idle" /\ pc'[s] = "idle"
<1>1. TypeInv /\ TypeInv'
  BY TypeStep DEF Inv
<1>2. NoRequest \notin RoleRequest \cup UserRequest
  BY DEF NoRequest, RoleRequest, UserRequest, RoleOps
<1>3. pc'[s] \in Steps /\ Fits(req'[s], pc'[s]) /\ pc[s] # "idle"
  BY <1>1 DEF TypeInv, Fits
<1>4. pc'[s] = "idle"
  BY <1>2, <1>3, StepFacts DEF Fits
<1> QED
  BY <1>3, <1>4, OwnStep

LEMMA RoleEnd ==
    ASSUME Inv, [Next]_vars, NEW s \in Slots, req[s].op \in RoleOps, req'[s] = NoRequest
    PROVE  /\ req[s] \in RoleRequest /\ pc[s] \in RoleSteps /\ Handle(s) /\ pc'[s] = "idle"
           /\ ~(GetUser(s) \/ UpdateUser(s) \/ AnswerUser(s) \/ MapRoles(s) \/ MapDefaultRoles(s))
<1>1. TypeInv
  BY DEF Inv
<1>2. req[s] \in RoleRequest /\ req[s] # NoRequest
  BY <1>1, RequestFacts DEF TypeInv
<1>3. Handle(s) /\ pc[s] # "idle" /\ pc'[s] = "idle"
  BY <1>2, EndStep
<1>4. pc[s] \notin UserSteps /\ pc[s] \in Steps
  BY <1>1, <1>2, RequestFacts DEF TypeInv, Fits
<1> QED
  BY <1>2, <1>3, <1>4, UserStepAt, StepFacts

\* An answer is given once the policies have been translated.
LEMMA RoleAnswer ==
    ASSUME Inv, [Next]_vars, NEW s \in Slots, Answers(s, RoleOps)
    PROVE  /\ req[s] \in RoleRequest /\ pc[s] = "_loadPolicies"
           /\ answer'[s].names = Named(s, "policies")
<1>1. TypeInv /\ answer'[s].code = "200"
  BY DEF Inv, Answers
<1>2. /\ req[s] \in RoleRequest /\ pc[s] \in RoleSteps /\ Handle(s) /\ pc'[s] = "idle"
      /\ ~(GetUser(s) \/ UpdateUser(s) \/ AnswerUser(s) \/ MapRoles(s) \/ MapDefaultRoles(s))
  BY RoleEnd DEF Answers
<1>3. PICK attr \in Attributes : Translate(s, attr)
  <2>1. ASSUME NEW attr \in Attributes PROVE ~Preload(s, attr)
    <3>1. ~\E code \in {"409", "error"} : Refuse(s, code)
      BY <1>1, RefuseAt
    <3>2. ~\E step : PreloadGoes(s, attr, step)
      <4>1. ASSUME NEW step PROVE ~PreloadGoes(s, attr, step)
        BY <1>2, PreloadAt DEF PreloadGoes, Before
      <4> QED
        BY <4>1
    <3> QED
      BY <1>1, <3>1, <3>2, PreloadCases
  <2>2. ~(AddRole(s) \/ GetRole(s) \/ ModifyRole(s))
    <3>1. ~\E code \in {"404", "error"} : Refuse(s, code)
      BY <1>1, RefuseAt
    <3>2. ~\E before \in Refs : WriteRole(s, before)
      BY <1>1, <1>2, WriteRoleType
    <3>3. ~\E step \in {"modifyRole", "_loadMembers"} : Goto(s, step)
      BY <1>1, <1>2 DEF Goto, TypeInv
    <3> QED
      BY <3>1, <3>2, <3>3, RoleCases
  <2> QED
    BY <1>2, <2>1, <2>2 DEF Handle
<1>4. ~Refuse(s, "error")
  BY <1>1, RefuseAt
<1>5. ASSUME NEW step PROVE ~Goto(s, step) \/ step = "idle"
  BY <1>1, <1>2 DEF Goto, TypeInv
<1>6. attr = "policies" /\ pc[s] = Loading[attr] /\ End(s, "200", Named(s, "policies")) /\ UNCHANGED ufds
  <2>1. AfterTranslate(attr) # "idle"
    BY DEF AfterTranslate
  <2> QED
    BY <1>3, <1>4, <1>5, <2>1 DEF Translate, Named, Fail
<1>7. answer'[s].names = Named(s, "policies")
  BY <1>6, EndAt
<1> QED
  BY <1>2, <1>6, <1>7 DEF Loading

LEMMA AnswerStep ==
    ASSUME Inv, [Next]_vars, NEW s \in Slots, Answers(s, RoleOps)
    PROVE  \A attr \in Attributes : \A n \in answer'[s].names[attr] :
                \E o \in group[s][attr] : [id |-> o, name |-> n] \in borne[s]
<1>1. pc[s] \in RoleSteps /\ "policies" \in Attributes
  BY RoleAnswer DEF RoleSteps, Attributes
<1> QED
  BY <1>1, RoleAnswer, NamedAt

\* The properties of Members about what a role is given and what an answer shows: names
\* that are taken over while a request runs never put one user in the place of another.
THEOREM Given == Spec => GivenAsNamed
<1>1. Inv /\ [Next]_vars =>
        [\A s \in Slots : \A attr \in Attributes :
            /\ pc[s] \in {"addRole", "modifyRole"} /\ pc'[s] = "_loadMembers"
            /\ req[s].names[attr] # {}
            => /\ roles'[req[s].role].refs[attr] \subseteq IdsOf(attr)
               /\ \A o \in roles'[req[s].role].refs[attr] :
                    \E n \in UNION req[s].names[attr] : [id |-> o, name |-> n] \in borne[s]]_vars
  BY GivenStep
<1> QED
  BY <1>1, InitInv, InvStep, PTL DEF Spec, GivenAsNamed

\* An answer gives each member a name that it bore during the request, whatever happens
\* meanwhile.
THEOREM Borne == Spec => AnsweredAsBorne
<1>1. Inv /\ [Next]_vars =>
        [\A s \in Slots : Answers(s, RoleOps) =>
            \A attr \in Attributes : \A n \in answer'[s].names[attr] :
                \E o \in group[s][attr] : [id |-> o, name |-> n] \in borne[s]]_vars
  BY AnswerStep
<1> QED
  BY <1>1, InitInv, InvStep, PTL DEF Spec, AnsweredAsBorne

-----------------------------------------------------------------------------
(* Undisturbed requests. Until another request writes, what a request has  *)
(* read is what UFDS holds, but for what it wrote itself.                  *)

\* A login is borne by one user, and a name by one policy.
Unique ==
    \A attr \in Attributes : \A o, p \in Live \cap IdsOf(attr) : name[o] = name[p] => o = p

NamesOf(ids) == {name[o] : o \in ids \cap Live}

\* The steps at which the names of an attribute are still to be looked up, and those
\* at which the answer has the names of its ids.
ToLookUp ==
    [policies |-> {"_getPolicies"},
     members |-> {"_getPolicies", "_getMembers"},
     default_members |-> {"_getPolicies", "_getMembers", "_getDefaultMembers"}]

Translated ==
    [members |-> {"_loadDefaultMembers", "_loadPolicies"},
     default_members |-> {"_loadPolicies"},
     policies |-> {}]

LookUps == {"_getPolicies", "_getMembers", "_getDefaultMembers"}

Loads == {"_loadMembers", "_loadDefaultMembers", "_loadPolicies"}

\* A GET names nobody, and a POST does not read the role.
AskedAt(s) ==
    /\ req[s].op = "get" => req[s].names = Nothing
    /\ pc[s] = "getRole" => req[s].op # "create"

\* Records in the cache are as UFDS has them.
FreshAt(s) == \A kind \in Kinds : \A k \in DOMAIN cache[s][kind] : cache[s][kind][k] \in Current

\* The names that came have been looked up, and everybody was found.
LookedUpAt(s) ==
    /\ \A attr \in Attributes : pc[s] \notin ToLookUp[attr] =>
        found[s][attr] = Search(attr, "name", UNION req[s].names[attr])
    /\ pc[s] \notin LookUps => Verified(s, found[s])

\* The role is as it was read, or written with what was found.
WrittenAt(s) == pc[s] \in Loads =>
    /\ group[s] = roles[req[s].role].refs
    /\ \A attr \in Attributes :
        req[s].names[attr] # {} => group[s][attr] = {f.id : f \in found[s][attr]}

TranslatedAt(s) == \A attr \in Attributes :
    pc[s] \in Translated[attr] => answer[s].names[attr] = NamesOf(group[s][attr])

RoleKnown(s) == AskedAt(s) /\ FreshAt(s) /\ LookedUpAt(s) /\ WrittenAt(s) /\ TranslatedAt(s)

\* A request on a user is about the one that its path names; this holds whoever writes.
UserAsked(s) ==
    /\ pc[s] \in {"updateUser", "answerUser"} => req[s].op = "updateUser"
    /\ pc[s] \in {"roles", "defaultRoles"} => req[s].op = "getUser"
    /\ pc[s] \in UserSteps \ {"getUser"} =>
        /\ found[s]["members"] # {}
        /\ \A f \in found[s]["members"] : req[s].path \in {f.id, f.name}

\* Before the update the user is as it was found; after it, it has the login asked for,
\* and nobody else has the one of the path.
UserKnown(s) ==
    /\ pc[s] = "updateUser" => TheUser(s) \in Current
    /\ pc[s] = "answerUser" =>
        /\ TheUser(s).id \in Live
        /\ req[s].path \in Names =>
            /\ \A o \in Live \cap UserIds : name[o] = req[s].path => o = TheUser(s).id
            /\ req[s].login \in {{}, {req[s].path}} => name[TheUser(s).id] = req[s].path
    /\ pc[s] = "defaultRoles" =>
        answer[s].names["members"] = RolesWith("members", TheUser(s).id)

KnownAt(s) ==
    /\ UserAsked(s)
    /\ alone[s] => UserKnown(s) /\ (pc[s] \in RoleSteps => RoleKnown(s))

AloneInv == Unique /\ \A s \in Slots : KnownAt(s)

LEMMA CurrentFacts ==
    ASSUME TypeInv
    PROVE  /\ \A f \in Current : /\ f \in Found /\ f.id \in Live /\ f.id \in Ids
                                 /\ f.name = name[f.id] /\ f.name \in Names
                                 /\ f = [id |-> f.id, name |-> f.name]
           /\ \A f, g \in Current : f.id = g.id => f = g
           /\ \A o \in Live : [id |-> o, name |-> name[o]] \in Current
  BY DEF Current, Live, Found, TypeInv

\* What a fresh cache and a search find together is what a search for all finds.
LEMMA LoadedFresh ==
    ASSUME TypeInv, Unique, NEW s \in Slots, FreshAt(s),
           NEW attr \in Attributes, NEW by \in {"id", "name"}, NEW keys,
           by = "id" => keys \subseteq Ids, by = "name" => keys \subseteq Names
    PROVE  Loaded(s, attr, by, keys) = Search(attr, by, keys)
<1>1. ASSUME NEW ks, ks \subseteq keys, NEW f \in Loaded(s, attr, by, ks)
      PROVE  f \in Current /\ f.id \in IdsOf(attr) /\ f[by] \in ks
  <2>1. /\ f \in FoundIn(attr) /\ f[by] \in ks
        /\ \/ f \in Current
           \/ \E k \in DOMAIN cache[s][TableOf(attr)] : f = cache[s][TableOf(attr)][k]
    BY <1>1, LoadedFacts
  <2> QED
    BY <2>1, KindFacts DEF FreshAt, FoundIn
<1>2. Loaded(s, attr, by, keys) \subseteq Search(attr, by, keys)
  BY <1>1 DEF Search
<1>3. ASSUME NEW f \in Search(attr, by, keys), f[by] \notin Missing(s, attr, keys)
      PROVE  f \in Loaded(s, attr, by, keys)
  <2>1. f \in Current /\ f.id \in IdsOf(attr) /\ f[by] \in keys
    BY <1>3 DEF Search
  <2>2. PICK k \in keys : k = f[by] /\ k \in DOMAIN cache[s][TableOf(attr)]
    BY <1>3, <2>1 DEF Missing
  <2>3. PICK g : g = cache[s][TableOf(attr)][k]
    OBVIOUS
  <2>4. g \in Loaded(s, attr, by, {k}) /\ g \in Loaded(s, attr, by, keys)
    BY <2>2, <2>3 DEF Loaded, Missing
  <2>5. g \in Current /\ g.id \in IdsOf(attr) /\ g[by] = k
    BY <1>1, <2>4
  <2>6. f = g
    <3>1. CASE by = "id"
      BY <2>1, <2>2, <2>5, <3>1, CurrentFacts
    <3>2. CASE by = "name"
      <4>1. /\ f.id \in Live \cap IdsOf(attr) /\ g.id \in Live \cap IdsOf(attr)
            /\ name[f.id] = name[g.id]
        BY <2>1, <2>2, <2>5, <3>2, CurrentFacts
      <4>2. f.id = g.id
        BY <4>1 DEF Unique
      <4> QED
        BY <2>1, <2>5, <4>2, CurrentFacts
    <3> QED
      BY <3>1, <3>2
  <2> QED
    BY <2>4, <2>6
<1>4. ASSUME NEW f \in Search(attr, by, keys), f[by] \in Missing(s, attr, keys)
      PROVE  f \in Loaded(s, attr, by, keys)
  BY <1>4 DEF Search, Loaded
<1> QED
  BY <1>2, <1>3, <1>4

\* The names of the ids of an attribute are those that the search for them finds.
LEMMA NamesFound ==
    ASSUME TypeInv, NEW attr \in Attributes, NEW ids, ids \subseteq IdsOf(attr)
    PROVE  {f.name : f \in Search(attr, "id", ids)} = NamesOf(ids)
<1>1. \A f \in Search(attr, "id", ids) : f.id \in ids \cap Live /\ f.name = name[f.id]
  BY CurrentFacts DEF Search
<1>2. \A o \in ids \cap Live : [id |-> o, name |-> name[o]] \in Search(attr, "id", ids)
  BY CurrentFacts DEF Search
<1>3. \A o \in ids \cap Live : \E f \in Search(attr, "id", ids) : f.name = name[o]
  BY <1>2
<1> QED
  BY <1>1, <1>3 DEF NamesOf

LEMMA NamesBack ==
    ASSUME TypeInv, NEW records, records \subseteq Current
    PROVE  NamesOf({f.id : f \in records}) = {f.name : f \in records}
<1>1. \A f \in records : f.id \in Live /\ f.name = name[f.id]
  BY CurrentFacts
<1> QED
  BY <1>1 DEF NamesOf

-----------------------------------------------------------------------------
\* A login or name that was vacant is borne once.
LEMMA UniqueRename ==
    ASSUME TypeInv, Unique, NEW attr \in Attributes, NEW o \in IdsOf(attr), NEW n \in Names,
           Vacant(n, IdsOf(attr) \ {o}), name' = [name EXCEPT ![o] = n]
    PROVE  Unique'
<1>1. o \in Ids /\ name \in [Ids -> Names \cup {"unborn", "deleted"}]
  BY KindFacts DEF TypeInv
<1>2. \A p \in Ids : name'[p] = IF p = o THEN n ELSE name[p]
  BY <1>1
<1>3. ASSUME NEW other \in Attributes, NEW p \in Live' \cap IdsOf(other),
             NEW q \in Live' \cap IdsOf(other), name'[p] = name'[q]
      PROVE  p = q
  <2>1. p \in Ids /\ q \in Ids /\ name'[p] \in Names /\ name'[q] \in Names
    BY <1>3 DEF Live
  <2>2. CASE p # o /\ q # o
    <3>1. p \in Live \cap IdsOf(other) /\ q \in Live \cap IdsOf(other) /\ name[p] = name[q]
      BY <1>2, <1>3, <2>1, <2>2 DEF Live
    <3> QED
      BY <3>1 DEF Unique
  <2>3. ASSUME NEW r \in Live' \cap IdsOf(other), r # o, o \in IdsOf(other), name'[r] = n
        PROVE  FALSE
    <3>1. r \in IdsOf(attr)
      BY <2>3, MembersAssumption DEF IdsOf
    <3>2. r \in Live /\ name[r] = n
      BY <1>2, <2>3 DEF Live
    <3> QED
      BY <2>3, <3>1, <3>2 DEF Vacant
  <2> QED
    BY <1>2, <1>3, <2>1, <2>2, <2>3
<1>4. \A other \in Attributes : \A p, q \in Live' \cap IdsOf(other) : name'[p] = name'[q] => p = q
  BY <1>3
<1> QED
  BY <1>4 DEF Unique, IdsOf

LEMMA UniqueLess ==
    ASSUME TypeInv, Unique, NEW o \in Ids, name' = [name EXCEPT ![o] = "deleted"]
    PROVE  Unique'
<1>1. "deleted" \notin Names
  BY MembersAssumption
<1>2. \A p \in Live' : p \in Live /\ name'[p] = name[p]
  BY <1>1 DEF Live, TypeInv
<1> QED
  BY <1>2 DEF Unique, IdsOf

LEMMA UniqueSame ==
    ASSUME Unique, name' = name
    PROVE  Unique'
  BY DEF Unique, Live, IdsOf

-----------------------------------------------------------------------------
\* What a step leaves of what a request knew.
SameAt(t) ==
    /\ pc'[t] = pc[t] /\ req'[t] = req[t] /\ cache'[t] = cache[t]
    /\ found'[t] = found[t] /\ group'[t] = group[t] /\ answer'[t] = answer[t]

LEMMA SameUfds ==
    ASSUME UNCHANGED name
    PROVE  /\ Current' = Current /\ Live' = Live
           /\ \A attr, by, keys : Search(attr, by, keys)' = Search(attr, by, keys)
           /\ \A ids : NamesOf(ids)' = NamesOf(ids)
  BY DEF Current, Live, Search, NamesOf, IdsOf

LEMMA SameRoles ==
    ASSUME UNCHANGED roles
    PROVE  \A attr, o : RolesWith(attr, o)' = RolesWith(attr, o)
  BY DEF RolesWith, LiveRoles

LEMMA AskedKept ==
    ASSUME NEW t \in Slots, UserAsked(t), SameAt(t)
    PROVE  UserAsked(t)'
  BY DEF UserAsked, SameAt

LEMMA KnownKept ==
    ASSUME NEW t \in Slots, KnownAt(t), SameAt(t), alone'[t] => alone[t] /\ UNCHANGED ufds
    PROVE  KnownAt(t)'
<1>1. UserAsked(t)'
  BY AskedKept DEF KnownAt
<1> SUFFICES ASSUME alone'[t]
             PROVE  UserKnown(t)' /\ (pc'[t] \in RoleSteps => RoleKnown(t)')
  BY <1>1 DEF KnownAt
<1>2. UserKnown(t) /\ (pc[t] \in RoleSteps => RoleKnown(t)) /\ UNCHANGED name /\ UNCHANGED roles
  BY DEF KnownAt, ufds
<1>3. TheUser(t)' = TheUser(t)
  BY DEF TheUser, SameAt
<1>4. UserKnown(t)'
  <2>1. /\ pc'[t] = pc[t] /\ req'[t] = req[t] /\ answer'[t] = answer[t]
        /\ Current' = Current /\ Live' = Live /\ name' = name
        /\ RolesWith("members", TheUser(t).id)' = RolesWith("members", TheUser(t).id)
    BY <1>2, <1>3, SameUfds, SameRoles DEF SameAt
  <2> QED
    BY <1>2, <1>3, <2>1 DEF UserKnown
<1>5. ASSUME pc'[t] \in RoleSteps PROVE RoleKnown(t)'
  <2>1. RoleKnown(t)
    BY <1>2, <1>5 DEF SameAt
  <2>2. FreshAt(t)'
    BY <1>2, <2>1, SameUfds DEF RoleKnown, FreshAt, SameAt
  <2>3. LookedUpAt(t)'
    <3>1. pc'[t] = pc[t] /\ req'[t] = req[t] /\ found'[t] = found[t]
      BY DEF SameAt
    <3>2. ASSUME NEW attr \in Attributes, pc'[t] \notin ToLookUp[attr]
          PROVE  found'[t][attr] = Search(attr, "name", UNION req[t].names[attr])'
      <4>1. found[t][attr] = Search(attr, "name", UNION req[t].names[attr])
        BY <2>1, <3>1, <3>2 DEF RoleKnown, LookedUpAt
      <4> QED
        BY <1>2, <3>1, <4>1, SameUfds
    <3>3. Verified(t, found[t])' <=> Verified(t, found[t])
      BY <3>1 DEF Verified
    <3> QED
      BY <2>1, <3>1, <3>2, <3>3 DEF RoleKnown, LookedUpAt
  <2>4. WrittenAt(t)'
    <3> SUFFICES ASSUME pc'[t] \in Loads
                 PROVE  /\ group'[t] = roles'[req'[t].role].refs
                        /\ \A attr \in Attributes : req'[t].names[attr] # {} =>
                              group'[t][attr] = {f.id : f \in found'[t][attr]}
      BY DEF WrittenAt
    <3>1. /\ group[t] = roles[req[t].role].refs
          /\ \A attr \in Attributes : req[t].names[attr] # {} =>
                group[t][attr] = {f.id : f \in found[t][attr]}
      BY <2>1 DEF RoleKnown, WrittenAt, SameAt
    <3>2. req'[t] = req[t] /\ group'[t] = group[t] /\ found'[t] = found[t] /\ roles' = roles
      BY <1>2 DEF SameAt
    <3> QED
      BY <3>1, <3>2
  <2>5. TranslatedAt(t)'
    BY <1>2, <2>1, SameUfds DEF RoleKnown, TranslatedAt, SameAt
  <2>6. AskedAt(t)'
    BY <2>1 DEF RoleKnown, AskedAt, SameAt
  <2> QED
    BY <2>2, <2>3, <2>4, <2>5, <2>6 DEF RoleKnown
<1> QED
  BY <1>4, <1>5

\* A request that ended knows nothing.
LEMMA KnownEnd ==
    ASSUME NEW s \in Slots, pc'[s] = "idle"
    PROVE  KnownAt(s)'
  BY DEF KnownAt, UserAsked, UserKnown, UserSteps, RoleSteps

LEMMA KnownBegin ==
    ASSUME Inv, NEW s \in Slots, RequestRole(s) \/ RequestUser(s)
    PROVE  KnownAt(s)' /\ UNCHANGED ufds /\ \A t \in Slots : t # s => alone'[t] = alone[t]
<1>1. TypeInv /\ pc[s] = "idle" /\ IdleAt(s)
  BY RequestAt DEF Inv
<1>2. CASE RequestUser(s)
  <2>1. PICK r \in UserRequest : Begin(s, r, "getUser")
    BY <1>2 DEF RequestUser
  <2>2. /\ pc'[s] = "getUser" /\ UNCHANGED ufds
        /\ \A t \in Slots : t # s => alone'[t] = alone[t]
    BY <1>1, <2>1 DEF Begin, TypeInv
  <2> QED
    BY <2>2 DEF KnownAt, UserAsked, UserKnown, UserSteps, RoleSteps
<1>3. CASE RequestRole(s)
  <2>1. PICK r \in RoleRequest :
            /\ r.op = "get" => r.names = Nothing
            /\ Begin(s, r, IF r.op = "get" THEN "getRole" ELSE "_getPolicies")
    BY <1>3 DEF RequestRole
  <2>2. /\ req'[s] = r /\ UNCHANGED ufds /\ cache'[s] = EmptyCache /\ found'[s] = Nothing
        /\ \A t \in Slots : t # s => alone'[t] = alone[t]
        /\ pc'[s] = IF r.op = "get" THEN "getRole" ELSE "_getPolicies"
    BY <1>1, <2>1 DEF Begin, TypeInv, IdleAt
  <2>3. pc'[s] \in {"getRole", "_getPolicies"} /\ (pc'[s] = "getRole" => r.op = "get")
    BY <2>2
  <2>4. AskedAt(s)'
    BY <2>1, <2>2, <2>3 DEF AskedAt
  <2>5. FreshAt(s)'
    BY <2>2, NothingFacts DEF FreshAt
  <2>6. LookedUpAt(s)'
    <3>1. CASE pc'[s] = "_getPolicies"
      BY <3>1 DEF LookedUpAt, ToLookUp, LookUps, Attributes
    <3>2. CASE pc'[s] = "getRole"
      <4>1. \A attr \in Attributes : req'[s].names[attr] = {} /\ found'[s][attr] = {}
        BY <2>1, <2>2, <2>3, <3>2, NothingFacts
      <4>2. \A attr \in Attributes : Search(attr, "name", UNION req[s].names[attr])' = {}
        BY <4>1 DEF Search
      <4> QED
        BY <4>1, <4>2 DEF LookedUpAt, Verified
    <3> QED
      BY <2>3, <3>1, <3>2
  <2>7. WrittenAt(s)' /\ TranslatedAt(s)'
    BY <2>3 DEF WrittenAt, TranslatedAt, Loads, Translated, Attributes
  <2>8. UserAsked(s)' /\ UserKnown(s)'
    BY <2>3 DEF UserAsked, UserKnown, UserSteps
  <2> QED
    BY <2>2, <2>4, <2>5, <2>6, <2>7, <2>8 DEF KnownAt, RoleKnown
<1> QED
  BY <1>2, <1>3

LEMMA PreloadOn ==
    ASSUME TypeInv, NEW s \in Slots, NEW attr \in Attributes, Preload(s, attr), pc'[s] # "idle"
    PROVE  /\ pc[s] = Getting[attr] /\ PreloadGoes(s, attr, AfterPreload(s, attr))
           /\ AfterPreload(s, attr) \in {"_getMembers", "_getDefaultMembers", "addRole", "getRole"}
           /\ attr = "default_members" => Verified(s, found'[s])
<1>1. ~\E code : Refuse(s, code)
  BY DEF Refuse, End, TypeInv
<1>2. /\ pc[s] = Getting[attr]
      /\ attr = "default_members" =>
            Verified(s, [found[s] EXCEPT ![attr] = Loaded(s, attr, "name", UNION req[s].names[attr])])
      /\ found' = [found EXCEPT ![s] =
            [found[s] EXCEPT ![attr] = Loaded(s, attr, "name", UNION req[s].names[attr])]]
      /\ CacheLoaded(s, attr, "name", UNION req[s].names[attr])
      /\ Goto(s, AfterPreload(s, attr))
      /\ UNCHANGED <<ufds, req, group, answer, history>>
  BY <1>1 DEF Preload, Fail
<1>3. pc[s] \in Before
  BY <1>2, KindFacts DEF Before
<1>4. AfterPreload(s, attr) \in {"_getMembers", "_getDefaultMembers", "addRole", "getRole"}
  BY DEF AfterPreload, Attributes
<1>5. found'[s] = [found[s] EXCEPT ![attr] = Loaded(s, attr, "name", UNION req[s].names[attr])]
  BY <1>2 DEF TypeInv
<1> QED
  BY <1>2, <1>3, <1>4, <1>5 DEF PreloadGoes, Before

\* Preload with nobody else writing: what was found is what there is.
LEMMA KnownPreload ==
    ASSUME Inv, Unique, NEW s \in Slots, KnownAt(s), NEW attr \in Attributes, Preload(s, attr),
           pc'[s] # "idle"
    PROVE  KnownAt(s)'
<1> DEFINE step == AfterPreload(s, attr)
<1>1. /\ TypeInv /\ pc[s] = Getting[attr] /\ PreloadGoes(s, attr, step)
      /\ step \in {"_getMembers", "_getDefaultMembers", "addRole", "getRole"}
      /\ attr = "default_members" => Verified(s, found'[s])
  BY PreloadOn DEF Inv
<1>2. /\ pc'[s] = step /\ req[s] \in RoleRequest
      /\ found'[s][attr] = Loaded(s, attr, "name", UNION req[s].names[attr])
      /\ \A other \in Attributes : other # attr => found'[s][other] = found[s][other]
      /\ UNCHANGED <<ufds, req, group, answer, history>>
  BY <1>1, PreloadGoesType DEF PreloadGoes
<1>3. pc[s] \in RoleSteps /\ pc[s] \in LookUps
  BY <1>1, KindFacts DEF RoleSteps, LookUps
<1>4. UserAsked(s)' /\ UserKnown(s)'
  BY <1>1, <1>2 DEF UserAsked, UserKnown, UserSteps
<1> SUFFICES ASSUME alone[s] PROVE RoleKnown(s)'
  BY <1>2, <1>4 DEF KnownAt, history
<1>5. RoleKnown(s)
  BY <1>3 DEF KnownAt
<1>6. UNCHANGED name
  BY <1>2 DEF ufds
<1>7. FreshAt(s)'
  <2>1. \A kind \in Kinds : \A k \in DOMAIN cache'[s][kind] :
            \/ cache'[s][kind][k] \in Current
            \/ k \in DOMAIN cache[s][kind] /\ cache'[s][kind][k] = cache[s][kind][k]
    <3>1. CacheLoaded(s, attr, "name", UNION req[s].names[attr])
      BY <1>1 DEF PreloadGoes
    <3> QED
      BY <1>1, <3>1, CacheType
  <2> QED
    BY <1>5, <1>6, <2>1, SameUfds DEF FreshAt, RoleKnown
<1>8. LookedUpAt(s)'
  <2>1. found'[s][attr] = Search(attr, "name", UNION req[s].names[attr])
    <3>1. UNION req[s].names[attr] \subseteq Names
      BY <1>2, RequestFacts
    <3> QED
      BY <1>1, <1>2, <1>5, <3>1, LoadedFresh DEF RoleKnown
  <2>2. ASSUME NEW other \in Attributes, other # attr, pc'[s] \notin ToLookUp[other]
        PROVE  found'[s][other] = Search(other, "name", UNION req[s].names[other])
    <3>1. pc[s] \notin ToLookUp[other]
      BY <1>1, <1>2, <2>2 DEF AfterPreload, Attributes, Getting, ToLookUp
    <3> QED
      BY <1>2, <1>5, <2>2, <3>1 DEF RoleKnown, LookedUpAt
  <2>3. ASSUME pc'[s] \notin LookUps PROVE Verified(s, found[s])'
    <3>1. attr = "default_members"
      BY <1>2, <2>3 DEF AfterPreload, Attributes, LookUps
    <3> QED
      BY <1>1, <1>2, <3>1 DEF Verified
  <2>4. ASSUME NEW other \in Attributes, pc'[s] \notin ToLookUp[other]
        PROVE  found'[s][other] = Search(other, "name", UNION req[s].names[other])'
    <3>1. found'[s][other] = Search(other, "name", UNION req[s].names[other])
      BY <2>1, <2>2, <2>4
    <3>2. req'[s] = req[s]
      BY <1>2
    <3> QED
      BY <1>6, <3>1, <3>2, SameUfds
  <2> QED
    BY <2>3, <2>4 DEF LookedUpAt
<1>9. WrittenAt(s)' /\ TranslatedAt(s)'
  BY <1>1, <1>2 DEF WrittenAt, TranslatedAt, Loads, Translated, Attributes
<1>10. AskedAt(s)'
  <2>1. step = "getRole" => req[s].op # "create"
    BY DEF AfterPreload, Attributes
  <2> QED
    BY <1>2, <1>5, <2>1 DEF AskedAt, RoleKnown
<1> QED
  BY <1>7, <1>8, <1>9, <1>10 DEF RoleKnown

\* A lookup that stays is still right, unless a name changes.
LEMMA LookedUpKept ==
    ASSUME NEW s \in Slots, LookedUpAt(s), pc[s] \notin LookUps, UNCHANGED <<name, found, req>>
    PROVE  LookedUpAt(s)'
<1>1. \A attr \in Attributes : ToLookUp[attr] \subseteq LookUps
  BY DEF Attributes, ToLookUp, LookUps
<1>2. Verified(s, found[s])'
  BY DEF LookedUpAt, Verified
<1>3. ASSUME NEW attr \in Attributes
      PROVE  found'[s][attr] = Search(attr, "name", UNION req[s].names[attr])'
  <2>1. found[s][attr] = Search(attr, "name", UNION req[s].names[attr])
    BY <1>1 DEF LookedUpAt
  <2> QED
    BY <2>1, SameUfds
<1> QED
  BY <1>2, <1>3 DEF LookedUpAt

LEMMA KnownWrite ==
    ASSUME Inv, NEW s \in Slots, KnownAt(s), pc[s] \in {"addRole", "modifyRole"},
           NEW before \in Refs, WriteRole(s, before)
    PROVE  KnownAt(s)'
<1>1. TypeInv /\ pc[s] \in RoleSteps /\ pc[s] \notin LookUps
  BY DEF Inv, RoleSteps, LookUps
<1>2. /\ pc'[s] = "_loadMembers" /\ req[s] \in RoleRequest /\ req[s].role \in RoleIds
      /\ group'[s] = Written(s, before) /\ roles'[req[s].role].refs = Written(s, before)
      /\ UNCHANGED <<name, req, cache, found, answer>>
  BY <1>1, WriteRoleType, RequestFacts DEF WriteRole
<1>0. alone'[s] => alone[s]
  BY DEF WriteRole, Witness
<1>3. UserAsked(s)' /\ UserKnown(s)'
  BY <1>2 DEF UserAsked, UserKnown, UserSteps
<1> SUFFICES ASSUME alone[s] PROVE RoleKnown(s)'
  BY <1>0, <1>2, <1>3 DEF KnownAt
<1>4. RoleKnown(s)
  BY <1>1 DEF KnownAt
<1>5. FreshAt(s)'
  BY <1>2, <1>4, SameUfds DEF FreshAt, RoleKnown
<1>6. LookedUpAt(s)'
  BY <1>1, <1>2, <1>4, LookedUpKept DEF RoleKnown
<1>7. WrittenAt(s)'
  <2>1. \A attr \in Attributes : req'[s].names[attr] # {} =>
            Written(s, before)[attr] = {f.id : f \in found'[s][attr]}
    BY <1>2 DEF Written
  <2>2. req'[s] = req[s]
    BY <1>2
  <2> QED
    BY <1>2, <2>1, <2>2 DEF WrittenAt
<1>8. TranslatedAt(s)'
  BY <1>2 DEF TranslatedAt, Translated, Attributes
<1>9. AskedAt(s)'
  BY <1>2, <1>4 DEF AskedAt, RoleKnown
<1> QED
  BY <1>5, <1>6, <1>7, <1>8, <1>9 DEF RoleKnown

LEMMA KnownRead ==
    ASSUME Inv, NEW s \in Slots, KnownAt(s), pc[s] = "getRole", GetRole(s), pc'[s] # "idle"
    PROVE  KnownAt(s)'
<1>1. TypeInv /\ pc[s] \in RoleSteps /\ pc[s] \notin LookUps /\ req[s] \in RoleRequest
  BY DEF Inv, RoleSteps, LookUps, TypeInv, Fits
<1>2. /\ group' = [group EXCEPT ![s] = roles[req[s].role].refs]
      /\ Goto(s, IF req[s].op = "update" THEN "modifyRole" ELSE "_loadMembers")
      /\ UNCHANGED <<ufds, req, cache, found, answer, history>>
  BY <1>1 DEF GetRole, Fail, Refuse, End, TypeInv
<1>3. /\ group'[s] = roles[req[s].role].refs /\ UNCHANGED <<name, roles, req, cache, found, answer, alone>>
      /\ pc'[s] = IF req[s].op = "update" THEN "modifyRole" ELSE "_loadMembers"
  BY <1>1, <1>2 DEF Goto, TypeInv, ufds, history
<1>4. pc'[s] \in {"modifyRole", "_loadMembers"} /\ (pc'[s] = "_loadMembers" => req[s].op # "update")
  BY <1>3
<1>5. UserAsked(s)' /\ UserKnown(s)'
  BY <1>4 DEF UserAsked, UserKnown, UserSteps
<1> SUFFICES ASSUME alone[s] PROVE RoleKnown(s)'
  BY <1>3, <1>5 DEF KnownAt
<1>6. RoleKnown(s)
  BY <1>1 DEF KnownAt
<1>7. FreshAt(s)'
  BY <1>3, <1>6, SameUfds DEF FreshAt, RoleKnown
<1>8. LookedUpAt(s)'
  BY <1>1, <1>3, <1>6, LookedUpKept DEF RoleKnown
<1>9. WrittenAt(s)'
  <2>1. pc'[s] \in Loads => req[s].op = "get"
    BY <1>1, <1>4, <1>6, RequestFacts DEF Loads, RoleKnown, AskedAt, RoleOps
  <2>2. pc'[s] \in Loads => \A attr \in Attributes : req[s].names[attr] = {}
    BY <1>6, <2>1, NothingFacts DEF RoleKnown, AskedAt
  <2> QED
    BY <1>3, <2>2 DEF WrittenAt
<1>10. TranslatedAt(s)'
  BY <1>4 DEF TranslatedAt, Translated, Attributes
<1>11. AskedAt(s)'
  BY <1>3, <1>4, <1>6 DEF AskedAt, RoleKnown
<1> QED
  BY <1>7, <1>8, <1>9, <1>10, <1>11 DEF RoleKnown

LEMMA KnownRole ==
    ASSUME Inv, NEW s \in Slots, KnownAt(s), AddRole(s) \/ GetRole(s) \/ ModifyRole(s),
           pc'[s] # "idle"
    PROVE  KnownAt(s)'
<1>1. ~\E code : Refuse(s, code)
  BY RefuseAt
<1>2. CASE AddRole(s)
  BY <1>1, <1>2, NothingFacts, KnownWrite DEF AddRole, Fail
<1>3. CASE GetRole(s)
  BY <1>3, KnownRead DEF GetRole
<1>4. CASE ModifyRole(s)
  <2>1. WriteRole(s, roles[req[s].role].refs) /\ pc[s] = "modifyRole" /\ req[s].role \in RoleIds
    BY <1>1, <1>4 DEF ModifyRole, Fail, LiveRoles
  <2>2. roles[req[s].role].refs \in Refs
    BY <2>1 DEF Inv, TypeInv
  <2> QED
    BY <2>1, <2>2, KnownWrite
<1> QED
  BY <1>2, <1>3, <1>4

\* With nobody else writing, an answer has the names of all ids that somebody has.
LEMMA NamedFresh ==
    ASSUME Inv, Unique, NEW s \in Slots, FreshAt(s), NEW attr \in Attributes
    PROVE  Named(s, attr)[attr] = NamesOf(group[s][attr])
<1>1. TypeInv /\ group[s][attr] \subseteq IdsOf(attr) /\ group[s][attr] \subseteq Ids
  BY KindFacts DEF Inv, TypeInv, Refs
<1>2. Loaded(s, attr, "id", group[s][attr]) = Search(attr, "id", group[s][attr])
  BY <1>1, LoadedFresh
<1>3. Named(s, attr)[attr] = {f.name : f \in Loaded(s, attr, "id", group[s][attr])}
  <2>1. attr \in DOMAIN answer[s].names
    BY <1>1 DEF TypeInv, Answer
  <2> QED
    BY <2>1 DEF Named
<1> QED
  BY <1>1, <1>2, <1>3, NamesFound

LEMMA TranslateOn ==
    ASSUME TypeInv, NEW s \in Slots, NEW attr \in Attributes, Translate(s, attr), pc'[s] # "idle"
    PROVE  /\ pc[s] = Loading[attr] /\ attr # "policies"
           /\ TranslateGoes(s, attr, AfterTranslate(attr))
<1>1. ~\E code, names : End(s, code, names)
  BY DEF End, TypeInv
<1>2. /\ pc[s] = Loading[attr] /\ attr # "policies"
      /\ answer' = [answer EXCEPT ![s] = [answer[s] EXCEPT !.names = Named(s, attr)]]
      /\ CacheLoaded(s, attr, "id", group[s][attr])
      /\ Goto(s, AfterTranslate(attr))
      /\ UNCHANGED <<ufds, req, found, group, history>>
  BY <1>1 DEF Translate, Named, Fail, Refuse
<1>3. pc[s] \in RoleSteps /\ AfterTranslate(attr) \in RoleSteps \ Before
  BY <1>2, KindFacts DEF RoleSteps, Before, AfterTranslate
<1> QED
  BY <1>2, <1>3 DEF TranslateGoes

LEMMA KnownTranslate ==
    ASSUME Inv, Unique, NEW s \in Slots, KnownAt(s), NEW attr \in Attributes, Translate(s, attr),
           pc'[s] # "idle"
    PROVE  KnownAt(s)'
<1> DEFINE step == AfterTranslate(attr)
<1>1. /\ TypeInv /\ pc[s] = Loading[attr] /\ attr # "policies" /\ TranslateGoes(s, attr, step)
  BY TranslateOn DEF Inv
<1>2. /\ pc'[s] = step /\ req[s] \in RoleRequest /\ answer'[s].names = Named(s, attr)
      /\ UNCHANGED <<ufds, req, found, group, history>>
  BY <1>1, TranslateGoesType DEF TranslateGoes
<1>3. /\ pc[s] \in RoleSteps /\ pc[s] \in Loads /\ pc[s] \notin LookUps
      /\ step \in {"_loadDefaultMembers", "_loadPolicies"}
  BY <1>1, KindFacts DEF RoleSteps, LookUps, Loads, AfterTranslate
<1>4. UserAsked(s)' /\ UserKnown(s)'
  BY <1>2, <1>3 DEF UserAsked, UserKnown, UserSteps
<1> SUFFICES ASSUME alone[s] PROVE RoleKnown(s)'
  BY <1>2, <1>4 DEF KnownAt, history
<1>5. RoleKnown(s)
  BY <1>3 DEF KnownAt
<1>6. UNCHANGED name /\ UNCHANGED roles
  BY <1>2 DEF ufds
<1>7. FreshAt(s)'
  <2>1. \A kind \in Kinds : \A k \in DOMAIN cache'[s][kind] :
            \/ cache'[s][kind][k] \in Current
            \/ k \in DOMAIN cache[s][kind] /\ cache'[s][kind][k] = cache[s][kind][k]
    <3>1. CacheLoaded(s, attr, "id", group[s][attr])
      BY <1>1 DEF TranslateGoes
    <3>2. group[s][attr] \subseteq Ids
      BY <1>1, NamedType
    <3> QED
      BY <1>1, <3>1, CacheType
  <2> QED
    BY <1>5, <1>6, <2>1, SameUfds DEF FreshAt, RoleKnown
<1>8. LookedUpAt(s)'
  BY <1>2, <1>3, <1>5, <1>6, LookedUpKept DEF RoleKnown
<1>9. WrittenAt(s)'
  BY <1>2, <1>3, <1>5, <1>6 DEF RoleKnown, WrittenAt
<1>10. TranslatedAt(s)'
  <2>1. Named(s, attr)[attr] = NamesOf(group[s][attr])
    BY <1>5, NamedFresh DEF RoleKnown
  <2>2. ASSUME NEW other \in Attributes, other # attr, pc'[s] \in Translated[other]
        PROVE  Named(s, attr)[other] = NamesOf(group[s][other])
    <3>1. pc[s] \in Translated[other]
      BY <1>1, <1>2, <2>2 DEF Attributes, Translated, Loading, AfterTranslate
    <3>2. Named(s, attr)[other] = answer[s].names[other]
      BY <1>1, <2>2, NamedType
    <3> QED
      BY <1>5, <3>1, <3>2 DEF RoleKnown, TranslatedAt
  <2>3. \A other \in Attributes : NamesOf(group[s][other])' = NamesOf(group[s][other])
    <3>1. group'[s] = group[s]
      BY <1>2
    <3> QED
      BY <1>6, <3>1, SameUfds
  <2> QED
    BY <1>2, <2>1, <2>2, <2>3 DEF TranslatedAt
<1>11. AskedAt(s)'
  BY <1>2, <1>3, <1>5 DEF AskedAt, RoleKnown
<1> QED
  BY <1>7, <1>8, <1>9, <1>10, <1>11 DEF RoleKnown

\* Whom a path leads to.
LEMMA UserAtFacts ==
    ASSUME TypeInv, NEW path \in UserIds \cup Names
    PROVE  /\ \A f \in UserAt(path) :
                /\ f \in Current /\ f.id \in UserIds
                /\ path \in UserIds => f.id = path
                /\ path \in Names => f.name = path
           /\ \A o \in Live \cap UserIds :
                path \in {o, name[o]} => [id |-> o, name |-> name[o]] \in UserAt(path)
<1>1. IdsOf("members") = UserIds /\ UserIds \subseteq Ids /\ UserIds \cap Names = {}
  BY MembersAssumption DEF IdsOf, Ids
<1>2. ASSUME NEW f \in UserAt(path)
      PROVE  /\ f \in Current /\ f.id \in UserIds /\ f.name \in Names
             /\ path \in {f.id, f.name}
  BY <1>1, CurrentFacts DEF UserAt, Search
<1>3. \A o \in Live \cap UserIds :
          path \in {o, name[o]} => [id |-> o, name |-> name[o]] \in UserAt(path)
  BY <1>1, CurrentFacts DEF UserAt, Search
<1> QED
  BY <1>1, <1>2, <1>3

\* The user that a request goes on with.
LEMMA TheUserFacts ==
    ASSUME TypeInv, NEW s \in Slots, UserAsked(s), pc[s] \in UserSteps \ {"getUser"}
    PROVE  /\ req[s] \in UserRequest /\ req[s].path \in UserIds \cup Names
           /\ TheUser(s) \in found[s]["members"]
           /\ TheUser(s).id \in UserIds /\ TheUser(s).id \in Ids /\ TheUser(s).name \in Names
           /\ req[s].path \in {TheUser(s).id, TheUser(s).name}
           /\ req[s].path \in UserIds => TheUser(s).id = req[s].path
<1>1. req[s] \in UserRequest /\ req[s].path \in UserIds \cup Names
  BY RequestFacts DEF TypeInv, Fits
<1>2. TheUser(s) \in found[s]["members"] /\ req[s].path \in {TheUser(s).id, TheUser(s).name}
  BY DEF UserAsked, TheUser
<1>3. /\ found[s]["members"] \subseteq FoundIn("members")
      /\ IdsOf("members") = UserIds /\ UserIds \subseteq Ids /\ UserIds \cap Names = {}
  BY MembersAssumption DEF TypeInv, Attributes, IdsOf, Ids
<1>4. TheUser(s).id \in UserIds /\ TheUser(s).name \in Names
  BY <1>2, <1>3 DEF FoundIn, Found
<1> QED
  BY <1>1, <1>2, <1>3, <1>4

LEMMA KnownGetUser ==
    ASSUME Inv, NEW s \in Slots, KnownAt(s), GetUser(s), pc'[s] # "idle"
    PROVE  KnownAt(s)'
<1>1. TypeInv /\ pc[s] = "getUser" /\ req[s] \in UserRequest
  BY DEF Inv, TypeInv, Fits, UserSteps, GetUser
<1>2. /\ UserAt(req[s].path) # {}
      /\ found' = [found EXCEPT ![s] = [found[s] EXCEPT !["members"] = UserAt(req[s].path)]]
      /\ Goto(s, IF req[s].op = "updateUser" THEN "updateUser" ELSE "roles")
      /\ UNCHANGED <<ufds, req, cache, group, answer, history>>
  BY <1>1 DEF GetUser, Fail, Refuse, End, TypeInv
<1>3. found'[s]["members"] = UserAt(req[s].path)
  BY <1>1, <1>2 DEF TypeInv, Attributes
<1>4. pc'[s] = IF req[s].op = "updateUser" THEN "updateUser" ELSE "roles"
  BY <1>1, <1>2 DEF Goto, TypeInv
<1>5. /\ pc'[s] \in {"updateUser", "roles"} /\ req'[s] = req[s]
      /\ pc'[s] = "updateUser" => req[s].op = "updateUser"
      /\ pc'[s] = "roles" => req[s].op = "getUser"
  BY <1>1, <1>2, <1>4 DEF UserRequest
<1>6. \A f \in found'[s]["members"] : f \in Current /\ req[s].path \in {f.id, f.name}
  BY <1>1, <1>3, RequestFacts, UserAtFacts
<1>7. UserAsked(s)'
  BY <1>2, <1>3, <1>5, <1>6 DEF UserAsked
<1>8. TheUser(s)' \in Current'
  <2>1. TheUser(s)' \in found'[s]["members"]
    BY <1>2, <1>3 DEF TheUser
  <2>2. Current' = Current
    BY <1>2, SameUfds DEF ufds
  <2> QED
    BY <1>6, <2>1, <2>2
<1>9. UserKnown(s)' /\ pc'[s] \notin RoleSteps
  BY <1>5, <1>8 DEF UserKnown, RoleSteps
<1> QED
  BY <1>7, <1>9 DEF KnownAt

\* An update that goes through.
LEMMA UpdateOn ==
    ASSUME TypeInv, NEW s \in Slots, UserAsked(s), UpdateUser(s), pc'[s] # "idle"
    PROVE  /\ pc[s] = "updateUser" /\ pc'[s] = "answerUser"
           /\ TheUser(s).id \in Live
           /\ UNCHANGED <<roles, req, cache, found, group, answer>>
           /\ \/ req[s].login = {} /\ name' = name
              \/ \E n \in Names :
                    /\ req[s].login = {n} /\ Vacant(n, UserIds \ {TheUser(s).id})
                    /\ name' = [name EXCEPT ![TheUser(s).id] = n]
           /\ alone'[s] => alone[s]
<1> DEFINE o == TheUser(s).id
           login == req[s].login
<1>1. pc[s] = "updateUser" /\ pc[s] \in UserSteps \ {"getUser"}
  BY DEF UpdateUser, UserSteps
<1>2. /\ o \in Live /\ \A n \in login : Vacant(n, UserIds \ {o})
      /\ name' = [name EXCEPT ![o] = IF login = {} THEN name[o] ELSE CHOOSE n \in login : TRUE]
      /\ Goto(s, "answerUser") /\ Witness(Slots \ {s})
      /\ UNCHANGED <<roles, req, cache, found, group, answer>>
  BY DEF UpdateUser, Fail, Refuse, End, TypeInv
<1>3. login = {} \/ \E n \in Names : login = {n}
  <2>1. login \in Optional(Logins)
    BY <1>1, TheUserFacts DEF UserRequest
  <2> QED
    BY <2>1, MembersAssumption DEF Optional
<1>4. CASE login = {}
  <2>1. name' = [name EXCEPT ![o] = name[o]]
    BY <1>2, <1>4
  <2>2. name' = name
    BY <2>1 DEF TypeInv
  <2> QED
    BY <1>1, <1>2, <1>4, <2>2 DEF Goto, TypeInv, Witness
<1>5. ASSUME NEW n \in Names, login = {n}
      PROVE  Vacant(n, UserIds \ {o}) /\ name' = [name EXCEPT ![o] = n]
  <2>1. (CHOOSE m \in login : TRUE) = n /\ login # {}
    BY <1>5
  <2> QED
    BY <1>2, <1>5, <2>1
<1>6. pc'[s] = "answerUser" /\ (alone'[s] => alone[s])
  BY <1>2 DEF Goto, TypeInv, Witness
<1> QED
  BY <1>1, <1>2, <1>3, <1>4, <1>5, <1>6

LEMMA KnownUpdate ==
    ASSUME Inv, Unique, NEW s \in Slots, KnownAt(s), UpdateUser(s), pc'[s] # "idle"
    PROVE  KnownAt(s)'
<1> DEFINE o == TheUser(s).id
<1>1. TypeInv /\ UserAsked(s)
  BY DEF Inv, KnownAt
<1>2. /\ pc[s] = "updateUser" /\ pc'[s] = "answerUser" /\ o \in Live
      /\ UNCHANGED <<roles, req, cache, found, group, answer>>
      /\ \/ req[s].login = {} /\ name' = name
         \/ \E n \in Names : req[s].login = {n} /\ name' = [name EXCEPT ![o] = n]
      /\ alone'[s] => alone[s]
  BY <1>1, UpdateOn
<1>3. pc[s] \in UserSteps \ {"getUser"} /\ pc'[s] \notin RoleSteps
  BY <1>2 DEF UserSteps, RoleSteps
<1>4. /\ TheUser(s) \in found[s]["members"] /\ o \in UserIds /\ o \in Ids
      /\ TheUser(s).name \in Names /\ req[s].path \in {o, TheUser(s).name}
  BY <1>1, <1>3, TheUserFacts
<1>5. TheUser(s)' = TheUser(s) /\ req'[s] = req[s]
  BY <1>2 DEF TheUser
<1>6. UserAsked(s)'
  BY <1>1, <1>2, <1>3 DEF UserAsked
<1> SUFFICES ASSUME alone[s] PROVE UserKnown(s)'
  BY <1>2, <1>3, <1>6 DEF KnownAt
<1>7. TheUser(s) \in Current /\ name[o] = TheUser(s).name
  BY <1>1, <1>2, CurrentFacts DEF KnownAt, UserKnown
<1>8. /\ \A p \in Ids : p # o => name'[p] = name[p]
      /\ name'[o] \in Names
      /\ req[s].login = {} => name'[o] = name[o]
      /\ \A n \in Names : req[s].login = {n} => name'[o] = n
  <2>1. CASE req[s].login = {} /\ name' = name
    BY <1>4, <1>7, <2>1
  <2>2. ASSUME NEW n \in Names, req[s].login = {n}, name' = [name EXCEPT ![o] = n]
        PROVE  /\ \A p \in Ids : p # o => name'[p] = name[p]
               /\ name'[o] = n
    BY <1>1, <1>4, <2>2 DEF TypeInv
  <2>3. CASE \E n \in Names : req[s].login = {n} /\ name' = [name EXCEPT ![o] = n]
    BY <2>2, <2>3
  <2> QED
    BY <1>2, <2>1, <2>3
<1>9. o \in Live'
  BY <1>4, <1>8 DEF Live
<1>10. ASSUME req[s].path \in Names
       PROVE  /\ \A p \in Live' \cap UserIds : name'[p] = req[s].path => p = o
              /\ req[s].login \in {{}, {req[s].path}} => name'[o] = req[s].path
  <2>1. req[s].path = name[o]
    BY <1>4, <1>7, <1>10, KindFacts
  <2>2. ASSUME NEW p \in Live' \cap UserIds, name'[p] = req[s].path, p # o
        PROVE  FALSE
    <3>1. p \in Ids /\ name[p] = name[o]
      BY <1>8, <2>1, <2>2 DEF Live
    <3>2. p \in Live /\ o \in Live /\ "members" \in Attributes /\ IdsOf("members") = UserIds
      BY <1>10, <1>2, <2>1, <3>1 DEF Live, Attributes, IdsOf
    <3>3. p \in Live \cap IdsOf("members") /\ o \in Live \cap IdsOf("members")
      BY <1>4, <2>2, <3>2
    <3> QED
      BY <2>2, <3>1, <3>2, <3>3 DEF Unique
  <2> QED
    BY <1>8, <1>10, <2>1, <2>2
<1> QED
  BY <1>2, <1>5, <1>9, <1>10 DEF UserKnown

LEMMA KnownMap ==
    ASSUME Inv, NEW s \in Slots, KnownAt(s), MapRoles(s), pc'[s] # "idle"
    PROVE  KnownAt(s)'
<1>1. TypeInv /\ UserAsked(s) /\ pc[s] = "roles"
  BY DEF Inv, KnownAt, MapRoles
<1>2. /\ answer' = [answer EXCEPT ![s] = [answer[s] EXCEPT !.names =
             [answer[s].names EXCEPT !["members"] = RolesWith("members", TheUser(s).id)]]]
      /\ Goto(s, "defaultRoles")
      /\ UNCHANGED <<ufds, req, cache, found, group, history>>
  BY <1>1 DEF MapRoles, Fail, Refuse, End, TypeInv
<1>3. pc'[s] = "defaultRoles"
  BY <1>1, <1>2 DEF Goto, TypeInv
<1>4. answer'[s].names["members"] = RolesWith("members", TheUser(s).id)
  <2> DEFINE ids == RolesWith("members", TheUser(s).id)
  <2> HIDE DEF ids
  <2>1. answer'[s].names["members"] = ids
    BY <1>1, <1>2 DEF TypeInv, Answer, Attributes, ids
  <2> QED
    BY <2>1 DEF ids
<1>5. TheUser(s)' = TheUser(s)
  BY <1>2 DEF TheUser
<1>6. UserAsked(s)'
  BY <1>1, <1>2, <1>3 DEF UserAsked, UserSteps
<1>7. UserKnown(s)'
  <2>1. RolesWith("members", TheUser(s).id)' = RolesWith("members", TheUser(s).id)
    BY <1>2, <1>5, SameRoles DEF ufds
  <2> QED
    BY <1>3, <1>4, <2>1 DEF UserKnown
<1> QED
  BY <1>3, <1>6, <1>7 DEF KnownAt, RoleSteps

LEMMA KnownUser ==
    ASSUME Inv, Unique, NEW s \in Slots, KnownAt(s), pc'[s] # "idle",
           \/ GetUser(s) \/ UpdateUser(s) \/ AnswerUser(s) \/ MapRoles(s) \/ MapDefaultRoles(s)
    PROVE  KnownAt(s)'
<1>1. ~AnswerUser(s) /\ ~MapDefaultRoles(s)
  BY DEF AnswerUser, MapDefaultRoles, Fail, Refuse, End, Inv, TypeInv
<1> QED
  BY <1>1, KnownGetUser, KnownUpdate, KnownMap

LEMMA UniqueStep ==
    ASSUME TypeInv, AloneInv, [Next]_vars
    PROVE  Unique'
<1>0. Unique /\ \A s \in Slots : UserAsked(s)
  BY DEF AloneInv, KnownAt
<1>1. CASE UNCHANGED name
  BY <1>0, <1>1, UniqueSame
<1>2. ASSUME NEW o \in UserIds, CreateUser(o) \/ DeleteUser(o)
      PROVE  Unique'
  <2>1. "members" \in Attributes /\ IdsOf("members") = UserIds /\ o \in Ids
    BY DEF Attributes, IdsOf, Ids
  <2> QED
    BY <1>0, <1>2, <2>1, UniqueRename, UniqueLess DEF CreateUser, DeleteUser, Rename, Delete
<1>3. ASSUME NEW o \in PolicyIds, CreatePolicy(o) \/ UpdatePolicy(o) \/ DeletePolicy(o)
      PROVE  Unique'
  <2>1. "policies" \in Attributes /\ IdsOf("policies") = PolicyIds /\ o \in Ids
    BY DEF Attributes, IdsOf, Ids
  <2> QED
    BY <1>0, <1>3, <2>1, UniqueRename, UniqueLess
    DEF CreatePolicy, UpdatePolicy, DeletePolicy, Rename, Delete
<1>4. ASSUME NEW s \in Slots, UpdateUser(s), pc'[s] # "idle"
      PROVE  Unique'
  <2>1. /\ pc[s] \in UserSteps \ {"getUser"}
        /\ \/ name' = name
           \/ \E n \in Names : /\ Vacant(n, UserIds \ {TheUser(s).id})
                               /\ name' = [name EXCEPT ![TheUser(s).id] = n]
    BY <1>0, <1>4, UpdateOn DEF UserSteps
  <2>2. TheUser(s).id \in UserIds
    BY <1>0, <2>1, TheUserFacts
  <2>3. "members" \in Attributes /\ IdsOf("members") = UserIds
    BY DEF Attributes, IdsOf
  <2> QED
    BY <1>0, <2>1, <2>2, <2>3, UniqueRename, UniqueSame
<1>5. ASSUME NEW s \in Slots, Handle(s), ~(UpdateUser(s) /\ pc'[s] # "idle")
      PROVE  UNCHANGED name
  <2>1. CASE pc'[s] = "idle" /\ UpdateUser(s)
    BY <2>1 DEF UpdateUser, Fail, Refuse, ufds, Goto, TypeInv
  <2>2. CASE ~UpdateUser(s)
    BY <1>5, <2>2 DEF Handle, Preload, Translate, AddRole, GetRole, ModifyRole, WriteRole, GetUser,
       AnswerUser, MapRoles, MapDefaultRoles, Fail, Refuse, ufds
  <2> QED
    BY <1>5, <2>1, <2>2
<1>6. ASSUME NEW s \in Slots, RequestRole(s) \/ RequestUser(s)
      PROVE  UNCHANGED name
  BY <1>6 DEF RequestRole, RequestUser, Begin, ufds
<1>7. ASSUME NEW r \in RoleIds, DeleteRole(r)
      PROVE  UNCHANGED name
  BY <1>7 DEF DeleteRole
<1>8. UNCHANGED vars => UNCHANGED name
  BY DEF vars
<1> QED
  BY <1>1, <1>2, <1>3, <1>4, <1>5, <1>6, <1>7, <1>8 DEF Next, Slots

\* A step of one request, for those of the other slots: they are not alone any more if
\* it writes.
LEMMA AloneOthers ==
    ASSUME Inv, NEW s \in Slots, Handle(s), NEW t \in Slots, t # s
    PROVE  SameAt(t) /\ (alone'[t] => alone[t] /\ UNCHANGED ufds)
<1>1. SameAt(t)
  BY HandleAt DEF Others, SameAt
<1>2. CASE \E code, names : End(s, code, names) /\ UNCHANGED ufds
  BY <1>1, <1>2 DEF End, Inv, TypeInv
<1>3. CASE UNCHANGED <<ufds, history>>
  BY <1>1, <1>3 DEF history
<1>4. CASE Witness(Slots \ {s})
  BY <1>1, <1>4 DEF Witness
<1>5. ASSUME NEW attr \in Attributes, Preload(s, attr) \/ Translate(s, attr)
      PROVE  \/ \E code, names : End(s, code, names) /\ UNCHANGED ufds
             \/ UNCHANGED <<ufds, history>>
  BY <1>5 DEF Preload, Translate, Fail, Refuse
<1>6. AddRole(s) \/ GetRole(s) \/ ModifyRole(s) =>
          \/ \E code, names : End(s, code, names) /\ UNCHANGED ufds
          \/ UNCHANGED <<ufds, history>>
          \/ Witness(Slots \ {s})
  BY DEF AddRole, GetRole, ModifyRole, WriteRole, Fail, Refuse
<1>7. GetUser(s) \/ UpdateUser(s) \/ AnswerUser(s) \/ MapRoles(s) \/ MapDefaultRoles(s) =>
          \/ \E code, names : End(s, code, names) /\ UNCHANGED ufds
          \/ UNCHANGED <<ufds, history>>
          \/ Witness(Slots \ {s})
  BY DEF GetUser, UpdateUser, AnswerUser, MapRoles, MapDefaultRoles, Fail, Refuse
<1> QED
  BY <1>1, <1>2, <1>3, <1>4, <1>5, <1>6, <1>7 DEF Handle

LEMMA AloneStep == Inv /\ AloneInv /\ [Next]_vars => AloneInv'
<1> SUFFICES ASSUME Inv, AloneInv, [Next]_vars, NEW t \in Slots PROVE KnownAt(t)'
  BY UniqueStep DEF AloneInv, Inv
<1>0. Unique /\ \A s \in Slots : KnownAt(s)
  BY DEF AloneInv
<1>1. CASE UNCHANGED vars
  <2>1. SameAt(t) /\ UNCHANGED <<alone, ufds>>
    BY <1>1 DEF vars, SameAt, ufds
  <2> QED
    BY <1>0, <2>1, KnownKept
<1>2. ASSUME NEW s \in Slots, RequestRole(s) \/ RequestUser(s)
      PROVE  KnownAt(t)'
  <2>1. KnownAt(s)' /\ UNCHANGED ufds /\ (t # s => alone'[t] = alone[t])
    BY <1>2, KnownBegin
  <2>2. t # s => SameAt(t)
    BY <1>2, RequestAt DEF Others, SameAt
  <2> QED
    BY <1>0, <2>1, <2>2, KnownKept
<1>3. ASSUME NEW s \in Slots, Handle(s)
      PROVE  KnownAt(t)'
  <2>1. CASE t # s
    BY <1>0, <1>3, <2>1, AloneOthers, KnownKept
  <2>2. CASE t = s /\ pc'[s] = "idle"
    BY <2>2, KnownEnd
  <2>3. CASE t = s /\ pc'[s] # "idle"
    BY <1>0, <1>3, <2>3, KnownPreload, KnownTranslate, KnownRole, KnownUser DEF Handle
  <2> QED
    BY <2>1, <2>2, <2>3
<1>4. CASE OneCall
  <2>1. UNCHANGED <<pc, req, cache, found, group, answer>> /\ Witness(Slots)
    BY <1>4, OneCallType DEF OneCall, Inv
  <2>2. SameAt(t) /\ ~alone'[t]
    BY <2>1 DEF SameAt, Witness
  <2> QED
    BY <1>0, <2>2, KnownKept
<1> QED
  BY <1>1, <1>2, <1>3, <1>4, NextCases

LEMMA InitAlone == Init => AloneInv
<1> SUFFICES ASSUME Init PROVE AloneInv
  OBVIOUS
<1>1. Unique
  BY MembersAssumption DEF Init, Unique, Live
<1>2. \A s \in Slots : KnownAt(s)
  BY DEF Init, KnownAt, UserAsked, UserKnown, UserSteps, RoleSteps
<1> QED
  BY <1>1, <1>2 DEF AloneInv

-----------------------------------------------------------------------------
\* Names that are refused: the last search did not find one of them, and it found what
\* there is.
LEMMA RefusedStep ==
    ASSUME Inv, AloneInv, [Next]_vars, NEW s \in Slots, alone[s],
           req[s].op \in RoleOps, req'[s] = NoRequest, answer'[s].code = "409"
    PROVE  \E attr \in Attributes : \E n \in UNION req[s].names[attr] : Vacant(n, IdsOf(attr))
<1>1. TypeInv /\ Unique /\ KnownAt(s)
  BY DEF Inv, AloneInv
<1>2. /\ req[s] \in RoleRequest /\ pc[s] \in RoleSteps /\ Handle(s) /\ pc'[s] = "idle"
      /\ ~(GetUser(s) \/ UpdateUser(s) \/ AnswerUser(s) \/ MapRoles(s) \/ MapDefaultRoles(s))
  BY RoleEnd
<1>3. RoleKnown(s)
  BY <1>1, <1>2 DEF KnownAt
<1>4. ~Refuse(s, "error") /\ ~Refuse(s, "404")
  BY RefuseAt
<1>5. ASSUME NEW attr \in Attributes PROVE ~Translate(s, attr)
  <2>1. ASSUME NEW step PROVE ~TranslateGoes(s, attr, step)
    BY <1>1, <1>2, TranslateGoesType, StepFacts DEF TranslateGoes
  <2>2. ~(End(s, "200", Named(s, attr)) /\ UNCHANGED ufds)
    BY EndAt
  <2> QED
    BY <1>1, <1>4, <2>1, <2>2, TranslateCases
<1>6. ~(AddRole(s) \/ GetRole(s) \/ ModifyRole(s))
  <2>1. ~\E before \in Refs : WriteRole(s, before)
    BY <1>1, <1>2, WriteRoleType
  <2>2. ~\E step \in {"modifyRole", "_loadMembers"} : Goto(s, step)
    BY <1>1, <1>2 DEF Goto, TypeInv
  <2> QED
    BY <1>4, <2>1, <2>2, RoleCases
<1>7. PICK attr \in Attributes : Preload(s, attr)
  BY <1>2, <1>5, <1>6 DEF Handle
<1> DEFINE keys == UNION req[s].names[attr]
           records == [found[s] EXCEPT ![attr] = Loaded(s, attr, "name", keys)]
<1>8. pc[s] = Getting[attr] /\ attr = "default_members" /\ ~Verified(s, records)
  <2>1. ~Goto(s, AfterPreload(s, attr))
    <3>1. AfterPreload(s, attr) # "idle"
      BY DEF AfterPreload, Attributes
    <3> QED
      BY <1>1, <1>2, <3>1 DEF Goto, TypeInv
  <2> QED
    BY <1>4, <1>7, <2>1 DEF Preload, Fail
<1>9. pc[s] = "_getDefaultMembers"
  BY <1>8 DEF Getting
<1>10. ASSUME NEW other \in Attributes
       PROVE  records[other] = Search(other, "name", UNION req[s].names[other])
  <2>1. CASE other = attr
    <3>1. keys \subseteq Names
      BY <1>2, RequestFacts
    <3>2. Loaded(s, attr, "name", keys) = Search(attr, "name", keys)
      BY <1>1, <1>3, <3>1, LoadedFresh DEF RoleKnown
    <3>3. DOMAIN found[s] = Attributes
      BY <1>1 DEF TypeInv
    <3> QED
      BY <2>1, <3>2, <3>3
  <2>2. CASE other # attr
    <3>1. pc[s] \notin ToLookUp[other]
      BY <1>8, <1>9, <2>2 DEF ToLookUp, Attributes
    <3>2. found[s][other] = Search(other, "name", UNION req[s].names[other])
      BY <1>3, <3>1 DEF RoleKnown, LookedUpAt
    <3>3. records[other] = found[s][other]
      BY <1>1, <2>2 DEF TypeInv
    <3> QED
      BY <3>2, <3>3
  <2> QED
    BY <2>1, <2>2
<1> HIDE DEF records
<1>11. PICK other \in Attributes : \E n \in UNION req[s].names[other] :
           n \notin {f.name : f \in records[other]}
  BY <1>8 DEF Verified
<1>12. PICK n \in UNION req[s].names[other] : n \notin {f.name : f \in records[other]}
  BY <1>11
<1>13. ASSUME NEW o \in Live \cap IdsOf(other), name[o] = n PROVE FALSE
  <2> DEFINE f == [id |-> o, name |-> name[o]]
  <2>1. f \in Search(other, "name", UNION req[s].names[other]) /\ f.name = n
    BY <1>1, <1>12, <1>13, CurrentFacts DEF Search
  <2>2. f \in records[other] /\ f.name = n
    BY <1>10, <2>1
  <2> QED
    BY <1>12, <2>2
<1> QED
  BY <1>12, <1>13 DEF Vacant

\* An answer to a request on a role has the names of all that the role refers to and that
\* are there; those of a list that came are that list.
LEMMA UndisturbedRole ==
    ASSUME Inv, AloneInv, [Next]_vars, NEW s \in Slots, alone[s], Answers(s, RoleOps),
           NEW attr \in Attributes
    PROVE  /\ answer'[s].names[attr] = {name[o] : o \in roles[req[s].role].refs[attr] \cap Live}
           /\ \A list \in req[s].names[attr] : answer'[s].names[attr] = list
<1>1. TypeInv /\ Unique /\ KnownAt(s)
  BY DEF Inv, AloneInv
<1>2. req[s] \in RoleRequest /\ pc[s] = "_loadPolicies" /\ answer'[s].names = Named(s, "policies")
  BY RoleAnswer
<1>3. RoleKnown(s) /\ RoleAt(s)
  BY <1>1, <1>2 DEF KnownAt, RoleSteps, Inv
<1>4. Named(s, "policies")[attr] = NamesOf(group[s][attr])
  <2>1. CASE attr = "policies"
    BY <1>1, <1>3, <2>1, NamedFresh DEF RoleKnown
  <2>2. CASE attr # "policies"
    <3>1. Named(s, "policies")[attr] = answer[s].names[attr]
      BY <1>1, <2>2, NamedType DEF Attributes
    <3>2. pc[s] \in Translated[attr]
      BY <1>2, <2>2 DEF Translated, Attributes
    <3> QED
      BY <1>3, <3>1, <3>2 DEF RoleKnown, TranslatedAt
  <2> QED
    BY <2>1, <2>2
<1>5. /\ group[s] = roles[req[s].role].refs
      /\ req[s].names[attr] # {} => group[s][attr] = {f.id : f \in found[s][attr]}
  BY <1>2, <1>3 DEF RoleKnown, WrittenAt, Loads
<1>6. ASSUME NEW list \in req[s].names[attr]
      PROVE  NamesOf(group[s][attr]) = list
  <2>1. UNION req[s].names[attr] = list
    <3>1. req[s].names[attr] \in Optional(SUBSET Names)
      BY <1>2, RequestFacts
    <3> QED
      BY <3>1 DEF Optional
  <2>2. found[s][attr] \subseteq Current
    <3>1. found[s][attr] = Search(attr, "name", UNION req[s].names[attr])
      BY <1>2, <1>3 DEF RoleKnown, LookedUpAt, ToLookUp, Attributes
    <3> QED
      BY <3>1 DEF Search
  <2>3. NamesOf(group[s][attr]) = {f.name : f \in found[s][attr]}
    BY <1>1, <1>5, <1>6, <2>2, NamesBack
  <2>4. list \subseteq {f.name : f \in found[s][attr]}
    BY <1>2, <1>3, <2>1 DEF RoleKnown, LookedUpAt, LookUps, Verified
  <2>5. \A f \in found[s][attr] : f.name \in list
    BY <1>3, <2>1 DEF RoleAt
  <2> QED
    BY <2>3, <2>4, <2>5
<1>7. NamesOf(group[s][attr]) = {name[o] : o \in roles[req[s].role].refs[attr] \cap Live}
  BY <1>5 DEF NamesOf
<1> QED
  BY <1>2, <1>4, <1>6, <1>7

\* A user's request ends by one of its own steps.
LEMMA UserEnd ==
    ASSUME Inv, [Next]_vars, NEW s \in Slots, req[s].op \in {"getUser", "updateUser"},
           req'[s] = NoRequest
    PROVE  /\ req[s] \in UserRequest /\ pc[s] \in UserSteps /\ pc'[s] = "idle"
           /\ GetUser(s) \/ UpdateUser(s) \/ AnswerUser(s) \/ MapRoles(s) \/ MapDefaultRoles(s)
<1>1. TypeInv /\ req[s].op \notin RoleOps /\ req[s] # NoRequest
  BY DEF Inv, RoleOps, NoRequest
<1>2. Handle(s) /\ pc[s] # "idle" /\ pc'[s] = "idle"
  BY <1>1, EndStep
<1>3. req[s] \in UserRequest /\ pc[s] \in Steps /\ pc[s] \notin RoleSteps
  BY <1>1, RequestFacts DEF TypeInv, Fits
<1>4. pc[s] \in UserSteps
  BY <1>2, <1>3, StepFacts
<1>5. ASSUME NEW attr \in Attributes PROVE ~Preload(s, attr) /\ ~Translate(s, attr)
  BY <1>1, <1>4, PreloadCases, TranslateCases DEF UserSteps
<1>6. ~(AddRole(s) \/ GetRole(s) \/ ModifyRole(s))
  BY <1>4, RoleCases DEF UserSteps
<1> QED
  BY <1>2, <1>3, <1>4, <1>5, <1>6 DEF Handle

\* GET ?membership=true shows the roles that the user has when it answers.
LEMMA UndisturbedUser ==
    ASSUME Inv, AloneInv, [Next]_vars, NEW s \in Slots, alone[s], Answers(s, {"getUser"}),
           NEW attr \in {"members", "default_members"}
    PROVE  answer'[s].names[attr] = RolesWith(attr, TheUser(s).id)
<1>1. TypeInv /\ KnownAt(s) /\ req[s].op = "getUser" /\ answer'[s].code = "200"
  BY DEF Inv, AloneInv, Answers
<1>2. /\ pc[s] \in UserSteps /\ pc'[s] = "idle"
      /\ GetUser(s) \/ UpdateUser(s) \/ AnswerUser(s) \/ MapRoles(s) \/ MapDefaultRoles(s)
  BY <1>1, UserEnd DEF Answers
<1>3. ~Refuse(s, "error") /\ ~Refuse(s, "404") /\ ~Refuse(s, "409")
  BY <1>1, RefuseAt
<1>4. ASSUME NEW step, step # "idle" PROVE ~Goto(s, step)
  BY <1>1, <1>2, <1>4 DEF Goto, TypeInv
<1>5. ~GetUser(s)
  <2>1. (IF req[s].op = "updateUser" THEN "updateUser" ELSE "roles") # "idle"
    OBVIOUS
  <2> QED
    BY <1>3, <1>4, <2>1 DEF GetUser, Fail
<1>6. ~UpdateUser(s) /\ ~MapRoles(s)
  BY <1>3, <1>4 DEF UpdateUser, MapRoles, Fail
<1>7. ~AnswerUser(s)
  BY <1>1 DEF AnswerUser, KnownAt, UserAsked
<1> DEFINE ids == RolesWith("default_members", TheUser(s).id)
<1>8. /\ pc[s] = "defaultRoles" /\ UNCHANGED ufds
      /\ End(s, "200", [answer[s].names EXCEPT !["default_members"] = ids])
  BY <1>2, <1>3, <1>5, <1>6, <1>7 DEF MapDefaultRoles, Fail
<1> HIDE DEF ids
<1>9. answer'[s].names = [answer[s].names EXCEPT !["default_members"] = ids]
  BY <1>8, EndAt
<1>10. DOMAIN answer[s].names = Attributes
  BY <1>1 DEF TypeInv, Answer
<1>11. answer'[s].names["default_members"] = ids
  BY <1>9, <1>10 DEF Attributes
<1>12. answer'[s].names["members"] = answer[s].names["members"]
  BY <1>9, <1>10 DEF Attributes
<1>13. answer[s].names["members"] = RolesWith("members", TheUser(s).id)
  BY <1>1, <1>8 DEF KnownAt, UserKnown
<1> QED
  BY <1>11, <1>12, <1>13 DEF ids

\* The user that an update answers with is the one that it changed.
LEMMA AnsweredUser ==
    ASSUME Inv, AloneInv, NEW s \in Slots, pc[s] = "answerUser",
           alone[s] \/ req[s].path \in UserIds
    PROVE  /\ UserAt(req[s].path) # {} =>
                UserAt(req[s].path) = {[id |-> TheUser(s).id, name |-> name[TheUser(s).id]]}
           /\ alone[s] /\ UserAt(req[s].path) = {} =>
                req[s].path \in Names /\ req[s].login \notin {{}, {req[s].path}}
<1> DEFINE o == TheUser(s).id
           path == req[s].path
           f0 == [id |-> o, name |-> name[o]]
<1>1. TypeInv /\ UserAsked(s) /\ pc[s] \in UserSteps \ {"getUser"} /\ (alone[s] => UserKnown(s))
  BY DEF Inv, AloneInv, KnownAt, UserSteps
<1>2. path \in UserIds \cup Names /\ o \in UserIds /\ (path \in UserIds => o = path)
  BY <1>1, TheUserFacts
<1>3. \A f \in UserAt(path) :
          /\ f \in Current /\ f.id \in UserIds
          /\ path \in UserIds => f.id = path
          /\ path \in Names => f.name = path
  BY <1>1, <1>2, UserAtFacts
<1>4. \A p \in Live \cap UserIds :
          path \in {p, name[p]} => [id |-> p, name |-> name[p]] \in UserAt(path)
  BY <1>1, <1>2, UserAtFacts
<1>5. ASSUME NEW f \in UserAt(path) PROVE f = f0
  <2>1. f = [id |-> f.id, name |-> name[f.id]] /\ f.id \in Live \cap UserIds /\ f.name = name[f.id]
    BY <1>1, <1>3, CurrentFacts
  <2>2. f.id = o
    <3>1. CASE path \in UserIds
      BY <1>2, <1>3, <3>1
    <3>2. CASE path \in Names /\ alone[s]
      <4>1. name[f.id] = path
        BY <1>3, <2>1, <3>2
      <4> QED
        BY <1>1, <2>1, <3>2, <4>1 DEF UserKnown
    <3> QED
      BY <1>2, <3>1, <3>2
  <2> QED
    BY <2>1, <2>2
<1>6. ASSUME alone[s], UserAt(path) = {}
      PROVE  path \in Names /\ req[s].login \notin {{}, {path}}
  <2>1. /\ o \in Live
        /\ path \in Names => (req[s].login \in {{}, {path}} => name[o] = path)
    BY <1>1, <1>6 DEF UserKnown
  <2>2. path \notin {o, name[o]}
    BY <1>2, <1>4, <1>6, <2>1
  <2> QED
    BY <1>2, <2>1, <2>2
<1> QED
  BY <1>5, <1>6

LEMMA UpdateAnswer ==
    ASSUME Inv, AloneInv, [Next]_vars, NEW s \in Slots, req[s].op = "updateUser",
           req'[s] = NoRequest
    PROVE  /\ answer'[s].code = "200" /\ (alone[s] \/ req[s].path \in UserIds) =>
                answer'[s].names["members"] =
                    {[id |-> TheUser(s).id, name |-> name[TheUser(s).id]]}
           /\ alone[s] /\ answer'[s].code \in {"404", "409"} /\ pc[s] = "answerUser" =>
                req[s].path \in Names /\ req[s].login \notin {{}, {req[s].path}}
<1>1. TypeInv /\ KnownAt(s)
  BY DEF Inv, AloneInv
<1>2. /\ pc[s] \in UserSteps /\ pc'[s] = "idle"
      /\ GetUser(s) \/ UpdateUser(s) \/ AnswerUser(s) \/ MapRoles(s) \/ MapDefaultRoles(s)
  BY UserEnd
<1>3. ASSUME NEW code, Refuse(s, code) PROVE answer'[s].code = code
  BY <1>3, RefuseAt
<1>4. ASSUME NEW step, step # "idle" PROVE ~Goto(s, step)
  BY <1>1, <1>2, <1>4 DEF Goto, TypeInv
<1>5. ~MapRoles(s) /\ ~MapDefaultRoles(s)
  BY <1>1 DEF MapRoles, MapDefaultRoles, KnownAt, UserAsked
<1>6. CASE AnswerUser(s)
  <2>1. pc[s] = "answerUser"
    BY <1>6 DEF AnswerUser
  <2>2. CASE Fail(s, "answerUser")
    BY <1>3, <2>2 DEF Fail
  <2>3. CASE UserAt(req[s].path) = {} /\ Refuse(s, "404")
    BY <1>3, <2>1, <2>3, AnsweredUser
  <2> DEFINE users == UserAt(req[s].path)
  <2>4. CASE /\ users # {} /\ UNCHANGED ufds
             /\ End(s, "200", [Nothing EXCEPT !["members"] = users])
    <3>1. users # {} =>
            (alone[s] \/ req[s].path \in UserIds =>
                users = {[id |-> TheUser(s).id, name |-> name[TheUser(s).id]]})
      BY <2>1, AnsweredUser
    <3> HIDE DEF users
    <3>2. answer'[s].code = "200" /\ answer'[s].names = [Nothing EXCEPT !["members"] = users]
      BY <2>4, EndAt
    <3>3. answer'[s].names["members"] = users
      BY <3>2 DEF Nothing, Attributes
    <3> QED
      BY <2>4, <3>1, <3>2, <3>3
  <2> QED
    BY <1>6, <2>2, <2>3, <2>4 DEF AnswerUser
<1>7. CASE GetUser(s)
  <2>1. pc[s] = "getUser"
    BY <1>7 DEF GetUser
  <2>2. (IF req[s].op = "updateUser" THEN "updateUser" ELSE "roles") # "idle"
    OBVIOUS
  <2>3. Refuse(s, "error") \/ Refuse(s, "404")
    BY <1>4, <1>7, <2>2 DEF GetUser, Fail
  <2> QED
    BY <1>3, <2>1, <2>3
<1>8. CASE UpdateUser(s)
  <2>1. pc[s] = "updateUser"
    BY <1>8 DEF UpdateUser
  <2>2. Refuse(s, "error") \/ Refuse(s, "404") \/ Refuse(s, "409")
    BY <1>4, <1>8 DEF UpdateUser, Fail
  <2> QED
    BY <1>3, <2>1, <2>2
<1> QED
  BY <1>2, <1>5, <1>6, <1>7, <1>8

\* While no other request writes, what a request on a role answers is what UFDS holds when
\* it answers: what it cached and found is as it was, and the role is as it wrote it.
THEOREM Undisturbed == Spec => UndisturbedAnswers
<1>1. Inv /\ AloneInv /\ [Next]_vars =>
        [\A s \in Slots : alone[s] =>
            /\ req[s].op \in RoleOps /\ req'[s] = NoRequest /\ answer'[s].code = "409" =>
                \E attr \in Attributes : \E n \in UNION req[s].names[attr] :
                    Vacant(n, IdsOf(attr))
            /\ Answers(s, RoleOps) => \A attr \in Attributes :
                /\ answer'[s].names[attr] = {name[o] : o \in roles[req[s].role].refs[attr] \cap Live}
                /\ \A list \in req[s].names[attr] : answer'[s].names[attr] = list
            /\ Answers(s, {"getUser"}) =>
                \A attr \in {"members", "default_members"} :
                    answer'[s].names[attr] = RolesWith(attr, TheUser(s).id)]_vars
  BY RefusedStep, UndisturbedRole, UndisturbedUser
<1> QED
  BY <1>1, InitInv, InvStep, InitAlone, AloneStep, PTL DEF Spec, UndisturbedAnswers

\* An update of a user answers with the user that it changed, unless its path is a login
\* and another request wrote; and if nobody else wrote, it is lost to the answer only by
\* its own change of the login in the path.
THEOREM UpdatesAnswered == Spec => UpdateAnswersItsUser
<1>1. Inv /\ AloneInv /\ [Next]_vars =>
        [\A s \in Slots : req[s].op = "updateUser" /\ req'[s] = NoRequest =>
            /\ answer'[s].code = "200" /\ (alone[s] \/ req[s].path \in UserIds) =>
                answer'[s].names["members"] =
                    {[id |-> TheUser(s).id, name |-> name[TheUser(s).id]]}
            /\ alone[s] /\ answer'[s].code \in {"404", "409"} /\ pc[s] = "answerUser" =>
                req[s].path \in Names /\ req[s].login \notin {{}, {req[s].path}}]_vars
  BY UpdateAnswer
<1> QED
  BY <1>1, InitInv, InvStep, InitAlone, AloneStep, PTL DEF Spec, UpdateAnswersItsUser

=============================================================================
