---------------------------- MODULE RolesProofs ----------------------------
(***************************************************************************)
(* Roles for any number of roles, tag entries and requests: its types,     *)
(* and for clients that await the end of a request on a role what the runs *)
(* check of tag entries and of the administrator role.                     *)
(***************************************************************************)
EXTENDS Roles, TLAPS

\* Past loadResource(): the tag entry of the path was looked up.
After == Steps \ {"idle", "loadResource"}

\* Steps in which the tags are still those that were loaded.
Before == {"addRole", "getRole", "modifyRole", "translateGroup", "deleteRole"}

\* Each step belongs to some kinds of requests.
StepsInv ==
    \A s \in Slots :
        /\ pc[s] = "idle" => req[s] = NoRequest
        /\ pc[s] # "idle" =>
            /\ req[s] \in Request
            /\ req[s].op = "create" /\ pc[s] \in {"loadResource", "addRole"} <=> req[s].role = NoRole
            /\ req[s].op = "create" => pc[s] \notin {"getRole", "modifyRole", "deleteRole", "deleteResource"}
        /\ pc[s] = "addRole" => req[s].op = "create" /\ resource[s] = NoResource
        /\ pc[s] = "preloadGroups" => req[s].tags # {}

TypeInv == TypeOK /\ StepsInv

-----------------------------------------------------------------------------
\* A role has one request at a time.
Alone ==
    \A s, t \in Slots :
        /\ req[s] # NoRequest /\ req[t] # NoRequest
        /\ req[s].role = req[t].role /\ req[s].role \in RoleIds
        => s = t

\* Nothing refers to a role that was not created yet.
Born ==
    /\ \A s \in Slots : req[s] # NoRequest =>
        /\ req[s].role \in RoleIds => roles[req[s].role] # Unborn
        /\ \A r \in UNION req[s].caller : roles[r] # Unborn
    /\ \A s \in Slots : \A r \in resource[s].roles : roles[r] # Unborn
    /\ \A e \in entries : roles[e.role] # Unborn /\ \A r \in e.tags : roles[r] # Unborn

UuidsDiffer == \A e, f \in entries : e.uuid = f.uuid => e = f

\* A request past loadResource() has the entry of its role, if there is one.
KnownAt(s) ==
    /\ \A e \in entries : e.role = req[s].role <=> e.uuid = resource[s].uuid
    /\ resource[s].uuid = NoUuid \/ \E e \in entries : e.uuid = resource[s].uuid

Known == \A s \in Slots : pc[s] \in After => KnownAt(s)

EntriesInv == Alone /\ Born /\ UuidsDiffer /\ OneEntryPerRole /\ Known

\* The tags that it loaded are those of the entry, but for roles deleted since.
KnownTagsAt(s) ==
    \A e \in entries : e.role = req[s].role =>
        /\ pc[s] \in Before => resource[s].roles \cap Live = e.tags \cap Live
        /\ pc[s] = "modifyResource" /\ req[s].tags = {} =>
            e.tags \cap Live = {} \/ resource[s].roles \cap Live = e.tags \cap Live

KnownTags == \A s \in Slots : pc[s] # "idle" => KnownTagsAt(s)

\* What GetRole has seen of the administrator still holds.
CheckedAt(s) ==
    /\ Allowed(req[s].body)
    /\ req[s].role \in Live /\ roles[req[s].role].name = "administrator"
        => req[s].body.policies = {}

Checked == \A s \in Slots : pc[s] = "modifyRole" => CheckedAt(s)

\* Only a DELETE is answered 204, and then the tags are what is left of it.
Answered == \A s \in Slots : answer[s] = "204" => pc[s] \in {"idle", "deleteResource"}

Inv == TypeInv /\ EntriesInv /\ KnownTags /\ Checked

\* What a step of one request may do to the others: it writes no role but its own,
\* or a new one, and no other role's entry.
OnlyItsRole(s) ==
    /\ \A t \in Slots : t # s => pc'[t] = pc[t] /\ req'[t] = req[t] /\ resource'[t] = resource[t]
    /\ UNCHANGED ufds \/ req[s] # NoRequest
    /\ \A r \in RoleIds :
        \/ roles'[r] = roles[r]
        \/ roles[r] = Unborn /\ roles'[r] # Unborn
        \/ r = req[s].role /\ roles'[r] # Unborn /\ (r \in Live' => r \in Live)
    /\ \A e \in entries : e.role # req[s].role => e \in entries'
    /\ \A e \in entries' : e.role # req[s].role => e \in entries

-----------------------------------------------------------------------------
LEMMA RequestFacts ==
    ASSUME NEW r \in Request
    PROVE  /\ r # NoRequest
           /\ r.op \in {"create", "update", "delete", "put"}
           /\ r.role \in RoleIds \cup {NoRole}
           /\ r.body.name \in Optional(Names) /\ r.body.policies \in Optional(SUBSET Policies)
           /\ UNION r.caller \subseteq RoleIds
           /\ UNION r.tags \subseteq Names
<1>1. /\ r.op \in {"create", "update", "delete", "put"} /\ r.role \in RoleIds \cup {NoRole}
      /\ r.body \in Bodies /\ r.tags \in Optional(TagLists \cup {{}}) /\ r.caller \in Callers
  BY DEF Request
<1>2. r # NoRequest
  BY <1>1 DEF NoRequest
<1>3. r.body \in [name: Optional(Names), policies: Optional(SUBSET Policies)]
  BY <1>1, RolesAssumption
<1>4. r.caller \in Optional(SUBSET RoleIds)
  BY <1>1, RolesAssumption
<1>5. UNION r.tags \subseteq Names
  BY <1>1, RolesAssumption DEF Optional
<1>6. UNION r.caller \subseteq RoleIds
  BY <1>4 DEF Optional
<1> QED
  BY <1>1, <1>2, <1>3, <1>5, <1>6

\* What a request in its chain has.
LEMMA InChain ==
    ASSUME TypeInv, NEW s \in Slots, pc[s] # "idle"
    PROVE  req[s] \in Request /\ req[s] # NoRequest /\ resource[s] \in Resource
  BY RequestFacts DEF TypeInv, TypeOK, StepsInv

LEMMA InitType == Init => TypeInv
  BY RolesAssumption
  DEF Init, TypeInv, TypeOK, StepsInv, Steps, Answers, Resource, NoResource, Unborn, NoRequest

LEMMA EndType ==
    ASSUME TypeInv, NEW s \in Slots, NEW code \in Answers, End(s, code),
           roles' \in [RoleIds -> Role \cup {Unborn, Deleted}], entries' \subseteq Entry
    PROVE  TypeInv'
<1>1. /\ pc' \in [Slots -> Steps] /\ req' \in [Slots -> Request \cup {NoRequest}]
      /\ resource' \in [Slots -> Resource] /\ answer' \in [Slots -> Answers]
  BY DEF TypeInv, TypeOK, End, Steps, Resource, NoResource
<1>2. \A t \in Slots : t # s => pc'[t] = pc[t] /\ req'[t] = req[t] /\ resource'[t] = resource[t]
  BY DEF TypeInv, TypeOK, End
<1>3. pc'[s] = "idle" /\ req'[s] = NoRequest
  BY DEF TypeInv, TypeOK, End
<1>4. StepsInv'
  BY <1>2, <1>3 DEF TypeInv, StepsInv
<1> QED
  BY <1>1, <1>4 DEF TypeInv, TypeOK

LEMMA RejectedType ==
    ASSUME TypeInv, NEW s \in Slots, NEW call, Rejected(s, call)
    PROVE  TypeInv'
  BY EndType DEF Rejected, Answers, ufds, TypeInv, TypeOK

\* A request goes on to a step of its kind; the entries of UFDS keep their types.
LEMMA GoOn ==
    ASSUME TypeInv, NEW s \in Slots, pc[s] # "idle", NEW step \in After,
           pc' = [pc EXCEPT ![s] = step],
           req[s].op = "create" => step \notin {"getRole", "modifyRole", "deleteRole", "deleteResource"},
           step = "addRole" => req[s].op = "create" /\ resource'[s] = NoResource /\ req[s].role = NoRole,
           step # "addRole" => req[s].role # NoRole,
           step = "preloadGroups" => req[s].tags # {},
           req' = req, resource' \in [Slots -> Resource], \A t \in Slots : t # s => resource'[t] = resource[t],
           answer' \in [Slots -> Answers],
           roles' \in [RoleIds -> Role \cup {Unborn, Deleted}], entries' \subseteq Entry
    PROVE  TypeInv'
<1>1. pc' \in [Slots -> Steps] /\ pc'[s] = step /\ \A t \in Slots : t # s => pc'[t] = pc[t]
  BY DEF TypeInv, TypeOK, After
<1>2. step \notin {"idle", "loadResource"}
  BY DEF After
<1>3. StepsInv'
  BY <1>1, <1>2 DEF TypeInv, StepsInv
<1> QED
  BY <1>1, <1>3 DEF TypeInv, TypeOK

LEMMA TagsToSaveType ==
    ASSUME NEW s \in Slots, req[s] \in Request, NEW loaded \in Resource
    PROVE  TagsToSave(s, loaded) \in SUBSET RoleIds
  BY RequestFacts DEF TagsToSave, Resource

\* Behind a handler or the load of a PUT, when the role is known.
LEMMA SaveType ==
    ASSUME TypeInv, NEW s \in Slots, pc[s] # "idle", req[s].role # NoRole,
           NEW loaded \in Resource, SaveResource(s, loaded), answer' \in [Slots -> Answers],
           UNCHANGED ufds
    PROVE  TypeInv'
<1>1. req[s] \in Request
  BY InChain
<1>2. [loaded EXCEPT !.roles = TagsToSave(s, loaded)] \in Resource
  BY <1>1, TagsToSaveType DEF Resource
<1>3. /\ resource' \in [Slots -> Resource]
      /\ \A t \in Slots : t # s => resource'[t] = resource[t]
  BY <1>2 DEF SaveResource, TypeInv, TypeOK
<1>4. PICK step \in {"modifyResource", "preloadGroups"} :
          pc' = [pc EXCEPT ![s] = step] /\ (step = "preloadGroups" => req[s].tags # {})
  BY DEF SaveResource
<1>5. step \in After
  BY <1>4 DEF After, Steps
<1> QED
  BY <1>3, <1>4, <1>5, GoOn DEF SaveResource, ufds, TypeInv, TypeOK

LEMMA ArriveType ==
    ASSUME TypeInv, NEW s \in Slots, Arrive(s)
    PROVE  TypeInv'
<1>1. PICK r \in Request :
          (r.op = "create" <=> r.role = NoRole) /\ req' = [req EXCEPT ![s] = r]
  BY DEF Arrive
<1>2. /\ pc' = [pc EXCEPT ![s] = "loadResource"]
      /\ answer' = [answer EXCEPT ![s] = "none"]
      /\ UNCHANGED <<resource, ufds>>
  BY DEF Arrive
<1>3. StepsInv'
  BY <1>1, <1>2 DEF TypeInv, TypeOK, StepsInv
<1> QED
  BY <1>1, <1>2, <1>3 DEF TypeInv, TypeOK, Steps, Answers, ufds

LEMMA LoadResourceType ==
    ASSUME TypeInv, NEW s \in Slots, LoadResource(s)
    PROVE  TypeInv'
<1>1. pc[s] = "loadResource" /\ req[s] \in Request
  BY InChain DEF LoadResource
<1>2. CASE Rejected(s, "getResource")
  BY <1>2, RejectedType
<1>3. CASE ~Rejected(s, "getResource")
  <2>1. PICK loaded \in Resource :
            /\ (req[s].op = "create" => loaded = NoResource)
            /\ IF req[s].op = "put" THEN PutResource(s, loaded)
               ELSE /\ Goto(s, CASE req[s].op = "create" -> "addRole"
                                 [] req[s].op = "update" -> "getRole"
                                 [] req[s].op = "delete" -> "deleteRole")
                    /\ resource' = [resource EXCEPT ![s] = loaded]
            /\ UNCHANGED ufds
    BY <1>3 DEF LoadResource
  <2>2. (req[s].op = "create" <=> req[s].role = NoRole)
    BY <1>1 DEF TypeInv, StepsInv
  <2>3. /\ roles' \in [RoleIds -> Role \cup {Unborn, Deleted}] /\ entries' \subseteq Entry
        /\ answer \in [Slots -> Answers]
    BY <2>1 DEF TypeInv, TypeOK, ufds
  <2>4. CASE req[s].op = "put"
    <3>1. PutResource(s, loaded) /\ req[s].role # NoRole
      BY <2>1, <2>2, <2>4
    <3>2. CASE End(s, "error")
      BY <2>3, <3>2, EndType DEF Answers
    <3>3. CASE ~End(s, "error")
      BY <1>1, <2>1, <2>3, <3>1, <3>3, SaveType DEF PutResource
    <3> QED
      BY <3>2, <3>3
  <2>5. CASE req[s].op # "put"
    <3>1. PICK step \in {"addRole", "getRole", "deleteRole"} :
              /\ pc' = [pc EXCEPT ![s] = step]
              /\ step = "addRole" <=> req[s].op = "create"
      BY <1>1, <2>1, <2>5, RequestFacts DEF Goto
    <3>2. /\ resource' \in [Slots -> Resource] /\ \A t \in Slots : t # s => resource'[t] = resource[t]
          /\ resource'[s] = loaded /\ req' = req /\ answer' = answer
      BY <2>1, <2>5 DEF Goto, TypeInv, TypeOK
    <3>3. step \in After
      BY <3>1 DEF After, Steps
    <3> QED
      BY <1>1, <2>1, <2>2, <2>3, <3>1, <3>2, <3>3, GoOn
  <2> QED
    BY <2>4, <2>5
<1> QED
  BY <1>2, <1>3

\* The role of a request past its handler is known.
LEMMA RoleKnown ==
    ASSUME TypeInv, NEW s \in Slots, pc[s] \in After \ {"addRole"}
    PROVE  req[s].role \in RoleIds /\ req[s].role # NoRole
<1>1. pc[s] \notin {"idle", "loadResource", "addRole"}
  BY DEF After
<1>2. req[s] \in Request /\ req[s].role # NoRole
  BY <1>1, InChain DEF TypeInv, StepsInv
<1> QED
  BY <1>2, RequestFacts

LEMMA PreloadGroupsType ==
    ASSUME TypeInv, NEW s \in Slots, PreloadGroups(s)
    PROVE  TypeInv'
<1>1. pc[s] = "preloadGroups" /\ req[s].role # NoRole
  <2>1. pc[s] = "preloadGroups"
    BY DEF PreloadGroups
  <2>2. pc[s] \in After \ {"addRole"}
    BY <2>1 DEF After, Steps
  <2> QED
    BY <2>1, <2>2, RoleKnown
<1>2. CASE Rejected(s, "preloadGroups")
  BY <1>2, RejectedType
<1>3. CASE UNCHANGED ufds /\ End(s, "409")
  BY <1>3, EndType DEF ufds, TypeInv, TypeOK, Answers
<1>4. CASE /\ UNCHANGED ufds /\ Goto(s, "modifyResource")
           /\ resource' = [resource EXCEPT ![s].roles =
                  UNION {Named(name) : name \in UNION req[s].tags}]
  <2>1. UNION {Named(name) : name \in UNION req[s].tags} \subseteq RoleIds
    BY DEF Named, Live
  <2>2. resource' \in [Slots -> Resource] /\ \A t \in Slots : t # s => resource'[t] = resource[t]
    BY <1>4, <2>1 DEF TypeInv, TypeOK, Resource
  <2>3. "modifyResource" \in After
    BY DEF After, Steps
  <2>4. /\ pc' = [pc EXCEPT ![s] = "modifyResource"] /\ req' = req /\ answer' \in [Slots -> Answers]
        /\ roles' \in [RoleIds -> Role \cup {Unborn, Deleted}] /\ entries' \subseteq Entry
    BY <1>4 DEF Goto, ufds, TypeInv, TypeOK
  <2> QED
    BY <1>1, <2>2, <2>3, <2>4, GoOn
<1> QED
  BY <1>2, <1>3, <1>4 DEF PreloadGroups

LEMMA ModifyResourceType ==
    ASSUME TypeInv, NEW s \in Slots, ModifyResource(s)
    PROVE  TypeInv'
<1>1. pc[s] = "modifyResource" /\ req[s].role \in RoleIds /\ resource[s] \in Resource
  <2>1. pc[s] = "modifyResource"
    BY DEF ModifyResource
  <2>2. pc[s] \in After \ {"addRole"}
    BY <2>1 DEF After, Steps
  <2> QED
    BY <2>1, <2>2, RoleKnown, InChain
<1>2. CASE Rejected(s, "modifyResource")
  BY <1>2, RejectedType
<1>3. CASE ~Rejected(s, "modifyResource")
  <2>1. PICK uuid \in EntryUuids(s) :
            entries' = {e \in entries : e.uuid # uuid} \cup
                {[uuid |-> uuid, role |-> req[s].role, tags |-> resource[s].roles]}
    BY <1>3 DEF ModifyResource
  <2>2. uuid \in Uuids
    BY <1>1 DEF EntryUuids, Resource
  <2>3. [uuid |-> uuid, role |-> req[s].role, tags |-> resource[s].roles] \in Entry
    BY <1>1, <2>2 DEF Entry, Resource
  <2>4. entries' \subseteq Entry
    BY <2>1, <2>3 DEF TypeInv, TypeOK
  <2>5. roles' = roles /\ \E code \in {"200", "error"} : End(s, code)
    BY <1>3 DEF ModifyResource
  <2>6. roles' \in [RoleIds -> Role \cup {Unborn, Deleted}]
    BY <2>5 DEF TypeInv, TypeOK
  <2> QED
    BY <2>4, <2>5, <2>6, EndType DEF Answers
<1> QED
  BY <1>2, <1>3

LEMMA GetRoleType ==
    ASSUME TypeInv, NEW s \in Slots, GetRole(s)
    PROVE  TypeInv'
<1>1. pc[s] = "getRole" /\ req[s].role # NoRole /\ req[s].op # "create"
  <2>1. pc[s] = "getRole"
    BY DEF GetRole
  <2>2. pc[s] \in After \ {"addRole"}
    BY <2>1 DEF After, Steps
  <2> QED
    BY <2>1, <2>2, RoleKnown DEF TypeInv, StepsInv
<1>2. CASE Rejected(s, "getRole")
  BY <1>2, RejectedType
<1>3. CASE UNCHANGED ufds /\ \E code \in {"404", "409"} : End(s, code)
  BY <1>3, EndType DEF ufds, TypeInv, TypeOK, Answers
<1>4. CASE UNCHANGED ufds /\ Goto(s, "modifyRole") /\ UNCHANGED resource
  <2>1. "modifyRole" \in After
    BY DEF After, Steps
  <2> QED
    BY <1>1, <1>4, <2>1, GoOn DEF Goto, ufds, TypeInv, TypeOK
<1> QED
  BY <1>2, <1>3, <1>4 DEF GetRole

LEMMA ModifyRoleType ==
    ASSUME TypeInv, NEW s \in Slots, ModifyRole(s)
    PROVE  TypeInv'
<1>1. /\ pc[s] = "modifyRole" /\ req[s].role \in RoleIds /\ req[s].role # NoRole
      /\ req[s].op # "create" /\ req[s] \in Request
  <2>1. pc[s] = "modifyRole"
    BY DEF ModifyRole
  <2>2. pc[s] \in After \ {"addRole"}
    BY <2>1 DEF After, Steps
  <2> QED
    BY <2>1, <2>2, RoleKnown, InChain DEF TypeInv, StepsInv
<1>2. CASE Rejected(s, "modifyRole")
  BY <1>2, RejectedType
<1>3. CASE End(s, "error") /\ UNCHANGED ufds
  BY <1>3, EndType DEF ufds, TypeInv, TypeOK, Answers
<1>4. CASE /\ req[s].role \in Live
           /\ roles' = [roles EXCEPT ![req[s].role] = Changed(@, req[s].body)]
           /\ \/ Goto(s, "translateGroup") /\ UNCHANGED resource
              \/ End(s, "error")
           /\ UNCHANGED entries
  <2>1. roles[req[s].role] \in Role
    BY <1>1, <1>4 DEF TypeInv, TypeOK, Live, Unborn, Deleted
  <2>2. Changed(roles[req[s].role], req[s].body) \in Role
    <3>1. (IF req[s].body.name = {} THEN roles[req[s].role].name
           ELSE CHOOSE n \in req[s].body.name : TRUE) \in Names
      BY <1>1, <2>1, RequestFacts DEF Role, Optional
    <3>2. (IF req[s].body.policies = {} THEN roles[req[s].role].policies
           ELSE UNION req[s].body.policies) \in SUBSET Policies
      BY <1>1, <2>1, RequestFacts DEF Role, Optional
    <3> QED
      BY <2>1, <3>1, <3>2 DEF Changed, Role
  <2>3. roles' \in [RoleIds -> Role \cup {Unborn, Deleted}] /\ entries' \subseteq Entry
    BY <1>4, <2>2 DEF TypeInv, TypeOK
  <2>4. CASE End(s, "error")
    BY <2>3, <2>4, EndType DEF Answers
  <2>5. CASE Goto(s, "translateGroup") /\ UNCHANGED resource
    <3>1. "translateGroup" \in After
      BY DEF After, Steps
    <3> QED
      BY <1>1, <2>3, <2>5, <3>1, GoOn DEF Goto, TypeInv, TypeOK
  <2> QED
    BY <1>4, <2>4, <2>5
<1> QED
  BY <1>2, <1>3, <1>4 DEF ModifyRole

LEMMA CreateRoleType ==
    ASSUME TypeInv, NEW s \in Slots, CreateRole(s)
    PROVE  TypeInv'
<1>1. pc[s] = "addRole" /\ req[s] \in Request /\ req[s].op = "create" /\ req[s].role = NoRole
  BY InChain DEF CreateRole, TypeInv, StepsInv
<1>2. CASE Rejected(s, "addRole")
  BY <1>2, RejectedType
<1>3. CASE End(s, "409") /\ UNCHANGED ufds
  BY <1>3, EndType DEF ufds, TypeInv, TypeOK, Answers
<1>4. CASE \E name \in req[s].body.name : \E r \in RoleIds :
            /\ roles' = [roles EXCEPT ![r] =
                   [state |-> "live", name |-> name, policies |-> UNION req[s].body.policies]]
            /\ \/ /\ pc' = [pc EXCEPT ![s] = "translateGroup"]
                  /\ req' = [req EXCEPT ![s].role = r]
                  /\ UNCHANGED <<resource, answer>>
               \/ End(s, "error")
            /\ UNCHANGED entries
  <2>1. PICK name \in req[s].body.name, r \in RoleIds :
            /\ roles' = [roles EXCEPT ![r] =
                   [state |-> "live", name |-> name, policies |-> UNION req[s].body.policies]]
            /\ \/ /\ pc' = [pc EXCEPT ![s] = "translateGroup"]
                  /\ req' = [req EXCEPT ![s].role = r]
                  /\ UNCHANGED <<resource, answer>>
               \/ End(s, "error")
            /\ UNCHANGED entries
    BY <1>4
  <2>2. name \in Names /\ UNION req[s].body.policies \subseteq Policies
    BY <1>1, RequestFacts DEF Optional
  <2>3. [state |-> "live", name |-> name, policies |-> UNION req[s].body.policies] \in Role
    BY <2>2 DEF Role
  <2>4. roles' \in [RoleIds -> Role \cup {Unborn, Deleted}] /\ entries' \subseteq Entry
    BY <2>1, <2>3 DEF TypeInv, TypeOK
  <2>5. CASE End(s, "error")
    BY <2>4, <2>5, EndType DEF Answers
  <2>6. CASE /\ pc' = [pc EXCEPT ![s] = "translateGroup"]
             /\ req' = [req EXCEPT ![s].role = r]
             /\ UNCHANGED <<resource, answer>>
    <3>1. req'[s] = [req[s] EXCEPT !.role = r] /\ \A t \in Slots : t # s => req'[t] = req[t]
      BY <2>6 DEF TypeInv, TypeOK
    <3>2. [req[s] EXCEPT !.role = r] \in Request
      BY <1>1 DEF Request
    <3>3. req' \in [Slots -> Request \cup {NoRequest}]
      BY <2>6, <3>2 DEF TypeInv, TypeOK
    <3>4. req'[s].role # NoRole /\ req'[s].op = "create"
      BY <1>1, <3>1, RolesAssumption DEF Request
    <3>5. /\ pc' \in [Slots -> Steps] /\ pc'[s] = "translateGroup"
          /\ \A t \in Slots : t # s => pc'[t] = pc[t]
      BY <2>6 DEF TypeInv, TypeOK, Steps
    <3>6. StepsInv'
      BY <2>6, <3>1, <3>2, <3>4, <3>5 DEF TypeInv, StepsInv
    <3> QED
      BY <2>4, <2>6, <3>3, <3>5, <3>6 DEF TypeInv, TypeOK
  <2> QED
    BY <2>1, <2>5, <2>6
<1> QED
  BY <1>2, <1>3, <1>4 DEF CreateRole

LEMMA TranslateGroupType ==
    ASSUME TypeInv, NEW s \in Slots, TranslateGroup(s)
    PROVE  TypeInv'
<1>1. pc[s] = "translateGroup" /\ req[s].role # NoRole /\ resource[s] \in Resource
  <2>1. pc[s] = "translateGroup"
    BY DEF TranslateGroup
  <2>2. pc[s] \in After \ {"addRole"}
    BY <2>1 DEF After, Steps
  <2> QED
    BY <2>1, <2>2, RoleKnown, InChain
<1>2. CASE Rejected(s, "translateGroup")
  BY <1>2, RejectedType
<1>3. CASE ~Rejected(s, "translateGroup")
  <2>1. PICK code \in {"200", "201"} : UpdateResource(s, code) /\ UNCHANGED ufds
    BY <1>3 DEF TranslateGroup
  <2>2. CASE End(s, code)
    BY <2>1, <2>2, EndType DEF ufds, TypeInv, TypeOK, Answers
  <2>3. CASE SaveResource(s, resource[s]) /\ answer' = [answer EXCEPT ![s] = code]
    <3>1. answer' \in [Slots -> Answers]
      BY <2>3 DEF TypeInv, TypeOK, Answers
    <3> QED
      BY <1>1, <2>1, <2>3, <3>1, SaveType
  <2> QED
    BY <2>1, <2>2, <2>3 DEF UpdateResource
<1> QED
  BY <1>2, <1>3

LEMMA DeleteRoleType ==
    ASSUME TypeInv, NEW s \in Slots, DeleteRole(s)
    PROVE  TypeInv'
<1>1. pc[s] = "deleteRole" /\ req[s].role # NoRole /\ req[s].op # "create"
  <2>1. pc[s] = "deleteRole"
    BY DEF DeleteRole
  <2>2. pc[s] \in After \ {"addRole"}
    BY <2>1 DEF After, Steps
  <2> QED
    BY <2>1, <2>2, RoleKnown DEF TypeInv, StepsInv
<1>2. CASE Rejected(s, "deleteRole")
  BY <1>2, RejectedType
<1>3. CASE End(s, "404") /\ UNCHANGED ufds
  BY <1>3, EndType DEF ufds, TypeInv, TypeOK, Answers
<1>4. CASE /\ roles' = [roles EXCEPT ![req[s].role] = Deleted]
           /\ \/ \E code \in {"error", "204"} : End(s, code)
              \/ /\ pc' = [pc EXCEPT ![s] = "deleteResource"]
                 /\ answer' = [answer EXCEPT ![s] = "204"]
                 /\ UNCHANGED <<req, resource>>
           /\ UNCHANGED entries
  <2>1. roles' \in [RoleIds -> Role \cup {Unborn, Deleted}] /\ entries' \subseteq Entry
    BY <1>4 DEF TypeInv, TypeOK
  <2>2. CASE \E code \in {"error", "204"} : End(s, code)
    BY <2>1, <2>2, EndType DEF Answers
  <2>3. CASE /\ pc' = [pc EXCEPT ![s] = "deleteResource"]
             /\ answer' = [answer EXCEPT ![s] = "204"]
             /\ UNCHANGED <<req, resource>>
    <3>1. "deleteResource" \in After
      BY DEF After, Steps
    <3>2. answer' \in [Slots -> Answers] /\ resource' \in [Slots -> Resource]
      BY <2>3 DEF TypeInv, TypeOK, Answers
    <3> QED
      BY <1>1, <2>1, <2>3, <3>1, <3>2, GoOn
  <2> QED
    BY <1>4, <2>2, <2>3
<1> QED
  BY <1>2, <1>3, <1>4 DEF DeleteRole

LEMMA DeleteResourceType ==
    ASSUME TypeInv, NEW s \in Slots, DeleteResource(s)
    PROVE  TypeInv'
<1>1. CASE Rejected(s, "deleteResource")
  BY <1>1, RejectedType
<1>2. CASE /\ entries' = {e \in entries : e.uuid # resource[s].uuid}
           /\ End(s, "204")
           /\ UNCHANGED roles
  BY <1>2, EndType DEF TypeInv, TypeOK, Answers
<1> QED
  BY <1>1, <1>2 DEF DeleteResource

LEMMA TypeStep == TypeInv /\ [Next]_vars => TypeInv'
<1> SUFFICES ASSUME TypeInv, [Next]_vars PROVE TypeInv'
  OBVIOUS
<1>1. CASE UNCHANGED vars
  BY <1>1 DEF vars, TypeInv, TypeOK, StepsInv
<1>2. ASSUME NEW s \in Slots, Arrive(s) \/ Handle(s) PROVE TypeInv'
  BY <1>2, ArriveType, LoadResourceType, CreateRoleType, GetRoleType, ModifyRoleType,
     TranslateGroupType, DeleteRoleType, PreloadGroupsType, ModifyResourceType,
     DeleteResourceType
  DEF Handle
<1> QED
  BY <1>1, <1>2 DEF Next

\* Whatever calls fail and however requests overlap, requests, tag entries and roles
\* stay well-formed, and a handler never works on a role that its step does not have.
THEOREM TypeCorrect == Spec => []TypeOK
<1>1. TypeInv => TypeOK
  BY DEF TypeInv
<1> QED
  BY <1>1, InitType, TypeStep, PTL DEF Spec

-----------------------------------------------------------------------------
\* Roles that exist, of which some are deleted: two sets of them that agree on the
\* live ones go on to agree.
LEMMA LiveKept ==
    ASSUME NEW s \in Slots, OnlyItsRole(s), NEW A \in SUBSET RoleIds, NEW B \in SUBSET RoleIds,
           \A r \in A \cup B : roles[r] # Unborn, A \cap Live = B \cap Live
    PROVE  A \cap Live' = B \cap Live'
<1>1. \A r \in A \cup B : r \in Live' => r \in Live
  BY DEF OnlyItsRole, Live
<1> QED
  BY <1>1

\* The requests that do not take the step keep what they know.
LEMMA OthersKnow ==
    ASSUME Inv, TypeInv', UuidsDiffer', NEW s \in Slots, OnlyItsRole(s),
           NEW t \in Slots, t # s
    PROVE  /\ pc'[t] \in After => KnownAt(t)'
           /\ pc'[t] # "idle" => KnownTagsAt(t)'
           /\ pc'[t] = "modifyRole" => CheckedAt(t)'
<1>1. pc'[t] = pc[t] /\ req'[t] = req[t] /\ resource'[t] = resource[t]
  BY DEF OnlyItsRole
<1>2. /\ pc[t] # "idle" => req[t] # NoRequest /\ req[t] \in Request /\ resource[t] \in Resource
      /\ entries \subseteq Entry /\ entries' \subseteq Entry
  BY InChain DEF Inv, TypeInv, TypeOK
<1>3. ASSUME pc[t] # "idle", NEW r \in RoleIds, r = req[t].role
      PROVE  UNCHANGED ufds \/ r # req[s].role
  BY <1>2, <1>3 DEF OnlyItsRole, Inv, EntriesInv, Alone
<1>4. ASSUME pc[t] # "idle", NEW e \in entries', e.role = req[t].role
      PROVE  e \in entries
  BY <1>2, <1>3, <1>4 DEF OnlyItsRole, ufds, Entry
<1>5. ASSUME pc[t] # "idle", NEW e \in entries, e.role = req[t].role
      PROVE  e \in entries'
  BY <1>2, <1>3, <1>5 DEF OnlyItsRole, ufds, Entry
<1>6. ASSUME pc[t] \in After PROVE KnownAt(t)'
  <2>1. pc[t] # "idle" /\ KnownAt(t)
    BY <1>6 DEF After, Inv, EntriesInv, Known
  <2>2. resource[t].uuid = NoUuid \/ \E e \in entries' : e.uuid = resource[t].uuid /\ e.role = req[t].role
    BY <1>5, <2>1 DEF KnownAt
  <2>3. ASSUME NEW e \in entries', e.role = req[t].role PROVE e.uuid = resource[t].uuid
    BY <1>4, <2>1, <2>3 DEF KnownAt
  <2>4. ASSUME NEW e \in entries', e.uuid = resource[t].uuid PROVE e.role = req[t].role
    <3>1. e.uuid # NoUuid
      BY <1>2, RolesAssumption DEF Entry
    <3> QED
      BY <2>2, <2>4, <3>1 DEF UuidsDiffer
  <2> QED
    BY <1>1, <2>2, <2>3, <2>4 DEF KnownAt
<1>7. ASSUME pc[t] # "idle" PROVE KnownTagsAt(t)'
  <2>1. SUFFICES ASSUME NEW e \in entries', e.role = req[t].role
                 PROVE  /\ pc[t] \in Before => resource[t].roles \cap Live' = e.tags \cap Live'
                        /\ pc[t] = "modifyResource" /\ req[t].tags = {} =>
                            \/ e.tags \cap Live' = {}
                            \/ resource[t].roles \cap Live' = e.tags \cap Live'
    BY <1>1 DEF KnownTagsAt
  <2>2. e \in entries /\ e \in Entry
    BY <1>2, <1>4, <1>7, <2>1
  <2>3. /\ e.tags \in SUBSET RoleIds /\ resource[t].roles \in SUBSET RoleIds
        /\ \A r \in e.tags \cup resource[t].roles : roles[r] # Unborn
    BY <1>2, <1>7, <2>2 DEF Entry, Resource, Inv, EntriesInv, Born
  <2>4. resource[t].roles \cap Live = e.tags \cap Live
            => resource[t].roles \cap Live' = e.tags \cap Live'
    BY <2>3, LiveKept
  <2>5. e.tags \cap Live = {} => e.tags \cap Live' = {}
    <3>1. ASSUME e.tags \cap Live = {} \cap Live PROVE e.tags \cap Live' = {} \cap Live'
      BY <2>3, <3>1, LiveKept
    <3> QED
      BY <3>1
  <2> QED
    BY <1>7, <2>1, <2>2, <2>4, <2>5 DEF Inv, KnownTags, KnownTagsAt
<1>8. ASSUME pc[t] = "modifyRole" PROVE CheckedAt(t)'
  <2>1. pc[t] \in After \ {"addRole"}
    BY <1>8 DEF After, Steps
  <2>2. req[t].role \in RoleIds /\ roles[req[t].role] # Unborn
    BY <1>2, <1>8, <2>1, RoleKnown DEF Inv, EntriesInv, Born
  <2>3. roles'[req[t].role] = roles[req[t].role]
    BY <1>3, <1>8, <2>2 DEF OnlyItsRole, ufds
  <2> QED
    BY <1>1, <1>8, <2>2, <2>3 DEF Inv, Checked, CheckedAt, Live
<1> QED
  BY <1>1, <1>6, <1>7, <1>8

\* Whatever the step: the invariant, once it holds of what the step wrote.
LEMMA Combine ==
    ASSUME Inv, TypeInv', NEW s \in Slots, OnlyItsRole(s),
           UuidsDiffer', OneEntryPerRole',
           \A e \in entries' : roles'[e.role] # Unborn /\ \A r \in e.tags : roles'[r] # Unborn,
           \A r \in resource'[s].roles : roles'[r] # Unborn,
           req'[s] # NoRequest =>
               /\ req'[s].role \in RoleIds => roles'[req'[s].role] # Unborn
               /\ \A r \in UNION req'[s].caller : roles'[r] # Unborn
               /\ \A t \in Slots : t # s /\ req[t] # NoRequest /\ req[t].role \in RoleIds
                    => req[t].role # req'[s].role,
           pc'[s] \in After => KnownAt(s)',
           pc'[s] # "idle" => KnownTagsAt(s)',
           pc'[s] = "modifyRole" => CheckedAt(s)'
    PROVE  Inv'
<1>1. \A t \in Slots : t # s => pc'[t] = pc[t] /\ req'[t] = req[t] /\ resource'[t] = resource[t]
  BY DEF OnlyItsRole
<1>2. \A r \in RoleIds : roles[r] # Unborn => roles'[r] # Unborn
  BY DEF OnlyItsRole
<1>3. \A t \in Slots : /\ resource[t].roles \subseteq RoleIds
                       /\ req[t] # NoRequest => UNION req[t].caller \subseteq RoleIds
  BY RequestFacts DEF Inv, TypeInv, TypeOK, Resource
<1>4. Alone'
  BY <1>1 DEF Inv, EntriesInv, Alone
<1>5. Born'
  BY <1>1, <1>2, <1>3 DEF Inv, EntriesInv, Born
<1>6. Known' /\ KnownTags' /\ Checked'
  BY OthersKnow DEF Known, KnownTags, Checked
<1> QED
  BY <1>4, <1>5, <1>6 DEF Inv, EntriesInv

\* What a request in its chain refers to exists, and no other request has its role.
LEMMA InChainBorn ==
    ASSUME Inv, NEW s \in Slots, pc[s] # "idle"
    PROVE  /\ req[s].role \in RoleIds => roles[req[s].role] # Unborn
           /\ \A r \in UNION req[s].caller : roles[r] # Unborn
           /\ \A r \in resource[s].roles : roles[r] # Unborn
           /\ \A t \in Slots : t # s /\ req[t] # NoRequest /\ req[t].role \in RoleIds
                => req[t].role # req[s].role
  BY InChain DEF Inv, EntriesInv, Born, Alone

LEMMA EndInv ==
    ASSUME Inv, TypeInv', NEW s \in Slots, pc[s] # "idle", NEW code, End(s, code),
           OnlyItsRole(s), UuidsDiffer', OneEntryPerRole',
           \A e \in entries' : roles'[e.role] # Unborn /\ \A r \in e.tags : roles'[r] # Unborn
    PROVE  Inv'
<1>1. pc'[s] = "idle" /\ req'[s] = NoRequest /\ resource'[s] = NoResource
  BY DEF End, Inv, TypeInv, TypeOK
<1>2. pc'[s] \notin After
  BY <1>1 DEF After
<1> QED
  BY <1>1, <1>2, Combine DEF NoResource

LEMMA EndQuietly ==
    ASSUME Inv, TypeInv', NEW s \in Slots, pc[s] # "idle", NEW code, End(s, code),
           UNCHANGED ufds
    PROVE  Inv'
<1>1. OnlyItsRole(s)
  BY InChain DEF OnlyItsRole, End, ufds, Inv, TypeInv, TypeOK
<1>2. UuidsDiffer' /\ OneEntryPerRole'
  BY DEF ufds, UuidsDiffer, OneEntryPerRole, Inv, EntriesInv
<1>3. \A e \in entries' : roles'[e.role] # Unborn /\ \A r \in e.tags : roles'[r] # Unborn
  BY DEF ufds, Inv, EntriesInv, Born
<1> QED
  BY <1>1, <1>2, <1>3, EndInv

LEMMA RejectedInv ==
    ASSUME Inv, TypeInv', NEW s \in Slots, pc[s] # "idle", NEW call, Rejected(s, call)
    PROVE  Inv'
  BY EndQuietly DEF Rejected

\* The request goes on; UFDS is as it was.
LEMMA GoOnInv ==
    ASSUME Inv, TypeInv', NEW s \in Slots, pc[s] # "idle", NEW step \in After,
           pc' = [pc EXCEPT ![s] = step], req' = req, UNCHANGED ufds,
           \A t \in Slots : t # s => resource'[t] = resource[t],
           \A r \in resource'[s].roles : roles[r] # Unborn,
           KnownAt(s)', KnownTagsAt(s)', step = "modifyRole" => CheckedAt(s)'
    PROVE  Inv'
<1>1. pc'[s] = step /\ \A t \in Slots : t # s => pc'[t] = pc[t]
  BY DEF Inv, TypeInv, TypeOK
<1>2. OnlyItsRole(s)
  BY <1>1, InChain DEF OnlyItsRole, ufds, Inv
<1>3. UuidsDiffer' /\ OneEntryPerRole'
  BY DEF ufds, UuidsDiffer, OneEntryPerRole, Inv, EntriesInv
<1>4. \A e \in entries' : roles'[e.role] # Unborn /\ \A r \in e.tags : roles'[r] # Unborn
  BY DEF ufds, Inv, EntriesInv, Born
<1>5. \A r \in resource'[s].roles : roles'[r] # Unborn
  BY DEF ufds
<1>6. /\ req'[s].role \in RoleIds => roles'[req'[s].role] # Unborn
      /\ \A r \in UNION req'[s].caller : roles'[r] # Unborn
      /\ \A t \in Slots : t # s /\ req[t] # NoRequest /\ req[t].role \in RoleIds
            => req[t].role # req'[s].role
  BY InChainBorn DEF ufds
<1> QED
  BY <1>1, <1>2, <1>3, <1>4, <1>5, <1>6, Combine

\* The same request, its entry and its tags: it knows what it knew.
LEMMA SameKnown ==
    ASSUME Inv, NEW s \in Slots, pc[s] \in Before, pc'[s] \notin {"idle", "loadResource"},
           req' = req, resource' = resource, UNCHANGED ufds
    PROVE  KnownAt(s)' /\ KnownTagsAt(s)'
<1>1. pc[s] \in After /\ pc[s] # "idle"
  BY DEF Before, After, Steps
<1>2. KnownAt(s) /\ KnownTagsAt(s)
  BY <1>1 DEF Inv, EntriesInv, Known, KnownTags
<1>3. Live' = Live
  BY DEF ufds, Live
<1> QED
  BY <1>2, <1>3 DEF KnownAt, KnownTagsAt, ufds

LEMMA SaveInv ==
    ASSUME Inv, TypeInv', NEW s \in Slots, pc[s] # "idle", UNCHANGED ufds,
           NEW loaded \in Resource, SaveResource(s, loaded),
           \A r \in loaded.roles : roles[r] # Unborn,
           \A e \in entries : e.role = req[s].role <=> e.uuid = loaded.uuid,
           loaded.uuid = NoUuid \/ \E e \in entries : e.uuid = loaded.uuid,
           \A e \in entries : e.role = req[s].role => loaded.roles \cap Live = e.tags \cap Live
    PROVE  Inv'
<1>1. PICK step \in {"modifyResource", "preloadGroups"} :
          pc' = [pc EXCEPT ![s] = step] /\ (step = "modifyResource" <=> req[s].tags \in {{}, {{}}})
  BY DEF SaveResource
<1>2. step \in After /\ step \notin Before /\ pc'[s] = step
  BY <1>1 DEF After, Before, Steps, Inv, TypeInv, TypeOK
<1>3. /\ resource'[s] = [loaded EXCEPT !.roles = TagsToSave(s, loaded)]
      /\ \A t \in Slots : t # s => resource'[t] = resource[t]
      /\ req' = req
  BY DEF SaveResource, Inv, TypeInv, TypeOK
<1>4. resource'[s].uuid = loaded.uuid /\ resource'[s].roles = TagsToSave(s, loaded)
  BY <1>3 DEF Resource
<1>5. \A r \in TagsToSave(s, loaded) : roles[r] # Unborn
  BY InChainBorn DEF TagsToSave
<1>6. KnownAt(s)'
  BY <1>3, <1>4 DEF KnownAt, ufds
<1>7. KnownTagsAt(s)'
  <2>1. Live' = Live /\ entries' = entries
    BY DEF ufds, Live
  <2>2. ASSUME NEW e \in entries, e.role = req[s].role, req[s].tags = {}
        PROVE  e.tags \cap Live = {} \/ TagsToSave(s, loaded) \cap Live = e.tags \cap Live
    BY <2>2 DEF TagsToSave
  <2> QED
    BY <1>2, <1>3, <1>4, <2>1, <2>2 DEF KnownTagsAt
<1>8. step # "modifyRole"
  BY <1>1
<1> QED
  BY <1>1, <1>2, <1>3, <1>4, <1>5, <1>6, <1>7, <1>8, GoOnInv

-----------------------------------------------------------------------------
\* The invariant, action by action.
LEMMA ArriveInv ==
    ASSUME Awaits = "end", Inv, TypeInv', NEW s \in Slots, Arrive(s)
    PROVE  Inv'
<1>1. PICK r \in Request :
          /\ r.op = "create" <=> r.role = NoRole
          /\ r.op # "create" =>
                 roles[r.role] # Unborn /\ r.role \notin {req[t].role : t \in Busy}
          /\ UNION r.caller \subseteq Live
          /\ req' = [req EXCEPT ![s] = r]
  BY DEF Arrive
<1>2. /\ pc' = [pc EXCEPT ![s] = "loadResource"] /\ UNCHANGED <<resource, ufds>>
  BY DEF Arrive
<1>3. /\ req'[s] = r /\ pc'[s] = "loadResource"
      /\ \A t \in Slots : t # s => pc'[t] = pc[t] /\ req'[t] = req[t] /\ resource'[t] = resource[t]
  BY <1>1, <1>2 DEF Inv, TypeInv, TypeOK
<1>4. OnlyItsRole(s)
  BY <1>2, <1>3 DEF OnlyItsRole, ufds
<1>5. /\ UuidsDiffer' /\ OneEntryPerRole'
      /\ \A e \in entries' : roles'[e.role] # Unborn /\ \A q \in e.tags : roles'[q] # Unborn
      /\ \A q \in resource'[s].roles : roles'[q] # Unborn
  BY <1>2 DEF ufds, UuidsDiffer, OneEntryPerRole, Inv, EntriesInv, Born
<1>6. /\ r.role \in RoleIds => roles[r.role] # Unborn
      /\ \A q \in UNION r.caller : roles[q] # Unborn
      /\ \A t \in Slots : t # s /\ req[t] # NoRequest /\ req[t].role \in RoleIds
            => req[t].role # r.role
  BY <1>1, RolesAssumption DEF Live, Unborn, Busy
<1>7. KnownTagsAt(s)' /\ pc'[s] \notin After
  BY <1>3 DEF KnownTagsAt, Before, After
<1> QED
  BY <1>2, <1>3, <1>4, <1>5, <1>6, <1>7, Combine DEF ufds

\* The entry of the path was loaded, or is known not to exist.
LEMMA LoadedInv ==
    ASSUME Inv, TypeInv', NEW s \in Slots, pc[s] = "loadResource", UNCHANGED ufds,
           NEW loaded \in Resource,
           \A r \in loaded.roles : roles[r] # Unborn,
           \A e \in entries : e.role = req[s].role <=> e.uuid = loaded.uuid,
           loaded.uuid = NoUuid \/ \E e \in entries : e.uuid = loaded.uuid,
           \A e \in entries : e.role = req[s].role => loaded.roles \cap Live = e.tags \cap Live,
           IF req[s].op = "put" THEN PutResource(s, loaded)
           ELSE /\ Goto(s, CASE req[s].op = "create" -> "addRole"
                             [] req[s].op = "update" -> "getRole"
                             [] req[s].op = "delete" -> "deleteRole")
                /\ resource' = [resource EXCEPT ![s] = loaded]
    PROVE  Inv'
<1>1. pc[s] # "idle" /\ req[s] \in Request
  BY InChain DEF Inv
<1>2. CASE End(s, "error")
  BY <1>1, <1>2, EndQuietly
<1>3. CASE req[s].op = "put" /\ ~End(s, "error")
  BY <1>1, <1>3, SaveInv DEF PutResource
<1>4. CASE req[s].op # "put"
  <2>1. PICK step \in {"addRole", "getRole", "deleteRole"} :
            pc' = [pc EXCEPT ![s] = step] /\ req' = req
    BY <1>1, <1>4, RequestFacts DEF Goto
  <2>2. /\ resource'[s] = loaded /\ \A t \in Slots : t # s => resource'[t] = resource[t]
    BY <1>4 DEF Inv, TypeInv, TypeOK
  <2>3. step \in After /\ step \in Before /\ step # "modifyRole" /\ step # "modifyResource"
    BY <2>1 DEF After, Before, Steps
  <2>4. pc'[s] = step
    BY <2>1 DEF Inv, TypeInv, TypeOK
  <2>5. KnownAt(s)'
    BY <2>1, <2>2 DEF KnownAt, ufds
  <2>6. KnownTagsAt(s)'
    <3>1. Live' = Live /\ entries' = entries
      BY DEF ufds, Live
    <3> QED
      BY <2>1, <2>2, <2>3, <2>4, <3>1 DEF KnownTagsAt
  <2> QED
    BY <1>1, <2>1, <2>2, <2>3, <2>5, <2>6, GoOnInv
<1> QED
  BY <1>2, <1>3, <1>4

LEMMA LoadResourceInv ==
    ASSUME Inv, TypeInv', NEW s \in Slots, LoadResource(s)
    PROVE  Inv'
<1>1. pc[s] = "loadResource" /\ pc[s] # "idle" /\ req[s] \in Request
  BY InChain DEF LoadResource, Inv
<1>2. CASE Rejected(s, "getResource")
  BY <1>1, <1>2, RejectedInv
<1>3. CASE ~Rejected(s, "getResource")
  <2>1. PICK loaded \in Resource :
            /\ IF req[s].op # "create" /\ \E e \in entries : e.role = req[s].role
               THEN \E e \in entries :
                        /\ e.role = req[s].role
                        /\ loaded = [uuid |-> e.uuid, roles |-> e.tags \cap Live]
               ELSE loaded = NoResource
            /\ IF req[s].op = "put" THEN PutResource(s, loaded)
               ELSE /\ Goto(s, CASE req[s].op = "create" -> "addRole"
                                 [] req[s].op = "update" -> "getRole"
                                 [] req[s].op = "delete" -> "deleteRole")
                    /\ resource' = [resource EXCEPT ![s] = loaded]
            /\ UNCHANGED ufds
    BY <1>3 DEF LoadResource
  <2>2. entries \subseteq Entry
    BY DEF Inv, TypeInv, TypeOK
  <2>3. req[s].op = "create" => \A e \in entries : e.role # req[s].role
    BY <1>1, <2>2, RolesAssumption DEF Inv, TypeInv, StepsInv, Entry
  <2>4. CASE \E e \in entries : e.role = req[s].role
    <3>1. PICK e \in entries : /\ e.role = req[s].role
                               /\ loaded = [uuid |-> e.uuid, roles |-> e.tags \cap Live]
      BY <2>1, <2>3, <2>4
    <3>2. loaded.uuid = e.uuid /\ loaded.roles = e.tags \cap Live
      BY <3>1
    <3>3. \A f \in entries : (f.role = req[s].role <=> f = e) /\ (f.uuid = loaded.uuid <=> f = e)
      BY <3>1, <3>2 DEF Inv, EntriesInv, UuidsDiffer, OneEntryPerRole
    <3>4. req[s].role \in RoleIds
      BY <2>2, <3>1 DEF Entry
    <3>5. /\ \A r \in loaded.roles : roles[r] # Unborn
          /\ \A f \in entries : f.role = req[s].role <=> f.uuid = loaded.uuid
          /\ \E f \in entries : f.uuid = loaded.uuid
          /\ \A f \in entries : f.role = req[s].role => loaded.roles \cap Live = f.tags \cap Live
      BY <3>1, <3>2, <3>3 DEF Inv, EntriesInv, Born
    <3> QED
      BY <3>5, <1>1, <2>1, LoadedInv
  <2>5. CASE \A e \in entries : e.role # req[s].role
    <3>1. loaded = NoResource
      BY <2>1, <2>5
    <3>2. /\ \A r \in loaded.roles : roles[r] # Unborn
          /\ \A f \in entries : f.role = req[s].role <=> f.uuid = loaded.uuid
          /\ loaded.uuid = NoUuid
          /\ \A f \in entries : f.role = req[s].role => loaded.roles \cap Live = f.tags \cap Live
      BY <2>2, <2>5, <3>1, RolesAssumption DEF NoResource, Entry
    <3> QED
      BY <3>2, <1>1, <2>1, LoadedInv
  <2> QED
    BY <2>4, <2>5
<1> QED
  BY <1>2, <1>3

LEMMA PreloadGroupsInv ==
    ASSUME Inv, TypeInv', NEW s \in Slots, PreloadGroups(s)
    PROVE  Inv'
<1>1. pc[s] = "preloadGroups" /\ pc[s] # "idle" /\ pc[s] \in After
  BY DEF PreloadGroups, After, Steps
<1>2. CASE Rejected(s, "preloadGroups")
  BY <1>1, <1>2, RejectedInv
<1>3. CASE UNCHANGED ufds /\ End(s, "409")
  BY <1>1, <1>3, EndQuietly
<1>4. CASE /\ UNCHANGED ufds /\ Goto(s, "modifyResource")
           /\ resource' = [resource EXCEPT ![s].roles =
                  UNION {Named(name) : name \in UNION req[s].tags}]
           /\ req[s].tags # {}
  <2>1. \A r \in UNION {Named(name) : name \in UNION req[s].tags} : roles[r] # Unborn
    BY DEF Named, Live, Unborn
  <2>2. /\ resource'[s].uuid = resource[s].uuid
        /\ resource'[s].roles = UNION {Named(name) : name \in UNION req[s].tags}
        /\ \A t \in Slots : t # s => resource'[t] = resource[t]
    BY <1>4 DEF Inv, TypeInv, TypeOK, Resource
  <2>3. /\ pc' = [pc EXCEPT ![s] = "modifyResource"] /\ req' = req
        /\ pc'[s] = "modifyResource"
    BY <1>4 DEF Goto, Inv, TypeInv, TypeOK
  <2>4. KnownAt(s)
    BY <1>1 DEF Inv, EntriesInv, Known
  <2>5. KnownAt(s)'
    BY <1>4, <2>2, <2>3, <2>4 DEF KnownAt, ufds
  <2>6. KnownTagsAt(s)'
    BY <1>4, <2>3 DEF KnownTagsAt, Before
  <2>7. "modifyResource" \in After
    BY DEF After, Steps
  <2>8. \A r \in resource'[s].roles : roles[r] # Unborn
    BY <2>1, <2>2
  <2> QED
    BY <1>1, <1>4, <2>2, <2>3, <2>5, <2>6, <2>7, <2>8, GoOnInv
<1>5. req[s].tags # {}
  BY <1>1 DEF Inv, TypeInv, StepsInv
<1> QED
  BY <1>2, <1>3, <1>4, <1>5 DEF PreloadGroups

\* The entry of the role is written under its uuid, or else under a new one.
LEMMA EntryWritten ==
    ASSUME Inv, TypeInv', NEW s \in Slots, pc[s] = "modifyResource",
           NEW uuid \in EntryUuids(s)
    PROVE  uuid \in Uuids /\ \A e \in entries : e.role = req[s].role <=> e.uuid = uuid
<1>1. pc[s] \in After /\ pc[s] # "idle"
  BY DEF After, Steps
<1>2. KnownAt(s) /\ resource[s] \in Resource /\ entries \subseteq Entry
  BY <1>1, InChain DEF Inv, EntriesInv, Known, TypeInv, TypeOK
<1>3. uuid \in Uuids
  BY <1>2 DEF EntryUuids, Resource
<1>4. CASE resource[s].uuid # NoUuid
  BY <1>2, <1>3, <1>4 DEF EntryUuids, KnownAt
<1>5. CASE resource[s].uuid = NoUuid
  <2>1. \A e \in entries : e.uuid # NoUuid
    BY <1>2, RolesAssumption DEF Entry
  <2>2. \A e \in entries : e.role # req[s].role /\ e.uuid # uuid
    BY <1>2, <1>5, <2>1 DEF KnownAt, EntryUuids
  <2> QED
    BY <1>3, <2>2
<1> QED
  BY <1>4, <1>5

LEMMA ModifyResourceInv ==
    ASSUME Inv, TypeInv', NEW s \in Slots, ModifyResource(s)
    PROVE  Inv'
<1>1. pc[s] = "modifyResource" /\ pc[s] # "idle"
  BY DEF ModifyResource
<1>2. CASE Rejected(s, "modifyResource")
  BY <1>1, <1>2, RejectedInv
<1>3. CASE ~Rejected(s, "modifyResource")
  <2>1. PICK uuid \in EntryUuids(s) :
            entries' = {e \in entries : e.uuid # uuid} \cup
                {[uuid |-> uuid, role |-> req[s].role, tags |-> resource[s].roles]}
    BY <1>3 DEF ModifyResource
  <2>2. PICK code \in {"200", "error"} : End(s, code) /\ roles' = roles
    BY <1>3 DEF ModifyResource
  <2>3. \A e \in entries : e.role = req[s].role <=> e.uuid = uuid
    BY <1>1, EntryWritten
  <2> DEFINE new == [uuid |-> uuid, role |-> req[s].role, tags |-> resource[s].roles]
  <2>4. /\ new.uuid = uuid /\ new.role = req[s].role /\ new.tags = resource[s].roles
        /\ \A e \in entries' : e = new \/ (e \in entries /\ e.uuid # uuid /\ e.role # req[s].role)
        /\ \A e \in entries : e.role # req[s].role => e \in entries'
    BY <2>1, <2>3
  <2> HIDE DEF new
  <2>5. UuidsDiffer' /\ OneEntryPerRole'
    BY <2>4 DEF UuidsDiffer, OneEntryPerRole, Inv, EntriesInv
  <2>6. req[s].role \in RoleIds /\ req[s] # NoRequest
    <3>1. pc[s] \in After \ {"addRole"}
      BY <1>1 DEF After, Steps
    <3> QED
      BY <1>1, <3>1, RoleKnown, InChain DEF Inv
  <2>7. OnlyItsRole(s)
    <3>1. \A t \in Slots : t # s => pc'[t] = pc[t] /\ req'[t] = req[t] /\ resource'[t] = resource[t]
      BY <2>2 DEF End, Inv, TypeInv, TypeOK
    <3> QED
      BY <2>2, <2>4, <2>6, <3>1 DEF OnlyItsRole
  <2>8. \A e \in entries' : roles'[e.role] # Unborn /\ \A r \in e.tags : roles'[r] # Unborn
    BY <1>1, <2>2, <2>4, <2>6, InChainBorn DEF Inv, EntriesInv, Born
  <2> QED
    BY <1>1, <2>2, <2>5, <2>7, <2>8, EndInv
<1> QED
  BY <1>2, <1>3

LEMMA CreateRoleInv ==
    ASSUME Inv, TypeInv', NEW s \in Slots, CreateRole(s)
    PROVE  Inv'
<1>1. /\ pc[s] = "addRole" /\ pc[s] # "idle" /\ req[s] \in Request /\ req[s] # NoRequest
      /\ req[s].role = NoRole /\ resource[s] = NoResource
  BY InChain DEF CreateRole, Inv, TypeInv, StepsInv
<1>2. CASE Rejected(s, "addRole")
  BY <1>1, <1>2, RejectedInv
<1>3. CASE End(s, "409") /\ UNCHANGED ufds
  BY <1>1, <1>3, EndQuietly
<1>4. CASE \E name \in req[s].body.name : \E r \in RoleIds :
            /\ roles[r] = Unborn
            /\ roles' = [roles EXCEPT ![r] =
                   [state |-> "live", name |-> name, policies |-> UNION req[s].body.policies]]
            /\ \/ /\ pc' = [pc EXCEPT ![s] = "translateGroup"]
                  /\ req' = [req EXCEPT ![s].role = r]
                  /\ UNCHANGED <<resource, answer>>
               \/ End(s, "error")
            /\ UNCHANGED entries
  <2>1. PICK name \in req[s].body.name, r \in RoleIds :
            /\ roles[r] = Unborn
            /\ roles' = [roles EXCEPT ![r] =
                   [state |-> "live", name |-> name, policies |-> UNION req[s].body.policies]]
            /\ \/ /\ pc' = [pc EXCEPT ![s] = "translateGroup"]
                  /\ req' = [req EXCEPT ![s].role = r]
                  /\ UNCHANGED <<resource, answer>>
               \/ End(s, "error")
            /\ UNCHANGED entries
    BY <1>4
  <2>2. /\ roles'[r] # Unborn /\ \A q \in RoleIds : q # r => roles'[q] = roles[q]
    BY <2>1 DEF Unborn, Inv, TypeInv, TypeOK
  <2>3. \A t \in Slots : t # s => pc'[t] = pc[t] /\ req'[t] = req[t] /\ resource'[t] = resource[t]
    BY <2>1 DEF End, Inv, TypeInv, TypeOK
  <2>4. OnlyItsRole(s)
    BY <1>1, <2>1, <2>2, <2>3 DEF OnlyItsRole
  <2>5. UuidsDiffer' /\ OneEntryPerRole'
    BY <2>1 DEF UuidsDiffer, OneEntryPerRole, Inv, EntriesInv
  <2>6. entries \subseteq Entry
    BY DEF Inv, TypeInv, TypeOK
  <2>7. \A e \in entries' : roles'[e.role] # Unborn /\ \A q \in e.tags : roles'[q] # Unborn
    BY <2>1, <2>2, <2>6 DEF Inv, EntriesInv, Born, Entry
  <2>8. CASE End(s, "error")
    BY <1>1, <2>4, <2>5, <2>7, <2>8, EndInv
  <2>9. CASE /\ pc' = [pc EXCEPT ![s] = "translateGroup"]
             /\ req' = [req EXCEPT ![s].role = r]
             /\ UNCHANGED <<resource, answer>>
    <3>1. /\ pc'[s] = "translateGroup" /\ resource'[s] = NoResource
          /\ req'[s] = [req[s] EXCEPT !.role = r]
      BY <1>1, <2>9 DEF Inv, TypeInv, TypeOK
    <3>2. req'[s].role = r /\ req'[s].caller = req[s].caller
      BY <1>1, <3>1 DEF Request
    <3>3. \A e \in entries : e.role # r
      BY <2>1 DEF Inv, EntriesInv, Born
    <3>4. \A e \in entries : e.uuid # NoUuid
      BY <2>6, RolesAssumption DEF Entry
    <3>5. KnownAt(s)' /\ KnownTagsAt(s)'
      BY <2>1, <3>1, <3>2, <3>3, <3>4 DEF KnownAt, KnownTagsAt, NoResource
    <3>6. \A q \in UNION req[s].caller : q \in RoleIds /\ roles[q] # Unborn
      BY <1>1, RequestFacts, InChainBorn
    <3>7. \A q \in UNION req'[s].caller : roles'[q] # Unborn
      BY <2>2, <3>2, <3>6
    <3>8. \A t \in Slots : t # s /\ req[t] # NoRequest /\ req[t].role \in RoleIds
            => req[t].role # req'[s].role
      BY <2>1, <3>2 DEF Inv, EntriesInv, Born
    <3>9. \A q \in resource'[s].roles : roles'[q] # Unborn
      BY <3>1 DEF NoResource
    <3> QED
      BY <2>2, <2>4, <2>5, <2>7, <3>1, <3>2, <3>5, <3>7, <3>8, <3>9, Combine
  <2> QED
    BY <2>1, <2>8, <2>9
<1> QED
  BY <1>2, <1>3, <1>4, Zenon DEF CreateRole

LEMMA GetRoleInv ==
    ASSUME Inv, TypeInv', NEW s \in Slots, GetRole(s)
    PROVE  Inv'
<1>1. pc[s] = "getRole" /\ pc[s] # "idle" /\ pc[s] \in Before
  BY DEF GetRole, Before
<1>2. CASE Rejected(s, "getRole")
  BY <1>1, <1>2, RejectedInv
<1>3. CASE UNCHANGED ufds /\ \E code \in {"404", "409"} : End(s, code)
  BY <1>1, <1>3, EndQuietly
<1>4. CASE /\ UNCHANGED ufds /\ Goto(s, "modifyRole") /\ UNCHANGED resource
           /\ Allowed(req[s].body)
           /\ ~(roles[req[s].role].name = "administrator" /\ req[s].body.policies # {})
  <2>1. /\ pc' = [pc EXCEPT ![s] = "modifyRole"] /\ req' = req /\ resource' = resource
        /\ pc'[s] = "modifyRole"
    BY <1>4 DEF Goto, Inv, TypeInv, TypeOK
  <2>2. KnownAt(s)' /\ KnownTagsAt(s)'
    BY <1>1, <1>4, <2>1, SameKnown
  <2>3. CheckedAt(s)'
    BY <1>4, <2>1 DEF CheckedAt, ufds, Live
  <2>4. "modifyRole" \in After
    BY DEF After, Steps
  <2> QED
    BY <1>1, <1>4, <2>1, <2>2, <2>3, <2>4, InChainBorn, GoOnInv
<1> QED
  BY <1>2, <1>3, <1>4 DEF GetRole

LEMMA ModifyRoleInv ==
    ASSUME Inv, TypeInv', NEW s \in Slots, ModifyRole(s)
    PROVE  Inv'
<1>1. /\ pc[s] = "modifyRole" /\ pc[s] # "idle" /\ pc[s] \in Before /\ pc[s] \in After
      /\ req[s].role \in RoleIds /\ req[s] # NoRequest
  <2>1. pc[s] = "modifyRole"
    BY DEF ModifyRole
  <2>2. pc[s] \in After \ {"addRole"}
    BY <2>1 DEF After, Steps
  <2> QED
    BY <2>1, <2>2, RoleKnown, InChain DEF Before, Inv
<1>2. CASE Rejected(s, "modifyRole")
  BY <1>1, <1>2, RejectedInv
<1>3. CASE End(s, "error") /\ UNCHANGED ufds
  BY <1>1, <1>3, EndQuietly
<1>4. CASE /\ req[s].role \in Live
           /\ roles' = [roles EXCEPT ![req[s].role] = Changed(@, req[s].body)]
           /\ \/ Goto(s, "translateGroup") /\ UNCHANGED resource
              \/ End(s, "error")
           /\ UNCHANGED entries
  <2>1. roles[req[s].role] \in Role
    BY <1>1, <1>4 DEF Inv, TypeInv, TypeOK, Live, Unborn, Deleted
  <2>2. Changed(roles[req[s].role], req[s].body).state = "live"
    BY <2>1 DEF Changed, Role
  <2>3. /\ roles'[req[s].role].state = "live"
        /\ \A r \in RoleIds : r # req[s].role => roles'[r] = roles[r]
    BY <1>1, <1>4, <2>2 DEF Inv, TypeInv, TypeOK
  <2>4. Live' = Live
    BY <1>4, <2>3 DEF Live
  <2>5. \A t \in Slots : t # s => pc'[t] = pc[t] /\ req'[t] = req[t] /\ resource'[t] = resource[t]
    BY <1>4 DEF Goto, End, Inv, TypeInv, TypeOK
  <2>6. roles'[req[s].role] # Unborn
    BY <2>3 DEF Unborn
  <2>7. OnlyItsRole(s)
    BY <1>1, <1>4, <2>3, <2>4, <2>5, <2>6 DEF OnlyItsRole
  <2>8. UuidsDiffer' /\ OneEntryPerRole'
    BY <1>4 DEF UuidsDiffer, OneEntryPerRole, Inv, EntriesInv
  <2>9. entries' \subseteq Entry
    BY DEF TypeInv, TypeOK
  <2>10. \A e \in entries' : roles'[e.role] # Unborn /\ \A q \in e.tags : roles'[q] # Unborn
    BY <1>4, <2>3, <2>6, <2>9 DEF Inv, EntriesInv, Born, Entry
  <2>11. CASE End(s, "error")
    BY <1>1, <2>7, <2>8, <2>10, <2>11, EndInv
  <2>12. CASE Goto(s, "translateGroup") /\ UNCHANGED resource
    <3>1. pc'[s] = "translateGroup" /\ req' = req /\ resource' = resource /\ entries' = entries
      BY <1>4, <2>12 DEF Goto, Inv, TypeInv, TypeOK
    <3>2. KnownAt(s) /\ KnownTagsAt(s)
      BY <1>1 DEF Inv, EntriesInv, Known, KnownTags
    <3>3. KnownAt(s)' /\ KnownTagsAt(s)'
      BY <1>1, <2>4, <3>1, <3>2 DEF KnownAt, KnownTagsAt
    <3>4. resource[s].roles \subseteq RoleIds /\ UNION req[s].caller \subseteq RoleIds
      BY <1>1, InChain, RequestFacts DEF Inv, Resource
    <3>5. /\ \A r \in resource'[s].roles : roles'[r] # Unborn
          /\ \A r \in UNION req'[s].caller : roles'[r] # Unborn
      BY <1>1, <2>3, <2>6, <3>1, <3>4, InChainBorn
    <3>6. \A t \in Slots : t # s /\ req[t] # NoRequest /\ req[t].role \in RoleIds
            => req[t].role # req'[s].role
      BY <1>1, <3>1, InChainBorn
    <3> QED
      BY <2>6, <2>7, <2>8, <2>10, <3>1, <3>3, <3>5, <3>6, Combine
  <2> QED
    BY <1>4, <2>11, <2>12
<1> QED
  BY <1>2, <1>3, <1>4 DEF ModifyRole

LEMMA TranslateGroupInv ==
    ASSUME Inv, TypeInv', NEW s \in Slots, TranslateGroup(s)
    PROVE  Inv'
<1>1. pc[s] = "translateGroup" /\ pc[s] # "idle" /\ pc[s] \in Before /\ pc[s] \in After
  BY DEF TranslateGroup, Before, After, Steps
<1>2. CASE Rejected(s, "translateGroup")
  BY <1>1, <1>2, RejectedInv
<1>3. CASE ~Rejected(s, "translateGroup")
  <2>1. PICK code \in {"200", "201"} : UpdateResource(s, code) /\ UNCHANGED ufds
    BY <1>3 DEF TranslateGroup
  <2>2. CASE End(s, code)
    BY <1>1, <2>1, <2>2, EndQuietly
  <2>3. CASE SaveResource(s, resource[s])
    <3>1. KnownAt(s) /\ KnownTagsAt(s) /\ resource[s] \in Resource
      BY <1>1, InChain DEF Inv, EntriesInv, Known, KnownTags
    <3> QED
      BY <1>1, <2>1, <2>3, <3>1, InChainBorn, SaveInv DEF KnownAt, KnownTagsAt
  <2> QED
    BY <2>1, <2>2, <2>3 DEF UpdateResource
<1> QED
  BY <1>2, <1>3

LEMMA DeleteRoleInv ==
    ASSUME Inv, TypeInv', NEW s \in Slots, DeleteRole(s)
    PROVE  Inv'
<1>1. /\ pc[s] = "deleteRole" /\ pc[s] # "idle" /\ pc[s] \in After
      /\ req[s].role \in RoleIds /\ req[s] # NoRequest
  <2>1. pc[s] = "deleteRole"
    BY DEF DeleteRole
  <2>2. pc[s] \in After \ {"addRole"} /\ pc[s] \in After
    BY <2>1 DEF After, Steps
  <2> QED
    BY <2>1, <2>2, RoleKnown, InChain DEF Inv
<1>2. CASE Rejected(s, "deleteRole")
  BY <1>1, <1>2, RejectedInv
<1>3. CASE End(s, "404") /\ UNCHANGED ufds
  BY <1>1, <1>3, EndQuietly
<1>4. CASE /\ roles' = [roles EXCEPT ![req[s].role] = Deleted]
           /\ \/ \E code \in {"error", "204"} : End(s, code)
              \/ /\ pc' = [pc EXCEPT ![s] = "deleteResource"]
                 /\ UNCHANGED <<req, resource>>
           /\ UNCHANGED entries
  <2>1. /\ roles'[req[s].role] = Deleted
        /\ \A r \in RoleIds : r # req[s].role => roles'[r] = roles[r]
    BY <1>1, <1>4 DEF Inv, TypeInv, TypeOK
  <2>2. roles'[req[s].role] # Unborn /\ req[s].role \notin Live'
    BY <2>1 DEF Deleted, Unborn, Live
  <2>3. \A t \in Slots : t # s => pc'[t] = pc[t] /\ req'[t] = req[t] /\ resource'[t] = resource[t]
    BY <1>4 DEF End, Inv, TypeInv, TypeOK
  <2>4. OnlyItsRole(s)
    BY <1>1, <1>4, <2>1, <2>2, <2>3 DEF OnlyItsRole
  <2>5. UuidsDiffer' /\ OneEntryPerRole'
    BY <1>4 DEF UuidsDiffer, OneEntryPerRole, Inv, EntriesInv
  <2>6. entries' \subseteq Entry
    BY DEF TypeInv, TypeOK
  <2>7. \A e \in entries' : roles'[e.role] # Unborn /\ \A q \in e.tags : roles'[q] # Unborn
    BY <1>4, <2>1, <2>2, <2>6 DEF Inv, EntriesInv, Born, Entry
  <2>8. CASE \E code \in {"error", "204"} : End(s, code)
    BY <1>1, <2>4, <2>5, <2>7, <2>8, EndInv
  <2>9. CASE /\ pc' = [pc EXCEPT ![s] = "deleteResource"]
             /\ UNCHANGED <<req, resource>>
    <3>1. pc'[s] = "deleteResource" /\ req' = req /\ resource' = resource /\ entries' = entries
      BY <1>4, <2>9 DEF Inv, TypeInv, TypeOK
    <3>2. KnownAt(s)
      BY <1>1 DEF Inv, EntriesInv, Known
    <3>3. KnownAt(s)' /\ KnownTagsAt(s)'
      BY <3>1, <3>2 DEF KnownAt, KnownTagsAt, Before
    <3>4. resource[s].roles \subseteq RoleIds /\ UNION req[s].caller \subseteq RoleIds
      BY <1>1, InChain, RequestFacts DEF Inv, Resource
    <3>5. /\ \A r \in resource'[s].roles : roles'[r] # Unborn
          /\ \A r \in UNION req'[s].caller : roles'[r] # Unborn
      BY <1>1, <2>1, <2>2, <3>1, <3>4, InChainBorn
    <3>6. \A t \in Slots : t # s /\ req[t] # NoRequest /\ req[t].role \in RoleIds
            => req[t].role # req'[s].role
      BY <1>1, <3>1, InChainBorn
    <3> QED
      BY <2>2, <2>4, <2>5, <2>7, <3>1, <3>3, <3>5, <3>6, Combine
  <2> QED
    BY <1>4, <2>8, <2>9
<1> QED
  BY <1>2, <1>3, <1>4 DEF DeleteRole

LEMMA DeleteResourceInv ==
    ASSUME Inv, TypeInv', NEW s \in Slots, DeleteResource(s)
    PROVE  Inv'
<1>1. pc[s] = "deleteResource" /\ pc[s] # "idle" /\ pc[s] \in After
  BY DEF DeleteResource, After, Steps
<1>2. CASE Rejected(s, "deleteResource")
  BY <1>1, <1>2, RejectedInv
<1>3. CASE /\ entries' = {e \in entries : e.uuid # resource[s].uuid}
           /\ End(s, "204")
           /\ UNCHANGED roles
  <2>1. KnownAt(s) /\ req[s] # NoRequest
    BY <1>1, InChain DEF Inv, EntriesInv, Known
  <2>2. OnlyItsRole(s)
    <3>1. \A t \in Slots : t # s => pc'[t] = pc[t] /\ req'[t] = req[t] /\ resource'[t] = resource[t]
      BY <1>3 DEF End, Inv, TypeInv, TypeOK
    <3> QED
      BY <1>3, <2>1, <3>1 DEF OnlyItsRole, KnownAt
  <2>3. UuidsDiffer' /\ OneEntryPerRole'
    BY <1>3 DEF UuidsDiffer, OneEntryPerRole, Inv, EntriesInv
  <2>4. \A e \in entries' : roles'[e.role] # Unborn /\ \A q \in e.tags : roles'[q] # Unborn
    BY <1>3 DEF Inv, EntriesInv, Born
  <2> QED
    BY <1>1, <1>3, <2>2, <2>3, <2>4, EndInv
<1> QED
  BY <1>2, <1>3 DEF DeleteResource

LEMMA InitInv == Init => Inv
<1> SUFFICES ASSUME Init PROVE Inv
  OBVIOUS
<1>1. TypeInv
  BY InitType
<1>2. EntriesInv
  BY DEF Init, EntriesInv, Alone, Born, UuidsDiffer, OneEntryPerRole, Known, After, NoResource
<1>3. KnownTags /\ Checked
  BY DEF Init, KnownTags, Checked
<1> QED
  BY <1>1, <1>2, <1>3 DEF Inv

LEMMA InvStep ==
    ASSUME Awaits = "end", Inv, [Next]_vars
    PROVE  Inv'
<1>1. TypeInv'
  BY TypeStep DEF Inv
<1>2. CASE UNCHANGED vars
  BY <1>2 DEF vars, Inv, TypeInv, TypeOK, StepsInv, EntriesInv, Alone, Born, UuidsDiffer,
              OneEntryPerRole, Known, KnownAt, KnownTags, KnownTagsAt, Checked, CheckedAt, Live
<1>3. ASSUME NEW s \in Slots, Arrive(s) \/ Handle(s) PROVE Inv'
  BY <1>1, <1>3, ArriveInv, LoadResourceInv, CreateRoleInv, GetRoleInv, ModifyRoleInv,
     TranslateGroupInv, DeleteRoleInv, PreloadGroupsInv, ModifyResourceInv, DeleteResourceInv
  DEF Handle
<1> QED
  BY <1>2, <1>3 DEF Next

-----------------------------------------------------------------------------
\* When clients await the end of a request on a role, no role gets a second tag entry:
\* saveResource() writes under the uuid that loadResource() found, whatever calls fail.
THEOREM OneEntry ==
    ASSUME Awaits = "end"
    PROVE  Spec => []OneEntryPerRole
<1>1. Inv /\ [Next]_vars => Inv'
  BY InvStep
<1>2. Inv => OneEntryPerRole
  BY DEF Inv, EntriesInv
<1> QED
  BY <1>1, <1>2, InitInv, PTL DEF Spec

\* The request of slot s writes its entry, and the tags that it found are still there.
LEMMA TagsKept ==
    ASSUME Inv, NEW s \in Slots, ModifyResource(s), pc'[s] # pc[s],
           NEW r \in RoleIds, req[s].role = r,
           req[s].tags = {}, TagsOf(r) \cap Live # {}
    PROVE  TagsOf(r)' \cap Live = TagsOf(r) \cap Live
<1>0. pc[s] = "modifyResource" /\ TypeInv'
  BY TypeStep DEF ModifyResource, Next, Handle, Inv
<1>1. PICK e \in entries : e.role = r /\ e.tags \cap Live # {}
  BY DEF TagsOf
<1>2. \A f \in entries : f.role = r => f = e
  BY <1>1 DEF Inv, EntriesInv, OneEntryPerRole
<1>3. TagsOf(r) = e.tags
  BY <1>1, <1>2 DEF TagsOf
<1>4. resource[s].roles \cap Live = e.tags \cap Live
  BY <1>0, <1>1 DEF Inv, KnownTags, KnownTagsAt
<1>5. CASE Rejected(s, "modifyResource")
  <2>1. entries' = entries
    BY <1>5 DEF Rejected, End, ufds, Inv, TypeInv, TypeOK
  <2> QED
    BY <2>1, <1>3 DEF TagsOf
<1>6. CASE ~Rejected(s, "modifyResource")
  <2>1. PICK uuid \in EntryUuids(s) :
            entries' = {f \in entries : f.uuid # uuid} \cup
                {[uuid |-> uuid, role |-> r, tags |-> resource[s].roles]}
    BY <1>6 DEF ModifyResource
  <2>2. \A f \in entries : f.role = r <=> f.uuid = uuid
    BY <1>0, EntryWritten
  <2> DEFINE new == [uuid |-> uuid, role |-> r, tags |-> resource[s].roles]
  <2>3. new.role = r /\ new.tags = resource[s].roles
    OBVIOUS
  <2>4. \A f \in entries' : f.role = r <=> f = new
    BY <2>1, <2>2, <2>3
  <2>5. new \in entries'
    BY <2>1
  <2> HIDE DEF new
  <2>6. TagsOf(r)' = resource[s].roles
    BY <2>3, <2>4, <2>5 DEF TagsOf
  <2> QED
    BY <1>3, <1>4, <2>6
<1> QED
  BY <1>5, <1>6

\* A step moves only the request of its slot.
LEMMA ItsSlot ==
    ASSUME TypeInv, NEW s \in Slots, NEW t \in Slots, t # s, Arrive(s) \/ Handle(s)
    PROVE  pc'[t] = pc[t] /\ req'[t] = req[t]
  BY DEF TypeInv, TypeOK, Arrive, Handle, LoadResource, CreateRole, GetRole, ModifyRole,
         TranslateGroup, DeleteRole, PreloadGroups, ModifyResource, DeleteResource, Rejected,
         End, Goto, PutResource, UpdateResource, SaveResource

\* When clients await the end of a request on a role, an update that names no tags
\* writes back the tags that its role has, unless it has none.
THEOREM TagsStay ==
    ASSUME Awaits = "end"
    PROVE  Spec => UpdatesKeepTags
<1>1. Inv /\ [Next]_vars => Inv'
  BY InvStep
<1>2. Inv /\ [Next]_vars =>
        [\A s \in Slots, r \in RoleIds :
            /\ pc[s] = "modifyResource" /\ pc'[s] # pc[s]
            /\ req[s].role = r /\ req[s].tags = {}
            /\ TagsOf(r) \cap Live # {}
            => TagsOf(r)' \cap Live = TagsOf(r) \cap Live]_vars
  <2> SUFFICES ASSUME Inv, Next, NEW s \in Slots, NEW r \in RoleIds,
                      pc[s] = "modifyResource", pc'[s] # pc[s],
                      req[s].role = r, req[s].tags = {}, TagsOf(r) \cap Live # {}
               PROVE  TagsOf(r)' \cap Live = TagsOf(r) \cap Live
    BY DEF vars
  <2>1. PICK t \in Slots : Arrive(t) \/ Handle(t)
    BY DEF Next
  <2>2. t = s
    BY <2>1, ItsSlot DEF Inv
  <2>3. ModifyResource(s)
    BY <2>1, <2>2 DEF Arrive, Handle, LoadResource, CreateRole, GetRole, ModifyRole, TranslateGroup,
                      DeleteRole, PreloadGroups, DeleteResource
  <2> QED
    BY <2>3, TagsKept
<1> QED
  BY <1>1, <1>2, InitInv, PTL DEF Spec, UpdatesKeepTags

\* A request gives the administrator no policy.
LEMMA NoPolicyGained ==
    ASSUME Inv, NEW s \in Slots, Arrive(s) \/ Handle(s), NEW r \in RoleIds, r \in Live',
           roles'[r].name = "administrator"
    PROVE  roles'[r].policies \subseteq IF r \in Live THEN roles[r].policies ELSE {}
<1>1. CASE roles' = roles
  BY <1>1 DEF Live
<1>2. CASE CreateRole(s) /\ roles' # roles
  <2>1. PICK name \in req[s].body.name :
            /\ Allowed(req[s].body)
            /\ \E q \in RoleIds : roles' = [roles EXCEPT ![q] =
                   [state |-> "live", name |-> name, policies |-> UNION req[s].body.policies]]
    BY <1>2 DEF CreateRole, Rejected, ufds
  <2>2. PICK q \in RoleIds : roles' = [roles EXCEPT ![q] =
                [state |-> "live", name |-> name, policies |-> UNION req[s].body.policies]]
    BY <2>1
  <2>3. CASE r # q
    BY <2>2, <2>3 DEF Live, Inv, TypeInv, TypeOK
  <2>4. CASE r = q
    <3>1. roles'[r] = [state |-> "live", name |-> name, policies |-> UNION req[s].body.policies]
      BY <2>2, <2>4 DEF Inv, TypeInv, TypeOK
    <3>2. name = "administrator" /\ roles'[r].policies = UNION req[s].body.policies
      BY <3>1
    <3>3. pc[s] # "idle"
      BY <1>2 DEF CreateRole
    <3>4. req[s].body.name = {"administrator"}
      BY <3>2, <3>3, InChain, RequestFacts DEF Optional, Inv
    <3> QED
      BY <2>1, <3>2, <3>4 DEF Allowed
  <2> QED
    BY <2>3, <2>4
<1>3. CASE ModifyRole(s) /\ roles' # roles
  <2>1. pc[s] = "modifyRole" /\ CheckedAt(s) /\ req[s] \in Request
    BY <1>3, InChain DEF ModifyRole, Inv, Checked
  <2>2. req[s].role \in Live /\ roles' = [roles EXCEPT ![req[s].role] = Changed(@, req[s].body)]
    BY <1>3 DEF ModifyRole, Rejected, ufds
  <2>3. CASE r # req[s].role
    BY <2>2, <2>3 DEF Live, Inv, TypeInv, TypeOK
  <2>4. CASE r = req[s].role
    <3>1. roles[r] \in Role /\ roles'[r] = Changed(roles[r], req[s].body)
      BY <2>2, <2>4 DEF Inv, TypeInv, TypeOK, Live, Unborn, Deleted
    <3> DEFINE name == IF req[s].body.name = {} THEN roles[r].name
                       ELSE CHOOSE n \in req[s].body.name : TRUE
               policies == IF req[s].body.policies = {} THEN roles[r].policies
                           ELSE UNION req[s].body.policies
    <3>2. roles'[r] = [[roles[r] EXCEPT !.name = name] EXCEPT !.policies = policies]
      BY <3>1 DEF Changed, Role
    <3> HIDE DEF name, policies
    <3>3. name = "administrator" /\ roles'[r].policies = policies
      BY <3>1, <3>2 DEF Role
    <3>4. req[s].body.policies = {}
      <4>1. CASE req[s].body.name = {}
        BY <2>1, <2>2, <2>4, <3>3, <4>1 DEF CheckedAt, name
      <4>2. CASE req[s].body.name # {}
        <5>1. PICK n : req[s].body.name = {n}
          BY <2>1, <4>2, RequestFacts DEF Optional
        <5>2. name = n
          BY <5>1 DEF name
        <5> QED
          BY <2>1, <3>3, <5>1, <5>2 DEF CheckedAt, Allowed
      <4> QED
        BY <4>1, <4>2
    <3> QED
      BY <2>2, <2>4, <3>3, <3>4 DEF policies
  <2> QED
    BY <2>3, <2>4
<1>4. CASE DeleteRole(s) /\ roles' # roles
  <2>1. roles' = [roles EXCEPT ![req[s].role] = Deleted]
    BY <1>4 DEF DeleteRole, Rejected, ufds
  <2>2. roles'[r].state = "live"
    BY DEF Live
  <2>3. r # req[s].role
    BY <2>1, <2>2 DEF Deleted, Inv, TypeInv, TypeOK
  <2> QED
    BY <2>1, <2>3 DEF Live, Inv, TypeInv, TypeOK
<1>5. roles' = roles \/ CreateRole(s) \/ ModifyRole(s) \/ DeleteRole(s)
  BY DEF Arrive, Handle, LoadResource, GetRole, TranslateGroup, PreloadGroups, ModifyResource,
         DeleteResource, Rejected, ufds
<1> QED
  BY <1>1, <1>2, <1>3, <1>4, <1>5

\* When clients await the end of a request on a role, what GetRole checks of the
\* administrator still holds when ModifyRole writes: no request gives that role a policy.
THEOREM AdministratorStays ==
    ASSUME Awaits = "end"
    PROVE  Spec => AdministratorGainsNoPolicies
<1>1. Inv /\ [Next]_vars => Inv'
  BY InvStep
<1>2. Inv /\ [Next]_vars =>
        [\A r \in Live' :
            roles'[r].name = "administrator" =>
                roles'[r].policies \subseteq IF r \in Live THEN roles[r].policies ELSE {}]_vars
  <2> SUFFICES ASSUME Inv, Next, NEW r \in Live', roles'[r].name = "administrator"
               PROVE  roles'[r].policies \subseteq IF r \in Live THEN roles[r].policies ELSE {}
    BY DEF vars
  <2>1. r \in RoleIds
    BY DEF Live
  <2> QED
    BY <2>1, NoPolicyGained DEF Next
<1> QED
  BY <1>1, <1>2, InitInv, PTL DEF Spec, AdministratorGainsNoPolicies

-----------------------------------------------------------------------------
LEMMA AnsweredStep ==
    ASSUME TypeInv, Answered, [Next]_vars
    PROVE  Answered'
<1>1. CASE UNCHANGED vars
  BY <1>1 DEF vars, Answered
<1>2. ASSUME NEW s \in Slots, Arrive(s) \/ Handle(s) PROVE Answered'
  <2>1. \A t \in Slots : t # s => pc'[t] = pc[t] /\ answer'[t] = answer[t]
    <3>1. \A t \in Slots : t # s => pc'[t] = pc[t]
      BY <1>2, ItsSlot
    <3>2. \A t \in Slots : t # s => answer'[t] = answer[t]
      BY <1>2 DEF TypeInv, TypeOK, Arrive, Handle, LoadResource, CreateRole, GetRole, ModifyRole,
         TranslateGroup, DeleteRole, PreloadGroups, ModifyResource, DeleteResource, Rejected,
         End, Goto, PutResource, UpdateResource, SaveResource
    <3> QED
      BY <3>1, <3>2
  <2>2. answer'[s] = "204" => pc'[s] \in {"idle", "deleteResource"}
    <3>1. CASE \E code \in Answers : End(s, code)
      BY <3>1 DEF End, TypeInv, TypeOK
    <3>2. CASE Arrive(s)
      BY <3>2 DEF Arrive, TypeInv, TypeOK
    <3>3. CASE UNCHANGED answer /\ pc[s] \notin {"idle", "deleteResource"}
      BY <3>3 DEF Answered
    <3>4. CASE \E code \in {"200", "201"} : answer' = [answer EXCEPT ![s] = code]
      BY <3>4 DEF TypeInv, TypeOK
    <3>5. CASE pc' = [pc EXCEPT ![s] = "deleteResource"]
      BY <3>5 DEF TypeInv, TypeOK
    <3>6. CASE LoadResource(s)
      BY <3>1, <3>3, <3>6 DEF LoadResource, Rejected, Answers, PutResource, SaveResource, Goto
    <3>7. CASE CreateRole(s)
      BY <3>1, <3>3, <3>7 DEF CreateRole, Rejected, Answers
    <3>8. CASE GetRole(s)
      BY <3>1, <3>3, <3>8 DEF GetRole, Rejected, Answers, Goto
    <3>9. CASE ModifyRole(s)
      BY <3>1, <3>3, <3>9 DEF ModifyRole, Rejected, Answers, Goto
    <3>10. CASE TranslateGroup(s)
      BY <3>1, <3>4, <3>10 DEF TranslateGroup, Rejected, Answers, UpdateResource
    <3>11. CASE DeleteRole(s)
      BY <3>1, <3>5, <3>11 DEF DeleteRole, Rejected, Answers
    <3>12. CASE PreloadGroups(s)
      BY <3>1, <3>3, <3>12 DEF PreloadGroups, Rejected, Answers, Goto
    <3>13. CASE ModifyResource(s)
      BY <3>1, <3>13 DEF ModifyResource, Rejected, Answers
    <3>14. CASE DeleteResource(s)
      BY <3>1, <3>14 DEF DeleteResource, Rejected, Answers
    <3> QED
      BY <1>2, <3>2, <3>6, <3>7, <3>8, <3>9, <3>10, <3>11, <3>12, <3>13, <3>14 DEF Handle
  <2> QED
    BY <2>1, <2>2 DEF Answered
<1> QED
  BY <1>1, <1>2 DEF Next

\* The end of a request on a role whose answer is 204.
LEMMA NothingLeft ==
    ASSUME Inv, Answered, "deleteResource" \notin Rejecting,
           NEW s \in Slots, Handle(s),
           req[s] # NoRequest, req'[s] = NoRequest, answer'[s] = "204",
           NEW r, r = req[s].role
    PROVE  \A e \in entries' : e.role # r
<1>1. pc[s] # "idle"
  BY DEF Inv, TypeInv, StepsInv
<1>2. \/ pc[s] = "deleteResource" /\ DeleteResource(s)
      \/ pc[s] = "deleteRole" /\ DeleteRole(s) /\ End(s, "204") /\ resource[s].uuid = NoUuid
  <2>1. ASSUME NEW code, End(s, code), code # "204" PROVE pc[s] = "deleteResource"
    <3>1. answer'[s] = IF answer[s] = "none" THEN code ELSE answer[s]
      BY <2>1 DEF End, Inv, TypeInv, TypeOK
    <3>2. answer[s] = "204"
      BY <2>1, <3>1
    <3> QED
      BY <1>1, <3>2 DEF Answered
  <2>2. ASSUME UNCHANGED req PROVE FALSE
    BY <2>2
  <2>3. CASE LoadResource(s)
    BY <2>1, <2>2, <2>3 DEF LoadResource, Rejected, PutResource, SaveResource, Goto
  <2>4. CASE CreateRole(s)
    <3>1. pc[s] = "addRole"
      BY <2>4 DEF CreateRole
    <3>2. ASSUME NEW q, req' = [req EXCEPT ![s].role = q] PROVE FALSE
      <4>1. req[s] \in Request /\ req'[s] = [req[s] EXCEPT !.role = q]
        BY <1>1, <3>2, InChain DEF Inv, TypeInv, TypeOK
      <4>2. req'[s].op = req[s].op
        BY <4>1 DEF Request
      <4>3. req'[s].op = "none"
        BY DEF NoRequest
      <4> QED
        BY <4>1, <4>2, <4>3, RequestFacts
    <3> QED
      BY <2>1, <2>4, <3>1, <3>2 DEF CreateRole, Rejected
  <2>5. CASE GetRole(s)
    BY <2>1, <2>2, <2>5 DEF GetRole, Rejected, Goto
  <2>6. CASE ModifyRole(s)
    BY <2>1, <2>2, <2>6 DEF ModifyRole, Rejected, Goto
  <2>7. CASE TranslateGroup(s)
    BY <2>1, <2>2, <2>7 DEF TranslateGroup, Rejected, UpdateResource, SaveResource
  <2>8. CASE DeleteRole(s)
    BY <2>1, <2>2, <2>8 DEF DeleteRole, Rejected
  <2>9. CASE PreloadGroups(s)
    BY <2>1, <2>2, <2>9 DEF PreloadGroups, Rejected, Goto
  <2>10. CASE ModifyResource(s)
    BY <2>1, <2>10 DEF ModifyResource, Rejected
  <2>11. CASE DeleteResource(s)
    BY <2>11 DEF DeleteResource
  <2> QED
    BY <2>3, <2>4, <2>5, <2>6, <2>7, <2>8, <2>9, <2>10, <2>11 DEF Handle
<1>3. KnownAt(s)
  BY <1>2 DEF Inv, EntriesInv, Known, After, Steps
<1>4. CASE pc[s] = "deleteResource" /\ DeleteResource(s)
  <2>1. entries' = {e \in entries : e.uuid # resource[s].uuid}
    BY <1>4 DEF DeleteResource, Rejected
  <2> QED
    BY <1>3, <2>1 DEF KnownAt
<1>5. CASE pc[s] = "deleteRole" /\ DeleteRole(s) /\ resource[s].uuid = NoUuid
  <2>1. entries' = entries /\ \A e \in entries : e.uuid # NoUuid
    BY <1>5, RolesAssumption DEF DeleteRole, Rejected, ufds, Inv, TypeInv, TypeOK, Entry
  <2> QED
    BY <1>3, <1>5, <2>1 DEF KnownAt
<1> QED
  BY <1>2, <1>4, <1>5

\* When clients await the end of a request on a role, and the call that deletes tags is
\* not refused, a DELETE that was answered 204 has left no tags of its role.
THEOREM DeletedLoseTags ==
    ASSUME Awaits = "end", "deleteResource" \notin Rejecting
    PROVE  Spec => DeletedRolesLoseTags
<1>1. Inv /\ Answered /\ [Next]_vars => Inv' /\ Answered'
  BY InvStep, AnsweredStep DEF Inv
<1>2. Init => Inv /\ Answered
  BY InitInv DEF Init, Answered
<1>3. Inv /\ Answered /\ [Next]_vars =>
        [\A s \in Slots :
            req[s] # NoRequest /\ req'[s] = NoRequest /\ answer'[s] = "204" =>
                \A e \in entries' : e.role # req[s].role]_vars
  <2> SUFFICES ASSUME Inv, Answered, Next, NEW s \in Slots,
                      req[s] # NoRequest, req'[s] = NoRequest, answer'[s] = "204"
               PROVE  \A e \in entries' : e.role # req[s].role
    BY DEF vars
  <2>1. PICK t \in Slots : Arrive(t) \/ Handle(t)
    BY DEF Next
  <2>2. t = s
    BY <2>1, ItsSlot DEF Inv
  <2>3. Handle(s)
    <3>1. ASSUME Arrive(s) PROVE FALSE
      BY <3>1 DEF Arrive, Inv, TypeInv, StepsInv
    <3> QED
      BY <2>1, <2>2, <3>1
  <2> QED
    BY <2>3, NothingLeft
<1> QED
  BY <1>1, <1>2, <1>3, PTL DEF Spec, DeletedRolesLoseTags

=============================================================================
