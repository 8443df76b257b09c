------------------------------- MODULE Roles -------------------------------
(***************************************************************************)
(* The roles of an account and the role tags on them (lib/roles.js,        *)
(* lib/resources.js).                                                      *)
(*                                                                         *)
(* A role and its role tags are two entries in UFDS, written by calls of   *)
(* their own; the tags follow after the answer is sent. Tags are loaded    *)
(* before the handler runs, and a request that names no tags writes back   *)
(* the ones that it loaded. Each action is one call with the local code    *)
(* that follows its reply. The cache of the UFDS client                    *)
(* (config.ufds_master.cache) is left out: a read sees what the master has.*)
(***************************************************************************)
EXTENDS Naturals, FiniteSets

CONSTANTS
    Slots,      \* requests in flight at once
    RoleIds,    \* bound: roles ever created
    Names,      \* role names
    Policies,   \* policies of the account
    Uuids,      \* bound: tag entries at once
    NoUuid,     \* no tag entry was loaded
    NoRole,     \* the role of a POST that has not created it yet
    Bodies,     \* what clients send: a name and policies, each optional
    TagLists,   \* lists of role names in the header "role-tag"
    Callers,    \* the account, {}, or a sub-user by its active roles
    Rejecting,  \* calls that may fail without taking effect
    Losing,     \* calls that may take effect and lose their reply
    Awaits      \* whether clients wait for the "end" of a request on a role

Optional(S) == {{}} \cup {{x} : x \in S}

WriteCalls == {"addRole", "modifyRole", "deleteRole", "modifyResource", "deleteResource"}

ReadCalls == {"getResource", "getRole", "translateGroup", "preloadGroups"}

ASSUME RolesAssumption ==
    /\ NoUuid \notin Uuids
    /\ NoRole \notin RoleIds
    /\ Bodies \subseteq [name: Optional(Names), policies: Optional(SUBSET Policies)]
    /\ TagLists \subseteq (SUBSET Names) \ {{}}
    /\ Callers \subseteq Optional(SUBSET RoleIds)
    /\ Rejecting \subseteq (ReadCalls \cup WriteCalls)
    /\ Losing \subseteq WriteCalls
    /\ Awaits \in {"end", "nothing"}

VARIABLES
    roles,     \* UFDS: the roles
    entries,   \* UFDS: the tag entries of roles (sdcAccountResource)
    pc,        \* the next call of each request
    req,       \* each request's parameters
    resource,  \* req.resource: the tag entry loaded, and the tags to save
    answer     \* the status sent

vars == <<roles, entries, pc, req, resource, answer>>
ufds == <<roles, entries>>

Unborn == [state |-> "unborn"]

Deleted == [state |-> "deleted"]

Role == [state: {"live"}, name: Names, policies: SUBSET Policies]

Entry == [uuid: Uuids, role: RoleIds, tags: SUBSET RoleIds]

Resource == [uuid: Uuids \cup {NoUuid}, roles: SUBSET RoleIds]

NoResource == [uuid |-> NoUuid, roles |-> {}]

Request ==
    [op: {"create", "update", "delete", "put"}, role: RoleIds \cup {NoRole},
     body: Bodies, tags: Optional(TagLists \cup {{}}), caller: Callers]

NoRequest == [op |-> "none"]

Steps == {"idle", "loadResource", "addRole", "getRole", "modifyRole", "translateGroup",
          "deleteRole", "preloadGroups", "modifyResource", "deleteResource"}

Answers == {"none", "200", "201", "204", "404", "409", "error"}

Live == {r \in RoleIds : roles[r].state = "live"}

Named(name) == {r \in Live : roles[r].name = name}

TagsOf(r) == UNION {e.tags : e \in {f \in entries : f.role = r}}

-----------------------------------------------------------------------------
Init ==
    /\ roles = [r \in RoleIds |-> Unborn]
    /\ entries = {}
    /\ pc = [s \in Slots |-> "idle"]
    /\ req = [s \in Slots |-> NoRequest]
    /\ resource = [s \in Slots |-> NoResource]
    /\ answer = [s \in Slots |-> "none"]

Goto(s, step) ==
    /\ pc' = [pc EXCEPT ![s] = step]
    /\ UNCHANGED <<req, answer>>

\* The chain ends; the answer, unless one was sent before.
End(s, code) ==
    /\ pc' = [pc EXCEPT ![s] = "idle"]
    /\ req' = [req EXCEPT ![s] = NoRequest]
    /\ resource' = [resource EXCEPT ![s] = NoResource]
    /\ answer' = [answer EXCEPT ![s] = IF @ = "none" THEN code ELSE @]

Rejected(s, call) ==
    /\ call \in Rejecting
    /\ End(s, "error")
    /\ UNCHANGED ufds

Busy == {s \in Slots : req[s] # NoRequest}

\* The header comes with any request, an empty list only with a PUT. A client asks
\* for a role that it was told of; the roles it is active in exist.
Arrive(s) ==
    /\ pc[s] = "idle"
    /\ \E r \in Request :
        /\ r.op = "create" <=> r.role = NoRole
        /\ r.op = "create" => r.body.name # {}
        /\ r.op \in {"put", "delete"} => r.body = [name |-> {}, policies |-> {}]
        /\ r.op # "put" => {} \notin r.tags
        /\ r.op = "delete" => r.tags = {}
        /\ r.op # "create" =>
               /\ roles[r.role] # Unborn
               /\ Awaits = "end" => r.role \notin {req[t].role : t \in Busy}
        /\ UNION r.caller \subseteq Live
        /\ req' = [req EXCEPT ![s] = r]
    /\ pc' = [pc EXCEPT ![s] = "loadResource"]
    /\ answer' = [answer EXCEPT ![s] = "none"]
    /\ UNCHANGED <<resource, ufds>>

-----------------------------------------------------------------------------
(* saveResource(), behind putResource() and updateResource().              *)

\* Mutant: the tags loaded are not kept.
TagsToSaveForgetting(s, loaded) ==
    IF req[s].tags = {{}} THEN {} ELSE UNION req[s].caller

\* Without names: those loaded, or else the active roles of a sub-user.
TagsToSave(s, loaded) ==
    IF req[s].tags = {{}} THEN {}
    ELSE IF loaded.roles # {} THEN loaded.roles ELSE UNION req[s].caller

SaveResource(s, loaded) ==
    /\ pc' = [pc EXCEPT ![s] =
           IF req[s].tags \in {{}, {{}}} THEN "modifyResource" ELSE "preloadGroups"]
    /\ resource' = [resource EXCEPT ![s] =
           [loaded EXCEPT !.roles = TagsToSave(s, loaded)]]
    /\ UNCHANGED req

\* With nothing to save saveResource() has no resource for putResource(), which
\* throws.
PutResource(s, loaded) ==
    IF req[s].tags = {} /\ loaded.roles = {} /\ req[s].caller = {}
    THEN End(s, "error")
    ELSE SaveResource(s, loaded) /\ UNCHANGED answer

\* Behind a handler, once the answer is on its way.
UpdateResource(s, code) ==
    IF req[s].tags # {} \/ req[s].caller # {}
    THEN SaveResource(s, resource[s]) /\ answer' = [answer EXCEPT ![s] = code]
    ELSE End(s, code)

\* The chain of every route before its handler: getResource(), and preloadGroups()
\* by DN, which drops the roles that are gone.
LoadResource(s) ==
    /\ pc[s] = "loadResource"
    /\ \/ Rejected(s, "getResource")
       \/ \E loaded \in Resource :
            /\ IF req[s].op # "create" /\ \E e \in entries : e.role = req[s].role
               THEN \E e \in entries :
                        /\ e.role = req[s].role
                        /\ loaded = [uuid |-> e.uuid, roles |-> e.tags \cap Live]
               ELSE loaded = NoResource
            /\ IF req[s].op = "put" THEN PutResource(s, loaded)
               ELSE /\ Goto(s, CASE req[s].op = "create" -> "addRole"
                                 [] req[s].op = "update" -> "getRole"
                                 [] req[s].op = "delete" -> "deleteRole")
                    /\ resource' = [resource EXCEPT ![s] = loaded]
            /\ UNCHANGED ufds

\* Every name must be a role; an error is the answer of a PUT, else it is logged.
PreloadGroups(s) ==
    /\ pc[s] = "preloadGroups"
    /\ \/ Rejected(s, "preloadGroups")
       \/ /\ IF \A name \in UNION req[s].tags : Named(name) # {}
             THEN /\ Goto(s, "modifyResource")
                  /\ resource' = [resource EXCEPT ![s].roles =
                         UNION {Named(name) : name \in UNION req[s].tags}]
             ELSE End(s, "409")
          /\ UNCHANGED ufds

\* Mutants: a tag entry is always new; it is always the one loaded.
EntryUuidsAnew(s) == Uuids \ {e.uuid : e \in entries}

EntryUuidsLoaded(s) == {resource[s].uuid}

\* The entry that was loaded, or a new one.
EntryUuids(s) ==
    IF resource[s].uuid # NoUuid THEN {resource[s].uuid}
    ELSE Uuids \ {e.uuid : e \in entries}

\* modifyResource() adds an entry whose uuid UFDS does not know.
ModifyResource(s) ==
    /\ pc[s] = "modifyResource"
    /\ \/ Rejected(s, "modifyResource")
       \/ /\ \E uuid \in EntryUuids(s) :
                entries' = {e \in entries : e.uuid # uuid} \cup
                    {[uuid |-> uuid, role |-> req[s].role, tags |-> resource[s].roles]}
          /\ \/ End(s, "200")
             \/ "modifyResource" \in Losing /\ End(s, "error")
          /\ UNCHANGED roles

-----------------------------------------------------------------------------
(* The handlers of roles.js. parseParams() refuses an administrator role with
   policies as far as the body shows it.                                   *)

\* Mutant: the name is not looked at.
AllowedUnderAnyName(body) == TRUE

Allowed(body) == ~(body.name = {"administrator"} /\ body.policies # {})

\* No two roles of an account have one name.
Vacant(name, role) == Named(name) \subseteq {role}

CreateRole(s) ==
    /\ pc[s] = "addRole"
    /\ \/ Rejected(s, "addRole")
       \/ \E name \in req[s].body.name :
            IF Allowed(req[s].body) /\ Vacant(name, NoRole)
            THEN \E r \in RoleIds :
                    /\ roles[r] = Unborn
                    /\ roles' = [roles EXCEPT ![r] =
                           [state |-> "live", name |-> name,
                            policies |-> UNION req[s].body.policies]]
                    /\ \/ /\ pc' = [pc EXCEPT ![s] = "translateGroup"]
                          /\ req' = [req EXCEPT ![s].role = r]
                          /\ UNCHANGED <<resource, answer>>
                       \/ "addRole" \in Losing /\ End(s, "error")
                    /\ UNCHANGED entries
            ELSE End(s, "409") /\ UNCHANGED ufds

\* The role as it is now shows whether its name is the administrator's.
GetRole(s) ==
    /\ pc[s] = "getRole"
    /\ \/ Rejected(s, "getRole")
       \/ /\ IF ~Allowed(req[s].body) THEN End(s, "409")
             ELSE IF req[s].role \notin Live THEN End(s, "404")
             ELSE IF roles[req[s].role].name = "administrator" /\ req[s].body.policies # {}
                  THEN End(s, "409")
                  ELSE Goto(s, "modifyRole") /\ UNCHANGED resource
          /\ UNCHANGED ufds

Changed(role, body) ==
    [role EXCEPT !.name = IF body.name = {} THEN @ ELSE CHOOSE n \in body.name : TRUE,
                 !.policies = IF body.policies = {} THEN @ ELSE UNION body.policies]

ModifyRole(s) ==
    /\ pc[s] = "modifyRole"
    /\ \/ Rejected(s, "modifyRole")
       \/ IF /\ req[s].role \in Live
             /\ \A name \in req[s].body.name : Vacant(name, req[s].role)
          THEN /\ roles' = [roles EXCEPT ![req[s].role] = Changed(@, req[s].body)]
               /\ \/ Goto(s, "translateGroup") /\ UNCHANGED resource
                  \/ "modifyRole" \in Losing /\ End(s, "error")
               /\ UNCHANGED entries
          ELSE End(s, "error") /\ UNCHANGED ufds

\* The reads behind the body of the answer, and the answer.
TranslateGroup(s) ==
    /\ pc[s] = "translateGroup"
    /\ \/ Rejected(s, "translateGroup")
       \/ LET code == IF req[s].op = "create" THEN "201" ELSE "200"
          IN  UpdateResource(s, code) /\ UNCHANGED ufds

DeleteRole(s) ==
    /\ pc[s] = "deleteRole"
    /\ \/ Rejected(s, "deleteRole")
       \/ /\ req[s].role \notin Live
          /\ End(s, "404")
          /\ UNCHANGED ufds
       \/ /\ req[s].role \in Live
          /\ roles' = [roles EXCEPT ![req[s].role] = Deleted]
          /\ \/ "deleteRole" \in Losing /\ End(s, "error")
             \/ resource[s].uuid = NoUuid /\ End(s, "204")
             \/ /\ resource[s].uuid # NoUuid
                /\ pc' = [pc EXCEPT ![s] = "deleteResource"]
                /\ answer' = [answer EXCEPT ![s] = "204"]
                /\ UNCHANGED <<req, resource>>
          /\ UNCHANGED entries

\* Mutant: the tag entry stays.
DeleteResourceLater(s) ==
    /\ pc[s] = "deleteResource"
    /\ End(s, "204")
    /\ UNCHANGED ufds

DeleteResource(s) ==
    /\ pc[s] = "deleteResource"
    /\ \/ Rejected(s, "deleteResource")
       \/ /\ entries' = {e \in entries : e.uuid # resource[s].uuid}
          /\ End(s, "204")
          /\ UNCHANGED roles

-----------------------------------------------------------------------------
Handle(s) ==
    \/ LoadResource(s)
    \/ CreateRole(s)
    \/ GetRole(s)
    \/ ModifyRole(s)
    \/ TranslateGroup(s)
    \/ DeleteRole(s)
    \/ PreloadGroups(s)
    \/ ModifyResource(s)
    \/ DeleteResource(s)

Next == \E s \in Slots : Arrive(s) \/ Handle(s)

Spec == Init /\ [][Next]_vars

-----------------------------------------------------------------------------
(* Properties. *)

TypeOK ==
    /\ roles \in [RoleIds -> Role \cup {Unborn, Deleted}]
    /\ entries \subseteq Entry
    /\ pc \in [Slots -> Steps]
    /\ req \in [Slots -> Request \cup {NoRequest}]
    /\ resource \in [Slots -> Resource]
    /\ answer \in [Slots -> Answers]

\* When requests on a role do not overlap, a role has one tag entry, whatever calls
\* fail or lose their reply: a retry finds what the first attempt wrote.
OneEntryPerRole ==
    \A e, f \in entries : e.role = f.role => e = f

\* In the same case an update that names no tags leaves the tags of a role that has
\* some as they are, although a sub-user's update writes tags; only roles deleted
\* meanwhile drop out.
UpdatesKeepTags ==
    [][\A s \in Slots, r \in RoleIds :
        /\ pc[s] = "modifyResource" /\ pc'[s] # pc[s]
        /\ req[s].role = r /\ req[s].tags = {}
        /\ TagsOf(r) \cap Live # {}
        => TagsOf(r)' \cap Live = TagsOf(r) \cap Live]_vars

\* A DELETE that is answered 204 leaves no tags behind: no later request on that
\* path finds what was granted on the role.
DeletedRolesLoseTags ==
    [][\A s \in Slots :
        req[s] # NoRequest /\ req'[s] = NoRequest /\ answer'[s] = "204" =>
            \A e \in entries' : e.role # req[s].role]_vars

\* The administrator role cannot have policies: no request gives it one, whatever it names
\* of the two; a role that is renamed to administrator keeps at most what it had.
AdministratorGainsNoPolicies ==
    [][\A r \in Live' :
        roles'[r].name = "administrator" =>
            roles'[r].policies \subseteq IF r \in Live THEN roles[r].policies ELSE {}]_vars

=============================================================================
