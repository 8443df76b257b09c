------------------------------ MODULE Members ------------------------------
(***************************************************************************)
(* Sub-users, policies and the roles that refer to them (lib/users.js,     *)
(* lib/policies.js, lib/membership.js, lib/roles.js).                      *)
(*                                                                         *)
(* Clients name users and policies; the master UFDS stores a role with     *)
(* their ids. A request on a role turns names into ids before it writes    *)
(* and ids into names before it answers, by one search per attribute, and  *)
(* caches what it found in the request. Users are renamed and deleted in   *)
(* between, and a deletion leaves the references to them in the roles.     *)
(* Each action is one call with the local code that follows its reply;     *)
(* requests of one call are one action. Names and tags of roles are in     *)
(* module Roles. The cache of the UFDS client (config.ufds_master.cache)   *)
(* is left out: a search finds what the master has.                        *)
(***************************************************************************)
EXTENDS Naturals, FiniteSets

CONSTANTS
    RoleSlots,  \* requests on roles in flight at once
    UserSlots,  \* requests on users in flight at once, of those of several calls
    UserIds,    \* bound: users ever created
    PolicyIds,  \* bound: policies ever created
    RoleIds,    \* bound: roles ever created
    Names,      \* logins of users and names of policies
    Bodies,     \* what clients send with a role: for each attribute a list or none
    Paths,      \* by which users are asked for: their logins and ids
    Logins,     \* logins that updates of users ask for, if any
    Failing     \* calls that may fail

Slots == RoleSlots \cup UserSlots

Ids == UserIds \cup PolicyIds

Optional(S) == {{}} \cup {{x} : x \in S}

Attributes == {"members", "default_members", "policies"}

Calls == {"preload", "getRole", "addRole", "modifyRole", "translate",
          "getUser", "updateUser", "answerUser", "user.roles"}

ASSUME MembersAssumption ==
    /\ UserIds \cap PolicyIds = {}
    /\ Names \cap (Ids \cup {"unborn", "deleted"}) = {}
    /\ Bodies \subseteq [Attributes -> Optional(SUBSET Names)]
    /\ Paths \subseteq UserIds \cup Names
    /\ Logins \subseteq Names
    /\ Failing \subseteq Calls

VARIABLES
    name,   \* UFDS: the name of each user and policy, or that it is not there
    roles,  \* UFDS: the ids that each role refers to
    pc,     \* the next call of each request
    req,    \* its parameters
    cache,  \* req.cache: a table of users and one of policies, by name and by id
    found,  \* the users and policies that it looked up
    group,  \* the role that it read or wrote, as UFDS returned it
    answer, \* the status and the names that it answers with
    borne,  \* history: the names that users and policies bore since a role's request came
    alone   \* history: no other request has written since it arrived

vars == <<name, roles, pc, req, cache, found, group, answer, borne, alone>>
ufds == <<name, roles>>
history == <<borne, alone>>

IdsOf(attr) == IF attr = "policies" THEN PolicyIds ELSE UserIds

Live == {o \in Ids : name[o] \in Names}

LiveRoles == {r \in RoleIds : roles[r].state = "live"}

\* A user or policy as it was found: its id and the name it had.
Found == [id: Ids, name: Names]

Current == {[id |-> o, name |-> name[o]] : o \in Live}

Nothing == [attr \in Attributes |-> {}]

Unborn == [state |-> "unborn", refs |-> Nothing]

Refs == {e \in [Attributes -> SUBSET Ids] : \A attr \in Attributes : e[attr] \subseteq IdsOf(attr)}

RoleOps == {"create", "update", "get"}

RoleRequest ==
    [op: RoleOps, role: RoleIds, names: Bodies]

\* The path of a user ends in its login or its id. A change of the password is an
\* update without a login.
UserRequest ==
    [op: {"updateUser", "getUser"}, path: Paths, login: Optional(Logins)]

NoRequest == [op |-> "none"]

Steps == {"idle", "_getPolicies", "_getMembers", "_getDefaultMembers",
          "addRole", "getRole", "modifyRole",
          "_loadMembers", "_loadDefaultMembers", "_loadPolicies",
          "getUser", "updateUser", "answerUser", "roles", "defaultRoles"}

Getting == [policies |-> "_getPolicies", members |-> "_getMembers",
            default_members |-> "_getDefaultMembers"]

Loading == [members |-> "_loadMembers", default_members |-> "_loadDefaultMembers",
            policies |-> "_loadPolicies"]

EmptyCache == [kind \in {"users", "policies"} |-> [k \in {} |-> k]]

NoAnswer == [code |-> "none", names |-> Nothing]

-----------------------------------------------------------------------------
Init ==
    /\ name = [o \in Ids |-> "unborn"]
    /\ roles = [r \in RoleIds |-> Unborn]
    /\ pc = [s \in Slots |-> "idle"]
    /\ req = [s \in Slots |-> NoRequest]
    /\ cache = [s \in Slots |-> EmptyCache]
    /\ found = [s \in Slots |-> Nothing]
    /\ group = [s \in Slots |-> Nothing]
    /\ answer = [s \in Slots |-> NoAnswer]
    /\ borne = [s \in Slots |-> {}]
    /\ alone = [s \in Slots |-> FALSE]

Begin(s, r, step) ==
    /\ pc[s] = "idle"
    /\ req' = [req EXCEPT ![s] = r]
    /\ pc' = [pc EXCEPT ![s] = step]
    /\ answer' = [answer EXCEPT ![s] = NoAnswer]
    /\ borne' = [borne EXCEPT ![s] = IF r.op \in RoleOps THEN Current ELSE {}]
    /\ alone' = [alone EXCEPT ![s] = TRUE]
    /\ UNCHANGED <<ufds, cache, found, group>>

Goto(s, step) == pc' = [pc EXCEPT ![s] = step]

\* Mutant: the cache outlives the request.
ForgetKeepingCache(s) ==
    /\ found' = [found EXCEPT ![s] = Nothing]
    /\ group' = [group EXCEPT ![s] = Nothing]
    /\ UNCHANGED cache

Forget(s) ==
    /\ cache' = [cache EXCEPT ![s] = EmptyCache]
    /\ found' = [found EXCEPT ![s] = Nothing]
    /\ group' = [group EXCEPT ![s] = Nothing]

End(s, code, names) ==
    /\ pc' = [pc EXCEPT ![s] = "idle"]
    /\ req' = [req EXCEPT ![s] = NoRequest]
    /\ answer' = [answer EXCEPT ![s] = [code |-> code, names |-> names]]
    /\ borne' = [borne EXCEPT ![s] = {}]
    /\ alone' = [alone EXCEPT ![s] = FALSE]
    /\ Forget(s)

Refuse(s, code) == End(s, code, Nothing) /\ UNCHANGED ufds

Fail(s, call) == call \in Failing /\ Refuse(s, "error")

\* The step writes, which the requests of some slots have not asked for.
Witness(others) ==
    /\ borne' = [t \in Slots |-> IF req[t].op \in RoleOps THEN borne[t] \cup Current' ELSE {}]
    /\ alone' = [t \in Slots |-> alone[t] /\ t \notin others]

-----------------------------------------------------------------------------
(* Requests of one call that write. A name is borne by one user or policy. *)

Vacant(n, ids) == \A o \in Live \cap ids : name[o] # n

Rename(o, n, ids) ==
    /\ Vacant(n, ids \ {o})
    /\ name' = [name EXCEPT ![o] = n]
    /\ Witness(Slots)
    /\ UNCHANGED <<roles, pc, req, cache, found, group, answer>>

CreateUser(o) == o \in UserIds /\ name[o] = "unborn" /\ \E n \in Names : Rename(o, n, UserIds)

CreatePolicy(o) == o \in PolicyIds /\ name[o] = "unborn" /\ \E n \in Names : Rename(o, n, PolicyIds)

UpdatePolicy(o) == o \in PolicyIds /\ o \in Live /\ \E n \in Names : Rename(o, n, PolicyIds)

\* The roles go on referring to it.
Delete(o) ==
    /\ o \in Live
    /\ name' = [name EXCEPT ![o] = "deleted"]
    /\ Witness(Slots)
    /\ UNCHANGED <<roles, pc, req, cache, found, group, answer>>

DeleteUser(o) == o \in UserIds /\ Delete(o)

DeletePolicy(o) == o \in PolicyIds /\ Delete(o)

DeleteRole(r) ==
    /\ r \in LiveRoles
    /\ roles' = [roles EXCEPT ![r].state = "deleted"]
    /\ UNCHANGED <<name, pc, req, cache, found, group, answer>>
    /\ Witness(Slots)

-----------------------------------------------------------------------------
(* preloadUsers(), preloadPolicies(): what is cached, and a search for the rest. *)

\* Mutant: one table for users and policies.
TableOfUsers(attr) == "users"

TableOf(attr) == IF attr = "policies" THEN "policies" ELSE "users"

Store(table, records) ==
    [k \in DOMAIN table \cup {f.id : f \in records} \cup {f.name : f \in records} |->
        IF \E f \in records : k \in {f.id, f.name}
        THEN CHOOSE f \in records : k \in {f.id, f.name}
        ELSE table[k]]

Search(attr, by, keys) == {f \in Current : f.id \in IdsOf(attr) /\ f[by] \in keys}

Missing(s, attr, keys) == keys \ DOMAIN cache[s][TableOf(attr)]

\* Mutant: what was cached is not merged into what the search returned.
LoadedUnmerged(s, attr, by, keys) ==
    LET searched == Search(attr, by, Missing(s, attr, keys))
    IN  IF Missing(s, attr, keys) # {} THEN searched
        ELSE {cache[s][TableOf(attr)][k] : k \in keys}

Loaded(s, attr, by, keys) ==
    Search(attr, by, Missing(s, attr, keys))
        \cup {cache[s][TableOf(attr)][k] : k \in keys \ Missing(s, attr, keys)}

CacheLoaded(s, attr, by, keys) ==
    cache' = [cache EXCEPT ![s][TableOf(attr)] =
                Store(@, Search(attr, by, Missing(s, attr, keys)))]

-----------------------------------------------------------------------------
(* parseParams(): a pipeline from names to ids. *)

AfterPreload(s, attr) ==
    CASE attr = "policies" -> "_getMembers"
      [] attr = "members" -> "_getDefaultMembers"
      [] attr = "default_members" -> IF req[s].op = "create" THEN "addRole" ELSE "getRole"

\* _verifyParams ends the pipeline: every name has a record.
Verified(s, records) ==
    \A attr \in Attributes : UNION req[s].names[attr] \subseteq {f.name : f \in records[attr]}

Preload(s, attr) ==
    /\ pc[s] = Getting[attr]
    /\ LET keys == UNION req[s].names[attr]
           records == [found[s] EXCEPT ![attr] = Loaded(s, attr, "name", keys)]
           last == attr = "default_members"
       IN  \/ keys # {} /\ Fail(s, "preload")
           \/ /\ last => Verified(s, records)
              /\ found' = [found EXCEPT ![s] = records]
              /\ CacheLoaded(s, attr, "name", keys)
              /\ Goto(s, AfterPreload(s, attr))
              /\ UNCHANGED <<ufds, req, group, answer, history>>
           \/ last /\ ~Verified(s, records) /\ Refuse(s, "409")

-----------------------------------------------------------------------------
(* The role itself. *)

\* Mutant: the records themselves.
WrittenRecords(s, before) ==
    [attr \in Attributes |-> IF req[s].names[attr] = {} THEN before[attr] ELSE found[s][attr]]

\* The ids written: those of the lists that came; of the others, what was there.
Written(s, before) ==
    [attr \in Attributes |->
        IF req[s].names[attr] = {} THEN before[attr] ELSE {f.id : f \in found[s][attr]}]

WriteRole(s, before) ==
    /\ roles' = [roles EXCEPT ![req[s].role] = [state |-> "live", refs |-> Written(s, before)]]
    /\ group' = [group EXCEPT ![s] = Written(s, before)]
    /\ Goto(s, "_loadMembers")
    /\ UNCHANGED <<name, req, cache, found, answer>>
    /\ Witness(Slots \ {s})

AddRole(s) ==
    /\ pc[s] = "addRole"
    /\ Fail(s, "addRole") \/ WriteRole(s, Nothing)

\* The first call of get() and of update().
GetRole(s) ==
    /\ pc[s] = "getRole"
    /\ \/ Fail(s, "getRole")
       \/ /\ req[s].role \in LiveRoles
          /\ group' = [group EXCEPT ![s] = roles[req[s].role].refs]
          /\ Goto(s, IF req[s].op = "update" THEN "modifyRole" ELSE "_loadMembers")
          /\ UNCHANGED <<ufds, req, cache, found, answer, history>>
       \/ req[s].role \notin LiveRoles /\ Refuse(s, "404")

ModifyRole(s) ==
    /\ pc[s] = "modifyRole"
    /\ \/ Fail(s, "modifyRole")
       \/ req[s].role \in LiveRoles /\ WriteRole(s, roles[req[s].role].refs)
       \/ req[s].role \notin LiveRoles /\ Refuse(s, "404")

\* translateGroup(): ids to names, dropping the ids that nobody has.
AfterTranslate(attr) ==
    IF attr = "members" THEN "_loadDefaultMembers" ELSE "_loadPolicies"

Translate(s, attr) ==
    /\ pc[s] = Loading[attr]
    /\ LET keys == group[s][attr]
           names == [answer[s].names EXCEPT ![attr] = {f.name : f \in Loaded(s, attr, "id", keys)}]
       IN  \/ keys # {} /\ Fail(s, "translate")
           \/ /\ attr # "policies"
              /\ answer' = [answer EXCEPT ![s].names = names]
              /\ CacheLoaded(s, attr, "id", keys)
              /\ Goto(s, AfterTranslate(attr))
              /\ UNCHANGED <<ufds, req, found, group, history>>
           \/ /\ attr = "policies"
              /\ End(s, "200", names)
              /\ UNCHANGED ufds

-----------------------------------------------------------------------------
(* Sub-users by the path of the request. *)

\* ufds.getUser takes a login or an id.
UserAt(path) == Search("members", "id", {path}) \cup Search("members", "name", {path})

GetUser(s) ==
    /\ pc[s] = "getUser"
    /\ \/ Fail(s, "getUser")
       \/ UserAt(req[s].path) = {} /\ Refuse(s, "404")
       \/ /\ UserAt(req[s].path) # {}
          /\ found' = [found EXCEPT ![s]["members"] = UserAt(req[s].path)]
          /\ Goto(s, IF req[s].op = "updateUser" THEN "updateUser" ELSE "roles")
          /\ UNCHANGED <<ufds, req, cache, group, answer, history>>

TheUser(s) == CHOOSE f \in found[s]["members"] : TRUE

\* The update goes to the user that was found.
UpdateUser(s) ==
    /\ pc[s] = "updateUser"
    /\ LET o == TheUser(s).id
           login == req[s].login
       IN  \/ Fail(s, "updateUser")
           \/ o \notin Live /\ Refuse(s, "404")
           \/ o \in Live /\ (\E n \in login : ~Vacant(n, UserIds \ {o})) /\ Refuse(s, "409")
           \/ /\ o \in Live
              /\ \A n \in login : Vacant(n, UserIds \ {o})
              /\ name' = [name EXCEPT ![o] = IF login = {} THEN @ ELSE CHOOSE n \in login : TRUE]
              /\ Goto(s, "answerUser")
              /\ Witness(Slots \ {s})
              /\ UNCHANGED <<roles, req, cache, found, group, answer>>

\* Mutant: the answer is the user as it was before.
AnswerUserAsFound(s) ==
    /\ pc[s] = "answerUser"
    /\ End(s, "200", [Nothing EXCEPT !["members"] = found[s]["members"]])
    /\ UNCHANGED ufds

\* The answer is read again, by the path.
AnswerUser(s) ==
    /\ pc[s] = "answerUser"
    /\ \/ Fail(s, "answerUser")
       \/ UserAt(req[s].path) = {} /\ Refuse(s, "404")
       \/ /\ UserAt(req[s].path) # {}
          /\ End(s, "200", [Nothing EXCEPT !["members"] = UserAt(req[s].path)])
          /\ UNCHANGED ufds

\* GET ?membership=true: the roles of the user, then its default roles.
RolesWith(attr, o) == {r \in LiveRoles : o \in roles[r].refs[attr]}

MapRoles(s) ==
    /\ pc[s] = "roles"
    /\ \/ Fail(s, "user.roles")
       \/ /\ answer' = [answer EXCEPT ![s].names["members"] = RolesWith("members", TheUser(s).id)]
          /\ Goto(s, "defaultRoles")
          /\ UNCHANGED <<ufds, req, cache, found, group, history>>

MapDefaultRoles(s) ==
    /\ pc[s] = "defaultRoles"
    /\ \/ Fail(s, "user.roles")
       \/ /\ End(s, "200", [answer[s].names EXCEPT !["default_members"] =
                                RolesWith("default_members", TheUser(s).id)])
          /\ UNCHANGED ufds

-----------------------------------------------------------------------------
\* UFDS makes a new id for a POST.
Creating == {req[s].role : s \in {t \in Slots : req[t].op = "create"}}

RequestRole(s) ==
    \E r \in RoleRequest :
        /\ r.op = "get" => r.names = Nothing
        /\ r.op = "create" <=> roles[r.role].state = "unborn"
        /\ r.op = "create" => r.role \notin Creating
        /\ Begin(s, r, IF r.op = "get" THEN "getRole" ELSE "_getPolicies")

RequestUser(s) ==
    \E r \in UserRequest :
        /\ r.op = "getUser" => r.login = {}
        /\ Begin(s, r, "getUser")

Handle(s) ==
    \/ \E attr \in Attributes : Preload(s, attr) \/ Translate(s, attr)
    \/ AddRole(s) \/ GetRole(s) \/ ModifyRole(s)
    \/ GetUser(s) \/ UpdateUser(s) \/ AnswerUser(s) \/ MapRoles(s) \/ MapDefaultRoles(s)

Next ==
    \/ \E s \in RoleSlots : RequestRole(s)
    \/ \E s \in UserSlots : RequestUser(s)
    \/ \E s \in Slots : Handle(s)
    \/ \E o \in UserIds : CreateUser(o) \/ DeleteUser(o)
    \/ \E o \in PolicyIds : CreatePolicy(o) \/ UpdatePolicy(o) \/ DeletePolicy(o)
    \/ \E r \in RoleIds : DeleteRole(r)

Spec == Init /\ [][Next]_vars

-----------------------------------------------------------------------------
Tables ==
    \A s \in Slots : \A kind \in {"users", "policies"} :
        LET table == cache[s][kind]
        IN  DOMAIN table \subseteq Ids \cup Names /\ \A k \in DOMAIN table : table[k] \in Found

\* Every variable keeps its type (the request object of restify and the entries of UFDS).
TypeOK ==
    /\ name \in [Ids -> Names \cup {"unborn", "deleted"}]
    /\ roles \in [RoleIds -> [state: {"unborn", "live", "deleted"}, refs: Refs]]
    /\ pc \in [Slots -> Steps]
    /\ \A s \in Slots : req[s] \in RoleRequest \cup UserRequest \cup {NoRequest}
    /\ Tables
    /\ \A s \in Slots : \A attr \in Attributes : found[s][attr] \subseteq Found
    /\ group \in [Slots -> Refs]
    /\ \A s \in Slots : answer[s].code \in {"none", "200", "404", "409", "error"}
    /\ \A s \in Slots : borne[s] \subseteq Found
    /\ alone \in [Slots -> BOOLEAN]

Answers(s, ops) == req[s].op \in ops /\ req'[s] = NoRequest /\ answer'[s].code = "200"

\* A role is only given users and policies that went by one of the names asked for,
\* at some time during the request: nobody comes into a role by taking over the login
\* of a deleted user, nor a policy in the place of a user.
GivenAsNamed ==
    [][\A s \in Slots : \A attr \in Attributes :
        /\ pc[s] \in {"addRole", "modifyRole"} /\ pc'[s] = "_loadMembers"
        /\ req[s].names[attr] # {}
        => /\ roles'[req[s].role].refs[attr] \subseteq IdsOf(attr)
           /\ \A o \in roles'[req[s].role].refs[attr] :
                \E n \in UNION req[s].names[attr] : [id |-> o, name |-> n] \in borne[s]]_vars

\* An answer gives each member and policy of a role a name that it bore during the
\* request, so a login that has changed hands is not shown for its former owner.
AnsweredAsBorne ==
    [][\A s \in Slots : Answers(s, RoleOps) =>
        \A attr \in Attributes : \A n \in answer'[s].names[attr] :
            \E o \in group[s][attr] : [id |-> o, name |-> n] \in borne[s]]_vars

\* Undisturbed, a request on a role is refused for its names only if nobody bears one of
\* them, and like GetUser?membership answers with what UFDS holds; a list that was sent
\* comes back as it was.
UndisturbedAnswers ==
    [][\A s \in Slots : alone[s] =>
        /\ req[s].op \in RoleOps /\ req'[s] = NoRequest /\ answer'[s].code = "409" =>
            \E attr \in Attributes : \E n \in UNION req[s].names[attr] :
                Vacant(n, IdsOf(attr))
        /\ Answers(s, RoleOps) => \A attr \in Attributes :
            /\ answer'[s].names[attr] = {name[o] : o \in roles[req[s].role].refs[attr] \cap Live}
            /\ \A list \in req[s].names[attr] : answer'[s].names[attr] = list
        /\ Answers(s, {"getUser"}) =>
            \A attr \in {"members", "default_members"} :
                answer'[s].names[attr] = RolesWith(attr, TheUser(s).id)]_vars

\* An update answered 200 shows the user that it changed as it is now, if the path is an
\* id or no other request wrote; and one without disturbance or failing calls that is
\* answered otherwise changed nothing, unless it renamed the user its path names by login.
UpdateAnswersItsUser ==
    [][\A s \in Slots : req[s].op = "updateUser" /\ req'[s] = NoRequest =>
        /\ answer'[s].code = "200" /\ (alone[s] \/ req[s].path \in UserIds) =>
            answer'[s].names["members"] = {[id |-> TheUser(s).id, name |-> name[TheUser(s).id]]}
        /\ alone[s] /\ answer'[s].code \in {"404", "409"} /\ pc[s] = "answerUser" =>
            req[s].path \in Names /\ req[s].login \notin {{}, {req[s].path}}]_vars

=============================================================================
