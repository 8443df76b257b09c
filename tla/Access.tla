------------------------------- MODULE Access -------------------------------
(***************************************************************************)
(* Who may do what: authentication, the account of a request and           *)
(* authorization (lib/auth.js), the handlers before them (lib/app.js) and  *)
(* the writes that change the answer (lib/keys.js, lib/users.js,           *)
(* lib/roles.js, lib/policies.js, lib/resources.js).                       *)
(*                                                                         *)
(* Writes go to the master UFDS. Authentication reads the local UFDS,      *)
(* which follows the master; authorization reads the role tags from the    *)
(* master, the active roles from the local UFDS and the policies from      *)
(* mahi, which follows on its own. The clients of the three stores cache    *)
(* the entries they read for some time (config.ufds.cache, ufds_master     *)
(* .cache, mahi.maxAuthCacheAgeMs), and authentication and authorization   *)
(* do not pass noCache. One request makes up to six of these reads, one    *)
(* after the other, and each may see another version.                      *)
(* Each action is one call with the local code that follows its reply.     *)
(***************************************************************************)
EXTENDS Naturals, Sequences, FiniteSets

CONSTANTS
    Slots,      \* requests in flight at once
    Accounts,   \* accounts without privileges
    Admins,     \* operators
    Users,      \* sub-users
    Owner,      \* the account of the sub-users
    Roles,      \* its roles
    Initial,    \* the directory at the start
    Requests,   \* what clients ask for
    ReadOnly,   \* config.read_only
    HasMahi,    \* config.mahi: without it there is no accountMgmt
    MaxLog      \* bound: versions of the directory

Principals == Accounts \cup Admins \cup Users

Writes == {"DeleteUser", "CreateKey", "DeleteKey", "UpdateRole", "UpdatePolicy", "setroletags"}

Ops == Writes \cup {"GetUser"}

Optional(S) == {{}} \cup {{x} : x \in S}

\* What UFDS holds: the sub-users that exist, who has a key, who is disabled, the accounts
\* that have to sign, the members of roles, what the policies of roles allow, and the role
\* tags of the resource.
Directory ==
    [users: SUBSET Users, keys: SUBSET Principals, disabled: SUBSET (Accounts \cup Users), signing: SUBSET Accounts,
     members: SUBSET (Users \X Roles), defaults: SUBSET (Users \X Roles),
     rules: SUBSET (Roles \X Ops), tags: SUBSET Roles]

\* An Authorization header of either scheme, by a principal; the account in the path,
\* or "my"; ?as-role; the version from 7.2.0 on or an older one.
Request ==
    [scheme: {"signature", "basic"}, by: Principals, current: BOOLEAN,
     path: Accounts \cup Admins \cup {"my"}, asRole: Optional(SUBSET Roles), op: Ops]

ASSUME AccessAssumption ==
    /\ Owner \in Accounts
    /\ Accounts \cap Admins = {} /\ Users \cap (Accounts \cup Admins) = {}
    /\ Initial \in Directory
    /\ Requests \subseteq Request
    /\ \A r \in Requests : r.scheme = "basic" => r.by \notin Users
    /\ ReadOnly \in BOOLEAN /\ HasMahi \in BOOLEAN
    /\ MaxLog \in Nat \ {0}

VARIABLES
    log,      \* the versions of the directory; the master has the last
    local,    \* the version that the local UFDS has
    mahi,     \* the version that mahi has
    oldest,   \* the oldest version that a client of a store may still have in its cache
    pc,       \* the next call of each request
    req,      \* its parameters
    account,  \* req.account
    tags,     \* req.resource.roles
    active,   \* the active roles
    info,     \* what mahi knows of the user
    arrived,  \* history: the oldest versions when it arrived
    verdict   \* history: how the last request of the slot was decided

vars == <<log, local, mahi, oldest, pc, req, account, tags, active, info, arrived, verdict>>
copies == <<log, local, mahi, oldest>>

Stores == {"master", "local", "mahi"}

Versions == 1..Len(log)

Master == log[Len(log)]

\* The version that a store has now.
At(store) ==
    CASE store = "master" -> Len(log)
      [] store = "local" -> local
      [] store = "mahi" -> mahi

\* What a read may return: each process has clients with a cache of their own, and what an
\* entry shows is as old as the time it was cached at.
Readable(store) == {log[v] : v \in {w \in Versions : oldest[store] <= w /\ w <= At(store)}}

Steps == {"idle", "getAccount", "getSubUser", "getKey", "authenticate", "getMetadata",
          "loadAccount", "loadResource", "getRoles", "mahi.getUser", "mahi.getAccount",
          "handler"}

Verdicts == {"none", "accepted", "refused", "error"}

\* req.account: whose it is, and whether it, or the caller, was disabled when it was read.
Loaded == [login: Accounts \cup Admins, disabled: BOOLEAN]

NoRequest == [op |-> "none"]

IsSubUser(p) == p \in Users

\* The account that the credentials belong to.
Home(p) == IF p \in Users THEN Owner ELSE p

-----------------------------------------------------------------------------
Init ==
    /\ log = <<Initial>>
    /\ local = 1
    /\ mahi = 1
    /\ oldest = [store \in Stores |-> 1]
    /\ pc = [s \in Slots |-> "idle"]
    /\ req = [s \in Slots |-> NoRequest]
    /\ account = [s \in Slots |-> {}]
    /\ tags = [s \in Slots |-> {}]
    /\ active = [s \in Slots |-> {}]
    /\ info = [s \in Slots |-> {}]
    /\ arrived = [s \in Slots |-> [store \in Stores |-> 1]]
    /\ verdict = [s \in Slots |-> "none"]

\* The copies follow the master, one version after the other.
LocalCatchesUp ==
    /\ local < Len(log)
    /\ local' = local + 1
    /\ UNCHANGED <<log, mahi, oldest, pc, req, account, tags, active, info, arrived, verdict>>

MahiCatchesUp ==
    /\ mahi < Len(log)
    /\ mahi' = mahi + 1
    /\ UNCHANGED <<log, local, oldest, pc, req, account, tags, active, info, arrived, verdict>>

\* The entries that were cached longest ago expire.
Expire(store) ==
    /\ oldest[store] < At(store)
    /\ oldest' = [oldest EXCEPT ![store] = @ + 1]
    /\ UNCHANGED <<log, local, mahi, pc, req, account, tags, active, info, arrived, verdict>>

-----------------------------------------------------------------------------
Goto(s, step) ==
    /\ pc' = [pc EXCEPT ![s] = step]
    /\ UNCHANGED <<copies, req, arrived, verdict>>

\* The request ends, and what it knew with it.
End(s, v) ==
    /\ pc' = [pc EXCEPT ![s] = "idle"]
    /\ req' = [req EXCEPT ![s] = NoRequest]
    /\ account' = [account EXCEPT ![s] = {}]
    /\ tags' = [tags EXCEPT ![s] = {}]
    /\ active' = [active EXCEPT ![s] = {}]
    /\ info' = [info EXCEPT ![s] = {}]
    /\ arrived' = [arrived EXCEPT ![s] = [store \in Stores |-> 1]]
    /\ verdict' = [verdict EXCEPT ![s] = v]

Refuse(s) == End(s, "refused") /\ UNCHANGED copies

\* The call of a step fails: whatever it was for, the request does not go on.
Fail(s) ==
    /\ pc[s] \notin {"idle", "getMetadata", "handler"}
    /\ End(s, "error")
    /\ UNCHANGED copies

\* basicAuth() serves version 6.5; sub-users sign with their path from 7.2.0 on.
Served(r) ==
    /\ r.scheme = "basic" => ~r.current
    /\ IsSubUser(r.by) => r.current

Arrive(s) ==
    /\ pc[s] = "idle"
    /\ \E r \in Requests :
        \/ /\ Served(r)
           /\ req' = [req EXCEPT ![s] = r]
           /\ pc' = [pc EXCEPT ![s] = IF r.scheme = "basic" THEN "authenticate" ELSE "getAccount"]
           /\ arrived' = [arrived EXCEPT ![s] = oldest]
           /\ verdict' = [verdict EXCEPT ![s] = "none"]
           /\ UNCHANGED <<copies, account, tags, active, info>>
        \/ /\ ~Served(r)
           /\ Refuse(s)

-----------------------------------------------------------------------------
(* Authentication, from the local UFDS. *)

Load(s, login, d) ==
    account' = [account EXCEPT ![s] = {[login |-> login, disabled |-> login \in d.disabled]}]

GetAccount(s) ==
    /\ pc[s] = "getAccount"
    /\ \E d \in Readable("local") : Load(s, Home(req[s].by), d)
    /\ Goto(s, IF IsSubUser(req[s].by) THEN "getSubUser" ELSE "getKey")
    /\ UNCHANGED <<tags, active, info>>

GetSubUser(s) ==
    /\ pc[s] = "getSubUser"
    /\ \E d \in Readable("local") :
        \/ req[s].by \notin d.users /\ Refuse(s)
        \/ /\ req[s].by \in d.users
           /\ account' = [account EXCEPT ![s] =
                            {[a EXCEPT !.disabled = @ \/ req[s].by \in d.disabled] : a \in @}]
           /\ Goto(s, "getKey")
           /\ UNCHANGED <<tags, active, info>>

\* Mutant: "my" is looked up like a login.
AuthenticatedAsIs(s, loaded) ==
    \/ (\E a \in loaded : a.disabled) /\ Refuse(s)
    \/ /\ \A a \in loaded : ~a.disabled
       /\ Goto(s, IF IsSubUser(req[s].by) \/ req[s].path = req[s].by
                  THEN "loadResource" ELSE "loadAccount")
       /\ account' = [account EXCEPT ![s] = loaded]
       /\ UNCHANGED <<tags, active, info>>

\* assertAuthenticated() and loadAccount(): a disabled account or caller is refused; the
\* account of the path is loaded, unless it is the caller's own or the caller is a sub-user.
Authenticated(s, loaded) ==
    \/ (\E a \in loaded : a.disabled) /\ Refuse(s)
    \/ /\ \A a \in loaded : ~a.disabled
       /\ Goto(s, IF IsSubUser(req[s].by) \/ req[s].path \in {"my", req[s].by}
                  THEN "loadResource" ELSE "loadAccount")
       /\ account' = [account EXCEPT ![s] = loaded]
       /\ UNCHANGED <<tags, active, info>>

\* Mutant: the entry of a key does not expire.
GetKeyOnce(s) ==
    /\ pc[s] = "getKey"
    /\ \E v \in 1..local : req[s].by \in log[v].keys
    /\ Authenticated(s, account[s])

\* The key is there and the signature verifies.
GetKey(s) ==
    /\ pc[s] = "getKey"
    /\ \E d \in Readable("local") :
        \/ req[s].by \notin d.keys /\ Refuse(s)
        \/ req[s].by \in d.keys /\ Authenticated(s, account[s])

\* basicAuth()
Authenticate(s) ==
    /\ pc[s] = "authenticate"
    /\ \E d \in Readable("local") : Load(s, req[s].by, d)
    /\ Goto(s, "getMetadata")
    /\ UNCHANGED <<tags, active, info>>

\* An error is taken for an account that does not insist on signatures.
GetMetadata(s) ==
    /\ pc[s] = "getMetadata"
    /\ \/ (\E d \in Readable("local") : req[s].by \in d.signing) /\ Refuse(s)
       \/ Authenticated(s, account[s])

LoadAccount(s) ==
    /\ pc[s] = "loadAccount"
    /\ \E d \in Readable("local") : Load(s, req[s].path, d)
    /\ Goto(s, "loadResource")
    /\ UNCHANGED <<tags, active, info>>

-----------------------------------------------------------------------------
(* authorize(), after loadResource(). *)

\* accountMgmt()
AccountMgmt(s) == HasMahi /\ req[s].current

\* Mutant: the tags of the local UFDS.
TagsOfCopy == {d.tags : d \in Readable("local")}

TagsOfResource == {d.tags : d \in Readable("master")}

\* Mutant: only sub-users are checked.
UncheckedAccounts(s) == ~IsSubUser(req[s].by)

\* The account itself and operators.
Unchecked(s) ==
    \/ \E a \in account[s] : a.login = req[s].by
    \/ req[s].by \in Admins

\* Without accountMgmt no tags are loaded. Without a role to check it is decided here.
LoadResource(s) ==
    /\ pc[s] = "loadResource"
    /\ \E roles \in IF AccountMgmt(s) THEN TagsOfResource ELSE {{}} :
            tags' = [tags EXCEPT ![s] = roles]
    /\ \/ Unchecked(s) /\ Goto(s, "handler")
       \/ ~Unchecked(s) /\ IsSubUser(req[s].by) /\ AccountMgmt(s) /\ Goto(s, "getRoles")
    /\ UNCHANGED <<account, active, info>>

Forbid(s) ==
    /\ pc[s] = "loadResource"
    /\ ~Unchecked(s)
    /\ ~(IsSubUser(req[s].by) /\ AccountMgmt(s))
    /\ Refuse(s)

RolesIn(relation, u) == {r \in Roles : <<u, r>> \in relation}

\* The roles of ?as-role are to be held, those by default are taken.
GetRoles(s) ==
    /\ pc[s] = "getRoles"
    /\ \E d \in Readable("local") :
        LET held == RolesIn(d.members, req[s].by)
            asked == req[s].asRole
        IN  \/ (\E list \in asked : ~(list \subseteq held)) /\ Refuse(s)
            \/ /\ \A list \in asked : list \subseteq held
               /\ active' = [active EXCEPT ![s] =
                                 IF asked = {} THEN RolesIn(d.defaults, req[s].by)
                                 ELSE UNION asked]
               /\ Goto(s, "mahi.getUser")
               /\ UNCHANGED <<account, tags, info>>

MahiGetUser(s) ==
    /\ pc[s] = "mahi.getUser"
    /\ \E d \in Readable("mahi") :
        \/ req[s].by \notin d.users /\ Refuse(s)
        \/ /\ req[s].by \in d.users
           /\ info' = [info EXCEPT ![s] = RolesIn(d.members \cup d.defaults, req[s].by)]
           /\ Goto(s, "mahi.getAccount")
           /\ UNCHANGED <<account, tags, active>>

\* Mutant: what the resource is tagged with does not count.
PermittedUntagged(s, rules) ==
    \E r \in active[s] \cap info[s] : <<r, req[s].op>> \in rules

\* mahi.authorize: an active role of the user, on the resource, with a rule for the route.
Permitted(s, rules) ==
    \E r \in active[s] \cap info[s] \cap tags[s] : <<r, req[s].op>> \in rules

MahiGetAccount(s) ==
    /\ pc[s] = "mahi.getAccount"
    /\ \E d \in Readable("mahi") :
        \/ ~Permitted(s, d.rules) /\ Refuse(s)
        \/ /\ Permitted(s, d.rules)
           /\ Goto(s, "handler")
           /\ UNCHANGED <<account, tags, active, info>>

-----------------------------------------------------------------------------
(* The handlers, which write to the master. *)

Toggled(set, S) == {(set \cup {x}) \ (set \cap {x}) : x \in S}

Effects(op, d) ==
    CASE op = "DeleteUser" -> {[d EXCEPT !.users = @ \ {u}] : u \in d.users}
      [] op = "CreateKey" -> {[d EXCEPT !.keys = @ \cup {p}] : p \in Principals \ d.keys}
      [] op = "DeleteKey" -> {[d EXCEPT !.keys = @ \ {p}] : p \in d.keys}
      [] op = "UpdateRole" -> {[d EXCEPT !.members = m] : m \in Toggled(d.members, d.users \X Roles)}
                       \cup {[d EXCEPT !.defaults = m] : m \in Toggled(d.defaults, d.users \X Roles)}
      [] op = "UpdatePolicy" -> {[d EXCEPT !.rules = m] : m \in Toggled(d.rules, Roles \X {"GetUser"})}
      [] op = "setroletags" -> {[d EXCEPT !.tags = m] : m \in Toggled(d.tags, Roles)}
      [] OTHER -> {}

\* readOnlyMode() comes last, and lets reads through. A write may fail.
Handler(s) ==
    /\ pc[s] = "handler"
    /\ \/ req[s].op \notin Writes /\ End(s, "accepted") /\ UNCHANGED copies
       \/ req[s].op \in Writes /\ End(s, "error") /\ UNCHANGED copies
       \/ /\ req[s].op \in Writes /\ ~ReadOnly
          /\ Len(log) < MaxLog
          /\ End(s, "accepted")
          /\ \E d \in Effects(req[s].op, Master) : log' = Append(log, d)
          /\ UNCHANGED <<local, mahi, oldest>>

\* Another server of this or another data center has let a request through, or an
\* operator has changed an account.
WriteElsewhere ==
    /\ Len(log) < MaxLog
    /\ \E d \in (UNION {Effects(op, Master) : op \in Writes})
                \cup {[Master EXCEPT !.disabled = m] : m \in Toggled(Master.disabled, Accounts \cup Users)}
                \cup {[Master EXCEPT !.signing = m] : m \in Toggled(Master.signing, Accounts)} :
            log' = Append(log, d)
    /\ UNCHANGED <<local, mahi, oldest, pc, req, account, tags, active, info, arrived, verdict>>

-----------------------------------------------------------------------------
Handle(s) ==
    \/ GetAccount(s) \/ GetSubUser(s) \/ GetKey(s) \/ Authenticate(s) \/ GetMetadata(s)
    \/ LoadAccount(s) \/ LoadResource(s) \/ Forbid(s)
    \/ GetRoles(s) \/ MahiGetUser(s) \/ MahiGetAccount(s)
    \/ Handler(s) \/ Fail(s)

Next ==
    \/ \E s \in Slots : Arrive(s) \/ Handle(s)
    \/ WriteElsewhere
    \/ LocalCatchesUp
    \/ MahiCatchesUp
    \/ \E store \in Stores : Expire(store)

\* Replication goes on, entries of a cache expire by their age, and calls return.
Fairness ==
    /\ WF_vars(LocalCatchesUp)
    /\ WF_vars(MahiCatchesUp)
    /\ WF_vars(\E store \in Stores : Expire(store))
    /\ \A s \in Slots : WF_vars(Handle(s))

Spec == Init /\ [][Next]_vars

FairSpec == Spec /\ Fairness

-----------------------------------------------------------------------------
\* Every variable keeps its type, and neither a copy passes the master nor a cache its store.
TypeOK ==
    /\ \A v \in Versions : log[v] \in Directory
    /\ local \in Versions /\ mahi \in Versions
    /\ oldest \in [Stores -> Versions] /\ \A store \in Stores : oldest[store] <= At(store)
    /\ pc \in [Slots -> Steps]
    /\ \A s \in Slots : req[s] \in Requests \cup {NoRequest}
    /\ \A s \in Slots : account[s] \in Optional(Loaded)
    /\ tags \in [Slots -> SUBSET Roles]
    /\ active \in [Slots -> SUBSET Roles]
    /\ info \in [Slots -> SUBSET Roles]
    /\ arrived \in [Slots -> [Stores -> Versions]]
    /\ verdict \in [Slots -> Verdicts]

\* A caller that is not an operator reaches a handler only with the account that its
\* credentials belong to, whatever account the path names.
OwnAccountOnly ==
    \A s \in Slots : pc[s] = "handler" /\ req[s].by \notin Admins =>
        account[s] # {} /\ \A a \in account[s] : a.login = Home(req[s].by)

\* Versions that could be read of a store while the request was under way: those that it
\* had, and those still in a cache when the request arrived.
During(s, store) ==
    {log[v] : v \in {w \in Versions : arrived[s][store] <= w /\ w <= At(store)}}

\* Each thing that lets a request through held in the store it is read from after the
\* request arrived, or before that by no more than the age of the client's cache, however
\* far the stores are apart: once a deleted key or user, a role's member, a rule or a tag
\* is gone there and has expired, no new request gets through by it.
AcceptedOnEvidence ==
    \A s \in Slots : pc[s] = "handler" /\ req[s].scheme = "signature" =>
        /\ \E d \in During(s, "local") : req[s].by \in d.keys
        /\ \A p \in {req[s].by, Home(req[s].by)} : \E d \in During(s, "local") : p \notin d.disabled
        /\ IsSubUser(req[s].by) =>
            /\ \E d \in During(s, "local") : req[s].by \in d.users
            /\ \E d \in During(s, "mahi") : req[s].by \in d.users
            /\ \E r \in Roles :
                /\ \E d \in During(s, "master") : r \in d.tags
                /\ \E d \in During(s, "mahi") : <<r, req[s].op>> \in d.rules
                /\ \E d \in During(s, "local") :
                    <<req[s].by, r>> \in IF req[s].asRole = {} THEN d.defaults ELSE d.members

\* README.md: the user must have, of the active roles, one assigned to the resource, with
\* a policy that allows the request. With the key, and the user and the account in use.
Granted(r, d) ==
    /\ r.by \in d.keys
    /\ r.by \notin d.disabled /\ Home(r.by) \notin d.disabled
    /\ \/ r.by \in Admins
       \/ r.by \in Accounts /\ r.path \in {"my", r.by}
       \/ /\ HasMahi /\ r.by \in d.users
          /\ \A list \in r.asRole : list \subseteq RolesIn(d.members, r.by)
          /\ \E role \in d.tags :
                /\ <<role, r.op>> \in d.rules
                /\ role \in IF r.asRole = {} THEN RolesIn(d.defaults, r.by) ELSE UNION r.asRole

\* Copies and caches were up to date when the request arrived, and nothing was written since.
UpToDate(s) == \A store \in Stores : arrived[s][store] = Len(log)

\* While the copies and the caches are up to date and nobody writes, a signed request is
\* decided as the directory grants it.
DecidedAsGranted ==
    [][\A s \in Slots :
        /\ pc[s] \notin {"idle", "handler"} /\ req[s].scheme = "signature"
        /\ UpToDate(s)
        => /\ pc'[s] = "handler" => Granted(req[s], Master)
           /\ verdict'[s] = "refused" => ~Granted(req[s], Master)]_vars

\* "They will no longer be able to use this API" (of a deleted sub-user): from some time on
\* nobody signs a request that gets through who has no key any more, or is deleted.
DeletionsTakeEffect ==
    \A p \in Principals :
        <>[](p \notin Master.keys \/ p \in Users \ Master.users) =>
            <>[](\A s \in Slots : pc[s] = "handler" /\ req[s].by = p => req[s].scheme = "basic")

=============================================================================
