---------------------------- MODULE AccessProofs ----------------------------
(***************************************************************************)
(* Access for any directory, requests and number of writes: its types,     *)
(* that a handler runs only on the caller's own account, that whatever     *)
(* lets a request through could be read from its store, or its client's    *)
(* cache, since the request arrived, and that decisions are right while    *)
(* nothing is written and no cache holds an older version.                 *)
(***************************************************************************)
EXTENDS Access, TLAPS

\* Steps past assertAuthenticated().
Authentic == {"loadAccount", "loadResource", "getRoles", "mahi.getUser", "mahi.getAccount",
              "handler"}

\* Each step belongs to some requests.
Fits(r, step) ==
    /\ step # "idle" => r \in Requests
    /\ step \in {"authenticate", "getMetadata"} => r.scheme = "basic"
    /\ step = "loadAccount" => r.by \notin Users /\ r.path # "my"

TypeInv ==
    /\ log \in Seq(Directory) /\ Len(log) \in Nat \ {0}
    /\ req \in [Slots -> Requests \cup {NoRequest}]
    /\ account \in [Slots -> Optional(Loaded)]
    /\ \A s \in Slots : Fits(req[s], pc[s])
    /\ TypeOK

\* The clock of a store: what can be read of it gets newer since a request arrived.
Since == \A s \in Slots : \A st \in Stores : arrived[s][st] <= oldest[st]

\* The account of a request while it is authenticated, and when it is loaded.
AccountAt(s) ==
    /\ pc[s] \in {"getSubUser", "getKey", "getMetadata"} =>
        /\ account[s] # {}
        /\ \A a \in account[s] :
            /\ a.login = Home(req[s].by)
            /\ a.disabled \/ \E d \in During(s, "local") : Home(req[s].by) \notin d.disabled
    /\ pc[s] = "getKey" /\ req[s].by \in Users =>
        \A a \in account[s] :
            a.disabled \/ \E d \in During(s, "local") : req[s].by \notin d.disabled
    /\ pc[s] \in Authentic /\ req[s].by \in Users =>
        account[s] # {} /\ \A a \in account[s] : a.login = Home(req[s].by)
    /\ pc[s] \in {"getRoles", "mahi.getUser", "mahi.getAccount"} => req[s].by \in Users
    /\ pc[s] = "handler" /\ req[s].by \notin Users \cup Admins =>
        \E a \in account[s] : a.login = req[s].by

\* What was read is evidence from the stores.
AuthenticAt(s) ==
    /\ pc[s] = "getKey" /\ req[s].by \in Users =>
        \E d \in During(s, "local") : req[s].by \in d.users
    /\ pc[s] \in Authentic /\ req[s].scheme = "signature" =>
        /\ \E d \in During(s, "local") : req[s].by \in d.keys
        /\ \A p \in {req[s].by, Home(req[s].by)} :
            \E d \in During(s, "local") : p \notin d.disabled
        /\ req[s].by \in Users => \E d \in During(s, "local") : req[s].by \in d.users

RolesAt(s) ==
    /\ pc[s] = "idle" => tags[s] = {} /\ active[s] = {}
    /\ \A r \in tags[s] : \E d \in During(s, "master") : r \in d.tags
    /\ \A r \in active[s] : \E d \in During(s, "local") :
        <<req[s].by, r>> \in IF req[s].asRole = {} THEN d.defaults ELSE d.members
    /\ pc[s] = "mahi.getAccount" => \E d \in During(s, "mahi") : req[s].by \in d.users
    /\ pc[s] = "handler" /\ req[s].by \in Users =>
        /\ \E d \in During(s, "mahi") : req[s].by \in d.users
        /\ \E r \in active[s] \cap tags[s] :
            \E d \in During(s, "mahi") : <<r, req[s].op>> \in d.rules

SlotInv(s) == AccountAt(s) /\ AuthenticAt(s) /\ RolesAt(s)

Inv == TypeInv /\ Since /\ \A s \in Slots : SlotInv(s)

-----------------------------------------------------------------------------
LEMMA RequestFacts ==
    ASSUME NEW r \in Requests
    PROVE  /\ r \in Request /\ r # NoRequest
           /\ r.by \in Principals /\ r.op \in Ops /\ r.scheme \in {"signature", "basic"}
           /\ r.path \in Accounts \cup Admins \cup {"my"}
           /\ r.asRole \in Optional(SUBSET Roles)
           /\ Home(r.by) \in Accounts \cup Admins
           /\ r.scheme = "basic" => r.by \notin Users
<1>1. r \in Request
  BY AccessAssumption
<1>2. /\ r.by \in Principals /\ r.op \in Ops /\ r.scheme \in {"signature", "basic"}
      /\ r.path \in Accounts \cup Admins \cup {"my"} /\ r.asRole \in Optional(SUBSET Roles)
  BY <1>1 DEF Request
<1>3. r # NoRequest
  BY <1>2 DEF NoRequest, Ops, Writes
<1>4. Home(r.by) \in Accounts \cup Admins
  BY <1>2, AccessAssumption DEF Home, Principals
<1> QED
  BY <1>1, <1>2, <1>3, <1>4, AccessAssumption

\* A write makes a directory of a directory.
LEMMA EffectsType ==
    ASSUME NEW d \in Directory, NEW op \in Writes, NEW e \in Effects(op, d)
    PROVE  e \in Directory
<1>1. CASE op = "DeleteUser"
  BY <1>1 DEF Effects, Directory
<1>2. CASE op = "CreateKey"
  BY <1>2 DEF Effects, Directory
<1>3. CASE op = "DeleteKey"
  BY <1>3 DEF Effects, Directory
<1>4. CASE op = "UpdateRole"
  BY <1>4 DEF Effects, Directory, Toggled
<1>5. CASE op = "UpdatePolicy"
  BY <1>5 DEF Effects, Directory, Toggled, Ops
<1>6. CASE op = "setroletags"
  BY <1>6 DEF Effects, Directory, Toggled
<1> QED
  BY <1>1, <1>2, <1>3, <1>4, <1>5, <1>6 DEF Writes

LEMMA InitType == Init => TypeInv
<1> SUFFICES ASSUME Init PROVE TypeInv
  OBVIOUS
<1>1. log \in Seq(Directory) /\ Len(log) = 1 /\ log[1] \in Directory
  BY AccessAssumption DEF Init
<1>2. Versions = {1}
  BY <1>1 DEF Versions
<1>3. \A st \in Stores : At(st) = 1
  BY <1>1 DEF Init, Stores, At
<1>4. /\ oldest \in [Stores -> Versions] /\ \A st \in Stores : oldest[st] <= At(st)
      /\ arrived \in [Slots -> [Stores -> Versions]]
  BY <1>2, <1>3 DEF Init
<1> QED
  BY <1>1, <1>2, <1>4 DEF Init, TypeInv, TypeOK, Fits, Steps, Optional, Verdicts

\* The versions that the stores have had go on to be versions.
LEMMA Grows ==
    ASSUME TypeInv, log' = log \/ \E d \in Directory : log' = Append(log, d)
    PROVE  /\ log' \in Seq(Directory) /\ Len(log') \in Nat \ {0} /\ Len(log) <= Len(log')
           /\ Versions \subseteq Versions' /\ \A v \in Versions : log'[v] = log[v]
           /\ \A v \in Versions' : log'[v] \in Directory
<1>1. log \in Seq(Directory) /\ Len(log) \in Nat \ {0}
  BY DEF TypeInv
<1>2. CASE log' = log
  BY <1>1, <1>2 DEF Versions
<1>3. CASE \E d \in Directory : log' = Append(log, d)
  <2>1. PICK d \in Directory : log' = Append(log, d)
    BY <1>3
  <2>2. log' \in Seq(Directory) /\ Len(log') = Len(log) + 1
    BY <1>1, <2>1
  <2>3. \A v \in 1..Len(log) : log'[v] = log[v]
    BY <1>1, <2>1
  <2>4. \A v \in 1..Len(log') : log'[v] \in Directory
    BY <2>2
  <2> QED
    BY <1>1, <2>2, <2>3, <2>4 DEF Versions
<1> QED
  BY <1>2, <1>3

LEMMA StoresType ==
    ASSUME TypeInv
    PROVE  /\ Master \in Directory
           /\ Len(log) \in Versions /\ local \in Versions /\ mahi \in Versions
           /\ 1 \in Versions /\ Versions \subseteq Nat
           /\ \A st \in Stores : At(st) \in Versions /\ oldest[st] \in Versions
           /\ \A st \in Stores : \A d \in Readable(st) : d \in Directory
<1>1. /\ Master \in Directory
      /\ Len(log) \in Versions /\ local \in Versions /\ mahi \in Versions
      /\ 1 \in Versions /\ Versions \subseteq Nat
  BY DEF TypeInv, TypeOK, Versions, Master
<1> HIDE DEF Versions
<1>2. \A st \in Stores : At(st) \in Versions
  BY <1>1 DEF Stores, At
<1> QED
  BY <1>1, <1>2 DEF TypeInv, TypeOK, Readable

\* The stores only get newer.
LEMMA AtGrows ==
    ASSUME TypeInv, log' = log \/ \E d \in Directory : log' = Append(log, d),
           local' \in Versions', mahi' \in Versions', local <= local', mahi <= mahi'
    PROVE  \A st \in Stores : At(st)' \in Versions' /\ At(st) <= At(st)'
<1>1. Len(log) <= Len(log') /\ Len(log') \in Versions'
  BY Grows DEF Versions
<1> HIDE DEF Versions
<1> QED
  BY <1>1 DEF Stores, At

LEMMA OldestType ==
    ASSUME TypeInv, log' = log \/ \E d \in Directory : log' = Append(log, d),
           local' \in Versions', mahi' \in Versions', local <= local', mahi <= mahi',
           UNCHANGED oldest
    PROVE  oldest' \in [Stores -> Versions'] /\ \A st \in Stores : oldest'[st] <= At(st)'
<1>1. \A st \in Stores : oldest[st] \in Versions' /\ oldest[st] <= At(st)
  BY Grows DEF TypeInv, TypeOK
<1>2. \A st \in Stores : At(st)' \in Versions' /\ At(st) <= At(st)' /\ At(st) \in Versions
  BY AtGrows, StoresType
<1>3. Versions \subseteq Nat /\ Versions' \subseteq Nat
  BY StoresType, Grows DEF Versions
<1> HIDE DEF Versions
<1>4. ASSUME NEW st \in Stores PROVE oldest'[st] <= At(st)'
  <2>1. /\ oldest[st] \in Nat /\ At(st) \in Nat /\ At(st)' \in Nat
        /\ oldest[st] <= At(st) /\ At(st) <= At(st)' /\ oldest' = oldest
    BY <1>1, <1>2, <1>3, StoresType
  <2> QED
    BY <2>1
<1> QED
  BY <1>1, <1>4 DEF TypeInv, TypeOK

\* A step of one request, which may write.
LEMMA StepType ==
    ASSUME TypeInv, NEW s \in Slots, log' = log \/ \E d \in Directory : log' = Append(log, d),
           UNCHANGED <<local, mahi, oldest>>,
           NEW step \in Steps, pc' = [pc EXCEPT ![s] = step],
           NEW r \in Requests \cup {NoRequest}, req' = [req EXCEPT ![s] = r],
           Fits(r, step),
           account' \in [Slots -> Optional(Loaded)], tags' \in [Slots -> SUBSET Roles],
           active' \in [Slots -> SUBSET Roles], info' \in [Slots -> SUBSET Roles],
           arrived' \in [Slots -> [Stores -> Versions]],
           verdict' \in [Slots -> Verdicts]
    PROVE  TypeInv'
<1>1. /\ pc' \in [Slots -> Steps] /\ req' \in [Slots -> Requests \cup {NoRequest}]
      /\ \A t \in Slots : Fits(req'[t], pc'[t])
  BY DEF TypeInv, TypeOK
<1>2. arrived' \in [Slots -> [Stores -> Versions']]
  BY Grows
<1>3. local' \in Versions' /\ mahi' \in Versions'
  BY Grows DEF TypeInv, TypeOK
<1>4. \A t \in Slots : req'[t] \in Requests \cup {NoRequest} /\ account'[t] \in Optional(Loaded)
  BY <1>1
<1>5. oldest' \in [Stores -> Versions'] /\ \A st \in Stores : oldest'[st] <= At(st)'
  BY <1>3, OldestType, StoresType
<1> HIDE DEF Versions
<1> QED
  BY <1>1, <1>2, <1>3, <1>4, <1>5, Grows DEF TypeInv, TypeOK

LEMMA EndType ==
    ASSUME TypeInv, NEW s \in Slots, NEW v \in Verdicts, End(s, v), UNCHANGED <<local, mahi, oldest>>,
           log' = log \/ \E d \in Directory : log' = Append(log, d)
    PROVE  TypeInv'
<1>1. "idle" \in Steps /\ {} \in Optional(Loaded)
  BY DEF Steps, Optional
<1>2. /\ account' \in [Slots -> Optional(Loaded)] /\ tags' \in [Slots -> SUBSET Roles]
      /\ active' \in [Slots -> SUBSET Roles] /\ info' \in [Slots -> SUBSET Roles]
      /\ verdict' \in [Slots -> Verdicts]
  BY <1>1 DEF End, TypeInv, TypeOK
<1>3. arrived' \in [Slots -> [Stores -> Versions]]
  BY StoresType DEF End, TypeInv, TypeOK
<1> QED
  BY <1>1, <1>2, <1>3, StepType DEF End, Fits

LEMMA GoType ==
    ASSUME TypeInv, NEW s \in Slots, pc[s] # "idle", NEW step \in Steps, Goto(s, step), Fits(req[s], step),
           account' \in [Slots -> Optional(Loaded)], tags' \in [Slots -> SUBSET Roles],
           active' \in [Slots -> SUBSET Roles], info' \in [Slots -> SUBSET Roles]
    PROVE  TypeInv'
<1>1. req[s] \in Requests /\ req' = [req EXCEPT ![s] = req[s]]
  BY DEF Goto, TypeInv, TypeOK, Fits
<1>2. /\ arrived' \in [Slots -> [Stores -> Versions]]
      /\ verdict' \in [Slots -> Verdicts]
  BY DEF Goto, TypeInv, TypeOK
<1> QED
  BY <1>1, <1>2, StepType DEF Goto, copies

LEMMA RefuseType ==
    ASSUME TypeInv, NEW s \in Slots, Refuse(s)
    PROVE  TypeInv'
  BY EndType DEF Refuse, copies, Verdicts

LEMMA LoadType ==
    ASSUME TypeInv, NEW s \in Slots, NEW login \in Accounts \cup Admins, NEW d, Load(s, login, d)
    PROVE  account' \in [Slots -> Optional(Loaded)]
<1>1. [login |-> login, disabled |-> login \in d.disabled] \in Loaded
  BY DEF Loaded
<1> QED
  BY <1>1 DEF Load, Optional, TypeInv

LEMMA ArriveType ==
    ASSUME TypeInv, NEW s \in Slots, Arrive(s)
    PROVE  TypeInv'
<1>1. CASE Refuse(s)
  BY <1>1, RefuseType
<1>2. CASE ~Refuse(s)
  <2>1. PICK r \in Requests :
            /\ req' = [req EXCEPT ![s] = r]
            /\ pc' = [pc EXCEPT ![s] = IF r.scheme = "basic" THEN "authenticate" ELSE "getAccount"]
            /\ arrived' = [arrived EXCEPT ![s] = oldest]
            /\ verdict' = [verdict EXCEPT ![s] = "none"]
            /\ UNCHANGED <<copies, account, tags, active, info>>
    BY <1>2 DEF Arrive
  <2>3. /\ arrived' \in [Slots -> [Stores -> Versions]]
        /\ verdict' \in [Slots -> Verdicts]
    BY <2>1 DEF TypeInv, TypeOK, Verdicts
  <2>4. PICK step \in {"authenticate", "getAccount"} :
            pc' = [pc EXCEPT ![s] = step] /\ (step = "authenticate" => r.scheme = "basic")
    BY <2>1
  <2>5. step \in Steps /\ Fits(r, step)
    BY <2>4 DEF Steps, Fits
  <2> QED
    BY <2>1, <2>3, <2>4, <2>5, StepType DEF copies, TypeInv, TypeOK
<1> QED
  BY <1>1, <1>2

LEMMA AuthenticatedType ==
    ASSUME TypeInv, NEW s \in Slots, pc[s] # "idle", Authenticated(s, account[s])
    PROVE  TypeInv'
<1>1. CASE Refuse(s)
  BY <1>1, RefuseType
<1>2. CASE ~Refuse(s)
  <2>1. PICK step \in {"loadResource", "loadAccount"} :
            /\ Goto(s, step)
            /\ step = "loadAccount" => req[s].by \notin Users /\ req[s].path # "my"
    BY <1>2 DEF Authenticated, IsSubUser
  <2>2. step \in Steps /\ Fits(req[s], step)
    BY <2>1 DEF Steps, Fits, TypeInv
  <2>3. account' \in [Slots -> Optional(Loaded)] /\ UNCHANGED <<tags, active, info>>
    BY <1>2 DEF Authenticated, TypeInv
  <2> QED
    BY <2>1, <2>2, <2>3, GoType DEF TypeInv, TypeOK
<1> QED
  BY <1>1, <1>2

LEMMA ReadType ==
    ASSUME TypeInv, NEW s \in Slots,
           \/ GetAccount(s) \/ GetSubUser(s) \/ GetKey(s) \/ Authenticate(s) \/ GetMetadata(s)
           \/ LoadAccount(s)
    PROVE  TypeInv'
<1>1. pc[s] # "idle" /\ req[s] \in Requests
  BY DEF GetAccount, GetSubUser, GetKey, Authenticate, GetMetadata, LoadAccount, TypeInv, Fits
<1>2. CASE Refuse(s)
  BY <1>2, RefuseType
<1>3. CASE Authenticated(s, account[s])
  BY <1>1, <1>3, AuthenticatedType
<1>4. ASSUME NEW step \in Steps, Goto(s, step), Fits(req[s], step),
             NEW login \in Accounts \cup Admins, NEW d, Load(s, login, d), UNCHANGED <<tags, active, info>>
      PROVE  TypeInv'
  <2>1. account' \in [Slots -> Optional(Loaded)]
    BY <1>4, LoadType
  <2> QED
    BY <1>1, <1>4, <2>1, GoType DEF TypeInv, TypeOK
<1>5. CASE GetAccount(s)
  <2>1. PICK step \in {"getSubUser", "getKey"} : Goto(s, step)
    BY <1>5 DEF GetAccount
  <2>2. step \in Steps /\ Fits(req[s], step)
    BY <1>1, <2>1 DEF Steps, Fits
  <2> QED
    BY <1>1, <1>4, <1>5, <2>1, <2>2, RequestFacts DEF GetAccount
<1>6. CASE GetSubUser(s) /\ ~Refuse(s)
  <2>1. "getKey" \in Steps /\ Fits(req[s], "getKey")
    BY <1>1 DEF Steps, Fits
  <2>2. PICK d \in Readable("local") :
            /\ account' = [account EXCEPT ![s] =
                             {[a EXCEPT !.disabled = @ \/ req[s].by \in d.disabled] : a \in @}]
            /\ Goto(s, "getKey") /\ UNCHANGED <<tags, active, info>>
    BY <1>6 DEF GetSubUser
  <2> DEFINE marked == {[a EXCEPT !.disabled = @ \/ req[s].by \in d.disabled] : a \in account[s]}
  <2>4. marked \in Optional(Loaded)
    <3>1. CASE account[s] = {}
      BY <3>1 DEF Optional
    <3>2. CASE account[s] # {}
      <4>1. PICK a \in Loaded : account[s] = {a}
        BY <3>2 DEF Optional, TypeInv, TypeOK
      <4> DEFINE b == [a EXCEPT !.disabled = @ \/ req[s].by \in d.disabled]
      <4>2. b \in Loaded
        BY <4>1 DEF Loaded
      <4>3. marked = {b}
        BY <4>1
      <4> QED
        BY <4>2, <4>3 DEF Optional
    <3> QED
      BY <3>1, <3>2
  <2>5. account' \in [Slots -> Optional(Loaded)]
    BY <2>2, <2>4 DEF TypeInv
  <2> QED
    BY <1>1, <2>1, <2>2, <2>5, GoType DEF TypeInv, TypeOK
<1>7. CASE Authenticate(s)
  <2>0. req[s].scheme = "basic"
    BY <1>7 DEF Authenticate, TypeInv, Fits
  <2>1. "getMetadata" \in Steps /\ Fits(req[s], "getMetadata")
    BY <1>1, <2>0 DEF Steps, Fits
  <2>2. req[s].by \in Accounts \cup Admins
    BY <1>1, <2>0, RequestFacts DEF Principals
  <2> QED
    BY <1>4, <1>7, <2>1, <2>2 DEF Authenticate
<1>8. CASE LoadAccount(s)
  <2>1. "loadResource" \in Steps /\ Fits(req[s], "loadResource")
    BY <1>1 DEF Steps, Fits
  <2>2. req[s].path \in Accounts \cup Admins
    BY <1>1, <1>8, RequestFacts DEF LoadAccount, TypeInv, Fits
  <2> QED
    BY <1>4, <1>8, <2>1, <2>2 DEF LoadAccount
<1> QED
  BY <1>2, <1>3, <1>5, <1>6, <1>7, <1>8 DEF GetSubUser, GetKey, GetMetadata

LEMMA AuthorizeType ==
    ASSUME TypeInv, NEW s \in Slots,
           \/ LoadResource(s) \/ Forbid(s) \/ GetRoles(s) \/ MahiGetUser(s) \/ MahiGetAccount(s)
    PROVE  TypeInv'
<1>1. pc[s] # "idle" /\ req[s] \in Requests
  BY DEF LoadResource, Forbid, GetRoles, MahiGetUser, MahiGetAccount, TypeInv, Fits
<1>2. CASE Refuse(s)
  BY <1>2, RefuseType
<1>3. ASSUME NEW step \in {"handler", "getRoles", "mahi.getUser", "mahi.getAccount"}, Goto(s, step),
             UNCHANGED account, tags' \in [Slots -> SUBSET Roles],
             active' \in [Slots -> SUBSET Roles], info' \in [Slots -> SUBSET Roles]
      PROVE  TypeInv'
  <2>1. step \in Steps /\ Fits(req[s], step)
    BY <1>1, <1>3 DEF Steps, Fits
  <2>2. account' \in [Slots -> Optional(Loaded)]
    BY <1>3 DEF TypeInv
  <2> QED
    BY <1>1, <1>3, <2>1, <2>2, GoType
<1>4. CASE LoadResource(s)
  <2>1. PICK roles \in IF AccountMgmt(s) THEN TagsOfResource ELSE {{}} :
            tags' = [tags EXCEPT ![s] = roles]
    BY <1>4 DEF LoadResource
  <2>2. roles \in SUBSET Roles
    BY <2>1, StoresType DEF TagsOfResource, Directory, Stores
  <2>3. tags' \in [Slots -> SUBSET Roles]
    BY <2>1, <2>2 DEF TypeInv, TypeOK
  <2>4. /\ UNCHANGED <<account, active, info>>
        /\ Goto(s, "handler") \/ Goto(s, "getRoles")
    BY <1>4 DEF LoadResource
  <2>5. active' \in [Slots -> SUBSET Roles] /\ info' \in [Slots -> SUBSET Roles]
    BY <2>4 DEF TypeInv, TypeOK
  <2> QED
    BY <1>3, <2>3, <2>4, <2>5
<1>5. CASE GetRoles(s) /\ ~Refuse(s)
  <2>1. PICK d \in Readable("local") :
            /\ active' = [active EXCEPT ![s] = IF req[s].asRole = {} THEN RolesIn(d.defaults, req[s].by)
                                               ELSE UNION req[s].asRole]
            /\ Goto(s, "mahi.getUser") /\ UNCHANGED <<account, tags, info>>
    BY <1>5 DEF GetRoles
  <2>2. (IF req[s].asRole = {} THEN RolesIn(d.defaults, req[s].by) ELSE UNION req[s].asRole)
            \in SUBSET Roles
    BY <1>1, RequestFacts DEF RolesIn, Optional
  <2>3. active' \in [Slots -> SUBSET Roles]
    BY <2>1, <2>2 DEF TypeInv, TypeOK
  <2> QED
    BY <1>3, <2>1, <2>3 DEF TypeInv, TypeOK
<1>6. CASE MahiGetUser(s) /\ ~Refuse(s)
  <2>1. PICK roles \in SUBSET Roles : info' = [info EXCEPT ![s] = roles]
    BY <1>6 DEF MahiGetUser, RolesIn
  <2>2. info' \in [Slots -> SUBSET Roles]
    BY <2>1 DEF TypeInv, TypeOK
  <2> QED
    BY <1>3, <1>6, <2>2 DEF MahiGetUser, TypeInv, TypeOK
<1>7. CASE MahiGetAccount(s) /\ ~Refuse(s)
  BY <1>3, <1>7 DEF MahiGetAccount, TypeInv, TypeOK
<1> QED
  BY <1>2, <1>4, <1>5, <1>6, <1>7 DEF Forbid

LEMMA HandlerType ==
    ASSUME TypeInv, NEW s \in Slots, Handler(s) \/ Fail(s)
    PROVE  TypeInv'
<1>1. PICK v \in Verdicts : End(s, v)
  BY DEF Handler, Fail, Verdicts
<1>2. log' = log \/ \E d \in Directory : log' = Append(log, d)
  BY EffectsType, StoresType DEF Handler, Fail, copies
<1> QED
  BY <1>1, <1>2, EndType DEF Handler, Fail, copies

\* What happens elsewhere: the requests are as they were.
Elsewhere ==
    WriteElsewhere \/ LocalCatchesUp \/ MahiCatchesUp \/ \E st \in Stores : Expire(st)

LEMMA ElsewhereType ==
    ASSUME TypeInv, Elsewhere
    PROVE  /\ TypeInv'
           /\ log' = log \/ \E d \in Directory : log' = Append(log, d)
           /\ local <= local' /\ mahi <= mahi' /\ \A st \in Stores : oldest[st] <= oldest'[st]
           /\ UNCHANGED <<pc, req, account, tags, active, info, arrived>>
<1>1. UNCHANGED <<pc, req, account, tags, active, info, arrived, verdict>>
  BY DEF Elsewhere, WriteElsewhere, LocalCatchesUp, MahiCatchesUp, Expire
<1>2. log' = log \/ \E d \in Directory : log' = Append(log, d)
  <2>1. CASE WriteElsewhere
    <3>1. PICK d \in (UNION {Effects(op, Master) : op \in Writes})
                    \cup {[Master EXCEPT !.disabled = m] : m \in Toggled(Master.disabled, Accounts \cup Users)}
                    \cup {[Master EXCEPT !.signing = m] : m \in Toggled(Master.signing, Accounts)} :
              log' = Append(log, d)
      BY <2>1, Zenon DEF WriteElsewhere
    <3>2. d \in Directory
      <4>1. CASE d \in (UNION {Effects(op, Master) : op \in Writes})
        BY <4>1, EffectsType, StoresType
      <4>2. CASE d \in {[Master EXCEPT !.disabled = m] : m \in Toggled(Master.disabled, Accounts \cup Users)}
        BY <4>2, StoresType DEF Toggled, Directory
      <4>3. CASE d \in {[Master EXCEPT !.signing = m] : m \in Toggled(Master.signing, Accounts)}
        BY <4>3, StoresType DEF Toggled, Directory
      <4> QED
        BY <3>1, <4>1, <4>2, <4>3
    <3> QED
      BY <3>1, <3>2
  <2> QED
    BY <2>1 DEF Elsewhere, LocalCatchesUp, MahiCatchesUp, Expire
<1>3. local' \in Versions' /\ mahi' \in Versions' /\ local <= local' /\ mahi <= mahi'
  <2>1. CASE WriteElsewhere
    BY <1>2, <2>1, Grows, StoresType DEF WriteElsewhere
  <2>2. CASE LocalCatchesUp \/ MahiCatchesUp
    BY <2>2 DEF LocalCatchesUp, MahiCatchesUp, TypeInv, TypeOK, Versions
  <2>3. CASE \E st \in Stores : Expire(st)
    BY <1>2, <2>3, Grows, StoresType DEF Expire
  <2> QED
    BY <2>1, <2>2, <2>3 DEF Elsewhere
<1>4. arrived' \in [Slots -> [Stores -> Versions']]
  BY <1>1, <1>2, Grows DEF TypeInv, TypeOK
<1>5. /\ oldest' \in [Stores -> Versions'] /\ \A st \in Stores : oldest'[st] <= At(st)'
      /\ \A st \in Stores : oldest[st] <= oldest'[st]
  <2>1. CASE UNCHANGED oldest
    <3>1. oldest' \in [Stores -> Versions'] /\ \A st \in Stores : oldest'[st] <= At(st)'
      BY <1>2, <1>3, <2>1, OldestType
    <3> QED
      BY <2>1, <3>1, StoresType
  <2>2. ASSUME NEW st \in Stores, Expire(st)
        PROVE  /\ oldest' \in [Stores -> Versions'] /\ \A x \in Stores : oldest'[x] <= At(x)'
               /\ \A x \in Stores : oldest[x] <= oldest'[x]
    <3>1. /\ UNCHANGED <<log, local, mahi>> /\ oldest[st] < At(st)
          /\ oldest' = [oldest EXCEPT ![st] = oldest[st] + 1]
      BY <2>2 DEF Expire
    <3>2. Versions' = Versions /\ \A x \in Stores : At(x)' = At(x)
      BY <3>1 DEF Versions, At
    <3>3. oldest \in [Stores -> Versions] /\ \A x \in Stores : oldest[x] <= At(x) /\ At(x) \in Versions
      BY StoresType DEF TypeInv, TypeOK
    <3>4. oldest[st] + 1 \in Versions /\ oldest[st] + 1 <= At(st) /\ \A x \in Stores : oldest[x] \in Nat
      BY <3>1, <3>3 DEF Versions, TypeInv
    <3> HIDE DEF Versions
    <3> QED
      BY <3>1, <3>2, <3>3, <3>4
  <2>3. UNCHANGED oldest \/ \E st \in Stores : Expire(st)
    BY DEF Elsewhere, WriteElsewhere, LocalCatchesUp, MahiCatchesUp
  <2> QED
    BY <2>1, <2>2, <2>3
<1> HIDE DEF Versions
<1>6. TypeInv'
  BY <1>1, <1>2, <1>3, <1>4, <1>5, Grows DEF TypeInv, TypeOK
<1> QED
  BY <1>1, <1>2, <1>3, <1>5, <1>6

LEMMA TypeStep == TypeInv /\ [Next]_vars => TypeInv'
<1> SUFFICES ASSUME TypeInv, [Next]_vars PROVE TypeInv'
  OBVIOUS
<1>1. CASE UNCHANGED vars
  BY <1>1 DEF vars, TypeInv, TypeOK, Versions, At
<1>2. ASSUME NEW s \in Slots, Arrive(s) \/ Handle(s) PROVE TypeInv'
  BY <1>2, ArriveType, ReadType, AuthorizeType, HandlerType DEF Handle
<1>3. CASE Elsewhere
  BY <1>3, ElsewhereType
<1> QED
  BY <1>1, <1>2, <1>3 DEF Next, Elsewhere

\* Requests, their account and roles stay well-formed, and the copies of the directory
\* behind the master, whatever is written and however replication lags.
THEOREM TypeCorrect == Spec => []TypeOK
<1>1. TypeInv => TypeOK
  BY DEF TypeInv
<1> QED
  BY <1>1, InitType, TypeStep, PTL DEF Spec

-----------------------------------------------------------------------------
\* Evidence of a request that has arrived is not lost, whatever the stores do.
LEMMA EvidenceKept ==
    ASSUME TypeInv, log' = log \/ \E d \in Directory : log' = Append(log, d),
           TypeInv', local <= local', mahi <= mahi',
           NEW s \in Slots, arrived'[s] = arrived[s], NEW st \in Stores
    PROVE  During(s, st) \subseteq During(s, st)'
<1>1. /\ Versions \subseteq Versions' /\ \A v \in Versions : log'[v] = log[v]
      /\ Versions \subseteq Nat /\ Versions' \subseteq Nat
  BY Grows, StoresType DEF Versions
<1>2. At(st) <= At(st)' /\ At(st) \in Nat /\ At(st)' \in Nat
  <2>1. local' \in Versions' /\ mahi' \in Versions'
    BY DEF TypeInv, TypeOK
  <2> QED
    BY <1>1, <2>1, AtGrows, StoresType
<1> HIDE DEF Versions
<1>3. ASSUME NEW d \in During(s, st) PROVE d \in During(s, st)'
  <2>1. PICK v \in Versions : d = log[v] /\ arrived[s][st] <= v /\ v <= At(st)
    BY <1>3 DEF During
  <2>2. v \in Versions' /\ d = log'[v] /\ v <= At(st)' /\ arrived'[s][st] <= v
    BY <1>1, <1>2, <2>1
  <2> QED
    BY <2>2 DEF During
<1> QED
  BY <1>3

\* What can be read of a store now can be read of it during each request.
LEMMA EvidenceNow ==
    ASSUME TypeInv, Since, NEW s \in Slots, NEW st \in Stores, NEW d \in Readable(st)
    PROVE  d \in During(s, st)
<1>1. PICK v \in Versions : d = log[v] /\ oldest[st] <= v /\ v <= At(st)
  BY DEF Readable
<1>2. arrived[s][st] <= oldest[st] /\ arrived[s][st] \in Nat /\ oldest[st] \in Nat /\ v \in Nat
  BY StoresType DEF Since, TypeInv, TypeOK
<1> QED
  BY <1>1, <1>2 DEF During

\* A request that takes no step keeps what it knows.
LEMMA SlotKept ==
    ASSUME TypeInv, log' = log \/ \E d \in Directory : log' = Append(log, d),
           TypeInv', local <= local', mahi <= mahi', NEW s \in Slots, SlotInv(s), arrived'[s] = arrived[s],
           pc'[s] = pc[s], req'[s] = req[s], account'[s] = account[s], tags'[s] = tags[s],
           active'[s] = active[s]
    PROVE  SlotInv(s)'
<1>1. /\ During(s, "master") \subseteq During(s, "master")'
      /\ During(s, "local") \subseteq During(s, "local")'
      /\ During(s, "mahi") \subseteq During(s, "mahi")'
  BY EvidenceKept DEF Stores
<1>2. AccountAt(s)'
  BY <1>1 DEF SlotInv, AccountAt
<1>3. AuthenticAt(s)'
  BY <1>1 DEF SlotInv, AuthenticAt
<1>4. RolesAt(s)'
  BY <1>1 DEF SlotInv, RolesAt
<1> QED
  BY <1>2, <1>3, <1>4 DEF SlotInv

\* What a step of one request leaves alone.
Others(s) ==
    \A t \in Slots : t # s =>
        /\ arrived'[t] = arrived[t] /\ pc'[t] = pc[t] /\ req'[t] = req[t]
        /\ account'[t] = account[t] /\ tags'[t] = tags[t] /\ active'[t] = active[t]

LEMMA Combine ==
    ASSUME Inv, TypeInv', log' = log \/ \E d \in Directory : log' = Append(log, d),
           UNCHANGED <<local, mahi, oldest>>, NEW s \in Slots, Others(s), SlotInv(s)',
           \A st \in Stores : arrived'[s][st] <= oldest[st]
    PROVE  Inv'
<1>1. local <= local' /\ mahi <= mahi'
  BY StoresType DEF Inv
<1>2. Since'
  BY DEF Since, Others, Inv
<1>3. \A t \in Slots : SlotInv(t)'
  BY <1>1, SlotKept DEF Inv, Others
<1> QED
  BY <1>2, <1>3 DEF Inv

LEMMA EndInv ==
    ASSUME Inv, TypeInv', NEW s \in Slots, NEW v, End(s, v), UNCHANGED <<local, mahi, oldest>>,
           log' = log \/ \E d \in Directory : log' = Append(log, d)
    PROVE  Inv'
<1>1. Others(s) /\ \A st \in Stores : arrived'[s][st] <= oldest[st]
  <2>1. arrived'[s] = [st \in Stores |-> 1] /\ \A st \in Stores : oldest[st] \in Versions
    BY DEF End, Inv, TypeInv, TypeOK
  <2>2. \A w \in Versions : 1 <= w
    BY DEF Inv, TypeInv, Versions
  <2> QED
    BY <2>1, <2>2 DEF Others, End, Inv, TypeInv, TypeOK
<1>2. pc'[s] = "idle" /\ account'[s] = {} /\ tags'[s] = {} /\ active'[s] = {}
  BY DEF End, Inv, TypeInv, TypeOK
<1>3. SlotInv(s)'
  BY <1>2 DEF SlotInv, AccountAt, AuthenticAt, RolesAt, Authentic
<1> QED
  BY <1>1, <1>3, Combine

LEMMA RefuseInv ==
    ASSUME Inv, TypeInv', NEW s \in Slots, Refuse(s)
    PROVE  Inv'
  BY EndInv DEF Refuse, copies

LEMMA InitInv == Init => Inv
<1> SUFFICES ASSUME Init PROVE Inv
  OBVIOUS
<1>1. TypeInv
  BY InitType
<1>2. Since
  <2>1. \A s \in Slots : \A st \in Stores : arrived[s][st] = 1 /\ oldest[st] = 1
    BY DEF Init
  <2> QED
    BY <2>1 DEF Since
<1>3. \A s \in Slots : SlotInv(s)
  BY DEF Init, SlotInv, AccountAt, AuthenticAt, RolesAt, Authentic
<1> QED
  BY <1>1, <1>2, <1>3 DEF Inv

\* A request goes on to its next step; the stores are as they were.
LEMMA GoInv ==
    ASSUME Inv, TypeInv', NEW s \in Slots, NEW step, Goto(s, step),
           \A t \in Slots : t # s =>
               account'[t] = account[t] /\ tags'[t] = tags[t] /\ active'[t] = active[t],
           SlotInv(s)'
    PROVE  Inv'
<1>1. Others(s) /\ \A st \in Stores : arrived'[s][st] <= oldest[st]
  BY DEF Others, Goto, Inv, TypeInv, TypeOK, Since
<1> QED
  BY <1>1, Combine DEF Goto, copies

LEMMA SameStores ==
    ASSUME NEW s, NEW step, Goto(s, step)
    PROVE  /\ During(s, "master")' = During(s, "master")
           /\ During(s, "local")' = During(s, "local")
           /\ During(s, "mahi")' = During(s, "mahi")
  BY DEF Goto, copies, During, Versions, At

LEMMA ArriveInv ==
    ASSUME Inv, TypeInv', NEW s \in Slots, Arrive(s)
    PROVE  Inv'
<1>1. CASE Refuse(s)
  BY <1>1, RefuseInv
<1>2. CASE ~Refuse(s)
  <2>1. PICK r \in Requests :
            /\ req' = [req EXCEPT ![s] = r]
            /\ pc' = [pc EXCEPT ![s] = IF r.scheme = "basic" THEN "authenticate" ELSE "getAccount"]
            /\ arrived' = [arrived EXCEPT ![s] = oldest]
            /\ UNCHANGED <<copies, account, tags, active, info>>
    BY <1>2 DEF Arrive
  <2>2. /\ Others(s) /\ pc'[s] \in {"authenticate", "getAccount"}
        /\ \A st \in Stores : arrived'[s][st] <= oldest[st]
    <3>1. arrived'[s] = oldest /\ \A st \in Stores : oldest[st] \in Nat
      BY <2>1, StoresType DEF Inv, TypeInv, TypeOK
    <3> QED
      BY <2>1, <3>1 DEF Others, Inv, TypeInv, TypeOK
  <2>3. tags'[s] = {} /\ active'[s] = {}
    BY <1>2, <2>1 DEF Arrive, Inv, SlotInv, RolesAt
  <2>4. SlotInv(s)'
    BY <2>2, <2>3 DEF SlotInv, AccountAt, AuthenticAt, RolesAt, Authentic
  <2> QED
    BY <2>1, <2>2, <2>4, Combine DEF copies
<1> QED
  BY <1>1, <1>2

\* What was loaded of an account, and that it was not disabled is evidence.
LEMMA LoadFacts ==
    ASSUME Inv, NEW s \in Slots, NEW login, NEW d \in Readable("local"), Load(s, login, d)
    PROVE  /\ account'[s] # {}
           /\ \A a \in account'[s] :
                /\ a.login = login
                /\ a.disabled \/ \E e \in During(s, "local") : login \notin e.disabled
           /\ \A t \in Slots : t # s => account'[t] = account[t]
<1>1. /\ account'[s] = {[login |-> login, disabled |-> login \in d.disabled]}
      /\ \A t \in Slots : t # s => account'[t] = account[t]
  BY DEF Load, Inv, TypeInv
<1>2. d \in During(s, "local")
  BY EvidenceNow DEF Inv, Stores
<1>3. account'[s] # {} /\ \A a \in account'[s] : a.login = login
  BY <1>1
<1>4. ASSUME NEW a \in account'[s], ~a.disabled
      PROVE  \E e \in During(s, "local") : login \notin e.disabled
  <2>1. a = [login |-> login, disabled |-> login \in d.disabled]
    BY <1>1
  <2>2. login \notin d.disabled
    BY <1>4, <2>1
  <2> QED
    BY <1>2, <2>2
<1> QED
  BY <1>1, <1>3, <1>4

LEMMA GetAccountInv ==
    ASSUME Inv, TypeInv', NEW s \in Slots, GetAccount(s)
    PROVE  Inv'
<1>1. PICK step \in {"getSubUser", "getKey"} :
          Goto(s, step) /\ (req[s].by \in Users => step = "getSubUser")
  <2>1. CASE req[s].by \in Users
    BY <2>1 DEF GetAccount, IsSubUser
  <2>2. CASE req[s].by \notin Users
    BY <2>2 DEF GetAccount, IsSubUser
  <2> QED
    BY <2>1, <2>2
<1>2. PICK d \in Readable("local") :
          /\ Load(s, Home(req[s].by), d) /\ UNCHANGED <<tags, active, info>> /\ req' = req
          /\ pc'[s] = step /\ pc[s] = "getAccount"
  BY <1>1 DEF GetAccount, Goto, Inv, TypeInv, TypeOK
<1>3. /\ account'[s] # {}
      /\ \A a \in account'[s] :
            /\ a.login = Home(req[s].by)
            /\ a.disabled \/ \E e \in During(s, "local") : Home(req[s].by) \notin e.disabled
      /\ \A t \in Slots : t # s => account'[t] = account[t]
  BY <1>2, LoadFacts
<1>4. AccountAt(s)'
  BY <1>1, <1>2, <1>3, SameStores DEF AccountAt, Authentic
<1>5. AuthenticAt(s)'
  BY <1>1, <1>2, SameStores DEF AuthenticAt, Authentic
<1>6. RolesAt(s)'
  BY <1>1, <1>2, SameStores DEF RolesAt, Inv, SlotInv
<1> QED
  BY <1>1, <1>2, <1>3, <1>4, <1>5, <1>6, GoInv DEF SlotInv

LEMMA GetSubUserInv ==
    ASSUME Inv, TypeInv', NEW s \in Slots, GetSubUser(s)
    PROVE  Inv'
<1>1. CASE Refuse(s)
  BY <1>1, RefuseInv
<1>2. CASE ~Refuse(s)
  <2>1. PICK d \in Readable("local") :
            /\ pc[s] = "getSubUser" /\ req[s].by \in d.users /\ Goto(s, "getKey")
            /\ account' = [account EXCEPT ![s] =
                             {[a EXCEPT !.disabled = @ \/ req[s].by \in d.disabled] : a \in account[s]}]
            /\ UNCHANGED <<tags, active, info>>
    BY <1>2 DEF GetSubUser
  <2>2. /\ pc'[s] = "getKey" /\ req' = req
        /\ \A t \in Slots : t # s => account'[t] = account[t]
    BY <2>1 DEF Goto, Inv, TypeInv, TypeOK
  <2>3. d \in During(s, "local")
    BY EvidenceNow DEF Inv, Stores
  <2>4. account[s] # {} /\ \A a \in account[s] :
            /\ a \in Loaded /\ a.login = Home(req[s].by)
            /\ a.disabled \/ \E e \in During(s, "local") : Home(req[s].by) \notin e.disabled
    BY <2>1 DEF Inv, SlotInv, AccountAt, TypeInv, Optional
  <2>5. account'[s] = {[a EXCEPT !.disabled = @ \/ req[s].by \in d.disabled] : a \in account[s]}
    BY <2>1 DEF Inv, TypeInv
  <2>6. account'[s] # {}
    BY <2>4, <2>5
  <2>7. ASSUME NEW b \in account'[s]
        PROVE  /\ b.login = Home(req[s].by)
               /\ b.disabled \/ \E e \in During(s, "local") : Home(req[s].by) \notin e.disabled
               /\ b.disabled \/ req[s].by \notin d.disabled
    <3>1. PICK a \in account[s] : b = [a EXCEPT !.disabled = @ \/ req[s].by \in d.disabled]
      BY <2>5
    <3>2. b.login = a.login /\ b.disabled = (a.disabled \/ req[s].by \in d.disabled)
      BY <2>4, <3>1 DEF Loaded
    <3> QED
      BY <2>4, <3>2, Zenon
  <2>8. AccountAt(s)'
    BY <2>2, <2>3, <2>6, <2>7, <2>1, SameStores DEF AccountAt, Authentic
  <2>9. AuthenticAt(s)' /\ RolesAt(s)'
    BY <2>1, <2>2, <2>3, SameStores DEF AuthenticAt, RolesAt, Authentic, Inv, SlotInv
  <2> QED
    BY <2>1, <2>2, <2>8, <2>9, GoInv DEF SlotInv
<1> QED
  BY <1>1, <1>2

\* assertAuthenticated() lets a request on.
LEMMA AuthenticatedInv ==
    ASSUME Inv, TypeInv', NEW s \in Slots, pc[s] \in {"getKey", "getMetadata"},
           Authenticated(s, account[s]),
           pc[s] = "getKey" => \E d \in Readable("local") : req[s].by \in d.keys
    PROVE  Inv'
<1>1. CASE Refuse(s)
  BY <1>1, RefuseInv
<1>2. CASE ~Refuse(s)
  <2>1. PICK step \in {"loadResource", "loadAccount"} :
            /\ Goto(s, step)
            /\ account' = [account EXCEPT ![s] = account[s]]
            /\ \A a \in account[s] : ~a.disabled
            /\ UNCHANGED <<tags, active, info>>
    BY <1>2 DEF Authenticated
  <2>2. pc'[s] = step /\ req' = req /\ account' = account
    BY <2>1 DEF Goto, Inv, TypeInv, TypeOK
  <2>3. /\ account[s] # {}
        /\ \A a \in account[s] : a.login = Home(req[s].by)
        /\ \E d \in During(s, "local") : Home(req[s].by) \notin d.disabled
        /\ pc[s] = "getKey" /\ req[s].by \in Users =>
            \E d \in During(s, "local") : req[s].by \notin d.disabled
    BY <2>1 DEF Inv, SlotInv, AccountAt
  <2>4. req[s].scheme = "signature" =>
            /\ \E d \in During(s, "local") : req[s].by \in d.keys
            /\ \A p \in {req[s].by, Home(req[s].by)} :
                \E d \in During(s, "local") : p \notin d.disabled
            /\ req[s].by \in Users => \E d \in During(s, "local") : req[s].by \in d.users
    <3>1. ASSUME req[s].scheme = "signature" PROVE pc[s] = "getKey"
      BY <3>1 DEF Inv, TypeInv, Fits
    <3>2. \A d \in Readable("local") : d \in During(s, "local")
      BY EvidenceNow DEF Inv, Stores
    <3>3. req[s].by \notin Users => Home(req[s].by) = req[s].by
      BY DEF Home
    <3> QED
      BY <2>3, <3>1, <3>2, <3>3 DEF Inv, SlotInv, AuthenticAt
  <2>5. AccountAt(s)'
    BY <2>1, <2>2, <2>3, SameStores DEF AccountAt, Authentic
  <2>6. AuthenticAt(s)'
    BY <2>1, <2>2, <2>3, <2>4, SameStores DEF AuthenticAt, Authentic
  <2>7. RolesAt(s)'
    BY <2>1, <2>2, SameStores DEF RolesAt, Inv, SlotInv
  <2> QED
    BY <2>1, <2>2, <2>5, <2>6, <2>7, GoInv DEF SlotInv
<1> QED
  BY <1>1, <1>2

LEMMA AuthenticateInv ==
    ASSUME Inv, TypeInv', NEW s \in Slots, Authenticate(s)
    PROVE  Inv'
<1>1. PICK d \in Readable("local") :
          /\ pc[s] = "authenticate" /\ Load(s, req[s].by, d) /\ Goto(s, "getMetadata")
          /\ UNCHANGED <<tags, active, info>>
  BY DEF Authenticate
<1>2. pc'[s] = "getMetadata" /\ req' = req
  BY <1>1 DEF Goto, Inv, TypeInv, TypeOK
<1>3. Home(req[s].by) = req[s].by
  <2>1. req[s] \in Requests /\ req[s].scheme = "basic"
    BY <1>1 DEF Inv, TypeInv, Fits
  <2> QED
    BY <2>1, RequestFacts DEF Home
<1>4. /\ account'[s] # {}
      /\ \A a \in account'[s] :
            /\ a.login = Home(req[s].by)
            /\ a.disabled \/ \E e \in During(s, "local") : Home(req[s].by) \notin e.disabled
      /\ \A t \in Slots : t # s => account'[t] = account[t]
  BY <1>1, <1>3, LoadFacts
<1>5. AccountAt(s)'
  BY <1>1, <1>2, <1>4, SameStores DEF AccountAt, Authentic
<1>6. AuthenticAt(s)'
  BY <1>2 DEF AuthenticAt, Authentic
<1>7. RolesAt(s)'
  BY <1>1, <1>2, SameStores DEF RolesAt, Inv, SlotInv
<1> QED
  BY <1>1, <1>4, <1>5, <1>6, <1>7, GoInv DEF SlotInv

LEMMA LoadAccountInv ==
    ASSUME Inv, TypeInv', NEW s \in Slots, LoadAccount(s)
    PROVE  Inv'
<1>1. PICK d \in Readable("local") :
          /\ pc[s] = "loadAccount" /\ Load(s, req[s].path, d) /\ Goto(s, "loadResource")
          /\ UNCHANGED <<tags, active, info>>
  BY DEF LoadAccount
<1>2. pc'[s] = "loadResource" /\ req' = req /\ req[s].by \notin Users
  BY <1>1 DEF Goto, Inv, TypeInv, TypeOK, Fits
<1>3. \A t \in Slots : t # s => account'[t] = account[t]
  BY <1>1, LoadFacts
<1>4. AccountAt(s)'
  BY <1>2 DEF AccountAt, Authentic
<1>5. AuthenticAt(s)'
  BY <1>1, <1>2, SameStores DEF AuthenticAt, Authentic, Inv, SlotInv
<1>6. RolesAt(s)'
  BY <1>1, <1>2, SameStores DEF RolesAt, Inv, SlotInv
<1> QED
  BY <1>1, <1>3, <1>4, <1>5, <1>6, GoInv DEF SlotInv

LEMMA LoadResourceInv ==
    ASSUME Inv, TypeInv', NEW s \in Slots, LoadResource(s)
    PROVE  Inv'
<1>1. PICK step \in {"handler", "getRoles"} :
          /\ pc[s] = "loadResource" /\ Goto(s, step) /\ UNCHANGED <<account, active, info>>
          /\ step = "handler" => Unchecked(s)
          /\ step = "getRoles" => req[s].by \in Users
  BY DEF LoadResource, IsSubUser
<1>2. /\ pc'[s] = step /\ req' = req /\ req[s] \in Requests
      /\ tags'[s] \in (IF AccountMgmt(s) THEN TagsOfResource ELSE {{}})
      /\ \A t \in Slots : t # s => tags'[t] = tags[t]
  BY <1>1 DEF LoadResource, Goto, Inv, TypeInv, TypeOK, Fits
<1>3. req[s].by \in Users => account[s] # {} /\ \A a \in account[s] : a.login = Home(req[s].by)
  BY <1>1 DEF Inv, SlotInv, AccountAt, Authentic
<1>4. ASSUME Unchecked(s)
      PROVE  /\ req[s].by \notin Users
             /\ req[s].by \in Admins \/ \E a \in account[s] : a.login = req[s].by
  BY <1>3, <1>4, AccessAssumption DEF Unchecked, Home
<1>5. AccountAt(s)'
  BY <1>1, <1>2, <1>3, <1>4 DEF AccountAt, Authentic
<1>6. AuthenticAt(s)'
  BY <1>1, <1>2, SameStores DEF AuthenticAt, Authentic, Inv, SlotInv
<1>7. RolesAt(s)'
  <2>1. \A d \in Readable("master") : d \in During(s, "master")
    BY EvidenceNow DEF Inv, Stores
  <2>2. \A r \in tags'[s] : \E d \in During(s, "master") : r \in d.tags
    BY <1>2, <2>1 DEF TagsOfResource
  <2>3. \A r \in active[s] : \E d \in During(s, "local") :
            <<req[s].by, r>> \in IF req[s].asRole = {} THEN d.defaults ELSE d.members
    BY DEF Inv, SlotInv, RolesAt
  <2>4. step = "handler" => req[s].by \notin Users
    BY <1>1, <1>4
  <2> QED
    BY <1>1, <1>2, <2>2, <2>3, <2>4, SameStores DEF RolesAt
<1> QED
  BY <1>1, <1>2, <1>5, <1>6, <1>7, GoInv DEF SlotInv

\* Between the calls of authorize(), what is known of the account stays.
LEMMA AuthorizeAccount ==
    ASSUME Inv, NEW s \in Slots, pc[s] \in {"getRoles", "mahi.getUser", "mahi.getAccount"},
           NEW step \in {"mahi.getUser", "mahi.getAccount", "handler"}, Goto(s, step),
           UNCHANGED account
    PROVE  /\ AccountAt(s)' /\ AuthenticAt(s)'
           /\ pc'[s] = step /\ req' = req /\ req[s].by \in Users /\ req[s] \in Requests
<1>1. pc'[s] = step /\ req' = req /\ req[s].by \in Users /\ req[s] \in Requests
  BY DEF Goto, Inv, TypeInv, TypeOK, Fits, SlotInv, AccountAt
<1>2. AccountAt(s)'
  BY <1>1 DEF AccountAt, Authentic, Inv, SlotInv
<1>3. AuthenticAt(s)'
  BY <1>1, SameStores DEF AuthenticAt, Authentic, Inv, SlotInv
<1> QED
  BY <1>1, <1>2, <1>3

LEMMA GetRolesInv ==
    ASSUME Inv, TypeInv', NEW s \in Slots, GetRoles(s)
    PROVE  Inv'
<1>1. CASE Refuse(s)
  BY <1>1, RefuseInv
<1>2. CASE ~Refuse(s)
  <2>1. PICK d \in Readable("local") :
            /\ pc[s] = "getRoles" /\ Goto(s, "mahi.getUser") /\ UNCHANGED <<account, tags, info>>
            /\ \A list \in req[s].asRole : list \subseteq RolesIn(d.members, req[s].by)
            /\ active' = [active EXCEPT ![s] =
                   IF req[s].asRole = {} THEN RolesIn(d.defaults, req[s].by)
                   ELSE UNION req[s].asRole]
    BY <1>2 DEF GetRoles
  <2>2. /\ AccountAt(s)' /\ AuthenticAt(s)'
        /\ pc'[s] = "mahi.getUser" /\ req' = req
    BY <2>1, AuthorizeAccount
  <2>3. /\ active'[s] = (IF req[s].asRole = {} THEN RolesIn(d.defaults, req[s].by)
                         ELSE UNION req[s].asRole)
        /\ \A t \in Slots : t # s => active'[t] = active[t]
    BY <2>1 DEF Inv, TypeInv, TypeOK
  <2>4. \A r \in active'[s] :
            <<req[s].by, r>> \in IF req[s].asRole = {} THEN d.defaults ELSE d.members
    <3>1. CASE req[s].asRole = {}
      BY <2>3, <3>1 DEF RolesIn
    <3>2. CASE req[s].asRole # {}
      <4>1. UNION req[s].asRole \subseteq RolesIn(d.members, req[s].by)
        BY <2>1
      <4> QED
        BY <2>3, <3>2, <4>1 DEF RolesIn
    <3> QED
      BY <3>1, <3>2
  <2>5. d \in During(s, "local")
    BY EvidenceNow DEF Inv, Stores
  <2>6. \A r \in tags[s] : \E e \in During(s, "master") : r \in e.tags
    BY DEF Inv, SlotInv, RolesAt
  <2>7. RolesAt(s)'
    BY <2>1, <2>2, <2>4, <2>5, <2>6, SameStores DEF RolesAt
  <2> QED
    BY <2>1, <2>2, <2>3, <2>7, GoInv DEF SlotInv
<1> QED
  BY <1>1, <1>2

LEMMA MahiGetUserInv ==
    ASSUME Inv, TypeInv', NEW s \in Slots, MahiGetUser(s)
    PROVE  Inv'
<1>1. CASE Refuse(s)
  BY <1>1, RefuseInv
<1>2. CASE ~Refuse(s)
  <2>1. PICK d \in Readable("mahi") :
            /\ pc[s] = "mahi.getUser" /\ Goto(s, "mahi.getAccount")
            /\ UNCHANGED <<account, tags, active>>
            /\ req[s].by \in d.users
    BY <1>2 DEF MahiGetUser
  <2>2. /\ AccountAt(s)' /\ AuthenticAt(s)'
        /\ pc'[s] = "mahi.getAccount" /\ req' = req
    BY <2>1, AuthorizeAccount
  <2>3. d \in During(s, "mahi")
    BY EvidenceNow DEF Inv, Stores
  <2>4. RolesAt(s)'
    BY <2>1, <2>2, <2>3, SameStores DEF RolesAt, Inv, SlotInv
  <2> QED
    BY <2>1, <2>2, <2>4, GoInv DEF SlotInv
<1> QED
  BY <1>1, <1>2

LEMMA MahiGetAccountInv ==
    ASSUME Inv, TypeInv', NEW s \in Slots, MahiGetAccount(s)
    PROVE  Inv'
<1>1. CASE Refuse(s)
  BY <1>1, RefuseInv
<1>2. CASE ~Refuse(s)
  <2>1. PICK d \in Readable("mahi") :
            /\ pc[s] = "mahi.getAccount" /\ Goto(s, "handler")
            /\ UNCHANGED <<account, tags, active, info>>
            /\ Permitted(s, d.rules)
    BY <1>2 DEF MahiGetAccount
  <2>2. /\ AccountAt(s)' /\ AuthenticAt(s)'
        /\ pc'[s] = "handler" /\ req' = req
    BY <2>1, AuthorizeAccount
  <2>3. d \in During(s, "mahi")
    BY EvidenceNow DEF Inv, Stores
  <2>4. \E r \in active[s] \cap tags[s] : <<r, req[s].op>> \in d.rules
    BY <2>1 DEF Permitted
  <2>5. RolesAt(s)'
    BY <2>1, <2>2, <2>3, <2>4, SameStores DEF RolesAt, Inv, SlotInv
  <2> QED
    BY <2>1, <2>2, <2>5, GoInv DEF SlotInv
<1> QED
  BY <1>1, <1>2

LEMMA HandlerInv ==
    ASSUME Inv, TypeInv', NEW s \in Slots, Handler(s) \/ Fail(s)
    PROVE  Inv'
<1>1. PICK v \in Verdicts : End(s, v)
  BY DEF Handler, Fail, Verdicts
<1>2. log' = log \/ \E d \in Directory : log' = Append(log, d)
  BY EffectsType, StoresType DEF Handler, Fail, copies, Inv
<1> QED
  BY <1>1, <1>2, EndInv DEF Handler, Fail, copies

LEMMA InvStep == Inv /\ [Next]_vars => Inv'
<1> SUFFICES ASSUME Inv, [Next]_vars PROVE Inv'
  OBVIOUS
<1>0. TypeInv'
  BY TypeStep DEF Inv
<1>1. ASSUME log' = log \/ \E d \in Directory : log' = Append(log, d),
             local <= local', mahi <= mahi', \A st \in Stores : oldest[st] <= oldest'[st],
             UNCHANGED <<pc, req, account, tags, active, info, arrived>>
      PROVE  Inv'
  <2>1. \A s \in Slots : SlotInv(s)'
    BY <1>0, <1>1, SlotKept DEF Inv
  <2>2. Since'
    <3>1. ASSUME NEW s \in Slots, NEW st \in Stores PROVE arrived'[s][st] <= oldest'[st]
      <4>1. /\ arrived[s][st] <= oldest[st] /\ oldest[st] <= oldest'[st] /\ arrived' = arrived
            /\ arrived[s][st] \in Nat /\ oldest[st] \in Nat
        BY <1>1, StoresType DEF Inv, Since, TypeInv, TypeOK
      <4>2. oldest'[st] \in Nat
        BY <1>0, StoresType DEF TypeInv, TypeOK, Versions
      <4> QED
        BY <4>1, <4>2
    <3> QED
      BY <3>1 DEF Since
  <2> QED
    BY <1>0, <2>1, <2>2 DEF Inv
<1>2. CASE UNCHANGED vars
  BY <1>1, <1>2, StoresType DEF vars, Inv
<1>3. CASE Elsewhere
  BY <1>1, <1>3, ElsewhereType DEF Inv
<1>4. ASSUME NEW s \in Slots, Arrive(s) \/ Handle(s) PROVE Inv'
  <2>1. CASE GetKey(s) \/ GetMetadata(s)
    BY <1>0, <2>1, RefuseInv, AuthenticatedInv DEF GetKey, GetMetadata
  <2>2. CASE Forbid(s)
    BY <1>0, <2>2, RefuseInv DEF Forbid
  <2> QED
    BY <1>0, <1>4, <2>1, <2>2, ArriveInv, GetAccountInv, GetSubUserInv, AuthenticateInv,
       LoadAccountInv, LoadResourceInv, GetRolesInv, MahiGetUserInv, MahiGetAccountInv, HandlerInv
    DEF Handle
<1> QED
  BY <1>2, <1>3, <1>4 DEF Next, Elsewhere

\* Whatever account a path names, a handler runs with the account that the credentials
\* of the request belong to, unless they are an operator's.
THEOREM OwnAccount == Spec => []OwnAccountOnly
<1>1. Inv => OwnAccountOnly
  <2> SUFFICES ASSUME Inv, NEW s \in Slots, pc[s] = "handler", req[s].by \notin Admins
               PROVE  account[s] # {} /\ \A a \in account[s] : a.login = Home(req[s].by)
    BY DEF OwnAccountOnly
  <2>1. AccountAt(s) /\ pc[s] \in Authentic
    BY DEF Inv, SlotInv, Authentic
  <2>2. CASE req[s].by \in Users
    BY <2>1, <2>2 DEF AccountAt
  <2>3. CASE req[s].by \notin Users
    <3>1. \E a \in account[s] : a.login = req[s].by
      BY <2>1, <2>3 DEF AccountAt
    <3>2. \A a, b \in account[s] : a = b
      BY DEF Inv, TypeInv, Optional
    <3> QED
      BY <2>3, <3>1, <3>2 DEF Home
  <2> QED
    BY <2>2, <2>3
<1> QED
  BY <1>1, InitInv, InvStep, PTL DEF Spec

\* However far the stores are apart, each thing that lets a signed request through held in
\* its store after the request arrived, or was still in a cache of its client then.
THEOREM Evidence == Spec => []AcceptedOnEvidence
<1>1. Inv => AcceptedOnEvidence
  <2> SUFFICES ASSUME Inv, NEW s \in Slots, pc[s] = "handler", req[s].scheme = "signature"
               PROVE
        /\ \E d \in During(s, "local") : req[s].by \in d.keys
        /\ \A p \in {req[s].by, Home(req[s].by)} :
            \E d \in During(s, "local") : p \notin d.disabled
        /\ req[s].by \in Users =>
            /\ \E d \in During(s, "local") : req[s].by \in d.users
            /\ \E d \in During(s, "mahi") : req[s].by \in d.users
            /\ \E r \in Roles :
                /\ \E d \in During(s, "master") : r \in d.tags
                /\ \E d \in During(s, "mahi") : <<r, req[s].op>> \in d.rules
                /\ \E d \in During(s, "local") :
                    <<req[s].by, r>> \in IF req[s].asRole = {} THEN d.defaults ELSE d.members
    BY DEF AcceptedOnEvidence, IsSubUser
  <2>1. AuthenticAt(s) /\ RolesAt(s) /\ pc[s] \in Authentic /\ tags[s] \subseteq Roles
    BY DEF Inv, SlotInv, Authentic, TypeInv, TypeOK
  <2>2. req[s].by \in Users =>
            \E r \in Roles :
                /\ \E d \in During(s, "master") : r \in d.tags
                /\ \E d \in During(s, "mahi") : <<r, req[s].op>> \in d.rules
                /\ \E d \in During(s, "local") :
                    <<req[s].by, r>> \in IF req[s].asRole = {} THEN d.defaults ELSE d.members
    BY <2>1 DEF RolesAt
  <2> QED
    BY <2>1, <2>2 DEF AuthenticAt, RolesAt
<1> QED
  BY <1>1, InitInv, InvStep, PTL DEF Spec

-----------------------------------------------------------------------------
(* Decisions. While the directory stays as it was when a request arrived,  *)
(* and copies and caches were up to date then, each step reads the same    *)
(* version, and what the request knows is what this version says.          *)

\* Whatever is read is the version d.
OnlyReads(d) == \A st \in Stores : \A e \in Readable(st) : e = d

\* What holds of a request at each step whatever the stores do.
ShapeAt(s) == pc[s] # "idle" =>
    /\ verdict[s] = "none"
    /\ req[s].by \in Users => req[s].current
    /\ pc[s] = "getSubUser" => req[s].by \in Users
    /\ pc[s] = "loadAccount" => req[s].path # req[s].by
    /\ pc[s] \in {"getRoles", "mahi.getUser", "mahi.getAccount"} => HasMahi
    /\ pc[s] = "loadResource" =>
        /\ account[s] # {}
        /\ \A a \in account[s] :
            a.login = IF req[s].by \in Users \/ req[s].path \in {"my", req[s].by}
                      THEN Home(req[s].by) ELSE req[s].path

\* The credentials are good.
Good(r, d) ==
    /\ r.by \in d.keys /\ r.by \notin d.disabled /\ Home(r.by) \notin d.disabled
    /\ r.by \in Users => r.by \in d.users

Held(r, d) == \A list \in r.asRole : list \subseteq RolesIn(d.members, r.by)

Taken(r, d) == IF r.asRole = {} THEN RolesIn(d.defaults, r.by) ELSE UNION r.asRole

\* What a signed request knows at each step, of the version d.
KnownAt(s, d) ==
    /\ pc[s] = "getSubUser" =>
        \A a \in account[s] : a.disabled <=> Home(req[s].by) \in d.disabled
    /\ pc[s] = "getKey" =>
        \A a \in account[s] :
            a.disabled <=> req[s].by \in d.disabled \/ Home(req[s].by) \in d.disabled
    /\ pc[s] = "getKey" /\ req[s].by \in Users => req[s].by \in d.users
    /\ pc[s] \in Authentic => Good(req[s], d)
    /\ pc[s] \in {"getRoles", "mahi.getUser", "mahi.getAccount"} => tags[s] = d.tags
    /\ pc[s] \in {"mahi.getUser", "mahi.getAccount"} =>
        Held(req[s], d) /\ active[s] = Taken(req[s], d)
    /\ pc[s] = "mahi.getAccount" => info[s] = RolesIn(d.members \cup d.defaults, req[s].by)

QuietAt(s) ==
    /\ ShapeAt(s)
    /\ pc[s] # "idle" /\ req[s].scheme = "signature" /\ UpToDate(s) => KnownAt(s, Master)

QuietInv == \A s \in Slots : QuietAt(s)

LEMMA QuietStores ==
    ASSUME Inv, NEW s \in Slots, UpToDate(s)
    PROVE  OnlyReads(Master)
<1> SUFFICES ASSUME NEW st \in Stores, NEW e \in Readable(st) PROVE e = Master
  BY DEF OnlyReads
<1>1. PICK v \in Versions : e = log[v] /\ oldest[st] <= v
  BY DEF Readable
<1>2. arrived[s][st] <= oldest[st] /\ arrived[s][st] = Len(log) /\ oldest[st] \in Nat
  BY StoresType DEF Inv, Since, UpToDate, TypeInv, TypeOK
<1>3. v = Len(log)
  BY <1>1, <1>2 DEF Versions, Inv, TypeInv
<1> QED
  BY <1>1, <1>3 DEF Master

\* A write ends the quiet; nothing else that happens elsewhere matters.
LEMMA QuietKept ==
    ASSUME Inv, NEW s \in Slots, QuietAt(s),
           log' = log \/ \E d \in Directory : log' = Append(log, d),
           pc'[s] = pc[s], req'[s] = req[s], account'[s] = account[s], tags'[s] = tags[s],
           active'[s] = active[s], info'[s] = info[s], arrived'[s] = arrived[s],
           verdict'[s] = verdict[s]
    PROVE  QuietAt(s)'
<1>1. ShapeAt(s)'
  BY DEF QuietAt, ShapeAt, Home
<1>2. CASE log' = log
  <2>1. UpToDate(s)' => UpToDate(s)
    BY <1>2 DEF UpToDate
  <2>2. KnownAt(s, Master) => KnownAt(s, Master)'
    BY <1>2 DEF KnownAt, Master, Good, Held, Taken, RolesIn, Home
  <2> QED
    BY <1>1, <2>1, <2>2 DEF QuietAt
<1>3. CASE \E d \in Directory : log' = Append(log, d)
  <2>1. Len(log') = Len(log) + 1 /\ Len(log) \in Nat
    BY <1>3 DEF Inv, TypeInv
  <2>2. "master" \in Stores /\ arrived[s]["master"] \in Versions
    BY DEF Inv, TypeInv, TypeOK, Stores
  <2>3. ~UpToDate(s)'
    BY <2>1, <2>2 DEF UpToDate, Versions
  <2> QED
    BY <1>1, <2>3 DEF QuietAt
<1> QED
  BY <1>2, <1>3

\* A request that ended knows nothing.
LEMMA QuietEnd ==
    ASSUME Inv, NEW s \in Slots, NEW v, End(s, v)
    PROVE  QuietAt(s)'
<1>1. pc'[s] = "idle"
  BY DEF End, Inv, TypeInv, TypeOK
<1> QED
  BY <1>1 DEF QuietAt, ShapeAt

\* A step of the request itself: what it has to show.
LEMMA QuietGo ==
    ASSUME Inv, NEW s \in Slots, QuietAt(s), pc[s] # "idle",
           NEW step, Goto(s, step),
           ShapeAt(s)',
           req[s].scheme = "signature" /\ KnownAt(s, Master) /\ OnlyReads(Master)
               => KnownAt(s, Master)'
    PROVE  QuietAt(s)'
<1>1. log' = log /\ req' = req /\ arrived' = arrived
  BY DEF Goto, copies
<1>2. UpToDate(s)' => UpToDate(s)
  BY <1>1 DEF UpToDate
<1> QED
  BY <1>1, <1>2, QuietStores DEF QuietAt

LEMMA GoesTo ==
    ASSUME Inv, NEW s \in Slots, NEW step, Goto(s, step)
    PROVE  /\ pc'[s] = step /\ req' = req /\ verdict' = verdict /\ arrived' = arrived
           /\ Master' = Master
  BY DEF Goto, copies, Inv, TypeInv, TypeOK, Master

LEMMA LoadsAccount ==
    ASSUME Inv, NEW s \in Slots, NEW login, NEW d, Load(s, login, d)
    PROVE  account'[s] = {[login |-> login, disabled |-> login \in d.disabled]}
  BY DEF Load, Inv, TypeInv

LEMMA QuietGetAccount ==
    ASSUME Inv, NEW s \in Slots, QuietAt(s), GetAccount(s)
    PROVE  QuietAt(s)'
<1>1. PICK d \in Readable("local") :
          /\ pc[s] = "getAccount" /\ req[s] \in Requests
          /\ account'[s] = {[login |-> Home(req[s].by), disabled |-> Home(req[s].by) \in d.disabled]}
  BY LoadsAccount DEF GetAccount, Inv, TypeInv, Fits
<1>2. PICK step \in {"getSubUser", "getKey"} :
          Goto(s, step) /\ step = IF req[s].by \in Users THEN "getSubUser" ELSE "getKey"
  BY DEF GetAccount, IsSubUser
<1>3. pc'[s] = step /\ req' = req /\ verdict' = verdict /\ Master' = Master
  BY <1>2, GoesTo
<1>4. ShapeAt(s)'
  BY <1>1, <1>2, <1>3 DEF QuietAt, ShapeAt
<1>5. \A a \in account'[s] : a.disabled <=> Home(req[s].by) \in d.disabled
  <2> SUFFICES ASSUME NEW a \in account'[s]
               PROVE  a.disabled <=> Home(req[s].by) \in d.disabled
    OBVIOUS
  <2>1. a = [login |-> Home(req[s].by), disabled |-> Home(req[s].by) \in d.disabled]
    BY <1>1
  <2> QED
    BY <2>1, Zenon
<1>6. OnlyReads(Master) => KnownAt(s, Master)'
  <2> SUFFICES ASSUME OnlyReads(Master) PROVE KnownAt(s, Master)'
    OBVIOUS
  <2>1. d = Master
    BY <1>1 DEF OnlyReads, Stores
  <2>2. \A a \in account'[s] : a.disabled <=> Home(req'[s].by) \in Master'.disabled
    BY <1>3, <1>5, <2>1, Zenon
  <2>3. step = "getKey" => Home(req[s].by) = req[s].by
    BY <1>2 DEF Home
  <2>4. step = "getKey" =>
            \A a \in account'[s] :
                a.disabled <=> req'[s].by \in Master'.disabled \/ Home(req'[s].by) \in Master'.disabled
    BY <1>3, <2>2, <2>3, Zenon
  <2> QED
    BY <1>2, <1>3, <2>2, <2>4 DEF KnownAt, Authentic
<1> QED
  BY <1>1, <1>2, <1>4, <1>6, QuietGo

LEMMA QuietGetSubUser ==
    ASSUME Inv, NEW s \in Slots, QuietAt(s), GetSubUser(s)
    PROVE  QuietAt(s)'
<1>1. CASE Refuse(s)
  BY <1>1, QuietEnd DEF Refuse
<1>2. CASE ~Refuse(s)
  <2>1. PICK d \in Readable("local") :
            /\ pc[s] = "getSubUser" /\ req[s].by \in d.users /\ Goto(s, "getKey")
            /\ account'[s] = {[a EXCEPT !.disabled = @ \/ req[s].by \in d.disabled] : a \in account[s]}
    BY <1>2 DEF GetSubUser, Inv, TypeInv
  <2>2. pc'[s] = "getKey" /\ req' = req /\ verdict' = verdict /\ Master' = Master
    BY <2>1, GoesTo
  <2>3. ShapeAt(s)'
    BY <2>1, <2>2 DEF QuietAt, ShapeAt
  <2>4. ASSUME KnownAt(s, Master), OnlyReads(Master) PROVE KnownAt(s, Master)'
    <3>1. d = Master
      BY <2>4 DEF OnlyReads, Stores
    <3>2. ASSUME NEW b \in account'[s]
          PROVE  b.disabled <=> req[s].by \in d.disabled \/ Home(req[s].by) \in d.disabled
      <4>1. PICK a \in account[s] : b = [a EXCEPT !.disabled = @ \/ req[s].by \in d.disabled]
        BY <2>1
      <4>2. a \in Loaded
        BY DEF Inv, TypeInv, Optional
      <4>3. b.disabled = (a.disabled \/ req[s].by \in d.disabled)
        BY <4>1, <4>2 DEF Loaded
      <4>4. a.disabled <=> Home(req[s].by) \in d.disabled
        BY <2>1, <2>4, <3>1 DEF KnownAt
      <4> QED
        BY <4>3, <4>4, Zenon
    <3>3. \A b \in account'[s] :
              b.disabled <=> req'[s].by \in Master'.disabled \/ Home(req'[s].by) \in Master'.disabled
      BY <2>2, <3>1, <3>2, Zenon
    <3> QED
      BY <2>1, <2>2, <3>1, <3>3 DEF KnownAt, Authentic
  <2> QED
    BY <2>1, <2>3, <2>4, QuietGo
<1> QED
  BY <1>1, <1>2

LEMMA QuietAuthenticated ==
    ASSUME Inv, NEW s \in Slots, QuietAt(s), Authenticated(s, account[s]),
           \/ pc[s] = "getKey" /\ \E d \in Readable("local") : req[s].by \in d.keys
           \/ pc[s] = "getMetadata"
    PROVE  QuietAt(s)'
<1>1. CASE Refuse(s)
  BY <1>1, QuietEnd DEF Refuse
<1>2. CASE ~Refuse(s)
  <2>1. PICK step \in {"loadResource", "loadAccount"} :
            /\ Goto(s, step)
            /\ step = IF req[s].by \in Users \/ req[s].path \in {"my", req[s].by}
                      THEN "loadResource" ELSE "loadAccount"
    BY <1>2 DEF Authenticated, IsSubUser
  <2>2. /\ account'[s] = account[s] /\ \A a \in account[s] : ~a.disabled
        /\ account[s] # {} /\ \A a \in account[s] : a.login = Home(req[s].by)
    BY <1>2 DEF Authenticated, Inv, TypeInv, SlotInv, AccountAt
  <2>3. pc'[s] = step /\ req' = req /\ verdict' = verdict /\ Master' = Master
    BY <2>1, GoesTo
  <2>4. ShapeAt(s)'
    <3>1. \A a \in account'[s] : a.login = Home(req'[s].by)
      BY <2>2, <2>3 DEF Home
    <3>2. account'[s] # {}
      BY <2>2
    <3>3. verdict[s] = "none" /\ (req[s].by \in Users => req[s].current)
      BY DEF QuietAt, ShapeAt
    <3> QED
      BY <2>1, <2>3, <3>1, <3>2, <3>3 DEF ShapeAt, Home
  <2>5. req[s].scheme = "signature" /\ KnownAt(s, Master) /\ OnlyReads(Master)
            => KnownAt(s, Master)'
    <3> SUFFICES ASSUME req[s].scheme = "signature", KnownAt(s, Master), OnlyReads(Master)
                 PROVE  KnownAt(s, Master)'
      OBVIOUS
    <3>1. pc[s] = "getKey" /\ req[s].by \in Master.keys
      <4>1. pc[s] = "getMetadata" => req[s].scheme = "basic"
        BY DEF Inv, TypeInv, Fits
      <4> QED
        BY <4>1 DEF OnlyReads, Stores
    <3>2. Good(req[s], Master)
      BY <2>2, <3>1 DEF KnownAt, Good
    <3> QED
      BY <2>1, <2>3, <3>2 DEF KnownAt
  <2>6. pc[s] # "idle"
    OBVIOUS
  <2> QED
    BY <2>1, <2>4, <2>5, <2>6, QuietGo
<1> QED
  BY <1>1, <1>2

LEMMA QuietAuthenticate ==
    ASSUME Inv, NEW s \in Slots, QuietAt(s), Authenticate(s)
    PROVE  QuietAt(s)'
<1>1. pc[s] = "authenticate" /\ Goto(s, "getMetadata") /\ req[s].scheme = "basic"
  BY DEF Authenticate, Inv, TypeInv, Fits
<1>2. pc'[s] = "getMetadata" /\ req' = req /\ verdict' = verdict
  BY <1>1, GoesTo
<1>3. ShapeAt(s)'
  BY <1>1, <1>2 DEF QuietAt, ShapeAt
<1> QED
  BY <1>1, <1>3, QuietGo

LEMMA QuietLoadAccount ==
    ASSUME Inv, NEW s \in Slots, QuietAt(s), LoadAccount(s)
    PROVE  QuietAt(s)'
<1>1. PICK d \in Readable("local") :
          /\ pc[s] = "loadAccount" /\ Goto(s, "loadResource")
          /\ account'[s] = {[login |-> req[s].path, disabled |-> req[s].path \in d.disabled]}
          /\ req[s].by \notin Users /\ req[s].path # "my"
  BY LoadsAccount DEF LoadAccount, Inv, TypeInv, Fits
<1>2. pc'[s] = "loadResource" /\ req' = req /\ verdict' = verdict /\ Master' = Master
  BY <1>1, GoesTo
<1>3. ShapeAt(s)'
  BY <1>1, <1>2 DEF QuietAt, ShapeAt
<1>4. KnownAt(s, Master) => KnownAt(s, Master)'
  BY <1>1, <1>2 DEF KnownAt, Authentic
<1> QED
  BY <1>1, <1>3, <1>4, QuietGo

LEMMA QuietLoadResource ==
    ASSUME Inv, NEW s \in Slots, QuietAt(s), LoadResource(s)
    PROVE  QuietAt(s)'
<1>1. /\ pc[s] = "loadResource" /\ UNCHANGED <<account, active, info>>
      /\ tags'[s] \in IF AccountMgmt(s) THEN TagsOfResource ELSE {{}}
  BY DEF LoadResource, Inv, TypeInv, TypeOK
<1>2. PICK step \in {"handler", "getRoles"} :
          Goto(s, step) /\ (step = "getRoles" => AccountMgmt(s))
  BY DEF LoadResource
<1>3. pc'[s] = step /\ req' = req /\ verdict' = verdict /\ Master' = Master
  BY <1>2, GoesTo
<1>4. ShapeAt(s)'
  BY <1>1, <1>2, <1>3 DEF QuietAt, ShapeAt, AccountMgmt
<1>5. KnownAt(s, Master) /\ OnlyReads(Master) => KnownAt(s, Master)'
  <2> SUFFICES ASSUME KnownAt(s, Master), OnlyReads(Master) PROVE KnownAt(s, Master)'
    OBVIOUS
  <2>1. AccountMgmt(s) => tags'[s] = Master.tags
    BY <1>1 DEF OnlyReads, Stores, TagsOfResource
  <2> QED
    BY <1>1, <1>2, <1>3, <2>1 DEF KnownAt, Authentic
<1> QED
  BY <1>1, <1>2, <1>4, <1>5, QuietGo

LEMMA QuietGetRoles ==
    ASSUME Inv, NEW s \in Slots, QuietAt(s), GetRoles(s)
    PROVE  QuietAt(s)'
<1>1. CASE Refuse(s)
  BY <1>1, QuietEnd DEF Refuse
<1>2. CASE ~Refuse(s)
  <2>1. PICK d \in Readable("local") :
            /\ pc[s] = "getRoles" /\ Goto(s, "mahi.getUser")
            /\ UNCHANGED <<account, tags, info>>
            /\ Held(req[s], d)
            /\ active' = [active EXCEPT ![s] = Taken(req[s], d)]
    BY <1>2 DEF GetRoles, Held, Taken
  <2>2. active'[s] = Taken(req[s], d)
    BY <2>1 DEF Inv, TypeInv, TypeOK
  <2>3. pc'[s] = "mahi.getUser" /\ req' = req /\ verdict' = verdict /\ Master' = Master
    BY <2>1, GoesTo
  <2>4. ShapeAt(s)'
    BY <2>1, <2>3 DEF QuietAt, ShapeAt
  <2>5. KnownAt(s, Master) /\ OnlyReads(Master) => KnownAt(s, Master)'
    <3>1. OnlyReads(Master) => d = Master
      BY DEF OnlyReads, Stores
    <3> QED
      BY <2>1, <2>2, <2>3, <3>1 DEF KnownAt, Authentic
  <2> QED
    BY <2>1, <2>4, <2>5, QuietGo
<1> QED
  BY <1>1, <1>2

LEMMA QuietMahi ==
    ASSUME Inv, NEW s \in Slots, QuietAt(s), MahiGetUser(s) \/ MahiGetAccount(s)
    PROVE  QuietAt(s)'
<1>1. CASE Refuse(s)
  BY <1>1, QuietEnd DEF Refuse
<1>2. CASE MahiGetUser(s) /\ ~Refuse(s)
  <2>1. PICK d \in Readable("mahi") :
            /\ pc[s] = "mahi.getUser" /\ Goto(s, "mahi.getAccount")
            /\ UNCHANGED <<account, tags, active>>
            /\ info'[s] = RolesIn(d.members \cup d.defaults, req[s].by)
    BY <1>2 DEF MahiGetUser, Inv, TypeInv, TypeOK
  <2>2. pc'[s] = "mahi.getAccount" /\ req' = req /\ verdict' = verdict /\ Master' = Master
    BY <2>1, GoesTo
  <2>3. ShapeAt(s)'
    BY <2>1, <2>2 DEF QuietAt, ShapeAt
  <2>4. KnownAt(s, Master) /\ OnlyReads(Master) => KnownAt(s, Master)'
    <3>1. OnlyReads(Master) => d = Master
      BY DEF OnlyReads, Stores
    <3> QED
      BY <2>1, <2>2, <3>1 DEF KnownAt, Authentic
  <2> QED
    BY <2>1, <2>3, <2>4, QuietGo
<1>3. CASE MahiGetAccount(s) /\ ~Refuse(s)
  <2>1. /\ pc[s] = "mahi.getAccount" /\ Goto(s, "handler")
        /\ UNCHANGED <<account, tags, active, info>>
    BY <1>3 DEF MahiGetAccount
  <2>2. pc'[s] = "handler" /\ req' = req /\ verdict' = verdict /\ Master' = Master
    BY <2>1, GoesTo
  <2>3. ShapeAt(s)'
    BY <2>1, <2>2 DEF QuietAt, ShapeAt
  <2>4. KnownAt(s, Master) => KnownAt(s, Master)'
    BY <2>1, <2>2 DEF KnownAt, Authentic
  <2> QED
    BY <2>1, <2>3, <2>4, QuietGo
<1> QED
  BY <1>1, <1>2, <1>3

LEMMA QuietArrive ==
    ASSUME Inv, NEW s \in Slots, Arrive(s)
    PROVE  QuietAt(s)'
<1>1. CASE Refuse(s)
  BY <1>1, QuietEnd DEF Refuse
<1>2. CASE ~Refuse(s)
  <2>1. PICK r \in Requests :
            /\ Served(r)
            /\ req' = [req EXCEPT ![s] = r]
            /\ pc' = [pc EXCEPT ![s] = IF r.scheme = "basic" THEN "authenticate" ELSE "getAccount"]
            /\ verdict' = [verdict EXCEPT ![s] = "none"]
    BY <1>2 DEF Arrive
  <2>2. req'[s] = r /\ pc'[s] \in {"authenticate", "getAccount"} /\ verdict'[s] = "none"
    BY <2>1 DEF Inv, TypeInv, TypeOK
  <2>3. ShapeAt(s)'
    BY <2>1, <2>2 DEF ShapeAt, Served, IsSubUser
  <2>4. \A d : KnownAt(s, d)'
    BY <2>2 DEF KnownAt, Authentic
  <2> QED
    BY <2>3, <2>4 DEF QuietAt, KnownAt, Master
<1> QED
  BY <1>1, <1>2

LEMMA QuietSlot ==
    ASSUME Inv, NEW s \in Slots, QuietAt(s), Arrive(s) \/ Handle(s)
    PROVE  QuietAt(s)'
<1>1. CASE GetKey(s) \/ GetMetadata(s)
  BY <1>1, QuietAuthenticated, QuietEnd DEF GetKey, GetMetadata, Refuse
<1>2. CASE Forbid(s) \/ Handler(s) \/ Fail(s)
  BY <1>2, QuietEnd DEF Forbid, Handler, Fail, Refuse
<1> QED
  BY <1>1, <1>2, QuietArrive, QuietGetAccount, QuietGetSubUser, QuietAuthenticate,
     QuietLoadAccount, QuietLoadResource, QuietGetRoles, QuietMahi
  DEF Handle

\* A step of one request and the others.
LEMMA OthersStay ==
    ASSUME Inv, NEW s \in Slots, Arrive(s) \/ Handle(s), NEW t \in Slots, t # s
    PROVE  /\ log' = log \/ \E d \in Directory : log' = Append(log, d)
           /\ pc'[t] = pc[t] /\ req'[t] = req[t] /\ account'[t] = account[t]
           /\ tags'[t] = tags[t] /\ active'[t] = active[t] /\ info'[t] = info[t]
           /\ arrived'[t] = arrived[t] /\ verdict'[t] = verdict[t]
<1> DEFINE Goal ==
        /\ log' = log \/ \E d \in Directory : log' = Append(log, d)
        /\ pc'[t] = pc[t] /\ req'[t] = req[t] /\ account'[t] = account[t]
        /\ tags'[t] = tags[t] /\ active'[t] = active[t] /\ info'[t] = info[t]
        /\ arrived'[t] = arrived[t] /\ verdict'[t] = verdict[t]
<1>. SUFFICES Goal
  OBVIOUS
<1>1. ASSUME NEW v, End(s, v), log' = log \/ \E d \in Directory : log' = Append(log, d)
      PROVE  Goal
  BY <1>1 DEF End, Inv, TypeInv, TypeOK
<1>2. CASE Refuse(s)
  BY <1>1, <1>2 DEF Refuse, copies
<1>3. ASSUME NEW step, Goto(s, step),
             account'[t] = account[t], tags'[t] = tags[t], active'[t] = active[t],
             info'[t] = info[t]
      PROVE  Goal
  BY <1>3 DEF Goto, copies, Inv, TypeInv, TypeOK
<1>4. CASE Arrive(s)
  BY <1>2, <1>4 DEF Arrive, copies, Inv, TypeInv, TypeOK
<1>5. CASE Authenticated(s, account[s])
  BY <1>2, <1>3, <1>5 DEF Authenticated, Inv, TypeInv
<1>6. CASE GetKey(s) \/ GetMetadata(s) \/ Forbid(s)
  BY <1>2, <1>5, <1>6 DEF GetKey, GetMetadata, Forbid
<1>7. ASSUME NEW login, NEW d, Load(s, login, d)
      PROVE  account'[t] = account[t]
  BY <1>7 DEF Load, Inv, TypeInv
<1>8. CASE GetAccount(s) \/ GetSubUser(s) \/ Authenticate(s) \/ LoadAccount(s)
  <2>1. GetSubUser(s) /\ ~Refuse(s) => account'[t] = account[t]
    BY DEF GetSubUser, Inv, TypeInv
  <2> HIDE DEF Goal
  <2> QED
    BY <1>2, <1>3, <1>7, <1>8, <2>1 DEF GetAccount, GetSubUser, Authenticate, LoadAccount
<1>9. CASE LoadResource(s) \/ GetRoles(s) \/ MahiGetUser(s) \/ MahiGetAccount(s)
  <2>1. CASE ~Refuse(s)
    <3>1. PICK step : Goto(s, step)
      BY <1>9, <2>1 DEF LoadResource, GetRoles, MahiGetUser, MahiGetAccount
    <3>2. /\ account'[t] = account[t] /\ tags'[t] = tags[t] /\ active'[t] = active[t]
          /\ info'[t] = info[t]
      BY <1>9, <2>1 DEF LoadResource, GetRoles, MahiGetUser, MahiGetAccount, Inv, TypeInv, TypeOK
    <3> QED
      BY <1>3, <3>1, <3>2
  <2> QED
    BY <1>2, <2>1
<1>10. CASE Handler(s) \/ Fail(s)
  <2>1. PICK v : End(s, v)
    BY <1>10 DEF Handler, Fail
  <2>2. log' = log \/ \E d \in Directory : log' = Append(log, d)
    BY <1>10, EffectsType, StoresType DEF Handler, Fail, copies, Inv
  <2> QED
    BY <1>1, <2>1, <2>2
<1> HIDE DEF Goal
<1> QED
  BY <1>4, <1>6, <1>8, <1>9, <1>10 DEF Handle

LEMMA QuietInit == Init => QuietInv
  BY DEF Init, QuietInv, QuietAt, ShapeAt

LEMMA QuietStep == Inv /\ QuietInv /\ [Next]_vars => QuietInv'
<1> SUFFICES ASSUME Inv, QuietInv, [Next]_vars, NEW s \in Slots PROVE QuietAt(s)'
  BY DEF QuietInv
<1>0. QuietAt(s)
  BY DEF QuietInv
<1>1. CASE UNCHANGED vars
  BY <1>0, <1>1, QuietKept DEF vars
<1>2. ASSUME NEW t \in Slots, Arrive(t) \/ Handle(t) PROVE QuietAt(s)'
  <2>1. CASE t = s
    BY <1>0, <1>2, <2>1, QuietSlot
  <2>2. CASE t # s
    BY <1>0, <1>2, <2>2, OthersStay, QuietKept
  <2> QED
    BY <2>1, <2>2
<1>3. CASE Elsewhere
  <2>1. log' = log \/ \E d \in Directory : log' = Append(log, d)
    BY <1>3, ElsewhereType DEF Inv
  <2>2. UNCHANGED <<pc, req, account, tags, active, info, arrived, verdict>>
    BY <1>3 DEF Elsewhere, WriteElsewhere, LocalCatchesUp, MahiCatchesUp, Expire
  <2> QED
    BY <1>0, <2>1, <2>2, QuietKept
<1> QED
  BY <1>1, <1>2, <1>3 DEF Next, Elsewhere

\* Where a quiet request is decided, its decision is the grant.
Decided(s) ==
    /\ pc'[s] = "handler" => Granted(req[s], Master)
    /\ verdict'[s] = "refused" => ~Granted(req[s], Master)

LEMMA Principal ==
    ASSUME NEW r \in Requests
    PROVE  /\ r.by \in Users => r.by \notin Accounts \cup Admins /\ Home(r.by) # r.by
           /\ r.by \notin Users => r.by \in Accounts \cup Admins /\ Home(r.by) = r.by
  BY RequestFacts, AccessAssumption DEF Home, Principals

\* What a decision may build on.
Informed(s) ==
    /\ pc[s] \notin {"idle", "handler"} /\ req[s] \in Requests /\ req[s].scheme = "signature"
    /\ verdict[s] = "none" /\ ShapeAt(s) /\ KnownAt(s, Master)
    /\ OnlyReads(Master)

LEMMA QuietInformed ==
    ASSUME Inv, NEW s \in Slots, QuietAt(s), UpToDate(s),
           pc[s] \notin {"idle", "handler"}, req[s].scheme = "signature"
    PROVE  Informed(s)
<1>1. req[s] \in Requests
  BY DEF Inv, TypeInv, Fits
<1>2. verdict[s] = "none" /\ ShapeAt(s) /\ KnownAt(s, Master)
  BY DEF QuietAt, ShapeAt
<1> QED
  BY <1>1, <1>2, QuietStores DEF Informed

LEMMA DecideRefused ==
    ASSUME Inv, NEW s \in Slots, Refuse(s), ~Granted(req[s], Master)
    PROVE  Decided(s)
<1>1. pc'[s] = "idle"
  BY DEF Refuse, End, Inv, TypeInv, TypeOK
<1> QED
  BY <1>1 DEF Decided

LEMMA DecideGone ==
    ASSUME Inv, NEW s \in Slots, Informed(s), NEW step, Goto(s, step),
           step = "handler" => Granted(req[s], Master)
    PROVE  Decided(s)
<1>1. pc'[s] = step /\ verdict' = verdict
  BY GoesTo
<1> QED
  BY <1>1 DEF Decided, Informed

LEMMA DecideSubUser ==
    ASSUME Inv, NEW s \in Slots, Informed(s), req[s].by \in Users, Refuse(s),
           req[s].by \notin Master.users
    PROVE  Decided(s)
<1>1. ~Granted(req[s], Master)
  BY Principal DEF Granted, Informed
<1> QED
  BY <1>1, DecideRefused

LEMMA DecideKey ==
    ASSUME Inv, NEW s \in Slots, Informed(s), GetKey(s)
    PROVE  Decided(s)
<1>1. pc[s] = "getKey" /\ \A d \in Readable("local") : d = Master
  BY DEF GetKey, Informed, OnlyReads, Stores
<1>2. CASE req[s].by \notin Master.keys /\ Refuse(s)
  BY <1>1, <1>2, DecideRefused DEF Granted
<1>3. CASE (\E a \in account[s] : a.disabled) /\ Refuse(s)
  <2>1. req[s].by \in Master.disabled \/ Home(req[s].by) \in Master.disabled
    BY <1>1, <1>3 DEF Informed, KnownAt
  <2> QED
    BY <1>3, <2>1, DecideRefused DEF Granted
<1>4. ASSUME NEW step \in {"loadResource", "loadAccount"}, Goto(s, step)
      PROVE  Decided(s)
  BY <1>4, DecideGone
<1> QED
  BY <1>1, <1>2, <1>3, <1>4 DEF GetKey, Authenticated

LEMMA DecideOwner ==
    ASSUME Inv, NEW s \in Slots, Informed(s), pc[s] = "loadResource"
    PROVE  /\ Unchecked(s) => Granted(req[s], Master)
           /\ ~Unchecked(s) /\ ~(req[s].by \in Users /\ AccountMgmt(s))
                  => ~Granted(req[s], Master)
<1> DEFINE r == req[s]
<1>1. /\ Good(r, Master) /\ r \in Requests /\ account[s] # {}
      /\ \A a \in account[s] :
            a.login = IF r.by \in Users \/ r.path \in {"my", r.by} THEN Home(r.by) ELSE r.path
      /\ r.by \in Users => r.current
  BY DEF Informed, KnownAt, ShapeAt, Authentic
<1>2. CASE r.by \in Users
  <2>1. r.by \notin Accounts \cup Admins /\ Home(r.by) # r.by
    BY <1>1, <1>2, Principal
  <2>2. ~Unchecked(s)
    BY <1>1, <1>2, <2>1 DEF Unchecked
  <2>3. ~AccountMgmt(s) => ~Granted(r, Master)
    BY <1>1, <1>2, <2>1 DEF AccountMgmt, Granted
  <2> QED
    BY <1>2, <2>2, <2>3
<1>3. CASE r.by \in Admins
  <2>1. Granted(r, Master)
    BY <1>1, <1>3 DEF Granted, Good
  <2> QED
    BY <1>3, <2>1 DEF Unchecked
<1>4. CASE r.by \notin Users \cup Admins
  <2>1. r.by \in Accounts /\ Home(r.by) = r.by
    BY <1>1, <1>4, Principal
  <2>2. Unchecked(s) <=> r.path \in {"my", r.by}
    BY <1>1, <1>4, <2>1 DEF Unchecked
  <2>3. r.by \notin Master.users
    BY <1>4, StoresType DEF Inv, Directory
  <2>4. Granted(r, Master) <=> r.path \in {"my", r.by}
    BY <1>1, <1>4, <2>1, <2>3 DEF Granted, Good
  <2> QED
    BY <1>4, <2>2, <2>4
<1> QED
  BY <1>2, <1>3, <1>4

LEMMA DecideResource ==
    ASSUME Inv, NEW s \in Slots, Informed(s), LoadResource(s) \/ Forbid(s)
    PROVE  Decided(s)
<1>1. pc[s] = "loadResource"
  BY DEF LoadResource, Forbid
<1>2. CASE LoadResource(s)
  <2>1. PICK step : Goto(s, step) /\ (step = "handler" => Unchecked(s))
    BY <1>2 DEF LoadResource
  <2> QED
    BY <1>1, <2>1, DecideOwner, DecideGone
<1>3. CASE Forbid(s)
  BY <1>1, <1>3, DecideOwner, DecideRefused DEF Forbid, IsSubUser
<1> QED
  BY <1>2, <1>3

LEMMA DecideRoles ==
    ASSUME Inv, NEW s \in Slots, Informed(s), GetRoles(s)
    PROVE  Decided(s)
<1>1. req[s].by \in Users /\ req[s] \in Requests /\ \A d \in Readable("local") : d = Master
  BY DEF GetRoles, Informed, Inv, SlotInv, AccountAt, OnlyReads, Stores
<1>2. CASE Refuse(s) /\ \E list \in req[s].asRole : ~(list \subseteq RolesIn(Master.members, req[s].by))
  <2>1. ~Granted(req[s], Master)
    BY <1>1, <1>2, Principal DEF Granted
  <2> QED
    BY <1>2, <2>1, DecideRefused
<1>3. CASE Goto(s, "mahi.getUser")
  BY <1>3, DecideGone
<1> QED
  BY <1>1, <1>2, <1>3 DEF GetRoles

LEMMA DecideMahi ==
    ASSUME Inv, NEW s \in Slots, Informed(s), MahiGetUser(s) \/ MahiGetAccount(s)
    PROVE  Decided(s)
<1> DEFINE r == req[s]
           d == Master
<1>1. r.by \in Users /\ r \in Requests /\ HasMahi /\ \A e \in Readable("mahi") : e = d
  BY DEF MahiGetUser, MahiGetAccount, Informed, ShapeAt, Inv, SlotInv, AccountAt, OnlyReads, Stores
<1>2. CASE MahiGetUser(s)
  BY <1>1, <1>2, DecideSubUser, DecideGone DEF MahiGetUser
<1>3. CASE MahiGetAccount(s)
  <2>1. /\ Good(r, d) /\ Held(r, d) /\ active[s] = Taken(r, d) /\ tags[s] = d.tags
        /\ info[s] = RolesIn(d.members \cup d.defaults, r.by)
    BY <1>3 DEF MahiGetAccount, Informed, KnownAt, Authentic
  <2>2. active[s] \subseteq info[s]
    BY <2>1 DEF Held, Taken, RolesIn
  <2>3. Permitted(s, d.rules) <=> \E role \in d.tags : <<role, r.op>> \in d.rules /\ role \in Taken(r, d)
    BY <2>1, <2>2 DEF Permitted
  <2>4. Granted(r, d) <=> \E role \in d.tags : <<role, r.op>> \in d.rules /\ role \in Taken(r, d)
    BY <1>1, <2>1, Principal DEF Granted, Good, Held, Taken
  <2> QED
    BY <1>1, <1>3, <2>3, <2>4, DecideRefused, DecideGone DEF MahiGetAccount
<1> QED
  BY <1>2, <1>3

LEMMA Decides ==
    ASSUME Inv, NEW s \in Slots, Informed(s), Arrive(s) \/ Handle(s)
    PROVE  Decided(s)
<1>1. CASE GetAccount(s) \/ LoadAccount(s)
  <2>1. PICK step \in {"getSubUser", "getKey", "loadResource"} : Goto(s, step)
    BY <1>1 DEF GetAccount, LoadAccount
  <2> QED
    BY <2>1, DecideGone
<1>2. CASE GetSubUser(s)
  <2>1. req[s].by \in Users /\ \A d \in Readable("local") : d = Master
    BY <1>2 DEF GetSubUser, Informed, ShapeAt, OnlyReads, Stores
  <2> QED
    BY <1>2, <2>1, DecideSubUser, DecideGone DEF GetSubUser
<1>3. CASE Fail(s)
  <2>1. pc'[s] = "idle" /\ verdict'[s] = "error"
    BY <1>3 DEF Fail, End, Inv, TypeInv, TypeOK
  <2> QED
    BY <2>1 DEF Decided
<1>4. ~Authenticate(s) /\ ~GetMetadata(s) /\ ~Arrive(s) /\ ~Handler(s)
  BY DEF Authenticate, GetMetadata, Arrive, Handler, Informed, Inv, TypeInv, Fits
<1> QED
  BY <1>1, <1>2, <1>3, <1>4, DecideKey, DecideResource, DecideRoles, DecideMahi DEF Handle

LEMMA DecidedStep ==
    ASSUME Inv, QuietInv, [Next]_vars, NEW s \in Slots,
           pc[s] \notin {"idle", "handler"}, req[s].scheme = "signature", UpToDate(s)
    PROVE  Decided(s)
<1>1. Informed(s)
  BY QuietInformed DEF QuietInv
<1>2. CASE pc'[s] = pc[s] /\ verdict'[s] = verdict[s]
  BY <1>1, <1>2 DEF Decided, Informed
<1>3. ASSUME NEW t \in Slots, Arrive(t) \/ Handle(t) PROVE Decided(s)
  <2>1. CASE t = s
    BY <1>1, <1>3, <2>1, Decides
  <2>2. CASE t # s
    BY <1>2, <1>3, <2>2, OthersStay
  <2> QED
    BY <2>1, <2>2
<1>4. UNCHANGED vars \/ Elsewhere => UNCHANGED <<pc, verdict>>
  BY DEF vars, Elsewhere, WriteElsewhere, LocalCatchesUp, MahiCatchesUp, Expire
<1> QED
  BY <1>2, <1>3, <1>4 DEF Next, Elsewhere

\* While copies and caches are up to date and nobody writes, a signed request is decided as
\* the directory grants it: let through only if it is granted, and refused only if it is not.
THEOREM DecisionsAreGrants == Spec => DecidedAsGranted
<1>1. Inv /\ QuietInv /\ [Next]_vars =>
        \A s \in Slots :
            /\ pc[s] \notin {"idle", "handler"} /\ req[s].scheme = "signature"
            /\ UpToDate(s)
            => /\ pc'[s] = "handler" => Granted(req[s], Master)
               /\ verdict'[s] = "refused" => ~Granted(req[s], Master)
  BY DecidedStep DEF Decided
<1> QED
  BY <1>1, InitInv, InvStep, QuietInit, QuietStep, PTL DEF Spec, DecidedAsGranted

=============================================================================
