-------------------------- MODULE ProvisionProofs --------------------------
(***************************************************************************)
(* Proofs about Provision, for any account, limits, images and packages,   *)
(* and any number of machines and of requests in flight.                   *)
(***************************************************************************)
EXTENDS Provision, FiniteSetTheorems, TLAPS

-----------------------------------------------------------------------------
(* Type correctness. What a step uses is there: the request from its       *)
(* arrival to its answer, the machine's id from createVm to the answer.    *)

TypeInv ==
    /\ TypeOK
    /\ \A s \in Slots : pc[s] # "idle" => req[s] \in Request

USE DEF Steps, Answers, Calls, NoId

LEMMA MachineFields ==
    ASSUME NEW image \in Images, NEW package \in Packages, NEW state \in States
    PROVE  /\ [image |-> image, package |-> package, state |-> state] \in Vm
           /\ [image |-> image, package |-> package, state |-> state] # NoVm
  BY DEF Vm, NoVm, States

LEMMA RequestFields ==
    \A r \in Request : r.image \in Images /\ r.package \in Packages
  BY DEF Request

\* Steps that answer, or move on with nothing new in hand.
LEMMA PassOK ==
    ASSUME TypeInv, NEW s \in Slots, pc[s] # "idle",
           pc[s] # "getVm", NEW step \in Steps \ {"idle", "getVm"}, Pass(s, step)
    PROVE  TypeInv'
  BY DEF TypeInv, TypeOK, Pass, Goto, backend, Vm, NoVm

LEMMA RespondOK ==
    ASSUME TypeInv, NEW s \in Slots, NEW code \in Answers, Respond(s, code),
           vms' \in [VmIds -> Vm \cup {NoVm}],
           listed' \subseteq {v \in VmIds : vms'[v] # NoVm}
    PROVE  TypeInv'
  BY DEF TypeInv, TypeOK, Respond, NoRequest

LEMMA AnswerOK ==
    ASSUME TypeInv, NEW s \in Slots, NEW code \in Answers, Respond(s, code),
           UNCHANGED backend
    PROVE  TypeInv'
  <1>1. /\ vms' \in [VmIds -> Vm \cup {NoVm}]
        /\ listed' \subseteq {v \in VmIds : vms'[v] # NoVm}
    BY DEF TypeInv, TypeOK, backend
  <1> QED
    BY <1>1, RespondOK

LEMMA RejectedOK ==
    ASSUME TypeInv, NEW s \in Slots, NEW call, Rejected(s, call)
    PROVE  TypeInv'
  BY AnswerOK DEF Rejected

LEMMA RefuseOK ==
    ASSUME TypeInv, NEW s \in Slots, Refuse(s)
    PROVE  TypeInv'
  BY AnswerOK DEF Refuse

\* A new machine of the image and package asked for.
LEMMA CreateVmOK ==
    ASSUME TypeInv, NEW s \in Slots, CreateVm(s)
    PROVE  TypeInv'
  <1>1. CASE Rejected(s, "createVm")
    BY <1>1, RejectedOK
  <1>2. CASE Respond(s, "error") /\ UNCHANGED backend
    BY <1>2, AnswerOK
  <1>3. ASSUME NEW v \in VmIds,
               vms[v] = NoVm,
               vms' = [vms EXCEPT ![v] = [image |-> req[s].image,
                                          package |-> req[s].package,
                                          state |-> "provisioning"]],
               listed' = listed \cup {v} \/ UNCHANGED listed,
               \/ Goto(s, "getVm") /\ made' = [made EXCEPT ![s] = v]
               \/ Respond(s, "error")
        PROVE  TypeInv'
    <2>1. req[s] \in Request
      BY DEF CreateVm, Fits, Created, TypeInv
    <2>2. /\ [image |-> req[s].image, package |-> req[s].package,
              state |-> "provisioning"] \in Vm
          /\ [image |-> req[s].image, package |-> req[s].package,
              state |-> "provisioning"] # NoVm
      BY <2>1, RequestFields, MachineFields DEF States
    <2>3. vms' \in [VmIds -> Vm \cup {NoVm}]
      BY <1>3, <2>2 DEF TypeInv, TypeOK
    <2>4. listed' \subseteq {w \in VmIds : vms'[w] # NoVm}
      BY <1>3, <2>2 DEF TypeInv, TypeOK
    <2>5. CASE Respond(s, "error")
      BY <2>3, <2>4, <2>5, RespondOK
    <2>6. CASE Goto(s, "getVm") /\ made' = [made EXCEPT ![s] = v]
      <3>1. v # "none"
        BY ProvisionAssumption
      <3>2. /\ pc' \in [Slots -> Steps]
            /\ req' \in [Slots -> Request \cup {NoRequest}]
            /\ made' \in [Slots -> VmIds \cup {NoId}]
            /\ answer' \in [Slots -> Answers]
        BY <2>6 DEF TypeInv, TypeOK, Goto
      <3>3. \A t \in Slots : made'[t] # NoId <=> pc'[t] = "getVm"
        BY <2>6, <3>1 DEF TypeInv, TypeOK, Goto
      <3>4. \A t \in Slots : pc'[t] # "idle" => req'[t] \in Request
        BY <2>1, <2>6 DEF TypeInv, TypeOK, Goto
      <3> QED
        BY <2>3, <2>4, <3>2, <3>3, <3>4 DEF TypeInv, TypeOK
    <2> QED
      BY <1>3, <2>5, <2>6
  <1> QED
    BY <1>1, <1>2, <1>3 DEF CreateVm, Fits, Created

LEMMA HandleOK ==
    ASSUME TypeInv, NEW s \in Slots, Handle(s)
    PROVE  TypeInv'
  <1>1. CASE Load(s)
    BY <1>1, RejectedOK, PassOK DEF Load
  <1>2. CASE ProvisionLimits(s)
    BY <1>2, RejectedOK, PassOK, RefuseOK DEF ProvisionLimits
  <1>3. CASE CapiLimits(s)
    BY <1>3, RejectedOK, PassOK, RefuseOK DEF CapiLimits
  <1>4. CASE FreeTier(s)
    BY <1>4, RejectedOK, PassOK, RefuseOK DEF FreeTier
  <1>5. CASE LoadSSHKeys(s)
    BY <1>5, RejectedOK, PassOK, AnswerOK DEF LoadSSHKeys
  <1>6. CASE CreateVm(s)
    BY <1>6, CreateVmOK
  <1>7. CASE GetVm(s)
    BY <1>7, RejectedOK, AnswerOK DEF GetVm
  <1> QED
    BY <1>1, <1>2, <1>3, <1>4, <1>5, <1>6, <1>7 DEF Handle

LEMMA BackendOK ==
    ASSUME TypeInv, NEW v \in VmIds, ProvisionEnds(v) \/ DestroyVm(v) \/ Index(v)
    PROVE  TypeInv'
  <1>1. ASSUME NEW from \in SUBSET States, NEW to \in States, Become(v, from, to)
        PROVE  TypeInv'
    <2>1. vms[v] \in Vm
      BY <1>1 DEF Become, TypeInv, TypeOK, NoVm, States
    <2>2. [vms[v] EXCEPT !.state = to] \in Vm /\ [vms[v] EXCEPT !.state = to] # NoVm
      BY <2>1 DEF Vm, NoVm, States
    <2>3. /\ vms' \in [VmIds -> Vm \cup {NoVm}]
          /\ listed' \subseteq {w \in VmIds : vms'[w] # NoVm}
      BY <1>1, <2>2 DEF Become, TypeInv, TypeOK
    <2> QED
      BY <1>1, <2>3 DEF Become, TypeInv, TypeOK
  <1>2. CASE ProvisionEnds(v)
    BY <1>1, <1>2 DEF ProvisionEnds, States
  <1>3. CASE DestroyVm(v)
    BY <1>1, <1>3 DEF DestroyVm, States
  <1>4. CASE Index(v)
    BY <1>4 DEF Index, TypeInv, TypeOK
  <1> QED
    BY <1>2, <1>3, <1>4

LEMMA ArriveOK ==
    ASSUME TypeInv, NEW s \in Slots, Arrive(s)
    PROVE  TypeInv'
  BY DEF Arrive, TypeInv, TypeOK, backend

LEMMA InitOK == Init => TypeInv
  BY DEF Init, TypeInv, TypeOK

LEMMA NextOK == TypeInv /\ [Next]_vars => TypeInv'
  <1> SUFFICES ASSUME TypeInv, [Next]_vars PROVE TypeInv'
    OBVIOUS
  <1>1. CASE Next
    BY <1>1, ArriveOK, HandleOK, BackendOK DEF Next
  <1>2. CASE UNCHANGED vars
    BY <1>2 DEF vars, TypeInv, TypeOK
  <1> QED
    BY <1>1, <1>2

LEMMA TypeInvariant == Spec => []TypeInv
  BY InitOK, NextOK, PTL DEF Spec

\* Type correctness, with the id of a new machine known exactly while create()
\* waits for VMAPI's index.
THEOREM TypeCorrect == Spec => []TypeOK
  <1>1. TypeInv => TypeOK
    BY DEF TypeInv
  <1> QED
    BY <1>1, TypeInvariant, PTL

-----------------------------------------------------------------------------
(* Sums. Total(f) is the number of the units <<x, k>> with k \in 1..f[x].  *)

UnitsOf(f) == UNION {{x} \X (1..f[x]) : x \in DOMAIN f}

LEMMA Unit ==
    ASSUME NEW S, NEW f \in [S -> Nat], NEW u
    PROVE  u \in UnitsOf(f) <=> \E x \in S : \E k \in 1..f[x] : u = <<x, k>>
  BY DEF UnitsOf

LEMMA TotalIsUnits == \A f : Total(f) = Cardinality(UnitsOf(f))
  BY DEF Total, UnitsOf

LEMMA Row ==
    ASSUME NEW x, NEW n \in Nat
    PROVE  IsFiniteSet({x} \X (1..n)) /\ Cardinality({x} \X (1..n)) = n
  <1>1. IsFiniteSet(1..n) /\ Cardinality(1..n) = n
    BY FS_Interval
  <1>2. IsFiniteSet({x}) /\ Cardinality({x}) = 1
    BY FS_Singleton
  <1>3. /\ IsFiniteSet({x} \X (1..n))
        /\ Cardinality({x} \X (1..n)) = Cardinality({x}) * Cardinality(1..n)
    BY <1>1, <1>2, FS_Product
  <1> QED
    BY <1>1, <1>2, <1>3

LEMMA TotalType ==
    ASSUME NEW S, IsFiniteSet(S), NEW f \in [S -> Nat]
    PROVE  IsFiniteSet(UnitsOf(f)) /\ Total(f) \in Nat
  <1> DEFINE row == [x \in S |-> {x} \X (1..f[x])]
             Rows == {row[x] : x \in S}
  <1>1. row \in Surjection(S, Rows)
    BY DEF Surjection
  <1>2. IsFiniteSet(Rows)
    BY <1>1, FS_Surjection
  <1>3. \A R \in Rows : IsFiniteSet(R)
    <2>1. \A x \in S : f[x] \in Nat
      OBVIOUS
    <2>2. \A x \in S : IsFiniteSet({x} \X (1..f[x]))
      BY <2>1, Row
    <2> QED
      BY <2>2
  <1>4. IsFiniteSet(UNION Rows)
    <2> HIDE DEF Rows
    <2> QED
      BY <1>2, <1>3, FS_UNION
  <1>5. UNION Rows = UnitsOf(f)
    BY DEF UnitsOf
  <1> QED
    BY <1>4, <1>5, TotalIsUnits, FS_CardinalityType

\* Part of the summands.
LEMMA TotalOfPart ==
    ASSUME NEW S, IsFiniteSet(S), NEW f \in [S -> Nat],
           NEW T \in SUBSET S, NEW g \in [T -> Nat], \A x \in T : g[x] = f[x]
    PROVE  Total(g) <= Total(f)
  <1>1. UnitsOf(g) \subseteq UnitsOf(f)
    BY Unit
  <1> QED
    BY <1>1, TotalType, TotalIsUnits, FS_Subset

\* The sum of two parts.
LEMMA TotalOfParts ==
    ASSUME NEW S, IsFiniteSet(S), NEW f \in [S -> Nat],
           NEW T, NEW g \in [T -> Nat], \A x \in T : g[x] = f[x],
           NEW U, NEW h \in [U -> Nat], \A x \in U : h[x] = f[x],
           S = T \cup U, T \cap U = {}
    PROVE  Total(f) = Total(g) + Total(h)
  <1>1. UnitsOf(f) = UnitsOf(g) \cup UnitsOf(h) /\ UnitsOf(g) \cap UnitsOf(h) = {}
    BY Unit
  <1>2. IsFiniteSet(T) /\ IsFiniteSet(U)
    <2>1. T \in SUBSET S /\ U \in SUBSET S
      OBVIOUS
    <2> QED
      BY <2>1, FS_Subset
  <1>3. /\ IsFiniteSet(UnitsOf(g)) /\ Total(g) \in Nat
        /\ IsFiniteSet(UnitsOf(h)) /\ Total(h) \in Nat
    BY <1>2, TotalType
  <1>4. Cardinality(UnitsOf(g) \cup UnitsOf(h))
            = Cardinality(UnitsOf(g)) + Cardinality(UnitsOf(h))
                  - Cardinality(UnitsOf(g) \cap UnitsOf(h))
    BY <1>3, FS_Union
  <1>5. Cardinality(UnitsOf(g) \cap UnitsOf(h)) = 0
    BY <1>1, FS_EmptySet
  <1>6. /\ Total(f) = Cardinality(UnitsOf(g) \cup UnitsOf(h))
        /\ Total(g) = Cardinality(UnitsOf(g)) /\ Total(h) = Cardinality(UnitsOf(h))
    BY <1>1, TotalIsUnits
  <1> QED
    BY <1>3, <1>4, <1>5, <1>6

LEMMA TotalOfOne ==
    ASSUME NEW x, NEW f \in [{x} -> Nat]
    PROVE  Total(f) = f[x]
  <1>1. UnitsOf(f) = {x} \X (1..f[x])
    BY DEF UnitsOf
  <1>2. f[x] \in Nat
    OBVIOUS
  <1> QED
    BY <1>1, <1>2, Row, TotalIsUnits

\* One summand and the others.
LEMMA TotalWithout ==
    ASSUME NEW S, IsFiniteSet(S), NEW f \in [S -> Nat], NEW x \in S,
           NEW T, T = S \ {x}, NEW g \in [T -> Nat], \A y \in T : g[y] = f[y]
    PROVE  Total(f) = f[x] + Total(g)
  <1> DEFINE X == {x}
             one == [y \in X |-> f[y]]
  <1>1. one \in [X -> Nat] /\ one[x] = f[x] /\ \A y \in X : one[y] = f[y]
    OBVIOUS
  <1>2. S = X \cup T /\ X \cap T = {}
    OBVIOUS
  <1>3. Total(one) = one[x]
    <2> HIDE DEF one
    <2> QED
      BY <1>1, TotalOfOne
  <1> HIDE DEF one, X
  <1>4. Total(f) = Total(one) + Total(g)
    BY <1>1, <1>2, TotalOfParts
  <1> QED
    BY <1>1, <1>3, <1>4

\* Summands of a limited size.
LEMMA TotalBound ==
    ASSUME NEW S, IsFiniteSet(S), NEW f \in [S -> Nat],
           NEW m \in Nat, \A x \in S : f[x] <= m
    PROVE  Total(f) <= Cardinality(S) * m
  <1>1. UnitsOf(f) \subseteq S \X (1..m)
    BY Unit
  <1>2. IsFiniteSet(1..m) /\ Cardinality(1..m) = m
    BY FS_Interval
  <1>3. /\ IsFiniteSet(S \X (1..m))
        /\ Cardinality(S \X (1..m)) = Cardinality(S) * m
    BY <1>2, FS_Product
  <1>4. UnitsOf(f) \in SUBSET (S \X (1..m))
    BY <1>1
  <1>5. Cardinality(UnitsOf(f)) <= Cardinality(S \X (1..m))
    BY <1>3, <1>4, FS_Subset
  <1> QED
    BY <1>3, <1>5, TotalIsUnits

\* Smaller summands.
LEMMA TotalOfSmaller ==
    ASSUME NEW S, IsFiniteSet(S), NEW f \in [S -> Nat], NEW g \in [S -> Nat],
           \A x \in S : g[x] <= f[x]
    PROVE  Total(g) <= Total(f)
  <1>1. UnitsOf(g) \subseteq UnitsOf(f)
    BY Unit
  <1> QED
    BY <1>1, TotalType, TotalIsUnits, FS_Subset

LEMMA TotalOfOnes ==
    ASSUME NEW S, IsFiniteSet(S)
    PROVE  Total([x \in S |-> 1]) = Cardinality(S)
  <1> DEFINE f == [x \in S |-> 1]
             u == [x \in S |-> <<x, 1>>]
  <1>1. f \in [S -> Nat]
    OBVIOUS
  <1>2. \A z : z \in UnitsOf(f) <=> \E x \in S : z = <<x, 1>>
    BY <1>1, Unit
  <1>3. u \in Bijection(S, UnitsOf(f))
    BY <1>2 DEF Bijection, Injection, Surjection, IsInjective
  <1>4. ExistsBijection(S, UnitsOf(f))
    BY <1>3 DEF ExistsBijection
  <1> QED
    BY <1>4, FS_Bijection, TotalIsUnits

LEMMA TotalOfNone ==
    ASSUME NEW f, DOMAIN f = {}
    PROVE  Total(f) = 0
  <1>1. UnitsOf(f) = {}
    BY DEF UnitsOf
  <1> QED
    BY <1>1, TotalIsUnits, FS_EmptySet

-----------------------------------------------------------------------------
(* Overshoot. A check counts the machines that are listed. What it misses  *)
(* is at most one machine for each other request in flight: a machine that *)
(* is not listed yet belongs to a request in getVm, and a request that     *)
(* passed the check has not created its machine. So what machines take and *)
(* what requests past the check will take, together, stay within the bound.*)

\* A machine that is not listed yet is in the hands of the request that made it.
InHand ==
    \A v \in VmIds : vms[v] # NoVm /\ v \notin listed =>
        \E s \in Slots : pc[s] = "getVm" /\ made[s] = v

RequestOf(v) == [image |-> vms[v].image, package |-> vms[v].package]

\* The machines that a check on the requests W is about, and the requests of W at
\* the steps K, those that follow the check.
HeldOf(W) == {v \in VmIds : Active(v) /\ RequestOf(v) \in W}

PassedOf(W, K) == {s \in Slots : pc[s] \in K /\ req[s] \in W}

\* Steps of a request that a check on W leads to.
After(K) == K \in SUBSET Steps /\ "createVm" \in K /\ K \cap {"idle", "load", "getVm"} = {}

By == {"ram", "quota", "machines"}

\* What machines take, and what requests past the check will take.
SizesOf(by, M) == [v \in M |-> Increment(by, vms[v].package)]

DuesOf(by, R) == [s \in R |-> Increment(by, req[s].package)]

Within(by, W, K, n) ==
    Total(SizesOf(by, HeldOf(W))) + Total(DuesOf(by, PassedOf(W, K))) <= n

LEMMA IncrementType == \A by \in By : \A p \in Packages : Increment(by, p) \in Nat
  BY ProvisionAssumption DEF By, Increment

LEMMA FiniteCounts ==
    ASSUME NEW W, NEW K
    PROVE  /\ IsFiniteSet(HeldOf(W)) /\ IsFiniteSet(HeldOf(W)')
           /\ IsFiniteSet(PassedOf(W, K)) /\ IsFiniteSet(PassedOf(W, K)')
  <1>1. HeldOf(W) \in SUBSET VmIds /\ HeldOf(W)' \in SUBSET VmIds
    BY DEF HeldOf
  <1>2. PassedOf(W, K) \in SUBSET Slots /\ PassedOf(W, K)' \in SUBSET Slots
    BY DEF PassedOf
  <1> QED
    BY <1>1, <1>2, FS_Subset, ProvisionAssumption

LEMMA HeldPackages ==
    ASSUME TypeInv
    PROVE  \A W : \A v \in HeldOf(W) : vms[v] \in Vm /\ vms[v].package \in Packages
  BY DEF HeldOf, Active, TypeInv, TypeOK, NoVm, Vm

LEMMA SizesType ==
    ASSUME TypeInv, NEW by \in By, NEW W \in SUBSET Request, NEW K
    PROVE  /\ \A M \in SUBSET HeldOf(W) : SizesOf(by, M) \in [M -> Nat]
           /\ \A R \in SUBSET PassedOf(W, K) : DuesOf(by, R) \in [R -> Nat]
  <1>1. \A v \in HeldOf(W) : Increment(by, vms[v].package) \in Nat
    BY HeldPackages, IncrementType
  <1>2. \A s \in PassedOf(W, K) : Increment(by, req[s].package) \in Nat
    BY RequestFields, IncrementType DEF PassedOf
  <1> QED
    BY <1>1, <1>2 DEF SizesOf, DuesOf

LEMMA SizesOK ==
    ASSUME TypeInv, NEW by \in By, NEW W \in SUBSET Request, NEW K
    PROVE  /\ SizesOf(by, HeldOf(W)) \in [HeldOf(W) -> Nat]
           /\ DuesOf(by, PassedOf(W, K)) \in [PassedOf(W, K) -> Nat]
           /\ Total(SizesOf(by, HeldOf(W))) \in Nat
           /\ Total(DuesOf(by, PassedOf(W, K))) \in Nat
  BY SizesType, FiniteCounts, TotalType

LEMMA WithinNext ==
    ASSUME NEW by, NEW W, NEW K, NEW n
    PROVE  Within(by, W, K, n)' <=>
               Total([v \in HeldOf(W)' |-> Increment(by, vms'[v].package)])
                   + Total([s \in PassedOf(W, K)' |-> Increment(by, req'[s].package)]) <= n
  <1> DEFINE f == [v \in HeldOf(W)' |-> Increment(by, vms'[v].package)]
             g == [s \in PassedOf(W, K)' |-> Increment(by, req'[s].package)]
  <1>1. SizesOf(by, HeldOf(W))' = f /\ DuesOf(by, PassedOf(W, K))' = g
    BY DEF SizesOf, DuesOf, Increment
  <1> HIDE DEF f, g
  <1>2. Within(by, W, K, n)' <=> Total(f) + Total(g) <= n
    BY <1>1 DEF Within, Total
  <1> QED
    BY <1>2 DEF f, g

\* The step leaves what they take as it is.
Kept(W, K) ==
    /\ \A v \in HeldOf(W) : vms'[v].package = vms[v].package
    /\ \A s \in PassedOf(W, K)' : req'[s] = req[s]

\* A step that adds neither a machine nor a request past the check.
LEMMA Fewer ==
    ASSUME TypeInv, NEW by \in By, NEW W \in SUBSET Request, NEW K, NEW n \in Int,
           Within(by, W, K, n), Kept(W, K),
           HeldOf(W)' \subseteq HeldOf(W), PassedOf(W, K)' \subseteq PassedOf(W, K)
    PROVE  Within(by, W, K, n)'
  <1> DEFINE H == HeldOf(W)
             P == PassedOf(W, K)
             HH == HeldOf(W)'
             PP == PassedOf(W, K)'
             f == SizesOf(by, H)
             g == DuesOf(by, P)
             ff == [v \in HH |-> Increment(by, vms'[v].package)]
             gg == [s \in PP |-> Increment(by, req'[s].package)]
  <1>1. f \in [H -> Nat] /\ g \in [P -> Nat]
    BY SizesOK
  <1>2. \A v \in HH : ff[v] = f[v]
    BY DEF Kept, SizesOf
  <1>3. \A s \in PP : gg[s] = g[s]
    BY DEF Kept, DuesOf
  <1>4. ff \in [HH -> Nat] /\ gg \in [PP -> Nat]
    <2>1. \A v \in HH : f[v] \in Nat
      BY <1>1
    <2>2. \A s \in PP : g[s] \in Nat
      BY <1>1
    <2> QED
      BY <1>2, <1>3, <2>1, <2>2
  <1>5. IsFiniteSet(H) /\ IsFiniteSet(P) /\ IsFiniteSet(HH) /\ IsFiniteSet(PP)
    BY FiniteCounts
  <1>6. Total(f) + Total(g) <= n
    BY DEF Within
  <1>7. HH \in SUBSET H /\ PP \in SUBSET P
    OBVIOUS
  <1>8. Total(ff) + Total(gg) <= n
    <2> HIDE DEF H, P, HH, PP, f, g, ff, gg
    <2>1. Total(ff) <= Total(f) /\ Total(gg) <= Total(g)
      BY <1>1, <1>2, <1>3, <1>4, <1>5, <1>7, TotalOfPart
    <2>2. /\ Total(f) \in Nat /\ Total(g) \in Nat
          /\ Total(ff) \in Nat /\ Total(gg) \in Nat
      BY <1>1, <1>4, <1>5, TotalType
    <2> QED
      BY <1>6, <2>1, <2>2
  <1> QED
    BY <1>8, WithinNext

\* createVm turns a request past the check into a machine.
LEMMA Turned ==
    ASSUME TypeInv, NEW by \in By, NEW W \in SUBSET Request, NEW K, NEW n \in Int,
           Within(by, W, K, n), Kept(W, K),
           NEW v \in VmIds, NEW s \in PassedOf(W, K),
           vms[v] = NoVm, vms'[v].package = req[s].package,
           HeldOf(W)' \subseteq HeldOf(W) \cup {v},
           PassedOf(W, K)' \subseteq PassedOf(W, K) \ {s}
    PROVE  Within(by, W, K, n)'
  <1> DEFINE H == HeldOf(W)
             P == PassedOf(W, K)
             HH == HeldOf(W)'
             PP == PassedOf(W, K)'
             inc == Increment(by, req[s].package)
             f == SizesOf(by, H)
             g == DuesOf(by, P)
             fv == [u \in H \cup {v} |-> IF u = v THEN inc ELSE f[u]]
             gs == [t \in P \ {s} |-> g[t]]
             ff == [u \in HH |-> Increment(by, vms'[u].package)]
             gg == [t \in PP |-> Increment(by, req'[t].package)]
  <1>1. f \in [H -> Nat] /\ g \in [P -> Nat]
    BY SizesOK
  <1>2. v \notin H
    BY DEF HeldOf, Active, NoVm
  <1>3. inc \in Nat /\ g[s] = inc
    BY <1>1 DEF DuesOf
  <1>4. fv \in [H \cup {v} -> Nat] /\ gs \in [P \ {s} -> Nat]
    BY <1>1, <1>3
  <1>5. \A u \in HH : ff[u] = fv[u]
    BY DEF Kept, SizesOf
  <1>6. \A t \in PP : gg[t] = gs[t]
    BY DEF Kept, DuesOf
  <1>7. ff \in [HH -> Nat] /\ gg \in [PP -> Nat]
    <2>1. \A u \in HH : fv[u] \in Nat
      BY <1>4
    <2>2. \A t \in PP : gs[t] \in Nat
      BY <1>4
    <2> QED
      BY <1>5, <1>6, <2>1, <2>2
  <1>8. /\ IsFiniteSet(H) /\ IsFiniteSet(P) /\ IsFiniteSet(HH) /\ IsFiniteSet(PP)
        /\ IsFiniteSet(H \cup {v}) /\ IsFiniteSet(P \ {s})
    BY FiniteCounts, FS_AddElement, FS_RemoveElement
  <1>9. Total(f) + Total(g) <= n
    BY DEF Within
  <1>10. HH \in SUBSET (H \cup {v}) /\ PP \in SUBSET (P \ {s})
    OBVIOUS
  <1>11. Total(fv) = inc + Total(f)
    <2>1. H = (H \cup {v}) \ {v} /\ \A u \in H : f[u] = fv[u]
      BY <1>2
    <2>2. v \in H \cup {v} /\ fv[v] = inc
      OBVIOUS
    <2> HIDE DEF H, f, fv, inc
    <2>3. /\ IsFiniteSet(H \cup {v}) /\ fv \in [H \cup {v} -> Nat]
          /\ f \in [H -> Nat]
      BY <1>1, <1>4, <1>8
    <2>4. Total(fv) = fv[v] + Total(f)
      BY <2>1, <2>2, <2>3, TotalWithout
    <2> QED
      BY <2>2, <2>4
  <1>12. Total(g) = inc + Total(gs)
    <2> DEFINE Q == P \ {s}
    <2>1. s \in P /\ gs \in [Q -> Nat] /\ \A t \in Q : gs[t] = g[t]
      BY <1>4
    <2> HIDE DEF H, P, f, g, gs, inc
    <2>2. Q = P \ {s}
      OBVIOUS
    <2> HIDE DEF Q
    <2>3. IsFiniteSet(P) /\ g \in [P -> Nat]
      BY <1>1, <1>8
    <2>4. Total(g) = g[s] + Total(gs)
      BY <2>1, <2>2, <2>3, TotalWithout
    <2> QED
      BY <1>3, <2>4
  <1>13. Total(ff) + Total(gg) <= n
    <2> HIDE DEF H, P, HH, PP, f, g, ff, gg, fv, gs, inc
    <2>1. Total(ff) <= Total(fv) /\ Total(gg) <= Total(gs)
      BY <1>4, <1>5, <1>6, <1>7, <1>8, <1>10, TotalOfPart
    <2>2. /\ Total(f) \in Nat /\ Total(g) \in Nat
          /\ Total(fv) \in Nat /\ Total(gs) \in Nat
          /\ Total(ff) \in Nat /\ Total(gg) \in Nat
      BY <1>1, <1>4, <1>7, <1>8, TotalType
    <2> QED
      BY <1>3, <1>9, <1>11, <1>12, <2>1, <2>2
  <1> QED
    BY <1>13, WithinNext

\* What the listing misses and who is past the check, the newcomer included, are
\* different slots.
LEMMA Unseen ==
    ASSUME TypeInv, InHand, NEW W, NEW K, After(K),
           NEW s \in Slots, pc[s] # "getVm"
    PROVE  Cardinality(HeldOf(W) \ listed) + Cardinality(PassedOf(W, K) \cup {s})
               <= Cardinality(Slots)
  <1> DEFINE U == HeldOf(W) \ listed
             G == {t \in Slots : pc[t] = "getVm" /\ made[t] \in U}
             P == PassedOf(W, K) \cup {s}
  <1>1. IsFiniteSet(Slots)
    BY ProvisionAssumption
  <1>2. G \in SUBSET Slots /\ P \in SUBSET Slots /\ G \cap P = {}
    BY DEF PassedOf, After
  <1>3. Cardinality(U) <= Cardinality(G)
    <2> DEFINE f == [t \in G |-> made[t]]
    <2>1. f \in [G -> U]
      OBVIOUS
    <2>2. \A v \in U : \E t \in G : f[t] = v
      <3> SUFFICES ASSUME NEW v \in U PROVE \E t \in G : f[t] = v
        OBVIOUS
      <3>1. v \in VmIds /\ vms[v] # NoVm /\ v \notin listed
        BY DEF HeldOf, Active, NoVm
      <3> QED
        BY <3>1 DEF InHand
    <2>3. f \in Surjection(G, U)
      BY <2>1, <2>2 DEF Surjection
    <2> QED
      BY <1>1, <1>2, <2>3, FS_Surjection, FS_Subset
  <1>4. Cardinality(G) + Cardinality(P) <= Cardinality(Slots)
    <2>1. IsFiniteSet(G) /\ IsFiniteSet(P)
      BY <1>1, <1>2, FS_Subset
    <2> HIDE DEF G, P
    <2>2. Cardinality(G \cup P) = Cardinality(G) + Cardinality(P)
      <3>1. Cardinality(G) \in Nat /\ Cardinality(P) \in Nat
        BY <2>1, FS_CardinalityType
      <3> QED
        BY <1>2, <2>1, <3>1, FS_Union, FS_EmptySet
    <2>3. G \cup P \in SUBSET Slots
      BY <1>2
    <2>4. Cardinality(G \cup P) <= Cardinality(Slots)
      BY <1>1, <2>3, FS_Subset
    <2> QED
      BY <2>2, <2>4
  <1>5. IsFiniteSet(U) /\ IsFiniteSet(G) /\ IsFiniteSet(P)
    <2>1. U \in SUBSET HeldOf(W)
      OBVIOUS
    <2> QED
      BY <1>1, <1>2, <2>1, FiniteCounts, FS_Subset
  <1> HIDE DEF U, G, P
  <1>6. Cardinality(U) \in Nat /\ Cardinality(G) \in Nat /\ Cardinality(P) \in Nat
        /\ Cardinality(Slots) \in Nat
    BY <1>1, <1>5, FS_CardinalityType
  <1>7. Cardinality(U) + Cardinality(P) <= Cardinality(Slots)
    BY <1>3, <1>4, <1>6
  <1> QED
    BY <1>7 DEF U, P

\* The check's count and the bound.
LEMMA Newcomer ==
    ASSUME TypeInv, InHand, NEW by \in By, NEW W \in SUBSET Request, NEW K, After(K),
           NEW s \in Slots, pc[s] # "getVm", req[s] \in W,
           NEW m \in Int, NEW large \in Nat,
           \A p \in Packages : Increment(by, p) <= large,
           Total(SizesOf(by, HeldOf(W) \cap listed)) + Increment(by, req[s].package) <= m,
           Kept(W, K), HeldOf(W)' = HeldOf(W),
           PassedOf(W, K)' \subseteq PassedOf(W, K) \cup {s}
    PROVE  Within(by, W, K, m + (Cardinality(Slots) - 1) * large)'
  <1> DEFINE H == HeldOf(W)
             L == HeldOf(W) \cap listed
             U == HeldOf(W) \ listed
             P == PassedOf(W, K) \cup {s}
             PP == PassedOf(W, K)'
             inc == Increment(by, req[s].package)
             f == SizesOf(by, H)
             fl == SizesOf(by, L)
             fu == SizesOf(by, U)
             g == [t \in P |-> Increment(by, req[t].package)]
             gs == [t \in P \ {s} |-> g[t]]
             ff == [u \in H |-> Increment(by, vms'[u].package)]
             gg == [t \in PP |-> Increment(by, req'[t].package)]
  <1>1. \A t \in P : Increment(by, req[t].package) \in Nat
                     /\ Increment(by, req[t].package) <= large
    BY RequestFields, IncrementType DEF PassedOf
  <1>2. \A u \in H : Increment(by, vms[u].package) \in Nat
                     /\ Increment(by, vms[u].package) <= large
    BY HeldPackages, IncrementType
  <1>3. /\ f \in [H -> Nat] /\ fl \in [L -> Nat] /\ fu \in [U -> Nat]
        /\ g \in [P -> Nat] /\ gs \in [P \ {s} -> Nat]
    BY <1>1, <1>2 DEF SizesOf
  <1>4. inc \in Nat /\ s \in P /\ g[s] = inc
    BY <1>1
  <1>5. ff = f
    BY DEF Kept, SizesOf
  <1>6. \A t \in PP : gg[t] = g[t]
    BY DEF Kept
  <1>7. gg \in [PP -> Nat]
    BY <1>1, <1>6
  <1>8. /\ IsFiniteSet(H) /\ IsFiniteSet(L) /\ IsFiniteSet(U)
        /\ IsFiniteSet(P) /\ IsFiniteSet(P \ {s}) /\ IsFiniteSet(PP)
    <2>1. L \in SUBSET H /\ U \in SUBSET H
      OBVIOUS
    <2>2. IsFiniteSet(P)
      BY FiniteCounts, FS_AddElement
    <2> QED
      BY <2>1, <2>2, FiniteCounts, FS_Subset, FS_RemoveElement
  <1>9. Total(f) = Total(fl) + Total(fu)
    <2>1. H = L \cup U /\ L \cap U = {}
      OBVIOUS
    <2>2. (\A u \in L : fl[u] = f[u]) /\ \A u \in U : fu[u] = f[u]
      BY DEF SizesOf
    <2> HIDE DEF H, L, U, f, fl, fu
    <2> QED
      BY <1>3, <1>8, <2>1, <2>2, TotalOfParts
  <1>10. Total(fu) <= Cardinality(U) * large
    <2>1. \A u \in U : fu[u] <= large
      BY <1>2 DEF SizesOf
    <2> HIDE DEF U, fu
    <2> QED
      BY <1>3, <1>8, <2>1, TotalBound
  <1>11. Total(g) = inc + Total(gs)
    <2> DEFINE Q == P \ {s}
    <2>1. gs \in [Q -> Nat] /\ \A t \in Q : gs[t] = g[t]
      BY <1>3
    <2> HIDE DEF P, g, gs, inc
    <2>2. Q = P \ {s}
      OBVIOUS
    <2> HIDE DEF Q
    <2>3. IsFiniteSet(P) /\ s \in P /\ g \in [P -> Nat]
      BY <1>3, <1>4, <1>8
    <2>4. Total(g) = g[s] + Total(gs)
      BY <2>1, <2>2, <2>3, TotalWithout
    <2> QED
      BY <1>4, <2>4
  <1>12. Total(gs) <= (Cardinality(P) - 1) * large
    <2>1. \A t \in P \ {s} : gs[t] <= large
      BY <1>1
    <2> HIDE DEF P, gs
    <2>2. Cardinality(P \ {s}) = Cardinality(P) - 1
      BY <1>4, <1>8, FS_RemoveElement
    <2>3. Total(gs) <= Cardinality(P \ {s}) * large
      BY <1>3, <1>8, <2>1, TotalBound
    <2> QED
      BY <2>2, <2>3
  <1>13. Total(gg) <= Total(g)
    <2>1. PP \in SUBSET P
      OBVIOUS
    <2> HIDE DEF P, PP, g, gg
    <2> QED
      BY <1>3, <1>6, <1>7, <1>8, <2>1, TotalOfPart
  <1>14. Cardinality(U) + Cardinality(P) <= Cardinality(Slots)
    BY Unseen
  <1>15. Total(fl) + inc <= m
    OBVIOUS
  <1>16. Total(f) + Total(gg) <= m + (Cardinality(Slots) - 1) * large
    <2> DEFINE u == Cardinality(U)
               p == Cardinality(P)
               c == Cardinality(Slots)
    <2> HIDE DEF H, L, U, P, PP, f, fl, fu, g, gs, gg, inc
    <2>1. u \in Nat /\ p \in Nat /\ c \in Nat
      BY <1>8, FS_CardinalityType, ProvisionAssumption
    <2>2. /\ Total(f) \in Nat /\ Total(fl) \in Nat /\ Total(fu) \in Nat
          /\ Total(g) \in Nat /\ Total(gs) \in Nat /\ Total(gg) \in Nat
      BY <1>3, <1>7, <1>8, TotalType
    <2>3. Total(fu) <= u * large /\ Total(gs) <= (p - 1) * large /\ u + p <= c
      BY <1>10, <1>12, <1>14
    <2> HIDE DEF u, p, c
    <2>4. u * large + (p - 1) * large <= (c - 1) * large
      <3>1. u * large + (p - 1) * large = (u + p - 1) * large
        BY <2>1
      <3>2. \A a \in Int : a >= 0 => a * large >= 0
        OBVIOUS
      <3>3. (c - 1 - (u + p - 1)) * large >= 0
        BY <2>1, <2>3, <3>2
      <3>4. (c - 1 - (u + p - 1)) * large = (c - 1) * large - (u + p - 1) * large
        BY <2>1
      <3>5. /\ (c - 1) * large \in Int /\ (u + p - 1) * large \in Int
            /\ u * large \in Int /\ (p - 1) * large \in Int
        BY <2>1
      <3> QED
        BY <3>1, <3>3, <3>4, <3>5
    <2>5. (c - 1) * large \in Int /\ u * large \in Int /\ (p - 1) * large \in Int
      BY <2>1
    <2>6. Total(f) + Total(gg) <= m + (c - 1) * large
      BY <1>4, <1>9, <1>11, <1>13, <1>15, <2>2, <2>3, <2>4, <2>5
    <2> QED
      BY <2>6 DEF c
  <1>17. Total(ff) + Total(gg) <= m + (Cardinality(Slots) - 1) * large
    BY <1>5, <1>16
  <1>18. ff = [u \in HeldOf(W)' |-> Increment(by, vms'[u].package)]
    OBVIOUS
  <1> HIDE DEF ff
  <1>19. Total([u \in HeldOf(W)' |-> Increment(by, vms'[u].package)]) + Total(gg)
             <= m + (Cardinality(Slots) - 1) * large
    BY <1>17, <1>18
  <1> QED
    BY <1>19, WithinNext

\* Where a step leaves the requests: one that goes on keeps its parameters, and only
\* create() leads to getVm.
LEMMA RequestsStay ==
    ASSUME TypeInv, [Next]_vars, NEW t \in Slots
    PROVE  /\ pc'[t] \notin {"idle", "load"} => req'[t] = req[t]
           /\ pc[t] = "getVm" => pc'[t] \in {"getVm", "idle"}
  <1>1. CASE \E s \in Slots : Arrive(s)
    BY <1>1 DEF Arrive, TypeInv, TypeOK
  <1>2. CASE \E s \in Slots : Handle(s)
    <2>1. PICK s \in Slots : Handle(s)
      BY <1>2
    <2>2. \/ \E code \in Answers : Respond(s, code)
          \/ pc[s] \notin {"idle", "getVm"} /\ \E step \in Steps : Goto(s, step)
      BY <2>1 DEF Handle, Load, ProvisionLimits, CapiLimits, FreeTier, LoadSSHKeys,
                  CreateVm, Fits, Created, GetVm, Rejected, Pass, Refuse
    <2> QED
      BY <2>2 DEF Respond, Goto, TypeInv, TypeOK
  <1>3. CASE \E v \in VmIds : ProvisionEnds(v) \/ DestroyVm(v) \/ Index(v)
    BY <1>3 DEF ProvisionEnds, DestroyVm, Become, Index
  <1>4. CASE UNCHANGED vars
    BY <1>4 DEF vars
  <1> QED
    BY <1>1, <1>2, <1>3, <1>4 DEF Next

\* Only CreateVm adds a machine, and none changes its package.
LEMMA MachinesStay ==
    ASSUME TypeInv, [Next]_vars, \A s \in Slots : ~CreateVm(s), NEW W
    PROVE  /\ HeldOf(W)' \subseteq HeldOf(W)
           /\ \A v \in VmIds : vms[v] # NoVm => vms'[v].package = vms[v].package
  <1>1. CASE vms' = vms
    BY <1>1 DEF HeldOf, Active, RequestOf
  <1>2. ASSUME NEW v \in VmIds, ProvisionEnds(v) \/ DestroyVm(v)
        PROVE  /\ HeldOf(W)' \subseteq HeldOf(W)
               /\ \A w \in VmIds : vms[w] # NoVm => vms'[w].package = vms[w].package
    <2>1. \/ Active(v) /\ vms' = [vms EXCEPT ![v].state = "running"]
          \/ vms' = [vms EXCEPT ![v].state = "failed"]
          \/ vms' = [vms EXCEPT ![v].state = "destroyed"]
      BY <1>2 DEF ProvisionEnds, DestroyVm, Become, Active
    <2>2. vms[v] \in Vm
      BY <1>2 DEF ProvisionEnds, DestroyVm, Become, TypeInv, TypeOK, NoVm
    <2>3. Active(v)' => Active(v)
      BY <2>1, <2>2 DEF Active, TypeInv, TypeOK, Vm
    <2>4. RequestOf(v)' = RequestOf(v) /\ vms'[v].package = vms[v].package
      BY <2>1, <2>2 DEF RequestOf, TypeInv, TypeOK, Vm
    <2>5. \A w \in VmIds \ {v} : vms'[w] = vms[w]
      BY <2>1 DEF TypeInv, TypeOK
    <2> QED
      BY <2>3, <2>4, <2>5 DEF HeldOf, Active, RequestOf
  <1>3. \/ vms' = vms
        \/ \E v \in VmIds : ProvisionEnds(v) \/ DestroyVm(v)
    BY DEF Next, vars, Arrive, Handle, Load, ProvisionLimits, CapiLimits, FreeTier,
           LoadSSHKeys, GetVm, Rejected, Pass, Refuse, Index, backend
  <1> QED
    BY <1>1, <1>2, <1>3

\* What createVm does to the machines and to its request.
LEMMA CreateVmEffect ==
    ASSUME TypeInv, Lag # "long", NEW s \in Slots, CreateVm(s)
    PROVE  \/ UNCHANGED backend /\ Respond(s, "error")
           \/ \E v \in VmIds :
                 /\ vms[v] = NoVm
                 /\ vms' = [vms EXCEPT ![v] = [image |-> req[s].image,
                                               package |-> req[s].package,
                                               state |-> "provisioning"]]
                 /\ listed \subseteq listed'
                 /\ \/ Goto(s, "getVm") /\ made' = [made EXCEPT ![s] = v]
                    \/ Respond(s, "error") /\ v \in listed'
  BY DEF CreateVm, Fits, Created, Rejected

\* As long as nobody enters the steps after the check, the sum cannot grow.
LEMMA NobodyEnters ==
    ASSUME TypeInv, Lag # "long", [Next]_vars, NEW by \in By,
           NEW W \in SUBSET Request, NEW K, After(K), NEW n \in Int, Within(by, W, K, n),
           \A t \in Slots : pc'[t] \in K /\ pc[t] \notin K => req[t] \notin W
    PROVE  Within(by, W, K, n)'
  <1>1. /\ PassedOf(W, K)' \subseteq PassedOf(W, K)
        /\ \A t \in PassedOf(W, K)' : req'[t] = req[t]
    BY RequestsStay DEF PassedOf, After
  <1>2. \A v \in HeldOf(W) : v \in VmIds /\ vms[v] # NoVm
    BY DEF HeldOf, Active, NoVm
  <1>3. CASE \A s \in Slots : ~CreateVm(s)
    <2>1. /\ HeldOf(W)' \subseteq HeldOf(W)
          /\ \A v \in VmIds : vms[v] # NoVm => vms'[v].package = vms[v].package
      BY <1>3, MachinesStay
    <2>2. Kept(W, K)
      BY <1>1, <1>2, <2>1 DEF Kept
    <2> QED
      BY <1>1, <2>1, <2>2, Fewer
  <1>4. ASSUME NEW s \in Slots, CreateVm(s)
        PROVE  Within(by, W, K, n)'
    <2>1. CASE UNCHANGED backend
      <3>1. HeldOf(W)' \subseteq HeldOf(W) /\ Kept(W, K)
        BY <1>1, <2>1 DEF backend, HeldOf, Active, RequestOf, Kept
      <3> QED
        BY <1>1, <3>1, Fewer
    <2>2. ASSUME NEW v \in VmIds,
                 vms[v] = NoVm,
                 vms' = [vms EXCEPT ![v] = [image |-> req[s].image,
                                            package |-> req[s].package,
                                            state |-> "provisioning"]],
                 Goto(s, "getVm") \/ Respond(s, "error")
          PROVE  Within(by, W, K, n)'
      <3>1. pc[s] = "createVm" /\ req[s] \in Request
        BY <1>4 DEF CreateVm, Fits, Created, TypeInv
      <3>2. vms'[v] = [image |-> req[s].image, package |-> req[s].package,
                       state |-> "provisioning"]
        BY <2>2 DEF TypeInv, TypeOK
      <3>3. RequestOf(v)' = req[s]
        BY <3>1, <3>2 DEF RequestOf, Request
      <3>4. \A w \in VmIds \ {v} : vms'[w] = vms[w]
        BY <2>2 DEF TypeInv, TypeOK
      <3>5. HeldOf(W)' \subseteq HeldOf(W) \cup {v} /\ Kept(W, K)
        BY <1>1, <1>2, <2>2, <3>4 DEF HeldOf, Active, RequestOf, Kept
      <3>6. CASE req[s] \in W
        <4>1. s \in PassedOf(W, K)
          BY <3>1, <3>6 DEF PassedOf, After
        <4>2. pc'[s] \in {"getVm", "idle"}
          BY <2>2 DEF Goto, Respond, TypeInv, TypeOK
        <4>3. PassedOf(W, K)' \subseteq PassedOf(W, K) \ {s}
          BY <1>1, <4>2 DEF PassedOf, After
        <4>4. vms'[v].package = req[s].package
          BY <3>2
        <4> QED
          BY <2>2, <3>5, <4>1, <4>3, <4>4, Turned
      <3>7. CASE req[s] \notin W
        <4>1. v \notin HeldOf(W)'
          BY <3>3, <3>7 DEF HeldOf
        <4>2. HeldOf(W)' \subseteq HeldOf(W)
          BY <3>5, <4>1
        <4> QED
          BY <1>1, <3>5, <4>2, Fewer
      <3> QED
        BY <3>6, <3>7
    <2> QED
      BY <1>4, <2>1, <2>2, CreateVmEffect
  <1> QED
    BY <1>3, <1>4

LEMMA NextInHand ==
    ASSUME TypeInv, InHand, Lag # "long", [Next]_vars
    PROVE  InHand'
  <1> SUFFICES ASSUME NEW v \in VmIds, vms'[v] # NoVm, v \notin listed'
               PROVE  \E s \in Slots : pc'[s] = "getVm" /\ made'[s] = v
    BY DEF InHand
  <1>1. CASE \E s \in Slots : CreateVm(s)
    <2>1. PICK s \in Slots : CreateVm(s)
      BY <1>1
    <2>2. pc[s] = "createVm"
      BY <2>1 DEF CreateVm, Fits, Created
    <2>3. \/ UNCHANGED backend /\ Respond(s, "error")
          \/ \E u \in VmIds :
                 /\ vms' = [vms EXCEPT ![u] = [image |-> req[s].image,
                                               package |-> req[s].package,
                                               state |-> "provisioning"]]
                 /\ listed \subseteq listed'
                 /\ \/ Goto(s, "getVm") /\ made' = [made EXCEPT ![s] = u]
                    \/ Respond(s, "error") /\ u \in listed'
      BY <2>1, CreateVmEffect
    <2>4. CASE vms[v] # NoVm /\ v \notin listed
      <3>1. PICK t \in Slots : pc[t] = "getVm" /\ made[t] = v
        BY <2>4 DEF InHand
      <3>2. t # s
        BY <2>2, <3>1
      <3>3. pc'[t] = pc[t] /\ made'[t] = made[t]
        BY <2>3, <3>2 DEF Goto, Respond, TypeInv, TypeOK
      <3> QED
        BY <3>1, <3>3
    <2>5. CASE ~(vms[v] # NoVm /\ v \notin listed)
      <3>1. pc'[s] = "getVm" /\ made'[s] = v
        BY <2>3, <2>5 DEF backend, Goto, Respond, TypeInv, TypeOK
      <3> QED
        BY <3>1
    <2> QED
      BY <2>4, <2>5
  <1>2. CASE \A s \in Slots : ~CreateVm(s)
    <2>1. vms[v] # NoVm /\ v \notin listed
      <3>1. CASE \E w \in VmIds : ProvisionEnds(w) \/ DestroyVm(w)
        <4>1. PICK w \in VmIds : vms[w].state \in States /\ UNCHANGED listed
                  /\ \A u \in VmIds \ {w} : vms'[u] = vms[u]
          BY <3>1 DEF ProvisionEnds, DestroyVm, Become, States, TypeInv, TypeOK
        <4> QED
          BY <4>1 DEF NoVm, States
      <3>2. CASE \E w \in VmIds : Index(w)
        BY <3>2 DEF Index
      <3>3. CASE UNCHANGED backend
        BY <3>3 DEF backend
      <3> QED
        BY <1>2, <3>1, <3>2, <3>3 DEF Next, vars, Arrive, Handle, Load, ProvisionLimits,
               CapiLimits, FreeTier, LoadSSHKeys, GetVm, Rejected, Pass, Refuse, backend
    <2>2. PICK t \in Slots : pc[t] = "getVm" /\ made[t] = v
      BY <2>1 DEF InHand
    <2>3. pc'[t] = pc[t] /\ made'[t] = made[t]
      <3>1. CASE \E s \in Slots : Arrive(s)
        BY <2>2, <3>1 DEF Arrive, TypeInv, TypeOK
      <3>2. ASSUME NEW s \in Slots, Handle(s)
            PROVE  pc'[t] = pc[t] /\ made'[t] = made[t]
        <4>1. s # t
          BY <1>2, <2>1, <2>2, <3>2 DEF Handle, Load, ProvisionLimits, CapiLimits,
                 FreeTier, LoadSSHKeys, GetVm
        <4>2. (\E code \in Answers : Respond(s, code))
                  \/ (\E step \in Steps : Goto(s, step) /\ UNCHANGED made)
          BY <1>2, <3>2 DEF Handle, Load, ProvisionLimits, CapiLimits, FreeTier,
                 LoadSSHKeys, GetVm, Rejected, Pass, Refuse
        <4> QED
          BY <4>1, <4>2 DEF Respond, Goto, TypeInv, TypeOK
      <3>3. CASE \E w \in VmIds : ProvisionEnds(w) \/ DestroyVm(w) \/ Index(w)
        BY <3>3 DEF ProvisionEnds, DestroyVm, Become, Index
      <3>4. CASE UNCHANGED vars
        BY <3>4 DEF vars
      <3> QED
        BY <3>1, <3>2, <3>3, <3>4 DEF Next
    <2> QED
      BY <2>2, <2>3
  <1> QED
    BY <1>1, <1>2

LEMMA InitSums ==
    ASSUME Init, NEW by, NEW W, NEW K, After(K), NEW n \in Int, n >= 0
    PROVE  InHand /\ Within(by, W, K, n)
  <1>1. HeldOf(W) = {} /\ PassedOf(W, K) = {}
    BY DEF Init, HeldOf, Active, NoVm, PassedOf, After
  <1>2. Total(SizesOf(by, HeldOf(W))) = 0
    BY <1>1, TotalOfNone DEF SizesOf
  <1>3. Total(DuesOf(by, PassedOf(W, K))) = 0
    BY <1>1, TotalOfNone DEF DuesOf
  <1>4. InHand
    BY DEF Init, InHand
  <1> QED
    BY <1>2, <1>3, <1>4 DEF Within

\* The only steps that lead past a check.
LEMMA Entrances ==
    ASSUME TypeInv, [Next]_vars, NEW s \in Slots
    PROVE  /\ pc[s] # pc'[s] /\ pc'[s] = "capi_limits" => ProvisionLimits(s)
           /\ pc[s] # pc'[s] /\ pc'[s] = "jpc_free_tier" => CapiLimits(s)
           /\ pc[s] # pc'[s] /\ pc'[s] = "loadSSHKeys" => FreeTier(s)
           /\ pc[s] # pc'[s] /\ pc'[s] = "createVm" => pc[s] = "loadSSHKeys"
  <1>1. CASE UNCHANGED pc
    BY <1>1
  <1>2. ASSUME NEW t \in Slots, Arrive(t)
        PROVE  pc'[s] # pc[s] => pc'[s] = "load"
    BY <1>2 DEF Arrive, TypeInv, TypeOK
  <1>3. ASSUME NEW t \in Slots, Handle(t)
        PROVE  /\ pc'[s] # pc[s] => s = t
               /\ pc'[t] = "capi_limits" => ProvisionLimits(t)
               /\ pc'[t] = "jpc_free_tier" => CapiLimits(t)
               /\ pc'[t] = "loadSSHKeys" => FreeTier(t)
               /\ pc'[t] = "createVm" => pc[t] = "loadSSHKeys"
    <2>1. ASSUME NEW code \in Answers, Respond(t, code)
          PROVE  pc'[t] = "idle" /\ (pc'[s] # pc[s] => s = t)
      BY <2>1 DEF Respond, TypeInv, TypeOK
    <2>2. ASSUME NEW step \in Steps, Goto(t, step)
          PROVE  pc'[t] = step /\ (pc'[s] # pc[s] => s = t)
      BY <2>2 DEF Goto, TypeInv, TypeOK
    <2>3. CASE Load(t)
      BY <2>1, <2>2, <2>3 DEF Load, Rejected, Pass
    <2>4. CASE ProvisionLimits(t)
      BY <2>1, <2>2, <2>4 DEF ProvisionLimits, Rejected, Pass, Refuse
    <2>5. CASE CapiLimits(t)
      BY <2>1, <2>2, <2>5 DEF CapiLimits, Rejected, Pass, Refuse
    <2>6. CASE FreeTier(t)
      BY <2>1, <2>2, <2>6 DEF FreeTier, Rejected, Pass, Refuse
    <2>7. CASE LoadSSHKeys(t)
      BY <2>1, <2>2, <2>7 DEF LoadSSHKeys, Rejected, Pass
    <2>8. CASE CreateVm(t)
      BY <2>1, <2>2, <2>8 DEF CreateVm, Rejected
    <2>9. CASE GetVm(t)
      BY <2>1, <2>2, <2>9 DEF GetVm, Rejected
    <2> QED
      BY <1>3, <2>3, <2>4, <2>5, <2>6, <2>7, <2>8, <2>9 DEF Handle
  <1>4. \/ UNCHANGED pc
        \/ \E t \in Slots : Arrive(t) \/ Handle(t)
    BY DEF Next, vars, ProvisionEnds, DestroyVm, Become, Index
  <1> QED
    BY <1>1, <1>2, <1>3, <1>4

\* A request that goes on leaves machines and other requests where they are.
LEMMA PassSet ==
    ASSUME TypeInv, NEW s \in Slots, NEW step \in Steps, Pass(s, step), NEW W, NEW K
    PROVE  /\ HeldOf(W)' = HeldOf(W)
           /\ PassedOf(W, K)' \subseteq PassedOf(W, K) \cup {s}
           /\ Kept(W, K)
  BY DEF Pass, Goto, backend, HeldOf, Active, RequestOf, PassedOf, Kept, TypeInv, TypeOK

-----------------------------------------------------------------------------
(* provision_limits.                                                       *)

About(l) == {r \in Request : Relevant(r.image, l)}

AfterLimits == {"capi_limits", "jpc_free_tier", "loadSSHKeys", "createVm"}

\* Versions of an image run the same operating system.
NamesFixOs ==
    \A i, j \in Images : NameOf[i] = NameOf[j] => OsOf[i] = OsOf[j]

LEMMA HeldAbout ==
    ASSUME TypeInv, NEW l
    PROVE  HeldOf(About(l)) = Held(l)
  <1>1. ASSUME NEW v \in VmIds, Active(v)
        PROVE  RequestOf(v) \in Request /\ RequestOf(v).image = vms[v].image
    BY <1>1 DEF Active, TypeInv, TypeOK, NoVm, Vm, RequestOf, Request
  <1> QED
    BY <1>1 DEF HeldOf, Held, About

LEMMA LimitFields ==
    ASSUME NEW l \in Defaults \cup Parsed
    PROVE  l.value \in Int /\ l.check \in {"os", "image"} /\ l.by \in By
  <1>1. CASE l \in Defaults \cup Custom
    BY <1>1, LimitsAssumption DEF Limit, By
  <1>2. CASE l \notin Defaults \cup Custom
    BY <1>2, LimitsAssumption DEF Parsed, By
  <1> QED
    BY <1>1, <1>2

\* The plugin counts every machine that the index shows and the limit is about.
LEMMA AllCounted ==
    ASSUME TypeInv, NamesFixOs, NEW l \in Defaults \cup Parsed, l.value # 0,
           NEW image \in Images, l \in FilterLimits(image), Relevant(image, l)
    PROVE  Held(l) \cap listed \subseteq Counted(l, image, Listing)
  <1> SUFFICES ASSUME NEW v \in VmIds, Active(v), v \in listed, Relevant(vms[v].image, l)
               PROVE  v \in Counted(l, image, Listing)
    BY DEF Held
  <1>1. v \in Listing /\ vms[v].image \in Images
    BY DEF Listing, Active, TypeInv, TypeOK, NoVm, Vm
  <1>2. CASE CatchAll(l)
    BY <1>1, <1>2 DEF Counted
  <1>3. CASE ~CatchAll(l) /\ l.check = "os"
    <2>1. OsOf[vms[v].image] = OsOf[image]
      BY <1>3 DEF Relevant
    <2>2. vms[v].image \in Fetched(image)
      BY <1>1, <1>3, <2>1 DEF Fetched
    <2> QED
      BY <1>1, <1>3, <2>1, <2>2 DEF Counted
  <1>4. CASE ~CatchAll(l) /\ l.check = "image"
    <2>1. NameOf[vms[v].image] = NameOf[image]
      BY <1>4 DEF Relevant
    <2>2. OsOf[vms[v].image] = OsOf[image]
      BY <1>1, <2>1 DEF NamesFixOs
    <2>3. vms[v].image \in Fetched(image)
      BY <1>1, <2>1, <2>2 DEF Fetched
    <2> QED
      BY <1>1, <1>4, <2>1, <2>3 DEF Counted
  <1> QED
    BY <1>2, <1>3, <1>4, LimitFields

\* What the plugin sums up for a limit is no more than what the account holds.
LEMMA CountedAreHeld ==
    ASSUME TypeInv, NEW l, NEW image \in Images, Relevant(image, l)
    PROVE  Counted(l, image, Listing) \subseteq {v \in Held(l) : v \in listed}
  <1> SUFFICES ASSUME NEW v \in Counted(l, image, Listing)
               PROVE  v \in VmIds /\ Active(v) /\ v \in listed /\ Relevant(vms[v].image, l)
    BY DEF Held
  <1>1. v \in listed /\ v \in VmIds /\ Active(v)
    BY DEF Counted, Listing, TypeInv, TypeOK
  <1> QED
    BY <1>1 DEF Counted, Relevant

LEMMA AmountsGrow ==
    ASSUME TypeInv, NEW by \in By, NEW l, NEW M \in SUBSET Held(l), NEW L \in SUBSET M
    PROVE  /\ Amount(by, L) \in Nat /\ Amount(by, M) \in Nat
           /\ Amount(by, L) <= Amount(by, M)
  <1> DEFINE f == [v \in M |-> Increment(by, vms[v].package)]
             g == [v \in L |-> Increment(by, vms[v].package)]
  <1>1. \A v \in M : Increment(by, vms[v].package) \in Nat
    BY IncrementType DEF Held, Active, TypeInv, TypeOK, NoVm, Vm
  <1>2. f \in [M -> Nat] /\ g \in [L -> Nat] /\ \A v \in L : g[v] = f[v]
    BY <1>1
  <1>3. IsFiniteSet(M) /\ IsFiniteSet(L)
    <2>1. M \in SUBSET VmIds
      BY DEF Held
    <2> QED
      BY <2>1, FS_Subset, ProvisionAssumption
  <1>4. Amount(by, M) = Total(f) /\ Amount(by, L) = Total(g)
    BY DEF Amount
  <1> HIDE DEF f, g
  <1>5. Total(g) <= Total(f) /\ Total(g) \in Nat /\ Total(f) \in Nat
    BY <1>2, <1>3, TotalOfPart, TotalType
  <1> QED
    BY <1>4, <1>5

LEMMA HeldTypes ==
    ASSUME TypeInv, NEW by \in By, NEW l, NEW M \in SUBSET Held(l)
    PROVE  /\ IsFiniteSet(M)
           /\ \A v \in M : vms[v].package \in Packages /\ Increment(by, vms[v].package) \in Nat
  <1>1. M \in SUBSET VmIds
    BY DEF Held
  <1>2. \A v \in M : vms[v].package \in Packages
    BY DEF Held, Active, TypeInv, TypeOK, NoVm, Vm
  <1> QED
    BY <1>1, <1>2, FS_Subset, ProvisionAssumption, IncrementType

\* Number and memory: VMAPI lists what was asked for.
LEMMA SumIsAmount ==
    ASSUME NEW by, by # "quota", NEW M
    PROVE  Sum(by, M) = Amount(by, M)
  <1>1. \A v \in M : Size(by, vms[v]) = Increment(by, vms[v].package)
    BY DEF Size
  <1>2. [v \in M |-> Size(by, vms[v])] = [v \in M |-> Increment(by, vms[v].package)]
    BY <1>1
  <1> QED
    BY <1>2 DEF Sum, Amount

\* Disk: VMAPI lists no more GiB than the package has MiB, if that is 10 at least.
LEMMA SumBelowAmount ==
    ASSUME TypeInv, \A p \in Packages : Quota[p] >= 10,
           NEW by \in By, NEW l, NEW M \in SUBSET Held(l)
    PROVE  Sum(by, M) \in Nat /\ Amount(by, M) \in Nat /\ Sum(by, M) <= Amount(by, M)
  <1> DEFINE f == [v \in M |-> Increment(by, vms[v].package)]
             g == [v \in M |-> Size(by, vms[v])]
  <1>1. \A p \in Packages : Quota[p] \in Nat
    BY ProvisionAssumption
  <1>2. \A n \in Nat : n \div 1024 \in Nat /\ n \div 1024 <= n
    OBVIOUS
  <1>3. \A v \in M : vms[v].package \in Packages /\ Increment(by, vms[v].package) \in Nat
    BY HeldTypes
  <1>4. ASSUME NEW v \in M
        PROVE  Size(by, vms[v]) \in Nat /\ Size(by, vms[v]) <= Increment(by, vms[v].package)
    <2>1. CASE by # "quota"
      BY <1>3, <2>1 DEF Size
    <2>2. CASE by = "quota"
      <3>1. Increment(by, vms[v].package) = Quota[vms[v].package]
        BY <2>2 DEF Increment
      <3>2. Size(by, vms[v]) \in {10, Quota[vms[v].package] \div 1024}
        BY <2>2 DEF Size
      <3>3. Quota[vms[v].package] \in Nat /\ Quota[vms[v].package] >= 10
        BY <1>1, <1>3
      <3> QED
        BY <1>2, <3>1, <3>2, <3>3
    <2> QED
      BY <2>1, <2>2
  <1>5. f \in [M -> Nat] /\ g \in [M -> Nat] /\ \A v \in M : g[v] <= f[v]
    BY <1>3, <1>4
  <1>6. Amount(by, M) = Total(f) /\ Sum(by, M) = Total(g)
    BY DEF Amount, Sum
  <1>7. IsFiniteSet(M)
    BY HeldTypes
  <1> HIDE DEF f, g
  <1>8. Total(g) <= Total(f) /\ Total(g) \in Nat /\ Total(f) \in Nat
    BY <1>5, <1>7, TotalOfSmaller, TotalType
  <1> QED
    BY <1>6, <1>8

\* Invariant of a limit: what the machines take and what those still to come will.
Overshot(l, p) == l.value + (Cardinality(Slots) - 1) * Increment(l.by, p)

LimitInv(l) ==
    \A p \in Largest(l.by) : Within(l.by, About(l), AfterLimits, Overshot(l, p))

LEMMA LimitBound ==
    ASSUME NEW l \in Defaults \cup Parsed, InForce(l), NEW p \in Largest(l.by)
    PROVE  /\ Overshot(l, p) \in Int
           /\ Overshot(l, p) >= 0
           /\ Increment(l.by, p) \in Nat
           /\ \A q \in Packages : Increment(l.by, q) <= Increment(l.by, p)
  <1>1. Cardinality(Slots) \in Nat /\ Cardinality(Slots) # 0
    BY FS_CardinalityType, FS_EmptySet, ProvisionAssumption
  <1>2. l.value \in Int /\ l.value > 0 /\ l.by \in By
    BY LimitFields DEF InForce
  <1>3. Increment(l.by, p) \in Nat
    BY <1>2, IncrementType DEF Largest
  <1>4. (Cardinality(Slots) - 1) * Increment(l.by, p) \in Nat
    <2>1. \A a, b \in Nat : a * b \in Nat
      OBVIOUS
    <2>2. Cardinality(Slots) - 1 \in Nat
      BY <1>1
    <2> QED
      BY <1>3, <2>1, <2>2
  <1>5. \A q \in Packages : Increment(l.by, q) <= Increment(l.by, p)
    BY DEF Largest
  <1> QED
    BY <1>2, <1>3, <1>4, <1>5 DEF Overshot

LEMMA SetsOfLimit ==
    ASSUME NEW l
    PROVE  After(AfterLimits) /\ About(l) \in SUBSET Request
  BY DEF After, AfterLimits, About

LEMMA CheckedLimit ==
    ASSUME TypeInv, InHand, NamesFixOs,
           NEW l \in Defaults \cup Parsed, InForce(l), l.by # "quota",
           NEW p \in Largest(l.by), NEW s \in Slots, ProvisionLimits(s), pc'[s] = "capi_limits",
           req[s] \in About(l)
    PROVE  Within(l.by, About(l), AfterLimits, Overshot(l, p))'
  <1> DEFINE image == req[s].image
             inc == Increment(l.by, req[s].package)
             M == Counted(l, image, Listing)
             L == HeldOf(About(l)) \cap listed
  <1>1. pc[s] = "provision_limits" /\ req[s] \in Request /\ image \in Images
    BY DEF ProvisionLimits, TypeInv, Request
  <1>2. Enabled("provision_limits") /\ l.value > 0 /\ l \in FilterLimits(image)
    BY <1>1 DEF InForce, About
  <1>3. Pass(s, "capi_limits") /\ Satisfies(l, req[s])
    BY <1>2 DEF ProvisionLimits, Rejected, Refuse, Respond, TypeInv, TypeOK
  <1>4. l.value \in Int /\ l.by \in By /\ inc \in Nat /\ Relevant(image, l)
    BY <1>1, LimitFields, IncrementType, RequestFields DEF About
  <1>5. Amount(l.by, M) + inc <= l.value
    <2>1. Sum(l.by, M) + inc <= l.value
      BY <1>2, <1>3, <1>4 DEF Satisfies
    <2> QED
      BY <2>1, SumIsAmount
  <1>6. M \in SUBSET Held(l) /\ L \in SUBSET M
    <2>1. l.value # 0
      BY <1>2, <1>4
    <2> QED
      BY <1>1, <1>2, <1>4, <2>1, CountedAreHeld, AllCounted, HeldAbout
  <1>7. Amount(l.by, L) = Total(SizesOf(l.by, L))
    BY DEF Amount, SizesOf
  <1>8. Total(SizesOf(l.by, L)) + inc <= l.value
    <2> HIDE DEF L, M, inc
    <2>1. /\ Amount(l.by, L) \in Nat /\ Amount(l.by, M) \in Nat
          /\ Amount(l.by, L) <= Amount(l.by, M)
      BY <1>4, <1>6, AmountsGrow
    <2> QED
      BY <1>4, <1>5, <1>7, <2>1
  <1>9. /\ HeldOf(About(l))' = HeldOf(About(l))
        /\ PassedOf(About(l), AfterLimits)' \subseteq PassedOf(About(l), AfterLimits) \cup {s}
        /\ Kept(About(l), AfterLimits)
    BY <1>3, PassSet
  <1>10. pc[s] # "getVm"
    BY <1>1
  <1> QED
    BY <1>4, <1>8, <1>9, <1>10, LimitBound, SetsOfLimit, Newcomer DEF Overshot

LEMMA LimitStep ==
    ASSUME Lag # "long", NamesFixOs, TypeInv, InHand, [Next]_vars,
           NEW l \in Defaults \cup Parsed, InForce(l), l.by # "quota",
           NEW p \in Largest(l.by), Within(l.by, About(l), AfterLimits, Overshot(l, p))
    PROVE  Within(l.by, About(l), AfterLimits, Overshot(l, p))'
  <1>1. CASE \A t \in Slots :
                 pc'[t] \in AfterLimits /\ pc[t] \notin AfterLimits => req[t] \notin About(l)
    BY <1>1, LimitFields, LimitBound, SetsOfLimit, NobodyEnters
  <1>2. ASSUME NEW s \in Slots, pc'[s] \in AfterLimits, pc[s] \notin AfterLimits,
               req[s] \in About(l)
        PROVE  Within(l.by, About(l), AfterLimits, Overshot(l, p))'
    <2>1. ProvisionLimits(s) /\ pc'[s] = "capi_limits"
      BY <1>2, Entrances DEF AfterLimits, CapiLimits, FreeTier
    <2> QED
      BY <1>2, <2>1, CheckedLimit
  <1> QED
    BY <1>1, <1>2

\* A limit that provision_limits always applies, on the number of machines or on memory,
\* is overshot by at most the largest machine for each other POST in flight, if VMAPI
\* indexes a new machine before create() gives up on it.
THEOREM LimitsAreKept ==
    ASSUME Lag # "long", NamesFixOs
    PROVE  Spec => []LimitsHold
  <1> DEFINE Inv == \A l \in Defaults \cup Parsed :
                        InForce(l) /\ l.by # "quota" => LimitInv(l)
  <1>1. Init => InHand /\ Inv
    BY InitSums, LimitBound, SetsOfLimit DEF LimitInv, Init, InHand
  <1>2. TypeInv /\ InHand /\ Inv /\ [Next]_vars => InHand' /\ Inv'
    <2> SUFFICES ASSUME TypeInv, InHand, Inv, [Next]_vars,
                        NEW l \in Defaults \cup Parsed, InForce(l), l.by # "quota",
                        NEW p \in Largest(l.by)
                 PROVE  Within(l.by, About(l), AfterLimits, Overshot(l, p))'
      BY NextInHand DEF InForce, Enabled, Relevant, FilterLimits, Mine, Everybodys,
             LimitInv, Largest, Increment
    <2> QED
      BY LimitStep DEF LimitInv
  <1>3. TypeInv /\ Inv => LimitsHold
    <2> SUFFICES ASSUME TypeInv, NEW l \in Defaults \cup Parsed, InForce(l), LimitInv(l),
                        NEW p \in Largest(l.by)
                 PROVE  Amount(l.by, Held(l)) <= Overshot(l, p)
      BY DEF LimitsHold, HeldWithin, Overshot
    <2>1. Within(l.by, About(l), AfterLimits, Overshot(l, p))
      BY DEF LimitInv
    <2>2. Amount(l.by, Held(l)) = Total(SizesOf(l.by, HeldOf(About(l))))
      BY HeldAbout DEF Amount, SizesOf
    <2>3. /\ Total(SizesOf(l.by, HeldOf(About(l)))) \in Nat
          /\ Total(DuesOf(l.by, PassedOf(About(l), AfterLimits))) \in Nat
      BY LimitFields, SetsOfLimit, SizesOK
    <2> QED
      BY <2>1, <2>2, <2>3, LimitBound DEF Within
  <1> QED
    BY <1>1, <1>2, <1>3, TypeInvariant, PTL DEF Spec

\* Packages are finitely many, so that one of them takes most.
LEMMA LargestExists ==
    ASSUME IsFiniteSet(Packages), Packages # {}, NEW by \in By
    PROVE  Largest(by) # {}
  <1> DEFINE above == [p \in Packages |-> {q \in Packages : Increment(by, q) > Increment(by, p)}]
             Aboves == {above[p] : p \in Packages}
  <1>1. \A p \in Packages : Increment(by, p) \in Nat
    BY IncrementType
  <1>2. IsWellFoundedOn(StrictSubsetOrdering(Packages), SUBSET Packages)
    BY FS_FiniteSubsetsOfFinite, FS_StrictSubsetOrderingWellFounded
  <1>3. Aboves \subseteq SUBSET Packages /\ Aboves # {}
    OBVIOUS
  <1>4. PICK A \in Aboves : \A B \in Aboves : <<B, A>> \notin StrictSubsetOrdering(Packages)
    <2> HIDE DEF Aboves
    <2> QED
      BY <1>2, <1>3, WFMin
  <1>5. PICK p \in Packages : A = above[p]
    OBVIOUS
  <1>6. ASSUME NEW q \in Packages, Increment(by, q) > Increment(by, p)
        PROVE  FALSE
    <2>1. \A r \in above[q] : r \in above[p]
      BY <1>1, <1>6
    <2>2. q \in above[p] /\ q \notin above[q]
      BY <1>1, <1>6
    <2>3. above[q] \in Aboves /\ above[q] \in SUBSET Packages /\ above[p] \in SUBSET Packages
      OBVIOUS
    <2> HIDE DEF above, Aboves
    <2>4. <<above[q], above[p]>> \in StrictSubsetOrdering(Packages)
      BY <2>1, <2>2, <2>3 DEF StrictSubsetOrdering
    <2> QED
      BY <1>4, <1>5, <2>3, <2>4
  <1>7. \A q \in Packages : Increment(by, q) <= Increment(by, p)
    BY <1>1, <1>6
  <1> QED
    BY <1>7 DEF Largest

\* An account that creates one machine after the other never exceeds a limit on number
\* or memory that provision_limits always applies, calls that fail and lost replies
\* included.
THEOREM SerialAccountsKeepLimits ==
    ASSUME Lag # "long", NamesFixOs, Cardinality(Slots) = 1, IsFiniteSet(Packages)
    PROVE  Spec => [](\A l \in Defaults \cup Parsed :
                          InForce(l) /\ l.by # "quota" => Amount(l.by, Held(l)) <= l.value)
  <1>1. ASSUME TypeInv, LimitsHold, NEW l \in Defaults \cup Parsed, InForce(l),
               l.by # "quota"
        PROVE  Amount(l.by, Held(l)) <= l.value
    <2>1. l.by \in By /\ l.value \in Int /\ l.value > 0
      BY <1>1, LimitFields DEF InForce
    <2>2. CASE Packages = {}
      <3>1. Held(l) = {}
        BY <1>1, <2>2, HeldPackages, HeldAbout
      <3>2. Amount(l.by, Held(l)) = 0
        BY <3>1, TotalOfNone DEF Amount
      <3> QED
        BY <2>1, <3>2
    <2>3. CASE Packages # {}
      <3>1. PICK p : p \in Largest(l.by)
        BY <2>1, <2>3, LargestExists
      <3>2. Amount(l.by, Held(l)) <= l.value + (Cardinality(Slots) - 1) * Increment(l.by, p)
        BY <1>1, <3>1 DEF LimitsHold, HeldWithin
      <3>3. l.value + (Cardinality(Slots) - 1) * Increment(l.by, p) = l.value
        <4>1. Increment(l.by, p) \in Nat
          BY <2>1, <3>1, IncrementType DEF Largest
        <4>2. \A n \in Nat : (1 - 1) * n = 0
          OBVIOUS
        <4> QED
          BY <2>1, <4>1, <4>2
      <3> QED
        BY <3>2, <3>3
    <2> QED
      BY <2>2, <2>3
  <1>2. TypeInv /\ LimitsHold =>
            \A l \in Defaults \cup Parsed :
                InForce(l) /\ l.by # "quota" => Amount(l.by, Held(l)) <= l.value
    BY <1>1
  <1>3. Spec => []LimitsHold
    BY LimitsAreKept
  <1> QED
    BY <1>2, <1>3, TypeInvariant, PTL

-----------------------------------------------------------------------------
(* Refusals by provision_limits.                                           *)

\* What the plugin applies to an image is a part of what the administrator's guide
\* says applies to it.
LEMMA FilteredAreDocumented ==
    ASSUME NEW image
    PROVE  /\ FilterLimits(image) \subseteq DocumentedLimits(image)
           /\ \A l \in FilterLimits(image) : l \in Defaults \cup Parsed /\ Relevant(image, l)
  BY DEF FilterLimits, DocumentedLimits, Mine, Everybodys

\* A request in flight has no answer yet.
Unanswered == \A s \in Slots : pc[s] # "idle" => answer[s] = "none"

\* Every step is one of a slot, or leaves the requests alone.
LEMMA Slotwise ==
    ASSUME TypeInv, [Next]_vars
    PROVE  \/ \E t \in Slots : Arrive(t)
           \/ \E t \in Slots : /\ Handle(t)
                               /\ \/ \E code \in Answers : Respond(t, code)
                                  \/ \E step \in Steps : Goto(t, step)
           \/ UNCHANGED <<pc, req, made, answer>>
  <1>1. ASSUME NEW t \in Slots, Handle(t)
        PROVE  (\E code \in Answers : Respond(t, code)) \/ \E step \in Steps : Goto(t, step)
    BY <1>1 DEF Handle, Load, ProvisionLimits, CapiLimits, FreeTier, LoadSSHKeys,
           CreateVm, Fits, Created, GetVm, Rejected, Pass, Refuse
  <1> QED
    BY <1>1 DEF Next, vars, ProvisionEnds, DestroyVm, Become, Index

LEMMA UnansweredKept ==
    ASSUME TypeInv, Unanswered, [Next]_vars
    PROVE  Unanswered'
  <1>1. ASSUME NEW t \in Slots, Arrive(t)
        PROVE  Unanswered'
    BY <1>1 DEF Arrive, Unanswered, TypeInv, TypeOK
  <1>2. ASSUME NEW t \in Slots, Handle(t),
               (\E code \in Answers : Respond(t, code)) \/ \E step \in Steps : Goto(t, step)
        PROVE  Unanswered'
    <2>1. pc[t] # "idle"
      BY <1>2 DEF Handle, Load, ProvisionLimits, CapiLimits, FreeTier, LoadSSHKeys,
             CreateVm, GetVm
    <2> QED
      BY <1>2, <2>1 DEF Respond, Goto, Unanswered, TypeInv, TypeOK
  <1> QED
    BY <1>1, <1>2, Slotwise DEF Unanswered

\* A refusal at provision_limits is the plugin's.
LEMMA RefusedHere ==
    ASSUME TypeInv, Unanswered, [Next]_vars, NEW s \in Slots,
           pc[s] = "provision_limits", answer'[s] = "403"
    PROVE  ProvisionLimits(s) /\ answer'[s] # answer[s]
  <1>1. answer[s] = "none"
    BY DEF Unanswered
  <1>2. ASSUME NEW t \in Slots, Arrive(t)
        PROVE  answer'[s] = answer[s]
    BY <1>1, <1>2 DEF Arrive, TypeInv, TypeOK
  <1>3. ASSUME NEW t \in Slots, Handle(t),
               (\E code \in Answers : Respond(t, code)) \/ \E step \in Steps : Goto(t, step)
        PROVE  ProvisionLimits(s)
    <2>1. t = s
      BY <1>1, <1>3 DEF Respond, Goto, TypeInv, TypeOK
    <2> QED
      BY <1>3, <2>1 DEF Handle, Load, CapiLimits, FreeTier, LoadSSHKeys, CreateVm, GetVm
  <1> QED
    BY <1>1, <1>2, <1>3, Slotwise

\* Every refusal of provision_limits is due to a limit that the administrator's
\* guide says applies, and that the machines the index shows, with their disk in MiB as
\* the guide has it, leave no room under: what the plugin sums up is never more.
THEOREM RefusalsHaveCause ==
    ASSUME \A p \in Packages : Quota[p] >= 10
    PROVE  Spec => RefusalsAreDue
  <1>1. TypeInv /\ Unanswered /\ [Next]_vars =>
            \A s \in Slots :
                pc[s] = "provision_limits" /\ answer'[s] = "403" =>
                    \E l \in DocumentedLimits(req[s].image) :
                        \/ l.value < 0
                        \/ /\ l.value > 0
                           /\ Amount(l.by, {v \in Held(l) : v \in listed})
                                  + Increment(l.by, req[s].package) > l.value
    <2> SUFFICES ASSUME TypeInv, Unanswered, [Next]_vars, NEW s \in Slots,
                        pc[s] = "provision_limits", answer'[s] = "403"
                 PROVE  \E l \in DocumentedLimits(req[s].image) :
                            \/ l.value < 0
                            \/ /\ l.value > 0
                               /\ Amount(l.by, {v \in Held(l) : v \in listed})
                                      + Increment(l.by, req[s].package) > l.value
      OBVIOUS
    <2> DEFINE image == req[s].image
    <2>1. req[s] \in Request /\ image \in Images /\ req[s].package \in Packages
      BY RequestFields DEF TypeInv
    <2>2. ProvisionLimits(s) /\ answer'[s] = "403" /\ answer'[s] # answer[s]
      BY RefusedHere
    <2>3. \E l \in FilterLimits(image) : ~Satisfies(l, req[s])
      BY <2>2 DEF ProvisionLimits, Rejected, Pass, Goto, Respond, TypeInv, TypeOK
    <2>4. PICK l \in FilterLimits(image) : ~Satisfies(l, req[s])
      BY <2>3
    <2>5. l \in DocumentedLimits(image) /\ l \in Defaults \cup Parsed /\ Relevant(image, l)
      BY FilteredAreDocumented
    <2>6. l.value \in Int /\ l.by \in By
      BY <2>5, LimitFields
    <2>7. CASE l.value < 0
      BY <2>5, <2>7
    <2>8. CASE l.value > 0
      <3> DEFINE inc == Increment(l.by, req[s].package)
                 M == {v \in Held(l) : v \in listed}
                 L == Counted(l, image, Listing)
      <3>1. inc \in Nat
        BY <2>1, <2>6, IncrementType
      <3>2. M \in SUBSET Held(l) /\ L \in SUBSET M
        BY <2>1, <2>5, CountedAreHeld
      <3>3. ~(Sum(l.by, L) + inc <= l.value)
        BY <2>4, <2>6, <2>8 DEF Satisfies
      <3>4. Amount(l.by, M) + inc > l.value
        <4>1. L \in SUBSET Held(l)
          BY <3>2
        <4> HIDE DEF M, L, inc
        <4>2. /\ Amount(l.by, L) \in Nat /\ Amount(l.by, M) \in Nat
              /\ Amount(l.by, L) <= Amount(l.by, M)
          BY <2>6, <3>2, AmountsGrow
        <4>3. Sum(l.by, L) \in Nat /\ Sum(l.by, L) <= Amount(l.by, L)
          BY <2>6, <4>1, SumBelowAmount
        <4> QED
          BY <2>6, <3>1, <3>3, <4>2, <4>3
      <3> QED
        BY <2>5, <2>8, <3>4
    <2> QED
      BY <2>4, <2>6, <2>7, <2>8 DEF Satisfies
  <1>2. Init => Unanswered
    BY DEF Init, Unanswered
  <1>3. TypeInv /\ Unanswered /\ [Next]_vars => Unanswered'
    BY UnansweredKept
  <1> QED
    BY <1>1, <1>2, <1>3, TypeInvariant, PTL DEF Spec, RefusalsAreDue

-----------------------------------------------------------------------------
(* Plugins that compare the number of machines with a number: the same     *)
(* argument, with machines all of one size.                                *)

MachinesBelow(W, K, m) == Within("machines", W, K, m + Cardinality(Slots) - 1)

LEMMA SumOfMachines ==
    ASSUME NEW W
    PROVE  Total(SizesOf("machines", HeldOf(W))) = Cardinality(HeldOf(W))
  <1>1. SizesOf("machines", HeldOf(W)) = [v \in HeldOf(W) |-> 1]
    BY DEF SizesOf, Increment
  <1> QED
    BY <1>1, FiniteCounts, TotalOfOnes

LEMMA SlotsCount == Cardinality(Slots) \in Nat \ {0}
  BY FS_CardinalityType, FS_EmptySet, ProvisionAssumption

\* Who is let past the check has counted fewer than m machines that are listed.
LEMMA NumberStep ==
    ASSUME Lag # "long", TypeInv, InHand, [Next]_vars,
           NEW W \in SUBSET Request, NEW K, After(K), NEW m \in Nat,
           MachinesBelow(W, K, m),
           \A s \in Slots : pc'[s] \in K /\ pc[s] \notin K /\ req[s] \in W =>
               /\ \E step \in Steps : Pass(s, step)
               /\ pc[s] # "getVm"
               /\ Cardinality(HeldOf(W) \cap listed) < m
    PROVE  MachinesBelow(W, K, m)'
  <1>1. "machines" \in By /\ m + Cardinality(Slots) - 1 \in Int /\ UNCHANGED m
    BY SlotsCount DEF By
  <1>2. CASE \A s \in Slots : pc'[s] \in K /\ pc[s] \notin K => req[s] \notin W
    BY <1>1, <1>2, NobodyEnters DEF MachinesBelow
  <1>3. ASSUME NEW s \in Slots, pc'[s] \in K, pc[s] \notin K, req[s] \in W
        PROVE  MachinesBelow(W, K, m)'
    <2> DEFINE L == HeldOf(W) \cap listed
    <2>1. PICK step \in Steps : Pass(s, step)
      BY <1>3
    <2>2. pc[s] # "getVm" /\ Cardinality(L) < m
      BY <1>3
    <2>3. Total(SizesOf("machines", L)) = Cardinality(L) /\ Cardinality(L) \in Nat
      <3>1. L \in SUBSET HeldOf(W)
        OBVIOUS
      <3>2. IsFiniteSet(L)
        BY <3>1, FiniteCounts, FS_Subset
      <3>3. SizesOf("machines", L) = [v \in L |-> 1]
        BY DEF SizesOf, Increment
      <3> HIDE DEF L
      <3> QED
        BY <3>2, <3>3, TotalOfOnes, FS_CardinalityType
    <2>4. /\ Increment("machines", req[s].package) = 1
          /\ \A p \in Packages : Increment("machines", p) <= 1
      BY DEF Increment
    <2>5. Total(SizesOf("machines", L)) + Increment("machines", req[s].package) <= m
      <3> HIDE DEF L
      <3> QED
        BY <2>2, <2>3, <2>4
    <2>6. /\ HeldOf(W)' = HeldOf(W)
          /\ PassedOf(W, K)' \subseteq PassedOf(W, K) \cup {s}
          /\ Kept(W, K)
      BY <2>1, PassSet
    <2>7. Within("machines", W, K, m + (Cardinality(Slots) - 1) * 1)'
      BY <1>1, <1>3, <2>2, <2>4, <2>5, <2>6, Newcomer
    <2>8. m + (Cardinality(Slots) - 1) * 1 = m + Cardinality(Slots) - 1
      BY SlotsCount
    <2> QED
      BY <2>7, <2>8 DEF MachinesBelow
  <1> QED
    BY <1>2, <1>3

LEMMA NumberInit ==
    ASSUME Init, NEW W, NEW K, After(K), NEW m \in Nat
    PROVE  MachinesBelow(W, K, m)
  <1>1. m + Cardinality(Slots) - 1 \in Int /\ m + Cardinality(Slots) - 1 >= 0
    BY SlotsCount
  <1> QED
    BY <1>1, InitSums DEF MachinesBelow

LEMMA NumberBound ==
    ASSUME TypeInv, NEW W \in SUBSET Request, NEW K, NEW m \in Nat, MachinesBelow(W, K, m)
    PROVE  Cardinality(HeldOf(W)) <= m + Cardinality(Slots) - 1
  <1>1. /\ Total(SizesOf("machines", HeldOf(W))) \in Nat
        /\ Total(DuesOf("machines", PassedOf(W, K))) \in Nat
    BY SizesOK DEF By
  <1> QED
    BY <1>1, SumOfMachines, SlotsCount DEF MachinesBelow, Within

-----------------------------------------------------------------------------
(* jpc_free_tier: fewer than one machine of a free package.                *)

Free == {r \in Request : r.package \in FreePackages}

AfterFreeTier == {"loadSSHKeys", "createVm"}

FreeInv == MachinesBelow(Free, AfterFreeTier, 1)

LEMMA HeldFree ==
    ASSUME TypeInv
    PROVE  HeldOf(Free) = {v \in VmIds : Active(v) /\ vms[v].package \in FreePackages}
  <1>1. ASSUME NEW v \in VmIds, Active(v)
        PROVE  RequestOf(v) \in Request /\ RequestOf(v).package = vms[v].package
    BY <1>1 DEF Active, TypeInv, TypeOK, NoVm, Vm, RequestOf, Request
  <1> QED
    BY <1>1 DEF HeldOf, Free

LEMMA FreeSets == After(AfterFreeTier) /\ Free \in SUBSET Request
  BY DEF After, AfterFreeTier, Free

LEMMA FreeStep ==
    ASSUME Lag # "long", Enabled("jpc_free_tier"), TypeInv, InHand, [Next]_vars, FreeInv
    PROVE  FreeInv'
  <1>1. ASSUME NEW s \in Slots, pc'[s] \in AfterFreeTier, pc[s] \notin AfterFreeTier,
               req[s] \in Free
        PROVE  /\ \E step \in Steps : Pass(s, step)
               /\ pc[s] # "getVm"
               /\ Cardinality(HeldOf(Free) \cap listed) < 1
    <2>1. FreeTier(s) /\ pc'[s] = "loadSSHKeys"
      BY <1>1, Entrances DEF AfterFreeTier
    <2>2. Pass(s, "loadSSHKeys") /\ FreeMachines = {}
      BY <1>1, <2>1 DEF FreeTier, Rejected, Refuse, Respond, TypeInv, TypeOK, Free
    <2>3. HeldOf(Free) \cap listed = {}
      BY <2>2, HeldFree DEF FreeMachines, Listing
    <2>4. Cardinality(HeldOf(Free) \cap listed) = 0
      BY <2>3, FS_EmptySet
    <2> QED
      BY <2>1, <2>2, <2>4 DEF FreeTier
  <1> QED
    BY <1>1, FreeSets, NumberStep DEF FreeInv

\* An account has no more free-tier machines than it has POSTs in flight at once.
THEOREM FreeTierIsBounded ==
    ASSUME Lag # "long"
    PROVE  Spec => []FreeTierHolds
  <1>1. CASE Enabled("jpc_free_tier")
    <2>1. Init => InHand /\ FreeInv
      BY FreeSets, NumberInit DEF FreeInv, Init, InHand
    <2>2. TypeInv /\ InHand /\ FreeInv /\ [Next]_vars => InHand' /\ FreeInv'
      BY <1>1, NextInHand, FreeStep
    <2>3. TypeInv /\ FreeInv => FreeTierHolds
      <3> SUFFICES ASSUME TypeInv, FreeInv
                   PROVE  Cardinality(HeldOf(Free)) <= Cardinality(Slots)
        BY HeldFree DEF FreeTierHolds
      <3> QED
        BY FreeSets, NumberBound, SlotsCount, FiniteCounts, FS_CardinalityType DEF FreeInv
    <2> QED
      BY <2>1, <2>2, <2>3, TypeInvariant, PTL DEF Spec
  <1>2. CASE ~Enabled("jpc_free_tier")
    <2>1. FreeTierHolds
      BY <1>2 DEF FreeTierHolds
    <2>2. TypeInv => FreeTierHolds
      BY <2>1
    <2> QED
      BY <2>2, TypeInvariant, PTL
  <1> QED
    BY <1>1, <1>2

-----------------------------------------------------------------------------
(* capi_limits: fewer machines of a name than the account's number, as far *)
(* as VMAPI's search by image finds them.                                  *)

AboutName(image) == {r \in Request : r.image \notin Kvm /\ NameOf[r.image] = NameOf[image]}

AfterCapiLimits == {"jpc_free_tier", "loadSSHKeys", "createVm"}

CapiInv(image) == MachinesBelow(AboutName(image), AfterCapiLimits, CapiLimit(image))

LEMMA CapiSets ==
    ASSUME NEW image
    PROVE  After(AfterCapiLimits) /\ AboutName(image) \in SUBSET Request
  BY DEF After, AfterCapiLimits, AboutName

LEMMA HeldNamed ==
    ASSUME TypeInv, NEW image
    PROVE  HeldOf(AboutName(image)) = NamedAs(image)
  <1>1. ASSUME NEW v \in VmIds, Active(v)
        PROVE  RequestOf(v) \in Request /\ RequestOf(v).image = vms[v].image
    BY <1>1 DEF Active, TypeInv, TypeOK, NoVm, Vm, RequestOf, Request
  <1> QED
    BY <1>1 DEF HeldOf, NamedAs, AboutName

\* The number goes by the name of an image.
LEMMA CapiLimitByName ==
    /\ \A i \in Images : CapiLimit(i) \in Int
    /\ \A i, j \in Images : NameOf[i] = NameOf[j] => CapiLimit(i) = CapiLimit(j)
  <1> DEFINE own(name, n) == <<name, n>> \in Legacy
             default(name, n) == <<name, n>> \in CapiDefaults /\ n # 0
             number(name) ==
                 IF \E p \in Legacy : own(name, p[2])
                 THEN (CHOOSE p \in Legacy : own(name, p[2]))[2]
                 ELSE IF \E p \in CapiDefaults : default(name, p[2])
                      THEN (CHOOSE p \in CapiDefaults : default(name, p[2]))[2]
                      ELSE 2
  <1>1. \A i : CapiLimit(i) = number(NameOf[i])
    BY DEF CapiLimit
  <1>2. \A name : number(name) \in Int
    <2> SUFFICES ASSUME NEW name PROVE number(name) \in Int
      OBVIOUS
    <2>1. \A p \in Legacy \cup CapiDefaults : p[2] \in Int
      BY LimitsAssumption
    <2>2. CASE \E p \in Legacy : own(name, p[2])
      <3>1. (CHOOSE p \in Legacy : own(name, p[2])) \in Legacy
        BY <2>2
      <3> QED
        BY <2>1, <2>2, <3>1
    <2>3. CASE /\ ~ \E p \in Legacy : own(name, p[2])
               /\ \E p \in CapiDefaults : default(name, p[2])
      <3>1. (CHOOSE p \in CapiDefaults : default(name, p[2])) \in CapiDefaults
        BY <2>3
      <3> QED
        BY <2>1, <2>3, <3>1
    <2>4. CASE /\ ~ \E p \in Legacy : own(name, p[2])
               /\ ~ \E p \in CapiDefaults : default(name, p[2])
      BY <2>4
    <2> QED
      BY <2>2, <2>3, <2>4
  <1> HIDE DEF number
  <1>3. \A i, j \in Images : NameOf[i] = NameOf[j] => number(NameOf[i]) = number(NameOf[j])
    OBVIOUS
  <1> QED
    BY <1>1, <1>2, <1>3

LEMMA CapiStep ==
    ASSUME Lag # "long", Enabled("capi_limits"), "listImages" \notin Rejecting,
           TypeInv, InHand, [Next]_vars,
           NEW image \in Images, CapiLimit(image) > 0, CapiInv(image)
    PROVE  CapiInv(image)'
  <1> DEFINE W == AboutName(image)
  <1>1. CapiLimit(image) \in Nat
    BY CapiLimitByName
  <1>2. ASSUME NEW s \in Slots, pc'[s] \in AfterCapiLimits, pc[s] \notin AfterCapiLimits,
               req[s] \in W
        PROVE  /\ \E step \in Steps : Pass(s, step)
               /\ pc[s] # "getVm"
               /\ Cardinality(HeldOf(W) \cap listed) < CapiLimit(image)
    <2>1. CapiLimits(s) /\ pc'[s] = "jpc_free_tier"
      BY <1>2, Entrances DEF AfterCapiLimits, FreeTier
    <2>2. pc[s] = "capi_limits"
      BY <2>1 DEF CapiLimits
    <2>3. req[s].image \in Images /\ NameOf[req[s].image] = NameOf[image]
      BY <1>2 DEF AboutName, Request
    <2>4. CapiLimit(req[s].image) = CapiLimit(image)
      BY <2>3, CapiLimitByName
    <2>5. /\ Pass(s, "jpc_free_tier")
          /\ Cardinality(SameName(req[s].image)) < CapiLimit(image)
      BY <1>1, <2>1, <2>4 DEF CapiLimits, Rejected, Refuse, Respond, TypeInv, TypeOK
    <2>6. HeldOf(W) \cap listed = SameName(req[s].image)
      BY <2>3, HeldNamed DEF NamedAs, SameName, Listing, TypeInv, TypeOK
    <2> QED
      BY <2>2, <2>5, <2>6
  <1>3. MachinesBelow(W, AfterCapiLimits, CapiLimit(image))'
    <2>1. /\ W \in SUBSET Request /\ After(AfterCapiLimits)
          /\ MachinesBelow(W, AfterCapiLimits, CapiLimit(image))
      BY CapiSets DEF CapiInv
    <2> QED
      BY <1>1, <1>2, <2>1, NumberStep
  <1> QED
    BY <1>3 DEF CapiInv

\* The machines of an image's name, KVM machines apart, exceed the number
\* that capi_limits applies to it by at most one for each other POST in flight, if
\* IMGAPI lists the images: where it does not, the plugin lets the machine pass.
THEOREM CapiLimitsAreKept ==
    ASSUME Lag # "long", "listImages" \notin Rejecting
    PROVE  Spec => []CapiLimitsHold
  <1> DEFINE Inv == \A image \in Images : CapiLimit(image) > 0 => CapiInv(image)
  <1>1. CASE Enabled("capi_limits")
    <2>1. Init => InHand /\ Inv
      BY CapiSets, CapiLimitByName, NumberInit DEF CapiInv, Init, InHand
    <2>2. TypeInv /\ InHand /\ Inv /\ [Next]_vars => InHand' /\ Inv'
      <3> SUFFICES ASSUME TypeInv, InHand, Inv, [Next]_vars,
                          NEW image \in Images, CapiLimit(image) > 0
                   PROVE  CapiInv(image)'
        BY NextInHand
      <3> QED
        BY <1>1, CapiStep
    <2>3. TypeInv /\ Inv => CapiLimitsHold
      <3> SUFFICES ASSUME TypeInv, NEW image \in Images, CapiLimit(image) > 0, CapiInv(image)
                   PROVE  Cardinality(HeldOf(AboutName(image)))
                              <= CapiLimit(image) + Cardinality(Slots) - 1
        BY HeldNamed DEF CapiLimitsHold
      <3> QED
        BY CapiSets, CapiLimitByName, NumberBound DEF CapiInv
    <2> QED
      BY <2>1, <2>2, <2>3, TypeInvariant, PTL DEF Spec
  <1>2. CASE ~Enabled("capi_limits")
    <2>1. TypeInv => CapiLimitsHold
      BY <1>2 DEF CapiLimitsHold
    <2> QED
      BY <2>1, TypeInvariant, PTL
  <1> QED
    BY <1>1, <1>2

=============================================================================
