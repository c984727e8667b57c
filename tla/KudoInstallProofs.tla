-------------------------- MODULE KudoInstallProofs --------------------------
(***************************************************************************)
(* OperatorsKnown and DependenciesFirst for every set of packages, every   *)
(* set of clients and all their commands; and without the exception of     *)
(* DependenciesFirst if no two packages differ only in their app version.  *)
(*                                                                         *)
(* What a command still has to do is ordered: each version comes after its *)
(* operator, and the version that was asked for after what it needs.  The  *)
(* dependency walk, which is a recursion over data, is closed under the    *)
(* references by induction on its steps.                                   *)
(***************************************************************************)
EXTENDS KudoInstall, FiniteSetTheorems, TLAPS

(* ------------------------- the inductive invariant -------------------- *)

\* The references that packages and versions are made with.
Refers == {r \in References : r.name \in Needed}

\* What an OperatorVersion may be: a package, or one whose references are pinned.
Stored ==
    {v \in AnyPackage : v.needs \in Seq(Refers) /\ \E p \in Package : Key(p) = Key(v)}

Keys == {Key(p) : p \in Package}

Items == [what : {"operator", "installed", "version", "ownVersion"}, package : Stored]

\* Each version in s comes after its operator ...
OperatorBefore(s, ops) ==
    \A k \in DOMAIN s : s[k].what \in {"version", "ownVersion"} =>
        \/ s[k].package.name \in ops
        \/ \E j \in 1 .. k - 1 :
              s[j].what = "operator" /\ s[j].package.name = s[k].package.name

\* ... the version of the command after what it refers to ...
NeedsBefore(s, vs) ==
    \A k \in DOMAIN s : s[k].what = "ownVersion" =>
        \A r \in Range(s[k].package.needs) :
            /\ r \in Keys
            /\ \/ \E v \in vs : v.name = r.name /\ v.version = r.version
               \/ \E j \in 1 .. k - 1 :
                     s[j].what = "version" /\ s[j].package.name = r.name
                                           /\ s[j].package.version = r.version

\* ... and the others are of operators that something needs.
VersionsNeeded(s) ==
    \A k \in DOMAIN s : s[k].what = "version" => s[k].package.name \in Needed

Ordered(s, ops, vs) == OperatorBefore(s, ops) /\ NeedsBefore(s, vs) /\ VersionsNeeded(s)

Places == {"idle", "namespace", "objects", "compare", "create", "wait", "uninstall"}

\* Only an object that is to be created has been looked for in vain.
SeenAbsent(c) ==
    absent[c] => at[c] = "objects" /\ todo[c] # <<>> /\ Head(todo[c]).what # "installed"

RepositoryInv == index \subseteq Package /\ UniqueKeys(index)

VersionsInv == versions \subseteq Stored /\ IsFiniteSet(versions) /\ UniqueKeys(versions)

CommandsInv ==
    /\ todo \in [Client -> Seq(Items)]
    /\ absent \in [Client -> BOOLEAN]
    /\ at \in [Client -> Places]
    /\ \A c \in Client : Ordered(todo[c], operators, versions) /\ SeenAbsent(c)

\* What a task of such a version names is a package, whether or not it is there.
NamesPackages == \A v \in versions : v.name \notin Needed => Range(v.needs) \subseteq Keys

IInv ==
    /\ RepositoryInv /\ VersionsInv /\ CommandsInv
    /\ OperatorsKnown /\ DependenciesFirst /\ NamesPackages

(* ------------------------------ induction ----------------------------- *)

Smaller == {s \in Nat \X Nat : s[1] < s[2]}

\* The order of the natural numbers is well founded.
LEMMA SmallerWellFounded == IsWellFoundedOn(Smaller, Nat)
<1>1. Smaller = OpToRel(<, Nat)
  BY DEF Smaller, OpToRel
<1> QED BY <1>1, NatLessThanWellFounded

\* Induction, for a property given as the set of the numbers that have it.
LEMMA SetInduction ==
  ASSUME NEW S, 0 \in S, \A n \in Nat : n \in S => n + 1 \in S
  PROVE  Nat \subseteq S
<1> SUFFICES ASSUME Nat \ S # {} PROVE FALSE
  OBVIOUS
<1>1. PICK x \in Nat \ S : \A y \in Nat \ S : ~ (<<y, x>> \in Smaller)
  BY SmallerWellFounded, WFMin, Nat \ S \subseteq Nat
<1>2. x # 0 /\ x - 1 \in Nat /\ x - 1 < x /\ (x - 1) + 1 = x
  BY <1>1
<1>3. <<x - 1, x>> \in Smaller
  BY <1>2, <1>1 DEF Smaller
<1>4. x - 1 \in S
  BY <1>1, <1>2, <1>3
<1> QED BY <1>1, <1>2, <1>4

\* A finite set that is not empty has a maximum in every total order: what the
\* choice of the newest version rests on.
LEMMA FiniteMaximum ==
  ASSUME NEW S, IsFiniteSet(S), S # {}, NEW R,
         \A x, y \in S : x # y => <<x, y>> \in R \/ <<y, x>> \in R,
         \A x, y, z \in S : <<x, y>> \in R /\ <<y, z>> \in R => <<x, z>> \in R
  PROVE  \E m \in S : \A x \in S \ {m} : <<x, m>> \in R
<1> DEFINE HasMax(T) == \E m \in T : \A x \in T \ {m} : <<x, m>> \in R
           I == {n \in Nat : \A T \in SUBSET S : Cardinality(T) = n /\ T # {} => HasMax(T)}
<1> HIDE DEF I
<1>1. 0 \in I
  <2>1. \A T \in SUBSET S : IsFiniteSet(T)
    BY FS_Subset
  <2> QED BY <2>1, FS_EmptySet DEF I
<1>2. ASSUME NEW n \in Nat, n \in I PROVE n + 1 \in I
  <2> SUFFICES ASSUME NEW T \in SUBSET S, Cardinality(T) = n + 1, T # {}
               PROVE  HasMax(T)
    BY DEF I
  <2>1. PICK a \in T : TRUE
    OBVIOUS
  <2> DEFINE U == T \ {a}
  <2>2. IsFiniteSet(T)
    BY FS_Subset
  <2>3. Cardinality(U) = n /\ U \in SUBSET S
    <3>1. Cardinality(U) = Cardinality(T) - 1
      BY <2>1, <2>2, FS_RemoveElement
    <3> QED BY <3>1
  <2>4. CASE U = {}
    BY <2>1, <2>4
  <2>5. CASE U # {}
    <3>1. PICK m \in U : \A x \in U \ {m} : <<x, m>> \in R
      BY <1>2, <2>3, <2>5 DEF I
    <3>2. a # m /\ a \in S /\ m \in S
      BY <2>1, <3>1
    <3>3. CASE <<a, m>> \in R
      BY <2>1, <3>1, <3>3
    <3>4. CASE <<m, a>> \in R
      <4>1. \A x \in T \ {a} : <<x, a>> \in R
        BY <2>1, <3>1, <3>2, <3>4
      <4> QED BY <2>1, <4>1
    <3> QED BY <3>2, <3>3, <3>4
  <2> QED BY <2>4, <2>5
<1>3. Nat \subseteq I
  BY <1>1, <1>2, SetInduction
<1>4. Cardinality(S) \in I
  BY <1>3, FS_CardinalityType
<1> QED BY <1>4 DEF I

(* -------------------------- what is resolved -------------------------- *)

LEMMA PackagesAreStored == Package \subseteq Stored
<1> SUFFICES ASSUME NEW p \in Package PROVE p \in Stored
  OBVIOUS
<1>1. p \in AnyPackage
  BY PackageAssumption
<1>2. Len(p.needs) \in Nat /\ DOMAIN p.needs = 1 .. Len(p.needs)
  BY <1>1 DEF AnyPackage
<1>3. \A k \in DOMAIN p.needs : p.needs[k] \in Refers
  <2> SUFFICES ASSUME NEW k \in DOMAIN p.needs PROVE p.needs[k] \in Refers
    OBVIOUS
  <2>1. p.needs[k] \in UNION {Range(q.needs) : q \in Package}
    BY DEF Range
  <2>2. p.needs[k] \in References
    BY <2>1 DEF References
  <2>3. p.needs[k].name \in Needed
    BY <2>1 DEF Needed
  <2> QED BY <2>2, <2>3 DEF Refers
<1>4. p.needs \in Seq(Refers)
  BY <1>1, <1>2, <1>3 DEF AnyPackage
<1> QED BY <1>1, <1>4 DEF Stored

LEMMA KeyParts ==
  ASSUME NEW p, NEW q
  PROVE  /\ Key(p) = Key(q) <=> p.name = q.name /\ p.app = q.app /\ p.version = q.version
         /\ Key(p).name = p.name /\ Key(p).app = p.app /\ Key(p).version = p.version
BY DEF Key

\* Among the versions of one operator, the newest of the index exists ...
LEMMA FirstMatchFound ==
  ASSUME NEW idx, idx \subseteq Package, UniqueKeys(idx), NEW ref, NEW rev \in BOOLEAN,
         FirstMatch(idx, ref, rev) # None
  PROVE  FirstMatch(idx, ref, rev) \in idx /\ FirstMatch(idx, ref, rev).name = ref.name
<1> DEFINE found == {p \in idx : Matches(p, ref)}
           first == {p \in found : \A q \in found \ {p} : IndexLess(q, p)}
           Newer(q, p) == IF rev THEN q.version < p.version ELSE p.version < q.version
           Before(q, p) ==
              \/ q.app < p.app
              \/ q.app = p.app /\ p.app > 0 /\ q.version < p.version
              \/ q.app = p.app /\ p.app = 0 /\ Newer(q, p)
           R == {s \in found \X found : Before(s[1], s[2])}
           Best(p) == \A q \in first : IF rev THEN q.version <= p.version ELSE p.version <= q.version
<1>1. found # {} /\ FirstMatch(idx, ref, rev) = CHOOSE p \in first : Best(p)
  BY DEF FirstMatch
<1>2. \A p \in found : p.app \in Nat /\ p.version \in Nat /\ p.name = ref.name /\ p \in idx
  BY PackageAssumption DEF Matches, AnyPackage
<1>3. \A p, q \in found : p.app = q.app /\ p.version = q.version => p = q
  BY <1>2, KeyParts DEF UniqueKeys
<1>4. IsFiniteSet(found)
  BY FS_Subset, PackageAssumption, found \subseteq Package
<1>5. \A p, q \in found : p # q => Before(p, q) \/ Before(q, p)
  BY <1>2, <1>3
<1>6. \A p, q, r \in found : Before(p, q) /\ Before(q, r) => Before(p, r)
  BY <1>2
<1>7. \A p, q \in found : <<p, q>> \in R <=> Before(p, q)
  OBVIOUS
<1>8. PICK m \in found : \A q \in found \ {m} : <<q, m>> \in R
  <2> HIDE DEF R, found, Before
  <2> QED BY <1>1, <1>4, <1>5, <1>6, <1>7, FiniteMaximum
<1>9. \A q \in found \ {m} : Before(q, m)
  BY <1>7, <1>8
<1>10. m \in first
  BY <1>2, <1>8, <1>9 DEF IndexLess
<1>11. Best(m)
  <2> SUFFICES ASSUME NEW q \in first, q # m
               PROVE  IF rev THEN q.version <= m.version ELSE m.version <= q.version
    BY <1>2
  <2>1. IndexLess(m, q) /\ Before(q, m)
    BY <1>8, <1>9
  <2> QED BY <1>2, <1>8, <2>1 DEF IndexLess
<1>12. FirstMatch(idx, ref, rev) \in first
  <2> HIDE DEF first, Best
  <2> QED BY <1>1, <1>10, <1>11
<1> QED BY <1>2, <1>12

\* ... and so does the newest in the cluster.
LEMMA InClusterMatchFound ==
  ASSUME NEW vs, vs \subseteq Stored, IsFiniteSet(vs), UniqueKeys(vs), NEW ref,
         InClusterMatch(vs, ref) # None
  PROVE  InClusterMatch(vs, ref) \in vs /\ InClusterMatch(vs, ref).name = ref.name
<1> DEFINE found == {p \in vs : Matches(p, ref)}
           R == {s \in found \X found : ClusterLess(s[1], s[2])}
           Best(p) == \A q \in found \ {p} : ClusterLess(q, p)
<1>1. found # {} /\ InClusterMatch(vs, ref) = CHOOSE p \in found : Best(p)
  BY DEF InClusterMatch
<1>2. \A p \in found : p.app \in Nat /\ p.version \in Nat /\ p.name = ref.name /\ p \in vs
  BY DEF Matches, Stored, AnyPackage
<1>3. \A p, q \in found : p.app = q.app /\ p.version = q.version => p = q
  BY <1>2, KeyParts DEF UniqueKeys
<1>4. IsFiniteSet(found)
  BY FS_Subset
<1>5. \A p, q \in found : p # q => ClusterLess(p, q) \/ ClusterLess(q, p)
  BY <1>2, <1>3 DEF ClusterLess
<1>6. \A p, q, r \in found : ClusterLess(p, q) /\ ClusterLess(q, r) => ClusterLess(p, r)
  BY <1>2 DEF ClusterLess
<1>7. \A p, q \in found : <<p, q>> \in R <=> ClusterLess(p, q)
  OBVIOUS
<1>8. PICK m \in found : \A q \in found \ {m} : <<q, m>> \in R
  <2> HIDE DEF R, found
  <2> QED BY <1>1, <1>4, <1>5, <1>6, <1>7, FiniteMaximum
<1>9. Best(m)
  BY <1>7, <1>8
<1>10. InClusterMatch(vs, ref) \in found
  <2> HIDE DEF found, Best
  <2> QED BY <1>1, <1>9
<1> QED BY <1>2, <1>10

\* A reference stands for nothing, or for a version of the operator it names.
ResolvesTo(rs) ==
    \A r \in References : rs[r] = None \/ (rs[r] \in Stored /\ rs[r].name = r.name)

LEMMA ResolverTyped ==
  ASSUME RepositoryInv, VersionsInv, NEW m, NEW rev \in BOOLEAN
  PROVE  /\ ResolvesTo(ResolverOf(m, rev))
         /\ m.file \in Package \cup {None} /\ ResolvePackage(m, rev) # None
               => ResolvePackage(m, rev) \in Stored
<1>1. ASSUME NEW r, FirstMatch(index, r, rev) # None
      PROVE  FirstMatch(index, r, rev) \in Stored /\ FirstMatch(index, r, rev).name = r.name
  BY <1>1, FirstMatchFound, PackagesAreStored DEF RepositoryInv
<1>2. ASSUME NEW r, InClusterMatch(versions, r) # None
      PROVE  InClusterMatch(versions, r) \in Stored /\ InClusterMatch(versions, r).name = r.name
  BY <1>2, InClusterMatchFound DEF VersionsInv
<1>3. index \in SUBSET Package
  BY DEF RepositoryInv
<1>4. \A r \in References : RepositoryResolver[index][rev][r] = FirstMatch(index, r, rev)
  <2>1. RepositoryResolver[index][rev] = [r \in References |-> FirstMatch(index, r, rev)]
    BY <1>3 DEF RepositoryResolver
  <2> QED BY <2>1
<1>5. \A r \in References : InClusterResolver(versions)[r] = InClusterMatch(versions, r)
  BY DEF InClusterResolver
<1>6. ResolvesTo(ResolverOf(m, rev))
  <2>1. CASE m.inCluster
    BY <1>2, <1>5, <2>1 DEF ResolvesTo, ResolverOf
  <2>2. CASE ~ m.inCluster
    BY <1>1, <1>4, <2>2 DEF ResolvesTo, ResolverOf
  <2> QED BY <2>1, <2>2
<1>7. ASSUME m.file \in Package \cup {None}, ResolvePackage(m, rev) # None
      PROVE  ResolvePackage(m, rev) \in Stored
  BY <1>1, <1>2, <1>7, PackagesAreStored DEF ResolvePackage
<1> QED BY <1>6, <1>7

(* ------------------------------- the walk ----------------------------- *)

WalkStart(p) == [found |-> <<>>, needs |-> p.needs]

\* The walk is defined by its steps: there is a function that makes them.
LEMMA WalkDefined ==
  ASSUME NEW rs, NEW p
  PROVE  \E walk :
            /\ DependencyWalk(rs, p) = walk[MaxWalk]
            /\ walk[0] = WalkStart(p)
            /\ \A n \in Nat : walk[n + 1] = WalkStep(rs, walk[n])
<1> DEFINE Next1(w) == WalkStep(rs, w)
           start == WalkStart(p)
           Steps(g, n) == g[0] = start /\ \A k \in 0 .. n - 1 : g[k + 1] = Next1(g[k])
           Has == {n \in Nat : \E g : Steps(g, n)}
           Same == {n \in Nat : \A g, h : Steps(g, n) /\ Steps(h, n) => g[n] = h[n]}
           Body(f) == [n \in Nat |-> IF n = 0 THEN start ELSE Next1(f[n - 1])]
           w == CHOOSE f : f = Body(f)
<1>1. DependencyWalk(rs, p) = w[MaxWalk]
  BY DEF DependencyWalk, WalkStart
<1> HIDE DEF Next1, start
<1>2. Nat \subseteq Has
  <2>1. 0 \in Has
    <3>1. Steps([k \in {0} |-> start], 0)
      OBVIOUS
    <3> HIDE DEF Steps
    <3> QED BY <3>1
  <2>2. ASSUME NEW n \in Nat, n \in Has PROVE n + 1 \in Has
    <3>1. PICK g : Steps(g, n)
      BY <2>2
    <3> DEFINE h == [k \in 0 .. n + 1 |-> IF k = n + 1 THEN Next1(g[n]) ELSE g[k]]
    <3>2. h[0] = start
      BY <3>1
    <3>3. \A k \in 0 .. n : h[k + 1] = Next1(h[k])
      <4> TAKE k \in 0 .. n
      <4>1. h[k] = g[k]
        OBVIOUS
      <4>2. CASE k = n
        BY <4>1, <4>2
      <4>3. CASE k # n
        <5>1. k \in 0 .. n - 1 /\ h[k + 1] = g[k + 1]
          BY <4>3
        <5> QED BY <3>1, <4>1, <5>1
      <4> QED BY <4>2, <4>3
    <3>4. Steps(h, n + 1)
      <4> HIDE DEF h
      <4>1. (n + 1) - 1 = n
        OBVIOUS
      <4> QED BY <3>2, <3>3, <4>1
    <3>5. \E f : Steps(f, n + 1)
      <4> HIDE DEF Steps, h
      <4> QED BY <3>4
    <3> QED BY <3>5
  <2> HIDE DEF Has
  <2> QED BY <2>1, <2>2, SetInduction
<1>3. Nat \subseteq Same
  <2>1. 0 \in Same
    OBVIOUS
  <2>2. ASSUME NEW n \in Nat, n \in Same PROVE n + 1 \in Same
    <3> SUFFICES ASSUME NEW g, NEW h, Steps(g, n + 1), Steps(h, n + 1)
                 PROVE  g[n + 1] = h[n + 1]
      OBVIOUS
    <3>1. Steps(g, n) /\ Steps(h, n)
      OBVIOUS
    <3>2. g[n] = h[n]
      BY <2>2, <3>1
    <3> QED BY <3>2
  <2> HIDE DEF Same
  <2> QED BY <2>1, <2>2, SetInduction
<1> DEFINE chosen == [n \in Nat |-> CHOOSE g : Steps(g, n)]
           walk == [n \in Nat |-> chosen[n][n]]
<1>4. ASSUME NEW n \in Nat PROVE Steps(chosen[n], n)
  <2>1. \E g : Steps(g, n)
    BY <1>2
  <2>2. chosen[n] = CHOOSE g : Steps(g, n)
    OBVIOUS
  <2> HIDE DEF Steps, chosen
  <2> QED BY <2>1, <2>2
<1>5. \A n \in Nat : walk[n] = chosen[n][n]
  OBVIOUS
<1>6. \A n \in Nat : \A g, h : Steps(g, n) /\ Steps(h, n) => g[n] = h[n]
  BY <1>3
<1> HIDE DEF Has, Same, chosen, walk
<1>7. walk[0] = start
  BY <1>4, <1>5
<1>8. ASSUME NEW n \in Nat PROVE walk[n + 1] = Next1(walk[n])
  <2>1. Steps(chosen[n + 1], n + 1) /\ n + 1 \in Nat
    BY <1>4
  <2>2. Steps(chosen[n + 1], n) /\ chosen[n + 1][n + 1] = Next1(chosen[n + 1][n])
    BY <2>1
  <2>3. chosen[n + 1][n] = chosen[n][n]
    <3>1. Steps(chosen[n], n)
      BY <1>4
    <3>2. \A g, h : Steps(g, n) /\ Steps(h, n) => g[n] = h[n]
      BY <1>6
    <3>3. Steps(chosen[n + 1], n)
      BY <2>2
    <3> HIDE DEF Steps
    <3> QED BY <3>1, <3>2, <3>3
  <2> QED BY <1>5, <2>1, <2>2, <2>3
<1>9. ASSUME NEW n \in Nat PROVE walk[n] = IF n = 0 THEN start ELSE Next1(walk[n - 1])
  <2>1. CASE n = 0
    BY <1>7, <2>1
  <2>2. CASE n # 0
    <3>1. n - 1 \in Nat /\ (n - 1) + 1 = n
      BY <2>2
    <3>2. walk[(n - 1) + 1] = Next1(walk[n - 1])
      BY <1>8, <3>1
    <3> QED BY <2>2, <3>1, <3>2
  <2> QED BY <2>1, <2>2
<1>10. walk = Body(walk)
  <2>1. walk = [n \in Nat |-> walk[n]]
    BY DEF walk
  <2> QED BY <1>9, <2>1
<1>11. w = Body(w)
  <2> HIDE DEF Body
  <2> QED BY <1>10
<1> HIDE DEF w
<1>12. w[0] = start
  BY <1>11
<1>13. ASSUME NEW n \in Nat PROVE w[n + 1] = Next1(w[n])
  <2>1. n + 1 \in Nat /\ n + 1 # 0 /\ (n + 1) - 1 = n
    OBVIOUS
  <2> QED BY <1>11, <2>1
<1> QED BY <1>1, <1>12, <1>13 DEF Next1, start

LEMMA AppendRange ==
  ASSUME NEW S, NEW s \in Seq(S), NEW e \in S
  PROVE  Append(s, e) \in Seq(S) /\ Range(Append(s, e)) = Range(s) \cup {e}
<1> DEFINE t == Append(s, e)
<1>1. /\ t \in Seq(S) /\ Len(t) = Len(s) + 1 /\ Len(s) \in Nat
      /\ DOMAIN t = 1 .. Len(s) + 1 /\ DOMAIN s = 1 .. Len(s)
      /\ t[Len(s) + 1] = e /\ \A k \in 1 .. Len(s) : t[k] = s[k]
  OBVIOUS
<1> HIDE DEF t
<1>2. Range(t) \subseteq Range(s) \cup {e}
  BY <1>1 DEF Range
<1>3. Range(s) \subseteq Range(t) /\ e \in Range(t)
  BY <1>1 DEF Range
<1> QED BY <1>1, <1>2, <1>3 DEF t

LEMMA ConcatParts ==
  ASSUME NEW S, NEW s \in Seq(S), NEW t \in Seq(S)
  PROVE  /\ s \o t \in Seq(S) /\ Len(s \o t) = Len(s) + Len(t)
         /\ DOMAIN (s \o t) = 1 .. Len(s) + Len(t)
         /\ \A k \in 1 .. Len(s) : (s \o t)[k] = s[k]
         /\ \A k \in 1 .. Len(t) : (s \o t)[Len(s) + k] = t[k]
OBVIOUS

LEMMA ConcatRange ==
  ASSUME NEW S, NEW s \in Seq(S), NEW t \in Seq(S)
  PROVE  s \o t \in Seq(S) /\ Range(s \o t) = Range(s) \cup Range(t)
<1> DEFINE u == s \o t
<1>1. /\ u \in Seq(S) /\ Len(s) \in Nat /\ Len(t) \in Nat
      /\ DOMAIN u = 1 .. Len(s) + Len(t) /\ DOMAIN s = 1 .. Len(s) /\ DOMAIN t = 1 .. Len(t)
      /\ \A k \in 1 .. Len(s) + Len(t) : u[k] = IF k <= Len(s) THEN s[k] ELSE t[k - Len(s)]
  OBVIOUS
<1> HIDE DEF u
<1>2. Range(u) \subseteq Range(s) \cup Range(t)
  <2>1. ASSUME NEW k \in DOMAIN u PROVE u[k] \in Range(s) \cup Range(t)
    <3>1. CASE k <= Len(s)
      BY <1>1, <3>1 DEF Range
    <3>2. CASE ~ (k <= Len(s))
      <4>1. k - Len(s) \in DOMAIN t /\ u[k] = t[k - Len(s)]
        BY <1>1, <3>2
      <4> QED BY <4>1 DEF Range
    <3> QED BY <3>1, <3>2
  <2> QED BY <2>1 DEF Range
<1>3. Range(s) \subseteq Range(u)
  BY <1>1 DEF Range
<1>4. ASSUME NEW k \in DOMAIN t PROVE t[k] \in Range(u)
  <2>1. k + Len(s) \in DOMAIN u /\ u[k + Len(s)] = t[k]
    BY <1>1
  <2> QED BY <2>1 DEF Range
<1>5. Range(t) \subseteq Range(u)
  BY <1>4 DEF Range
<1> QED BY <1>1, <1>2, <1>3, <1>5 DEF u

LEMMA TailRange ==
  ASSUME NEW S, NEW s \in Seq(S), s # <<>>
  PROVE  Head(s) \in S /\ Tail(s) \in Seq(S) /\ Range(s) = {Head(s)} \cup Range(Tail(s))
<1> DEFINE t == Tail(s)
<1>1. /\ t \in Seq(S) /\ Len(s) \in Nat /\ Len(s) > 0 /\ Head(s) = s[1] /\ s[1] \in S
      /\ DOMAIN t = 1 .. Len(s) - 1 /\ DOMAIN s = 1 .. Len(s)
      /\ \A k \in 1 .. Len(s) - 1 : t[k] = s[k + 1]
  OBVIOUS
<1> HIDE DEF t
<1>2. Range(t) \subseteq Range(s) /\ Head(s) \in Range(s)
  <2>1. ASSUME NEW k \in DOMAIN t PROVE t[k] \in Range(s)
    <3>1. k + 1 \in DOMAIN s /\ t[k] = s[k + 1]
      BY <1>1
    <3> QED BY <3>1 DEF Range
  <2> QED BY <1>1, <2>1 DEF Range
<1>3. ASSUME NEW k \in DOMAIN s, k # 1 PROVE s[k] \in Range(t)
  <2>1. k - 1 \in DOMAIN t /\ t[k - 1] = s[k]
    BY <1>1, <1>3
  <2> QED BY <2>1 DEF Range
<1>4. Range(s) \subseteq {Head(s)} \cup Range(t)
  BY <1>1, <1>3 DEF Range
<1> QED BY <1>1, <1>2, <1>4 DEF t

\* What is found is closed under the references, but for those still to follow.
Closed(rs, p, found, needs) ==
    /\ \A q \in Range(found) : q.name \in Needed
    /\ \A q \in {p} \cup Range(found) : \A r \in Range(q.needs) :
          rs[r] = None \/ rs[r] \in Range(found) \/ r \in Range(needs)

WalkInv(rs, p, w) ==
    /\ w \in [found : Seq(Stored), needs : Seq(Refers)]
    /\ Closed(rs, p, w.found, w.needs)

LEMMA WalkKeepsInv ==
  ASSUME NEW rs, ResolvesTo(rs), NEW p \in Stored, NEW w, WalkInv(rs, p, w)
  PROVE  WalkInv(rs, p, WalkStep(rs, w))
<1> DEFINE h == Head(w.needs)
           q == rs[h]
<1>1. w.found \in Seq(Stored) /\ w.needs \in Seq(Refers) /\ Closed(rs, p, w.found, w.needs)
  BY DEF WalkInv
<1>2. CASE w.needs = <<>>
  BY <1>2 DEF WalkStep
<1>3. CASE w.needs # <<>>
  <2>1. h \in Refers /\ Tail(w.needs) \in Seq(Refers) /\ Range(w.needs) = {h} \cup Range(Tail(w.needs))
    BY <1>1, <1>3, TailRange
  <2>2. q = None \/ (q \in Stored /\ q.name \in Needed)
    BY <2>1 DEF ResolvesTo, Refers
  <2>3. CASE q = None \/ q \in Range(w.found)
    <3>1. WalkStep(rs, w) = [found |-> w.found, needs |-> Tail(w.needs)]
      BY <1>3, <2>3 DEF WalkStep, WalkInv
    <3>2. Closed(rs, p, w.found, Tail(w.needs))
      BY <1>1, <2>1, <2>3 DEF Closed
    <3> QED BY <1>1, <2>1, <3>1, <3>2 DEF WalkInv
  <2>4. CASE q # None /\ q \notin Range(w.found)
    <3> DEFINE found == Append(w.found, q)
               needs == q.needs \o Tail(w.needs)
    <3>1. WalkStep(rs, w) = [found |-> found, needs |-> needs]
      BY <1>3, <2>4 DEF WalkStep
    <3>2. found \in Seq(Stored) /\ Range(found) = Range(w.found) \cup {q}
      BY <1>1, <2>2, <2>4, AppendRange
    <3>3. needs \in Seq(Refers) /\ Range(needs) = Range(q.needs) \cup Range(Tail(w.needs))
      <4>1. q.needs \in Seq(Refers)
        BY <2>2, <2>4 DEF Stored
      <4>2. Tail(w.needs) \in Seq(Refers)
        BY <2>1
      <4> HIDE DEF q
      <4> QED BY <4>1, <4>2, ConcatRange
    <3> HIDE DEF found, needs
    <3>4. \A x \in Range(found) : x.name \in Needed
      BY <1>1, <2>2, <2>4, <3>2 DEF Closed
    <3>5. ASSUME NEW x \in {p} \cup Range(found), NEW r \in Range(x.needs)
          PROVE  rs[r] = None \/ rs[r] \in Range(found) \/ r \in Range(needs)
      <4>1. CASE x = q
        BY <3>3, <4>1
      <4>2. CASE x # q
        <5>1. rs[r] = None \/ rs[r] \in Range(w.found) \/ r \in Range(w.needs)
          BY <1>1, <3>2, <4>2 DEF Closed
        <5> QED BY <2>1, <3>2, <3>3, <5>1
      <4> QED BY <4>1, <4>2
    <3> QED BY <3>1, <3>2, <3>3, <3>4, <3>5 DEF WalkInv, Closed
  <2> QED BY <2>3, <2>4
<1> QED BY <1>2, <1>3

\* dependencyWalk: when it is over, it has found everything that the package
\* and what it found refer to, as far as that can be resolved.
LEMMA WalkClosed ==
  ASSUME NEW rs, ResolvesTo(rs), NEW p \in Stored, DependencyWalk(rs, p).needs = <<>>
  PROVE  /\ DependencyWalk(rs, p).found \in Seq(Stored)
         /\ Closed(rs, p, DependencyWalk(rs, p).found, <<>>)
<1>1. PICK walk : /\ DependencyWalk(rs, p) = walk[MaxWalk]
                  /\ walk[0] = WalkStart(p)
                  /\ \A n \in Nat : walk[n + 1] = WalkStep(rs, walk[n])
  BY WalkDefined
<1> DEFINE I == {n \in Nat : WalkInv(rs, p, walk[n])}
<1>2. 0 \in I
  <2>1. p.needs \in Seq(Refers)
    BY DEF Stored
  <2>2. <<>> \in Seq(Stored) /\ Range(<<>>) = {}
    BY DEF Range
  <2>3. Closed(rs, p, <<>>, p.needs)
    BY <2>2 DEF Closed
  <2>4. WalkInv(rs, p, WalkStart(p))
    BY <2>1, <2>2, <2>3 DEF WalkInv, WalkStart
  <2> QED BY <1>1, <2>4
<1>3. ASSUME NEW n \in Nat, n \in I PROVE n + 1 \in I
  BY <1>1, <1>3, WalkKeepsInv
<1>4. Nat \subseteq I
  <2> HIDE DEF I
  <2> QED BY <1>2, <1>3, SetInduction
<1>5. WalkInv(rs, p, DependencyWalk(rs, p))
  BY <1>1, <1>4, WalkAssumption
<1> QED BY <1>5 DEF WalkInv

(* ----------------------- what a command sees to ----------------------- *)

LEMMA PinnedStored ==
  ASSUME NEW rs, ResolvesTo(rs), NEW p \in Stored, \A r \in Range(p.needs) : rs[r] # None
  PROVE  /\ Pinned(rs, p) \in Stored
         /\ Pinned(rs, p).name = p.name /\ Pinned(rs, p).version = p.version
         /\ \A k \in Range(Pinned(rs, p).needs) : \E r \in Range(p.needs) : k = Key(rs[r])
<1> DEFINE pins == [k \in DOMAIN p.needs |-> Key(rs[p.needs[k]])]
           v == Pinned(rs, p)
<1>1. /\ p \in AnyPackage /\ p.needs \in Seq(Refers)
      /\ Len(p.needs) \in Nat /\ DOMAIN p.needs = 1 .. Len(p.needs)
      /\ \A k \in DOMAIN p.needs : p.needs[k] \in Refers /\ p.needs[k] \in Range(p.needs)
  BY DEF Stored, Range
<1>2. ASSUME NEW r \in Refers, r \in Range(p.needs)
      PROVE  Key(rs[r]) \in Refers /\ Key(rs[r]) \in AnyReference
  <2>1. rs[r] \in Stored /\ rs[r].name = r.name /\ r.name \in Needed
    BY <1>2 DEF ResolvesTo, Refers
  <2>2. PICK q \in Package : Key(q) = Key(rs[r])
    BY <2>1 DEF Stored
  <2>3. Key(rs[r]) \in References
    <3>1. Key(q) \in {Key(x) : x \in Package}
      BY <2>2
    <3>2. Key(rs[r]) \in {Key(x) : x \in Package}
      BY <2>2, <3>1
    <3> QED BY <3>2 DEF References
  <2>4. Key(rs[r]).name \in Needed
    BY <2>1, KeyParts
  <2>5. Key(rs[r]) \in AnyReference
    BY <2>1 DEF Key, Stored, AnyPackage, AnyReference
  <2> QED BY <2>3, <2>4, <2>5 DEF Refers
<1>3. \A k \in 1 .. Len(p.needs) : pins[k] \in Refers /\ pins[k] \in AnyReference
  BY <1>1, <1>2
<1>4. pins \in Seq(Refers) /\ pins \in Seq(AnyReference)
  <2>1. pins = [k \in 1 .. Len(p.needs) |-> pins[k]]
    BY <1>1
  <2> HIDE DEF pins
  <2> QED BY <1>1, <1>3, <2>1
<1>5. v = [p EXCEPT !.needs = pins]
  BY DEF Pinned
<1>6. \A k \in Range(pins) : \E r \in Range(p.needs) : k = Key(rs[r])
  BY <1>1 DEF Range
<1> HIDE DEF pins
<1>7. v.needs = pins /\ v.name = p.name /\ v.app = p.app /\ v.version = p.version /\ v \in AnyPackage
  BY <1>1, <1>4, <1>5 DEF AnyPackage
<1>8. Key(v) = Key(p)
  BY <1>7, KeyParts
<1>9. v \in Stored
  BY <1>4, <1>7, <1>8 DEF Stored
<1> QED BY <1>6, <1>7, <1>9

\* OperatorAndOperatorVersion, position by position.
LEMMA ObjectsParts ==
  ASSUME NEW p \in Stored, NEW deps \in Seq(Stored)
  PROVE  LET o == Objects(p, deps)
             n == Len(deps)
         IN  /\ o \in Seq(Items) /\ DOMAIN o = 1 .. 2 * n + 3
             /\ o[1] = Item("operator", p) /\ o[2] = Item("installed", p)
             /\ \A i \in 1 .. n : /\ o[2 * i + 1] = Item("operator", deps[i])
                                  /\ o[2 * i + 2] = Item("version", deps[i])
             /\ o[2 * n + 3] = Item("ownVersion", p)
<1> DEFINE n == Len(deps)
           pairs == Pairs("operator", "version", deps)
           front == <<Item("operator", p), Item("installed", p)>>
           own == <<Item("ownVersion", p)>>
           o == (front \o pairs) \o own
<1>1. n \in Nat /\ DOMAIN deps = 1 .. n /\ \A i \in 1 .. n : deps[i] \in Stored
  OBVIOUS
<1>2. \A d \in Stored : /\ Item("operator", d) \in Items /\ Item("installed", d) \in Items
                         /\ Item("version", d) \in Items /\ Item("ownVersion", d) \in Items
  BY DEF Item, Items
<1>3. ASSUME NEW k \in 1 .. 2 * n PROVE pairs[k] \in Items
  <2>1. (k + 1) \div 2 \in 1 .. n
    BY <1>1
  <2>2. pairs[k] = Item(IF k % 2 = 1 THEN "operator" ELSE "version", deps[(k + 1) \div 2])
    BY DEF Pairs
  <2> QED BY <1>1, <1>2, <2>1, <2>2
<1>4. pairs \in Seq(Items) /\ Len(pairs) = 2 * n
  <2>1. pairs = [k \in 1 .. 2 * n |-> pairs[k]]
    BY DEF Pairs
  <2> HIDE DEF pairs
  <2> QED BY <1>1, <1>3, <2>1
<1>5. ASSUME NEW i \in 1 .. n
      PROVE  pairs[2 * i - 1] = Item("operator", deps[i]) /\ pairs[2 * i] = Item("version", deps[i])
  <2>1. /\ 2 * i - 1 \in 1 .. 2 * n /\ (2 * i - 1) % 2 = 1 /\ ((2 * i - 1) + 1) \div 2 = i
        /\ 2 * i \in 1 .. 2 * n /\ (2 * i) % 2 = 0 /\ (2 * i + 1) \div 2 = i
    BY <1>1
  <2> QED BY <2>1 DEF Pairs
<1>6. front \in Seq(Items) /\ Len(front) = 2 /\ own \in Seq(Items) /\ Len(own) = 1
  BY <1>2
<1>7. front[1] = Item("operator", p) /\ front[2] = Item("installed", p) /\ own[1] = Item("ownVersion", p)
  OBVIOUS
<1> HIDE DEF front, pairs, own
<1> DEFINE most == front \o pairs
<1>12. /\ most \in Seq(Items) /\ Len(most) = 2 + 2 * n
       /\ \A k \in 1 .. 2 : most[k] = front[k]
       /\ \A k \in 1 .. 2 * n : most[2 + k] = pairs[k]
  <2>1. front \in Seq(Items) /\ pairs \in Seq(Items)
    BY <1>4, <1>6
  <2>2. /\ most \in Seq(Items) /\ Len(most) = Len(front) + Len(pairs)
        /\ \A k \in 1 .. Len(front) : most[k] = front[k]
        /\ \A k \in 1 .. Len(pairs) : most[Len(front) + k] = pairs[k]
    BY <2>1, ConcatParts
  <2> HIDE DEF most
  <2> QED BY <1>4, <1>6, <2>2, Zenon
<1>13. most[1] = front[1] /\ most[2] = front[2]
  BY <1>12
<1> HIDE DEF most
<1>14. /\ most \o own \in Seq(Items) /\ DOMAIN (most \o own) = 1 .. (2 + 2 * n) + 1
       /\ \A k \in 1 .. 2 + 2 * n : (most \o own)[k] = most[k]
       /\ \A k \in 1 .. 1 : (most \o own)[(2 + 2 * n) + k] = own[k]
  <2>1. most \in Seq(Items) /\ own \in Seq(Items)
    BY <1>6, <1>12
  <2> DEFINE all == most \o own
  <2>2. /\ all \in Seq(Items) /\ DOMAIN all = 1 .. Len(most) + Len(own)
        /\ \A k \in 1 .. Len(most) : all[k] = most[k]
        /\ \A k \in 1 .. Len(own) : all[Len(most) + k] = own[k]
    BY <2>1, ConcatParts
  <2> HIDE DEF all
  <2>3. /\ all \in Seq(Items) /\ DOMAIN all = 1 .. (2 + 2 * n) + 1
        /\ \A k \in 1 .. 2 + 2 * n : all[k] = most[k]
        /\ \A k \in 1 .. 1 : all[(2 + 2 * n) + k] = own[k]
    BY <1>6, <1>12, <2>2, Zenon
  <2> QED BY <2>3 DEF all
<1>15. (2 + 2 * n) + 1 = 2 * n + 3 /\ 1 \in 1 .. 2 + 2 * n /\ 2 \in 1 .. 2 + 2 * n /\ 1 \in 1 .. 1
  BY <1>1
<1>8. /\ o \in Seq(Items) /\ DOMAIN o = 1 .. 2 * n + 3
      /\ o[1] = front[1] /\ o[2] = front[2] /\ o[2 * n + 3] = own[1]
  BY <1>13, <1>14, <1>15 DEF most
<1>9. \A k \in 1 .. 2 * n : o[k + 2] = pairs[k]
  <2> SUFFICES ASSUME NEW k \in 1 .. 2 * n PROVE (most \o own)[k + 2] = pairs[k]
    BY DEF most
  <2>1. 2 + k \in 1 .. 2 + 2 * n /\ k + 2 = 2 + k
    BY <1>1
  <2> QED BY <1>12, <1>14, <2>1
<1>10. ASSUME NEW i \in 1 .. n
       PROVE  o[2 * i + 1] = pairs[2 * i - 1] /\ o[2 * i + 2] = pairs[2 * i]
  <2>1. 2 * i - 1 \in 1 .. 2 * n /\ (2 * i - 1) + 2 = 2 * i + 1 /\ 2 * i \in 1 .. 2 * n
    BY <1>1
  <2> HIDE DEF o
  <2> QED BY <1>9, <2>1
<1>11. Objects(p, deps) = o
  BY DEF Objects, front, own, pairs
<1> HIDE DEF o
<1> QED BY <1>5, <1>7, <1>8, <1>10, <1>11

\* Versions after their operators, and the dependencies first.
LEMMA ObjectsOrdered ==
  ASSUME NEW p \in Stored, NEW deps \in Seq(Stored),
         \A d \in Range(deps) : d.name \in Needed, NEW ops, NEW vs,
         \A r \in Range(p.needs) :
            r \in Keys /\ \E d \in Range(deps) : d.name = r.name /\ d.version = r.version
  PROVE  Objects(p, deps) \in Seq(Items) /\ Ordered(Objects(p, deps), ops, vs)
<1> DEFINE o == Objects(p, deps)
           n == Len(deps)
<1>1. /\ o \in Seq(Items) /\ DOMAIN o = 1 .. 2 * n + 3
      /\ o[1] = Item("operator", p) /\ o[2] = Item("installed", p)
      /\ \A i \in 1 .. n : /\ o[2 * i + 1] = Item("operator", deps[i])
                           /\ o[2 * i + 2] = Item("version", deps[i])
      /\ o[2 * n + 3] = Item("ownVersion", p)
  BY ObjectsParts
<1>2. n \in Nat /\ DOMAIN deps = 1 .. n
  OBVIOUS
<1> HIDE DEF o
<1>3. ASSUME NEW k \in DOMAIN o
      PROVE  \/ k = 1 \/ k = 2 \/ k = 2 * n + 3
             \/ \E i \in 1 .. n : k = 2 * i + 1
             \/ \E i \in 1 .. n : k = 2 * i + 2
  <2>1. k \in 1 .. 2 * n + 3
    BY <1>1
  <2>2. CASE k % 2 = 0 /\ k # 2
    <3>1. k \div 2 - 1 \in 1 .. n /\ k = 2 * (k \div 2 - 1) + 2
      BY <1>2, <2>1, <2>2
    <3> QED BY <3>1
  <2>3. CASE k % 2 = 1 /\ k # 1 /\ k # 2 * n + 3
    <3> DEFINE i == (k - 1) \div 2
    <3>1. i \in Int /\ k = 2 * i + 1
      BY <1>2, <2>1, <2>3
    <3> HIDE DEF i
    <3>2. i \in 1 .. n
      BY <1>2, <2>1, <2>3, <3>1
    <3> QED BY <3>1, <3>2
  <2> QED BY <2>1, <2>2, <2>3
<1>4. \A what, d : Item(what, d).what = what /\ Item(what, d).package = d
  BY DEF Item
<1>5. ASSUME NEW i \in 1 .. n
      PROVE  /\ 2 * i + 1 \in 1 .. (2 * i + 2) - 1 /\ 2 * i + 2 \in 1 .. (2 * n + 3) - 1
             /\ deps[i] \in Range(deps)
  BY <1>2 DEF Range
<1>6. OperatorBefore(o, ops)
  <2> SUFFICES ASSUME NEW k \in DOMAIN o, o[k].what \in {"version", "ownVersion"}
               PROVE  \E j \in 1 .. k - 1 :
                         o[j].what = "operator" /\ o[j].package.name = o[k].package.name
    BY DEF OperatorBefore
  <2>1. CASE k = 2 * n + 3
    <3>1. 1 \in 1 .. k - 1
      BY <1>2, <2>1
    <3> QED BY <1>1, <1>4, <2>1, <3>1
  <2>2. CASE \E i \in 1 .. n : k = 2 * i + 2
    <3>1. PICK i \in 1 .. n : k = 2 * i + 2
      BY <2>2
    <3> DEFINE j == 2 * i + 1
    <3>2. j \in 1 .. k - 1
      BY <1>5, <3>1
    <3>3. o[j] = Item("operator", deps[i]) /\ o[k] = Item("version", deps[i])
      BY <1>1, <3>1
    <3> HIDE DEF j
    <3> QED BY <1>4, <3>2, <3>3
  <2>3. CASE k = 1 \/ k = 2 \/ \E i \in 1 .. n : k = 2 * i + 1
    BY <1>1, <1>4, <2>3
  <2> QED BY <1>3, <2>1, <2>2, <2>3
<1>7. NeedsBefore(o, vs)
  <2> SUFFICES ASSUME NEW k \in DOMAIN o, o[k].what = "ownVersion",
                      NEW r \in Range(o[k].package.needs)
               PROVE  /\ r \in Keys
                      /\ \E j \in 1 .. k - 1 :
                            o[j].what = "version" /\ o[j].package.name = r.name
                                                  /\ o[j].package.version = r.version
    BY DEF NeedsBefore
  <2>1. k = 2 * n + 3
    <3>1. k # 1 /\ k # 2
      BY <1>1, <1>4
    <3>2. ASSUME NEW i \in 1 .. n PROVE k # 2 * i + 1 /\ k # 2 * i + 2
      <4>1. o[2 * i + 1].what = "operator" /\ o[2 * i + 2].what = "version"
        BY <1>1, <1>4
      <4> QED BY <4>1
    <3> QED BY <1>3, <3>1, <3>2
  <2>2. o[k].package = p
    BY <1>1, <1>4, <2>1
  <2>3. PICK d \in Range(deps) : d.name = r.name /\ d.version = r.version
    BY <2>2
  <2>4. PICK i \in 1 .. n : deps[i] = d
    BY <1>2 DEF Range
  <2> DEFINE j == 2 * i + 2
  <2>5. j \in 1 .. k - 1
    BY <1>5, <2>1
  <2>6. o[j] = Item("version", d)
    BY <1>1, <2>4
  <2>7. r \in Keys
    BY <2>2
  <2> HIDE DEF j
  <2> QED BY <1>4, <2>3, <2>5, <2>6, <2>7
<1>8. VersionsNeeded(o)
  <2> SUFFICES ASSUME NEW k \in DOMAIN o, o[k].what = "version"
               PROVE  o[k].package.name \in Needed
    BY DEF VersionsNeeded
  <2>1. PICK i \in 1 .. n : k = 2 * i + 2
    <3>1. k # 1 /\ k # 2 /\ k # 2 * n + 3
      BY <1>1, <1>4
    <3>2. ASSUME NEW i \in 1 .. n PROVE k # 2 * i + 1
      <4>1. o[2 * i + 1].what = "operator"
        BY <1>1, <1>4
      <4> QED BY <4>1
    <3> QED BY <1>3, <3>1, <3>2
  <2> QED BY <1>1, <1>4, <1>5, <2>1
<1> QED BY <1>1, <1>6, <1>7, <1>8 DEF Ordered, o

(* ------------------------- one object after the other ----------------- *)

\* Operators and versions are never removed: what is in order stays so.
LEMMA OrderedMore ==
  ASSUME NEW s, NEW ops, NEW vs, NEW ops2, NEW vs2, Ordered(s, ops, vs),
         ops \subseteq ops2, vs \subseteq vs2
  PROVE  Ordered(s, ops2, vs2)
<1>1. OperatorBefore(s, ops2)
  BY DEF Ordered, OperatorBefore
<1>2. NeedsBefore(s, vs2)
  BY DEF Ordered, NeedsBefore
<1> QED BY <1>1, <1>2 DEF Ordered

\* The first object of what is in order has what it needs.
LEMMA OrderedHead ==
  ASSUME NEW s \in Seq(Items), s # <<>>, NEW ops, NEW vs, Ordered(s, ops, vs)
  PROVE  /\ Head(s) \in Items
         /\ Head(s).what \in {"version", "ownVersion"} => Head(s).package.name \in ops
         /\ Head(s).what = "version" => Head(s).package.name \in Needed
         /\ Head(s).what = "ownVersion" =>
               \A r \in Range(Head(s).package.needs) :
                  r \in Keys /\ \E v \in vs : v.name = r.name /\ v.version = r.version
<1>1. 1 \in DOMAIN s /\ Head(s) = s[1] /\ s[1] \in Items
  OBVIOUS
<1>2. \A j \in 1 .. 1 - 1 : FALSE
  OBVIOUS
<1>3. OperatorBefore(s, ops) /\ NeedsBefore(s, vs) /\ VersionsNeeded(s)
  BY DEF Ordered
<1>4. s[1].what \in {"version", "ownVersion"} => s[1].package.name \in ops
  BY <1>1, <1>2, <1>3 DEF OperatorBefore
<1>5. s[1].what = "version" => s[1].package.name \in Needed
  BY <1>1, <1>3 DEF VersionsNeeded
<1>6. s[1].what = "ownVersion" =>
         \A r \in Range(s[1].package.needs) :
            r \in Keys /\ \E v \in vs : v.name = r.name /\ v.version = r.version
  BY <1>1, <1>2, <1>3 DEF NeedsBefore
<1> QED BY <1>1, <1>4, <1>5, <1>6

\* Once the first object is there, the rest is in order.
LEMMA OrderedTail ==
  ASSUME NEW s \in Seq(Items), s # <<>>, NEW ops, NEW vs, Ordered(s, ops, vs),
         Head(s).what = "operator" => Head(s).package.name \in ops,
         Head(s).what = "version" =>
            \E v \in vs : v.name = Head(s).package.name /\ v.version = Head(s).package.version
  PROVE  Tail(s) \in Seq(Items) /\ Ordered(Tail(s), ops, vs)
<1> DEFINE t == Tail(s)
<1>1. /\ t \in Seq(Items) /\ Head(s) = s[1] /\ Len(s) \in Nat
      /\ DOMAIN t = 1 .. Len(s) - 1 /\ DOMAIN s = 1 .. Len(s)
      /\ \A k \in 1 .. Len(s) - 1 : t[k] = s[k + 1]
  OBVIOUS
<1> HIDE DEF t
<1>2. ASSUME NEW k \in DOMAIN t
      PROVE  k \in Nat /\ k + 1 \in DOMAIN s /\ t[k] = s[k + 1] /\ (k + 1) - 1 = k
  BY <1>1
<1>3. ASSUME NEW k \in DOMAIN t, NEW j \in 1 .. (k + 1) - 1, j # 1
      PROVE  j - 1 \in 1 .. k - 1 /\ t[j - 1] = s[j]
  <2>1. j - 1 \in 1 .. k - 1 /\ j - 1 \in 1 .. Len(s) - 1 /\ (j - 1) + 1 = j
    BY <1>1, <1>3
  <2> QED BY <1>1, <2>1
<1>4. OperatorBefore(t, ops)
  <2> SUFFICES ASSUME NEW k \in DOMAIN t, t[k].what \in {"version", "ownVersion"},
                      t[k].package.name \notin ops
               PROVE  \E j \in 1 .. k - 1 :
                         t[j].what = "operator" /\ t[j].package.name = t[k].package.name
    BY DEF OperatorBefore
  <2>1. PICK j \in 1 .. (k + 1) - 1 :
                s[j].what = "operator" /\ s[j].package.name = s[k + 1].package.name
    BY <1>2 DEF Ordered, OperatorBefore
  <2>2. j # 1
    BY <1>1, <1>2, <2>1
  <2> QED BY <1>2, <1>3, <2>1, <2>2
<1>5. NeedsBefore(t, vs)
  <2>3. \A k \in DOMAIN t : t[k].what = "ownVersion" => Range(t[k].package.needs) \subseteq Keys
    BY <1>2 DEF Ordered, NeedsBefore
  <2> SUFFICES ASSUME NEW k \in DOMAIN t, t[k].what = "ownVersion",
                      NEW r \in Range(t[k].package.needs),
                      ~ \E v \in vs : v.name = r.name /\ v.version = r.version
               PROVE  \E j \in 1 .. k - 1 :
                         t[j].what = "version" /\ t[j].package.name = r.name
                                               /\ t[j].package.version = r.version
    BY <2>3 DEF NeedsBefore
  <2>1. PICK j \in 1 .. (k + 1) - 1 :
                s[j].what = "version" /\ s[j].package.name = r.name
                                      /\ s[j].package.version = r.version
    BY <1>2 DEF Ordered, NeedsBefore
  <2>2. j # 1
    BY <1>1, <2>1
  <2> QED BY <1>2, <1>3, <2>1, <2>2
<1>6. VersionsNeeded(t)
  BY <1>2 DEF Ordered, VersionsNeeded
<1> QED BY <1>1, <1>4, <1>5, <1>6 DEF Ordered, t

(* ------------------------------- the steps ---------------------------- *)

LEMMA InitInv == Init => IInv
<1> SUFFICES ASSUME Init PROVE IInv
  OBVIOUS
<1>1. RepositoryInv
  BY InstallAssumption DEF Init, RepositoryInv
<1>2. VersionsInv
  BY FS_EmptySet DEF Init, VersionsInv, UniqueKeys
<1>3. CommandsInv
  <2>1. todo \in [Client -> Seq(Items)] /\ absent \in [Client -> BOOLEAN] /\ at \in [Client -> Places]
    BY DEF Init, Places
  <2>2. \A c \in Client : todo[c] = <<>> /\ absent[c] = FALSE
    BY DEF Init
  <2>3. Ordered(<<>>, operators, versions)
    BY DEF Ordered, OperatorBefore, NeedsBefore, VersionsNeeded
  <2> QED BY <2>1, <2>2, <2>3 DEF CommandsInv, SeenAbsent
<1>4. OperatorsKnown /\ DependenciesFirst /\ NamesPackages
  BY DEF Init, OperatorsKnown, DependenciesFirst, NamesPackages
<1> QED BY <1>1, <1>2, <1>3, <1>4 DEF IInv

\* A step of one client: what the others still have to do stays in order.
LEMMA OneClientMoves ==
  ASSUME CommandsInv, operators \subseteq operators', versions \subseteq versions',
         NEW c \in Client, todo' \in [Client -> Seq(Items)],
         absent' \in [Client -> BOOLEAN], at' \in [Client -> Places],
         \A d \in Client \ {c} :
            todo'[d] = todo[d] /\ absent'[d] = absent[d] /\ at'[d] = at[d],
         Ordered(todo'[c], operators', versions'),
         absent'[c] => at'[c] = "objects" /\ todo'[c] # <<>> /\ Head(todo'[c]).what # "installed"
  PROVE  CommandsInv'
<1> DEFINE Seen(d) == absent'[d] => at'[d] = "objects" /\ todo'[d] # <<>>
                                                       /\ Head(todo'[d]).what # "installed"
<1>1. ASSUME NEW d \in Client
      PROVE  Ordered(todo'[d], operators', versions') /\ Seen(d)
  <2>1. CASE d = c
    BY <2>1
  <2>2. CASE d # c
    <3>1. /\ Ordered(todo[d], operators, versions)
          /\ absent[d] => at[d] = "objects" /\ todo[d] # <<>> /\ Head(todo[d]).what # "installed"
      BY DEF CommandsInv, SeenAbsent
    <3>2. Ordered(todo[d], operators', versions')
      BY <3>1, OrderedMore
    <3> QED BY <2>2, <3>1, <3>2
  <2> QED BY <2>1, <2>2
<1> QED BY <1>1 DEF CommandsInv, SeenAbsent

\* The cluster's invariants say nothing of the commands.
LEMMA ClusterStays ==
  ASSUME IInv, UNCHANGED <<index, operators, versions>>
  PROVE  /\ RepositoryInv' /\ VersionsInv'
         /\ OperatorsKnown' /\ DependenciesFirst' /\ NamesPackages'
BY DEF IInv, RepositoryInv, VersionsInv, OperatorsKnown, DependenciesFirst, NamesPackages,
       Provided, Shadowed

\* A command that ends leaves everything it has made.
LEMMA EndsInv ==
  ASSUME IInv, NEW c \in Client, NEW how, Ends(c, how), UNCHANGED <<index, operators, versions>>
  PROVE  IInv'
<1>1. /\ todo' = [todo EXCEPT ![c] = <<>>] /\ absent' = [absent EXCEPT ![c] = FALSE]
      /\ at' = [at EXCEPT ![c] = "idle"] /\ at \in [Client -> Places]
      /\ todo \in [Client -> Seq(Items)] /\ absent \in [Client -> BOOLEAN]
  BY DEF Ends, IInv, CommandsInv
<1>2. /\ todo' \in [Client -> Seq(Items)] /\ absent' \in [Client -> BOOLEAN]
      /\ todo'[c] = <<>> /\ absent'[c] = FALSE
      /\ \A d \in Client \ {c} :
            todo'[d] = todo[d] /\ absent'[d] = absent[d] /\ at'[d] = at[d]
  BY <1>1
<1>3. at' \in [Client -> Places]
  BY <1>1 DEF Places
<1>4. Ordered(<<>>, operators', versions')
  BY DEF Ordered, OperatorBefore, NeedsBefore, VersionsNeeded
<1>5. CommandsInv'
  BY <1>2, <1>3, <1>4, OneClientMoves DEF IInv
<1> QED BY <1>5, ClusterStays DEF IInv

LEMMA StaysInv ==
  ASSUME IInv, UNCHANGED <<index, operators, versions, todo, absent, at>>
  PROVE  IInv'
<1>1. CommandsInv'
  BY DEF IInv, CommandsInv, SeenAbsent
<1> QED BY <1>1, ClusterStays DEF IInv

\* A command goes on to its next part, with nothing looked for in vain.
LEMMA GoesInv ==
  ASSUME IInv, NEW c \in Client, NEW where \in Places, GoesTo(c, where), ~ absent[c],
         UNCHANGED <<index, operators, versions, todo, absent>>
  PROVE  IInv'
<1>1. /\ at' \in [Client -> Places] /\ \A d \in Client \ {c} : at'[d] = at[d]
  BY DEF GoesTo, IInv, CommandsInv
<1>2. CommandsInv'
  BY <1>1, OneClientMoves DEF IInv, CommandsInv
<1> QED BY <1>2, ClusterStays DEF IInv

\* Resolve: when every reference resolves, all that is needed was found, and is
\* put before the version that needs it.
LEMMA ResolvesInv ==
  ASSUME IInv, NEW c \in Client, NEW m, m.file \in Package \cup {None}, Resolves(c, m)
  PROVE  /\ todo' \in [Client -> Seq(Items)]
         /\ \A d \in Client \ {c} : todo'[d] = todo[d]
         /\ Ordered(todo'[c], operators, versions)
<1>1. PICK reversed \in BOOLEAN :
        LET q == ResolvePackage(m, reversed)
            r == ResolverOf(m, reversed)
        IN  q # None /\ Prepares(c, m, q, r, DependencyWalk(r, q))
  BY DEF Resolves
<1> DEFINE p == ResolvePackage(m, reversed)
           rs == ResolverOf(m, reversed)
           found == DependencyWalk(rs, p).found
           deps == [k \in DOMAIN found |-> Pinned(rs, found[k])]
<1>2. /\ p # None /\ DependencyWalk(rs, p).needs = <<>>
      /\ AllResolve(rs, {p} \cup Range(found))
      /\ todo' = [todo EXCEPT ![c] = Objects(Pinned(rs, p), deps)]
  BY <1>1 DEF Prepares
<1>3. ResolvesTo(rs) /\ p \in Stored
  BY <1>2, ResolverTyped DEF IInv
<1> HIDE DEF p, rs
<1>4. found \in Seq(Stored) /\ Closed(rs, p, found, <<>>)
  BY <1>2, <1>3, WalkClosed
<1> HIDE DEF found
<1>5. Len(found) \in Nat /\ DOMAIN found = 1 .. Len(found) /\ \A k \in DOMAIN found : found[k] \in Stored
  BY <1>4
<1>6. \A q \in {p} \cup Range(found) : \A r \in Range(q.needs) : rs[r] # None
  BY <1>2 DEF AllResolve
<1>7. ASSUME NEW q \in {p} \cup Range(found)
      PROVE  /\ q \in Stored /\ Pinned(rs, q) \in Stored
             /\ Pinned(rs, q).name = q.name /\ Pinned(rs, q).version = q.version
             /\ \A k \in Range(Pinned(rs, q).needs) : \E r \in Range(q.needs) : k = Key(rs[r])
  <2>1. q \in Stored
    BY <1>3, <1>5 DEF Range
  <2> QED BY <1>3, <1>6, <2>1, PinnedStored
<1>8. \A k \in DOMAIN found : found[k] \in Range(found) /\ deps[k] = Pinned(rs, found[k])
  BY DEF Range
<1>9. deps \in Seq(Stored) /\ DOMAIN deps = DOMAIN found
  <2>1. deps = [k \in 1 .. Len(found) |-> deps[k]] /\ \A k \in 1 .. Len(found) : deps[k] \in Stored
    BY <1>5, <1>7, <1>8
  <2>2. DOMAIN deps = DOMAIN found
    OBVIOUS
  <2> HIDE DEF deps
  <2> QED BY <1>5, <2>1, <2>2
<1> HIDE DEF deps
<1>10. \A d \in Range(deps) : d.name \in Needed
  <2> SUFFICES ASSUME NEW k \in DOMAIN found PROVE deps[k].name \in Needed
    BY <1>9 DEF Range
  <2>1. found[k].name \in Needed
    BY <1>4, <1>8 DEF Closed
  <2> QED BY <1>7, <1>8, <2>1
<1>11. ASSUME NEW k \in Range(Pinned(rs, p).needs)
       PROVE  k \in Keys /\ \E d \in Range(deps) : d.name = k.name /\ d.version = k.version
  <2>1. PICK r \in Range(p.needs) : k = Key(rs[r])
    BY <1>7
  <2>2. rs[r] \in Range(found)
    <3>1. Range(<<>>) = {}
      BY DEF Range
    <3> QED BY <1>4, <1>6, <2>1, <3>1 DEF Closed
  <2>3. PICK i \in DOMAIN found : found[i] = rs[r]
    BY <2>2 DEF Range
  <2>4. deps[i] \in Range(deps) /\ deps[i].name = rs[r].name /\ deps[i].version = rs[r].version
    BY <1>7, <1>8, <1>9, <2>2, <2>3 DEF Range
  <2>5. k \in Keys
    BY <1>5, <2>1, <2>3 DEF Stored, Keys
  <2> QED BY <2>1, <2>4, <2>5, KeyParts
<1>12. /\ Objects(Pinned(rs, p), deps) \in Seq(Items)
       /\ Ordered(Objects(Pinned(rs, p), deps), operators, versions)
  BY <1>7, <1>9, <1>10, <1>11, ObjectsOrdered
<1>13. todo \in [Client -> Seq(Items)]
  BY DEF IInv, CommandsInv
<1> QED BY <1>2, <1>12, <1>13

LEMMA StartInv ==
  ASSUME IInv, NEW c \in Client, NEW m, m.file \in Package \cup {None}, Start(c, m)
  PROVE  IInv'
<1>1. UNCHANGED <<index, operators, versions, absent>>
  BY DEF Start, cluster
<1>2. FirstStep(m) \in Places
  BY DEF FirstStep, Places
<1>3. absent[c] = FALSE
  BY DEF Start, IInv, CommandsInv, SeenAbsent
<1>4. CASE m.kind = "uninstall"
  BY <1>1, <1>2, <1>3, <1>4, GoesInv DEF Start
<1>5. CASE m.kind # "uninstall"
  <2>1. /\ todo' \in [Client -> Seq(Items)]
        /\ \A d \in Client \ {c} : todo'[d] = todo[d]
        /\ Ordered(todo'[c], operators, versions)
    BY <1>5, ResolvesInv DEF Start
  <2>2. /\ at' \in [Client -> Places] /\ \A d \in Client \ {c} : at'[d] = at[d]
    BY <1>2 DEF Start, GoesTo, IInv, CommandsInv
  <2>3. CommandsInv'
    BY <1>1, <1>3, <2>1, <2>2, OneClientMoves DEF IInv, CommandsInv
  <2> QED BY <1>1, <2>3, ClusterStays DEF IInv
<1> QED BY <1>4, <1>5

LEMMA LookInv ==
  ASSUME IInv, NEW c \in Client, Look(c)
  PROVE  IInv'
<1> DEFINE s == todo[c]
<1>1. /\ at[c] = "objects" /\ s # <<>> /\ s \in Seq(Items) /\ ~ absent[c]
      /\ Ordered(s, operators, versions)
      /\ UNCHANGED <<index, operators, versions, at>>
  BY DEF Look, cluster, IInv, CommandsInv
<1>2. /\ todo \in [Client -> Seq(Items)] /\ absent \in [Client -> BOOLEAN]
      /\ at \in [Client -> Places]
  BY DEF IInv, CommandsInv
<1>3. \/ First(c).what = "installed" /\ todo' = [todo EXCEPT ![c] = AfterInstalled(c)]
                                     /\ UNCHANGED absent
      \/ First(c).what \in {"operator", "version"} /\ IsThere(First(c))
            /\ todo' = [todo EXCEPT ![c] = Tail(s)] /\ UNCHANGED absent
      \/ First(c).what # "installed" /\ absent' = [absent EXCEPT ![c] = TRUE] /\ UNCHANGED todo
  BY DEF Look
<1>4. ASSUME NEW t \in Seq(Items), Ordered(t, operators, versions),
             todo' = [todo EXCEPT ![c] = t], UNCHANGED absent
      PROVE  CommandsInv'
  <2>1. /\ todo' \in [Client -> Seq(Items)] /\ todo'[c] = t
        /\ \A d \in Client \ {c} : todo'[d] = todo[d]
    BY <1>2, <1>4
  <2> QED BY <1>1, <1>2, <1>4, <2>1, OneClientMoves DEF IInv
<1>5. CASE First(c).what = "installed" /\ todo' = [todo EXCEPT ![c] = AfterInstalled(c)]
                                      /\ UNCHANGED absent
  <2>1. Tail(s) \in Seq(Items) /\ Ordered(Tail(s), operators, versions)
    BY <1>1, <1>5, OrderedTail DEF First
  <2>2. <<>> \in Seq(Items) /\ Ordered(<<>>, operators, versions)
    BY DEF Ordered, OperatorBefore, NeedsBefore, VersionsNeeded
  <2>3. AfterInstalled(c) \in {<<>>, Tail(s)}
    BY DEF AfterInstalled
  <2>4. AfterInstalled(c) \in Seq(Items) /\ Ordered(AfterInstalled(c), operators, versions)
    BY <2>1, <2>2, <2>3
  <2> HIDE DEF s
  <2>5. CommandsInv'
    BY <1>4, <1>5, <2>4
  <2> QED BY <1>1, <2>5, ClusterStays DEF IInv
<1>6. CASE First(c).what \in {"operator", "version"} /\ IsThere(First(c))
             /\ todo' = [todo EXCEPT ![c] = Tail(s)] /\ UNCHANGED absent
  <2>1. First(c).what = "operator" => First(c).package.name \in operators
    BY <1>6 DEF IsThere
  <2>2. First(c).what = "version" =>
           \E v \in versions : v.name = First(c).package.name /\ v.version = First(c).package.version
    BY <1>6 DEF IsThere, VersionInstalled
  <2>3. Tail(s) \in Seq(Items) /\ Ordered(Tail(s), operators, versions)
    BY <1>1, <2>1, <2>2, OrderedTail DEF First
  <2>4. CommandsInv'
    BY <1>4, <1>6, <2>3
  <2> QED BY <1>1, <2>4, ClusterStays DEF IInv
<1>7. CASE First(c).what # "installed" /\ absent' = [absent EXCEPT ![c] = TRUE] /\ UNCHANGED todo
  <2>1. /\ absent' \in [Client -> BOOLEAN]
        /\ \A d \in Client \ {c} : absent'[d] = absent[d]
    BY <1>2, <1>7
  <2>2. CommandsInv'
    BY <1>1, <1>2, <1>7, <2>1, OneClientMoves DEF IInv, First
  <2> QED BY <1>1, <2>2, ClusterStays DEF IInv
<1> QED BY <1>3, <1>5, <1>6, <1>7

\* What counts as installed is the version that is named, or shadows it.
LEMMA ThereOrShadowed ==
  ASSUME NEW k \in Keys, \E v \in versions : v.name = k.name /\ v.version = k.version
  PROVE  Provided(k) \/ Shadowed(k)
<1>1. PICK v \in versions : v.name = k.name /\ v.version = k.version
  OBVIOUS
<1>2. PICK p \in Package : k = Key(p)
  BY DEF Keys
<1>3. v.app = k.app => Key(v) = k
  BY <1>1, <1>2, KeyParts
<1> QED BY <1>1, <1>3 DEF Provided, Shadowed

\* What is created has its operator, or what it needs, in the cluster.
LEMMA CreateInv ==
  ASSUME IInv, NEW c \in Client, Create(c)
  PROVE  IInv'
<1> DEFINE s == todo[c]
           item == First(c)
<1>1. CASE Refused(item)
  BY <1>1, EndsInv DEF Create, cluster
<1>2. CASE ~ Refused(item)
  <2>1. /\ at[c] = "objects" /\ absent[c]
        /\ IF item.what = "operator"
           THEN operators' = operators \cup {item.package.name} /\ UNCHANGED versions
           ELSE versions' = versions \cup {item.package} /\ UNCHANGED operators
        /\ todo' = [todo EXCEPT ![c] = Tail(s)]
        /\ absent' = [absent EXCEPT ![c] = FALSE]
        /\ UNCHANGED <<index, at>>
    BY <1>2 DEF Create
  <2>2. /\ todo \in [Client -> Seq(Items)] /\ absent \in [Client -> BOOLEAN]
        /\ at \in [Client -> Places] /\ s \in Seq(Items) /\ s # <<>>
        /\ Ordered(s, operators, versions) /\ item.what # "installed"
    BY <2>1 DEF IInv, CommandsInv, SeenAbsent, First
  <2>3. /\ item \in Items
        /\ item.what \in {"version", "ownVersion"} => item.package.name \in operators
        /\ item.what = "version" => item.package.name \in Needed
        /\ item.what = "ownVersion" =>
              \A r \in Range(item.package.needs) :
                 r \in Keys /\ \E v \in versions : v.name = r.name /\ v.version = r.version
    <3> item = Head(s)
      BY DEF First
    <3> HIDE DEF s, item
    <3> QED BY <2>2, OrderedHead
  <2>4. operators \subseteq operators' /\ versions \subseteq versions'
    BY <2>1
  <2>5. /\ item.what = "operator" => item.package.name \in operators'
        /\ item.what = "version" =>
              \E v \in versions' : v.name = item.package.name /\ v.version = item.package.version
    BY <2>1
  <2>6. Ordered(s, operators', versions')
    BY <2>2, <2>4, OrderedMore
  <2>7. Tail(s) \in Seq(Items) /\ Ordered(Tail(s), operators', versions')
    BY <2>2, <2>5, <2>6, OrderedTail DEF First
  <2>8. /\ todo' \in [Client -> Seq(Items)] /\ todo'[c] = Tail(s)
        /\ absent' \in [Client -> BOOLEAN] /\ absent'[c] = FALSE
        /\ \A d \in Client \ {c} :
              todo'[d] = todo[d] /\ absent'[d] = absent[d] /\ at'[d] = at[d]
    BY <2>1, <2>2, <2>7
  <2>9. CommandsInv'
    BY <2>1, <2>2, <2>4, <2>7, <2>8, OneClientMoves DEF IInv
  <2>10. RepositoryInv'
    BY <2>1 DEF IInv, RepositoryInv
  <2>11. CASE item.what = "operator"
    <3>1. VersionsInv' /\ OperatorsKnown' /\ DependenciesFirst' /\ NamesPackages'
      BY <2>1, <2>11 DEF IInv, VersionsInv, OperatorsKnown, DependenciesFirst, NamesPackages,
                         Provided, Shadowed
    <3> QED BY <2>9, <2>10, <3>1 DEF IInv
  <2>12. CASE item.what \in {"version", "ownVersion"}
    <3> DEFINE v == item.package
    <3>1. versions' = versions \cup {v} /\ operators' = operators
      BY <2>1, <2>12
    <3>2. v \in Stored
      BY <2>3 DEF Items
    <3>3. \A u \in versions : Key(u) # Key(v)
      BY <1>2, <2>12 DEF Refused, VersionWith
    <3>4. v.name \in operators
      BY <2>3, <2>12
    <3>5. v.name \in Needed \/
             \A r \in Range(v.needs) :
                r \in Keys /\ \E u \in versions : u.name = r.name /\ u.version = r.version
      BY <2>3, <2>12
    <3> HIDE DEF v
    <3>6. IsFiniteSet(versions')
      BY <3>1, FS_AddElement DEF IInv, VersionsInv
    <3>7. UniqueKeys(versions')
      BY <3>1, <3>3 DEF IInv, VersionsInv, UniqueKeys
    <3>8. VersionsInv'
      BY <3>1, <3>2, <3>6, <3>7 DEF IInv, VersionsInv
    <3>9. OperatorsKnown'
      BY <3>1, <3>4 DEF IInv, OperatorsKnown
    <3>10. DependenciesFirst'
      <4>1. \A k : Provided(k) => Provided(k)'
        BY <3>1 DEF Provided
      <4>2. \A k : Shadowed(k) => Shadowed(k)'
        BY <3>1 DEF Shadowed
      <4>3. v.name \in Needed \/ \A k \in Range(v.needs) : Provided(k) \/ Shadowed(k)
        BY <3>5, ThereOrShadowed
      <4> QED BY <3>1, <4>1, <4>2, <4>3 DEF IInv, DependenciesFirst
    <3>11. NamesPackages'
      BY <3>1, <3>5 DEF IInv, NamesPackages
    <3> QED BY <2>9, <2>10, <3>8, <3>9, <3>10, <3>11 DEF IInv
  <2> QED BY <2>2, <2>3, <2>11, <2>12 DEF Items
<1> QED BY <1>1, <1>2

\* The steps before and after the objects.
LEMMA OtherStepsInv ==
  ASSUME IInv, NEW c \in Client,
         \/ CreateNamespace(c) \/ Compare(c) \/ SkipInstance(c) \/ LookForInstance(c)
         \/ CreateInstance(c) \/ PatchInstance(c) \/ Wait(c) \/ Uninstall(c)
         \/ WaitDeleted(c) \/ Interrupt(c)
  PROVE  IInv'
<1>1. "objects" \in Places /\ "create" \in Places /\ "wait" \in Places
  BY DEF Places
<1>2. at[c] # "objects" \/ todo[c] = <<>> => ~ absent[c]
  BY DEF IInv, CommandsInv, SeenAbsent
<1>3. CASE CreateNamespace(c)
  BY <1>1, <1>2, <1>3, EndsInv, GoesInv DEF CreateNamespace, cluster
<1>4. CASE Compare(c)
  BY <1>1, <1>2, <1>4, EndsInv, GoesInv DEF Compare, cluster
<1>5. CASE SkipInstance(c)
  BY <1>5, EndsInv DEF SkipInstance, cluster
<1>6. CASE LookForInstance(c)
  BY <1>1, <1>2, <1>6, EndsInv, GoesInv DEF LookForInstance, ObjectsDone, cluster
<1>7. CASE CreateInstance(c)
  BY <1>1, <1>2, <1>7, EndsInv, GoesInv DEF CreateInstance, AfterWrite, cluster
<1>8. CASE PatchInstance(c)
  BY <1>8, EndsInv DEF PatchInstance, cluster
<1>9. CASE Wait(c)
  BY <1>9, EndsInv DEF Wait, cluster
<1>10. CASE Uninstall(c)
  BY <1>1, <1>2, <1>10, EndsInv, GoesInv DEF Uninstall, AfterWrite, cluster
<1>11. CASE WaitDeleted(c)
  BY <1>11, EndsInv DEF WaitDeleted, cluster
<1>12. CASE Interrupt(c)
  BY <1>12, EndsInv DEF Interrupt, cluster
<1> QED BY <1>3, <1>4, <1>5, <1>6, <1>7, <1>8, <1>9, <1>10, <1>11, <1>12

LEMMA PublishInv ==
  ASSUME IInv, NEW p \in Package, Publish(p)
  PROVE  IInv'
<1>1. index' = Indexed(index, p) /\ UNCHANGED <<operators, versions, todo, absent, at>>
  BY DEF Publish, process
<1>2. RepositoryInv'
  BY <1>1 DEF IInv, RepositoryInv, Indexed, UniqueKeys
<1>3. CommandsInv'
  BY <1>1 DEF IInv, CommandsInv, SeenAbsent
<1>4. VersionsInv' /\ OperatorsKnown' /\ DependenciesFirst' /\ NamesPackages'
  BY <1>1 DEF IInv, VersionsInv, OperatorsKnown, DependenciesFirst, NamesPackages, Provided, Shadowed
<1> QED BY <1>2, <1>3, <1>4 DEF IInv

LEMMA NextInv == IInv /\ [Next]_vars => IInv'
<1> SUFFICES ASSUME IInv, [Next]_vars PROVE IInv'
  OBVIOUS
<1>1. ASSUME NEW c \in Client, Step(c) \/ Interrupt(c) PROVE IInv'
  BY <1>1, LookInv, CreateInv, OtherStepsInv DEF Step
<1>2. ASSUME NEW c \in Client, NEW m \in Commands[c], Starts(c, m) PROVE IInv'
  <2>1. m.file \in Package \cup {None}
    BY InstallAssumption DEF AnyCommand
  <2> QED BY <1>2, <2>1, StartInv DEF Starts
<1>3. ASSUME NEW m \in Commands[Repairer], Retries(m) PROVE IInv'
  <2>1. m \in AnyCommand
    BY InstallAssumption
  <2>2. Retried(m).file \in Package \cup {None}
    BY <2>1 DEF Retried, AnyCommand
  <2> QED BY <1>3, <2>2, StartInv, InstallAssumption DEF Retries
<1>4. ASSUME NEW p \in Package, Publish(p) PROVE IInv'
  BY <1>4, PublishInv
<1>5. ASSUME NEW n \in Operators, Manager(n) PROVE IInv'
  <2>1. UNCHANGED <<index, operators, versions, todo, absent, at>>
    BY <1>5 DEF Manager, PlanEnds, Removed, process
  <2> QED BY <2>1, StaysInv
<1>6. CASE UNCHANGED vars
  BY <1>6, StaysInv DEF vars, cluster, process
<1> QED BY <1>1, <1>2, <1>3, <1>4, <1>5, <1>6 DEF Next

\* What a command has yet to do is in order, however the commands interleave.
THEOREM InstallSafe == Spec => []IInv
BY InitInv, NextInv, PTL DEF Spec

\* In every state, whoever installs, upgrades, publishes or is interrupted, an
\* OperatorVersion has its Operator (OperatorAndOperatorVersion).
THEOREM OperatorsAreKnown == Spec => []OperatorsKnown
<1>1. IInv => OperatorsKnown
  BY DEF IInv
<1> QED BY <1>1, InstallSafe, PTL

\* In every state the version of an operator that nothing else needs has, in the
\* cluster, each version that its KudoOperator tasks name, or the same operator
\* version with another app version, which the CLI takes for it
\* (OperatorVersionsInstalled).
THEOREM DependenciesAreFirst == Spec => []DependenciesFirst
<1>1. IInv => DependenciesFirst
  BY DEF IInv
<1> QED BY <1>1, InstallSafe, PTL

\* No operator version is packaged with two app versions.
OneAppVersion ==
    \A p, q \in Package : p.name = q.name /\ p.version = q.version => p.app = q.app

\* ... and then the versions that are named are there, without exception
\* (installDependencies).
THEOREM NamedVersionsAreThere == OneAppVersion => (Spec => []DependenciesNamed)
<1> SUFFICES ASSUME OneAppVersion PROVE Spec => []DependenciesNamed
  OBVIOUS
<1>1. ASSUME IInv PROVE DependenciesNamed
  <2> SUFFICES ASSUME NEW v \in versions, v.name \notin Needed, NEW k \in Range(v.needs)
               PROVE  Provided(k)
    BY DEF DependenciesNamed
  <2>1. PICK p \in Package : k = Key(p)
    BY <1>1 DEF IInv, NamesPackages, Keys
  <2>2. ~ Shadowed(k)
    <3> SUFFICES ASSUME NEW u \in versions, u.name = k.name, u.version = k.version
                 PROVE  u.app = k.app
      BY DEF Shadowed
    <3>1. PICK q \in Package : Key(q) = Key(u)
      BY <1>1 DEF IInv, VersionsInv, Stored
    <3> QED BY <2>1, <3>1, KeyParts DEF OneAppVersion
  <2> QED BY <1>1, <2>2 DEF IInv, DependenciesFirst
<1>2. IInv => DependenciesNamed
  BY <1>1
<1> QED BY <1>2, InstallSafe, PTL
=============================================================================
