---------------------------- MODULE RecordsProofs ----------------------------
(***************************************************************************)
(* Facts about the operators of Records: what they are chosen from exists, *)
(* and what they return has its type.  The library's induction theorems    *)
(* take an operator as a parameter, which no installed prover instantiates,*)
(* so an induction is a minimal counterexample here: WFMin, on the strict  *)
(* subsets of a finite set or on the naturals.                             *)
(***************************************************************************)
EXTENDS Records, FiniteSetTheorems, TLAPS

----------------------------------------------------------------------------
(* Extremes of finite sets and of sets of naturals *)

\* A finite, non-empty set has a greatest element under any total preorder.
LEMMA GreatestExists ==
    ASSUME NEW S, IsFiniteSet(S), S # {}, NEW R,
           \A x \in S : <<x, x>> \in R,
           \A x, y \in S : <<x, y>> \in R \/ <<y, x>> \in R,
           \A x, y, z \in S : <<x, y>> \in R /\ <<y, z>> \in R => <<x, z>> \in R
    PROVE  \E m \in S : \A x \in S : <<m, x>> \in R
<1> DEFINE Has(U) == \E m \in U : \A x \in U : <<m, x>> \in R
           Bad == {U \in SUBSET S : U # {} /\ ~Has(U)}
<1>1. SUFFICES ASSUME Bad # {} PROVE FALSE
    OBVIOUS
<1>2. IsWellFoundedOn(StrictSubsetOrdering(S), SUBSET S)
    BY FS_StrictSubsetOrderingWellFounded, FS_FiniteSubsetsOfFinite
<1>3. PICK U \in Bad : \A V \in Bad : ~(<<V, U>> \in StrictSubsetOrdering(S))
    <2>1. Bad \subseteq SUBSET S
        OBVIOUS
    <2> HIDE DEF Bad
    <2> QED BY <1>1, <1>2, <2>1, WFMin
<1>4. PICK x \in U : TRUE
    OBVIOUS
<1> DEFINE V == U \ {x}
<1>5. V \subseteq S /\ V \subseteq U /\ V # U /\ U \subseteq S
    BY <1>4
<1>6. V = {} \/ Has(V)
    <2>1. <<V, U>> \in StrictSubsetOrdering(S)
        BY <1>5 DEF StrictSubsetOrdering
    <2>2. V \notin Bad
        BY <1>3, <2>1
    <2> QED BY <2>2, <1>5
<1>7. CASE V = {}
    <2>1. U = {x}
        BY <1>4, <1>7
    <2> QED BY <2>1, <1>5
<1>8. CASE Has(V)
    <2>1. PICK m \in V : \A y \in V : <<m, y>> \in R
        BY <1>8
    <2>2. \A y \in U : y = x \/ y \in V
        OBVIOUS
    <2>3. CASE <<m, x>> \in R
        <3>1. \A y \in U : <<m, y>> \in R
            BY <2>1, <2>2, <2>3
        <3> QED BY <3>1, <2>1, <1>5
    <2>4. CASE <<x, m>> \in R
        <3>1. \A y \in U : <<x, y>> \in R
            BY <2>1, <2>2, <2>4, <1>4, <1>5
        <3> QED BY <3>1, <1>4
    <2> QED BY <2>1, <2>3, <2>4, <1>4, <1>5
<1> QED BY <1>6, <1>7, <1>8

\* A non-empty set of naturals has a least element.
LEMMA LeastExists ==
    ASSUME NEW S \in SUBSET Nat, S # {}
    PROVE  \E m \in S : \A n \in S : m <= n
<1>1. PICK k \in S : TRUE
    OBVIOUS
<1> DEFINE T == {n \in S : n <= k}
           R == {p \in Nat \X Nat : p[1] <= p[2]}
<1>2. k \in Nat /\ k \in T
    OBVIOUS
<1>3. T \subseteq Nat
    OBVIOUS
<1>4. IsFiniteSet(T)
    <2>1. \A n \in T : n \in 0..k
        BY <1>2, <1>3
    <2>2. IsFiniteSet(0..k)
        BY <1>2, FS_Interval
    <2> QED BY <2>1, <2>2, FS_Subset
<1>5. PICK m \in T : \A n \in T : <<m, n>> \in R
    <2>1. /\ \A x \in T : <<x, x>> \in R
          /\ \A x, y \in T : <<x, y>> \in R \/ <<y, x>> \in R
          /\ \A x, y, z \in T : <<x, y>> \in R /\ <<y, z>> \in R => <<x, z>> \in R
        BY <1>3
    <2>2. T # {}
        BY <1>2
    <2> HIDE DEF T, R
    <2> QED BY <1>4, <2>1, <2>2, GreatestExists
<1>6. m \in Nat /\ m <= k /\ \A n \in T : m <= n
    BY <1>2, <1>5
<1>7. ASSUME NEW n \in S PROVE m <= n
    <2>1. n \in Nat
        OBVIOUS
    <2>2. CASE n <= k
        BY <2>2, <1>6
    <2>3. CASE n > k
        BY <2>1, <2>3, <1>2, <1>6
    <2> QED BY <2>1, <2>2, <2>3, <1>2
<1> QED BY <1>7

\* Of a finite set of naturals every rank is somebody's: k - 1 of its elements
\* are below the one of rank k.
LEMMA RankExists ==
    ASSUME NEW S \in SUBSET Nat, IsFiniteSet(S)
    PROVE  \A k \in 1..Cardinality(S) : \E g \in S : Cardinality({h \in S : h < g}) = k - 1
<1> DEFINE Ranked(U) == \A k \in 1..Cardinality(U) :
                            \E g \in U : Cardinality({h \in U : h < g}) = k - 1
           Bad == {U \in SUBSET S : ~Ranked(U)}
<1>1. SUFFICES ASSUME Bad # {} PROVE FALSE
    OBVIOUS
<1>2. IsWellFoundedOn(StrictSubsetOrdering(S), SUBSET S)
    BY FS_StrictSubsetOrderingWellFounded, FS_FiniteSubsetsOfFinite
<1>3. PICK U \in Bad : \A V \in Bad : ~(<<V, U>> \in StrictSubsetOrdering(S))
    <2>1. Bad \subseteq SUBSET S
        OBVIOUS
    <2> HIDE DEF Bad
    <2> QED BY <1>1, <1>2, <2>1, WFMin
<1>4. U \in SUBSET S /\ U \in SUBSET Nat /\ IsFiniteSet(U) /\ ~Ranked(U)
    BY FS_Subset
<1>5. Cardinality(U) \in Nat
    BY <1>4, FS_CardinalityType
<1>6. U # {}
    <2> SUFFICES ASSUME U = {} PROVE FALSE
        OBVIOUS
    <2>1. Cardinality(U) = 0
        BY FS_EmptySet
    <2>2. Ranked(U)
        BY <2>1
    <2> QED BY <2>2, <1>4
<1>7. PICK m \in U : \A g \in U : m >= g
    <2> DEFINE R == {p \in Nat \X Nat : p[1] >= p[2]}
    <2>1. /\ \A x \in U : <<x, x>> \in R
          /\ \A x, y \in U : <<x, y>> \in R \/ <<y, x>> \in R
          /\ \A x, y, z \in U : <<x, y>> \in R /\ <<y, z>> \in R => <<x, z>> \in R
        BY <1>4
    <2>2. \E g \in U : \A x \in U : <<g, x>> \in R
        <3> HIDE DEF R
        <3> QED BY <1>4, <1>6, <2>1, GreatestExists
    <2> QED BY <2>2, <1>4
<1> DEFINE V == U \ {m}
<1>8. IsFiniteSet(V) /\ Cardinality(V) = Cardinality(U) - 1
    BY <1>4, <1>7, FS_RemoveElement
<1>9. Ranked(V)
    <2>1. V \in SUBSET S /\ <<V, U>> \in StrictSubsetOrdering(S)
        BY <1>4, <1>7 DEF StrictSubsetOrdering
    <2> QED BY <2>1, <1>3
<1>10. ASSUME NEW k \in 1..Cardinality(U)
       PROVE  \E g \in U : Cardinality({h \in U : h < g}) = k - 1
    <2>1. CASE k = Cardinality(U)
        <3>1. \A h \in U : h \in Nat /\ m \in Nat /\ m >= h
            BY <1>4, <1>7
        <3>2. \A h \in U : h < m <=> h # m
            BY <3>1
        <3>3. {h \in U : h < m} = V
            BY <3>2
        <3> QED BY <2>1, <3>3, <1>7, <1>8
    <2>2. CASE k # Cardinality(U)
        <3>1. k \in 1..Cardinality(V)
            BY <2>2, <1>5, <1>8
        <3>2. PICK g \in V : Cardinality({h \in V : h < g}) = k - 1
            BY <3>1, <1>9
        <3>3. {h \in V : h < g} = {h \in U : h < g}
            BY <1>4, <1>7
        <3> QED BY <3>2, <3>3
    <2> QED BY <2>1, <2>2
<1> QED BY <1>10, <1>4

----------------------------------------------------------------------------
(* Chains *)

\* The records of the findings as a handler read them.
Fixes == [Findings -> Fix \cup {NoFix}]

\* Of any fixes that exist there is none, or one that is the tip: one of them,
\* and a valid chain.
LEMMA ChainTipChosen ==
    ASSUME NEW fx \in Fixes, NEW fixes \in SUBSET Findings,
           \A f \in fixes : fx[f] # NoFix,
           ChainTip(fixes, fx) # 0
    PROVE  /\ ChainTip(fixes, fx) \in fixes
           /\ ValidChain(ChainTip(fixes, fx), fixes, fx)
<1> DEFINE valid == {f \in fixes : ValidChain(f, fixes, fx)}
           Longer(f, g) == \/ Len(fx[f].after) > Len(fx[g].after)
                           \/ Len(fx[f].after) = Len(fx[g].after) /\ f >= g
           R == {p \in Findings \X Findings : Longer(p[1], p[2])}
<1>1. ASSUME NEW f \in valid PROVE f \in Nat /\ f \in Findings /\ Len(fx[f].after) \in Nat
    <2>1. f \in Findings /\ fx[f] \in Fix
        BY DEF Fixes
    <2>2. fx[f].after \in Seq(Links)
        BY <2>1 DEF Fix
    <2> QED BY <2>1, <2>2, FindingsAssumption
<1>2. valid # {}
    BY DEF ChainTip
<1>3. IsFiniteSet(valid)
    BY FS_Subset, FindingsAssumption
<1>4. /\ \A x \in valid : <<x, x>> \in R
      /\ \A x, y \in valid : <<x, y>> \in R \/ <<y, x>> \in R
      /\ \A x, y, z \in valid : <<x, y>> \in R /\ <<y, z>> \in R => <<x, z>> \in R
    <2>1. ASSUME NEW x \in valid, NEW y \in valid PROVE <<x, y>> \in R <=> Longer(x, y)
        <3> HIDE DEF Longer
        <3> QED BY <1>1
    <2>2. \A x \in valid : Longer(x, x)
        BY <1>1
    <2>3. \A x, y \in valid : Longer(x, y) \/ Longer(y, x)
        BY <1>1
    <2>4. \A x, y, z \in valid : Longer(x, y) /\ Longer(y, z) => Longer(x, z)
        <3> DEFINE len(f) == Len(fx[f].after)
        <3>1. \A f \in valid : f \in Nat /\ len(f) \in Nat
            BY <1>1
        <3> HIDE DEF valid, len
        <3>2. \A x, y, z \in valid :
                /\ len(x) > len(y) \/ (len(x) = len(y) /\ x >= y)
                /\ len(y) > len(z) \/ (len(y) = len(z) /\ y >= z)
                => len(x) > len(z) \/ (len(x) = len(z) /\ x >= z)
            BY <3>1
        <3> QED BY <3>2 DEF len
    <2> HIDE DEF valid, R, Longer
    <2> QED BY <2>1, <2>2, <2>3, <2>4
<1>5. \E m \in valid : \A x \in valid : <<m, x>> \in R
    <2> HIDE DEF valid, R
    <2> QED BY <1>2, <1>3, <1>4, GreatestExists
<1>6. \E m \in valid : \A x \in valid : Longer(m, x)
    <2> HIDE DEF valid, Longer
    <2> QED BY <1>5
<1>7. ChainTip(fixes, fx) = CHOOSE f \in valid : \A g \in valid : Longer(f, g)
    BY <1>2 DEF ChainTip
<1>8. ChainTip(fixes, fx) \in valid
    <2> HIDE DEF valid, Longer
    <2> QED BY <1>6, <1>7
<1> QED BY <1>8

LEMMA ChainOfType ==
    ASSUME NEW fx, NEW f \in Findings, fx[f] \in Fix
    PROVE  ChainOf(f, fx) \in Seq(Findings)
<1>1. fx[f].after \in Seq(Links)
    BY DEF Fix
<1>2. ASSUME NEW i \in DOMAIN fx[f].after PROVE fx[f].after[i].finding \in Findings
    <2>1. fx[f].after[i] \in Links
        BY <1>1
    <2> QED BY <2>1 DEF Links
<1>3. [i \in DOMAIN fx[f].after |-> fx[f].after[i].finding] \in Seq(Findings)
    BY <1>1, <1>2
<1> QED BY <1>3 DEF ChainOf

----------------------------------------------------------------------------
(* plan_commit *)

\* A plan of a file is about that file; one to commit it replaces exactly the
\* content it was planned over.
LEMMA PlanFileType ==
    ASSUME NEW file \in Files, NEW fx \in Fixes,
           NEW approved \in SUBSET Findings, \A f \in approved : fx[f] # NoFix,
           NEW contents \in [Findings -> Content \cup {NoContent}],
           NEW head \in Content
    PROVE  LET p == PlanFile(file, fx, approved, contents, head)
           IN p \in PlanOfFile /\ p.file = file /\ p.base = head
<1> DEFINE tip == ChainTip(approved, fx)
           chain == IF tip = 0 THEN <<>> ELSE ChainOf(tip, fx)
           p == PlanFile(file, fx, approved, contents, head)
<1>1. tip # 0 => tip \in Findings /\ fx[tip] \in Fix
    BY ChainTipChosen DEF Fixes
<1>2. tip \in Findings \cup {0}
    BY <1>1
<1>3. chain \in Seq(Findings)
    BY <1>1, ChainOfType
<1>4. contents[tip] = NoContent \/ contents[tip] \in Content \/ tip = 0
    BY <1>1
<1>5. \/ p = [file |-> file, tip |-> tip, outcome |-> "held", base |-> head,
              content |-> head, chain |-> chain]
      \/ p = [file |-> file, tip |-> tip, outcome |-> "already", base |-> head,
              content |-> head, chain |-> chain]
      \/ /\ p = [file |-> file, tip |-> tip, outcome |-> "commit", base |-> head,
                 content |-> contents[tip], chain |-> chain]
         /\ contents[tip] \in Content
    <2> HIDE DEF tip
    <2> QED BY <1>4 DEF PlanFile, OnItsBase, tip
<1> HIDE DEF tip, chain, p
<1>6. p \in PlanOfFile /\ p.file = file /\ p.base = head
    BY <1>2, <1>3, <1>5 DEF PlanOfFile
<1> QED BY <1>6 DEF p

\* So is plan_commit's: one plan for each file it has any for.
LEMMA PlanCommitType ==
    ASSUME NEW fx \in Fixes, NEW ended, NEW events,
           NEW contents \in [Findings -> Content \cup {NoContent}],
           NEW tree \in Tree
    PROVE  LET plans == PlanCommit(fx, ended, events, contents, tree)
           IN /\ plans \subseteq PlanOfFile
              /\ \A p \in plans : p.base = tree[p.file]
              /\ \A p, q \in plans : p.file = q.file => p = q
<1> DEFINE ApprovedOn(file) == Approved(file, fx, ended, events)
           planOf(file) == PlanFile(file, fx, ApprovedOn(file), contents, tree[file])
           plans == PlanCommit(fx, ended, events, contents, tree)
<1>1. plans = {planOf(file) : file \in {x \in Files : ApprovedOn(x) # {}}}
    BY DEF PlanCommit
<1>2. ASSUME NEW file \in Files
      PROVE  planOf(file) \in PlanOfFile /\ planOf(file).file = file
             /\ planOf(file).base = tree[file]
    <2>1. ApprovedOn(file) \in SUBSET Findings /\ \A f \in ApprovedOn(file) : fx[f] # NoFix
        BY DEF Approved
    <2>2. tree[file] \in Content
        BY DEF Tree
    <2> QED BY <2>1, <2>2, PlanFileType
<1> HIDE DEF planOf, plans
<1>3. plans \subseteq PlanOfFile
    BY <1>1, <1>2
<1>4. \A p \in plans : p.file \in Files /\ p = planOf(p.file) /\ p.base = tree[p.file]
    BY <1>1, <1>2
<1> QED BY <1>3, <1>4 DEF plans

----------------------------------------------------------------------------
(* The event log *)

LEMMA AfterType ==
    ASSUME NEW event \in Event, NEW at \in Nat, NEW suffix \in 0..3,
           NEW action \in Actions \cup {"none"}
    PROVE  After(event, at, suffix, action) \in Event
BY DEF After, Event

=============================================================================
