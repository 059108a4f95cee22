---------------------------- MODULE ExtractProofs ----------------------------
(***************************************************************************)
(* Proofs about Extract for any inputs, filters, ACLs and words.           *)
(***************************************************************************)
EXTENDS Extract, TLAPS, FiniteSetTheorems, SequenceTheorems, WellFoundedInduction

-----------------------------------------------------------------------------
(* Induction.  The induction theorems of the library take an operator; that *)
(* sets of naturals have a least element does not.                          *)

\* A nonempty set of natural numbers has a least element.
LEMMA LeastNatural ==
  ASSUME NEW T \in SUBSET Nat, T # {}
  PROVE  \E m \in T : \A k \in T : m <= k
<1>1. PICK m \in T : \A k \in T : ~(<<k, m>> \in OpToRel(<, Nat))
  BY NatLessThanWellFounded, WFMin
<1>2. OpToRel(<, Nat) = {ss \in Nat \X Nat : ss[1] < ss[2]}
  BY Zenon DEF OpToRel
<1>3. \A k \in T : ~(<<k, m>> \in {ss \in Nat \X Nat : ss[1] < ss[2]})
  BY <1>1, <1>2, Zenon
<1>4. ASSUME NEW k \in T PROVE m <= k
  <2>1. k \in Nat /\ m \in Nat
    OBVIOUS
  <2>2. CASE k < m
    <3>1. <<k, m>> \in {ss \in Nat \X Nat : ss[1] < ss[2]}
      BY <2>1, <2>2
    <3> QED  BY <1>3, <3>1
  <2> QED  BY <2>1, <2>2
<1> QED  BY <1>4

\* Induction on a set: with 0 and with every successor it has all natural numbers.
LEMMA SetInduction ==
  ASSUME NEW T, 0 \in T, \A n \in Nat : n \in T => n + 1 \in T
  PROVE  Nat \subseteq T
<1> DEFINE Out == {n \in Nat : n \notin T}
<1>1. CASE Out # {}
  <2>1. PICK m \in Out : \A k \in Out : m <= k
    BY <1>1, LeastNatural
  <2>2. m # 0 /\ m - 1 \in Nat /\ m - 1 \notin Out
    BY <2>1
  <2> QED  BY <2>2
<1> QED  BY <1>1

-----------------------------------------------------------------------------
(* FlattenSeq, which all sources are built from *)

\* The function by which the library defines FlattenSeq.
Flat(ss) == CHOOSE f : f = [i \in 1..Len(ss) |-> IF i = 1 THEN ss[i] ELSE f[i-1] \o ss[i]]

\* FlattenSeq is the last value of that function, or the empty sequence.
LEMMA FlattenIsFlat ==
  ASSUME NEW ss
  PROVE  FlattenSeq(ss) = IF Len(ss) = 0 THEN ss ELSE Flat(ss)[Len(ss)]
BY DEF FlattenSeq, Flat

\* Flat satisfies the equation that defines it.
LEMMA FlatUnfolds ==
  ASSUME NEW ss, Len(ss) \in Nat
  PROVE  Flat(ss) = [i \in 1..Len(ss) |-> IF i = 1 THEN ss[i] ELSE Flat(ss)[i-1] \o ss[i]]
<1> DEFINE Eq(f, n) == f = [i \in 1..n |-> IF i = 1 THEN ss[i] ELSE f[i-1] \o ss[i]]
           T == {n \in Nat : \E f : Eq(f, n)}
<1>1. 0 \in T
  <2> DEFINE f == [i \in 1..0 |-> ss[i]]
  <2>1. Eq(f, 0)
    OBVIOUS
  <2> QED  BY <2>1
<1>2. ASSUME NEW n \in Nat, n \in T PROVE n + 1 \in T
  <2>1. PICK g : Eq(g, n)
    BY <1>2
  <2> DEFINE f == [i \in 1..(n + 1) |-> IF i <= n THEN g[i] ELSE IF i = 1 THEN ss[i] ELSE g[n] \o ss[i]]
  <2>2. \A i \in 1..n : g[i] = IF i = 1 THEN ss[i] ELSE g[i-1] \o ss[i]
    BY <2>1
  <2>3. ASSUME NEW i \in 1..(n + 1)
        PROVE  f[i] = IF i = 1 THEN ss[i] ELSE f[i-1] \o ss[i]
    <3>1. CASE i \in 1..n
      <4>1. f[i] = g[i]  BY <3>1
      <4>2. i # 1 => i - 1 \in 1..(n + 1) /\ f[i-1] = g[i-1]  BY <3>1
      <4> QED  BY <3>1, <4>1, <4>2, <2>2
    <3>2. CASE i = n + 1
      <4>1. i # 1 => i - 1 = n /\ f[i-1] = g[n]  BY <3>2
      <4>2. f[i] = IF i = 1 THEN ss[i] ELSE g[n] \o ss[i]  BY <3>2
      <4> QED  BY <4>1, <4>2
    <3> QED  BY <3>1, <3>2
  <2>4. f = [i \in 1..(n + 1) |-> IF i = 1 THEN ss[i] ELSE f[i-1] \o ss[i]]
    <3> HIDE DEF f
    <3>1. f = [i \in 1..(n + 1) |-> f[i]]
      BY DEF f
    <3> QED  BY <3>1, <2>3
  <2> HIDE DEF f
  <2>5. Eq(f, n + 1)
    BY <2>4
  <2>6. n + 1 \in Nat /\ \E h : Eq(h, n + 1)
    <3> HIDE DEF Eq
    <3> QED  BY <2>5
  <2> QED  BY <2>6
<1>3. Len(ss) \in T
  <2> HIDE DEF T
  <2> QED  BY <1>1, <1>2, SetInduction
<1>4. \E f : Eq(f, Len(ss))
  BY <1>3
<1> QED  BY <1>4 DEF Flat

\* A function on 1..n is a sequence.
LEMMA FunctionIsSeq ==
  ASSUME NEW S, NEW n \in Nat, NEW f \in [1..n -> S]
  PROVE  f \in Seq(S)
BY SeqDef

\* The elements of a concatenation.
LEMMA SetOfConcat ==
  ASSUME NEW S, NEW s \in Seq(S), NEW t \in Seq(S)
  PROVE  s \o t \in Seq(S) /\ ToSet(s \o t) = ToSet(s) \cup ToSet(t)
<1> DEFINE n == Len(s) + Len(t)
<1>1. /\ s \o t \in Seq(S) /\ DOMAIN (s \o t) = 1..n
      /\ \A i \in 1..n : (s \o t)[i] = IF i <= Len(s) THEN s[i] ELSE t[i - Len(s)]
  BY ConcatProperties, LenProperties
<1>2. /\ DOMAIN s = 1..Len(s) /\ DOMAIN t = 1..Len(t) /\ Len(s) \in Nat /\ Len(t) \in Nat
  BY LenProperties
<1>3. ASSUME NEW x \in ToSet(s \o t) PROVE x \in ToSet(s) \cup ToSet(t)
  <2>1. PICK i \in 1..n : x = (s \o t)[i]
    BY <1>1 DEF ToSet
  <2>2. CASE i <= Len(s)
    BY <2>1, <2>2, <1>1, <1>2 DEF ToSet
  <2>3. CASE ~(i <= Len(s))
    <3>1. i - Len(s) \in DOMAIN t /\ x = t[i - Len(s)]
      BY <2>1, <2>3, <1>1, <1>2
    <3> QED  BY <3>1 DEF ToSet
  <2> QED  BY <2>2, <2>3
<1>4. ASSUME NEW x \in ToSet(s) PROVE x \in ToSet(s \o t)
  <2>1. PICK i \in DOMAIN s : x = s[i]
    BY DEF ToSet
  <2>2. i \in 1..n /\ (s \o t)[i] = x
    BY <2>1, <1>1, <1>2
  <2> QED  BY <2>2, <1>1 DEF ToSet
<1>5. ASSUME NEW x \in ToSet(t) PROVE x \in ToSet(s \o t)
  <2>1. PICK i \in DOMAIN t : x = t[i]
    BY DEF ToSet
  <2>2. i + Len(s) \in 1..n /\ (s \o t)[i + Len(s)] = x
    BY <2>1, <1>1, <1>2
  <2> QED  BY <2>2, <1>1 DEF ToSet
<1> QED  BY <1>1, <1>3, <1>4, <1>5

\* A flattened sequence has the elements of its parts.
LEMMA FlattenRange ==
  ASSUME NEW S, NEW n \in Nat, NEW ss \in [1..n -> Seq(S)]
  PROVE  /\ FlattenSeq(ss) \in Seq(S)
         /\ \A x : x \in ToSet(FlattenSeq(ss)) <=> \E i \in 1..n : x \in ToSet(ss[i])
<1>1. ss \in Seq(Seq(S)) /\ Len(ss) = n
  BY SeqDef
<1>2. CASE n = 0
  <2>1. FlattenSeq(ss) = ss
    BY <1>1, <1>2, FlattenIsFlat
  <2>2. ss = << >>
    BY <1>1, <1>2, EmptySeq
  <2>3. ToSet(ss) = {}
    BY <2>2 DEF ToSet
  <2> QED  BY <1>2, <2>1, <2>2, <2>3
<1>3. CASE n # 0
  <2> DEFINE f == Flat(ss)
             Good(k) == /\ f[k] \in Seq(S)
                        /\ \A x : x \in ToSet(f[k]) <=> \E i \in 1..k : x \in ToSet(ss[i])
             T == {k \in Nat : k \in 1..n => Good(k)}
  <2>1. \A i \in 1..n : f[i] = IF i = 1 THEN ss[i] ELSE f[i-1] \o ss[i]
    <3> HIDE DEF f
    <3>1. f = [i \in 1..n |-> IF i = 1 THEN ss[i] ELSE f[i-1] \o ss[i]]
      BY <1>1, FlatUnfolds DEF f
    <3> QED  BY <3>1
  <2> HIDE DEF f
  <2>2. 0 \in T
    OBVIOUS
  <2>3. ASSUME NEW k \in Nat, k \in T PROVE k + 1 \in T
    <3> SUFFICES ASSUME k + 1 \in 1..n PROVE Good(k + 1)
      OBVIOUS
    <3>1. CASE k = 0
      <4>1. f[1] = ss[1]
        BY <2>1, <3>1
      <4>2. 1..1 = {1}
        OBVIOUS
      <4> QED  BY <3>1, <4>1, <4>2
    <3>2. CASE k # 0
      <4>1. Good(k)
        BY <2>3, <3>2
      <4>2. f[k + 1] = f[k] \o ss[k + 1]
        <5>1. k + 1 # 1 /\ (k + 1) - 1 = k
          BY <3>2
        <5>2. f[k + 1] = IF k + 1 = 1 THEN ss[k + 1] ELSE f[(k + 1) - 1] \o ss[k + 1]
          BY <2>1
        <5> QED  BY <5>1, <5>2
      <4>3. f[k + 1] \in Seq(S) /\ ToSet(f[k + 1]) = ToSet(f[k]) \cup ToSet(ss[k + 1])
        BY <4>1, <4>2, SetOfConcat
      <4>4. 1..(k + 1) = 1..k \cup {k + 1}
        OBVIOUS
      <4> QED  BY <4>1, <4>3, <4>4
    <3> QED  BY <3>1, <3>2
  <2>4. n \in T
    <3> HIDE DEF T
    <3> QED  BY <2>2, <2>3, SetInduction
  <2>5. Good(n)
    BY <2>4, <1>3
  <2>6. FlattenSeq(ss) = f[n]
    BY <1>1, <1>3, FlattenIsFlat DEF f
  <2> QED  BY <2>5, <2>6
<1> QED  BY <1>2, <1>3

\* One part, and one part more.
LEMMA FlattenOne ==
  ASSUME NEW S, NEW s \in Seq(S)
  PROVE  FlattenSeq(<<s>>) = s
<1>1. Len(<<s>>) = 1
  OBVIOUS
<1>2. Flat(<<s>>)[1] = s
  <2> DEFINE f == Flat(<<s>>)
  <2>1. f = [i \in 1..1 |-> IF i = 1 THEN <<s>>[i] ELSE f[i-1] \o <<s>>[i]]
    BY <1>1, FlatUnfolds
  <2> HIDE DEF f
  <2>2. f[1] = s
    BY <2>1
  <2> QED  BY <2>2 DEF f
<1>3. FlattenSeq(<<s>>) = IF Len(<<s>>) = 0 THEN <<s>> ELSE Flat(<<s>>)[Len(<<s>>)]
  BY FlattenIsFlat, Zenon
<1> QED
  <2> DEFINE n == Len(<<s>>)  f == Flat(<<s>>)  r == FlattenSeq(<<s>>)
  <2>1. n = 1 /\ f[1] = s /\ r = IF n = 0 THEN <<s>> ELSE f[n]
    BY <1>1, <1>2, <1>3
  <2> HIDE DEF n, f, r
  <2>2. r = s
    BY <2>1
  <2> QED  BY <2>2 DEF r

\* Sequences of up to three elements.
LEMMA EmptyTuple ==
  ASSUME NEW S
  PROVE  << >> \in Seq(S) /\ ToSet(<< >>) = {}
BY EmptySeq DEF ToSet

\* One element.
LEMMA OneTuple ==
  ASSUME NEW S, NEW x \in S
  PROVE  <<x>> \in Seq(S) /\ ToSet(<<x>>) = {x}
<1>1. DOMAIN <<x>> = {1} /\ <<x>>[1] = x
  OBVIOUS
<1> QED  BY <1>1 DEF ToSet

\* Two elements.
LEMMA TwoTuple ==
  ASSUME NEW S, NEW x \in S, NEW y \in S
  PROVE  <<x, y>> \in Seq(S) /\ ToSet(<<x, y>>) = {x, y}
<1>1. DOMAIN <<x, y>> = {1, 2} /\ <<x, y>>[1] = x /\ <<x, y>>[2] = y
  OBVIOUS
<1> QED  BY <1>1 DEF ToSet

\* Three elements.
LEMMA ThreeTuple ==
  ASSUME NEW S, NEW x \in S, NEW y \in S, NEW z \in S
  PROVE  <<x, y, z>> \in Seq(S) /\ ToSet(<<x, y, z>>) = {x, y, z}
<1>1. DOMAIN <<x, y, z>> = {1, 2, 3} /\ <<x, y, z>>[1] = x /\ <<x, y, z>>[2] = y /\ <<x, y, z>>[3] = z
  OBVIOUS
<1> QED  BY <1>1 DEF ToSet

Listed(s) == s \in Seq(ToSet(s))

\* ForEach, with a function for the operator.
Each(s, g) == FlattenSeq([i \in DOMAIN s |-> g[s[i]]])

\* What ForEach yields: everything that some element yields.
LEMMA EachRange ==
  ASSUME NEW S, NEW s, Listed(s), NEW g \in [ToSet(s) -> Seq(S)]
  PROVE  /\ Each(s, g) \in Seq(S)
         /\ \A y : y \in ToSet(Each(s, g)) <=> \E x \in ToSet(s) : y \in ToSet(g[x])
<1> DEFINE n == Len(s)
           f == [i \in DOMAIN s |-> g[s[i]]]
<1>1. n \in Nat /\ DOMAIN s = 1..n /\ ToSet(s) = {s[i] : i \in 1..n}
  BY LenProperties DEF Listed, ToSet
<1>2. f \in [1..n -> Seq(S)] /\ \A i \in 1..n : f[i] = g[s[i]]
  BY <1>1
<1>3. Each(s, g) = FlattenSeq(f)
  BY DEF Each
<1> HIDE DEF f
<1>4. /\ FlattenSeq(f) \in Seq(S)
      /\ \A y : y \in ToSet(FlattenSeq(f)) <=> \E i \in 1..n : y \in ToSet(f[i])
  BY <1>1, <1>2, FlattenRange
<1>5. ASSUME NEW y PROVE y \in ToSet(FlattenSeq(f)) <=> \E x \in ToSet(s) : y \in ToSet(g[x])
  <2>1. y \in ToSet(FlattenSeq(f)) <=> \E i \in 1..n : y \in ToSet(g[s[i]])
    BY <1>2, <1>4
  <2>2. \A x : x \in ToSet(s) <=> \E i \in 1..n : x = s[i]
    BY <1>1
  <2> QED  BY <2>1, <2>2
<1> QED  BY <1>3, <1>4, <1>5

\* The elements of a sequence of a set are among the set's.
LEMMA SeqListed ==
  ASSUME NEW S, NEW s \in Seq(S)
  PROVE  Listed(s) /\ ToSet(s) \subseteq S /\ (s = << >> <=> ToSet(s) = {})
<1>1. Len(s) \in Nat /\ DOMAIN s = 1..Len(s) /\ s \in [1..Len(s) -> S]
  BY LenProperties
<1>2. ToSet(s) = {s[i] : i \in 1..Len(s)} /\ ToSet(s) \subseteq S
  BY <1>1 DEF ToSet
<1>3. s \in [1..Len(s) -> ToSet(s)]
  BY <1>1, <1>2
<1>4. s \in Seq(ToSet(s))
  BY <1>1, <1>3, SeqDef
<1>5. s = << >> <=> ToSet(s) = {}
  <2>1. CASE Len(s) = 0
    <3>1. s = << >>
      BY <2>1, EmptySeq
    <3> QED  BY <3>1, EmptyTuple
  <2>2. CASE Len(s) # 0
    <3>1. s[1] \in ToSet(s)
      BY <1>1, <1>2, <2>2
    <3> QED  BY <2>2, <3>1, EmptySeq
  <2> QED  BY <2>1, <2>2
<1> QED  BY <1>2, <1>4, <1>5 DEF Listed

-----------------------------------------------------------------------------
(* Options *)

\* Values are the values of the options with these flags.
LEMMA ValuesRange ==
  ASSUME NEW options, Listed(options), NEW flags, NEW S,
         \A o \in ToSet(options) : o.flag \in flags => o.value \in S
  PROVE  /\ Values(options, flags) \in Seq(S)
         /\ ToSet(Values(options, flags)) = {o.value : o \in {x \in ToSet(options) : x.flag \in flags}}
<1> DEFINE g == [o \in ToSet(options) |-> IF o.flag \in flags THEN <<o.value>> ELSE <<>>]
<1>1. Values(options, flags) = Each(options, g)
  <2>1. \A i \in DOMAIN options : options[i] \in ToSet(options)
    BY DEF ToSet
  <2> QED  BY <2>1 DEF Values, ForEach, Each
<1>2. ASSUME NEW o \in ToSet(options)
      PROVE  /\ g[o] \in Seq(S)
             /\ \A x : x \in ToSet(g[o]) <=> o.flag \in flags /\ x = o.value
  <2>1. CASE o.flag \in flags
    BY <2>1, OneTuple
  <2>2. CASE o.flag \notin flags
    BY <2>2, EmptyTuple
  <2> QED  BY <2>1, <2>2
<1>3. g \in [ToSet(options) -> Seq(S)]
  BY <1>2
<1> HIDE DEF g
<1> QED  BY <1>1, <1>2, <1>3, EachRange

Typed(options) == Listed(options) /\ \A o \in ToSet(options) : OptionTyped(o)

Ref  == [rtype : Word, name : Name]
OnRef == [op : Word, res : Ref]

\* The flags of resources.
LEMMA FlagsOfResources ==
  /\ DOMAIN ResourceFlags = {"--topic", "--group", "--cluster", "--transactional-id", "--delegation-token"}
  /\ ResourceFlags["--topic"] = "Topic" /\ ResourceFlags["--group"] = "Group"
  /\ ResourceFlags["--cluster"] = "Cluster"
  /\ ResourceFlags["--transactional-id"] = "TransactionalId"
  /\ ResourceFlags["--delegation-token"] = "DelegationToken"
BY DEF ResourceFlags

\* The words of the representation that the source puts in by itself.
LEMMA OwnWords ==
  ASSUME SourcesAssumption
  PROVE  /\ ResourceType \subseteq Word /\ {"Allow", "Deny", "LITERAL", "PREFIXED"} \subseteq Word
         /\ {"Topic", "Group", "Cluster", "TransactionalId", "DelegationToken"} \subseteq Word
         /\ {"Read", "Write", "Create", "Delete", "Alter", "Describe", "ClusterAction",
             "DescribeConfigs", "AlterConfigs", "IdempotentWrite", "All"} \subseteq Op
         /\ Op \subseteq Word
<1>1. {"Topic", "Group", "Cluster", "TransactionalId", "DelegationToken"} \subseteq ResourceType
  BY DEF ResourceType
<1>2. /\ AllImpliedOps["Topic"] = {"Read", "Write", "Create", "Delete", "Alter", "Describe",
                       "DescribeConfigs", "AlterConfigs"}
      /\ AllImpliedOps["Cluster"] = {"Create", "Describe", "Alter", "DescribeConfigs", "AlterConfigs",
                         "ClusterAction", "IdempotentWrite"}
  BY DEF AllImpliedOps, ResourceType
<1>3. AllImpliedOps["Topic"] \cup AllImpliedOps["Cluster"] \subseteq ConcreteOp
  BY <1>1 DEF ConcreteOp
<1> QED  BY <1>1, <1>2, <1>3 DEF SourcesAssumption, Op

\* The resources of a call are those that its options refer to.
LEMMA ResourcesRange ==
  ASSUME SourcesAssumption, NEW options, Typed(options)
  PROVE  /\ resources(options) \in Seq(Ref)
         /\ ToSet(resources(options)) =
              {resourceRef(o) : o \in {x \in ToSet(options) : x.flag \in DOMAIN ResourceFlags}}
<1> DEFINE g == [o \in ToSet(options) |->
                   IF o.flag \in DOMAIN ResourceFlags THEN <<resourceRef(o)>> ELSE <<>>]
<1>1. resources(options) = Each(options, g)
  <2>1. \A i \in DOMAIN options : options[i] \in ToSet(options)
    BY DEF ToSet
  <2> QED  BY <2>1 DEF resources, ForEach, Each
<1>2. ASSUME NEW o \in ToSet(options)
      PROVE  /\ g[o] \in Seq(Ref)
             /\ \A x : x \in ToSet(g[o]) <=> o.flag \in DOMAIN ResourceFlags /\ x = resourceRef(o)
  <2>1. CASE o.flag \in DOMAIN ResourceFlags
    <3>1. OptionTyped(o)
      BY DEF Typed
    <3>2. resourceRef(o) \in Ref
      BY <2>1, <3>1, FlagsOfResources, OwnWords DEF resourceRef, Ref, OptionTyped, SourcesAssumption
    <3> QED  BY <2>1, <3>2, OneTuple
  <2>2. CASE o.flag \notin DOMAIN ResourceFlags
    BY <2>2, EmptyTuple
  <2> QED  BY <2>1, <2>2
<1>3. g \in [ToSet(options) -> Seq(Ref)]
  BY <1>2
<1>4. Listed(options)
  BY DEF Typed
<1> HIDE DEF g
<1> QED  BY <1>1, <1>2, <1>3, <1>4, EachRange

-----------------------------------------------------------------------------
(* Words *)

\* A table's words are what Normal may answer, besides the word itself.
LEMMA NormalRange ==
  ASSUME NEW S, NEW table, \A u \in DOMAIN table : table[u] \in S, NEW w \in S
  PROVE  Normal(table, w) \in S
BY DEF Normal

\* What the common part of the tables answers.
LEMMA OneWordOpsRange == \A u \in DOMAIN OneWordOps : OneWordOps[u] \in
  {"Read", "Write", "Create", "Delete", "Alter", "Describe", "All"}
BY DEF OneWordOps

\* What the sources make of a word is a word.
LEMMA NormalWords ==
  ASSUME SourcesAssumption, NEW w \in Word
  PROVE  /\ normalizeOp(w) \in Word /\ normalizeOperation(w) \in Word
         /\ normalizeResourceType(w) \in Word /\ strimziResourceType(w) \in Word
         /\ normalizePermission(w) \in Word /\ strimziPatternType(w) \in Word
         /\ Upper[w] \in Word
<1>1. normalizeOp(w) \in Word
  <2> DEFINE t == [CLUSTER_ACTION |-> "ClusterAction",
            DESCRIBECONFIGS |-> "DescribeConfigs", DESCRIBE_CONFIGS |-> "DescribeConfigs",
            ALTERCONFIGS |-> "AlterConfigs", ALTER_CONFIGS |-> "AlterConfigs",
            IDEMPOTENTWRITE |-> "IdempotentWrite", IDEMPOTENT_WRITE |-> "IdempotentWrite"]
  <2>1. \A u \in DOMAIN t : t[u] \in {"ClusterAction", "DescribeConfigs", "AlterConfigs", "IdempotentWrite"}
    OBVIOUS
  <2>2. normalizeOp(w) = NormalOp(t, w)
    BY DEF normalizeOp
  <2> HIDE DEF t
  <2>3. Normal(t, w) \in Word
    BY <2>1, NormalRange, OwnWords
  <2> QED  BY <2>2, <2>3, OneWordOpsRange, OwnWords DEF NormalOp
<1>2. normalizeOperation(w) \in Word
  <2> DEFINE t == [CLUSTER_ACTION |-> "ClusterAction", DESCRIBE_CONFIGS |-> "DescribeConfigs",
            ALTER_CONFIGS |-> "AlterConfigs", IDEMPOTENT_WRITE |-> "IdempotentWrite"]
  <2>1. \A u \in DOMAIN t : t[u] \in {"ClusterAction", "DescribeConfigs", "AlterConfigs", "IdempotentWrite"}
    OBVIOUS
  <2>2. normalizeOperation(w) = NormalOp(t, w)
    BY DEF normalizeOperation
  <2> HIDE DEF t
  <2>3. Normal(t, w) \in Word
    BY <2>1, NormalRange, OwnWords
  <2> QED  BY <2>2, <2>3, OneWordOpsRange, OwnWords DEF NormalOp
<1>3. normalizeResourceType(w) \in Word
  <2> DEFINE t == [TOPIC |-> "Topic", GROUP |-> "Group", CLUSTER |-> "Cluster",
          TRANSACTIONAL_ID |-> "TransactionalId", TRANSACTIONALID |-> "TransactionalId",
          DELEGATION_TOKEN |-> "DelegationToken", DELEGATIONTOKEN |-> "DelegationToken",
          SUBJECT |-> "Subject"]
  <2>1. \A u \in DOMAIN t : t[u] \in ResourceType
    BY DEF ResourceType
  <2>2. normalizeResourceType(w) = Normal(t, w)
    BY DEF normalizeResourceType
  <2> HIDE DEF t
  <2> QED  BY <2>1, <2>2, NormalRange, OwnWords
<1>4. strimziResourceType(w) \in Word
  <2> DEFINE t == [TOPIC |-> "Topic", GROUP |-> "Group", CLUSTER |-> "Cluster",
               TRANSACTIONALID |-> "TransactionalId"]
  <2>1. \A u \in DOMAIN t : t[u] \in ResourceType
    BY DEF ResourceType
  <2>2. strimziResourceType(w) \in {"TransactionalId", Normal(t, w)}
    BY DEF strimziResourceType
  <2> HIDE DEF t
  <2>3. Normal(t, w) \in Word
    BY <2>1, NormalRange, OwnWords
  <2> QED  BY <2>2, <2>3, OwnWords
<1>5. normalizePermission(w) \in Word
  <2> DEFINE t == [ALLOW |-> "Allow", DENY |-> "Deny"]
  <2>1. \A u \in DOMAIN t : t[u] \in {"Allow", "Deny"}
    OBVIOUS
  <2>2. normalizePermission(w) = Normal(t, w)
    BY DEF normalizePermission
  <2> HIDE DEF t
  <2> QED  BY <2>1, <2>2, NormalRange, OwnWords
<1>6. strimziPatternType(w) \in Word /\ Upper[w] \in Word
  BY OwnWords DEF strimziPatternType, SourcesAssumption
<1> QED  BY <1>1, <1>2, <1>3, <1>4, <1>5, <1>6

-----------------------------------------------------------------------------
(* What a call grants: the script source's matrix and AccessOf *)

\* The resources that AccessOf speaks of.
Names(options, flag, t) == {[rtype |-> t, name |-> n] : n \in ValuesOf(options, flag)}
Topics(options) == Names(options, "--topic", "Topic")
Groups(options) == Names(options, "--group", "Group")
Tids(options)   == Names(options, "--transactional-id", "TransactionalId")
Tokens(options) == Names(options, "--delegation-token", "DelegationToken")
Whole           == {[rtype |-> "Cluster", name |-> ClusterName]}
Clus(options)   == IF "--cluster" \in Flags(options) THEN Whole ELSE {}

AsProducer(options) ==
  ({"Write", "Describe", "Create"} \X Topics(options))
    \cup ({"Write", "Describe"} \X Tids(options))
    \cup (IF "--idempotent" \in Flags(options) THEN {"IdempotentWrite"} \X Whole ELSE {})

AsConsumer(options) ==
  ({"Read", "Describe"} \X Topics(options)) \cup ({"Read"} \X Groups(options))

Operations(options) == {normalizeOp(w) : w \in ValuesOf(options, "--operation")}

AsListed(options) ==
  (IF Operations(options) = {} THEN {"All"} ELSE Operations(options))
    \X (Topics(options) \cup Groups(options) \cup Tids(options) \cup Clus(options) \cup Tokens(options))

\* AccessOf in these terms.
LEMMA AccessOfIs ==
  ASSUME NEW options
  PROVE  LET p == "--producer" \in Flags(options)
             c == "--consumer" \in Flags(options)
         IN  AccessOf(options) = IF p THEN IF c THEN AsProducer(options) \cup AsConsumer(options)
                                          ELSE AsProducer(options)
                                 ELSE IF c THEN AsConsumer(options) ELSE AsListed(options)
<1> DEFINE p == "--producer" \in Flags(options)
           c == "--consumer" \in Flags(options)
<1>1. AccessOf(options) =
        CASE {"--producer", "--consumer"} \subseteq Flags(options) -> AsProducer(options) \cup AsConsumer(options)
          [] p /\ ~c -> AsProducer(options)
          [] c /\ ~p -> AsConsumer(options)
          [] OTHER -> AsListed(options)
  BY DEF AccessOf, AsProducer, AsConsumer, AsListed, Operations, Topics, Groups, Tids, Tokens, Whole, Clus, Names
<1>2. {"--producer", "--consumer"} \subseteq Flags(options) <=> p /\ c
  OBVIOUS
<1> HIDE DEF p, c
<1>3. AccessOf(options) = IF p THEN IF c THEN AsProducer(options) \cup AsConsumer(options)
                                          ELSE AsProducer(options)
                                 ELSE IF c THEN AsConsumer(options) ELSE AsListed(options)
  BY <1>1, <1>2
<1> QED  BY <1>3 DEF p, c

\* The resources that parseInvocation finds, by type.
LEMMA RefsByType ==
  ASSUME SourcesAssumption, NEW options, Typed(options)
  PROVE  LET rs == ToSet(resources(options))
         IN  /\ {r \in rs : r.rtype = "Topic"} = Topics(options)
             /\ {r \in rs : r.rtype = "Group"} = Groups(options)
             /\ rs = Topics(options) \cup Groups(options) \cup Tids(options) \cup Clus(options) \cup Tokens(options)
<1> DEFINE rs == ToSet(resources(options))
           fs == {"--topic", "--group", "--cluster", "--transactional-id", "--delegation-token"}
           by(f) == {resourceRef(o) : o \in {x \in ToSet(options) : x.flag = f}}
<1>1. rs = by("--topic") \cup by("--group") \cup by("--cluster") \cup by("--transactional-id") \cup by("--delegation-token")
  <2>1. rs = {resourceRef(o) : o \in {x \in ToSet(options) : x.flag \in fs}}
    BY ResourcesRange, FlagsOfResources
  <2> QED  BY <2>1
<1>2. /\ by("--topic") = Topics(options) /\ by("--group") = Groups(options)
      /\ by("--transactional-id") = Tids(options) /\ by("--delegation-token") = Tokens(options)
  BY FlagsOfResources DEF resourceRef, Topics, Groups, Tids, Tokens, Names, ValuesOf
<1>3. by("--cluster") = Clus(options)
  <2>1. "--cluster" \in Flags(options) <=> \E o \in ToSet(options) : o.flag = "--cluster"
    BY DEF Flags, ToSet
  <2>2. \A o \in ToSet(options) : o.flag = "--cluster" => resourceRef(o) = [rtype |-> "Cluster", name |-> ClusterName]
    BY FlagsOfResources DEF resourceRef
  <2> QED  BY <2>1, <2>2 DEF Clus, Whole
<1>4. /\ \A r \in Topics(options) : r.rtype = "Topic"
      /\ \A r \in Groups(options) : r.rtype = "Group"
      /\ \A r \in Tids(options) : r.rtype = "TransactionalId"
      /\ \A r \in Tokens(options) : r.rtype = "DelegationToken"
      /\ \A r \in Clus(options) : r.rtype = "Cluster"
  BY DEF Topics, Groups, Tids, Tokens, Names, Clus, Whole
<1> HIDE DEF rs, by
<1>5. rs = Topics(options) \cup Groups(options) \cup Tids(options) \cup Clus(options) \cup Tokens(options)
  BY <1>1, <1>2, <1>3
<1>6. {r \in rs : r.rtype = "Topic"} = Topics(options)
  BY <1>4, <1>5
<1>7. {r \in rs : r.rtype = "Group"} = Groups(options)
  BY <1>4, <1>5
<1> QED  BY <1>5, <1>6, <1>7 DEF rs

\* OnType pairs each of the operations with each resource of the type.
LEMMA OnTypeRange ==
  ASSUME NEW rs \in Seq(Ref), NEW rtype, NEW ops \in Seq(Word)
  PROVE  /\ OnType(rs, rtype, ops) \in Seq(OnRef)
         /\ \A x : x \in ToSet(OnType(rs, rtype, ops)) <=>
              \E r \in ToSet(rs) : r.rtype = rtype /\ \E w \in ToSet(ops) : x = OpRes(w, r)
<1> DEFINE g == [r \in ToSet(rs) |->
                   IF r.rtype = rtype THEN [i \in DOMAIN ops |-> OpRes(ops[i], r)] ELSE <<>>]
<1>1. OnType(rs, rtype, ops) = Each(rs, g)
  <2>1. \A i \in DOMAIN rs : rs[i] \in ToSet(rs)
    BY DEF ToSet
  <2> QED  BY <2>1 DEF OnType, ForEach, Each
<1>2. Listed(rs) /\ ToSet(rs) \subseteq Ref
  BY SeqListed
<1>3. Len(ops) \in Nat /\ DOMAIN ops = 1..Len(ops) /\ \A i \in DOMAIN ops : ops[i] \in Word
  BY LenProperties
<1>4. ASSUME NEW r \in ToSet(rs)
      PROVE  /\ g[r] \in Seq(OnRef)
             /\ \A x : x \in ToSet(g[r]) <=> r.rtype = rtype /\ \E w \in ToSet(ops) : x = OpRes(w, r)
  <2>1. CASE r.rtype = rtype
    <3> DEFINE h == [i \in DOMAIN ops |-> OpRes(ops[i], r)]
    <3>1. g[r] = h
      BY <2>1
    <3>2. DOMAIN h = 1..Len(ops) /\ \A i \in DOMAIN h : h[i] \in OnRef
      BY <1>2, <1>3 DEF OpRes, OnRef
    <3>3. h \in Seq(OnRef)
      BY <1>3, <3>2, SeqDef
    <3>4. \A x : x \in ToSet(h) <=> \E w \in ToSet(ops) : x = OpRes(w, r)
      BY DEF ToSet
    <3> QED  BY <2>1, <3>1, <3>3, <3>4
  <2>2. CASE r.rtype # rtype
    BY <2>2, EmptyTuple
  <2> QED  BY <2>1, <2>2
<1>5. g \in [ToSet(rs) -> Seq(OnRef)]
  BY <1>4
<1> HIDE DEF g
<1> QED  BY <1>1, <1>2, <1>4, <1>5, EachRange

\* The pairs of an operation and a resource in a matrix.
Pairs(m) == {<<x.op, x.res>> : x \in ToSet(m)}

\* OpRes pairs up what it is given.
LEMMA PairOfOpRes ==
  ASSUME NEW w, NEW r
  PROVE  OpRes(w, r).op = w /\ OpRes(w, r).res = r
BY DEF OpRes

\* The pairs of two parts of a matrix.
LEMMA PairsOfConcat ==
  ASSUME NEW m \in Seq(OnRef), NEW k \in Seq(OnRef)
  PROVE  m \o k \in Seq(OnRef) /\ Pairs(m \o k) = Pairs(m) \cup Pairs(k)
BY SetOfConcat DEF Pairs

\* consumer yields what --consumer stands for.
LEMMA ConsumerPairs ==
  ASSUME SourcesAssumption, NEW options, Typed(options)
  PROVE  consumer(options) \in Seq(OnRef) /\ Pairs(consumer(options)) = AsConsumer(options)
<1> DEFINE rs == resources(options)
           g == [r \in ToSet(rs) |->
                   IF r.rtype = "Topic" THEN <<OpRes("Read", r), OpRes("Describe", r)>>
                   ELSE IF r.rtype = "Group" THEN <<OpRes("Read", r)>> ELSE <<>>]
<1>1. consumer(options) = Each(rs, g)
  <2>1. \A i \in DOMAIN rs : rs[i] \in ToSet(rs)
    BY DEF ToSet
  <2> QED  BY <2>1 DEF consumer, ForEach, Each
<1>2. Listed(rs) /\ ToSet(rs) \subseteq Ref
  BY SeqListed, ResourcesRange
<1>3. ASSUME NEW r \in ToSet(rs)
      PROVE  /\ g[r] \in Seq(OnRef)
             /\ ToSet(g[r]) = IF r.rtype = "Topic" THEN {OpRes("Read", r), OpRes("Describe", r)}
                              ELSE IF r.rtype = "Group" THEN {OpRes("Read", r)} ELSE {}
  <2>1. OpRes("Read", r) \in OnRef /\ OpRes("Describe", r) \in OnRef
    BY <1>2, OwnWords DEF OpRes, OnRef
  <2>2. CASE r.rtype = "Topic"
    BY <2>1, <2>2, TwoTuple
  <2>3. CASE r.rtype = "Group"
    BY <2>1, <2>3, OneTuple
  <2>4. CASE r.rtype \notin {"Topic", "Group"}
    BY <2>4, EmptyTuple
  <2> QED  BY <2>2, <2>3, <2>4
<1>4. g \in [ToSet(rs) -> Seq(OnRef)]
  BY <1>3
<1>5. {r \in ToSet(rs) : r.rtype = "Topic"} = Topics(options)
      /\ {r \in ToSet(rs) : r.rtype = "Group"} = Groups(options)
  BY RefsByType
<1> HIDE DEF g, rs
<1>6. consumer(options) \in Seq(OnRef)
  BY <1>1, <1>2, <1>4, EachRange
<1>7. \A x : x \in ToSet(consumer(options)) <=> \E r \in ToSet(rs) : x \in ToSet(g[r])
  BY <1>1, <1>2, <1>4, EachRange
<1>8. \A x : x \in ToSet(consumer(options)) <=>
        \/ \E r \in Topics(options) : x \in {OpRes("Read", r), OpRes("Describe", r)}
        \/ \E r \in Groups(options) : x = OpRes("Read", r)
  <2> SUFFICES ASSUME NEW x
               PROVE  x \in ToSet(consumer(options)) <=>
                        \/ \E r \in Topics(options) : x \in {OpRes("Read", r), OpRes("Describe", r)}
                        \/ \E r \in Groups(options) : x = OpRes("Read", r)
    OBVIOUS
  <2>1. \A r \in ToSet(rs) : x \in ToSet(g[r]) <=>
          \/ r.rtype = "Topic" /\ x \in {OpRes("Read", r), OpRes("Describe", r)}
          \/ r.rtype = "Group" /\ x = OpRes("Read", r)
    BY <1>3
  <2>2. \A r : r \in Topics(options) <=> r \in ToSet(rs) /\ r.rtype = "Topic"
    BY <1>5
  <2>3. \A r : r \in Groups(options) <=> r \in ToSet(rs) /\ r.rtype = "Group"
    BY <1>5
  <2>4. x \in ToSet(consumer(options)) <=> \E r \in ToSet(rs) : x \in ToSet(g[r])
    BY <1>7
  <2> QED  BY <2>1, <2>2, <2>3, <2>4
<1>9. ASSUME NEW w, NEW r
      PROVE  <<w, r>> \in Pairs(consumer(options)) <=> <<w, r>> \in AsConsumer(options)
  <2>1. <<w, r>> \in Pairs(consumer(options)) <=> OpRes(w, r) \in ToSet(consumer(options))
    <3>1. \A x \in ToSet(consumer(options)) : x = OpRes(x.op, x.res)
      BY <1>8, PairOfOpRes
    <3> QED  BY <3>1, PairOfOpRes DEF Pairs
  <2>2. \A v, q : OpRes(w, r) = OpRes(v, q) <=> w = v /\ r = q
    BY PairOfOpRes
  <2> QED  BY <2>1, <2>2, <1>8 DEF AsConsumer
<1>10. \A p \in Pairs(consumer(options)) : p = <<p[1], p[2]>>
  BY DEF Pairs
<1>11. \A p \in AsConsumer(options) : p = <<p[1], p[2]>>
  BY DEF AsConsumer
<1>12. Pairs(consumer(options)) = AsConsumer(options)
  BY <1>9, <1>10, <1>11
<1> QED  BY <1>6, <1>12

\* producer yields nothing but what --producer stands for, and all of it if there is but
\* one transactional id.
LEMMA ProducerPairs ==
  ASSUME SourcesAssumption, NEW options, Typed(options)
  PROVE  /\ producer(options) \in Seq(OnRef)
         /\ Pairs(producer(options)) \subseteq AsProducer(options)
         /\ OneId(options) => AsProducer(options) \subseteq Pairs(producer(options))
<1> DEFINE rs   == resources(options)
           ops  == <<"Write", "Describe", "Create">>
           tids == Values(options, {"--transactional-id"})
           tid  == [rtype |-> "TransactionalId", name |-> Last(tids)]
           whole == [rtype |-> "Cluster", name |-> ClusterName]
           m1 == OnType(rs, "Topic", ops)
           m2 == IF tids = <<>> THEN <<>> ELSE <<OpRes("Write", tid), OpRes("Describe", tid)>>
           m3 == IF "--idempotent" \in Flags(options) THEN <<OpRes("IdempotentWrite", whole)>> ELSE <<>>
<1>1. producer(options) = (m1 \o m2) \o m3
  BY DEF producer
<1>2. m1 \in Seq(OnRef) /\ Pairs(m1) = {"Write", "Describe", "Create"} \X Topics(options)
  <2>1. ops \in Seq(Word) /\ ToSet(ops) = {"Write", "Describe", "Create"}
    BY OwnWords, ThreeTuple
  <2>2. rs \in Seq(Ref) /\ {r \in ToSet(rs) : r.rtype = "Topic"} = Topics(options)
    BY ResourcesRange, RefsByType
  <2> HIDE DEF rs, ops
  <2>3. m1 \in Seq(OnRef)
    BY <2>1, <2>2, OnTypeRange
  <2>4. \A x : x \in ToSet(m1) <=>
          \E r \in ToSet(rs) : r.rtype = "Topic" /\ \E w \in ToSet(ops) : x = OpRes(w, r)
    BY <2>1, <2>2, OnTypeRange
  <2> HIDE DEF m1
  <2>5. \A x : x \in ToSet(m1) <=>
          \E r \in Topics(options) : \E w \in {"Write", "Describe", "Create"} : x = OpRes(w, r)
    BY <2>1, <2>2, <2>4
  <2>6. \A w, r : <<w, r>> \in Pairs(m1) <=> w \in {"Write", "Describe", "Create"} /\ r \in Topics(options)
    BY <2>5, PairOfOpRes DEF Pairs
  <2>7. \A p \in Pairs(m1) : p = <<p[1], p[2]>>
    BY DEF Pairs
  <2>8. Pairs(m1) = {"Write", "Describe", "Create"} \X Topics(options)
    BY <2>6, <2>7
  <2> QED  BY <2>3, <2>8
<1>3. m2 \in Seq(OnRef) /\ Pairs(m2) \subseteq {"Write", "Describe"} \X Tids(options)
      /\ (OneId(options) => {"Write", "Describe"} \X Tids(options) \subseteq Pairs(m2))
  <2>1. tids \in Seq(Name) /\ ToSet(tids) = ValuesOf(options, "--transactional-id")
    <3>1. \A o \in ToSet(options) : o.flag \in {"--transactional-id"} => o.value \in Name
      BY DEF Typed, OptionTyped
    <3>2. tids \in Seq(Name) /\ ToSet(tids) = {o.value : o \in {x \in ToSet(options) : x.flag \in {"--transactional-id"}}}
      BY <3>1, ValuesRange DEF Typed
    <3> QED  BY <3>2 DEF ValuesOf
  <2> HIDE DEF tids
  <2>2. CASE tids = <<>>
    <3>1. Tids(options) = {}
      BY <2>1, <2>2, EmptyTuple DEF Tids, Names
    <3>2. m2 = <<>>
      BY <2>2
    <3> QED  BY <3>1, <3>2, EmptyTuple DEF Pairs
  <2>3. CASE tids # <<>>
    <3>1. Last(tids) \in ToSet(tids) /\ Last(tids) \in Name
      <4>1. Len(tids) \in DOMAIN tids
        BY <2>1, <2>3, LenProperties, EmptySeq
      <4> QED  BY <2>1, <4>1, LenProperties DEF Last, ToSet
    <3>2. tid \in Tids(options) /\ tid \in Ref
      BY <2>1, <3>1, OwnWords DEF Tids, Names, Ref
    <3>3. OneId(options) => Tids(options) = {tid}
      <4>1. OneId(options) => \A v \in ValuesOf(options, "--transactional-id") : v = Last(tids)
        BY <2>1, <3>1 DEF ValuesOf, OneId
      <4> QED  BY <3>2, <4>1 DEF Tids, Names
    <3> HIDE DEF tid
    <3>4. OpRes("Write", tid) \in OnRef /\ OpRes("Describe", tid) \in OnRef
      BY <3>2, OwnWords DEF OpRes, OnRef
    <3>5. m2 \in Seq(OnRef) /\ ToSet(m2) = {OpRes("Write", tid), OpRes("Describe", tid)}
      BY <2>3, <3>4, TwoTuple
    <3> HIDE DEF m2
    <3>6. Pairs(m2) = {<<"Write", tid>>, <<"Describe", tid>>}
      BY <3>5, PairOfOpRes DEF Pairs
    <3> QED  BY <3>2, <3>3, <3>5, <3>6
  <2> QED  BY <2>2, <2>3
<1>4. m3 \in Seq(OnRef)
      /\ Pairs(m3) = IF "--idempotent" \in Flags(options) THEN {"IdempotentWrite"} \X Whole ELSE {}
  <2>1. CASE "--idempotent" \in Flags(options)
    <3>1. OpRes("IdempotentWrite", whole) \in OnRef
      BY OwnWords DEF OpRes, OnRef, Ref, SourcesAssumption
    <3>2. m3 \in Seq(OnRef) /\ ToSet(m3) = {OpRes("IdempotentWrite", whole)}
      BY <2>1, <3>1, OneTuple
    <3> HIDE DEF m3
    <3>3. Pairs(m3) = {<<"IdempotentWrite", whole>>}
      BY <3>2, PairOfOpRes DEF Pairs
    <3> QED  BY <2>1, <3>2, <3>3 DEF Whole
  <2>2. CASE "--idempotent" \notin Flags(options)
    BY <2>2, EmptyTuple DEF Pairs
  <2> QED  BY <2>1, <2>2
<1> HIDE DEF m1, m2, m3
<1>5. m1 \o m2 \in Seq(OnRef) /\ Pairs(m1 \o m2) = Pairs(m1) \cup Pairs(m2)
  BY <1>2, <1>3, PairsOfConcat
<1>6. producer(options) \in Seq(OnRef) /\ Pairs(producer(options)) = Pairs(m1) \cup Pairs(m2) \cup Pairs(m3)
  <2> DEFINE m12 == m1 \o m2
  <2>1. producer(options) = m12 \o m3 /\ m12 \in Seq(OnRef)
    BY <1>1, <1>5
  <2>2. Pairs(m12) = Pairs(m1) \cup Pairs(m2)
    BY <1>5
  <2> HIDE DEF m12
  <2>3. m12 \o m3 \in Seq(OnRef) /\ Pairs(m12 \o m3) = Pairs(m12) \cup Pairs(m3)
    BY <2>1, <1>4, PairsOfConcat
  <2> QED  BY <2>1, <2>2, <2>3
<1>7. /\ Pairs(producer(options)) \subseteq AsProducer(options)
      /\ OneId(options) => AsProducer(options) \subseteq Pairs(producer(options))
  BY <1>2, <1>3, <1>4, <1>6 DEF AsProducer
<1> QED  BY <1>6, <1>7

\* matrix yields nothing but what the call gives access to, and all of it if the call is
\* explicit.
LEMMA MatrixPairs ==
  ASSUME SourcesAssumption, NEW options, Typed(options)
  PROVE  /\ matrix(options) \in Seq(OnRef)
         /\ Pairs(matrix(options)) \subseteq AccessOf(options)
         /\ Explicit(options) => AccessOf(options) \subseteq Pairs(matrix(options))
<1> DEFINE rs  == resources(options)
           ops == Values(options, {"--operation"})
           g   == [w \in ToSet(ops) |-> [i \in DOMAIN rs |-> OpRes(normalizeOp(w), rs[i])]]
           p   == "--producer" \in Flags(options)
           c   == "--consumer" \in Flags(options)
           mp  == producer(options)
           mc  == consumer(options)
           ml  == Each(ops, g)
<1>1. matrix(options) = IF ~p /\ ~c THEN ml
                        ELSE (IF p THEN mp ELSE <<>>) \o (IF c THEN mc ELSE <<>>)
  <2> DEFINE shortcuts == {"--producer", "--consumer"} \cap Flags(options)
             all == ForEach(ops, LAMBDA w : [i \in DOMAIN rs |-> OpRes(normalizeOp(w), rs[i])])
  <2>1. matrix(options) = IF shortcuts = {} THEN all
             ELSE (IF "--producer" \in shortcuts THEN mp ELSE <<>>)
                    \o (IF "--consumer" \in shortcuts THEN mc ELSE <<>>)
    BY DEF matrix
  <2>2. (shortcuts = {} <=> ~p /\ ~c) /\ ("--producer" \in shortcuts <=> p)
        /\ ("--consumer" \in shortcuts <=> c)
    OBVIOUS
  <2>3. all = ml
    <3>1. \A i \in DOMAIN ops : ops[i] \in ToSet(ops)
      BY DEF ToSet
    <3> HIDE DEF ops, rs
    <3> QED  BY <3>1 DEF ForEach, Each
  <2> HIDE DEF shortcuts, all, p, c, mp, mc, ml
  <2> QED  BY <2>1, <2>2, <2>3
<1>2. mp \in Seq(OnRef) /\ mc \in Seq(OnRef)
  BY ProducerPairs, ConsumerPairs
<1>3. /\ ml \in Seq(OnRef) /\ Pairs(ml) \subseteq AsListed(options)
      /\ "--operation" \in Flags(options) => AsListed(options) \subseteq Pairs(ml)
  <2>1. rs \in Seq(Ref) /\ ToSet(rs) = Topics(options) \cup Groups(options) \cup Tids(options)
                                         \cup Clus(options) \cup Tokens(options)
    BY ResourcesRange, RefsByType
  <2>2. ops \in Seq(Word) /\ ToSet(ops) = ValuesOf(options, "--operation")
    <3>1. \A o \in ToSet(options) : o.flag \in {"--operation"} => o.value \in Word
      BY DEF Typed, OptionTyped
    <3>2. ops \in Seq(Word) /\ ToSet(ops) = {o.value : o \in {x \in ToSet(options) : x.flag \in {"--operation"}}}
      BY <3>1, ValuesRange DEF Typed
    <3> QED  BY <3>2 DEF ValuesOf
  <2> HIDE DEF rs, ops
  <2>3. Listed(ops) /\ ToSet(ops) \subseteq Word
    BY <2>2, SeqListed
  <2>4. Len(rs) \in Nat /\ DOMAIN rs = 1..Len(rs) /\ \A i \in DOMAIN rs : rs[i] \in Ref
    BY <2>1, LenProperties
  <2>5. ASSUME NEW w \in ToSet(ops)
        PROVE  /\ g[w] \in Seq(OnRef)
               /\ \A x : x \in ToSet(g[w]) <=> \E r \in ToSet(rs) : x = OpRes(normalizeOp(w), r)
    <3> DEFINE h == [i \in DOMAIN rs |-> OpRes(normalizeOp(w), rs[i])]
    <3>1. g[w] = h
      OBVIOUS
    <3>2. normalizeOp(w) \in Word
      BY <2>3, NormalWords
    <3>3. DOMAIN h = 1..Len(rs) /\ \A i \in DOMAIN h : h[i] \in OnRef
      BY <2>4, <3>2 DEF OpRes, OnRef
    <3>4. h \in Seq(OnRef)
      BY <2>4, <3>3, SeqDef
    <3>5. \A x : x \in ToSet(h) <=> \E r \in ToSet(rs) : x = OpRes(normalizeOp(w), r)
      BY DEF ToSet
    <3> QED  BY <3>1, <3>4, <3>5
  <2>6. g \in [ToSet(ops) -> Seq(OnRef)]
    BY <2>5
  <2> HIDE DEF g
  <2>7. ml \in Seq(OnRef) /\ \A x : x \in ToSet(ml) <=> \E w \in ToSet(ops) : x \in ToSet(g[w])
    BY <2>3, <2>6, EachRange
  <2> HIDE DEF ml
  <2>8. \A x : x \in ToSet(ml) <=>
          \E w \in ToSet(ops) : \E r \in ToSet(rs) : x = OpRes(normalizeOp(w), r)
    <3> SUFFICES ASSUME NEW x
                 PROVE  x \in ToSet(ml) <=>
                          \E w \in ToSet(ops) : \E r \in ToSet(rs) : x = OpRes(normalizeOp(w), r)
      OBVIOUS
    <3>1. \A w \in ToSet(ops) : x \in ToSet(g[w]) <=> \E r \in ToSet(rs) : x = OpRes(normalizeOp(w), r)
      BY <2>5
    <3>2. x \in ToSet(ml) <=> \E w \in ToSet(ops) : x \in ToSet(g[w])
      BY <2>7
    <3> QED  BY <3>1, <3>2
  <2>9. \A v, r : <<v, r>> \in Pairs(ml) <=> (\E w \in ToSet(ops) : v = normalizeOp(w)) /\ r \in ToSet(rs)
    BY <2>8, PairOfOpRes DEF Pairs
  <2>10. \A x \in Pairs(ml) : x = <<x[1], x[2]>>
    BY DEF Pairs
  <2>11. Pairs(ml) = {normalizeOp(w) : w \in ToSet(ops)} \X ToSet(rs)
    BY <2>9, <2>10
  <2>12. Pairs(ml) = Operations(options) \X ToSet(rs)
    BY <2>2, <2>11 DEF Operations
  <2>13. "--operation" \in Flags(options) => Operations(options) # {}
    BY DEF Operations, ValuesOf, Flags, ToSet
  <2> QED  BY <2>1, <2>7, <2>12, <2>13 DEF AsListed
<1>4. Pairs(mp) \subseteq AsProducer(options) /\ (OneId(options) => AsProducer(options) \subseteq Pairs(mp))
  BY ProducerPairs
<1>5. Pairs(mc) = AsConsumer(options)
  BY ConsumerPairs
<1>6. AccessOf(options) = IF p THEN IF c THEN AsProducer(options) \cup AsConsumer(options)
                                       ELSE AsProducer(options)
                          ELSE IF c THEN AsConsumer(options) ELSE AsListed(options)
  BY AccessOfIs
<1>7. Explicit(options) => IF p THEN OneId(options) ELSE c \/ "--operation" \in Flags(options)
  BY DEF Explicit
<1> HIDE DEF p, c, mp, mc, ml
<1>8. CASE p /\ c
  <2>1. matrix(options) = mp \o mc
    BY <1>1, <1>8
  <2>2. mp \o mc \in Seq(OnRef) /\ Pairs(mp \o mc) = Pairs(mp) \cup Pairs(mc)
    BY <1>2, PairsOfConcat
  <2> QED  BY <1>4, <1>5, <1>6, <1>7, <1>8, <2>1, <2>2
<1>9. CASE p /\ ~c
  <2>1. matrix(options) = mp
    BY <1>1, <1>2, <1>9, ConcatEmptySeq
  <2> QED  BY <1>2, <1>4, <1>6, <1>7, <1>9, <2>1
<1>10. CASE ~p /\ c
  <2>1. matrix(options) = mc
    BY <1>1, <1>2, <1>10, ConcatEmptySeq
  <2> QED  BY <1>2, <1>5, <1>6, <1>10, <2>1
<1>11. CASE ~p /\ ~c
  BY <1>1, <1>3, <1>6, <1>7, <1>11
<1> QED  BY <1>8, <1>9, <1>10, <1>11

-----------------------------------------------------------------------------
(* The rows of a call: expand and CallStates *)

HostsOf(options, flag) ==
  LET named == ValuesOf(options, flag) IN IF named = {} THEN {Star} ELSE named

\* The values of one flag.
LEMMA FlagRange ==
  ASSUME NEW options, Listed(options), NEW flag, NEW S,
         \A o \in ToSet(options) : o.flag = flag => o.value \in S
  PROVE  /\ Values(options, {flag}) \in Seq(S)
         /\ ToSet(Values(options, {flag})) = ValuesOf(options, flag)
<1>1. \A o \in ToSet(options) : o.flag \in {flag} => o.value \in S
  OBVIOUS
<1>2. /\ Values(options, {flag}) \in Seq(S)
      /\ ToSet(Values(options, {flag})) = {o.value : o \in {x \in ToSet(options) : x.flag \in {flag}}}
  BY <1>1, ValuesRange
<1> QED  BY <1>2 DEF ValuesOf

\* The last element of a sequence is one of its elements.
LEMMA LastIn ==
  ASSUME NEW S, NEW s \in Seq(S), s # <<>>
  PROVE  Last(s) \in ToSet(s) /\ Last(s) \in S
<1>1. Len(s) \in DOMAIN s
  BY LenProperties, EmptySeq
<1> QED  BY <1>1, LenProperties DEF Last, ToSet

\* The pattern type of a call is a word.
LEMMA PatternTypeWord ==
  ASSUME SourcesAssumption, NEW options, Typed(options)
  PROVE  patternType(options) \in Word
<1> DEFINE mine == Values(options, {"--resource-pattern-type"})
<1>1. mine \in Seq(Word)
  <2>1. \A o \in ToSet(options) : o.flag = "--resource-pattern-type" => o.value \in Word
    BY DEF Typed, OptionTyped
  <2> QED  BY <2>1, FlagRange DEF Typed
<1>2. mine # <<>> => Upper[Last(mine)] \in Word
  BY <1>1, LastIn, NormalWords
<1> QED  BY <1>2, OwnWords DEF patternType

\* A permission's rows: each principal, on each host, for each pair of the matrix.
LEMMA PermissionRange ==
  ASSUME SourcesAssumption, NEW options, Typed(options), NEW perm \in Word,
         NEW pf \in {"--allow-principal", "--deny-principal"},
         NEW hf \in {"--allow-host", "--deny-host"}
  PROVE  /\ PermissionRows(options, perm, pf, hf) \in Seq(Content)
         /\ \A c : c \in ToSet(PermissionRows(options, perm, pf, hf)) <=>
              \E p \in ValuesOf(options, pf), h \in HostsOf(options, hf), m \in ToSet(matrix(options)) :
                c = ContentOf(p, h, m.res.rtype, patternType(options), m.res.name, perm, m.op)
<1> DEFINE ps == Values(options, {pf})
           hs == OrElse(Values(options, {hf}), <<Star>>)
           ms == matrix(options)
           pt == patternType(options)
           C(p, h, m) == ContentOf(p, h, m.res.rtype, pt, m.res.name, perm, m.op)
           g3(p, h) == [m \in ToSet(ms) |-> <<C(p, h, m)>>]
           g2(p) == [h \in ToSet(hs) |-> Each(ms, g3(p, h))]
           g1 == [p \in ToSet(ps) |-> Each(hs, g2(p))]
<1>1. PermissionRows(options, perm, pf, hf) = Each(ps, g1)
  <2> DEFINE R(p, h) == FlattenSeq([k \in DOMAIN ms |-> <<C(p, h, ms[k])>>])
             Q(p) == FlattenSeq([j \in DOMAIN hs |-> R(p, hs[j])])
  <2>1. PermissionRows(options, perm, pf, hf) = FlattenSeq([i \in DOMAIN ps |-> Q(ps[i])])
    BY DEF PermissionRows, ForEach
  <2>2. /\ \A i \in DOMAIN ps : ps[i] \in ToSet(ps)
        /\ \A i \in DOMAIN hs : hs[i] \in ToSet(hs)
        /\ \A i \in DOMAIN ms : ms[i] \in ToSet(ms)
    BY DEF ToSet
  <2> HIDE DEF ps, hs, ms, C
  <2>3. ASSUME NEW p, NEW h PROVE R(p, h) = Each(ms, g3(p, h))
    BY <2>2 DEF Each
  <2> HIDE DEF g3, R
  <2>4. ASSUME NEW p PROVE Q(p) = Each(hs, g2(p))
    BY <2>2, <2>3 DEF Each
  <2> HIDE DEF g2, Q
  <2>5. FlattenSeq([i \in DOMAIN ps |-> Q(ps[i])]) = Each(ps, g1)
    BY <2>2, <2>4 DEF Each
  <2> QED  BY <2>1, <2>5
<1>2. ps \in Seq(Principal) /\ ToSet(ps) = ValuesOf(options, pf)
  <2>1. \A o \in ToSet(options) : o.flag = pf => o.value \in Principal
    BY DEF Typed, OptionTyped
  <2> QED  BY <2>1, FlagRange DEF Typed
<1>3. hs \in Seq(Host \cup {Star}) /\ ToSet(hs) = HostsOf(options, hf)
  <2>1. \A o \in ToSet(options) : o.flag = hf => o.value \in Host \cup {Star}
    BY DEF Typed, OptionTyped
  <2> DEFINE vs == Values(options, {hf})
  <2>2. vs \in Seq(Host \cup {Star}) /\ ToSet(vs) = ValuesOf(options, hf)
    BY <2>1, FlagRange DEF Typed
  <2>3. hs = OrElse(vs, <<Star>>)
    OBVIOUS
  <2> HIDE DEF vs, hs
  <2>4. vs = <<>> <=> ToSet(vs) = {}
    BY <2>2, SeqListed
  <2>5. <<Star>> \in Seq(Host \cup {Star}) /\ ToSet(<<Star>>) = {Star}
    BY OneTuple
  <2> QED  BY <2>2, <2>3, <2>4, <2>5 DEF HostsOf, OrElse
<1>4. ms \in Seq(OnRef) /\ pt \in Word
  BY MatrixPairs, PatternTypeWord
<1>5. Listed(ps) /\ Listed(hs) /\ Listed(ms)
      /\ ToSet(ps) \subseteq Principal /\ ToSet(hs) \subseteq Host \cup {Star} /\ ToSet(ms) \subseteq OnRef
  BY <1>2, <1>3, <1>4, SeqListed
<1> HIDE DEF ps, hs, ms, pt
<1>6. ASSUME NEW p \in ToSet(ps), NEW h \in ToSet(hs)
      PROVE  /\ Each(ms, g3(p, h)) \in Seq(Content)
             /\ \A c : c \in ToSet(Each(ms, g3(p, h))) <=> \E m \in ToSet(ms) : c = C(p, h, m)
  <2>1. ASSUME NEW m \in ToSet(ms) PROVE C(p, h, m) \in Content
    BY <1>4, <1>5 DEF ContentOf, Content, OnRef, Ref
  <2> HIDE DEF C
  <2> DEFINE g == g3(p, h)
  <2>2. ASSUME NEW m \in ToSet(ms)
        PROVE  g[m] \in Seq(Content) /\ ToSet(g[m]) = {C(p, h, m)}
    BY <2>1, OneTuple
  <2>3. g \in [ToSet(ms) -> Seq(Content)]
    BY <2>2
  <2> HIDE DEF g
  <2>4. /\ Each(ms, g) \in Seq(Content)
        /\ \A c : c \in ToSet(Each(ms, g)) <=> \E m \in ToSet(ms) : c \in ToSet(g[m])
    BY <1>5, <2>3, EachRange
  <2>5. ASSUME NEW c PROVE c \in ToSet(Each(ms, g)) <=> \E m \in ToSet(ms) : c = C(p, h, m)
    <3>1. \A m \in ToSet(ms) : c \in ToSet(g[m]) <=> c = C(p, h, m)
      BY <2>2
    <3> QED  BY <2>4, <3>1
  <2> QED  BY <2>4, <2>5 DEF g
<1> HIDE DEF C, g3
<1>7. ASSUME NEW p \in ToSet(ps)
      PROVE  /\ Each(hs, g2(p)) \in Seq(Content)
             /\ \A c : c \in ToSet(Each(hs, g2(p))) <=>
                  \E h \in ToSet(hs), m \in ToSet(ms) : c = C(p, h, m)
  <2> DEFINE g == g2(p)
  <2>1. ASSUME NEW h \in ToSet(hs)
        PROVE  g[h] \in Seq(Content) /\ \A c : c \in ToSet(g[h]) <=> \E m \in ToSet(ms) : c = C(p, h, m)
    BY <1>6
  <2>2. g \in [ToSet(hs) -> Seq(Content)]
    BY <2>1
  <2> HIDE DEF g
  <2>3. /\ Each(hs, g) \in Seq(Content)
        /\ \A c : c \in ToSet(Each(hs, g)) <=> \E h \in ToSet(hs) : c \in ToSet(g[h])
    BY <1>5, <2>2, EachRange
  <2>4. ASSUME NEW c
        PROVE  c \in ToSet(Each(hs, g)) <=> \E h \in ToSet(hs), m \in ToSet(ms) : c = C(p, h, m)
    <3>1. \A h \in ToSet(hs) : c \in ToSet(g[h]) <=> \E m \in ToSet(ms) : c = C(p, h, m)
      BY <2>1
    <3> QED  BY <2>3, <3>1
  <2> QED  BY <2>3, <2>4 DEF g
<1> HIDE DEF g2
<1>8. ASSUME NEW p \in ToSet(ps)
      PROVE  g1[p] \in Seq(Content) /\ \A c : c \in ToSet(g1[p]) <=>
               \E h \in ToSet(hs), m \in ToSet(ms) : c = C(p, h, m)
  BY <1>7
<1>9. g1 \in [ToSet(ps) -> Seq(Content)]
  BY <1>8
<1> HIDE DEF g1
<1>10. /\ Each(ps, g1) \in Seq(Content)
       /\ \A c : c \in ToSet(Each(ps, g1)) <=> \E p \in ToSet(ps) : c \in ToSet(g1[p])
  BY <1>5, <1>9, EachRange
<1>11. ASSUME NEW c
       PROVE  c \in ToSet(Each(ps, g1)) <=>
                \E p \in ToSet(ps), h \in ToSet(hs), m \in ToSet(ms) : c = C(p, h, m)
  <2>1. \A p \in ToSet(ps) : c \in ToSet(g1[p]) <=> \E h \in ToSet(hs), m \in ToSet(ms) : c = C(p, h, m)
    BY <1>8
  <2> QED  BY <1>10, <2>1
<1>12. \A c : c \in ToSet(PermissionRows(options, perm, pf, hf)) <=>
         \E p \in ValuesOf(options, pf), h \in HostsOf(options, hf), m \in ToSet(ms) : c = C(p, h, m)
  BY <1>1, <1>2, <1>3, <1>11
<1> QED  BY <1>1, <1>10, <1>12 DEF C, ms, pt

\* What CallStates says of one permission.
SideOf(options, perm, pf, hf) ==
  {ContentOf(p, h, a[2].rtype, patternType(options), a[2].name, perm, a[1]) :
     p \in ValuesOf(options, pf), h \in HostsOf(options, hf), a \in AccessOf(options)}

\* The rows of one permission are those that CallStates has.
LEMMA PermissionSide ==
  ASSUME SourcesAssumption, NEW options, Typed(options), NEW perm \in Word,
         NEW pf \in {"--allow-principal", "--deny-principal"},
         NEW hf \in {"--allow-host", "--deny-host"}
  PROVE  LET rs == ToSet(PermissionRows(options, perm, pf, hf))
         IN  /\ rs \subseteq SideOf(options, perm, pf, hf)
             /\ Explicit(options) => SideOf(options, perm, pf, hf) \subseteq rs
<1> DEFINE rs == ToSet(PermissionRows(options, perm, pf, hf))
           C(p, h, t, n, op) == ContentOf(p, h, t, patternType(options), n, perm, op)
           ms == matrix(options)
<1>1. \A c : c \in rs <=> \E p \in ValuesOf(options, pf), h \in HostsOf(options, hf), m \in ToSet(ms) :
                c = C(p, h, m.res.rtype, m.res.name, m.op)
  BY PermissionRange
<1>2. Pairs(ms) \subseteq AccessOf(options) /\ (Explicit(options) => AccessOf(options) \subseteq Pairs(ms))
  BY MatrixPairs
<1>3. \A c : c \in SideOf(options, perm, pf, hf) <=>
        \E p \in ValuesOf(options, pf), h \in HostsOf(options, hf), a \in AccessOf(options) :
          c = C(p, h, a[2].rtype, a[2].name, a[1])
  BY DEF SideOf
<1> HIDE DEF rs, C, ms
<1>4. ASSUME NEW c
      PROVE  c \in rs <=> \E p \in ValuesOf(options, pf), h \in HostsOf(options, hf), a \in Pairs(ms) :
                c = C(p, h, a[2].rtype, a[2].name, a[1])
  <2>1. ASSUME c \in rs
        PROVE  \E p \in ValuesOf(options, pf), h \in HostsOf(options, hf), a \in Pairs(ms) :
                 c = C(p, h, a[2].rtype, a[2].name, a[1])
    <3>1. PICK p \in ValuesOf(options, pf), h \in HostsOf(options, hf), m \in ToSet(ms) :
             c = C(p, h, m.res.rtype, m.res.name, m.op)
      BY <1>1, <2>1
    <3>2. <<m.op, m.res>> \in Pairs(ms)
      BY DEF Pairs
    <3> QED  BY <3>1, <3>2
  <2>2. ASSUME NEW p \in ValuesOf(options, pf), NEW h \in HostsOf(options, hf), NEW a \in Pairs(ms),
               c = C(p, h, a[2].rtype, a[2].name, a[1])
        PROVE  c \in rs
    <3>1. PICK m \in ToSet(ms) : a = <<m.op, m.res>>
      BY DEF Pairs
    <3>2. c = C(p, h, m.res.rtype, m.res.name, m.op)
      BY <2>2, <3>1
    <3> QED  BY <1>1, <3>2
  <2> QED  BY <2>1, <2>2
<1>5. ASSUME NEW c \in rs PROVE c \in SideOf(options, perm, pf, hf)
  <2>1. PICK p \in ValuesOf(options, pf), h \in HostsOf(options, hf), a \in Pairs(ms) :
           c = C(p, h, a[2].rtype, a[2].name, a[1])
    BY <1>4
  <2> QED  BY <1>2, <1>3, <2>1
<1>6. ASSUME Explicit(options), NEW c \in SideOf(options, perm, pf, hf) PROVE c \in rs
  <2>1. PICK p \in ValuesOf(options, pf), h \in HostsOf(options, hf), a \in AccessOf(options) :
           c = C(p, h, a[2].rtype, a[2].name, a[1])
    BY <1>3
  <2> QED  BY <1>2, <1>4, <1>6, <2>1
<1>7. rs \subseteq SideOf(options, perm, pf, hf) /\ (Explicit(options) => SideOf(options, perm, pf, hf) \subseteq rs)
  BY <1>5, <1>6
<1> QED  BY <1>7 DEF rs

\* A call becomes the rows it states.
LEMMA ExpandStates ==
  ASSUME SourcesAssumption, NEW options, Typed(options), subAction(options) = "--add"
  PROVE  /\ expand(options) \in Seq(Content)
         /\ ToSet(expand(options)) \subseteq CallStates(options)
         /\ Explicit(options) => CallStates(options) \subseteq ToSet(expand(options))
<1> DEFINE al == PermissionRows(options, "Allow", "--allow-principal", "--allow-host")
           de == PermissionRows(options, "Deny", "--deny-principal", "--deny-host")
           als == SideOf(options, "Allow", "--allow-principal", "--allow-host")
           des == SideOf(options, "Deny", "--deny-principal", "--deny-host")
<1>1. expand(options) = al \o de
  BY DEF expand
<1>2. CallStates(options) = als \cup des
  BY DEF CallStates, SideOf, HostsOf
<1>3. al \in Seq(Content) /\ de \in Seq(Content)
  BY PermissionRange, OwnWords
<1>4. /\ ToSet(al) \subseteq als /\ (Explicit(options) => als \subseteq ToSet(al))
      /\ ToSet(de) \subseteq des /\ (Explicit(options) => des \subseteq ToSet(de))
  BY PermissionSide, OwnWords
<1> HIDE DEF al, de, als, des
<1>5. al \o de \in Seq(Content) /\ ToSet(al \o de) = ToSet(al) \cup ToSet(de)
  BY <1>3, SetOfConcat
<1> QED  BY <1>1, <1>2, <1>4, <1>5

-----------------------------------------------------------------------------
(* The rows of the other sources *)

\* A KafkaUser becomes the rows it states.
LEMMA StrimziStates ==
  ASSUME SourcesAssumption, NEW user, ItemTyped(user), user.kind = "KafkaUser"
  PROVE  StrimziRows(user) \in Seq(Content) /\ ToSet(StrimziRows(user)) = UserStates(user)
<1> DEFINE C(a, op) == ContentOf(user.principal, IF a.host = Empty THEN Star ELSE a.host,
                         strimziResourceType(a.rtype), strimziPatternType(a.ptype), a.name,
                         IF Upper[a.perm] = "DENY" THEN "Deny" ELSE "Allow", op)
           h(a) == [op \in ToSet(OperationsOf(a)) |-> <<C(a, op)>>]
           us == user.acls
           g == [a \in ToSet(us) |-> Each(OperationsOf(a), h(a))]
           R(a) == FlattenSeq([k \in DOMAIN OperationsOf(a) |-> <<C(a, OperationsOf(a)[k])>>])
<1>1. StrimziRows(user) = FlattenSeq([i \in DOMAIN us |-> R(us[i])])
  BY DEF StrimziRows, ForEach
<1>2. ASSUME NEW a PROVE R(a) = Each(OperationsOf(a), h(a))
  <2> DEFINE ops == OperationsOf(a)
  <2>1. \A k \in DOMAIN ops : ops[k] \in ToSet(ops)
    BY DEF ToSet
  <2> HIDE DEF C, ops
  <2>2. FlattenSeq([k \in DOMAIN ops |-> <<C(a, ops[k])>>]) = Each(ops, [op \in ToSet(ops) |-> <<C(a, op)>>])
    BY <2>1 DEF Each
  <2> QED  BY <2>2 DEF ops
<1>3. user.principal \in Principal /\ Listed(us) /\ \A a \in ToSet(us) : UserAclTyped(a)
  BY DEF ItemTyped, Listed
<1>4. ASSUME NEW a \in ToSet(us)
      PROVE  /\ OperationsOf(a) \in Seq(Word)
             /\ ToSet(OperationsOf(a)) =
                  IF a.operations = <<>> THEN {a.operation} \ {Empty} ELSE ToSet(a.operations)
  <2>1. UserAclTyped(a)
    BY <1>3
  <2>2. CASE a.operations = <<>> /\ a.operation # Empty
    <3>1. OperationsOf(a) = <<a.operation>> /\ a.operation \in Word
      BY <2>1, <2>2 DEF OperationsOf, UserAclTyped
    <3> QED  BY <2>2, <3>1, OneTuple
  <2>3. CASE a.operations = <<>> /\ a.operation = Empty
    BY <2>3, EmptyTuple DEF OperationsOf
  <2>4. CASE a.operations # <<>>
    BY <2>1, <2>4 DEF OperationsOf, UserAclTyped
  <2> QED  BY <2>2, <2>3, <2>4
<1>5. \A a \in ToSet(us), op \in Word : C(a, op) \in Content
  <2> SUFFICES ASSUME NEW a \in ToSet(us), NEW op \in Word PROVE C(a, op) \in Content
    OBVIOUS
  <2>1. UserAclTyped(a)
    BY <1>3
  <2>2. strimziResourceType(a.rtype) \in Word /\ strimziPatternType(a.ptype) \in Word
    BY <2>1, NormalWords DEF UserAclTyped
  <2> QED  BY <1>3, <2>1, <2>2, OwnWords DEF UserAclTyped, ContentOf, Content
<1> HIDE DEF C
<1>6. ASSUME NEW a \in ToSet(us)
      PROVE  /\ R(a) \in Seq(Content)
             /\ \A c : c \in ToSet(R(a)) <=> \E op \in ToSet(OperationsOf(a)) : c = C(a, op)
  <2> DEFINE ops == OperationsOf(a)
             k == h(a)
  <2>1. Listed(ops) /\ ToSet(ops) \subseteq Word
    BY <1>4, SeqListed
  <2>2. ASSUME NEW op \in ToSet(ops) PROVE k[op] \in Seq(Content) /\ ToSet(k[op]) = {C(a, op)}
    BY <1>5, <2>1, OneTuple
  <2>3. k \in [ToSet(ops) -> Seq(Content)]
    BY <2>2
  <2>4. R(a) = Each(ops, k)
    BY <1>2
  <2> HIDE DEF ops, k, R
  <2>5. R(a) \in Seq(Content) /\ \A c : c \in ToSet(R(a)) <=> \E op \in ToSet(ops) : c \in ToSet(k[op])
    BY <2>1, <2>3, <2>4, EachRange
  <2>6. ASSUME NEW c PROVE c \in ToSet(R(a)) <=> \E op \in ToSet(ops) : c = C(a, op)
    <3>1. \A op \in ToSet(ops) : c \in ToSet(k[op]) <=> c = C(a, op)
      BY <2>2
    <3> QED  BY <2>5, <3>1
  <2> QED  BY <2>5, <2>6 DEF ops
<1> HIDE DEF R, h
<1>7. StrimziRows(user) = Each(us, g)
  <2>1. \A i \in DOMAIN us : us[i] \in ToSet(us)
    BY DEF ToSet
  <2> HIDE DEF us
  <2> QED  BY <1>1, <1>2, <2>1 DEF Each
<1>8. \A a \in ToSet(us) : g[a] = R(a)
  BY <1>2
<1>9. g \in [ToSet(us) -> Seq(Content)]
  BY <1>2, <1>6
<1> HIDE DEF g
<1>10. /\ StrimziRows(user) \in Seq(Content)
       /\ \A c : c \in ToSet(StrimziRows(user)) <=> \E a \in ToSet(us) : c \in ToSet(R(a))
  <2>1. /\ Each(us, g) \in Seq(Content)
        /\ \A c : c \in ToSet(Each(us, g)) <=> \E a \in ToSet(us) : c \in ToSet(g[a])
    BY <1>3, <1>9, EachRange
  <2> QED  BY <1>7, <1>8, <2>1
<1>11. ASSUME NEW c PROVE c \in ToSet(StrimziRows(user)) <=> c \in UserStates(user)
  <2> DEFINE ops(a) == IF a.operations = <<>> THEN {a.operation} \ {Empty} ELSE ToSet(a.operations)
  <2>1. UserStates(user) = UNION {{C(a, op) : op \in ops(a)} : a \in ToSet(us)}
    BY DEF UserStates, C
  <2>2. \A a \in ToSet(us) : ToSet(OperationsOf(a)) = ops(a)
    BY <1>4
  <2> HIDE DEF ops
  <2>3. c \in UserStates(user) <=> \E a \in ToSet(us) : \E op \in ops(a) : c = C(a, op)
    BY <2>1
  <2>4. \A a \in ToSet(us) : c \in ToSet(R(a)) <=> \E op \in ops(a) : c = C(a, op)
    BY <1>6, <2>2
  <2> QED  BY <1>10, <2>3, <2>4
<1> QED  BY <1>10, <1>11

\* A Kafka resource becomes the rows it states.
LEMMA KafkaStates ==
  ASSUME SourcesAssumption, NEW doc, ItemTyped(doc), doc.kind = "Kafka"
  PROVE  /\ KafkaRows(doc) \in Seq(Content)
         /\ ToSet(KafkaRows(doc)) =
              {ContentOf(su, Star, "Cluster", "LITERAL", ClusterName, "Allow", "All") :
                 su \in ToSet(doc.superUsers)}
<1> DEFINE C(su) == ContentOf(su, Star, "Cluster", "LITERAL", ClusterName, "Allow", "All")
           sus == doc.superUsers
<1>1. sus \in Seq(Principal)
  BY DEF ItemTyped
<1>2. \A su \in Principal : C(su) \in Content
  BY OwnWords DEF ContentOf, Content, SourcesAssumption
<1>3. KafkaRows(doc) = [i \in DOMAIN sus |-> C(sus[i])]
  BY DEF KafkaRows
<1> HIDE DEF C, sus
<1>4. Len(sus) \in Nat /\ DOMAIN sus = 1..Len(sus) /\ \A i \in DOMAIN sus : sus[i] \in Principal
  BY <1>1, LenProperties
<1>5. KafkaRows(doc) \in Seq(Content)
  <2>1. KafkaRows(doc) \in [1..Len(sus) -> Content]
    BY <1>2, <1>3, <1>4
  <2> QED  BY <1>4, <2>1, SeqDef
<1>6. ToSet(KafkaRows(doc)) = {C(su) : su \in ToSet(sus)}
  BY <1>3 DEF ToSet
<1> QED  BY <1>5, <1>6 DEF C, sus

\* A header is a resource, and a line under one a content.
LEMMA LineTyped ==
  ASSUME SourcesAssumption, NEW it, ItemTyped(it)
  PROVE  /\ it.kind = "header" => HeaderResource(it) \in Resource
         /\ it.kind = "acl" => \A r \in Resource : LineContent(it, r) \in Content
<1>1. ASSUME it.kind = "header" PROVE HeaderResource(it) \in Resource
  BY <1>1, NormalWords DEF ItemTyped, HeaderResource, Resource
<1>2. ASSUME it.kind = "acl", NEW r \in Resource PROVE LineContent(it, r) \in Content
  <2>1. normalizePermission(it.perm) \in Word /\ normalizeOperation(it.op) \in Word
    BY <1>2, NormalWords DEF ItemTyped
  <2> QED  BY <1>2, <2>1 DEF ItemTyped, LineContent, ContentOf, Content, Resource
<1> QED  BY <1>1, <1>2

-----------------------------------------------------------------------------
(* The filters of the live source *)

\* The filter meets the ACL.
Meets(a, cell) ==
  /\ a.principal \in cell.principals /\ a.host \in cell.hosts
  /\ a.rtype = cell.rtype /\ OnTopic(a, cell.topic)

\* Every ACL asked for is met by some filter, unless principals are asked for and its
\* host is not "*".
LEMMA FiltersAsk ==
  ASSUME SourcesAssumption, NEW principals \in Seq(Principal), NEW topics \in Seq(Name)
  PROVE  /\ Listed(buildFilters(principals, topics))
         /\ \A a \in Content :
              /\ Mappable(a) /\ a.host # Empty
              /\ principals = <<>> \/ (a.principal \in ToSet(principals) /\ a.host = Star)
              /\ topics = <<>> \/ (a.rtype = "Topic" /\ \E t \in ToSet(topics) : Matches(a.pattern, t))
              => \E cell \in ToSet(buildFilters(principals, topics)) : Meets(a, cell)
<1> DEFINE Cell(p, rtype, topic) ==
             [principals |-> IF principals = <<>> THEN Principal ELSE {p},
              hosts |-> IF principals = <<>> THEN Host \cup {Star} ELSE {Star},
              rtype |-> rtype, topic |-> topic]
           ps == OrElse(principals, <<Unset>>)
           row(p) == IF topics = <<>> THEN [i \in DOMAIN LiveTypes |-> Cell(p, LiveTypes[i], Unset)]
                     ELSE [i \in DOMAIN topics |-> Cell(p, "Topic", topics[i])]
           g == [p \in ToSet(ps) |-> row(p)]
           S == [principals : SUBSET Principal, hosts : SUBSET (Host \cup {Star}),
                 rtype : ToSet(LiveTypes) \cup {"Topic"}, topic : ToSet(topics) \cup {Unset}]
           fs == buildFilters(principals, topics)
<1>1. fs = Each(ps, g)
  <2>1. fs = FlattenSeq([i \in DOMAIN ps |-> row(ps[i])])
    BY DEF buildFilters, ForEach
  <2>2. \A i \in DOMAIN ps : ps[i] \in ToSet(ps)
    BY DEF ToSet
  <2> HIDE DEF ps, row, fs
  <2> QED  BY <2>1, <2>2 DEF Each
<1>2. Listed(ps) /\ ToSet(ps) = IF principals = <<>> THEN {Unset} ELSE ToSet(principals)
  <2>1. <<Unset>> \in Seq({Unset}) /\ ToSet(<<Unset>>) = {Unset}
    BY OneTuple
  <2> QED  BY <2>1, SeqListed DEF OrElse, Listed
<1>3. /\ DOMAIN LiveTypes = 1..5
      /\ {LiveTypes[i] : i \in 1..5} = {"Topic", "Group", "Cluster", "TransactionalId", "DelegationToken"}
  BY DEF LiveTypes
<1>4. ToSet(LiveTypes) = {"Topic", "Group", "Cluster", "TransactionalId", "DelegationToken"}
  BY <1>3 DEF ToSet
<1>5. Len(topics) \in Nat /\ DOMAIN topics = 1..Len(topics)
  BY LenProperties
<1> HIDE DEF ps, fs
<1>6. \A p \in ToSet(ps), t \in ToSet(LiveTypes) \cup {"Topic"}, n \in ToSet(topics) \cup {Unset} :
        Cell(p, t, n) \in S
  <2>1. ToSet(principals) \subseteq Principal
    BY SeqListed
  <2> QED  BY <1>2, <2>1
<1> HIDE DEF Cell, S
<1>7. ASSUME NEW p \in ToSet(ps)
      PROVE  /\ g[p] \in Seq(S)
             /\ topics = <<>> => \A t \in ToSet(LiveTypes) : Cell(p, t, Unset) \in ToSet(g[p])
             /\ topics # <<>> => \A t \in ToSet(topics) : Cell(p, "Topic", t) \in ToSet(g[p])
  <2>1. CASE topics = <<>>
    <3> DEFINE h == [i \in DOMAIN LiveTypes |-> Cell(p, LiveTypes[i], Unset)]
    <3>1. g[p] = h
      BY <2>1
    <3>2. \A i \in DOMAIN LiveTypes : LiveTypes[i] \in ToSet(LiveTypes)
      BY DEF ToSet
    <3>3. h \in [1..5 -> S]
      BY <1>3, <1>6, <3>2
    <3>4. h \in Seq(S)
      BY <3>3, SeqDef
    <3>5. \A t \in ToSet(LiveTypes) : Cell(p, t, Unset) \in ToSet(h)
      BY DEF ToSet
    <3> QED  BY <2>1, <3>1, <3>4, <3>5
  <2>2. CASE topics # <<>>
    <3> DEFINE h == [i \in DOMAIN topics |-> Cell(p, "Topic", topics[i])]
    <3>1. g[p] = h
      BY <2>2
    <3>2. \A i \in DOMAIN topics : topics[i] \in ToSet(topics)
      BY DEF ToSet
    <3>3. h \in [1..Len(topics) -> S]
      BY <1>5, <1>6, <3>2
    <3>4. h \in Seq(S)
      BY <1>5, <3>3, SeqDef
    <3>5. \A t \in ToSet(topics) : Cell(p, "Topic", t) \in ToSet(h)
      BY DEF ToSet
    <3> QED  BY <2>2, <3>1, <3>4, <3>5
  <2> QED  BY <2>1, <2>2
<1>8. g \in [ToSet(ps) -> Seq(S)]
  BY <1>7
<1> HIDE DEF g
<1>9. fs \in Seq(S) /\ \A c : c \in ToSet(fs) <=> \E p \in ToSet(ps) : c \in ToSet(g[p])
  BY <1>1, <1>2, <1>8, EachRange
<1>10. Listed(fs)
  BY <1>9, SeqListed
<1>11. ASSUME NEW a \in Content, Mappable(a), a.host # Empty,
              principals = <<>> \/ (a.principal \in ToSet(principals) /\ a.host = Star),
              topics = <<>> \/ (a.rtype = "Topic" /\ \E t \in ToSet(topics) : Matches(a.pattern, t))
       PROVE  \E cell \in ToSet(fs) : Meets(a, cell)
  <2>1. PICK p \in ToSet(ps) : \A t, n : a.principal \in Cell(p, t, n).principals
                                          /\ a.host \in Cell(p, t, n).hosts
    <3>1. CASE principals = <<>>
      BY <1>2, <1>11, <3>1 DEF Cell, Content
    <3>2. CASE principals # <<>>
      BY <1>2, <1>11, <3>2 DEF Cell
    <3> QED  BY <3>1, <3>2
  <2>2. \A t, n : Cell(p, t, n).rtype = t /\ Cell(p, t, n).topic = n
    BY DEF Cell
  <2>3. CASE topics = <<>>
    <3>1. a.rtype \in ToSet(LiveTypes)
      BY <1>4, <1>11 DEF Mappable, ResourceType
    <3>2. Cell(p, a.rtype, Unset) \in ToSet(fs)
      BY <1>7, <1>9, <2>3, <3>1
    <3> QED  BY <2>1, <2>2, <3>2 DEF Meets, OnTopic
  <2>4. CASE topics # <<>>
    <3>1. PICK t \in ToSet(topics) : a.rtype = "Topic" /\ Matches(a.pattern, t)
      BY <1>11, <2>4
    <3>2. Cell(p, "Topic", t) \in ToSet(fs)
      BY <1>7, <1>9, <2>4
    <3> QED  BY <1>11, <2>1, <2>2, <3>1, <3>2 DEF Meets, OnTopic, Mappable
  <2> QED  BY <2>3, <2>4
<1> QED  BY <1>10, <1>11 DEF fs

-----------------------------------------------------------------------------
(* What the steps make of the rows *)

RowSet == [id : Int, acl : Content]

Ids(rs) == {rs[i].id : i \in DOMAIN rs}

\* The rows' numbers are their places.
InOrder(rs) == \A i \in DOMAIN rs : rs[i].id = i

Different(rs) == \A i, j \in DOMAIN rs : i # j => rs[i].acl # rs[j].acl

\* The places of a concatenation.
LEMMA ConcatAt ==
  ASSUME NEW S, NEW s \in Seq(S), NEW t \in Seq(S)
  PROVE  /\ s \o t \in Seq(S) /\ Len(s \o t) = Len(s) + Len(t)
         /\ DOMAIN s = 1..Len(s) /\ DOMAIN t = 1..Len(t) /\ DOMAIN (s \o t) = 1..(Len(s) + Len(t))
         /\ Len(s) \in Nat /\ Len(t) \in Nat
         /\ \A i \in 1..(Len(s) + Len(t)) : (s \o t)[i] = IF i <= Len(s) THEN s[i] ELSE t[i - Len(s)]
         /\ \A i \in DOMAIN s : (s \o t)[i] = s[i]
         /\ \A i \in DOMAIN t : i + Len(s) \in 1..(Len(s) + Len(t)) /\ (s \o t)[i + Len(s)] = t[i]
<1>1. /\ s \o t \in Seq(S) /\ Len(s \o t) = Len(s) + Len(t)
      /\ DOMAIN s = 1..Len(s) /\ DOMAIN t = 1..Len(t) /\ DOMAIN (s \o t) = 1..(Len(s) + Len(t))
      /\ Len(s) \in Nat /\ Len(t) \in Nat
      /\ \A i \in 1..(Len(s) + Len(t)) : (s \o t)[i] = IF i <= Len(s) THEN s[i] ELSE t[i - Len(s)]
  BY ConcatProperties, LenProperties
<1>2. \A i \in DOMAIN s : (s \o t)[i] = s[i]
  BY <1>1
<1>3. ASSUME NEW i \in DOMAIN t
      PROVE  i + Len(s) \in 1..(Len(s) + Len(t)) /\ (s \o t)[i + Len(s)] = t[i]
  <2>1. i + Len(s) \in 1..(Len(s) + Len(t)) /\ ~(i + Len(s) <= Len(s)) /\ (i + Len(s)) - Len(s) = i
    BY <1>1
  <2> QED  BY <1>1, <2>1
<1> QED  BY <1>1, <1>2, <1>3

\* The contents of rows and of more rows.
LEMMA ContentsOfConcat ==
  ASSUME NEW rs \in Seq(RowSet), NEW more \in Seq(RowSet)
  PROVE  rs \o more \in Seq(RowSet) /\ Contents(rs \o more) = Contents(rs) \cup Contents(more)
<1>1. rs \o more \in Seq(RowSet) /\ ToSet(rs \o more) = ToSet(rs) \cup ToSet(more)
  BY SetOfConcat
<1>2. \A s : Contents(s) = {r.acl : r \in ToSet(s)}
  BY DEF Contents, ToSet
<1> QED  BY <1>1, <1>2

\* Rows made of contents, with the numbers from the counter on.
LEMMA NumberedRows ==
  ASSUME NEW rs \in Seq(RowSet), NEW cs \in Seq(Content), NEW first \in Int
  PROVE  LET all == rs \o Numbered(cs, first)
         IN  /\ all \in Seq(RowSet) /\ Len(all) = Len(rs) + Len(cs)
             /\ Contents(all) = Contents(rs) \cup ToSet(cs)
             /\ first = Len(rs) + 1 /\ InOrder(rs) => InOrder(all)
<1> DEFINE more == Numbered(cs, first)
<1>1. Len(cs) \in Nat /\ DOMAIN cs = 1..Len(cs) /\ \A i \in DOMAIN cs : cs[i] \in Content
  BY LenProperties
<1>2. /\ DOMAIN more = 1..Len(cs)
      /\ \A i \in 1..Len(cs) : more[i] = [id |-> first + i - 1, acl |-> cs[i]]
  BY <1>1 DEF Numbered
<1>3. more = [i \in 1..Len(cs) |-> more[i]]
  BY <1>1 DEF Numbered
<1> HIDE DEF more
<1>4. more \in Seq(RowSet) /\ Len(more) = Len(cs)
  <2>1. \A i \in 1..Len(cs) : more[i] \in RowSet
    BY <1>1, <1>2 DEF RowSet
  <2>2. more \in [1..Len(cs) -> RowSet]
    BY <1>3, <2>1
  <2>3. more \in Seq(RowSet)
    BY <1>1, <2>2, SeqDef
  <2> QED  BY <1>1, <1>2, <2>3, LenProperties
<1>5. Contents(more) = ToSet(cs)
  BY <1>1, <1>2 DEF Contents, ToSet
<1>6. rs \o more \in Seq(RowSet) /\ Contents(rs \o more) = Contents(rs) \cup ToSet(cs)
  BY <1>4, <1>5, ContentsOfConcat
<1>7. /\ Len(rs) \in Nat /\ DOMAIN rs = 1..Len(rs) /\ DOMAIN (rs \o more) = 1..(Len(rs) + Len(more))
       /\ \A k \in 1..(Len(rs) + Len(more)) :
            (rs \o more)[k] = IF k <= Len(rs) THEN rs[k] ELSE more[k - Len(rs)]
  <2> DEFINE all == rs \o more
  <2>1. Len(rs) \in Nat /\ DOMAIN rs = 1..Len(rs)
    BY LenProperties
  <2>2. all \in Seq(RowSet) /\ Len(all) = Len(rs) + Len(more)
    BY <1>4, ConcatAt
  <2>3. \A k \in 1..(Len(rs) + Len(more)) :
          all[k] = IF k <= Len(rs) THEN rs[k] ELSE more[k - Len(rs)]
    BY <1>4, ConcatAt
  <2> HIDE DEF all
  <2>4. DOMAIN all = 1..Len(all)
    BY <2>2, LenProperties
  <2> QED  BY <2>1, <2>2, <2>3, <2>4 DEF all
<1>8. ASSUME first = Len(rs) + 1, InOrder(rs), NEW i \in DOMAIN (rs \o more)
      PROVE  (rs \o more)[i].id = i
  <2>1. /\ DOMAIN (rs \o more) = 1..(Len(rs) + Len(cs)) /\ Len(rs) \in Nat /\ DOMAIN rs = 1..Len(rs)
        /\ (rs \o more)[i] = IF i <= Len(rs) THEN rs[i] ELSE more[i - Len(rs)]
    BY <1>4, <1>7
  <2>2. CASE i <= Len(rs)
    BY <1>8, <2>1, <2>2 DEF InOrder
  <2>3. CASE ~(i <= Len(rs))
    <3>1. i - Len(rs) \in 1..Len(cs)
      BY <1>1, <2>1, <2>3
    <3>2. (rs \o more)[i] = [id |-> first + (i - Len(rs)) - 1, acl |-> cs[i - Len(rs)]]
      BY <1>2, <2>1, <2>3, <3>1
    <3>3. (rs \o more)[i].id = first + (i - Len(rs)) - 1
      BY <3>2
    <3>4. i \in Int /\ Len(rs) \in Int
      BY <1>1, <2>1
    <3>5. first + (i - Len(rs)) - 1 = i
      BY <1>8, <3>4
    <3> QED  BY <3>3, <3>5
  <2> QED  BY <2>2, <2>3
<1>9. Len(rs \o more) = Len(rs) + Len(cs)
  <2>1. Len(rs \o more) = Len(rs) + Len(more)
    BY <1>4, ConcatAt
  <2> QED  BY <1>4, <2>1
<1> QED  BY <1>6, <1>8, <1>9 DEF more, InOrder

\* A row that the input numbers.
LEMMA GivenRows ==
  ASSUME NEW rs \in Seq(RowSet), NEW r \in RowSet
  PROVE  Append(rs, r) \in Seq(RowSet) /\ Contents(Append(rs, r)) = Contents(rs) \cup {r.acl}
<1>1. <<r>> \in Seq(RowSet) /\ ToSet(<<r>>) = {r}
  BY OneTuple
<1>2. Contents(<<r>>) = {r.acl}
  <2>1. \A s : Contents(s) = {x.acl : x \in ToSet(s)}
    BY DEF Contents, ToSet
  <2> QED  BY <1>1, <2>1
<1>3. Append(rs, r) = rs \o <<r>>
  BY AppendIsConcat
<1> QED  BY <1>1, <1>2, <1>3, ContentsOfConcat

\* Rows made of the new ACLs of an answer, in whatever order it has them.
LEMMA DescribedRows ==
  ASSUME NEW rs \in Seq(RowSet), NEW new \in SUBSET Content, IsFiniteSet(new),
         NEW s \in Bijection(1..Cardinality(new), new)
  PROVE  LET all == rs \o Unnumbered(s)
         IN  /\ all \in Seq(RowSet)
             /\ Contents(all) = Contents(rs) \cup new
             /\ Different(rs) /\ new \cap Contents(rs) = {} => Different(all)
<1> DEFINE n == Cardinality(new)
           more == Unnumbered(s)
<1>1. n \in Nat
  BY FS_CardinalityType
<1>2. /\ s \in [1..n -> new] /\ \A i, j \in 1..n : s[i] = s[j] => i = j
      /\ \A a \in new : \E i \in 1..n : s[i] = a
  BY DEF Bijection, Injection, Surjection, IsInjective
<1> HIDE DEF n
<1>3. DOMAIN more = 1..n /\ \A i \in 1..n : more[i] = [id |-> 0, acl |-> s[i]]
  BY <1>2 DEF Unnumbered
<1>4. more \in [1..n -> RowSet]
  BY <1>2 DEF RowSet, Unnumbered
<1> HIDE DEF more
<1>5. more \in Seq(RowSet) /\ Len(more) = n
  BY <1>1, <1>4, SeqDef
<1>6. Contents(more) = new
  BY <1>2, <1>3 DEF Contents
<1>7. rs \o more \in Seq(RowSet) /\ Contents(rs \o more) = Contents(rs) \cup new
  BY <1>5, <1>6, ContentsOfConcat
<1>8. /\ Len(rs) \in Nat /\ DOMAIN rs = 1..Len(rs) /\ DOMAIN (rs \o more) = 1..(Len(rs) + Len(more))
       /\ \A k \in 1..(Len(rs) + Len(more)) :
            (rs \o more)[k] = IF k <= Len(rs) THEN rs[k] ELSE more[k - Len(rs)]
  <2> DEFINE all == rs \o more
  <2>1. Len(rs) \in Nat /\ DOMAIN rs = 1..Len(rs)
    BY LenProperties
  <2>2. all \in Seq(RowSet) /\ Len(all) = Len(rs) + Len(more)
    BY <1>5, ConcatAt
  <2>3. \A k \in 1..(Len(rs) + Len(more)) :
          all[k] = IF k <= Len(rs) THEN rs[k] ELSE more[k - Len(rs)]
    BY <1>5, ConcatAt
  <2> HIDE DEF all
  <2>4. DOMAIN all = 1..Len(all)
    BY <2>2, LenProperties
  <2> QED  BY <2>1, <2>2, <2>3, <2>4 DEF all
<1>9. ASSUME Different(rs), new \cap Contents(rs) = {},
             NEW i \in DOMAIN (rs \o more), NEW j \in DOMAIN (rs \o more), i # j
      PROVE  (rs \o more)[i].acl # (rs \o more)[j].acl
  <2>1. /\ DOMAIN (rs \o more) = 1..(Len(rs) + n) /\ Len(rs) \in Nat /\ DOMAIN rs = 1..Len(rs)
        /\ \A k \in 1..(Len(rs) + n) : (rs \o more)[k] = IF k <= Len(rs) THEN rs[k] ELSE more[k - Len(rs)]
    BY <1>5, <1>8
  <2>2. ASSUME NEW k \in 1..(Len(rs) + n), k <= Len(rs)
        PROVE  k \in DOMAIN rs /\ (rs \o more)[k].acl = rs[k].acl /\ rs[k].acl \in Contents(rs)
    BY <2>1, <2>2 DEF Contents
  <2>3. ASSUME NEW k \in 1..(Len(rs) + n), ~(k <= Len(rs))
        PROVE  /\ k - Len(rs) \in 1..n
               /\ (rs \o more)[k].acl = s[k - Len(rs)] /\ s[k - Len(rs)] \in new
    <3>1. k - Len(rs) \in 1..n
      BY <1>1, <2>1, <2>3
    <3>2. s[k - Len(rs)] \in new
      BY <1>2, <3>1
    <3>3. (rs \o more)[k] = [id |-> 0, acl |-> s[k - Len(rs)]]
      BY <1>3, <2>1, <2>3, <3>1
    <3> QED  BY <3>1, <3>2, <3>3
  <2>4. CASE i <= Len(rs) /\ j <= Len(rs)
    BY <1>9, <2>1, <2>2, <2>4 DEF Different
  <2>5. CASE i <= Len(rs) /\ ~(j <= Len(rs))
    <3>1. (rs \o more)[i].acl \in Contents(rs) /\ (rs \o more)[j].acl \in new
      BY <2>1, <2>2, <2>3, <2>5
    <3> QED  BY <1>9, <3>1
  <2>6. CASE ~(i <= Len(rs)) /\ j <= Len(rs)
    <3>1. (rs \o more)[j].acl \in Contents(rs) /\ (rs \o more)[i].acl \in new
      BY <2>1, <2>2, <2>3, <2>6
    <3> QED  BY <1>9, <3>1
  <2>7. CASE ~(i <= Len(rs)) /\ ~(j <= Len(rs))
    <3>1. i - Len(rs) # j - Len(rs)
      BY <1>1, <1>9, <2>1
    <3>2. /\ i - Len(rs) \in 1..n /\ (rs \o more)[i].acl = s[i - Len(rs)]
          /\ j - Len(rs) \in 1..n /\ (rs \o more)[j].acl = s[j - Len(rs)]
      BY <1>9, <2>1, <2>3, <2>7
    <3>3. s[i - Len(rs)] # s[j - Len(rs)]
      BY <1>2, <3>1, <3>2
    <3> QED  BY <3>2, <3>3
  <2> QED  BY <2>4, <2>5, <2>6, <2>7
<1> QED  BY <1>7, <1>9 DEF more, Different

Moved(rs, p) == [i \in DOMAIN rs |-> rs[p[i]]]

\* Sorting only moves rows.
LEMMA PermutedRows ==
  ASSUME NEW rs \in Seq(RowSet), NEW p \in Bijection(DOMAIN rs, DOMAIN rs)
  PROVE  LET s == Moved(rs, p)
         IN  /\ s \in Seq(RowSet) /\ DOMAIN s = DOMAIN rs
             /\ Contents(s) = Contents(rs) /\ Ids(s) = Ids(rs)
             /\ Different(rs) => Different(s)
<1> DEFINE s == Moved(rs, p)
<1>1. /\ p \in [DOMAIN rs -> DOMAIN rs] /\ \A i, j \in DOMAIN rs : p[i] = p[j] => i = j
      /\ \A k \in DOMAIN rs : \E i \in DOMAIN rs : p[i] = k
  BY DEF Bijection, Injection, Surjection, IsInjective
<1>2. Len(rs) \in Nat /\ DOMAIN rs = 1..Len(rs) /\ \A i \in DOMAIN rs : rs[i] \in RowSet
  BY LenProperties
<1>3. DOMAIN s = DOMAIN rs /\ \A i \in DOMAIN rs : s[i] = rs[p[i]]
  BY DEF Moved
<1>4. s \in Seq(RowSet)
  <2>1. s \in [1..Len(rs) -> RowSet]
    BY <1>1, <1>2 DEF Moved
  <2> QED  BY <1>2, <2>1, SeqDef
<1> HIDE DEF s
<1>5. Contents(s) = Contents(rs) /\ Ids(s) = Ids(rs)
  BY <1>1, <1>3 DEF Contents, Ids
<1>6. ASSUME Different(rs), NEW i \in DOMAIN s, NEW j \in DOMAIN s, i # j PROVE s[i].acl # s[j].acl
  <2>1. p[i] \in DOMAIN rs /\ p[j] \in DOMAIN rs /\ p[i] # p[j]
    BY <1>1, <1>3, <1>6
  <2> QED  BY <1>3, <1>6, <2>1 DEF Different
<1> QED  BY <1>3, <1>4, <1>5, <1>6 DEF s, Different

\* Renumbering changes nothing but the numbers.
LEMMA RenumberedRows ==
  ASSUME NEW rs \in Seq(RowSet)
  PROVE  LET s == Renumbered(rs)
         IN  /\ s \in Seq(RowSet) /\ Contents(s) = Contents(rs) /\ Ids(s) = DOMAIN s
             /\ Different(rs) => Different(s)
<1> DEFINE s == Renumbered(rs)
<1>1. Len(rs) \in Nat /\ DOMAIN rs = 1..Len(rs) /\ \A i \in DOMAIN rs : rs[i] \in RowSet
  BY LenProperties
<1>2. DOMAIN s = DOMAIN rs /\ \A i \in DOMAIN rs : s[i] = [rs[i] EXCEPT !.id = i]
  BY DEF Renumbered
<1>3. s = [i \in DOMAIN rs |-> s[i]]
  BY DEF Renumbered
<1> HIDE DEF s
<1>4. \A i \in DOMAIN rs : s[i] \in RowSet /\ s[i].id = i /\ s[i].acl = rs[i].acl
  BY <1>1, <1>2 DEF RowSet
<1>5. s \in Seq(RowSet)
  <2>1. s \in [1..Len(rs) -> RowSet]
    BY <1>1, <1>4, <1>3
  <2> QED  BY <1>1, <2>1, SeqDef
<1>6. Contents(s) = Contents(rs)
  BY <1>2, <1>4 DEF Contents
<1>7. Ids(s) = DOMAIN s
  <2>1. \A x : x \in Ids(s) <=> \E i \in DOMAIN s : x = s[i].id
    BY DEF Ids
  <2>2. \A i \in DOMAIN s : s[i].id = i
    BY <1>2, <1>4
  <2>3. ASSUME NEW x \in DOMAIN s PROVE x \in Ids(s)
    <3>1. s[x].id = x
      BY <2>2
    <3> QED  BY <2>1, <3>1
  <2>4. ASSUME NEW x \in Ids(s) PROVE x \in DOMAIN s
    <3>1. PICK i \in DOMAIN s : x = s[i].id
      BY <2>1
    <3> QED  BY <2>2, <3>1
  <2> QED  BY <2>3, <2>4
<1>8. ASSUME Different(rs), NEW i \in DOMAIN s, NEW j \in DOMAIN s, i # j PROVE s[i].acl # s[j].acl
  BY <1>2, <1>4, <1>8 DEF Different
<1> QED  BY <1>5, <1>6, <1>7, <1>8 DEF s, Different

\* Rows numbered by their places have these as their numbers.
LEMMA OrderedIds ==
  ASSUME NEW rs, InOrder(rs)
  PROVE  Ids(rs) = DOMAIN rs
<1>1. \A x : x \in Ids(rs) <=> \E i \in DOMAIN rs : x = rs[i].id
  BY DEF Ids
<1>2. \A i \in DOMAIN rs : rs[i].id = i
  BY DEF InOrder
<1>3. ASSUME NEW x \in DOMAIN rs PROVE x \in Ids(rs)
  <2>1. rs[x].id = x
    BY <1>2
  <2> QED  BY <1>1, <2>1
<1>4. ASSUME NEW x \in Ids(rs) PROVE x \in DOMAIN rs
  <2>1. PICK i \in DOMAIN rs : x = rs[i].id
    BY <1>1
  <2> QED  BY <1>2, <2>1
<1> QED  BY <1>3, <1>4

-----------------------------------------------------------------------------
(* The inductive invariant *)

\* What the source reads is a sequence, whose items are typed.
LEMMA InputTyped ==
  ASSUME SourcesAssumption, ExtractAssumption, TypeOK, Chosen
  PROVE  /\ Listed(input) /\ Len(input) \in Nat /\ DOMAIN input = 1..Len(input)
         /\ \A i \in DOMAIN input : input[i] \in ToSet(input)
         /\ source # "live" => \A i \in DOMAIN input : ItemTyped(input[i])
<1>1. CASE source = "live"
  <2>1. /\ asked \in Filters /\ input = buildFilters(asked.principals, asked.topics)
        /\ asked.principals \in Seq(Principal) /\ asked.topics \in Seq(Name)
    BY <1>1 DEF Chosen, ExtractAssumption
  <2>2. Listed(input)
    BY <2>1, FiltersAsk
  <2> QED  BY <1>1, <2>2, LenProperties DEF Listed, ToSet
<1>2. CASE source # "live"
  <2>1. input \in Inputs[source] /\ source \in ReaderSource
    BY <1>2 DEF Chosen, TypeOK
  <2>2. Listed(input) /\ \A it \in ToSet(input) : ItemTyped(it)
    BY <2>1 DEF ExtractAssumption, Listed
  <2>3. \A i \in DOMAIN input : input[i] \in ToSet(input)
    BY DEF ToSet
  <2>4. Len(input) \in Nat /\ DOMAIN input = 1..Len(input)
    BY <2>2, LenProperties DEF Listed
  <2> QED  BY <2>2, <2>3, <2>4
<1> QED  BY <1>1, <1>2

\* What an item states, by source.
LEMMA StatedBySource ==
  ASSUME NEW i
  PROVE  /\ source = "text" => StatedAt(i) = TextStates(i)
         /\ source = "script" => StatedAt(i) =
              IF input[i].kind = "call" /\ input[i].kafkaAcls THEN CallStates(input[i].options) ELSE {}
         /\ source \in {"csv", "json"} => StatedAt(i) =
              IF input[i].kind = "record" THEN {input[i].acl} ELSE {}
         /\ source \in {"strimzi", "k8s"} /\ input[i].kind = "KafkaUser" => StatedAt(i) =
              IF input[i].auth = "simple" THEN UserStates(input[i]) ELSE {}
         /\ source \in {"cfk", "k8s"} /\ input[i].kind = "Kafka" => StatedAt(i) =
              {ContentOf(su, Star, "Cluster", "LITERAL", ClusterName, "Allow", "All") :
                 su \in IF input[i].auth \in {"simple", "rbac"} THEN ToSet(input[i].superUsers) ELSE {}}
         /\ source \in {"cfk", "k8s"} /\ input[i].kind = "ConfluentRolebinding" => StatedAt(i) = {}
BY DEF StatedAt

\* What items state does not change.
LEMMA SameStatements ==
  ASSUME UNCHANGED chosen
  PROVE  \A i : StatedAt(i)' = StatedAt(i)
BY DEF chosen, StatedAt, TextStates

\* Rows that stay where they are keep going back to their items.
LEMMA StatedSame ==
  ASSUME Stated, UNCHANGED <<chosen, pos, rows, ever>>
  PROVE  Stated'
<1>1. UNCHANGED chosen /\ source' = source /\ pos' = pos /\ rows' = rows /\ ever' = ever
  BY DEF chosen
<1>2. \A i : StatedAt(i)' = StatedAt(i)
  BY <1>1, SameStatements
<1>3. Contents(rows)' = Contents(rows)
  BY <1>1
<1> QED  BY <1>1, <1>2, <1>3 DEF Stated

\* A step over an item keeps the invariant if it takes the item as it should.
LEMMA ItemStep ==
  ASSUME SourcesAssumption, ExtractAssumption, ExtractInv,
         status = "reading", pos <= Len(input), Steps,
         res' \in Resource, rows' \in Seq(RowSet), nextId' \in Nat \ {0}, noted' \subseteq noted \cup {pos},
         Contents(rows') \subseteq Contents(rows) \cup (IF source = "live" THEN ever ELSE StatedAt(pos)),
         source \in {"text", "script", "strimzi", "cfk"} => nextId' = Len(rows') + 1 /\ InOrder(rows'),
         source = "live" => Different(rows'),
         source = "text" => res' = IF Item.kind = "header" THEN HeaderResource(Item)
                                   ELSE IF Item.kind = "drift" THEN NoResource ELSE res
  PROVE  ExtractInv'
<1> USE DEF ExtractInv
<1>1. Len(input) \in Nat
  BY InputTyped
<1>2. UNCHANGED chosen /\ source' = source /\ input' = input /\ asked' = asked /\ pos' = pos + 1
      /\ status' = status /\ acls' = acls
      /\ kafka' = kafka /\ changes' = changes /\ ever' = ever /\ always' = always
  BY DEF Steps, chosen, cluster
<1>3. TypeOK'
  BY <1>1, <1>2 DEF TypeOK, RowSet
<1>4. Chosen'
  BY <1>2 DEF Chosen
<1>5. UnderResource'
  <2> SUFFICES ASSUME source = "text"
               PROVE  \/ Heads' = {} /\ res' = NoResource
                      \/ \E h \in Heads' :
                           /\ \A k \in Heads' : k <= h
                           /\ res' = IF input[h].kind = "header" THEN HeaderResource(input[h]) ELSE NoResource
    BY <1>2 DEF UnderResource
  <2>1. pos \in Nat \ {0}
    BY <1>1 DEF TypeOK
  <2>2. \A j : j \in Heads => j \in Nat /\ j < pos
    BY <2>1 DEF Heads
  <2>3. CASE Item.kind \in {"header", "drift"}
    <3>1. Heads' = Heads \cup {pos}
      BY <1>2, <2>1, <2>3 DEF Heads, Item
    <3>2. pos \in Heads' /\ \A k \in Heads' : k <= pos
      BY <2>1, <2>2, <3>1
    <3>3. res' = IF input[pos].kind = "header" THEN HeaderResource(input[pos]) ELSE NoResource
      BY <2>3 DEF Item
    <3> QED  BY <3>2, <3>3
  <2>4. CASE Item.kind \notin {"header", "drift"}
    <3>1. Heads' = Heads
      BY <1>2, <2>1, <2>4 DEF Heads, Item
    <3>2. res' = res
      BY <2>4
    <3>3. \/ Heads = {} /\ res = NoResource
          \/ \E h \in Heads :
               /\ \A k \in Heads : k <= h
               /\ res = IF input[h].kind = "header" THEN HeaderResource(input[h]) ELSE NoResource
      BY DEF UnderResource
    <3> QED  BY <3>1, <3>2, <3>3
  <2> QED  BY <2>3, <2>4
<1>6. Stated'
  <2>1. CASE source = "live"
    BY <1>2, <2>1 DEF Stated
  <2>2. CASE source # "live"
    <3>1. Contents(rows) \subseteq UNION {StatedAt(i) : i \in 1..(pos - 1)}
      BY <2>2 DEF Stated
    <3>2. ASSUME NEW c \in Contents(rows') PROVE \E i \in 1..pos : c \in StatedAt(i)
      <4>1. pos \in Nat \ {0}
        BY <1>1 DEF TypeOK
      <4>2. CASE c \in StatedAt(pos)
        BY <4>1, <4>2
      <4>3. CASE c \in Contents(rows)
        <5>1. PICK i \in 1..(pos - 1) : c \in StatedAt(i)
          BY <3>1, <4>3
        <5> QED  BY <4>1, <5>1
      <4> QED  BY <2>2, <4>2, <4>3
    <3>3. \A i : StatedAt(i)' = StatedAt(i)
      BY <1>2, SameStatements
    <3>4. pos' - 1 = pos
      BY <1>1, <1>2 DEF TypeOK
    <3>5. Contents(rows)' = Contents(rows')
      BY DEF Contents
    <3>6. ASSUME NEW c \in Contents(rows') PROVE c \in UNION {StatedAt(i)' : i \in 1..(pos' - 1)}
      BY <3>2, <3>3, <3>4
    <3> QED  BY <1>2, <2>2, <3>5, <3>6 DEF Stated
  <2> QED  BY <2>1, <2>2
<1>7. Counted'
  BY <1>2 DEF Counted, InOrder
<1>8. RowsDiffer'
  BY <1>2 DEF RowsDiffer, Different
<1>9. AllOrNothing'
  BY <1>2 DEF AllOrNothing
<1> QED  BY <1>3, <1>4, <1>5, <1>6, <1>7, <1>8, <1>9

\* A step after the last item, which sorts or numbers the rows.
LEMMA EndStep ==
  ASSUME SourcesAssumption, ExtractAssumption, ExtractInv,
         status = "reading", pos > Len(input), Ends,
         rows' \in Seq(RowSet), Contents(rows') \subseteq Contents(rows),
         source \notin {"csv", "json"} => Ids(rows') = DOMAIN rows',
         source = "live" => Different(rows')
  PROVE  ExtractInv'
<1> USE DEF ExtractInv
<1>1. Len(input) \in Nat
  BY InputTyped
<1>2. UNCHANGED chosen /\ source' = source /\ input' = input /\ asked' = asked /\ pos' = pos
      /\ status' = "read" /\ acls' = acls /\ res' = res /\ nextId' = nextId /\ noted' = noted
      /\ kafka' = kafka /\ changes' = changes /\ ever' = ever /\ always' = always
  BY DEF Ends, chosen, cluster
<1>3. pos = Len(input) + 1
  <2>1. pos \in 1..(Len(input) + 1)
    BY DEF TypeOK
  <2> QED  BY <1>1, <2>1
<1>4. TypeOK'
  BY <1>2 DEF TypeOK, RowSet
<1>5. Chosen' /\ UnderResource'
  BY <1>2 DEF Chosen, UnderResource, Heads
<1>6. Stated'
  <2>1. \A i : StatedAt(i)' = StatedAt(i)
    BY <1>2, SameStatements
  <2>2. Contents(rows)' = Contents(rows')
    BY DEF Contents
  <2> QED  BY <1>2, <2>1, <2>2 DEF Stated
<1>7. Counted'
  BY <1>2 DEF Counted, Ids
<1>8. RowsDiffer'
  BY <1>2 DEF RowsDiffer, Different
<1>9. AllOrNothing'
  BY <1>2, <1>3 DEF AllOrNothing
<1> QED  BY <1>4, <1>5, <1>6, <1>7, <1>8, <1>9

\* A failure changes nothing but the status.
LEMMA FailStep ==
  ASSUME ExtractInv, NEW how \in Failures, status \in {"reading", "read"}, Fails(how)
  PROVE  ExtractInv'
<1> USE DEF ExtractInv
<1>1. UNCHANGED chosen /\ source' = source /\ input' = input /\ asked' = asked /\ pos' = pos
      /\ status' = how /\ acls' = acls /\ res' = res /\ rows' = rows /\ nextId' = nextId
      /\ noted' = noted
      /\ kafka' = kafka /\ changes' = changes /\ ever' = ever /\ always' = always
  BY DEF Fails, chosen, cluster
<1>2. status' \notin {"reading", "read", "written"}
  BY <1>1 DEF Failures
<1>3. TypeOK'
  BY <1>1 DEF TypeOK
<1>4. Chosen' /\ UnderResource'
  BY <1>1 DEF Chosen, UnderResource, Heads
<1>5. Stated'
  BY <1>1, StatedSame
<1>6. Counted' /\ RowsDiffer'
  BY <1>1, <1>2 DEF Counted, RowsDiffer
<1>7. AllOrNothing'
  BY <1>1, <1>2 DEF AllOrNothing
<1> QED  BY <1>3, <1>4, <1>5, <1>6, <1>7

\* The invariant holds when an extract begins.
LEMMA ExtractInit ==
  ASSUME SourcesAssumption, ExtractAssumption, Init
  PROVE  ExtractInv
<1>1. /\ pos = 1 /\ res = NoResource /\ rows = <<>> /\ nextId = 1 /\ noted = {}
      /\ status = "reading" /\ acls = <<>> /\ changes = 0 /\ ever = kafka /\ always = kafka
  BY DEF Init
<1>2. /\ source \in ReaderSource \cup {"live"}
      /\ Chosen
      /\ kafka \subseteq IF source = "live" THEN KafkaAcls ELSE {}
  <2>1. "live" \notin ReaderSource
    BY DEF ReaderSource
  <2> QED  BY <2>1 DEF Init, Chosen
<1>3. Len(input) \in Nat
  <2>1. CASE source = "live"
    <3>1. /\ asked \in Filters /\ input = buildFilters(asked.principals, asked.topics)
          /\ asked.principals \in Seq(Principal) /\ asked.topics \in Seq(Name)
      BY <1>2, <2>1 DEF Chosen, ExtractAssumption
    <3> QED  BY <3>1, FiltersAsk, LenProperties DEF Listed
  <2>2. CASE source # "live"
    <3>1. input \in Seq(ToSet(input))
      BY <1>2, <2>2 DEF Chosen, ExtractAssumption
    <3> QED  BY <3>1, LenProperties
  <2> QED  BY <2>1, <2>2
<1>4. NoResource \in Resource
  BY OwnWords DEF NoResource, Resource
<1>5. rows \in Seq([id : Int, acl : Content]) /\ acls \in Seq([id : Nat \ {0}, acl : Row])
      /\ DOMAIN rows = {} /\ Len(rows) = 0
  BY <1>1
<1>6. TypeOK
  BY <1>1, <1>2, <1>3, <1>4, <1>5 DEF TypeOK, ExtractAssumption
<1>7. UnderResource
  <2>1. Heads = {}
    BY <1>1 DEF Heads
  <2> QED  BY <1>1, <2>1 DEF UnderResource
<1>8. Stated /\ RowsDiffer /\ Counted
  BY <1>1, <1>5 DEF Stated, RowsDiffer, Counted, Contents
<1>9. AllOrNothing
  BY <1>1 DEF AllOrNothing
<1> QED  BY <1>2, <1>6, <1>7, <1>8, <1>9 DEF ExtractInv

\* What holds at every step over an item.
LEMMA AtItem ==
  ASSUME SourcesAssumption, ExtractAssumption, ExtractInv, pos <= Len(input)
  PROVE  /\ pos \in DOMAIN input /\ pos \in Nat \ {0}
         /\ source # "live" => ItemTyped(Item)
         /\ rows \in Seq(RowSet) /\ nextId \in Nat \ {0} /\ res \in Resource
         /\ source \in {"text", "script", "strimzi", "cfk"} /\ status = "reading" =>
              nextId = Len(rows) + 1 /\ InOrder(rows)
         /\ source = "live" => Different(rows)
<1>1. Len(input) \in Nat /\ DOMAIN input = 1..Len(input)
      /\ (source # "live" => \A i \in DOMAIN input : ItemTyped(input[i]))
  BY InputTyped DEF ExtractInv
<1>2. pos \in DOMAIN input /\ pos \in Nat \ {0}
  BY <1>1 DEF ExtractInv, TypeOK
<1>3. source # "live" => ItemTyped(Item)
  BY <1>1, <1>2 DEF Item
<1>4. rows \in Seq(RowSet) /\ nextId \in Nat \ {0} /\ res \in Resource
  BY DEF ExtractInv, TypeOK, RowSet
<1>5. source \in {"text", "script", "strimzi", "cfk"} /\ status = "reading" =>
        nextId = Len(rows) + 1 /\ InOrder(rows)
  BY DEF ExtractInv, Counted, InOrder
<1>6. source = "live" => Different(rows)
  BY DEF ExtractInv, RowsDiffer, Different
<1> QED  BY <1>2, <1>3, <1>4, <1>5, <1>6

\* A step over an item that yields no rows.
LEMMA QuietStep ==
  ASSUME SourcesAssumption, ExtractAssumption, ExtractInv,
         status = "reading", pos <= Len(input), Steps, Passes \/ Note,
         res' \in Resource,
         source = "text" => res' = IF Item.kind = "header" THEN HeaderResource(Item)
                                   ELSE IF Item.kind = "drift" THEN NoResource ELSE res
  PROVE  ExtractInv'
<1>1. rows' = rows /\ nextId' = nextId /\ noted' \subseteq noted \cup {pos}
  BY DEF Passes, Note
<1>2. /\ rows \in Seq(RowSet) /\ nextId \in Nat \ {0}
      /\ source \in {"text", "script", "strimzi", "cfk"} => nextId = Len(rows) + 1 /\ InOrder(rows)
      /\ source = "live" => Different(rows)
  BY AtItem
<1> QED  BY <1>1, <1>2, ItemStep

\* A step over an item whose rows the counter numbers.
LEMMA EmitStep ==
  ASSUME SourcesAssumption, ExtractAssumption, ExtractInv,
         status = "reading", source \in {"text", "script", "strimzi", "cfk"}, pos <= Len(input),
         NEW cs \in Seq(Content), ToSet(cs) \subseteq StatedAt(pos), Emit(cs), Steps,
         res' = res, Item.kind \notin {"header", "drift"}
  PROVE  ExtractInv' /\ Contents(rows') = Contents(rows) \cup ToSet(cs)
<1>1. /\ rows \in Seq(RowSet) /\ nextId \in Nat \ {0} /\ res \in Resource
      /\ nextId = Len(rows) + 1 /\ InOrder(rows)
  BY AtItem
<1>2. rows' = rows \o Numbered(cs, nextId) /\ nextId' = nextId + Len(cs) /\ noted' = noted
  BY DEF Emit
<1>3. /\ rows' \in Seq(RowSet) /\ Len(rows') = Len(rows) + Len(cs)
      /\ Contents(rows') = Contents(rows) \cup ToSet(cs) /\ InOrder(rows')
  <2>1. nextId \in Int
    BY <1>1
  <2> QED  BY <1>1, <1>2, <2>1, NumberedRows
<1>4. nextId' = Len(rows') + 1 /\ nextId' \in Nat \ {0}
  <2>1. Len(rows) \in Nat /\ Len(cs) \in Nat
    BY <1>1, LenProperties
  <2>2. nextId' = nextId + Len(cs) /\ Len(rows') = Len(rows) + Len(cs) /\ nextId = Len(rows) + 1
    BY <1>1, <1>2, <1>3
  <2> QED  BY <2>1, <2>2
<1>5. source # "live"
  OBVIOUS
<1> QED  BY <1>1, <1>2, <1>3, <1>4, <1>5, ItemStep

\* What an ACL line is read as under the current resource is what it states.
LEMMA TextAclStates ==
  ASSUME SourcesAssumption, ExtractAssumption, ExtractInv,
         source = "text", pos <= Len(input), Item.kind = "acl", res.name # Empty
  PROVE  /\ <<LineContent(Item, res)>> \in Seq(Content)
         /\ ToSet(<<LineContent(Item, res)>>) = StatedAt(pos) /\ StatedAt(pos) # {}
<1> DEFINE c == LineContent(Item, res)
<1>1. ItemTyped(Item) /\ res \in Resource /\ pos \in Nat \ {0}
  BY AtItem
<1>2. c \in Content
  BY <1>1, LineTyped
<1>3. PICK h \in Heads :
         /\ \A k \in Heads : k <= h
         /\ res = IF input[h].kind = "header" THEN HeaderResource(input[h]) ELSE NoResource
  BY DEF ExtractInv, UnderResource, NoResource
<1>4. input[h].kind = "header" /\ res = HeaderResource(input[h]) /\ input[h].name # Empty
  <2>1. NoResource.name = Empty
    BY DEF NoResource
  <2>2. HeaderResource(input[h]).name = input[h].name
    BY DEF HeaderResource
  <2> QED  BY <1>3, <2>1, <2>2
<1>5. StatedAt(pos) = TextStates(pos)
  BY StatedBySource
<1> DEFINE D == {j \in Heads : /\ input[pos].kind = "acl"
                               /\ \A k \in Heads : k <= j
                               /\ input[j].kind = "header" /\ input[j].name # Empty}
<1>6. TextStates(pos) = {LineContent(input[pos], HeaderResource(input[g])) : g \in D}
  BY DEF TextStates, Heads
<1>7. \A j \in Heads : j \in Int
  BY DEF Heads
<1>8. D = {h}
  <2>1. \A j \in Heads : (\A k \in Heads : k <= j) => j = h
    BY <1>3, <1>7
  <2>2. input[pos].kind = "acl"
    BY DEF Item
  <2> QED  BY <1>3, <1>4, <2>1, <2>2
<1> HIDE DEF c, D
<1>9. StatedAt(pos) = {c}
  <2>1. StatedAt(pos) = {LineContent(input[pos], HeaderResource(input[h]))}
    BY <1>5, <1>6, <1>8
  <2> QED  BY <1>4, <2>1 DEF Item, c
<1>10. <<c>> \in Seq(Content) /\ ToSet(<<c>>) = {c}
  BY <1>2, OneTuple
<1> QED  BY <1>9, <1>10 DEF c

\* What the sources of documents make of one is what it states.
LEMMA DocumentStates ==
  ASSUME SourcesAssumption, ExtractAssumption, ExtractInv, pos <= Len(input)
  PROVE  /\ source \in {"strimzi", "k8s"} /\ IsSimpleUser(Item) =>
              StrimziRows(Item) \in Seq(Content) /\ ToSet(StrimziRows(Item)) = StatedAt(pos)
         /\ source \in {"cfk", "k8s"} /\ IsAuthorizedKafka(Item) =>
              KafkaRows(Item) \in Seq(Content) /\ ToSet(KafkaRows(Item)) = StatedAt(pos)
<1>1. source # "live" => ItemTyped(Item)
  BY AtItem
<1>2. ASSUME source \in {"strimzi", "k8s"}, IsSimpleUser(Item)
      PROVE  StrimziRows(Item) \in Seq(Content) /\ ToSet(StrimziRows(Item)) = StatedAt(pos)
  <2>1. ItemTyped(Item) /\ Item.kind = "KafkaUser" /\ Item.auth = "simple"
    BY <1>1, <1>2 DEF IsSimpleUser
  <2>2. StatedAt(pos) = UserStates(Item)
    BY <1>2, <2>1, StatedBySource DEF Item
  <2> QED  BY <2>1, <2>2, StrimziStates
<1>3. ASSUME source \in {"cfk", "k8s"}, IsAuthorizedKafka(Item)
      PROVE  KafkaRows(Item) \in Seq(Content) /\ ToSet(KafkaRows(Item)) = StatedAt(pos)
  <2>1. ItemTyped(Item) /\ Item.kind = "Kafka" /\ Item.auth \in {"simple", "rbac"}
    BY <1>1, <1>3 DEF IsAuthorizedKafka
  <2>2. StatedAt(pos) = {ContentOf(su, Star, "Cluster", "LITERAL", ClusterName, "Allow", "All") :
                           su \in ToSet(Item.superUsers)}
    BY <1>3, <2>1, StatedBySource DEF Item
  <2> QED  BY <2>1, <2>2, KafkaStates
<1> QED  BY <1>2, <1>3

\* The script source makes nothing of a call that it does not state, and all it states
\* if the call is explicit.
LEMMA CallRows ==
  ASSUME SourcesAssumption, ExtractAssumption, ExtractInv, source = "script", pos <= Len(input),
         Item.kind = "call", Item.kafkaAcls, subAction(Item.options) = "--add"
  PROVE  LET cs == expand(Item.options)
         IN  /\ cs \in Seq(Content) /\ ToSet(cs) \subseteq StatedAt(pos)
             /\ Explicit(Item.options) => StatedAt(pos) \subseteq ToSet(cs)
<1>1. ItemTyped(Item)
  BY AtItem
<1>2. Typed(Item.options)
  BY <1>1 DEF ItemTyped, Typed, Listed
<1>3. StatedAt(pos) = CallStates(Item.options)
  BY StatedBySource DEF Item
<1> QED  BY <1>2, <1>3, ExpandStates

\* The live source's answer: the new ACLs are in Kafka, and finitely many.
LEMMA AnswerTyped ==
  ASSUME ExtractAssumption, ExtractInv, source = "live", NEW cell
  PROVE  LET new == {a \in Described(kafka, cell) : Mappable(a)} \ Contents(rows)
         IN  new \in SUBSET Content /\ IsFiniteSet(new) /\ new \subseteq ever
<1>1. kafka \subseteq ever /\ kafka \subseteq KafkaAcls
  BY DEF ExtractInv, TypeOK
<1>2. Described(kafka, cell) \subseteq kafka
  BY DEF Described
<1>3. KafkaAcls \subseteq Content /\ IsFiniteSet(KafkaAcls)
  BY DEF ExtractAssumption
<1> DEFINE new == {a \in Described(kafka, cell) : Mappable(a)} \ Contents(rows)
<1>4. new \subseteq kafka
  BY <1>2
<1> HIDE DEF new
<1>5. new \in SUBSET KafkaAcls
  BY <1>1, <1>4
<1>6. IsFiniteSet(new)
  BY <1>3, <1>5, FS_Subset
<1>7. new \in SUBSET Content /\ new \subseteq ever
  BY <1>1, <1>3, <1>4, <1>5
<1> QED  BY <1>6, <1>7 DEF new

\* A step of the live source adds its answer's new ACLs.
LEMMA AnswerStep ==
  ASSUME SourcesAssumption, ExtractAssumption, ExtractInv, LiveDescribe
  PROVE  /\ ExtractInv'
         /\ Contents(rows') = Contents(rows) \cup {a \in Described(kafka, Item) : Mappable(a)}
<1> DEFINE new == {a \in Described(kafka, Item) : Mappable(a)} \ Contents(rows)
<1>1. status = "reading" /\ source = "live" /\ pos <= Len(input) /\ Steps
      /\ res' = res /\ nextId' = nextId /\ noted' = noted
  BY DEF LiveDescribe, Reads
<1>2. PICK s \in Bijection(1..Cardinality(new), new) :
         rows' = rows \o Unnumbered(s)
  BY DEF LiveDescribe
<1>3. new \in SUBSET Content /\ IsFiniteSet(new) /\ new \subseteq ever
  BY <1>1, AnswerTyped
<1>4. new \cap Contents(rows) = {}
      /\ Contents(rows) \cup new = Contents(rows) \cup {a \in Described(kafka, Item) : Mappable(a)}
  OBVIOUS
<1> HIDE DEF new
<1>5. rows \in Seq(RowSet) /\ nextId \in Nat \ {0} /\ res \in Resource /\ Different(rows)
  BY <1>1, AtItem
<1>6. rows' \in Seq(RowSet) /\ Contents(rows') = Contents(rows) \cup new /\ Different(rows')
  <2> DEFINE all == rows \o Unnumbered(s)
  <2>1. /\ all \in Seq(RowSet) /\ Contents(all) = Contents(rows) \cup new
        /\ Different(rows) /\ new \cap Contents(rows) = {} => Different(all)
    BY <1>3, <1>5, DescribedRows
  <2>2. rows' = all
    BY <1>2
  <2> HIDE DEF all
  <2> QED  BY <1>4, <1>5, <2>1, <2>2
<1>7. source # "text" /\ source \notin {"text", "script", "strimzi", "cfk"}
  BY <1>1
<1>8. ExtractInv'
  BY <1>1, <1>3, <1>5, <1>6, <1>7, ItemStep
<1> QED  BY <1>4, <1>6, <1>8

\* The live and the cfk source sort rows, k8s and live number them, the others do neither.
LEMMA EndsWell ==
  ASSUME SourcesAssumption, ExtractAssumption, ExtractInv,
         PlainEnd \/ CfkSorts \/ K8sRenumbers \/ LiveSorts
  PROVE  ExtractInv' /\ Contents(rows') = Contents(rows)
<1>1. rows \in Seq(RowSet) /\ (source = "live" => Different(rows))
  BY DEF ExtractInv, TypeOK, RowsDiffer, Different, RowSet
<1>2. source \in {"text", "script", "strimzi", "cfk"} /\ status = "reading" => Ids(rows) = DOMAIN rows
  BY OrderedIds DEF ExtractInv, Counted, InOrder
<1>3. CASE PlainEnd
  <2>1. status = "reading" /\ source \in {"text", "script", "csv", "json", "strimzi"}
        /\ pos > Len(input) /\ Ends /\ rows' = rows
    BY <1>3 DEF PlainEnd, Exhausted
  <2>2. source \notin {"csv", "json"} => source \in {"text", "script", "strimzi", "cfk"}
    BY <2>1
  <2>3. source # "live"
    BY <2>1
  <2> QED  BY <1>1, <1>2, <2>1, <2>2, <2>3, EndStep
<1>4. CASE CfkSorts
  <2>1. status = "reading" /\ source = "cfk" /\ pos > Len(input) /\ Ends
    BY <1>4 DEF CfkSorts, Exhausted
  <2>2. PICK p \in Bijection(DOMAIN rows, DOMAIN rows) : rows' = Moved(rows, p)
    BY <1>4 DEF CfkSorts, SortedRows, Moved
  <2>3. rows' \in Seq(RowSet) /\ DOMAIN rows' = DOMAIN rows
        /\ Contents(rows') = Contents(rows) /\ Ids(rows') = Ids(rows)
    BY <1>1, <2>2, PermutedRows
  <2>4. source # "live" /\ Ids(rows') = DOMAIN rows'
    BY <1>2, <2>1, <2>3
  <2> QED  BY <2>1, <2>3, <2>4, EndStep
<1>5. CASE K8sRenumbers
  <2>1. status = "reading" /\ source = "k8s" /\ pos > Len(input) /\ Ends /\ rows' = Renumbered(rows)
    BY <1>5 DEF K8sRenumbers, Exhausted
  <2>2. rows' \in Seq(RowSet) /\ Contents(rows') = Contents(rows) /\ Ids(rows') = DOMAIN rows'
    BY <1>1, <2>1, RenumberedRows
  <2>3. source # "live"
    BY <2>1
  <2> QED  BY <2>1, <2>2, <2>3, EndStep
<1>6. CASE LiveSorts
  <2>1. status = "reading" /\ source = "live" /\ pos > Len(input) /\ Ends
    BY <1>6 DEF LiveSorts, Exhausted
  <2>2. PICK t \in SortedRows(ByPrincipalNameAndOperation) : rows' = Renumbered(t)
    BY <1>6 DEF LiveSorts
  <2>3. PICK p \in Bijection(DOMAIN rows, DOMAIN rows) : t = Moved(rows, p)
    BY DEF SortedRows, Moved
  <2> DEFINE s == Moved(rows, p)
  <2>4. s \in Seq(RowSet) /\ Contents(s) = Contents(rows) /\ Different(s)
    BY <1>1, <2>1, PermutedRows
  <2> HIDE DEF s
  <2>5. Renumbered(s) \in Seq(RowSet) /\ Contents(Renumbered(s)) = Contents(s)
        /\ Ids(Renumbered(s)) = DOMAIN Renumbered(s) /\ Different(Renumbered(s))
    BY <2>4, RenumberedRows
  <2>6. rows' = Renumbered(s)
    BY <2>2, <2>3 DEF s
  <2> QED  BY <2>1, <2>4, <2>5, <2>6, EndStep
<1> QED  BY <1>3, <1>4, <1>5, <1>6

\* Every step keeps the invariant.
LEMMA ExtractStep ==
  ASSUME SourcesAssumption, ExtractAssumption, ExtractInv, [Next]_vars
  PROVE  ExtractInv'
<1>1. CASE Unreadable
  BY <1>1, FailStep DEF Unreadable, Failures
<1>2. CASE TextHeader
  <2>1. status = "reading" /\ pos <= Len(input) /\ source = "text" /\ Item.kind = "header"
        /\ res' = HeaderResource(Item) /\ Passes /\ Steps
    BY <1>2 DEF TextHeader, Reads
  <2>2. HeaderResource(Item) \in Resource
    BY <2>1, AtItem, LineTyped
  <2> QED  BY <2>1, <2>2, QuietStep
<1>3. CASE TextAcl
  <2>1. status = "reading" /\ pos <= Len(input) /\ source = "text" /\ Item.kind = "acl"
        /\ res' = res /\ Steps
    BY <1>3 DEF TextAcl, Reads
  <2>2. res \in Resource
    BY <2>1, AtItem
  <2>3. CASE res.name = Empty
    <3>1. Note
      BY <1>3, <2>3 DEF TextAcl
    <3> QED  BY <2>1, <2>2, <3>1, QuietStep
  <2>4. CASE res.name # Empty
    <3> DEFINE cs == <<LineContent(Item, res)>>
    <3>1. Emit(cs)
      BY <1>3, <2>4 DEF TextAcl
    <3>2. cs \in Seq(Content) /\ ToSet(cs) = StatedAt(pos)
      BY <2>1, <2>4, TextAclStates
    <3> HIDE DEF cs
    <3> QED  BY <2>1, <3>1, <3>2, EmitStep
  <2> QED  BY <2>3, <2>4
<1>4. CASE TextDrift
  <2>1. status = "reading" /\ pos <= Len(input) /\ source = "text" /\ Item.kind = "drift"
        /\ res' = NoResource /\ Note /\ Steps
    BY <1>4 DEF TextDrift, Reads
  <2>2. NoResource \in Resource
    BY OwnWords DEF NoResource, Resource
  <2> QED  BY <2>1, <2>2, QuietStep
<1>5. CASE TextOther
  <2>1. status = "reading" /\ pos <= Len(input) /\ Item.kind \in {"blank", "other"}
        /\ res' = res /\ (Passes \/ Note) /\ Steps
    BY <1>5 DEF TextOther, Reads
  <2>2. res \in Resource
    BY <2>1, AtItem
  <2> QED  BY <2>1, <2>2, QuietStep
<1>6. CASE ScriptRejects \/ GivenRejects
  BY <1>6, FailStep DEF ScriptRejects, GivenRejects, Reads, Failures
<1>7. CASE ScriptPasses \/ ScriptSkips \/ GivenComment \/ Rolebinding \/ DocumentSkipped
  <2>1. status = "reading" /\ pos <= Len(input) /\ source # "text"
        /\ res' = res /\ (Passes \/ Note) /\ Steps
    BY <1>7 DEF ScriptPasses, ScriptSkips, GivenComment, Rolebinding, DocumentSkipped, Reads
  <2>2. res \in Resource
    BY <2>1, AtItem
  <2> QED  BY <2>1, <2>2, QuietStep
<1>8. CASE ScriptAdds
  <2>1. status = "reading" /\ pos <= Len(input) /\ source = "script" /\ Item.kind = "call" /\ Item.kafkaAcls
        /\ subAction(Item.options) = "--add" /\ res' = res /\ Emit(expand(Item.options)) /\ Steps
    BY <1>8 DEF ScriptAdds, Reads, Understood, IsCall
  <2>2. expand(Item.options) \in Seq(Content) /\ ToSet(expand(Item.options)) \subseteq StatedAt(pos)
    BY <2>1, CallRows
  <2> QED  BY <2>1, <2>2, EmitStep
<1>9. CASE GivenRow
  <2>1. status = "reading" /\ pos <= Len(input) /\ source \in {"csv", "json"} /\ Item.kind = "record"
        /\ rows' = Append(rows, [id |-> Item.id, acl |-> Item.acl])
        /\ res' = res /\ nextId' = nextId /\ noted' = noted /\ Steps
    BY <1>9 DEF GivenRow, Reads
  <2>2. ItemTyped(Item) /\ rows \in Seq(RowSet) /\ nextId \in Nat \ {0} /\ res \in Resource
    BY <2>1, AtItem
  <2> DEFINE r == [id |-> Item.id, acl |-> Item.acl]
  <2>3. r \in RowSet /\ r.acl = Item.acl
    BY <2>1, <2>2 DEF ItemTyped, RowSet
  <2>4. rows' = Append(rows, r)
    BY <2>1
  <2> HIDE DEF r
  <2>5. rows' \in Seq(RowSet) /\ Contents(rows') = Contents(rows) \cup {Item.acl}
    BY <2>2, <2>3, <2>4, GivenRows
  <2>6. StatedAt(pos) = {Item.acl}
    BY <2>1, StatedBySource DEF Item
  <2>7. source \notin {"text", "script", "strimzi", "cfk", "live"}
    BY <2>1
  <2> QED  BY <2>1, <2>2, <2>5, <2>6, <2>7, ItemStep
<1>10. CASE StrimziUser
  <2>1. status = "reading" /\ pos <= Len(input) /\ source = "strimzi" /\ IsSimpleUser(Item)
        /\ Item.kind = "KafkaUser" /\ res' = res /\ Emit(StrimziRows(Item)) /\ Steps
    BY <1>10 DEF StrimziUser, Reads, IsSimpleUser
  <2>2. StrimziRows(Item) \in Seq(Content) /\ ToSet(StrimziRows(Item)) = StatedAt(pos)
    BY <2>1, DocumentStates
  <2> QED  BY <2>1, <2>2, EmitStep
<1>11. CASE CfkKafka
  <2>1. status = "reading" /\ pos <= Len(input) /\ source = "cfk" /\ IsAuthorizedKafka(Item)
        /\ Item.kind = "Kafka" /\ res' = res /\ Emit(KafkaRows(Item)) /\ Steps
    BY <1>11 DEF CfkKafka, Reads, IsAuthorizedKafka
  <2>2. KafkaRows(Item) \in Seq(Content) /\ ToSet(KafkaRows(Item)) = StatedAt(pos)
    BY <2>1, DocumentStates
  <2> QED  BY <2>1, <2>2, EmitStep
<1>12. CASE K8sObject
  <2> DEFINE cs == IF IsSimpleUser(Item) THEN StrimziRows(Item) ELSE KafkaRows(Item)
  <2>1. status = "reading" /\ pos <= Len(input) /\ source = "k8s"
        /\ (IsSimpleUser(Item) \/ IsAuthorizedKafka(Item))
        /\ rows' = rows \o Numbered(cs, 1)
        /\ res' = res /\ nextId' = nextId /\ noted' = noted /\ Steps
    BY <1>12 DEF K8sObject, Reads
  <2>2. rows \in Seq(RowSet) /\ nextId \in Nat \ {0} /\ res \in Resource
    BY <2>1, AtItem
  <2>3. cs \in Seq(Content) /\ ToSet(cs) = StatedAt(pos)
    BY <2>1, DocumentStates
  <2> HIDE DEF cs
  <2>4. rows' \in Seq(RowSet) /\ Contents(rows') = Contents(rows) \cup ToSet(cs)
    <3> DEFINE all == rows \o Numbered(cs, 1)
    <3>1. 1 \in Int
      OBVIOUS
    <3>2. all \in Seq(RowSet) /\ Contents(all) = Contents(rows) \cup ToSet(cs)
      BY <2>2, <2>3, <3>1, NumberedRows
    <3>3. rows' = all
      BY <2>1
    <3> QED  BY <3>2, <3>3
  <2>5. source \notin {"text", "script", "strimzi", "cfk", "live"}
    BY <2>1
  <2> QED  BY <2>1, <2>2, <2>3, <2>4, <2>5, ItemStep
<1>13. CASE LiveDescribe
  BY <1>13, AnswerStep
<1>14. CASE KafkaChanges
  <2>1. /\ UNCHANGED chosen /\ source' = source /\ input' = input /\ asked' = asked /\ pos' = pos
        /\ status' = status /\ acls' = acls /\ res' = res /\ rows' = rows /\ nextId' = nextId
        /\ noted' = noted
    BY <1>14 DEF KafkaChanges, chosen
  <2>2. source = "live" /\ kafka' \subseteq kafka \cup KafkaAcls
        /\ ever' = ever \cup kafka' /\ always' = always \cap kafka'
        /\ changes < MaxChanges /\ changes' = changes + 1
    BY <1>14 DEF KafkaChanges
  <2>3. TypeOK'
    <3>1. changes' \in 0..MaxChanges
      BY <2>2 DEF ExtractInv, TypeOK, ExtractAssumption
    <3> QED  BY <2>1, <2>2, <3>1 DEF ExtractInv, TypeOK
  <2>4. Chosen' /\ UnderResource'
    BY <2>1 DEF ExtractInv, Chosen, UnderResource, Heads
  <2>5. Stated'
    BY <2>1, <2>2 DEF ExtractInv, Stated, Contents
  <2>6. Counted' /\ RowsDiffer' /\ AllOrNothing'
    BY <2>1 DEF ExtractInv, Counted, RowsDiffer, AllOrNothing
  <2> QED  BY <2>3, <2>4, <2>5, <2>6 DEF ExtractInv
<1>15. CASE PlainEnd \/ CfkSorts \/ K8sRenumbers \/ LiveSorts
  BY <1>15, EndsWell
<1>16. CASE WriteACLs
  <2>1. /\ UNCHANGED chosen /\ source' = source /\ input' = input /\ asked' = asked /\ pos' = pos
        /\ status' = "written" /\ acls' = rows /\ res' = res /\ rows' = rows /\ nextId' = nextId
        /\ noted' = noted /\ kafka' = kafka /\ changes' = changes /\ ever' = ever /\ always' = always
    BY <1>16 DEF WriteACLs, chosen, cluster
  <2>2. status = "read" /\ \A i \in DOMAIN rows : rows[i].acl \in Row /\ rows[i].id >= 1
    BY <1>16 DEF WriteACLs, Expressible
  <2> DEFINE R == [id : Nat \ {0}, acl : Row]
  <2>3. rows \in Seq(R)
    <3>1. rows \in Seq(RowSet)
      BY DEF ExtractInv, TypeOK, RowSet
    <3>2. Len(rows) \in Nat /\ DOMAIN rows = 1..Len(rows) /\ rows \in [1..Len(rows) -> RowSet]
      BY <3>1, LenProperties
    <3>3. \A i \in 1..Len(rows) : rows[i] \in R
      BY <2>2, <3>2 DEF RowSet
    <3> HIDE DEF R
    <3>4. rows \in [1..Len(rows) -> R]
      BY <3>2, <3>3
    <3> QED  BY <3>2, <3>4, FunctionIsSeq
  <2>4. TypeOK'
    BY <2>1, <2>3 DEF ExtractInv, TypeOK
  <2>5. Chosen' /\ UnderResource'
    BY <2>1 DEF ExtractInv, Chosen, UnderResource, Heads
  <2>6. Stated'
    BY <2>1, StatedSame DEF ExtractInv
  <2>7. Counted' /\ RowsDiffer' /\ AllOrNothing'
    BY <2>1, <2>2 DEF ExtractInv, Counted, RowsDiffer, AllOrNothing
  <2> QED  BY <2>4, <2>5, <2>6, <2>7 DEF ExtractInv
<1>17. CASE WriteRejects
  BY <1>17, FailStep DEF WriteRejects, Failures
<1>18. CASE UNCHANGED vars
  <2>1. /\ UNCHANGED chosen /\ source' = source /\ input' = input /\ asked' = asked /\ pos' = pos
        /\ status' = status /\ acls' = acls /\ res' = res /\ rows' = rows /\ nextId' = nextId
        /\ noted' = noted /\ kafka' = kafka /\ changes' = changes /\ ever' = ever /\ always' = always
    BY <1>18 DEF vars, chosen, cluster
  <2>2. TypeOK'
    BY <2>1 DEF ExtractInv, TypeOK
  <2>3. Chosen' /\ UnderResource'
    BY <2>1 DEF ExtractInv, Chosen, UnderResource, Heads
  <2>4. Stated'
    BY <2>1, StatedSame DEF ExtractInv
  <2>5. Counted' /\ RowsDiffer' /\ AllOrNothing'
    BY <2>1 DEF ExtractInv, Counted, RowsDiffer, AllOrNothing
  <2> QED  BY <2>2, <2>3, <2>4, <2>5 DEF ExtractInv
<1> QED
  BY <1>1, <1>2, <1>3, <1>4, <1>5, <1>6, <1>7, <1>8, <1>9, <1>10, <1>11, <1>12, <1>13,
     <1>14, <1>15, <1>16, <1>17, <1>18 DEF Next

\* ExtractInv holds of every state an extract reaches.
THEOREM ExtractInvariant ==
  ASSUME SourcesAssumption, ExtractAssumption
  PROVE  Spec => []ExtractInv
<1>1. Init => ExtractInv
  BY ExtractInit
<1>2. ExtractInv /\ [Next]_vars => ExtractInv'
  BY ExtractStep
<1> QED  BY <1>1, <1>2, PTL DEF Spec

\* Whatever words the input has, the rows are typed, and what is written to acls.json is
\* of the intermediate representation.
THEOREM TypeCorrect ==
  ASSUME SourcesAssumption, ExtractAssumption
  PROVE  Spec => []TypeOK
<1>1. ExtractInv => TypeOK
  BY DEF ExtractInv
<1>2. Spec => []ExtractInv
  BY ExtractInvariant
<1> QED  BY <1>1, <1>2, PTL

\* acls.json is empty, or it has the rows of an input that has been read to its end.
LEMMA WrittenOrNot ==
  ASSUME SourcesAssumption, ExtractAssumption, ExtractInv
  PROVE  \/ acls = <<>> /\ DOMAIN acls = {} /\ Contents(acls) = {}
         \/ acls = rows /\ status = "written" /\ pos - 1 = Len(input) /\ DOMAIN input = 1..(pos - 1)
<1>1. Len(input) \in Nat /\ DOMAIN input = 1..Len(input)
  BY InputTyped DEF ExtractInv
<1>2. CASE status = "written"
  <2>1. acls = rows /\ pos = Len(input) + 1
    BY <1>2 DEF ExtractInv, AllOrNothing
  <2> QED  BY <1>1, <1>2, <2>1
<1>3. CASE status # "written"
  <2>1. acls = <<>>
    BY <1>3 DEF ExtractInv, AllOrNothing
  <2>2. DOMAIN acls = {}
    BY <2>1
  <2> QED  BY <2>1, <2>2 DEF Contents
<1> QED  BY <1>2, <1>3

\* No extract, from any source, writes a row that its input does not state, or that was
\* never in Kafka.
THEOREM NothingInventedHolds ==
  ASSUME SourcesAssumption, ExtractAssumption
  PROVE  Spec => []NothingInvented
<1>1. ASSUME ExtractInv PROVE NothingInvented
  <2>1. CASE Contents(acls) = {}
    BY <2>1 DEF NothingInvented
  <2>2. CASE acls = rows /\ DOMAIN input = 1..(pos - 1)
    <3>1. Stated
      BY <1>1 DEF ExtractInv
    <3> QED  BY <2>2, <3>1 DEF NothingInvented, Stated
  <2> QED  BY <1>1, <2>1, <2>2, WrittenOrNot
<1>2. Spec => []ExtractInv
  BY ExtractInvariant
<1> QED  BY <1>1, <1>2, PTL

\* The numbers in acls.json are 1 to n, of however many streams a source has made its rows.
THEOREM IdsIdentifyHolds ==
  ASSUME SourcesAssumption, ExtractAssumption
  PROVE  Spec => []IdsIdentify
<1>1. ASSUME ExtractInv PROVE IdsIdentify
  <2>1. CASE DOMAIN acls = {}
    BY <2>1 DEF IdsIdentify
  <2>2. CASE acls = rows /\ status = "written"
    <3>1. Counted
      BY <1>1 DEF ExtractInv
    <3> QED  BY <2>2, <3>1 DEF IdsIdentify, Counted
  <2> QED  BY <1>1, <2>1, <2>2, WrittenOrNot
<1>2. Spec => []ExtractInv
  BY ExtractInvariant
<1> QED  BY <1>1, <1>2, PTL

\* However the filters overlap and Kafka's ACLs change, no ACL gets two rows.
THEOREM LiveRowsDifferHolds ==
  ASSUME SourcesAssumption, ExtractAssumption
  PROVE  Spec => []LiveRowsDiffer
<1>1. ASSUME ExtractInv PROVE LiveRowsDiffer
  <2>1. CASE DOMAIN acls = {}
    BY <2>1 DEF LiveRowsDiffer
  <2>2. CASE acls = rows
    <3>1. RowsDiffer
      BY <1>1 DEF ExtractInv
    <3> QED  BY <2>2, <3>1 DEF LiveRowsDiffer, RowsDiffer
  <2> QED  BY <1>1, <2>1, <2>2, WrittenOrNot
<1>2. Spec => []ExtractInv
  BY ExtractInvariant
<1> QED  BY <1>1, <1>2, PTL

-----------------------------------------------------------------------------
(* Nothing is lost: the inductive invariant with what has become of the items *)

\* A step over an item loses nothing of earlier items, and nothing of this one if its rows
\* or the log have it.
LEMMA KeptItem ==
  ASSUME SourcesAssumption, ExtractAssumption, KeptInv, ExtractInv',
         pos <= Len(input), Steps,
         Contents(rows) \subseteq Contents(rows'), bindings \subseteq bindings', noted \subseteq noted',
         source # "live" /\ pos \notin noted' /\ ~(Silent(Item) \/ PassedOver(Item)) =>
           /\ StatedAt(pos) \subseteq Contents(rows')
           /\ IF source \in {"cfk", "k8s"} /\ Item.kind = "ConfluentRolebinding"
                THEN RolebindingOf(Item) \in bindings'
                ELSE source = "text" => StatedAt(pos) # {},
         source = "live" => {a \in Described(always, Item) : Mappable(a)} \subseteq Contents(rows')
  PROVE  KeptInv'
<1>1. UNCHANGED chosen /\ source' = source /\ input' = input /\ pos' = pos + 1 /\ always' = always
  BY DEF Steps, chosen, cluster
<1>2. pos \in Nat \ {0} /\ pos' - 1 = pos
  BY <1>1, AtItem DEF KeptInv
<1>3. \A i : StatedAt(i)' = StatedAt(i)
  BY <1>1, SameStatements
<1>4. Contents(rows)' = Contents(rows')
  BY DEF Contents
<1>5. AllKept'
  <2> SUFFICES ASSUME NEW i \in 1..(pos' - 1),
                      source # "live", i \notin noted', ~(Silent(input[i]) \/ PassedOver(input[i]))
               PROVE  /\ StatedAt(i) \subseteq Contents(rows')
                      /\ IF source \in {"cfk", "k8s"} /\ input[i].kind = "ConfluentRolebinding"
                           THEN RolebindingOf(input[i]) \in bindings'
                           ELSE source = "text" => StatedAt(i) # {}
    BY <1>1, <1>3, <1>4 DEF AllKept, Kept, Silent, PassedOver, RolebindingOf
  <2>1. CASE i = pos
    BY <2>1 DEF Item
  <2>2. CASE i # pos
    <3>1. i \in 1..(pos - 1)
      BY <1>2, <2>2
    <3>2. i \notin noted
      OBVIOUS
    <3>3. Kept(i)
      BY <3>1, <3>2 DEF KeptInv, AllKept
    <3> QED  BY <3>3 DEF Kept
  <2> QED  BY <2>1, <2>2
<1>6. AllDescribed'
  <2> SUFFICES ASSUME source = "live", NEW i \in 1..(pos' - 1)
               PROVE  {a \in Described(always, input[i]) : Mappable(a)} \subseteq Contents(rows')
    BY <1>1, <1>4 DEF AllDescribed, Described, Mappable
  <2>1. CASE i = pos
    BY <2>1 DEF Item
  <2>2. CASE i # pos
    <3>1. i \in 1..(pos - 1)
      BY <1>2, <2>2
    <3>2. {a \in Described(always, input[i]) : Mappable(a)} \subseteq Contents(rows)
      BY <3>1 DEF KeptInv, AllDescribed
    <3> QED  BY <3>2
  <2> QED  BY <2>1, <2>2
<1> QED  BY <1>5, <1>6 DEF KeptInv

\* A step over no item loses nothing if it loses no row.
LEMMA KeptRest ==
  ASSUME KeptInv, ExtractInv', UNCHANGED <<chosen, pos, bindings, noted>>,
         Contents(rows') = Contents(rows), always' \subseteq always
  PROVE  KeptInv'
<1>1. UNCHANGED chosen /\ source' = source /\ input' = input /\ pos' = pos
      /\ bindings' = bindings /\ noted' = noted
  BY DEF chosen
<1>2. \A i : StatedAt(i)' = StatedAt(i)
  BY <1>1, SameStatements
<1>3. Contents(rows)' = Contents(rows)
  BY DEF Contents
<1>4. AllKept'
  <2>1. \A i : Kept(i)' <=> Kept(i)
    BY <1>1, <1>2, <1>3 DEF Kept, RolebindingOf
  <2> QED  BY <1>1, <2>1 DEF KeptInv, AllKept, Silent, PassedOver
<1>5. AllDescribed'
  <2> SUFFICES ASSUME source = "live", NEW i \in 1..(pos - 1)
               PROVE  {a \in Described(always', input[i]) : Mappable(a)} \subseteq Contents(rows)
    BY <1>1, <1>3 DEF AllDescribed, Described, Mappable
  <2>1. {a \in Described(always, input[i]) : Mappable(a)} \subseteq Contents(rows)
    BY DEF KeptInv, AllDescribed
  <2>2. Described(always', input[i]) \subseteq Described(always, input[i])
    BY DEF Described
  <2> QED  BY <2>1, <2>2
<1> QED  BY <1>4, <1>5 DEF KeptInv

\* Every step keeps what has become of the items.
LEMMA KeptStep ==
  ASSUME SourcesAssumption, ExtractAssumption, KeptInv, [Next]_vars
  PROVE  KeptInv'
<1>1. ExtractInv /\ ExtractInv'
  BY ExtractStep DEF KeptInv
<1>2. ASSUME Steps, pos <= Len(input), source # "live", rows' = rows, bindings' = bindings,
             (noted' = noted /\ Silent(Item)) \/ Note
      PROVE  KeptInv'
  <2>1. noted \subseteq noted' /\ (pos \in noted' \/ Silent(Item))
    BY <1>2 DEF Note
  <2> QED  BY <1>1, <1>2, <2>1, KeptItem
<1>3. ASSUME Steps, pos <= Len(input), source \notin {"live", "text"}, noted' = noted, bindings' = bindings,
             Item.kind # "ConfluentRolebinding",
             Contents(rows') = Contents(rows) \cup StatedAt(pos)
      PROVE  KeptInv'
  <2>1. Contents(rows) \subseteq Contents(rows') /\ StatedAt(pos) \subseteq Contents(rows')
    BY <1>3
  <2> QED  BY <1>1, <1>3, <2>1, KeptItem
<1>4. CASE Unreadable \/ ScriptRejects \/ GivenRejects \/ WriteRejects \/ WriteACLs \/ UNCHANGED vars
  <2>1. UNCHANGED <<chosen, pos, bindings, noted>> /\ rows' = rows /\ always' = always
    BY <1>4 DEF Unreadable, ScriptRejects, GivenRejects, WriteRejects, WriteACLs, Fails, vars, cluster
  <2> QED  BY <1>1, <2>1, KeptRest
<1>5. CASE KafkaChanges
  <2>1. UNCHANGED <<chosen, pos, bindings, noted>> /\ rows' = rows /\ always' \subseteq always
    BY <1>5 DEF KafkaChanges
  <2> QED  BY <1>1, <2>1, KeptRest
<1>6. CASE PlainEnd \/ CfkSorts \/ K8sRenumbers \/ LiveSorts
  <2>1. UNCHANGED <<chosen, pos, bindings, noted>> /\ always' = always
    BY <1>6 DEF PlainEnd, CfkSorts, K8sRenumbers, LiveSorts, Ends, cluster
  <2>2. Contents(rows') = Contents(rows)
    BY <1>1, <1>6, EndsWell
  <2> QED  BY <1>1, <2>1, <2>2, KeptRest
<1>7. CASE TextHeader \/ TextDrift \/ TextOther
  <2>1. Steps /\ pos <= Len(input) /\ source # "live" /\ rows' = rows /\ bindings' = bindings
    BY <1>7 DEF TextHeader, TextDrift, TextOther, Reads, Note, Passes
  <2>2. (noted' = noted /\ Item.kind \in {"header", "blank"}) \/ Note
    BY <1>7 DEF TextHeader, TextDrift, TextOther, Passes
  <2> QED  BY <1>2, <2>1, <2>2 DEF Silent
<1>8. CASE TextAcl
  <2>1. Steps /\ pos <= Len(input) /\ source = "text" /\ Item.kind = "acl" /\ status = "reading"
        /\ res' = res /\ bindings' = bindings
    BY <1>8 DEF TextAcl, Reads
  <2>2. CASE res.name = Empty
    <3>1. Note /\ rows' = rows
      BY <1>8, <2>2 DEF TextAcl, Note
    <3> QED  BY <1>2, <2>1, <3>1
  <2>3. CASE res.name # Empty
    <3> DEFINE cs == <<LineContent(Item, res)>>
    <3>1. Emit(cs)
      BY <1>8, <2>3 DEF TextAcl
    <3>2. cs \in Seq(Content) /\ ToSet(cs) = StatedAt(pos) /\ StatedAt(pos) # {}
      BY <1>1, <2>1, <2>3, TextAclStates
    <3> HIDE DEF cs
    <3>3. Contents(rows') = Contents(rows) \cup ToSet(cs)
      BY <1>1, <2>1, <3>1, <3>2, EmitStep
    <3>4. Contents(rows) \subseteq Contents(rows') /\ StatedAt(pos) \subseteq Contents(rows')
          /\ noted' = noted
      BY <3>1, <3>2, <3>3 DEF Emit
    <3> QED  BY <1>1, <2>1, <3>2, <3>4, KeptItem
  <2> QED  BY <2>2, <2>3
<1>9. CASE ScriptPasses \/ ScriptSkips \/ GivenComment
  <2>1. Steps /\ pos <= Len(input) /\ source # "live" /\ rows' = rows /\ bindings' = bindings
    BY <1>9 DEF ScriptPasses, ScriptSkips, GivenComment, Reads, Note, Passes
  <2>2. \/ noted' = noted /\ (Item.kind = "comment" \/ (Item.kind = "call" /\ ~Item.kafkaAcls))
        \/ Note
    BY <1>9 DEF ScriptPasses, ScriptSkips, GivenComment, Passes, Understood, IsCall
  <2> QED  BY <1>2, <2>1, <2>2 DEF Silent
<1>10. CASE ScriptAdds
  <2>1. Steps /\ pos <= Len(input) /\ source = "script" /\ Item.kind = "call" /\ Item.kafkaAcls
        /\ ~Item.cut /\ subAction(Item.options) = "--add" /\ status = "reading"
        /\ res' = res /\ bindings' = bindings /\ Emit(expand(Item.options))
    BY <1>10 DEF ScriptAdds, Reads, Understood, IsCall
  <2> DEFINE cs == expand(Item.options)
  <2>2. /\ cs \in Seq(Content) /\ ToSet(cs) \subseteq StatedAt(pos)
        /\ Explicit(Item.options) => StatedAt(pos) \subseteq ToSet(cs)
    BY <1>1, <2>1, CallRows
  <2>3. Emit(cs)
    BY <2>1
  <2> HIDE DEF cs
  <2>4. Contents(rows') = Contents(rows) \cup ToSet(cs) /\ noted' = noted
    <3>1. Contents(rows') = Contents(rows) \cup ToSet(cs)
      BY <1>1, <2>1, <2>2, <2>3, EmitStep
    <3> QED  BY <2>3, <3>1 DEF Emit
  <2>5. StatedAt(pos) \subseteq Contents(rows') \/ PassedOver(Item)
    BY <2>1, <2>2, <2>4 DEF PassedOver
  <2> QED  BY <1>1, <2>1, <2>4, <2>5, KeptItem
<1>11. CASE GivenRow
  <2>1. Steps /\ pos <= Len(input) /\ source \in {"csv", "json"} /\ Item.kind = "record"
        /\ bindings' = bindings /\ noted' = noted
        /\ rows' = Append(rows, [id |-> Item.id, acl |-> Item.acl])
    BY <1>11 DEF GivenRow, Reads
  <2>2. Contents(rows') = Contents(rows) \cup StatedAt(pos)
    <3> DEFINE r == [id |-> Item.id, acl |-> Item.acl]
    <3>1. rows \in Seq(RowSet) /\ ItemTyped(Item)
      BY <1>1, <2>1, AtItem
    <3>2. r \in RowSet /\ r.acl = Item.acl
      BY <2>1, <3>1 DEF ItemTyped, RowSet
    <3>3. rows' = Append(rows, r)
      BY <2>1
    <3> HIDE DEF r
    <3>4. Contents(rows') = Contents(rows) \cup {Item.acl}
      BY <3>1, <3>2, <3>3, GivenRows
    <3>5. StatedAt(pos) = {Item.acl}
      BY <2>1, StatedBySource DEF Item
    <3> QED  BY <3>4, <3>5
  <2> QED  BY <1>3, <2>1, <2>2
<1>12. CASE StrimziUser \/ CfkKafka
  <2> DEFINE cs == IF source = "strimzi" THEN StrimziRows(Item) ELSE KafkaRows(Item)
  <2>1. Steps /\ pos <= Len(input) /\ source \in {"strimzi", "cfk"} /\ status = "reading"
        /\ Item.kind \in {"KafkaUser", "Kafka"} /\ res' = res /\ bindings' = bindings /\ Emit(cs)
    BY <1>12 DEF StrimziUser, CfkKafka, Reads, IsSimpleUser, IsAuthorizedKafka
  <2>2. cs \in Seq(Content) /\ ToSet(cs) = StatedAt(pos)
    BY <1>1, <1>12, <2>1, DocumentStates DEF StrimziUser, CfkKafka, Reads
  <2> HIDE DEF cs
  <2>3. Contents(rows') = Contents(rows) \cup StatedAt(pos) /\ noted' = noted
    BY <1>1, <2>1, <2>2, EmitStep DEF Emit
  <2> QED  BY <1>3, <2>1, <2>3
<1>13. CASE K8sObject
  <2> DEFINE cs == IF IsSimpleUser(Item) THEN StrimziRows(Item) ELSE KafkaRows(Item)
  <2>1. Steps /\ pos <= Len(input) /\ source = "k8s" /\ Item.kind \in {"KafkaUser", "Kafka"}
        /\ (IsSimpleUser(Item) \/ IsAuthorizedKafka(Item))
        /\ bindings' = bindings /\ noted' = noted /\ rows' = rows \o Numbered(cs, 1)
    BY <1>13 DEF K8sObject, Reads, IsSimpleUser, IsAuthorizedKafka
  <2>2. cs \in Seq(Content) /\ ToSet(cs) = StatedAt(pos)
    BY <1>1, <2>1, DocumentStates
  <2> HIDE DEF cs
  <2>3. Contents(rows') = Contents(rows) \cup StatedAt(pos)
    <3> DEFINE all == rows \o Numbered(cs, 1)
    <3>1. 1 \in Int /\ rows \in Seq(RowSet)
      BY <1>1, <2>1, AtItem
    <3>2. Contents(all) = Contents(rows) \cup ToSet(cs)
      BY <2>2, <3>1, NumberedRows
    <3>3. rows' = all
      BY <2>1
    <3> QED  BY <2>2, <3>2, <3>3
  <2> QED  BY <1>3, <2>1, <2>3
<1>14. CASE Rolebinding
  <2>1. Steps /\ pos <= Len(input) /\ source \in {"cfk", "k8s"} /\ Item.kind = "ConfluentRolebinding"
        /\ bindings' = bindings \cup {RolebindingOf(Item)} /\ noted' = noted /\ rows' = rows
    BY <1>14 DEF Rolebinding, Reads, IsRolebinding, Passes
  <2>2. StatedAt(pos) = {} /\ Contents(rows') = Contents(rows)
    BY <2>1, StatedBySource DEF Item
  <2>3. StatedAt(pos) \subseteq Contents(rows') /\ Contents(rows) \subseteq Contents(rows')
        /\ RolebindingOf(Item) \in bindings' /\ bindings \subseteq bindings' /\ noted \subseteq noted'
    BY <2>1, <2>2
  <2>4. source # "live"
    BY <2>1
  <2> QED  BY <1>1, <2>1, <2>3, <2>4, KeptItem
<1>15. CASE DocumentSkipped
  <2>1. Steps /\ pos <= Len(input) /\ source # "live" /\ rows' = rows /\ bindings' = bindings
    BY <1>15 DEF DocumentSkipped, Reads, Note, Passes
  <2>2. (noted' = noted /\ Item.kind = Empty) \/ Note
    BY <1>15 DEF DocumentSkipped, Passes
  <2> QED  BY <1>2, <2>1, <2>2 DEF Silent
<1>16. CASE LiveDescribe
  <2>1. Steps /\ pos <= Len(input) /\ source = "live" /\ bindings' = bindings /\ noted' = noted
    BY <1>16 DEF LiveDescribe, Reads
  <2>2. Contents(rows') = Contents(rows) \cup {a \in Described(kafka, Item) : Mappable(a)}
    BY <1>1, <1>16, AnswerStep
  <2>3. Described(always, Item) \subseteq Described(kafka, Item)
    BY <1>1 DEF ExtractInv, TypeOK, Described
  <2>4. {a \in Described(always, Item) : Mappable(a)} \subseteq Contents(rows')
        /\ Contents(rows) \subseteq Contents(rows')
    BY <2>2, <2>3
  <2> QED  BY <1>1, <2>1, <2>4, KeptItem
<1> QED
  BY <1>4, <1>5, <1>6, <1>7, <1>8, <1>9, <1>10, <1>11, <1>12, <1>13, <1>14, <1>15, <1>16 DEF Next

\* An ACL that was in Kafka all the time and is asked for has a row, unless filters on
\* principals miss its host.
LEMMA LiveKept ==
  ASSUME SourcesAssumption, ExtractAssumption, KeptInv, status = "written", NEW a \in LiveLost
  PROVE  asked.principals # <<>> /\ a.host # Star
<1>1. a \in always /\ Mappable(a) /\ Asked(a) /\ a \notin Contents(acls)
  BY DEF LiveLost
<1>2. ExtractInv
  BY DEF KeptInv
<1>3. source = "live" /\ a \in KafkaAcls
  BY <1>1, <1>2 DEF ExtractInv, TypeOK
<1>4. a \in Content /\ a.host # Empty
  BY <1>3 DEF ExtractAssumption
<1>5. /\ asked \in Filters /\ input = buildFilters(asked.principals, asked.topics)
      /\ asked.principals \in Seq(Principal) /\ asked.topics \in Seq(Name)
  BY <1>2, <1>3 DEF ExtractInv, Chosen, ExtractAssumption
<1>6. acls = rows /\ DOMAIN input = 1..(pos - 1)
  <2>1. acls = rows /\ pos = Len(input) + 1
    BY <1>2 DEF ExtractInv, AllOrNothing
  <2>2. Len(input) \in Nat /\ DOMAIN input = 1..Len(input)
    BY <1>2, InputTyped DEF ExtractInv
  <2> QED  BY <2>1, <2>2
<1>7. ASSUME asked.principals = <<>> \/ a.host = Star PROVE FALSE
  <2>1. PICK cell \in ToSet(input) : Meets(a, cell)
    <3>1. asked.principals = <<>> \/ (a.principal \in ToSet(asked.principals) /\ a.host = Star)
      BY <1>1, <1>7 DEF Asked
    <3>2. asked.topics = <<>> \/ (a.rtype = "Topic" /\ \E t \in ToSet(asked.topics) : Matches(a.pattern, t))
      BY <1>1 DEF Asked, WantedTopic
    <3> QED  BY <1>1, <1>4, <1>5, <3>1, <3>2, FiltersAsk
  <2>2. PICK i \in 1..(pos - 1) : cell = input[i]
    BY <1>6 DEF ToSet
  <2>3. a \in {b \in Described(always, input[i]) : Mappable(b)}
    BY <1>1, <2>1, <2>2 DEF Described, Meets
  <2>4. a \in Contents(rows)
    BY <1>3, <2>3 DEF KeptInv, AllDescribed
  <2> QED  BY <1>1, <1>6, <2>4
<1> QED  BY <1>7

\* Whatever an item states has a row in acls.json, or the log has a line for the item, but
\* for calls that are passed over; and no ACL that stays in Kafka is left out but for its host.
THEOREM NothingLostHolds ==
  ASSUME SourcesAssumption, ExtractAssumption
  PROVE  Spec => []NothingLost
<1>1. Init => KeptInv
  <2> SUFFICES ASSUME Init PROVE KeptInv
    OBVIOUS
  <2>1. ExtractInv
    BY ExtractInit
  <2>2. 1..(pos - 1) = {}
    BY DEF Init
  <2> QED  BY <2>1, <2>2 DEF KeptInv, AllKept, AllDescribed
<1>2. KeptInv /\ [Next]_vars => KeptInv'
  BY KeptStep
<1>3. ASSUME KeptInv PROVE NothingLost
  <2> SUFFICES ASSUME status = "written" PROVE NothingLost
    BY DEF NothingLost
  <2>1. acls = rows /\ DOMAIN input = 1..(pos - 1)
    <3>1. acls = rows /\ pos = Len(input) + 1
      BY <1>3 DEF KeptInv, ExtractInv, AllOrNothing
    <3>2. Len(input) \in Nat /\ DOMAIN input = 1..Len(input)
      BY <1>3, InputTyped DEF KeptInv, ExtractInv
    <3> QED  BY <3>1, <3>2
  <2>2. \A i \in DOMAIN input :
          source # "live" /\ i \notin noted /\ ~(Silent(input[i]) \/ PassedOver(input[i])) =>
            /\ StatedAt(i) \subseteq Contents(acls)
            /\ IF source \in {"cfk", "k8s"} /\ input[i].kind = "ConfluentRolebinding"
                 THEN RolebindingOf(input[i]) \in bindings
                 ELSE source = "text" => StatedAt(i) # {}
    BY <1>3, <2>1 DEF KeptInv, AllKept, Kept
  <2>3. \A a \in LiveLost : asked.principals # <<>> /\ a.host # Star
    BY <1>3, LiveKept
  <2> QED  BY <2>2, <2>3 DEF NothingLost
<1> QED  BY <1>1, <1>2, <1>3, PTL DEF Spec

-----------------------------------------------------------------------------
(* What rollback.sh and rollback-deny.sh make of the rows they restore *)

\* Of parts that are empty but for one, the flattened sequence is that one.
LEMMA FlattenSole ==
  ASSUME NEW S, NEW n \in Nat, NEW ss \in [1..n -> Seq(S)], NEW k \in 1..n,
         \A i \in 1..n : i # k => ss[i] = <<>>
  PROVE  FlattenSeq(ss) = ss[k]
<1> DEFINE f == Flat(ss)
           Sole(j) == f[j] = IF j < k THEN <<>> ELSE ss[k]
           T == {j \in Nat : j \in 1..n => Sole(j)}
<1>1. ss \in Seq(Seq(S)) /\ Len(ss) = n
  BY SeqDef
<1>2. \A i \in 1..n : f[i] = IF i = 1 THEN ss[i] ELSE f[i-1] \o ss[i]
  <2> HIDE DEF f
  <2>1. f = [i \in 1..n |-> IF i = 1 THEN ss[i] ELSE f[i-1] \o ss[i]]
    BY <1>1, FlatUnfolds DEF f
  <2> QED  BY <2>1
<1> HIDE DEF f
<1>3. 0 \in T
  OBVIOUS
<1>4. ASSUME NEW j \in Nat, j \in T PROVE j + 1 \in T
  <2> SUFFICES ASSUME j + 1 \in 1..n PROVE Sole(j + 1)
    OBVIOUS
  <2>1. CASE j = 0
    <3>1. f[1] = ss[1]
      BY <1>2, <2>1
    <3> QED  BY <2>1, <3>1
  <2>2. CASE j # 0
    <3>1. Sole(j)
      BY <1>4, <2>2
    <3>2. f[j + 1] = f[j] \o ss[j + 1]
      <4>1. j + 1 # 1 /\ (j + 1) - 1 = j
        BY <2>2
      <4>2. f[j + 1] = IF j + 1 = 1 THEN ss[j + 1] ELSE f[(j + 1) - 1] \o ss[j + 1]
        BY <1>2
      <4> QED  BY <4>1, <4>2
    <3>3. CASE j + 1 < k
      <4>1. f[j] = <<>> /\ ss[j + 1] = <<>>
        BY <3>1, <3>3
      <4> QED  BY <3>2, <3>3, <4>1
    <3>4. CASE j + 1 = k
      <4>1. f[j] = <<>> /\ ss[k] \in Seq(S)
        BY <3>1, <3>4
      <4>2. <<>> \o ss[k] = ss[k]
        BY <4>1, ConcatEmptySeq
      <4> QED  BY <3>2, <3>4, <4>1, <4>2
    <3>5. CASE j + 1 > k
      <4>1. f[j] = ss[k] /\ ss[j + 1] = <<>> /\ ss[k] \in Seq(S)
        BY <3>1, <3>5
      <4>2. ss[k] \o <<>> = ss[k]
        BY <4>1, ConcatEmptySeq
      <4> QED  BY <3>2, <3>5, <4>1, <4>2
    <3> QED  BY <3>3, <3>4, <3>5
  <2> QED  BY <2>1, <2>2
<1>5. n \in T
  <2> HIDE DEF T
  <2> QED  BY <1>3, <1>4, SetInduction
<1>6. FlattenSeq(ss) = f[n]
  BY <1>1, FlattenIsFlat DEF f
<1> QED  BY <1>5, <1>6

\* Of no parts, or of empty ones, nothing.
LEMMA FlattenNone ==
  ASSUME NEW S, NEW n \in Nat, NEW ss \in [1..n -> Seq(S)], \A i \in 1..n : ss[i] = <<>>
  PROVE  FlattenSeq(ss) = <<>>
<1>1. /\ FlattenSeq(ss) \in Seq(S)
      /\ \A x : x \in ToSet(FlattenSeq(ss)) <=> \E i \in 1..n : x \in ToSet(ss[i])
  BY FlattenRange
<1>2. ToSet(FlattenSeq(ss)) = {}
  BY <1>1, EmptyTuple
<1> QED  BY <1>1, <1>2, SeqListed

\* The option with one of the flags, if no other has one of them.
Sole(options, flags, k) ==
  /\ k \in DOMAIN options
  /\ \A i \in DOMAIN options : options[i].flag \in flags <=> i = k

None(options, flags) == \A i \in DOMAIN options : options[i].flag \notin flags

\* Then its value is the only one of these flags.
LEMMA SoleValue ==
  ASSUME NEW options, Listed(options), NEW flags, NEW k, Sole(options, flags, k)
  PROVE  Values(options, flags) = <<options[k].value>>
<1> DEFINE S == {options[k].value}
           ss == [i \in DOMAIN options |-> IF options[i].flag \in flags THEN <<options[i].value>> ELSE <<>>]
           n == Len(options)
<1>1. n \in Nat /\ DOMAIN options = 1..n
  BY LenProperties DEF Listed
<1>2. k \in 1..n /\ ss \in [1..n -> Seq(S)] /\ ss[k] = <<options[k].value>>
  <2>1. <<options[k].value>> \in Seq(S) /\ <<>> \in Seq(S)
    BY OneTuple, EmptyTuple
  <2>2. \A i \in 1..n : IF options[i].flag \in flags THEN i = k ELSE i # k
    BY <1>1 DEF Sole
  <2> QED  BY <1>1, <2>1, <2>2 DEF Sole
<1>3. \A i \in 1..n : i # k => ss[i] = <<>>
  BY <1>1 DEF Sole
<1>4. Values(options, flags) = FlattenSeq(ss)
  BY DEF Values, ForEach
<1> HIDE DEF ss
<1> QED  BY <1>1, <1>2, <1>3, <1>4, FlattenSole

\* Without such an option there is no value.
LEMMA NoValue ==
  ASSUME NEW options, Listed(options), NEW flags, None(options, flags)
  PROVE  Values(options, flags) = <<>>
<1> DEFINE ss == [i \in DOMAIN options |-> IF options[i].flag \in flags THEN <<options[i].value>> ELSE <<>>]
           n == Len(options)
<1>1. n \in Nat /\ DOMAIN options = 1..n
  BY LenProperties DEF Listed
<1>2. ss \in [1..n -> Seq({})] /\ \A i \in 1..n : ss[i] = <<>>
  BY <1>1, EmptyTuple DEF None
<1>3. Values(options, flags) = FlattenSeq(ss)
  BY DEF Values, ForEach
<1> HIDE DEF ss
<1> QED  BY <1>1, <1>2, <1>3, FlattenNone

\* The only sub-action is the one that counts.
LEMMA SoleSubAction ==
  ASSUME NEW options, Listed(options), NEW k, Sole(options, SubActions, k)
  PROVE  subAction(options) = options[k].flag
<1> DEFINE S == {options[k].flag}
           ss == [i \in DOMAIN options |-> IF options[i].flag \in SubActions THEN <<options[i].flag>> ELSE <<>>]
           n == Len(options)
           mine == FlattenSeq(ss)
<1>1. n \in Nat /\ DOMAIN options = 1..n
  BY LenProperties DEF Listed
<1>2. k \in 1..n /\ ss \in [1..n -> Seq(S)] /\ ss[k] = <<options[k].flag>>
  <2>1. <<options[k].flag>> \in Seq(S) /\ <<>> \in Seq(S)
    BY OneTuple, EmptyTuple
  <2>2. \A i \in 1..n : IF options[i].flag \in SubActions THEN i = k ELSE i # k
    BY <1>1 DEF Sole
  <2> QED  BY <1>1, <2>1, <2>2 DEF Sole
<1>3. \A i \in 1..n : i # k => ss[i] = <<>>
  BY <1>1 DEF Sole
<1>4. subAction(options) = IF mine = <<>> THEN Empty ELSE Last(mine)
  BY DEF subAction, ForEach
<1> HIDE DEF ss
<1>5. mine = <<options[k].flag>>
  BY <1>1, <1>2, <1>3, FlattenSole
<1> QED  BY <1>4, <1>5 DEF Last

\* The only resource option gives the only resource.
LEMMA SoleResource ==
  ASSUME NEW options, Listed(options), NEW k, Sole(options, DOMAIN ResourceFlags, k)
  PROVE  resources(options) = <<resourceRef(options[k])>>
<1> DEFINE S == {resourceRef(options[k])}
           ss == [i \in DOMAIN options |->
                    IF options[i].flag \in DOMAIN ResourceFlags THEN <<resourceRef(options[i])>> ELSE <<>>]
           n == Len(options)
<1>1. n \in Nat /\ DOMAIN options = 1..n
  BY LenProperties DEF Listed
<1>2. k \in 1..n /\ ss \in [1..n -> Seq(S)] /\ ss[k] = <<resourceRef(options[k])>>
  <2>1. <<resourceRef(options[k])>> \in Seq(S) /\ <<>> \in Seq(S)
    BY OneTuple, EmptyTuple
  <2>2. \A i \in 1..n : IF options[i].flag \in DOMAIN ResourceFlags THEN i = k ELSE i # k
    BY <1>1 DEF Sole
  <2> QED  BY <1>1, <2>1, <2>2 DEF Sole
<1>3. \A i \in 1..n : i # k => ss[i] = <<>>
  BY <1>1 DEF Sole
<1>4. resources(options) = FlattenSeq(ss)
  BY DEF resources, ForEach
<1> HIDE DEF ss
<1> QED  BY <1>1, <1>2, <1>3, <1>4, FlattenSole

\* Of one --operation on one resource the matrix has one pair.
LEMMA SoleMatrix ==
  ASSUME NEW options, {"--producer", "--consumer"} \cap Flags(options) = {},
         NEW op, Values(options, {"--operation"}) = <<op>>,
         NEW ref, resources(options) = <<ref>>
  PROVE  matrix(options) = <<OpRes(normalizeOp(op), ref)>>
<1> DEFINE m == OpRes(normalizeOp(op), ref)
           R(w) == [i \in DOMAIN <<ref>> |-> OpRes(normalizeOp(w), <<ref>>[i])]
           ss == [i \in DOMAIN <<op>> |-> R(<<op>>[i])]
<1>1. matrix(options) = FlattenSeq(ss)
  BY DEF matrix, ForEach
<1>2. DOMAIN <<ref>> = 1..1 /\ <<ref>>[1] = ref
  OBVIOUS
<1>3. R(op) = <<m>>
  <2> HIDE DEF m
  <2>1. R(op) = [i \in 1..1 |-> m]
    BY <1>2 DEF m
  <2> QED  BY <2>1
<1> HIDE DEF R
<1>4. ss = <<<<m>>>>
  <2>1. DOMAIN <<op>> = 1..1 /\ <<op>>[1] = op
    OBVIOUS
  <2>2. ss = [i \in 1..1 |-> <<m>>]
    BY <1>3, <2>1
  <2> QED  BY <2>2
<1>5. <<m>> \in Seq({m})
  BY OneTuple
<1> QED  BY <1>1, <1>4, <1>5, FlattenOne

\* The only principal, host and pair of a call.
Alone(options, pf, hf, p, h, m) ==
  /\ Values(options, {pf}) = <<p>> /\ OrElse(Values(options, {hf}), <<Star>>) = <<h>>
  /\ matrix(options) = <<m>>

\* Of one principal on one host, and one pair, there is one row.
LEMMA SolePermission ==
  ASSUME NEW options, NEW perm, NEW pf, NEW hf, NEW p, NEW h, NEW m, Alone(options, pf, hf, p, h, m)
  PROVE  PermissionRows(options, perm, pf, hf) =
           <<ContentOf(p, h, m.res.rtype, patternType(options), m.res.name, perm, m.op)>>
<1> DEFINE pt == patternType(options)
           ps == Values(options, {pf})
           hs == OrElse(Values(options, {hf}), <<Star>>)
           ms == matrix(options)
           C(q, g, a) == ContentOf(q, g, a.res.rtype, pt, a.res.name, perm, a.op)
           R(q, g) == FlattenSeq([k \in DOMAIN ms |-> <<C(q, g, ms[k])>>])
           Q(q) == FlattenSeq([j \in DOMAIN hs |-> R(q, hs[j])])
           c == C(p, h, m)
<1>1. PermissionRows(options, perm, pf, hf) = FlattenSeq([i \in DOMAIN ps |-> Q(ps[i])])
  BY DEF PermissionRows, ForEach
<1>2. <<c>> \in Seq({c})
  BY OneTuple
<1>3. ps = <<p>> /\ hs = <<h>> /\ ms = <<m>>
  BY DEF Alone
<1> HIDE DEF ps, hs, ms
<1>4. R(p, h) = <<c>>
  <2> HIDE DEF C
  <2>1. [k \in DOMAIN ms |-> <<C(p, h, ms[k])>>] = [k \in 1..1 |-> <<C(p, h, m)>>]
    BY <1>3
  <2>2. [k \in 1..1 |-> <<C(p, h, m)>>] = <<<<c>>>>
    OBVIOUS
  <2> HIDE DEF c
  <2>3. FlattenSeq(<<<<c>>>>) = <<c>>
    BY <1>2, FlattenOne
  <2> QED  BY <2>1, <2>2, <2>3
<1> HIDE DEF c, R
<1>5. Q(p) = <<c>>
  <2>1. [j \in DOMAIN hs |-> R(p, hs[j])] = [j \in 1..1 |-> R(p, h)]
    BY <1>3
  <2>2. [j \in 1..1 |-> R(p, h)] = <<<<c>>>>
    BY <1>4
  <2>3. FlattenSeq(<<<<c>>>>) = <<c>>
    BY <1>2, FlattenOne
  <2> QED  BY <2>1, <2>2, <2>3
<1> HIDE DEF Q
<1>6. FlattenSeq([i \in DOMAIN ps |-> Q(ps[i])]) = <<c>>
  <2>1. [i \in DOMAIN ps |-> Q(ps[i])] = [i \in 1..1 |-> Q(p)]
    BY <1>3
  <2>2. [i \in 1..1 |-> Q(p)] = <<<<c>>>>
    BY <1>5
  <2>3. FlattenSeq(<<<<c>>>>) = <<c>>
    BY <1>2, FlattenOne
  <2> QED  BY <2>1, <2>2, <2>3
<1> QED  BY <1>1, <1>6 DEF c

\* Of no principal there is none.
LEMMA NoPermission ==
  ASSUME NEW options, NEW perm, NEW pf, NEW hf, Values(options, {pf}) = <<>>
  PROVE  PermissionRows(options, perm, pf, hf) = <<>>
<1> DEFINE pt == patternType(options)
           ps == Values(options, {pf})
           hs == OrElse(Values(options, {hf}), <<Star>>)
           ms == matrix(options)
           C(q, g, a) == ContentOf(q, g, a.res.rtype, pt, a.res.name, perm, a.op)
           R(q, g) == FlattenSeq([k \in DOMAIN ms |-> <<C(q, g, ms[k])>>])
           Q(q) == FlattenSeq([j \in DOMAIN hs |-> R(q, hs[j])])
           ss == [i \in DOMAIN ps |-> Q(ps[i])]
<1>1. PermissionRows(options, perm, pf, hf) = FlattenSeq(ss)
  BY DEF PermissionRows, ForEach
<1>2. ps = <<>>
  OBVIOUS
<1> HIDE DEF ps, Q
<1>3. ss \in [1..0 -> Seq({})] /\ \A i \in 1..0 : ss[i] = <<>>
  BY <1>2
<1> HIDE DEF ss
<1> QED  BY <1>1, <1>3, FlattenNone

\* The words of a row, written in a script, are read back as they were.
LEMMA RowWords ==
  ASSUME SourcesAssumption
  PROVE  /\ \A op \in Op : normalizeOp(op) = op
         /\ Upper["LITERAL"] = "LITERAL" /\ Upper["PREFIXED"] = "PREFIXED"
<1>1. \A w \in DOMAIN Capitals : Upper[w] = Capitals[w]
  BY DEF SourcesAssumption
<1>2. Op = {"Read", "Write", "Create", "Delete", "Alter", "Describe", "All", "ClusterAction",
            "DescribeConfigs", "AlterConfigs", "IdempotentWrite"}
  <2>1. ConcreteOp = AllImpliedOps["Cluster"] \cup AllImpliedOps["Topic"] \cup AllImpliedOps["Group"]
          \cup AllImpliedOps["TransactionalId"] \cup AllImpliedOps["DelegationToken"] \cup AllImpliedOps["Subject"]
    BY DEF ConcreteOp, ResourceType
  <2> QED  BY <2>1 DEF Op, AllImpliedOps, ResourceType
<1>3. /\ Upper["LITERAL"] = "LITERAL" /\ Upper["PREFIXED"] = "PREFIXED"
      /\ Upper["Read"] = "READ" /\ Upper["Write"] = "WRITE" /\ Upper["Create"] = "CREATE"
      /\ Upper["Delete"] = "DELETE" /\ Upper["Alter"] = "ALTER" /\ Upper["Describe"] = "DESCRIBE"
      /\ Upper["All"] = "ALL"
      /\ Upper["ClusterAction"] = "CLUSTERACTION" /\ Upper["DescribeConfigs"] = "DESCRIBECONFIGS"
      /\ Upper["AlterConfigs"] = "ALTERCONFIGS" /\ Upper["IdempotentWrite"] = "IDEMPOTENTWRITE"
  BY <1>1 DEF Capitals
<1>4. ASSUME NEW op \in {"Read", "Write", "Create", "Delete", "Alter", "Describe", "All"}
      PROVE  normalizeOp(op) = op
  BY <1>3 DEF normalizeOp, NormalOp, OneWordOps
<1>5. ASSUME NEW op \in {"DescribeConfigs", "AlterConfigs", "IdempotentWrite"}
      PROVE  normalizeOp(op) = op
  BY <1>3 DEF normalizeOp, NormalOp, OneWordOps, Normal
<1>6. normalizeOp("ClusterAction") = "ClusterAction"
  BY <1>3 DEF normalizeOp, NormalOp, OneWordOps, Normal
<1> QED  BY <1>2, <1>3, <1>4, <1>5, <1>6

\* Rows that kafka-acls can be given: of a type it has a flag for.
Restorable(r) ==
  r \in Row /\ r.rtype # "Subject" /\ (r.rtype = "Cluster" => r.pattern.name = ClusterName)

FlagOf(r) == CHOOSE f \in DOMAIN ResourceFlags : ResourceFlags[f] = r.rtype

RefOf(r) == [rtype |-> r.rtype, name |-> r.pattern.name]

\* The flag of a row's resource type, with its name, is read back as the resource.
LEMMA RowFlag ==
  ASSUME NEW r, Restorable(r)
  PROVE  /\ FlagOf(r) \in DOMAIN ResourceFlags /\ ResourceFlags[FlagOf(r)] = r.rtype
         /\ resourceRef(Option(FlagOf(r), r.pattern.name)) = RefOf(r)
<1>1. r.rtype \in {"Cluster", "Topic", "Group", "TransactionalId", "DelegationToken"}
  BY DEF Restorable, Row, ResourceType
<1>2. \E f \in DOMAIN ResourceFlags : ResourceFlags[f] = r.rtype
  BY <1>1, FlagsOfResources
<1>3. FlagOf(r) \in DOMAIN ResourceFlags /\ ResourceFlags[FlagOf(r)] = r.rtype
  BY <1>2 DEF FlagOf
<1>4. FlagOf(r) = "--cluster" => r.pattern.name = ClusterName
  BY <1>3, FlagsOfResources DEF Restorable
<1> QED  BY <1>3, <1>4 DEF resourceRef, Option, RefOf

\* A row is its principal, host, permission, operation and resource.
LEMMA RowContent ==
  ASSUME NEW r \in Row
  PROVE  ContentOf(r.principal, r.host, r.rtype, r.pattern.ptype, r.pattern.name, r.perm, r.op) = r
<1>1. r.pattern = [ptype |-> r.pattern.ptype, name |-> r.pattern.name]
  BY DEF Row, Pattern
<1>2. r = [principal |-> r.principal, host |-> r.host, rtype |-> r.rtype,
           pattern |-> r.pattern, perm |-> r.perm, op |-> r.op]
  BY DEF Row
<1> QED  BY <1>1, <1>2 DEF ContentOf

\* Options are put together in parts of two or three, two, and one.
LEMMA TwoOne ==
  ASSUME NEW S, NEW d \in S, NEW e \in S, NEW g \in S
  PROVE  /\ <<d, e>> \o <<g>> \in Seq(S) /\ Len(<<d, e>> \o <<g>>) = 3
         /\ (<<d, e>> \o <<g>>)[1] = d /\ (<<d, e>> \o <<g>>)[2] = e /\ (<<d, e>> \o <<g>>)[3] = g
<1> DEFINE s == <<d, e>>
           t == <<g>>
<1>1. s \in Seq(S) /\ t \in Seq(S) /\ Len(s) = 2 /\ Len(t) = 1 /\ s[1] = d /\ s[2] = e /\ t[1] = g
  OBVIOUS
<1> HIDE DEF s, t
<1>2. /\ s \o t \in Seq(S) /\ Len(s \o t) = Len(s) + Len(t)
      /\ \A i \in 1..(Len(s) + Len(t)) : (s \o t)[i] = IF i <= Len(s) THEN s[i] ELSE t[i - Len(s)]
  BY <1>1, ConcatProperties
<1>3. s \o t \in Seq(S) /\ Len(s \o t) = 3 /\ (s \o t)[1] = d /\ (s \o t)[2] = e /\ (s \o t)[3] = g
  BY <1>1, <1>2
<1> QED  BY <1>3 DEF s, t

\* The options of a line of rollback.sh, put together.
LEMMA TwoTwoOne ==
  ASSUME NEW a, NEW b, NEW d, NEW e, NEW g
  PROVE  <<a, b>> \o (<<d, e>> \o <<g>>) = <<a, b, d, e, g>>
<1> DEFINE S == {a, b, d, e, g}
           s == <<a, b>>
           t == <<d, e>> \o <<g>>
           u == s \o t
           v == <<a, b, d, e, g>>
<1>1. s \in Seq(S) /\ Len(s) = 2 /\ s[1] = a /\ s[2] = b
  OBVIOUS
<1>2. d \in S /\ e \in S /\ g \in S
  OBVIOUS
<1>3. v \in Seq(S) /\ Len(v) = 5 /\ v[1] = a /\ v[2] = b /\ v[3] = d /\ v[4] = e /\ v[5] = g
  OBVIOUS
<1> HIDE DEF S, v
<1>4. t \in Seq(S) /\ Len(t) = 3 /\ t[1] = d /\ t[2] = e /\ t[3] = g
  BY <1>2, TwoOne
<1> HIDE DEF s, t
<1>5. /\ u \in Seq(S) /\ Len(u) = Len(s) + Len(t)
      /\ \A i \in 1..(Len(s) + Len(t)) : u[i] = IF i <= Len(s) THEN s[i] ELSE t[i - Len(s)]
  BY <1>1, <1>4, ConcatProperties
<1> HIDE DEF u
<1>6. Len(u) = 5 /\ u[1] = a /\ u[2] = b /\ u[3] = d /\ u[4] = e /\ u[5] = g
  BY <1>1, <1>4, <1>5
<1>7. \A i \in 1..5 : u[i] = v[i]
  <2>1. 1..5 = {1, 2, 3, 4, 5}
    OBVIOUS
  <2> QED  BY <1>3, <1>6, <2>1
<1>8. u = v
  BY <1>3, <1>5, <1>6, <1>7, SeqEqual
<1> QED  BY <1>8 DEF u, v, s, t

\* The options of a line of rollback-deny.sh, put together.
LEMMA ThreeTwoOne ==
  ASSUME NEW a, NEW b, NEW c, NEW d, NEW e, NEW g
  PROVE  <<a, b, c>> \o (<<d, e>> \o <<g>>) = <<a, b, c, d, e, g>>
<1> DEFINE S == {a, b, c, d, e, g}
           s == <<a, b, c>>
           t == <<d, e>> \o <<g>>
           u == s \o t
           v == <<a, b, c, d, e, g>>
<1>1. s \in Seq(S) /\ Len(s) = 3 /\ s[1] = a /\ s[2] = b /\ s[3] = c
  OBVIOUS
<1>2. d \in S /\ e \in S /\ g \in S
  OBVIOUS
<1>3. v \in Seq(S) /\ Len(v) = 6 /\ v[1] = a /\ v[2] = b /\ v[3] = c /\ v[4] = d /\ v[5] = e /\ v[6] = g
  OBVIOUS
<1> HIDE DEF S, v
<1>4. t \in Seq(S) /\ Len(t) = 3 /\ t[1] = d /\ t[2] = e /\ t[3] = g
  BY <1>2, TwoOne
<1> HIDE DEF s, t
<1>5. /\ u \in Seq(S) /\ Len(u) = Len(s) + Len(t)
      /\ \A i \in 1..(Len(s) + Len(t)) : u[i] = IF i <= Len(s) THEN s[i] ELSE t[i - Len(s)]
  BY <1>1, <1>4, ConcatProperties
<1> HIDE DEF u
<1>6. Len(u) = 6 /\ u[1] = a /\ u[2] = b /\ u[3] = c /\ u[4] = d /\ u[5] = e /\ u[6] = g
  BY <1>1, <1>4, <1>5
<1>7. \A i \in 1..6 : u[i] = v[i]
  <2>1. 1..6 = {1, 2, 3, 4, 5, 6}
    OBVIOUS
  <2> QED  BY <1>3, <1>6, <2>1
<1>8. u = v
  BY <1>3, <1>5, <1>6, <1>7, SeqEqual
<1> QED  BY <1>8 DEF u, v, s, t

\* A line of rollback.sh adds the row it was made of, if that was for all hosts.
LEMMA AddRestores ==
  ASSUME SourcesAssumption, NEW r, Restorable(r), r.perm = "Allow", r.host = Star
  PROVE  Adds(writeAdd(r), r)
<1> DEFINE os == writeAdd(r)
           f == FlagOf(r)
<1>1. os = <<Option("--add", Empty), Option("--allow-principal", r.principal),
             Option("--operation", r.op), Option("--resource-pattern-type", r.pattern.ptype),
             Option(f, r.pattern.name)>>
  <2> DEFINE a == Option("--add", Empty)  b == Option("--allow-principal", r.principal)
             d == Option("--operation", r.op)
             e == Option("--resource-pattern-type", r.pattern.ptype)  g == Option(f, r.pattern.name)
  <2>1. os = <<a, b>> \o (<<d, e>> \o <<g>>)
    BY DEF writeAdd, RowOptions, Restorable, FlagOf
  <2> HIDE DEF a, b, d, e, g
  <2>2. <<a, b>> \o (<<d, e>> \o <<g>>) = <<a, b, d, e, g>>
    BY TwoTwoOne
  <2> HIDE DEF os
  <2>3. os = <<a, b, d, e, g>>
    BY <2>1, <2>2
  <2> QED  BY <2>3 DEF a, b, d, e, g
<1>2. /\ DOMAIN os = 1..5
      /\ os[1].flag = "--add" /\ os[2].flag = "--allow-principal" /\ os[3].flag = "--operation"
      /\ os[4].flag = "--resource-pattern-type" /\ os[5].flag = f
      /\ os[2].value = r.principal /\ os[3].value = r.op /\ os[4].value = r.pattern.ptype
      /\ os[5] = Option(f, r.pattern.name)
  BY <1>1 DEF Option
<1>3. Listed(os)
  <2> DEFINE S == {Option("--add", Empty), Option("--allow-principal", r.principal),
             Option("--operation", r.op), Option("--resource-pattern-type", r.pattern.ptype),
             Option(f, r.pattern.name)}
  <2>1. os \in Seq(S)
    BY <1>1
  <2> QED  BY <2>1, SeqListed
<1> HIDE DEF os, f
<1>4. f \in {"--topic", "--group", "--cluster", "--transactional-id", "--delegation-token"}
      /\ resourceRef(os[5]) = RefOf(r)
  BY <1>2, RowFlag, FlagsOfResources DEF f
<1>5. DOMAIN os = {1, 2, 3, 4, 5}
  BY <1>2
<1>6. /\ Values(os, {"--allow-principal"}) = <<r.principal>>
      /\ Values(os, {"--operation"}) = <<r.op>>
      /\ Values(os, {"--resource-pattern-type"}) = <<r.pattern.ptype>>
  <2>1. /\ Sole(os, {"--allow-principal"}, 2) /\ Sole(os, {"--operation"}, 3)
        /\ Sole(os, {"--resource-pattern-type"}, 4)
    BY <1>2, <1>4, <1>5 DEF Sole
  <2> QED  BY <1>2, <1>3, <2>1, SoleValue
<1>7. Values(os, {"--allow-host"}) = <<>> /\ Values(os, {"--deny-principal"}) = <<>>
  <2>1. None(os, {"--allow-host"}) /\ None(os, {"--deny-principal"})
    BY <1>2, <1>4, <1>5 DEF None
  <2> QED  BY <1>3, <2>1, NoValue
<1>8. resources(os) = <<RefOf(r)>>
  <2>1. Sole(os, DOMAIN ResourceFlags, 5)
    BY <1>2, <1>4, <1>5, FlagsOfResources DEF Sole
  <2> QED  BY <1>3, <1>4, <2>1, SoleResource
<1>9. matrix(os) = <<OpRes(r.op, RefOf(r))>>
  <2>1. {"--producer", "--consumer"} \cap Flags(os) = {}
    BY <1>2, <1>4, <1>5 DEF Flags
  <2>2. normalizeOp(r.op) = r.op
    BY RowWords DEF Restorable, Row
  <2> QED  BY <1>6, <1>8, <2>1, <2>2, SoleMatrix
<1>10. patternType(os) = r.pattern.ptype
  <2>1. Upper[r.pattern.ptype] = r.pattern.ptype
    BY RowWords DEF Restorable, Row, Pattern
  <2> QED  BY <1>6, <2>1 DEF patternType, Last
<1>11. PermissionRows(os, "Allow", "--allow-principal", "--allow-host") = <<r>>
  <2>1. OrElse(Values(os, {"--allow-host"}), <<Star>>) = <<r.host>>
    BY <1>7 DEF OrElse
  <2> DEFINE m == OpRes(r.op, RefOf(r))
  <2>2. m.res.rtype = r.rtype /\ m.res.name = r.pattern.name /\ m.op = r.op
    BY DEF OpRes, RefOf
  <2>3. Alone(os, "--allow-principal", "--allow-host", r.principal, r.host, m)
    BY <1>6, <1>9, <2>1 DEF Alone
  <2> HIDE DEF m
  <2>4. PermissionRows(os, "Allow", "--allow-principal", "--allow-host") =
          <<ContentOf(r.principal, r.host, m.res.rtype, patternType(os), m.res.name, "Allow", m.op)>>
    BY <2>3, SolePermission
  <2> QED  BY <1>10, <2>2, <2>4, RowContent DEF Restorable
<1>12. PermissionRows(os, "Deny", "--deny-principal", "--deny-host") = <<>>
  BY <1>7, NoPermission
<1>13. <<r>> \o <<>> = <<r>>
  OBVIOUS
<1>14. subAction(os) = "--add"
  <2>1. Sole(os, SubActions, 1)
    BY <1>2, <1>4, <1>5 DEF Sole, SubActions
  <2> QED  BY <1>2, <1>3, <2>1, SoleSubAction
<1> QED  BY <1>11, <1>12, <1>13, <1>14 DEF expand, os, Adds

\* A line of rollback-deny.sh adds the row it was made of, on its host.
LEMMA AddDenyRestores ==
  ASSUME SourcesAssumption, NEW r, Restorable(r), r.perm = "Deny"
  PROVE  Adds(writeAddDeny(r), r)
<1> DEFINE os == writeAddDeny(r)
           f == FlagOf(r)
<1>1. os = <<Option("--add", Empty), Option("--deny-principal", r.principal),
             Option("--deny-host", r.host), Option("--operation", r.op),
             Option("--resource-pattern-type", r.pattern.ptype), Option(f, r.pattern.name)>>
  <2> DEFINE a == Option("--add", Empty)  b == Option("--deny-principal", r.principal)
             c == Option("--deny-host", r.host)  d == Option("--operation", r.op)
             e == Option("--resource-pattern-type", r.pattern.ptype)  g == Option(f, r.pattern.name)
  <2>1. os = <<a, b, c>> \o (<<d, e>> \o <<g>>)
    BY DEF writeAddDeny, RowOptions, Restorable, FlagOf
  <2> HIDE DEF a, b, c, d, e, g
  <2>2. <<a, b, c>> \o (<<d, e>> \o <<g>>) = <<a, b, c, d, e, g>>
    BY ThreeTwoOne
  <2> HIDE DEF os
  <2>3. os = <<a, b, c, d, e, g>>
    BY <2>1, <2>2
  <2> QED  BY <2>3 DEF a, b, c, d, e, g
<1>2. /\ DOMAIN os = 1..6
      /\ os[1].flag = "--add" /\ os[2].flag = "--deny-principal" /\ os[3].flag = "--deny-host"
      /\ os[4].flag = "--operation" /\ os[5].flag = "--resource-pattern-type" /\ os[6].flag = f
      /\ os[2].value = r.principal /\ os[3].value = r.host /\ os[4].value = r.op
      /\ os[5].value = r.pattern.ptype /\ os[6] = Option(f, r.pattern.name)
  BY <1>1 DEF Option
<1>3. Listed(os)
  <2> DEFINE S == {Option("--add", Empty), Option("--deny-principal", r.principal),
             Option("--deny-host", r.host), Option("--operation", r.op),
             Option("--resource-pattern-type", r.pattern.ptype), Option(f, r.pattern.name)}
  <2>1. os \in Seq(S)
    BY <1>1
  <2> QED  BY <2>1, SeqListed
<1> HIDE DEF os, f
<1>4. f \in {"--topic", "--group", "--cluster", "--transactional-id", "--delegation-token"}
      /\ resourceRef(os[6]) = RefOf(r)
  BY <1>2, RowFlag, FlagsOfResources DEF f
<1>5. DOMAIN os = {1, 2, 3, 4, 5, 6}
  BY <1>2
<1>6. /\ Values(os, {"--deny-principal"}) = <<r.principal>> /\ Values(os, {"--deny-host"}) = <<r.host>>
      /\ Values(os, {"--operation"}) = <<r.op>>
      /\ Values(os, {"--resource-pattern-type"}) = <<r.pattern.ptype>>
  <2>1. /\ Sole(os, {"--deny-principal"}, 2) /\ Sole(os, {"--deny-host"}, 3)
        /\ Sole(os, {"--operation"}, 4) /\ Sole(os, {"--resource-pattern-type"}, 5)
    BY <1>2, <1>4, <1>5 DEF Sole
  <2> QED  BY <1>2, <1>3, <2>1, SoleValue
<1>7. Values(os, {"--allow-principal"}) = <<>>
  <2>1. None(os, {"--allow-principal"})
    BY <1>2, <1>4, <1>5 DEF None
  <2> QED  BY <1>3, <2>1, NoValue
<1>8. resources(os) = <<RefOf(r)>>
  <2>1. Sole(os, DOMAIN ResourceFlags, 6)
    BY <1>2, <1>4, <1>5, FlagsOfResources DEF Sole
  <2> QED  BY <1>3, <1>4, <2>1, SoleResource
<1>9. matrix(os) = <<OpRes(r.op, RefOf(r))>>
  <2>1. {"--producer", "--consumer"} \cap Flags(os) = {}
    BY <1>2, <1>4, <1>5 DEF Flags
  <2>2. normalizeOp(r.op) = r.op
    BY RowWords DEF Restorable, Row
  <2> QED  BY <1>6, <1>8, <2>1, <2>2, SoleMatrix
<1>10. patternType(os) = r.pattern.ptype
  <2>1. Upper[r.pattern.ptype] = r.pattern.ptype
    BY RowWords DEF Restorable, Row, Pattern
  <2> QED  BY <1>6, <2>1 DEF patternType, Last
<1>11. PermissionRows(os, "Deny", "--deny-principal", "--deny-host") = <<r>>
  <2>1. OrElse(Values(os, {"--deny-host"}), <<Star>>) = <<r.host>>
    BY <1>6 DEF OrElse
  <2> DEFINE m == OpRes(r.op, RefOf(r))
  <2>2. m.res.rtype = r.rtype /\ m.res.name = r.pattern.name /\ m.op = r.op
    BY DEF OpRes, RefOf
  <2>3. Alone(os, "--deny-principal", "--deny-host", r.principal, r.host, m)
    BY <1>6, <1>9, <2>1 DEF Alone
  <2> HIDE DEF m
  <2>4. PermissionRows(os, "Deny", "--deny-principal", "--deny-host") =
          <<ContentOf(r.principal, r.host, m.res.rtype, patternType(os), m.res.name, "Deny", m.op)>>
    BY <2>3, SolePermission
  <2> QED  BY <1>10, <2>2, <2>4, RowContent DEF Restorable
<1>12. PermissionRows(os, "Allow", "--allow-principal", "--allow-host") = <<>>
  BY <1>7, NoPermission
<1>13. <<>> \o <<r>> = <<r>>
  OBVIOUS
<1>14. subAction(os) = "--add"
  <2>1. Sole(os, SubActions, 1)
    BY <1>2, <1>4, <1>5 DEF Sole, SubActions
  <2> QED  BY <1>2, <1>3, <2>1, SoleSubAction
<1> QED  BY <1>11, <1>12, <1>13, <1>14 DEF expand, os, Adds

\* Run, the rollback scripts put back what the deletion scripts have taken away: every row
\* of acls.json, whatever its words, names and host.
THEOREM RollbackRestoresHolds ==
  ASSUME SourcesAssumption, ExtractAssumption
  PROVE  Spec => []RollbackRestores
<1>1. ASSUME TypeOK PROVE RollbackRestores
  <2>1. ASSUME NEW r \in Contents(acls) PROVE r \in Row
    <3>1. acls \in Seq([id : Nat \ {0}, acl : Row])
      BY <1>1 DEF TypeOK
    <3>2. PICK i \in DOMAIN acls : r = acls[i].acl
      BY DEF Contents
    <3>3. DOMAIN acls = 1..Len(acls)
      BY <3>1, LenProperties
    <3>4. acls[i] \in [id : Nat \ {0}, acl : Row]
      BY <3>1, <3>2, <3>3, ElementOfSeq
    <3> QED  BY <3>2, <3>4
  <2>2. ASSUME NEW r \in Contents(acls), r.rtype # "Subject",
               r.rtype = "Cluster" => r.pattern.name = ClusterName
        PROVE  /\ r.perm = "Allow" /\ r.host = Star => Adds(writeAdd(r), r)
               /\ r.perm = "Deny" => Adds(writeAddDeny(r), r)
    <3>1. Restorable(r)
      BY <2>1, <2>2 DEF Restorable
    <3> QED  BY <3>1, AddRestores, AddDenyRestores
  <2> QED  BY <2>2 DEF RollbackRestores
<1>2. Spec => []TypeOK
  BY TypeCorrect
<1> QED  BY <1>1, <1>2, PTL
=============================================================================
