--------------------- MODULE LocalFlagsEvaluationProofs ---------------------
(***************************************************************************)
(* Proofs about LocalFlagsEvaluation, for any number of buckets, any keys  *)
(* and any definitions of two rollouts: what a lookup answers, who gets    *)
(* which variant, how many users a rollout reaches, and that edits of the  *)
(* kind the server makes take no variant away.                             *)
(***************************************************************************)
EXTENDS LocalFlagsEvaluation, FiniteSetTheorems, WellFoundedInduction, TLAPS

-----------------------------------------------------------------------------
(* Smallest numbers                                                        *)

(* The order of numbers as a relation.                                     *)
LEMMA LessThanRelates == \A x, y \in Nat : x < y => <<x, y>> \in OpToRel(<, Nat)
BY DEF OpToRel

(* What induction over Nat comes down to below: a set of counterexamples   *)
(* has a smallest one.                                                     *)
LEMMA Smallest ==
  ASSUME NEW S \in SUBSET Nat, S # {}
  PROVE  \E n \in S : \A m \in S : n <= m
<1> DEFINE R == OpToRel(<, Nat)
<1>1. IsWellFoundedOn(R, Nat)
  BY NatLessThanWellFounded
<1>2. \A x, y \in Nat : x < y => <<x, y>> \in R
  BY LessThanRelates
<1> HIDE DEF R
<1>3. PICK n \in S : \A m \in S : ~ (<<m, n>> \in R)
  BY <1>1, WFMin
<1>4. n \in Nat /\ \A m \in S : m \in Nat /\ ~(m < n)
  BY <1>2, <1>3
<1>5. QED BY <1>4

(* Min picks the smallest number.                                          *)
LEMMA MinIsSmallest ==
  ASSUME NEW S \in SUBSET Nat, S # {}
  PROVE  /\ Min(S) \in S
         /\ \A m \in S : Min(S) <= m
<1>1. PICK n \in S : \A m \in S : n <= m
  BY Smallest
<1>2. QED BY <1>1 DEF Min

-----------------------------------------------------------------------------
(* Lookups                                                                 *)

(* The assigned rollout is the first that fits.                            *)
LEMMA FirstThatFits ==
  ASSUME NEW f \in Definition, NEW ctx
  PROVE  /\ AssignedRollout(f, ctx) \in 0..2
         /\ AssignedRollout(f, ctx) # 0 => StopsAt(f, AssignedRollout(f, ctx), ctx)
         /\ \A i \in 1..2 : StopsAt(f, i, ctx) =>
              AssignedRollout(f, ctx) # 0 /\ AssignedRollout(f, ctx) <= i
<1> DEFINE fits == {i \in DOMAIN f.rollouts : StopsAt(f, i, ctx)}
<1>1. DOMAIN f.rollouts = 1..2
  BY DEF Definition
<1>2. fits \in SUBSET Nat
  BY <1>1
<1>3. CASE fits = {}
  BY <1>1, <1>3 DEF AssignedRollout
<1>4. CASE fits # {}
  <2>1. Min(fits) \in fits /\ \A m \in fits : Min(fits) <= m
    BY <1>2, <1>4, MinIsSmallest
  <2>2. AssignedRollout(f, ctx) = Min(fits)
    BY <1>4 DEF AssignedRollout
  <2> QED BY <1>1, <2>1, <2>2
<1>5. QED BY <1>3, <1>4

(* A context is a record of the values that lookups read.                  *)
LEMMA ContextType ==
  ASSUME NEW ctx \in Contexts
  PROVE  /\ ctx.hasContext \in BOOLEAN /\ ctx.id \in {"other", "tester", "unhashable"}
         /\ ctx.properties \in Properties
         /\ ctx.rollout \in [1..2 -> Bucket] /\ ctx.variant \in Bucket
BY DEF Contexts, Users

(* A test user whose variant the flag has.                                 *)
IsTester(f, ctx) == ctx.id = "tester" /\ Matching(f.testVariant, f) # None

(* A distinct_id that cannot be looked up among the test users.            *)
CannotLookUp(f, ctx) == ctx.id = "unhashable" /\ f.testVariant # None

(* get_variant, case by case.                                              *)
LEMMA LookupCases ==
  ASSUME NEW f \in Definition, NEW ctx \in Contexts,
         NEW i, i = AssignedRollout(f, ctx)
  PROVE  /\ ~ctx.hasContext => GetVariant(f, ctx) = Fallback("MISSING_CONTEXT_KEY")
         /\ ctx.hasContext =>
              /\ CannotLookUp(f, ctx) => GetVariant(f, ctx) = Raised
              /\ IsTester(f, ctx) => GetVariant(f, ctx) = Chosen(f.testVariant)
              /\ ~CannotLookUp(f, ctx) /\ ~IsTester(f, ctx) =>
                   /\ i = 0 => GetVariant(f, ctx) = Fallback("NO_ROLLOUT_MATCH")
                   /\ i # 0 =>
                        GetVariant(f, ctx) =
                          IF RuleSatisfied(f.rollouts[i], ctx) = "raise" THEN Raised
                          ELSE AssignedVariant(f, f.rollouts[i], ctx)
<1>1. f # None
  BY DefinitionsAssumption
<1>2. QED BY <1>1 DEF GetVariant, IsTester, CannotLookUp

(* A key that matches is that of a variant.                                *)
LEMMA MatchesVariant ==
  ASSUME NEW key, NEW f, Matching(key, f) # None
  PROVE  \E i \in DOMAIN f.variants : f.variants[i].key = key
BY DEF Matching

(* The loop selects a variant of the flag.                                 *)
LEMMA SelectsVariant ==
  ASSUME NEW f \in Definition, f.variants # <<>>, NEW r, NEW hash
  PROVE  Selected(f, r, hash) \in 1..Len(f.variants)
<1> DEFINE hits == {i \in DOMAIN f.variants : Split(f, r, i) = None \/ Below(f, r, hash, i)}
<1>1. /\ f.variants \in Seq(Variant)
      /\ DOMAIN f.variants = 1..Len(f.variants)
      /\ Len(f.variants) \in Nat /\ Len(f.variants) # 0
  BY DEF Definition
<1>2. CASE hits = {}
  BY <1>1, <1>2 DEF Selected
<1>3. CASE hits # {}
  <2>1. hits \in SUBSET Nat /\ hits \subseteq 1..Len(f.variants)
    BY <1>1
  <2>2. Min(hits) \in hits
    BY <1>3, <2>1, MinIsSmallest
  <2>3. Selected(f, r, hash) = Min(hits)
    BY <1>3 DEF Selected
  <2> QED BY <2>1, <2>2, <2>3
<1>4. QED BY <1>2, <1>3

(* What a rollout assigns is a variant, if the flag has any and no split   *)
(* is null.                                                                *)
LEMMA AssignsVariant ==
  ASSUME NEW f \in Definition, NEW r \in Rollout, NEW ctx
  PROVE  \/ AssignedVariant(f, r, ctx) = Raised /\ (f.variants = <<>> \/ HasNull(f, r))
         \/ \E i \in DOMAIN f.variants : AssignedVariant(f, r, ctx) = Chosen(f.variants[i].key)
<1> DEFINE overridden == r.override # None /\ Matching(r.override, f) # None
<1>1. CASE overridden
  <2>1. AssignedVariant(f, r, ctx) = Chosen(r.override)
    BY <1>1 DEF AssignedVariant
  <2> QED BY <1>1, <2>1, MatchesVariant
<1>2. CASE ~overridden /\ f.variants = <<>>
  BY <1>2 DEF AssignedVariant
<1>3. CASE ~overridden /\ f.variants # <<>>
  <2>1. PICK i \in DOMAIN f.variants : i = Selected(f, r, ctx.variant)
    BY <1>3, SelectsVariant DEF Definition
  <2>2. CASE Split(f, r, i) = None
    BY <1>3, <2>1, <2>2 DEF AssignedVariant, HasNull
  <2>3. CASE Split(f, r, i) # None
    BY <1>3, <2>1, <2>3 DEF AssignedVariant
  <2> QED BY <2>2, <2>3
<1>4. QED BY <1>1, <1>2, <1>3

(* A rule that is satisfied or raises is not "no".                         *)
LEMMA RuleCases ==
  ASSUME NEW r \in Rollout, NEW ctx, RuleSatisfied(r, ctx) = "raise"
  PROVE  r.rule = "legacy" /\ ctx.properties = "odd"
BY DEF RuleSatisfied, Rollout

(* A variant, a fallback and an exception are told apart.                  *)
LEMMA AnswersDiffer ==
  /\ \A key : Chosen(key) # Raised /\ Chosen(key).kind = "variant" /\ Chosen(key).key = key
  /\ \A reason : Fallback(reason) # Raised /\ Fallback(reason).kind = "fallback"
  /\ Raised.kind = "raised"
BY DEF Chosen, Raised, Fallback, Answer

(* Every answer is an exception, a fallback or a variant of the flag.      *)
LEMMA AnswerKinds ==
  ASSUME NEW f \in Definition, NEW ctx \in Contexts
  PROVE  \/ GetVariant(f, ctx) = Raised
         \/ \E reason \in {"FLAG_NOT_FOUND", "MISSING_CONTEXT_KEY", "NO_ROLLOUT_MATCH"} :
              GetVariant(f, ctx) = Fallback(reason)
         \/ \E j \in DOMAIN f.variants : GetVariant(f, ctx) = Chosen(f.variants[j].key)
<1>1. PICK i : i = AssignedRollout(f, ctx)
  OBVIOUS
<1>2. CASE ~ctx.hasContext
  BY <1>1, <1>2, LookupCases
<1>3. CASE ctx.hasContext /\ IsTester(f, ctx)
  <2>1. GetVariant(f, ctx) = Chosen(f.testVariant)
    BY <1>1, <1>3, LookupCases
  <2> QED BY <1>3, <2>1, MatchesVariant DEF IsTester
<1>7. CASE ctx.hasContext /\ CannotLookUp(f, ctx)
  BY <1>1, <1>7, LookupCases
<1>4. CASE ctx.hasContext /\ ~CannotLookUp(f, ctx) /\ ~IsTester(f, ctx) /\ i = 0
  BY <1>1, <1>4, LookupCases
<1>5. CASE ctx.hasContext /\ ~CannotLookUp(f, ctx) /\ ~IsTester(f, ctx) /\ i # 0
  <2>1. f.rollouts[i] \in Rollout
    BY <1>1, <1>5, FirstThatFits DEF Definition
  <2>2. GetVariant(f, ctx) \in {Raised, AssignedVariant(f, f.rollouts[i], ctx)}
    BY <1>1, <1>5, LookupCases
  <2> QED BY <2>1, <2>2, AssignsVariant
<1>6. QED BY <1>2, <1>3, <1>4, <1>5, <1>7

(* An exception has its reason.                                            *)
LEMMA RaiseHasReason ==
  ASSUME NEW f \in Definition, NEW ctx \in Contexts, GetVariant(f, ctx) = Raised
  PROVE  /\ ctx.hasContext
         /\ \/ ctx.id = "unhashable" /\ f.testVariant # None
            \/ /\ ctx.id = "tester" => Matching(f.testVariant, f) = None
               /\ \E i \in DOMAIN f.rollouts :
                    /\ RolloutHash(f, i, ctx) < f.rollouts[i].percentage
                    /\ \/ f.variants = <<>>
                       \/ HasNull(f, f.rollouts[i])
                       \/ ctx.properties = "odd" /\ f.rollouts[i].rule = "legacy"
<1>1. PICK i : i = AssignedRollout(f, ctx)
  OBVIOUS
<1>2. ctx.hasContext
  BY LookupCases, AnswersDiffer
<1>3. ~IsTester(f, ctx)
  BY <1>2, LookupCases, AnswersDiffer
<1>4. CASE CannotLookUp(f, ctx)
  BY <1>2, <1>4 DEF CannotLookUp
<1>5. CASE ~CannotLookUp(f, ctx)
  <2>1. i # 0
    BY <1>1, <1>2, <1>3, <1>5, LookupCases, AnswersDiffer
  <2>2. i \in DOMAIN f.rollouts /\ f.rollouts[i] \in Rollout /\ StopsAt(f, i, ctx)
    BY <1>1, <2>1, FirstThatFits DEF Definition
  <2>3. \/ f.variants = <<>>
        \/ HasNull(f, f.rollouts[i])
        \/ ctx.properties = "odd" /\ f.rollouts[i].rule = "legacy"
    <3>1. CASE RuleSatisfied(f.rollouts[i], ctx) = "raise"
      BY <2>2, <3>1, RuleCases
    <3>2. CASE RuleSatisfied(f.rollouts[i], ctx) # "raise"
      <4>1. AssignedVariant(f, f.rollouts[i], ctx) = Raised
        BY <1>1, <1>2, <1>3, <1>5, <2>1, <3>2, LookupCases
      <4> QED BY <2>2, <4>1, AssignsVariant, AnswersDiffer
    <3> QED BY <3>1, <3>2
  <2>4. RolloutHash(f, i, ctx) < f.rollouts[i].percentage
    BY <2>2 DEF StopsAt
  <2> QED BY <1>2, <1>3, <2>2, <2>3, <2>4 DEF IsTester
<1>6. QED BY <1>4, <1>5

-----------------------------------------------------------------------------
(* Sorting                                                                 *)

(* A function on 1..n is a list.                                           *)
LEMMA FunctionIsSeq ==
  ASSUME NEW S, NEW n \in Nat, NEW s \in [1..n -> S]
  PROVE  s \in Seq(S) /\ Len(s) = n
OBVIOUS

UpTo(all, v) == {w \in all : w.key <= v.key}

(* A list whose keys differ is a bijection onto its variants.              *)
LEMMA VariantsOfList ==
  ASSUME NEW vs \in Seq(Variant), KeysDiffer(vs)
  PROVE  /\ Range(vs) \subseteq Variant
         /\ \A v, w \in Range(vs) : v.key = w.key => v = w
         /\ IsFiniteSet(Range(vs)) /\ Cardinality(Range(vs)) = Len(vs)
<1>1. vs \in [1..Len(vs) -> Variant] /\ DOMAIN vs = 1..Len(vs) /\ Len(vs) \in Nat
  OBVIOUS
<1>2. Range(vs) \subseteq Variant
  BY <1>1 DEF Range
<1>3. \A v, w \in Range(vs) : v.key = w.key => v = w
  BY <1>1 DEF Range, KeysDiffer
<1>4. vs \in Bijection(1..Len(vs), Range(vs))
  BY <1>1 DEF Range, KeysDiffer, Bijection, Injection, Surjection, IsInjective
<1>5. IsFiniteSet(1..Len(vs)) /\ Cardinality(1..Len(vs)) = Len(vs)
  <2>1. PICK n \in Nat : Len(vs) = n
    BY <1>1
  <2>2. IsFiniteSet(1..n) /\ Cardinality(1..n) = n
    BY FS_Interval
  <2> QED BY <2>1, <2>2
<1>6. ExistsBijection(1..Len(vs), Range(vs))
  BY <1>4 DEF ExistsBijection
<1>7. QED BY <1>2, <1>3, <1>5, <1>6, FS_Bijection

(* How many variants are up to a variant tells which one it is.            *)
LEMMA Ranks ==
  ASSUME NEW vs \in Seq(Variant), KeysDiffer(vs)
  PROVE  LET all == Range(vs)
             rank(v) == Cardinality(UpTo(all, v))
         IN /\ \A v \in all : rank(v) \in 1..Len(vs)
            /\ \A v, w \in all : v.key < w.key => rank(v) < rank(w)
            /\ \A i \in 1..Len(vs) : \E v \in all : rank(v) = i
<1> DEFINE all == Range(vs)
           rank == [v \in all |-> Cardinality(UpTo(all, v))]
<1>1. /\ all \subseteq Variant /\ IsFiniteSet(all) /\ Cardinality(all) = Len(vs)
      /\ \A v, w \in all : v.key = w.key => v = w
      /\ \A v \in all : v.key \in Int
  BY VariantsOfList, DefinitionsAssumption DEF Variant
<1> HIDE DEF all
<1>2. ASSUME NEW v \in all
      PROVE  /\ IsFiniteSet(UpTo(all, v)) /\ v \in UpTo(all, v)
             /\ Cardinality(UpTo(all, v)) \in 1..Len(vs)
  <2>1. UpTo(all, v) \in SUBSET all /\ v \in UpTo(all, v)
    BY <1>1 DEF UpTo
  <2>2. IsFiniteSet(UpTo(all, v)) /\ Cardinality(UpTo(all, v)) <= Len(vs)
    BY <1>1, <2>1, FS_Subset
  <2>3. Cardinality(UpTo(all, v)) \in Nat /\ Cardinality(UpTo(all, v)) # 0
    BY <2>1, <2>2, FS_CardinalityType, FS_EmptySet
  <2> QED BY <2>1, <2>2, <2>3
<1>3. ASSUME NEW v \in all, NEW w \in all, v.key < w.key
      PROVE  Cardinality(UpTo(all, v)) < Cardinality(UpTo(all, w))
  <2>1. UpTo(all, v) \in SUBSET UpTo(all, w) /\ w \notin UpTo(all, v)
    BY <1>1, <1>3 DEF UpTo
  <2>2. /\ Cardinality(UpTo(all, v)) <= Cardinality(UpTo(all, w))
        /\ Cardinality(UpTo(all, v)) # Cardinality(UpTo(all, w))
    BY <1>2, <2>1, FS_Subset
  <2> QED BY <1>2, <2>2
<1>4. ASSUME NEW i \in 1..Len(vs) PROVE \E v \in all : Cardinality(UpTo(all, v)) = i
  <2>1. rank \in [all -> 1..Len(vs)]
    BY <1>2
  <2>2. rank \in Injection(all, 1..Len(vs))
    <3>1. ASSUME NEW v \in all, NEW w \in all, v # w PROVE rank[v] # rank[w]
      <4>1. v.key < w.key \/ w.key < v.key
        BY <1>1, <3>1
      <4>2. Cardinality(UpTo(all, v)) \in Nat /\ Cardinality(UpTo(all, w)) \in Nat
        BY <1>2
      <4> QED BY <1>3, <4>1, <4>2
    <3> QED BY <2>1, <3>1 DEF Injection, IsInjective
  <2>3. IsFiniteSet(1..Len(vs)) /\ Cardinality(1..Len(vs)) = Cardinality(all)
    BY <1>1, FS_Interval
  <2>4. rank \in Surjection(all, 1..Len(vs))
    BY <2>2, <2>3, FS_Injection
  <2> QED BY <2>4 DEF Surjection
<1>5. QED BY <1>2, <1>3, <1>4 DEF all

(* The stored variants are those of the definition, in order of their keys. *)
LEMMA SortedInOrder ==
  ASSUME NEW vs \in Seq(Variant), KeysDiffer(vs)
  PROVE  /\ Sorted(vs) \in Seq(Variant) /\ Len(Sorted(vs)) = Len(vs)
         /\ Range(Sorted(vs)) = Range(vs)
         /\ \A i, j \in DOMAIN Sorted(vs) : i < j => Sorted(vs)[i].key < Sorted(vs)[j].key
<1> DEFINE all == Range(vs)
           s == Sorted(vs)
<1>1. DOMAIN vs = 1..Len(vs) /\ Len(vs) \in Nat /\ all \subseteq Variant
  BY VariantsOfList
<1>2. \A v \in all : v.key \in Int
  BY <1>1, DefinitionsAssumption DEF Variant
<1>3. DOMAIN s = 1..Len(vs)
  BY <1>1 DEF Sorted
<1>4. ASSUME NEW i \in 1..Len(vs)
      PROVE  s[i] \in all /\ Cardinality(UpTo(all, s[i])) = i
  <2>1. \E v \in all : Cardinality(UpTo(all, v)) = i
    BY Ranks
  <2>2. s[i] = CHOOSE v \in all : Cardinality(UpTo(all, v)) = i
    BY <1>1 DEF Sorted, UpTo
  <2> HIDE DEF all, s
  <2> QED BY <2>1, <2>2
<1> HIDE DEF s
<1>5. s \in Seq(Variant) /\ Len(s) = Len(vs)
  <2> DEFINE first(i) == CHOOSE v \in all : Cardinality(UpTo(all, v)) = i
  <2>1. s = [i \in 1..Len(vs) |-> first(i)]
    BY <1>1 DEF s, Sorted, UpTo
  <2> HIDE DEF first
  <2>2. s \in [1..Len(vs) -> Variant]
    BY <1>1, <1>4, <2>1
  <2> QED BY <1>1, <2>2, FunctionIsSeq
<1>6. ASSUME NEW i \in 1..Len(vs), NEW j \in 1..Len(vs), i < j PROVE s[i].key < s[j].key
  <2>1. s[i].key \in Int /\ s[j].key \in Int
    BY <1>2, <1>4
  <2>2. CASE s[j].key < s[i].key
    BY <1>4, <1>6, <2>2, Ranks
  <2>3. CASE s[j].key = s[i].key
    <3>1. s[i] = s[j]
      BY <1>4, <2>3, VariantsOfList
    <3> QED BY <1>4, <1>6, <3>1
  <2> QED BY <2>1, <2>2, <2>3
<1>7. Range(s) = all
  <2>1. Range(s) \subseteq all
    BY <1>3, <1>4 DEF Range
  <2>2. ASSUME NEW v \in all PROVE v \in Range(s)
    <3> DEFINE i == Cardinality(UpTo(all, v))
    <3>1. i \in 1..Len(vs)
      BY Ranks
    <3>2. ~(s[i].key < v.key) /\ ~(v.key < s[i].key)
      BY <1>4, <3>1, Ranks
    <3>3. s[i].key = v.key
      BY <1>2, <1>4, <3>1, <3>2
    <3>4. s[i] = v
      BY <1>4, <3>1, <3>3, VariantsOfList
    <3> QED BY <1>3, <3>1, <3>4 DEF Range
  <2> QED BY <2>1, <2>2
<1>8. QED BY <1>3, <1>5, <1>6, <1>7 DEF s

(* In which order the server lists them does not matter.                   *)
LEMMA OrderIrrelevant ==
  ASSUME NEW vs, NEW ws, DOMAIN vs = DOMAIN ws, Range(vs) = Range(ws)
  PROVE  Sorted(vs) = Sorted(ws)
BY DEF Sorted

(* Listing the variants in another order keeps them what they are.         *)
LEMMA Rotation ==
  ASSUME NEW vs \in Seq(Variant), KeysDiffer(vs), Len(vs) > 1
  PROVE  LET ws == Tail(vs) \o <<Head(vs)>>
         IN /\ ws \in Seq(Variant) /\ KeysDiffer(ws)
            /\ DOMAIN ws = DOMAIN vs /\ Range(ws) = Range(vs)
<1> DEFINE ws == Tail(vs) \o <<Head(vs)>>
<1>1. PICK n \in Nat : n = Len(vs) /\ n > 1
  OBVIOUS
<1>2. /\ Tail(vs) \in Seq(Variant) /\ Len(Tail(vs)) = n - 1
      /\ \A i \in 1..n-1 : Tail(vs)[i] = vs[i + 1]
      /\ Head(vs) = vs[1] /\ Head(vs) \in Variant
  BY <1>1
<1>3. ws \in Seq(Variant) /\ Len(ws) = n /\ DOMAIN ws = 1..n /\ DOMAIN vs = 1..n
  BY <1>1, <1>2
<1>4. \A i \in 1..n : ws[i] = IF i < n THEN vs[i + 1] ELSE vs[1]
  BY <1>1, <1>2
<1> HIDE DEF ws
<1>5. KeysDiffer(ws)
  <2>1. SUFFICES ASSUME NEW i \in 1..n, NEW j \in 1..n, ws[i].key = ws[j].key
                 PROVE  i = j
    BY <1>3 DEF KeysDiffer
  <2>2. \A a, b \in 1..n : vs[a].key = vs[b].key => a = b
    BY <1>3 DEF KeysDiffer
  <2>3. CASE i < n /\ j < n
    <3>1. i + 1 \in 1..n /\ j + 1 \in 1..n /\ vs[i + 1].key = vs[j + 1].key
      BY <1>4, <2>1, <2>3
    <3> QED BY <2>2, <3>1
  <2>4. CASE i = n /\ j < n
    <3>1. 1 \in 1..n /\ j + 1 \in 1..n /\ vs[1].key = vs[j + 1].key
      BY <1>1, <1>4, <2>1, <2>4
    <3>2. 1 = j + 1
      BY <2>2, <3>1
    <3> QED BY <3>2
  <2>5. CASE i < n /\ j = n
    <3>1. 1 \in 1..n /\ i + 1 \in 1..n /\ vs[1].key = vs[i + 1].key
      BY <1>1, <1>4, <2>1, <2>5
    <3>2. 1 = i + 1
      BY <2>2, <3>1
    <3> QED BY <3>2
  <2> QED BY <2>3, <2>4, <2>5
<1>6. Range(ws) = Range(vs)
  <2>1. ASSUME NEW i \in 1..n PROVE ws[i] \in Range(vs)
    <3>1. PICK j \in 1..n : ws[i] = vs[j]
      BY <1>1, <1>4
    <3> QED BY <1>3, <3>1 DEF Range
  <2>2. ASSUME NEW i \in 1..n PROVE vs[i] \in Range(ws)
    <3>1. PICK j \in 1..n : j = IF i = 1 THEN n ELSE i - 1
      BY <1>1
    <3>2. ws[j] = vs[i]
      BY <1>1, <1>4, <3>1
    <3> QED BY <1>3, <3>2 DEF Range
  <2> QED BY <1>3, <2>1, <2>2 DEF Range
<1>7. QED BY <1>3, <1>5, <1>6 DEF ws

-----------------------------------------------------------------------------
(* The invariant                                                           *)

(* What is stored is a definition.                                         *)
LEMMA StoreType ==
  ASSUME NEW d \in Definition, KeysDiffer(d.variants)
  PROVE  /\ Store(d) \in Definition
         /\ Store(d).rollouts = d.rollouts /\ Store(d).variants = Sorted(d.variants)
         /\ \A rollouts : [d EXCEPT !.rollouts = rollouts].variants = d.variants
<1>1. d.variants \in Seq(Variant)
  BY DEF Definition
<1>2. Sorted(d.variants) \in Seq(Variant)
  BY <1>1, SortedInOrder
<1>3. QED BY <1>2 DEF Store, Definition

(* A definition is determined by its fields.                               *)
LEMMA SameDefinition ==
  ASSUME NEW d \in Definition, NEW e \in Definition,
         d.variants = e.variants, d.rollouts = e.rollouts, d.salted = e.salted,
         d.testVariant = e.testVariant, d.roundsUp = e.roundsUp
  PROVE  d = e
BY DEF Definition

(* The stored definition f is that of the server, d, before rollouts were  *)
(* widened.                                                                *)
Behind(f, d) ==
  /\ f \in Definition
  /\ f.variants = Sorted(d.variants)
  /\ f.salted = d.salted /\ f.testVariant = d.testVariant /\ f.roundsUp = d.roundsUp
  /\ \A i \in 1..2 :
       /\ f.rollouts[i].percentage <= d.rollouts[i].percentage
       /\ f.rollouts[i].rule = d.rollouts[i].rule
       /\ f.rollouts[i].override = d.rollouts[i].override
       /\ f.rollouts[i].splits = d.rollouts[i].splits

Stored(d, f) ==
  /\ d \in Definition /\ KeysDiffer(d.variants)
  /\ f # None => Behind(f, d)

(* IInv, field by field.                                                   *)
LEMMA Fieldwise ==
  ASSUME NEW d, NEW f
  PROVE  Stored(d, f) <=>
           /\ d \in Definition /\ KeysDiffer(d.variants)
           /\ f # None =>
                /\ f \in Definition
                /\ f = [Store(d) EXCEPT !.rollouts = f.rollouts]
                /\ \A i \in 1..2 :
                     /\ f.rollouts[i].percentage <= d.rollouts[i].percentage
                     /\ d.rollouts[i] =
                          [f.rollouts[i] EXCEPT !.percentage = d.rollouts[i].percentage]
<1> DEFINE g == [Store(d) EXCEPT !.rollouts = f.rollouts]
<1>1. SUFFICES ASSUME d \in Definition, KeysDiffer(d.variants), f \in Definition
               PROVE  /\ f = g
                      /\ \A i \in 1..2 :
                           /\ f.rollouts[i].percentage <= d.rollouts[i].percentage
                           /\ d.rollouts[i] =
                                [f.rollouts[i] EXCEPT !.percentage = d.rollouts[i].percentage]
                      <=> Behind(f, d)
  BY DEF Stored, Behind
<1>2. Store(d) \in Definition
  BY <1>1, StoreType
<1>3. g \in Definition
  BY <1>1, <1>2 DEF Definition
<1>4. f = g <=> /\ f.variants = Sorted(d.variants) /\ f.salted = d.salted
                /\ f.testVariant = d.testVariant /\ f.roundsUp = d.roundsUp
  <2>1. /\ g.variants = Sorted(d.variants) /\ g.salted = d.salted
        /\ g.testVariant = d.testVariant /\ g.roundsUp = d.roundsUp
        /\ g.rollouts = f.rollouts
    BY <1>1 DEF Store, Definition
  <2> HIDE DEF g
  <2> QED BY <1>1, <1>3, <2>1, SameDefinition
<1> HIDE DEF g
<1>5. ASSUME NEW i \in 1..2
      PROVE  d.rollouts[i] = [f.rollouts[i] EXCEPT !.percentage = d.rollouts[i].percentage]
             <=> /\ f.rollouts[i].rule = d.rollouts[i].rule
                 /\ f.rollouts[i].override = d.rollouts[i].override
                 /\ f.rollouts[i].splits = d.rollouts[i].splits
  <2>1. d.rollouts[i] \in Rollout /\ f.rollouts[i] \in Rollout
    BY <1>1 DEF Definition
  <2> QED BY <2>1 DEF Rollout
<1>6. QED BY <1>1, <1>4, <1>5 DEF Behind

(* The invariant, field by field.                                          *)
LEMMA InvIsStored == IInv <=> Stored(server, flag)
BY Fieldwise DEF IInv

(* Nothing is stored to begin with.                                        *)
LEMMA InitInv == Init => IInv
BY DefinitionsAssumption, InvIsStored DEF Init, Stored

(* Widening a rollout leaves the stored definition behind.                 *)
LEMMA WidenKeepsInv ==
  ASSUME IInv, NEW i \in 1..2, WidenRollout(i)
  PROVE  IInv'
<1>1. server \in Definition /\ KeysDiffer(server.variants) /\ (flag # None => Behind(flag, server))
  BY InvIsStored DEF Stored
<1>2. server.rollouts \in [1..2 -> Rollout]
  BY <1>1 DEF Definition
<1>3. PICK p \in 0..Buckets : p = server.rollouts[i].percentage + 1
  BY <1>2, BucketsAssumption DEF WidenRollout, Rollout
<1> DEFINE wider == [server.rollouts EXCEPT ![i] = [server.rollouts[i] EXCEPT !.percentage = p]]
<1>4. server' = [server EXCEPT !.rollouts = wider]
  BY <1>2, <1>3 DEF WidenRollout
<1>5. wider \in [1..2 -> Rollout]
  <2>1. [server.rollouts[i] EXCEPT !.percentage = p] \in Rollout
    BY <1>2 DEF Rollout
  <2> QED BY <1>2, <2>1
<1>6. \A j \in 1..2 : /\ server.rollouts[j].percentage <= wider[j].percentage
                      /\ server.rollouts[j].rule = wider[j].rule
                      /\ server.rollouts[j].override = wider[j].override
                      /\ server.rollouts[j].splits = wider[j].splits
  BY <1>2, <1>3, BucketsAssumption DEF Rollout
<1> HIDE DEF wider
<1>7. /\ server' \in Definition /\ server'.variants = server.variants
      /\ server'.rollouts = wider /\ server'.salted = server.salted
      /\ server'.testVariant = server.testVariant /\ server'.roundsUp = server.roundsUp
  BY <1>1, <1>4, <1>5 DEF Definition
<1>8. ASSUME flag # None PROVE Behind(flag, server')
  <2>1. \A j \in 1..2 : flag.rollouts[j].percentage <= wider[j].percentage
    <3>1. ASSUME NEW j \in 1..2 PROVE flag.rollouts[j].percentage <= wider[j].percentage
      <4>1. /\ flag.rollouts[j].percentage \in Int /\ wider[j].percentage \in Int
            /\ server.rollouts[j].percentage \in Int
        BY <1>1, <1>2, <1>5, <1>8, BucketsAssumption DEF Behind, Definition, Rollout
      <4> QED BY <1>1, <1>6, <1>8, <4>1 DEF Behind
    <3> QED BY <3>1
  <2> QED BY <1>1, <1>6, <1>7, <1>8, <2>1 DEF Behind
<1>9. flag' = flag
  BY DEF WidenRollout
<1>10. Stored(server', flag')
  BY <1>1, <1>7, <1>8, <1>9 DEF Stored
<1>11. QED BY <1>10, Fieldwise DEF IInv

(* Another order of the variants is the same once they are sorted.         *)
LEMMA ReorderKeepsInv ==
  ASSUME IInv, ReorderVariants
  PROVE  IInv'
<1>1. server \in Definition /\ KeysDiffer(server.variants) /\ (flag # None => Behind(flag, server))
  BY InvIsStored DEF Stored
<1>2. server.variants \in Seq(Variant) /\ Len(server.variants) > 1
  BY <1>1 DEF Definition, ReorderVariants
<1> DEFINE ws == Tail(server.variants) \o <<Head(server.variants)>>
<1>3. /\ ws \in Seq(Variant) /\ KeysDiffer(ws)
      /\ DOMAIN ws = DOMAIN server.variants /\ Range(ws) = Range(server.variants)
  BY <1>1, <1>2, Rotation
<1>4. server' = [server EXCEPT !.variants = ws] /\ flag' = flag
  BY DEF ReorderVariants
<1> HIDE DEF ws
<1>5. /\ server' \in Definition /\ server'.variants = ws
      /\ server'.rollouts = server.rollouts /\ server'.salted = server.salted
      /\ server'.testVariant = server.testVariant /\ server'.roundsUp = server.roundsUp
  BY <1>1, <1>3, <1>4 DEF Definition
<1>6. Sorted(ws) = Sorted(server.variants)
  BY <1>3, OrderIrrelevant
<1>7. flag # None => Behind(flag, server')
  BY <1>1, <1>5, <1>6 DEF Behind
<1>8. Stored(server', flag')
  BY <1>3, <1>4, <1>5, <1>7 DEF Stored
<1>9. QED BY <1>8, Fieldwise DEF IInv

(* A fetch catches up with the server.                                     *)
LEMMA FetchKeepsInv ==
  ASSUME IInv, FetchDefinition
  PROVE  IInv'
<1>1. server \in Definition /\ KeysDiffer(server.variants)
  BY DEF IInv
<1>2. Store(server) \in Definition /\ Store(server).variants = Sorted(server.variants)
  BY <1>1, StoreType
<1>3. \A i \in 1..2 : server.rollouts[i].percentage \in Int
  BY <1>1, BucketsAssumption DEF Definition, Rollout
<1>4. /\ Store(server).rollouts = server.rollouts /\ Store(server).salted = server.salted
      /\ Store(server).testVariant = server.testVariant
      /\ Store(server).roundsUp = server.roundsUp
  BY <1>1 DEF Store, Definition
<1>5. Behind(Store(server), server)
  BY <1>2, <1>3, <1>4 DEF Behind
<1>6. Stored(server', flag')
  BY <1>1, <1>5 DEF Stored, FetchDefinition
<1>7. QED BY <1>6, Fieldwise DEF IInv

(* The stored definition is the server's, of which rollouts may have been  *)
(* widened since.                                                          *)
THEOREM InvCorrect == Spec => []IInv
<1>1. IInv /\ [Next]_vars => IInv'
  <2> SUFFICES ASSUME IInv, [Next]_vars PROVE IInv'
    OBVIOUS
  <2>1. DOMAIN server.rollouts = 1..2
    BY DEF IInv, Definition
  <2>2. CASE \E i \in DOMAIN server.rollouts : WidenRollout(i)
    BY <2>1, <2>2, WidenKeepsInv
  <2>3. CASE ReorderVariants
    BY <2>3, ReorderKeepsInv
  <2>4. CASE FetchDefinition
    BY <2>4, FetchKeepsInv
  <2>5. CASE UNCHANGED vars
    BY <2>5 DEF vars, IInv
  <2> QED BY <2>2, <2>3, <2>4, <2>5 DEF Next
<1>2. QED BY InitInv, <1>1, PTL DEF Spec

(* get_variant returns a variant or the fallback.  It raises only for a    *)
(* distinct_id without a hash, for a flag without variants or with a null  *)
(* split, and for a legacy rule that meets a property which is no string;  *)
(* the last three only for users within the percentage of the rollout.     *)
THEOREM RaisesCorrect == Spec => []RaisesOnlyOnBadInput
<1>1. IInv => RaisesOnlyOnBadInput
  <2>1. SUFFICES ASSUME IInv, NEW ctx \in Contexts, GetVariant(flag, ctx) = Raised
                 PROVE  /\ ctx.hasContext
                        /\ \/ ctx.id = "unhashable" /\ flag.testVariant # None
                           \/ /\ ctx.id = "tester" => Matching(flag.testVariant, flag) = None
                              /\ \E i \in DOMAIN flag.rollouts :
                                   /\ RolloutHash(flag, i, ctx) < flag.rollouts[i].percentage
                                   /\ \/ flag.variants = <<>>
                                      \/ HasNull(flag, flag.rollouts[i])
                                      \/ ctx.properties = "odd" /\ flag.rollouts[i].rule = "legacy"
    BY DEF RaisesOnlyOnBadInput
  <2>2. flag # None
    BY <2>1, AnswersDiffer DEF GetVariant
  <2>3. flag \in Definition
    BY <2>1, <2>2 DEF IInv
  <2> QED BY <2>1, <2>3, RaiseHasReason
<1>2. QED BY InvCorrect, <1>1, PTL

(* Every call ends with a variant that the flag has, with a fallback or    *)
(* with an exception, and the stored variants are in order.                *)
THEOREM TypeCorrect == Spec => []TypeOK
<1>1. IInv => TypeOK
  <2> SUFFICES ASSUME IInv PROVE TypeOK
    OBVIOUS
  <2>1. /\ server \in Definition /\ KeysDiffer(server.variants)
        /\ flag # None => Behind(flag, server)
    BY InvIsStored DEF Stored
  <2>2. flag # None =>
          \A i, j \in DOMAIN flag.variants : i < j => flag.variants[i].key < flag.variants[j].key
    <3>1. server.variants \in Seq(Variant)
      BY <2>1 DEF Definition
    <3> QED BY <2>1, <3>1, SortedInOrder DEF Behind
  <2>3. ASSUME NEW ctx \in Contexts
        PROVE  LET answer == GetVariant(flag, ctx)
               IN \/ answer = Raised
                  \/ \E reason \in {"FLAG_NOT_FOUND", "MISSING_CONTEXT_KEY", "NO_ROLLOUT_MATCH"} :
                       answer = Fallback(reason)
                  \/ \E i \in DOMAIN flag.variants : answer = Chosen(flag.variants[i].key)
    <3>1. CASE flag = None
      BY <3>1 DEF GetVariant
    <3>2. CASE flag # None
      <4>1. flag \in Definition
        BY <2>1, <3>2 DEF Behind
      <4> QED BY <4>1, AnswerKinds
    <3> QED BY <3>1, <3>2
  <2> QED BY <2>2, <2>3 DEF TypeOK
<1>2. QED BY InvCorrect, <1>1, PTL

-----------------------------------------------------------------------------
(* Running sums                                                            *)

(* What a split adds is not negative.                                      *)
LEMMA WeightType ==
  ASSUME NEW f \in Definition, NEW r \in Rollout, NEW i \in 1..Len(f.variants)
  PROVE  Weight(f, r, i) \in Nat
<1>1. f.variants[i] \in Variant
  BY DEF Definition
<1>2. PICK K \in SUBSET Keys : r.splits \in [K -> 0..Buckets]
  BY DEF Rollout
<1>3. Split(f, r, i) \in 0..Buckets \cup {None}
  BY <1>1, <1>2 DEF Split, Variant
<1>4. QED BY <1>3, BucketsAssumption DEF Weight

(* A function that is cumulative up to its end n.                          *)
Sums(g, f, r, n) ==
  /\ g \in [0..n -> Nat] /\ g[0] = 0
  /\ \A j \in 1..n : g[j] = g[j - 1] + Weight(f, r, j)

(* The recursion of the running sum has a solution.                        *)
LEMMA SumsExist ==
  ASSUME NEW f \in Definition, NEW r \in Rollout
  PROVE  \E g : Sums(g, f, r, Len(f.variants))
<1> DEFINE missing == {n \in 0..Len(f.variants) : ~ \E g : Sums(g, f, r, n)}
<1>1. Len(f.variants) \in Nat
  BY DEF Definition
<1>2. SUFFICES ASSUME missing # {} PROVE FALSE
  BY <1>1
<1>3. PICK n \in missing : \A m \in missing : n <= m
  <2>1. missing \in SUBSET Nat
    BY <1>1
  <2> HIDE DEF missing
  <2> QED BY <1>2, <2>1, Smallest
<1>4. CASE n = 0
  <2>1. Sums([j \in 0..0 |-> 0], f, r, 0)
    BY DEF Sums
  <2> QED BY <1>3, <1>4, <2>1
<1>5. CASE n # 0
  <2>1. n - 1 \in 0..Len(f.variants) /\ n \in 1..Len(f.variants) /\ n - 1 \notin missing
    BY <1>1, <1>3, <1>5
  <2>2. PICK g : Sums(g, f, r, n - 1)
    BY <2>1
  <2> DEFINE h == [j \in 0..n |-> IF j = n THEN g[n - 1] + Weight(f, r, n) ELSE g[j]]
  <2>3. Weight(f, r, n) \in Nat
    BY <2>1, WeightType
  <2>4. h \in [0..n -> Nat]
    BY <2>1, <2>2, <2>3 DEF Sums
  <2>5. h[0] = 0
    BY <2>1, <2>2 DEF Sums
  <2>6. ASSUME NEW j \in 1..n PROVE h[j] = h[j - 1] + Weight(f, r, j)
    <3>1. CASE j = n
      BY <2>1, <3>1
    <3>2. CASE j # n
      <4>1. j \in 1..n-1 /\ j - 1 \in 0..n /\ j \in 0..n /\ j - 1 # n
        BY <2>1, <3>2
      <4> QED BY <2>2, <3>2, <4>1 DEF Sums
    <3> QED BY <3>1, <3>2
  <2>7. Sums(h, f, r, n)
    BY <2>4, <2>5, <2>6 DEF Sums
  <2> QED BY <1>3, <2>7
<1>6. QED BY <1>4, <1>5

(* The code's running sum starts at 0 and adds the splits.                 *)
LEMMA CumulativeSums ==
  ASSUME NEW f \in Definition, NEW r \in Rollout
  PROVE  /\ Cumulative(f, r, 0) = 0
         /\ \A i \in 0..Len(f.variants) : Cumulative(f, r, i) \in Nat
         /\ \A i \in 1..Len(f.variants) :
              Cumulative(f, r, i) = Cumulative(f, r, i - 1) + Weight(f, r, i)
<1> DEFINE n == Len(f.variants)
           Rounds(g) == g = [j \in 0..n |-> IF j = 0 THEN 0 ELSE g[j - 1] + Weight(f, r, j)]
           sum == CHOOSE g : Rounds(g)
<1>1. n \in Nat
  BY DEF Definition
<1>2. \A i : Cumulative(f, r, i) = sum[i]
  BY DEF Cumulative
<1>3. PICK g : Sums(g, f, r, n)
  BY SumsExist
<1>4. Rounds(g)
  BY <1>1, <1>3 DEF Sums
<1>5. Rounds(sum)
  BY <1>4
<1>6. sum = [j \in 0..n |-> IF j = 0 THEN 0 ELSE sum[j - 1] + Weight(f, r, j)]
  BY <1>5
<1> HIDE DEF sum
<1>7. /\ sum[0] = 0
      /\ \A j \in 1..n : sum[j] = sum[j - 1] + Weight(f, r, j)
  BY <1>1, <1>6
<1>8. \A j \in 0..n : sum[j] \in Nat
  <2> DEFINE odd == {j \in 0..n : sum[j] \notin Nat}
  <2>1. SUFFICES ASSUME odd # {} PROVE FALSE
    OBVIOUS
  <2>2. PICK j \in odd : \A m \in odd : j <= m
    <3>1. odd \in SUBSET Nat
      BY <1>1
    <3> HIDE DEF odd
    <3> QED BY <2>1, <3>1, Smallest
  <2>3. j \in 1..n /\ j - 1 \in 0..n /\ j - 1 \notin odd
    BY <1>1, <1>7, <2>2
  <2>4. sum[j - 1] \in Nat /\ Weight(f, r, j) \in Nat
    BY <2>3, WeightType
  <2> QED BY <1>7, <2>2, <2>3, <2>4
<1>9. QED BY <1>1, <1>2, <1>7, <1>8

(* No sum exceeds the last one.                                            *)
LEMMA SumsInOrder ==
  ASSUME NEW f \in Definition, NEW r \in Rollout, NEW i \in 0..Len(f.variants)
  PROVE  Cumulative(f, r, i) <= Cumulative(f, r, Len(f.variants))
<1> DEFINE n == Len(f.variants)
           odd == {m \in i..n : ~(Cumulative(f, r, i) <= Cumulative(f, r, m))}
<1>1. n \in Nat /\ i \in Nat /\ n \in i..n
  BY DEF Definition
<1>2. \A m \in 0..n : Cumulative(f, r, m) \in Nat
  BY CumulativeSums
<1>3. SUFFICES ASSUME odd # {} PROVE FALSE
  BY <1>1
<1>4. PICK m \in odd : \A x \in odd : m <= x
  <2>1. odd \in SUBSET Nat
    BY <1>1
  <2> HIDE DEF odd
  <2> QED BY <1>3, <2>1, Smallest
<1>5. m \in 1..n /\ m > i
  <2>1. m \in i..n /\ m # i
    BY <1>1, <1>2, <1>4
  <2> QED BY <1>1, <2>1
<1>6. m - 1 \in i..n /\ m - 1 \notin odd /\ m - 1 \in 0..n /\ m \in 0..n
  BY <1>1, <1>4, <1>5
<1>7. PICK a \in Nat, b \in Nat, c \in Nat, d \in Nat :
        /\ a = Cumulative(f, r, i) /\ b = Cumulative(f, r, m - 1)
        /\ c = Cumulative(f, r, m) /\ d = Weight(f, r, m)
  BY <1>2, <1>5, <1>6, WeightType
<1>8. a <= b /\ c = b + d /\ ~(a <= c)
  BY <1>4, <1>5, <1>6, <1>7, CumulativeSums
<1>9. QED BY <1>8

(* Sums are made of the variants and of the rollout's splits only.         *)
LEMMA SumsAgree ==
  ASSUME NEW f \in Definition, NEW g \in Definition, NEW r \in Rollout, NEW q \in Rollout,
         f.variants = g.variants, r.splits = q.splits
  PROVE  \A i \in 0..Len(f.variants) : Cumulative(f, r, i) = Cumulative(g, q, i)
<1> DEFINE n == Len(f.variants)
           differ == {i \in 0..n : Cumulative(f, r, i) # Cumulative(g, q, i)}
<1>1. n \in Nat
  BY DEF Definition
<1>2. \A i \in 1..n : Weight(f, r, i) = Weight(g, q, i)
  BY DEF Split, Weight
<1>3. SUFFICES ASSUME differ # {} PROVE FALSE
  OBVIOUS
<1>4. PICK i \in differ : \A m \in differ : i <= m
  <2>1. differ \in SUBSET Nat
    BY <1>1
  <2> HIDE DEF differ
  <2> QED BY <1>3, <2>1, Smallest
<1>5. i \in 1..n
  BY <1>1, <1>4, CumulativeSums
<1>6. i - 1 \in 0..n /\ i - 1 \notin differ
  BY <1>1, <1>4, <1>5
<1>7. Cumulative(f, r, i - 1) = Cumulative(g, q, i - 1)
  BY <1>6
<1>8. /\ Cumulative(f, r, i) = Cumulative(f, r, i - 1) + Weight(f, r, i)
      /\ Cumulative(g, q, i) = Cumulative(g, q, i - 1) + Weight(g, q, i)
  BY <1>5, CumulativeSums
<1>9. QED BY <1>2, <1>4, <1>5, <1>7, <1>8

(* So is the selection, and which variants rounding helps.                 *)
LEMMA SelectionsAgree ==
  ASSUME NEW f \in Definition, NEW g \in Definition, NEW r \in Rollout, NEW q \in Rollout,
         f.variants = g.variants, r.splits = q.splits, f.roundsUp = g.roundsUp, NEW hash
  PROVE  Selected(f, r, hash) = Selected(g, q, hash)
<1> DEFINE n == Len(f.variants)
<1>1. DOMAIN f.variants = 1..n /\ n \in Nat
  BY DEF Definition
<1>2. \A i \in 0..n : Cumulative(f, r, i) = Cumulative(g, q, i)
  BY SumsAgree
<1>3. \A i \in 1..n : Split(f, r, i) = Split(g, q, i) /\ Weight(f, r, i) = Weight(g, q, i)
  BY DEF Split, Weight
<1>4. ASSUME NEW i \in 1..n PROVE Below(f, r, hash, i) <=> Below(g, q, hash, i)
  <2>1. \A j \in 1..i : j \in 0..n /\ j - 1 \in 0..n /\ j \in 1..n
    BY <1>1
  <2>2. i \in 0..n
    BY <1>1
  <2> QED BY <1>2, <1>3, <2>1, <2>2 DEF Below
<1>5. {i \in DOMAIN f.variants : Split(f, r, i) = None \/ Below(f, r, hash, i)} =
      {i \in DOMAIN g.variants : Split(g, q, i) = None \/ Below(g, q, hash, i)}
  BY <1>1, <1>3, <1>4
<1>6. QED BY <1>5 DEF Selected

(* So is the assignment, if the overrides are the same.                    *)
LEMMA AssignmentsAgree ==
  ASSUME NEW f \in Definition, NEW g \in Definition, NEW r \in Rollout, NEW q \in Rollout,
         f.variants = g.variants, r.splits = q.splits, f.roundsUp = g.roundsUp,
         r.override = q.override, NEW ctx
  PROVE  AssignedVariant(f, r, ctx) = AssignedVariant(g, q, ctx)
<1>1. Selected(f, r, ctx.variant) = Selected(g, q, ctx.variant)
  BY SelectionsAgree
<1>2. Matching(r.override, f) = Matching(q.override, g)
  BY DEF Matching
<1>3. \A i : Split(f, r, i) = Split(g, q, i)
  BY DEF Split
<1>4. QED BY <1>1, <1>2, <1>3 DEF AssignedVariant

-----------------------------------------------------------------------------
(* Nobody loses a variant                                                  *)

(* g is f with rollouts widened.                                           *)
Widens(f, g) ==
  /\ f \in Definition /\ g \in Definition
  /\ f.variants = g.variants /\ f.salted = g.salted
  /\ f.testVariant = g.testVariant /\ f.roundsUp = g.roundsUp
  /\ \A i \in 1..2 :
       /\ f.rollouts[i].percentage <= g.rollouts[i].percentage
       /\ f.rollouts[i].rule = g.rollouts[i].rule
       /\ f.rollouts[i].override = g.rollouts[i].override
       /\ f.rollouts[i].splits = g.rollouts[i].splits

(* A user who stops at a rollout still stops at it once it is widened.     *)
LEMMA StillStops ==
  ASSUME NEW f, NEW g, Widens(f, g), NEW i \in 1..2, NEW ctx \in Contexts, StopsAt(f, i, ctx)
  PROVE  StopsAt(g, i, ctx)
<1>1. RuleSatisfied(f.rollouts[i], ctx) = RuleSatisfied(g.rollouts[i], ctx)
  BY DEF Widens, RuleSatisfied
<1>2. RolloutHash(f, i, ctx) = RolloutHash(g, i, ctx)
  BY DEF Widens, RolloutHash
<1>3. RolloutHash(f, i, ctx) \in Int
  BY ContextType, BucketsAssumption DEF RolloutHash, Bucket
<1>4. f.rollouts[i].percentage \in Int /\ g.rollouts[i].percentage \in Int
  BY BucketsAssumption DEF Widens, Definition, Rollout
<1>5. f.rollouts[i].percentage <= g.rollouts[i].percentage
  BY DEF Widens
<1>6. QED BY <1>1, <1>2, <1>3, <1>4, <1>5 DEF StopsAt

(* A user gets a variant or an exception from a rollout that fits, and the *)
(* fallback if none does.                                                  *)
LEMMA UserAnswers ==
  ASSUME NEW f \in Definition, NEW ctx \in Users,
         NEW i, i = AssignedRollout(f, ctx)
  PROVE  /\ i = 0 => GetVariant(f, ctx).kind = "fallback"
         /\ i # 0 => /\ i \in 1..2 /\ StopsAt(f, i, ctx) /\ f.rollouts[i] \in Rollout
                     /\ GetVariant(f, ctx).kind \in {"raised", "variant"}
                     /\ GetVariant(f, ctx) =
                          IF RuleSatisfied(f.rollouts[i], ctx) = "raise" THEN Raised
                          ELSE AssignedVariant(f, f.rollouts[i], ctx)
<1>1. ctx \in Contexts /\ ctx.hasContext /\ ctx.id = "other"
  BY DEF Contexts, Users
<1>2. ~IsTester(f, ctx) /\ ~CannotLookUp(f, ctx)
  BY <1>1 DEF IsTester, CannotLookUp
<1>3. CASE i = 0
  BY <1>1, <1>2, <1>3, LookupCases, AnswersDiffer
<1>4. CASE i # 0
  <2>1. i \in 1..2 /\ StopsAt(f, i, ctx) /\ f.rollouts[i] \in Rollout
    BY <1>4, FirstThatFits DEF Definition
  <2>2. GetVariant(f, ctx) = IF RuleSatisfied(f.rollouts[i], ctx) = "raise" THEN Raised
                             ELSE AssignedVariant(f, f.rollouts[i], ctx)
    BY <1>1, <1>2, <1>4, LookupCases
  <2>3. AssignedVariant(f, f.rollouts[i], ctx).kind \in {"raised", "variant"}
    BY <2>1, AssignsVariant, AnswersDiffer
  <2> QED BY <1>4, <2>1, <2>2, <2>3, AnswersDiffer
<1>5. QED BY <1>3, <1>4

(* Widened rollouts do not give a user with a variant the fallback.        *)
LEMMA NoFallback ==
  ASSUME NEW f, NEW g, Widens(f, g), NEW ctx \in Users, GetVariant(f, ctx).kind = "variant"
  PROVE  AssignedRollout(f, ctx) \in 1..2 /\ AssignedRollout(g, ctx) \in 1..2
<1>1. f \in Definition /\ g \in Definition /\ ctx \in Contexts
  BY DEF Widens, Contexts
<1>2. AssignedRollout(f, ctx) \in 1..2 /\ StopsAt(f, AssignedRollout(f, ctx), ctx)
  <2>1. "variant" # "fallback"
    OBVIOUS
  <2> QED BY <1>1, <2>1, UserAnswers
<1>3. StopsAt(g, AssignedRollout(f, ctx), ctx)
  BY <1>1, <1>2, StillStops
<1>4. QED BY <1>1, <1>2, <1>3, FirstThatFits

(* In the rollout it is in, a widened rollout answers a user as it did.    *)
LEMMA SameAnswer ==
  ASSUME NEW f, NEW g, Widens(f, g), NEW ctx \in Users,
         NEW i \in 1..2, i = AssignedRollout(f, ctx), NEW j \in 1..2, j = AssignedRollout(g, ctx),
         RuleSatisfied(f.rollouts[i], ctx) # "raise", RuleSatisfied(g.rollouts[j], ctx) # "raise",
         f.rollouts[i].override = g.rollouts[j].override,
         f.rollouts[i].splits = g.rollouts[j].splits
  PROVE  GetVariant(g, ctx) = GetVariant(f, ctx)
<1>1. /\ f \in Definition /\ g \in Definition
      /\ f.variants = g.variants /\ f.roundsUp = g.roundsUp
  BY DEF Widens
<1>2. i # 0 /\ j # 0
  OBVIOUS
<1>3. /\ f.rollouts[i] \in Rollout /\ GetVariant(f, ctx) = AssignedVariant(f, f.rollouts[i], ctx)
      /\ g.rollouts[j] \in Rollout /\ GetVariant(g, ctx) = AssignedVariant(g, g.rollouts[j], ctx)
  BY <1>1, <1>2, UserAnswers
<1>4. QED BY <1>1, <1>3, AssignmentsAgree

(* Widened rollouts keep a user's variant, or move the user to a rollout   *)
(* that makes the lookup raise.                                            *)
LEMMA KeptByWidening ==
  ASSUME NEW f, NEW g, Widens(f, g), NEW ctx \in Users, GetVariant(f, ctx).kind = "variant"
  PROVE  /\ GetVariant(g, ctx).kind # "fallback"
         /\ GetVariant(g, ctx).kind = "raised" => Moved(f, g, ctx)
         /\ GetVariant(g, ctx).kind = "variant" /\ Uniform(f) =>
              GetVariant(g, ctx).key = GetVariant(f, ctx).key
<1>1. /\ f \in Definition /\ g \in Definition /\ ctx \in Contexts
      /\ DOMAIN f.rollouts = 1..2 /\ f.variants = g.variants
  BY DEF Widens, Contexts, Definition
<1>2. PICK i \in 1..2, j \in 1..2 : i = AssignedRollout(f, ctx) /\ j = AssignedRollout(g, ctx)
  BY NoFallback
<1>3. i # 0 /\ j # 0
  OBVIOUS
<1>4. /\ GetVariant(f, ctx) = IF RuleSatisfied(f.rollouts[i], ctx) = "raise" THEN Raised
                              ELSE AssignedVariant(f, f.rollouts[i], ctx)
      /\ GetVariant(g, ctx) = IF RuleSatisfied(g.rollouts[j], ctx) = "raise" THEN Raised
                              ELSE AssignedVariant(g, g.rollouts[j], ctx)
      /\ GetVariant(g, ctx).kind \in {"raised", "variant"}
      /\ g.rollouts[j] \in Rollout
  BY <1>1, <1>2, <1>3, UserAnswers
<1>5. RuleSatisfied(f.rollouts[i], ctx) # "raise"
  BY <1>4, AnswersDiffer
<1>6. /\ f.rollouts[j].override = g.rollouts[j].override
      /\ f.rollouts[j].splits = g.rollouts[j].splits
      /\ f.rollouts[j].rule = g.rollouts[j].rule
  BY DEF Widens
<1>7. Uniform(f) => /\ f.rollouts[i].override = g.rollouts[j].override
                    /\ f.rollouts[i].splits = g.rollouts[j].splits
  BY <1>1, <1>6 DEF Uniform
<1>8. CASE GetVariant(g, ctx).kind = "variant"
  <2>1. RuleSatisfied(g.rollouts[j], ctx) # "raise"
    BY <1>4, <1>8, AnswersDiffer
  <2>2. Uniform(f) => GetVariant(g, ctx) = GetVariant(f, ctx)
    BY <1>2, <1>5, <1>7, <2>1, SameAnswer
  <2> QED BY <1>8, <2>2
<1>9. CASE GetVariant(g, ctx).kind = "raised"
  <2>1. CASE RuleSatisfied(g.rollouts[j], ctx) = "raise"
    <3>1. g.rollouts[j].rule = "legacy" /\ ctx.properties = "odd"
      BY <1>4, <2>1, RuleCases
    <3>2. i # j
      BY <1>5, <1>6, <2>1 DEF RuleSatisfied
    <3> QED BY <1>2, <1>3, <1>9, <3>1, <3>2 DEF Moved
  <2>2. CASE RuleSatisfied(g.rollouts[j], ctx) # "raise"
    <3>1. ~(/\ f.rollouts[i].override = g.rollouts[j].override
            /\ f.rollouts[i].splits = g.rollouts[j].splits)
      <4>1. GetVariant(g, ctx) # GetVariant(f, ctx)
        BY <1>9
      <4> QED BY <1>2, <1>5, <2>2, <4>1, SameAnswer
    <3>2. ~Uniform(f) /\ i # j
      BY <1>6, <1>7, <3>1
    <3>3. AssignedVariant(g, g.rollouts[j], ctx).kind = "raised"
      BY <1>4, <1>9, <2>2
    <3>4. f.variants = <<>> \/ HasNull(g, g.rollouts[j])
      BY <1>1, <1>4, <3>3, AssignsVariant, AnswersDiffer
    <3>5. f.variants # <<>>
      <4>1. AssignedVariant(f, f.rollouts[i], ctx).kind = "variant" /\ f.rollouts[i] \in Rollout
        BY <1>1, <1>4, <1>5 DEF Definition
      <4>2. PICK k \in DOMAIN f.variants :
              AssignedVariant(f, f.rollouts[i], ctx) = Chosen(f.variants[k].key)
        BY <1>1, <4>1, AssignsVariant, AnswersDiffer
      <4> QED BY <4>2
    <3> QED BY <1>2, <1>3, <1>9, <3>2, <3>4, <3>5 DEF Moved
  <2> QED BY <2>1, <2>2
<1>10. QED BY <1>4, <1>8, <1>9

(* No edit of the server gives a user who had a variant the fallback, nor  *)
(* another variant where rollouts agree on overrides and splits; only a    *)
(* move to another rollout can turn the variant into an exception, and     *)
(* only by that rollout's legacy rule or a null in its splits.             *)
THEOREM VariantsKept == Spec => KeepsVariant
<1>1. IInv /\ [Next]_vars =>
        [flag # None => \A ctx \in Users :
           LET before == GetVariant(flag, ctx)
               after  == GetVariant(flag', ctx)
           IN before.kind = "variant" =>
                /\ after.kind # "fallback"
                /\ after.kind = "raised" => Moved(flag, flag', ctx)
                /\ after.kind = "variant" /\ Uniform(flag) => after.key = before.key]_flag
  <2>1. SUFFICES ASSUME IInv, [Next]_vars, flag' # flag, flag # None,
                        NEW ctx \in Users,
                        GetVariant(flag, ctx).kind = "variant"
                 PROVE  /\ GetVariant(flag', ctx).kind # "fallback"
                        /\ GetVariant(flag', ctx).kind = "raised" => Moved(flag, flag', ctx)
                        /\ GetVariant(flag', ctx).kind = "variant" /\ Uniform(flag) =>
                             GetVariant(flag', ctx).key = GetVariant(flag, ctx).key
    OBVIOUS
  <2>2. FetchDefinition
    BY <2>1 DEF Next, WidenRollout, ReorderVariants, vars
  <2>3. /\ flag' = Store(server) /\ Behind(flag, server)
        /\ server \in Definition /\ KeysDiffer(server.variants)
    BY <2>1, <2>2, InvIsStored DEF FetchDefinition, Stored
  <2>4. /\ flag' \in Definition /\ flag'.variants = Sorted(server.variants)
        /\ flag'.rollouts = server.rollouts
    BY <2>3, StoreType
  <2>5. flag'.salted = server.salted /\ flag'.testVariant = server.testVariant
        /\ flag'.roundsUp = server.roundsUp
    BY <2>3 DEF Store, Definition
  <2>6. Widens(flag, flag')
    BY <2>3, <2>4, <2>5 DEF Widens, Behind
  <2> QED BY <2>1, <2>6, KeptByWidening
<1>2. QED BY InvCorrect, <1>1, PTL DEF Spec, KeepsVariant

-----------------------------------------------------------------------------
(* The reach of rollouts                                                   *)

Hashes == [1..2 -> Bucket]

(* The users whose two hashes are at least a and b.                        *)
Corner(a, b) == {h \in Hashes : a <= h[1] /\ b <= h[2]}

(* A corner is a product of two intervals.                                 *)
LEMMA CornerSize ==
  ASSUME NEW a \in 0..Buckets, NEW b \in 0..Buckets
  PROVE  IsFiniteSet(Corner(a, b)) /\ Cardinality(Corner(a, b)) = (Buckets - a) * (Buckets - b)
<1>1. Buckets \in Nat /\ Buckets > 0
  BY BucketsAssumption
<1>2. PICK top \in Int : top = Buckets - 1
  BY <1>1
<1> DEFINE A == a..top
           B == b..top
           pair == [x \in A \X B |-> [i \in 1..2 |-> IF i = 1 THEN x[1] ELSE x[2]]]
<1>3. IsFiniteSet(A) /\ Cardinality(A) = Buckets - a
  <2>1. IsFiniteSet(A) /\ Cardinality(A) = IF a > top THEN 0 ELSE top - a + 1
    BY FS_Interval
  <2> QED BY <1>1, <1>2, <2>1
<1>4. IsFiniteSet(B) /\ Cardinality(B) = Buckets - b
  <2>1. IsFiniteSet(B) /\ Cardinality(B) = IF b > top THEN 0 ELSE top - b + 1
    BY FS_Interval
  <2> QED BY <1>1, <1>2, <2>1
<1>5. A \subseteq Bucket /\ B \subseteq Bucket
  BY <1>1, <1>2 DEF Bucket
<1>6. pair \in [A \X B -> Corner(a, b)]
  <2>1. ASSUME NEW x \in A \X B PROVE pair[x] \in Corner(a, b)
    <3>1. x[1] \in A /\ x[2] \in B /\ pair[x] = [i \in 1..2 |-> IF i = 1 THEN x[1] ELSE x[2]]
      OBVIOUS
    <3>2. pair[x] \in Hashes
      BY <1>5, <3>1 DEF Hashes
    <3>3. pair[x][1] = x[1] /\ pair[x][2] = x[2]
      BY <3>1
    <3> QED BY <3>1, <3>2, <3>3 DEF Corner
  <2> QED BY <2>1
<1>7. ASSUME NEW x \in A \X B, NEW y \in A \X B, pair[x] = pair[y] PROVE x = y
  <2>1. /\ pair[x][1] = x[1] /\ pair[x][2] = x[2]
        /\ pair[y][1] = y[1] /\ pair[y][2] = y[2]
    OBVIOUS
  <2> HIDE DEF pair
  <2>2. x[1] = y[1] /\ x[2] = y[2]
    BY <1>7, <2>1
  <2> QED BY <2>2
<1>8. ASSUME NEW h \in Corner(a, b) PROVE \E x \in A \X B : pair[x] = h
  <2>1. h \in [1..2 -> Bucket] /\ a <= h[1] /\ b <= h[2]
    BY DEF Corner, Hashes
  <2>2. h[1] \in A /\ h[2] \in B
    BY <1>1, <1>2, <2>1 DEF Bucket
  <2>3. <<h[1], h[2]>> \in A \X B
    BY <2>2
  <2>4. pair[<<h[1], h[2]>>] = [i \in 1..2 |-> IF i = 1 THEN h[1] ELSE h[2]]
    BY <2>3
  <2>5. [i \in 1..2 |-> IF i = 1 THEN h[1] ELSE h[2]] = h
    BY <2>1
  <2> QED BY <2>3, <2>4, <2>5
<1> HIDE DEF pair, A, B
<1>9. ExistsBijection(A \X B, Corner(a, b))
  <2>1. pair \in Bijection(A \X B, Corner(a, b))
    BY <1>6, <1>7, <1>8 DEF Bijection, Injection, Surjection, IsInjective
  <2> QED BY <2>1 DEF ExistsBijection
<1>10. IsFiniteSet(A \X B) /\ Cardinality(A \X B) = Cardinality(A) * Cardinality(B)
  BY <1>3, <1>4, FS_Product
<1>11. QED BY <1>3, <1>4, <1>9, <1>10, FS_Bijection

(* Max of two numbers.                                                     *)
LEMMA LargerOfTwo ==
  ASSUME NEW a \in Int, NEW b \in Int
  PROVE  Max({a, b}) = IF a >= b THEN a ELSE b
<1> DEFINE m == IF a >= b THEN a ELSE b
<1>1. m \in {a, b} /\ \A x \in {a, b} : m >= x
  OBVIOUS
<1>2. \A x \in {a, b} : (\A y \in {a, b} : x >= y) => x = m
  OBVIOUS
<1> HIDE DEF m
<1>3. Max({a, b}) = m
  BY <1>1, <1>2 DEF Max
<1>4. QED BY <1>3 DEF m

(* A user whose properties satisfy the rules is reached by the rollouts    *)
(* whose percentage is above the hash.                                     *)
LEMMA ReachedByHash ==
  ASSUME NEW f \in Definition
  PROVE  Reached(f) = {h \in Hashes : \E i \in 1..2 :
                         h[IF f.salted THEN i ELSE 1] < f.rollouts[i].percentage}
<1>1. ASSUME NEW h \in Hashes
      PROVE  AssignedRollout(f, [properties |-> "match", rollout |-> h]) # 0
             <=> \E i \in 1..2 : h[IF f.salted THEN i ELSE 1] < f.rollouts[i].percentage
  <2> DEFINE ctx == [properties |-> "match", rollout |-> h]
  <2>1. ASSUME NEW i \in 1..2
        PROVE  StopsAt(f, i, ctx) <=> h[IF f.salted THEN i ELSE 1] < f.rollouts[i].percentage
    <3>1. ctx.properties = "match" /\ ctx.rollout = h
      OBVIOUS
    <3> HIDE DEF ctx
    <3>2. RuleSatisfied(f.rollouts[i], ctx) = "yes"
      BY <3>1 DEF RuleSatisfied
    <3> QED BY <3>1, <3>2 DEF StopsAt, RolloutHash
  <2> HIDE DEF ctx
  <2>2. AssignedRollout(f, ctx) # 0 <=> \E i \in 1..2 : StopsAt(f, i, ctx)
    BY FirstThatFits
  <2> QED BY <2>1, <2>2 DEF ctx
<1>2. QED BY <1>1 DEF Reached, Hashes

(* Those who are not reached are in a corner.                              *)
LEMMA ReachOfRollouts ==
  ASSUME NEW f \in Definition,
         NEW p, p = f.rollouts[1].percentage, NEW q, q = f.rollouts[2].percentage
  PROVE  Cardinality(Reached(f)) =
           Buckets * Buckets - IF f.salted THEN (Buckets - p) * (Buckets - q)
                               ELSE Buckets * (Buckets - Max({p, q}))
<1>1. Buckets \in Nat /\ p \in 0..Buckets /\ q \in 0..Buckets
  BY BucketsAssumption DEF Definition, Rollout
<1>2. Hashes = Corner(0, 0)
  BY BucketsAssumption DEF Corner, Hashes, Bucket
<1>3. IsFiniteSet(Hashes) /\ Cardinality(Hashes) = (Buckets - 0) * (Buckets - 0)
  BY <1>1, <1>2, CornerSize
<1>4. ASSUME NEW a \in 0..Buckets, NEW b \in 0..Buckets, Reached(f) = Hashes \ Corner(a, b)
      PROVE  Cardinality(Reached(f)) = Buckets * Buckets - (Buckets - a) * (Buckets - b)
  <2>1. Hashes \cap Corner(a, b) = Corner(a, b)
    BY DEF Corner
  <2>2. Cardinality(Hashes \ Corner(a, b)) =
          Cardinality(Hashes) - Cardinality(Hashes \cap Corner(a, b))
    BY <1>3, FS_Difference
  <2>3. Cardinality(Corner(a, b)) = (Buckets - a) * (Buckets - b)
    BY CornerSize
  <2>4. (Buckets - 0) * (Buckets - 0) = Buckets * Buckets
    BY <1>1
  <2> QED BY <1>3, <1>4, <2>1, <2>2, <2>3, <2>4
<1>5. \A h \in Hashes : h[1] \in Int /\ h[2] \in Int
  BY BucketsAssumption DEF Hashes, Bucket
<1>6. CASE f.salted
  <2>1. Reached(f) = Hashes \ Corner(p, q)
    BY <1>1, <1>5, <1>6, ReachedByHash DEF Corner
  <2> QED BY <1>1, <1>4, <1>6, <2>1
<1>7. CASE ~f.salted
  <2> DEFINE m == IF p >= q THEN p ELSE q
  <2>1. m \in 0..Buckets /\ Max({p, q}) = m
    BY <1>1, LargerOfTwo
  <2>2. Reached(f) = Hashes \ Corner(m, 0)
    <3>1. \A h \in Hashes : h[2] >= 0
      BY BucketsAssumption DEF Hashes, Bucket
    <3> QED BY <1>1, <1>5, <1>7, <3>1, ReachedByHash DEF Corner
  <2> HIDE DEF m
  <2>3. Cardinality(Reached(f)) = Buckets * Buckets - (Buckets - m) * (Buckets - 0)
    <3>1. 0 \in 0..Buckets
      BY <1>1
    <3> QED BY <1>4, <2>1, <2>2, <3>1
  <2>4. (Buckets - m) * (Buckets - 0) = Buckets * (Buckets - m)
    BY <1>1, <2>1
  <2> QED BY <1>7, <2>1, <2>3, <2>4
<1>8. QED BY <1>6, <1>7

(* Rollouts reach as many users as the widest of them if they share a      *)
(* hash, and all but the product of what they leave out if they do not.    *)
THEOREM ReachCorrect == Spec => []RolloutsReachTheirShare
<1>1. IInv => RolloutsReachTheirShare
  <2>1. SUFFICES ASSUME IInv, flag # None PROVE RolloutsReachTheirShare
    BY DEF RolloutsReachTheirShare
  <2>2. flag \in Definition
    BY <2>1 DEF IInv
  <2> DEFINE p == flag.rollouts[1].percentage
             q == flag.rollouts[2].percentage
  <2>3. Cardinality(Reached(flag)) =
          Buckets * Buckets - IF flag.salted THEN (Buckets - p) * (Buckets - q)
                              ELSE Buckets * (Buckets - Max({p, q}))
    BY <2>2, ReachOfRollouts
  <2> QED BY <2>3 DEF RolloutsReachTheirShare
<1>2. QED BY InvCorrect, <1>1, PTL

-----------------------------------------------------------------------------
(* Shares                                                                  *)

(* Rounding moves the end of variant i's share up by one bucket.           *)
Rounded(f, r, i) ==
  \E j \in f.roundsUp \cap 1..i :
    /\ Weight(f, r, j) > 0 /\ Cumulative(f, r, j - 1) > 0
    /\ Cumulative(f, r, j) = Cumulative(f, r, i)

EndOfShare(f, r, i) == Cumulative(f, r, i) + IF Rounded(f, r, i) THEN 1 ELSE 0

(* The loop stops at a variant if the hash is below the end of its share.  *)
LEMMA BelowItsEnd ==
  ASSUME NEW f \in Definition, NEW r \in Rollout, NEW hash \in Bucket,
         NEW i \in 1..Len(f.variants)
  PROVE  Below(f, r, hash, i) <=> hash < EndOfShare(f, r, i)
<1>1. Cumulative(f, r, i) \in Nat
  BY CumulativeSums DEF Definition
<1>2. hash \in Int
  BY BucketsAssumption DEF Bucket
<1>3. CASE hash = Cumulative(f, r, i)
  <2>1. ~(hash < Cumulative(f, r, i))
    BY <1>1, <1>3
  <2>2. Below(f, r, hash, i) <=> Rounded(f, r, i)
    BY <1>3, <2>1, Zenon DEF Below, Rounded
  <2>3. CASE Rounded(f, r, i)
    BY <1>1, <1>3, <2>2, <2>3 DEF EndOfShare
  <2>4. CASE ~Rounded(f, r, i)
    BY <1>1, <1>3, <2>2, <2>4 DEF EndOfShare
  <2> QED BY <2>3, <2>4
<1>4. CASE hash # Cumulative(f, r, i)
  <2>1. Below(f, r, hash, i) <=> hash < Cumulative(f, r, i)
    BY <1>4, Zenon DEF Below
  <2> QED BY <1>1, <1>2, <1>4, <2>1 DEF EndOfShare
<1>5. QED BY <1>3, <1>4

(* From one variant to the next, the end of the share moves by the split,  *)
(* give or take one, and not at all if the split is 0.                     *)
LEMMA NextEnd ==
  ASSUME NEW f \in Definition, NEW r \in Rollout, NEW i \in 1..Len(f.variants)
  PROVE  /\ EndOfShare(f, r, i) \in Nat /\ EndOfShare(f, r, i - 1) \in Nat
         /\ EndOfShare(f, r, i) - EndOfShare(f, r, i - 1) - Weight(f, r, i) \in {-1, 0, 1}
         /\ EndOfShare(f, r, i) >= EndOfShare(f, r, i - 1)
         /\ Weight(f, r, i) = 0 => EndOfShare(f, r, i) = EndOfShare(f, r, i - 1)
<1>1. i - 1 \in 0..Len(f.variants) /\ i \in 0..Len(f.variants) /\ i \in Nat
  BY DEF Definition
<1>2. PICK c \in Nat, d \in Nat, s \in Nat :
        /\ c = Cumulative(f, r, i - 1) /\ d = Cumulative(f, r, i) /\ s = Weight(f, r, i)
        /\ d = c + s
  <2>1. Cumulative(f, r, i - 1) \in Nat /\ Cumulative(f, r, i) \in Nat /\ Weight(f, r, i) \in Nat
    BY <1>1, CumulativeSums, WeightType
  <2>2. Cumulative(f, r, i) = Cumulative(f, r, i - 1) + Weight(f, r, i)
    BY CumulativeSums
  <2> QED BY <2>1, <2>2
<1>3. s = 0 => (Rounded(f, r, i) <=> Rounded(f, r, i - 1))
  <2>1. SUFFICES ASSUME s = 0 PROVE Rounded(f, r, i) <=> Rounded(f, r, i - 1)
    OBVIOUS
  <2>2. Cumulative(f, r, i) = Cumulative(f, r, i - 1)
    BY <1>2, <2>1
  <2>3. \A j \in f.roundsUp : Weight(f, r, j) > 0 => (j \in 1..i <=> j \in 1..i-1)
    <3>1. ASSUME NEW j \in f.roundsUp, Weight(f, r, j) > 0 PROVE j # i
      <4>1. ~(Weight(f, r, i) > 0)
        BY <1>2, <2>1
      <4> QED BY <3>1, <4>1
    <3>2. \A j \in f.roundsUp : j \in Nat
      BY DEF Definition
    <3> QED BY <1>1, <3>1, <3>2
  <2> QED BY <2>2, <2>3 DEF Rounded
<1>4. PICK a \in {0, 1}, b \in {0, 1} :
        /\ EndOfShare(f, r, i - 1) = c + a /\ EndOfShare(f, r, i) = d + b
        /\ s = 0 => a = b
  <2> DEFINE up(k) == IF Rounded(f, r, k) THEN 1 ELSE 0
  <2>1. up(i - 1) \in {0, 1} /\ up(i) \in {0, 1}
    OBVIOUS
  <2>2. EndOfShare(f, r, i - 1) = c + up(i - 1) /\ EndOfShare(f, r, i) = d + up(i)
    BY <1>2 DEF EndOfShare
  <2>3. s = 0 => up(i - 1) = up(i)
    BY <1>3
  <2> HIDE DEF up
  <2> QED BY <2>1, <2>2, <2>3
<1>5. /\ d + b \in Nat /\ c + a \in Nat /\ d = c + s
      /\ s = 0 => d + b = c + a
  <2>1. d = c + s /\ a \in Nat /\ b \in Nat
    BY <1>2
  <2>2. s = 0 => d + b = c + a
    BY <1>4, <2>1
  <2> QED BY <2>1, <2>2
<1>6. (d + b) - (c + a) - s \in {-1, 0, 1} /\ d + b >= c + a
  <2>1. CASE s = 0
    BY <1>5, <2>1
  <2>2. CASE s > 0 /\ a = 0
    BY <1>5, <2>2
  <2>3. CASE s > 0 /\ a = 1
    BY <1>5, <2>3
  <2> QED BY <2>1, <2>2, <2>3
<1>7. QED BY <1>2, <1>4, <1>5, <1>6

(* Before the first variant no share has begun.                            *)
LEMMA FirstEnd ==
  ASSUME NEW f \in Definition, NEW r \in Rollout
  PROVE  EndOfShare(f, r, 0) = 0
<1>1. Cumulative(f, r, 0) = 0
  BY CumulativeSums
<1>2. 1..0 = {}
  OBVIOUS
<1>3. ~ Rounded(f, r, 0)
  BY <1>2 DEF Rounded
<1>4. QED BY <1>1, <1>3 DEF EndOfShare

(* Ends of shares are in the order of the variants.                        *)
LEMMA EndsInOrder ==
  ASSUME NEW f \in Definition, NEW r \in Rollout,
         NEW i \in 0..Len(f.variants), NEW k \in 0..Len(f.variants), i <= k
  PROVE  EndOfShare(f, r, i) <= EndOfShare(f, r, k)
<1> DEFINE n == Len(f.variants)
           odd == {m \in i..n : ~(EndOfShare(f, r, i) <= EndOfShare(f, r, m))}
<1>1. n \in Nat /\ i \in Nat
  BY DEF Definition
<1>2. \A m \in 0..n : EndOfShare(f, r, m) \in Nat
  <2>1. ASSUME NEW m \in 0..n PROVE EndOfShare(f, r, m) \in Nat
    <3>1. m = 0 \/ m \in 1..n
      BY <1>1
    <3> QED BY <3>1, FirstEnd, NextEnd
  <2> QED BY <2>1
<1>3. SUFFICES ASSUME odd # {} PROVE FALSE
  BY <1>1
<1>4. PICK m \in odd : \A x \in odd : m <= x
  <2>1. odd \in SUBSET Nat
    BY <1>1
  <2> HIDE DEF odd
  <2> QED BY <1>3, <2>1, Smallest
<1>5. m \in 1..n /\ m > i
  <2>1. m \in i..n /\ m # i
    BY <1>1, <1>2, <1>4
  <2> QED BY <1>1, <2>1
<1>6. m - 1 \in i..n /\ m - 1 \notin odd /\ m - 1 \in 0..n /\ m \in 0..n
  BY <1>1, <1>4, <1>5
<1>7. /\ EndOfShare(f, r, i) <= EndOfShare(f, r, m - 1)
      /\ EndOfShare(f, r, m - 1) <= EndOfShare(f, r, m)
  BY <1>5, <1>6, NextEnd
<1>8. ~(EndOfShare(f, r, i) <= EndOfShare(f, r, m))
  BY <1>4
<1>9. /\ EndOfShare(f, r, i) \in Nat /\ EndOfShare(f, r, m) \in Nat
      /\ EndOfShare(f, r, m - 1) \in Nat
  BY <1>2, <1>6
<1>10. QED BY <1>7, <1>8, <1>9

(* The variant selected is the one whose end of the share the hash meets   *)
(* first.                                                                  *)
LEMMA SelectedByEnds ==
  ASSUME NEW f \in Definition, NEW r \in Rollout, NEW hash \in Bucket,
         NEW i \in 1..Len(f.variants), Cumulative(f, r, Len(f.variants)) = Buckets, ~HasNull(f, r)
  PROVE  Selected(f, r, hash) = i
           <=> EndOfShare(f, r, i - 1) <= hash /\ hash < EndOfShare(f, r, i)
<1> DEFINE n == Len(f.variants)
           hits == {k \in DOMAIN f.variants : Below(f, r, hash, k)}
           E(k) == EndOfShare(f, r, k)
<1>1. n \in Nat /\ DOMAIN f.variants = 1..n /\ n \in 1..n
  BY DEF Definition
<1>2. hash \in Nat /\ hash < Buckets
  BY BucketsAssumption DEF Bucket
<1>3. \A k \in 0..n : E(k) \in Nat
  <2>1. ASSUME NEW k \in 0..n PROVE E(k) \in Nat
    <3>1. k = 0 \/ k \in 1..n
      BY <1>1
    <3> QED BY <3>1, FirstEnd, NextEnd
  <2> QED BY <2>1
<1>4. E(n) >= Buckets
  BY BucketsAssumption DEF EndOfShare
<1>5. \A k \in 1..n : k \in hits <=> hash < E(k)
  BY <1>1, BelowItsEnd
<1>6. n \in hits /\ hits \in SUBSET Nat /\ hits \subseteq 1..n
  <2>1. hash < E(n)
    BY <1>1, <1>2, <1>3, <1>4, BucketsAssumption
  <2> QED BY <1>1, <1>5, <2>1
<1>7. Selected(f, r, hash) = Min(hits)
  <2>1. {k \in DOMAIN f.variants : Split(f, r, k) = None \/ Below(f, r, hash, k)} = hits
    BY DEF HasNull
  <2> QED BY <1>6, <2>1 DEF Selected
<1> HIDE DEF hits, E
<1>8. Min(hits) \in hits /\ \A m \in hits : Min(hits) <= m
  BY <1>6, MinIsSmallest
<1>9. Min(hits) = i <=> i \in hits /\ \A m \in hits : i <= m
  <2>1. i \in Nat
    BY <1>1
  <2>2. Min(hits) \in Nat
    BY <1>6, <1>8
  <2> QED BY <1>6, <1>8, <2>1, <2>2
<1>10. (\A m \in hits : i <= m) <=> E(i - 1) <= hash
  <2>1. i - 1 \in 0..n /\ i \in 0..n
    BY <1>1
  <2>2. ASSUME E(i - 1) <= hash, NEW m \in hits PROVE i <= m
    <3>1. m \in 1..n /\ m \in 0..n /\ hash < E(m)
      BY <1>1, <1>5, <1>6
    <3>2. CASE m <= i - 1
      <4>1. E(m) <= E(i - 1)
        BY <2>1, <3>1, <3>2, EndsInOrder DEF E
      <4> QED BY <1>2, <1>3, <2>1, <2>2, <3>1, <4>1
    <3> QED BY <1>1, <3>1, <3>2
  <2>3. ASSUME \A m \in hits : i <= m PROVE E(i - 1) <= hash
    <3>1. CASE i = 1
      BY <1>2, <3>1, FirstEnd DEF E
    <3>2. CASE i # 1
      <4>1. i - 1 \in 1..n /\ i - 1 \notin hits
        BY <1>1, <2>3, <3>2
      <4>2. ~(hash < E(i - 1))
        BY <1>5, <4>1
      <4> QED BY <1>2, <1>3, <2>1, <4>2
    <3> QED BY <3>1, <3>2
  <2> QED BY <2>2, <2>3
<1>11. i \in hits <=> hash < E(i)
  BY <1>5
<1>12. QED BY <1>7, <1>9, <1>10, <1>11 DEF E

(* A share is the part of 0..Buckets-1 between two ends.                   *)
LEMMA ShareSize ==
  ASSUME NEW f \in Definition, NEW r \in Rollout, NEW i \in 1..Len(f.variants),
         Cumulative(f, r, Len(f.variants)) = Buckets, ~HasNull(f, r)
  PROVE  LET end(k) == IF EndOfShare(f, r, k) > Buckets THEN Buckets ELSE EndOfShare(f, r, k)
         IN Share(f, r, i) = end(i) - end(i - 1)
<1> DEFINE end(k) == IF EndOfShare(f, r, k) > Buckets THEN Buckets ELSE EndOfShare(f, r, k)
<1>1. PICK a \in Nat, b \in Nat : a = EndOfShare(f, r, i - 1) /\ b = EndOfShare(f, r, i) /\ a <= b
  BY NextEnd
<1>2. PICK x \in Nat, y \in Nat : x = end(i - 1) /\ y = end(i) /\ x <= y /\ y <= Buckets
  BY <1>1, BucketsAssumption
<1>3. \A h \in Bucket : a <= h /\ h < b <=> h \in x..(y - 1)
  BY <1>1, <1>2, BucketsAssumption DEF Bucket
<1>4. x..(y - 1) \subseteq Bucket
  BY <1>2, BucketsAssumption DEF Bucket
<1>5. {h \in Bucket : Selected(f, r, h) = i} = {h \in Bucket : a <= h /\ h < b}
  BY <1>1, SelectedByEnds
<1>6. {h \in Bucket : Selected(f, r, h) = i} = x..(y - 1)
  BY <1>3, <1>4, <1>5
<1>7. Cardinality(x..(y - 1)) = y - x
  <2>1. x \in Int /\ y - 1 \in Int
    BY <1>2
  <2>2. Cardinality(x..(y - 1)) = IF x > y - 1 THEN 0 ELSE y - 1 - x + 1
    BY <2>1, FS_Interval
  <2> QED BY <1>2, <2>2
<1>8. QED BY <1>2, <1>6, <1>7 DEF Share

(* A share is the split, give or take a bucket.                            *)
LEMMA ShareIsSplit ==
  ASSUME NEW f \in Definition, NEW r \in Rollout, NEW i \in 1..Len(f.variants),
         Cumulative(f, r, Len(f.variants)) = Buckets, ~HasNull(f, r)
  PROVE  /\ Share(f, r, i) - Weight(f, r, i) \in {-1, 0, 1}
         /\ f.roundsUp = {} => Share(f, r, i) = Weight(f, r, i)
         /\ Weight(f, r, i) = 0 => Share(f, r, i) = 0
<1> DEFINE n == Len(f.variants)
<1>1. n \in Nat /\ i \in Nat /\ i - 1 \in 0..n /\ i \in 0..n /\ n \in 0..n
  BY DEF Definition
<1>2. PICK a \in Nat, b \in Nat, s \in Nat :
        /\ a = EndOfShare(f, r, i - 1) /\ b = EndOfShare(f, r, i) /\ s = Weight(f, r, i)
  BY NextEnd, WeightType
<1>3. b - a - s \in {-1, 0, 1} /\ b >= a /\ (s = 0 => b = a)
  BY <1>2, NextEnd
<1>4. PICK c \in Nat, d \in Nat :
        /\ c = Cumulative(f, r, i - 1) /\ d = Cumulative(f, r, i) /\ d = c + s
  <2>1. Cumulative(f, r, i - 1) \in Nat /\ Cumulative(f, r, i) \in Nat
    BY <1>1, CumulativeSums
  <2>2. Cumulative(f, r, i) = Cumulative(f, r, i - 1) + Weight(f, r, i)
    BY CumulativeSums
  <2> QED BY <1>2, <2>1, <2>2
<1>5. /\ a = c \/ a = c + 1
      /\ b = d \/ b = d + 1
      /\ f.roundsUp = {} => a = c /\ b = d
  <2>1. /\ a = c \/ a = c + 1
        /\ b = d \/ b = d + 1
    <3>1. a = c + IF Rounded(f, r, i - 1) THEN 1 ELSE 0
      BY <1>2, <1>4 DEF EndOfShare
    <3>2. b = d + IF Rounded(f, r, i) THEN 1 ELSE 0
      BY <1>2, <1>4 DEF EndOfShare
    <3>3. a = c \/ a = c + 1
      BY <3>1
    <3>4. b = d \/ b = d + 1
      BY <3>2
    <3> QED BY <3>3, <3>4
  <2>2. ASSUME f.roundsUp = {} PROVE a = c /\ b = d
    <3>1. ~Rounded(f, r, i - 1) /\ ~Rounded(f, r, i)
      BY <2>2 DEF Rounded
    <3> QED BY <1>2, <1>4, <3>1 DEF EndOfShare
  <2> QED BY <2>1, <2>2
<1>6. b <= Buckets + 1 /\ d <= Buckets
  <2>1. d <= Buckets
    BY <1>1, <1>4, SumsInOrder
  <2> QED BY <1>5, <2>1, BucketsAssumption
<1>7. Share(f, r, i) = (IF b > Buckets THEN Buckets ELSE b) - (IF a > Buckets THEN Buckets ELSE a)
  BY <1>2, ShareSize
<1>8. PICK B \in Nat : B = Buckets /\ d <= B
  BY <1>6, BucketsAssumption
<1>9. PICK x \in Nat, y \in Nat :
        /\ x = IF a > B THEN B ELSE a
        /\ y = IF b > B THEN B ELSE b
  BY <1>8
<1>10. /\ y - x - s \in {-1, 0, 1}
       /\ a = c /\ b = d => y - x = s
       /\ s = 0 => y - x = 0
  <2>1. (a = c \/ a = c + 1) /\ (b = d \/ b = d + 1) /\ d = c + s /\ d <= B
    BY <1>4, <1>5, <1>8
  <2>2. CASE s = 0
    BY <1>3, <1>9, <2>1, <2>2
  <2>3. CASE s > 0 /\ b = d
    BY <1>9, <2>1, <2>3
  <2>4. CASE s > 0 /\ b = d + 1
    BY <1>9, <2>1, <2>4
  <2> QED BY <2>1, <2>2, <2>3, <2>4
<1>11. Share(f, r, i) = y - x
  BY <1>7, <1>8, <1>9
<1>12. QED BY <1>2, <1>5, <1>10, <1>11

(* Where splits sum to 1.0, each variant gets the share of the users that  *)
(* its split says, give or take a bucket that rounding moves.              *)
THEOREM SharesCorrect == Spec => []SharesAreSplits
<1>1. IInv => SharesAreSplits
  <2>1. SUFFICES ASSUME IInv, flag # None, NEW j \in DOMAIN flag.rollouts,
                        Len(flag.variants) > 0,
                        Cumulative(flag, flag.rollouts[j], Len(flag.variants)) = Buckets,
                        \A k \in 1..Len(flag.variants) : Split(flag, flag.rollouts[j], k) # None,
                        NEW i \in 1..Len(flag.variants)
                 PROVE  LET r == flag.rollouts[j] IN
                        /\ Share(flag, r, i) - Split(flag, r, i) \in {-1, 0, 1}
                        /\ flag.roundsUp = {} => Share(flag, r, i) = Split(flag, r, i)
                        /\ Split(flag, r, i) = 0 => Share(flag, r, i) = 0
    BY DEF SharesAreSplits
  <2>2. flag \in Definition /\ flag.rollouts[j] \in Rollout
    BY <2>1 DEF IInv, Definition
  <2>3. DOMAIN flag.variants = 1..Len(flag.variants)
    BY <2>2 DEF Definition
  <2>4. ~HasNull(flag, flag.rollouts[j])
    BY <2>1, <2>3 DEF HasNull
  <2>5. Weight(flag, flag.rollouts[j], i) = Split(flag, flag.rollouts[j], i)
    BY <2>1 DEF Weight
  <2> QED BY <2>1, <2>2, <2>4, <2>5, ShareIsSplit
<1>2. QED BY InvCorrect, <1>1, PTL
=============================================================================
