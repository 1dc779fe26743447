------------------------ MODULE LocalFlagsEvaluation ------------------------
(***************************************************************************)
(* mixpanel.flags.LocalFeatureFlagsProvider: how get_variant chooses the   *)
(* variant of one flag.  The definition comes from the server, where it is *)
(* edited, and is stored with its variants sorted by key.                  *)
(*                                                                         *)
(* Hashes, percentages and splits are counted in buckets, Buckets of which *)
(* are 1.0: the code's hash is one of 0.00, 0.01, ..., 0.99.  A variant's  *)
(* key is a number, in the order of the strings.  The hash function is a   *)
(* library of its own here: a context carries the bucket it has with each  *)
(* salt.                                                                   *)
(***************************************************************************)
EXTENDS Integers, Sequences, FiniteSets, FiniteSetsExt

CONSTANTS
  Buckets,        \* the 100 of normalized_hash
  Keys,           \* the keys of variants
  None,
  Definitions     \* the definitions the server can start with, of two rollouts

ASSUME BucketsAssumption == Buckets \in Nat \ {0}

(* Variant, Rollout and ExperimentationFlag, as far as lookups read them.  *)
(* A variant's own split may be null.                                      *)
Variant == [key : Keys, split : 0..Buckets \cup {None}]

Rollout ==
  [percentage : 0..Buckets, rule : {"none", "rule", "legacy"}, override : Keys \cup {None},
   splits : UNION {[K -> 0..Buckets] : K \in SUBSET Keys}]

Definition ==
  [variants : Seq(Variant), rollouts : [1..2 -> Rollout], salted : BOOLEAN,
   testVariant : Keys \cup {None}, roundsUp : SUBSET Nat]

KeysDiffer(variants) ==
  \A i, j \in DOMAIN variants : variants[i].key = variants[j].key => i = j

ASSUME DefinitionsAssumption ==
  /\ Keys \subseteq Int /\ None \notin Int
  /\ Definitions \subseteq Definition /\ None \notin Definition
  /\ \A definition \in Definitions : KeysDiffer(definition.variants)

VARIABLES
  server,   \* the definition on the server
  flag      \* self._flag_definitions.get(flag_key), None when it is missing

vars == <<server, flag>>

Bucket == 0 .. Buckets - 1

(* What a rule makes of the custom properties of a context: "differ" also  *)
(* if there are none, "odd" if they make jsonLogic raise or are no strings *)
(* where the legacy rule wants one.                                        *)
Properties == {"match", "differ", "odd"}

(* Users with the context that the flag asks for; contexts also of its     *)
(* test users, of a distinct_id that no dictionary can be asked for, as it *)
(* has no hash, and of users without the context.                          *)
Users ==
  [hasContext : {TRUE}, id : {"other"}, properties : Properties,
   rollout : [1..2 -> Bucket], variant : Bucket]

Contexts ==
  Users \cup {[user EXCEPT !.id = "tester"] : user \in Users}
        \cup {[user EXCEPT !.id = "unhashable"] : user \in Users}
        \cup {[user EXCEPT !.hasContext = FALSE] : user \in Users}

Answer(kind, key, reason) == [kind |-> kind, key |-> key, reason |-> reason]
Chosen(key)      == Answer("variant", key, "")
Fallback(reason) == Answer("fallback", None, reason)
Raised           == Answer("raised", None, "")

-----------------------------------------------------------------------------
(* _handle_response: flag.ruleset.variants.sort(key=...)                   *)

(* Mutant: the variants stay in the order in which the server lists them.  *)
StoreUnsorted(definition) == definition

(* Keys differ, so a variant has as many up to it as its index.  *)
Sorted(variants) ==
  [i \in DOMAIN variants |->
     CHOOSE v \in Range(variants) : Cardinality({w \in Range(variants) : w.key <= v.key}) = i]

Store(definition) == [definition EXCEPT !.variants = Sorted(@)]

-----------------------------------------------------------------------------
(* _get_matching_variant: no variant for a key that none has.              *)
Matching(key, f) ==
  IF \E i \in DOMAIN f.variants : f.variants[i].key = key THEN key ELSE None

(* Mutant: what jsonLogic raises is not caught.                            *)
RuleSatisfiedUncaught(r, ctx) ==
  CASE r.rule = "none" -> "yes"
    [] r.rule # "none" /\ ctx.properties = "match" -> "yes"
    [] r.rule # "none" /\ ctx.properties = "odd" -> "raise"
    [] OTHER -> "no"

(* _is_runtime_rules_engine_satisfied and its legacy form: "yes", "no" or  *)
(* "raise".                                                                *)
RuleSatisfied(r, ctx) ==
  CASE r.rule = "none" -> "yes"
    [] r.rule # "none" /\ ctx.properties = "match" -> "yes"
    [] r.rule = "legacy" /\ ctx.properties = "odd" -> "raise"
    [] OTHER -> "no"

(* Salted flags hash anew for every rollout, the others once for all.      *)
RolloutHash(f, i, ctx) == ctx.rollout[IF f.salted THEN i ELSE 1]

(* Mutant: the percentage includes its upper end.                          *)
StopsAtInclusive(f, i, ctx) ==
  RolloutHash(f, i, ctx) <= f.rollouts[i].percentage /\ RuleSatisfied(f.rollouts[i], ctx) # "no"

StopsAt(f, i, ctx) ==
  RolloutHash(f, i, ctx) < f.rollouts[i].percentage /\ RuleSatisfied(f.rollouts[i], ctx) # "no"

(* _get_assigned_rollout: the first that fits, 0 if none does.             *)
AssignedRollout(f, ctx) ==
  LET fits == {i \in DOMAIN f.rollouts : StopsAt(f, i, ctx)}
  IN IF fits = {} THEN 0 ELSE Min(fits)

(* The rollout's split of a variant, or else the variant's own.            *)
Split(f, r, i) ==
  LET v == f.variants[i]
  IN IF v.key \in DOMAIN r.splits THEN r.splits[v.key] ELSE v.split

(* What it adds to the sum.  Nothing can be added for a null.              *)
Weight(f, r, i) == IF Split(f, r, i) = None THEN 0 ELSE Split(f, r, i)

(* `cumulative` after i rounds, or where a null has ended the loop.        *)
Cumulative(f, r, i) ==
  LET sum[j \in 0..Len(f.variants)] == IF j = 0 THEN 0 ELSE sum[j - 1] + Weight(f, r, j)
  IN sum[i]

(* `variant_hash < cumulative`: the sum of floats can come out too large   *)
(* by less than a bucket, at the positions f.roundsUp; too small, it       *)
(* changes no answer.                                                      *)
Below(f, r, hash, i) ==
  \/ hash < Cumulative(f, r, i)
  \/ /\ hash = Cumulative(f, r, i)
     /\ \E j \in f.roundsUp \cap 1..i :
          /\ Weight(f, r, j) > 0 /\ Cumulative(f, r, j - 1) > 0
          /\ Cumulative(f, r, j) = hash

(* Mutant: the sum starts anew for every variant.                          *)
SelectedNotCumulative(f, r, hash) ==
  LET hits == {i \in DOMAIN f.variants : hash < Weight(f, r, i)}
  IN IF hits = {} THEN Len(f.variants) ELSE Min(hits)

(* The loop over the variants: the first whose sum exceeds the hash or     *)
(* cannot be made, the last one if the splits do not reach the hash.       *)
Selected(f, r, hash) ==
  LET hits == {i \in DOMAIN f.variants : Split(f, r, i) = None \/ Below(f, r, hash, i)}
  IN IF hits = {} THEN Len(f.variants) ELSE Min(hits)

(* _get_assigned_variant: variants[0] raises if there is none, and so does *)
(* adding a split that is null.                                            *)
AssignedVariant(f, r, ctx) ==
  LET i == Selected(f, r, ctx.variant) IN
  IF r.override # None /\ Matching(r.override, f) # None THEN Chosen(r.override)
  ELSE IF f.variants = <<>> THEN Raised
  ELSE IF Split(f, r, i) = None THEN Raised
  ELSE Chosen(f.variants[i].key)

(* _get_variant_override_for_test_user looks the distinct_id up if there   *)
(* are test users at all.                                                  *)
GetVariant(f, ctx) ==
  CASE f = None -> Fallback("FLAG_NOT_FOUND")
    [] f # None /\ ~ctx.hasContext -> Fallback("MISSING_CONTEXT_KEY")
    [] f # None /\ ctx.hasContext ->
         LET i == AssignedRollout(f, ctx) IN
         CASE ctx.id = "unhashable" /\ f.testVariant # None -> Raised
           [] ctx.id = "tester" /\ Matching(f.testVariant, f) # None -> Chosen(f.testVariant)
           [] OTHER ->
              IF i = 0 THEN Fallback("NO_ROLLOUT_MATCH")
              ELSE IF RuleSatisfied(f.rollouts[i], ctx) = "raise" THEN Raised
              ELSE AssignedVariant(f, f.rollouts[i], ctx)

-----------------------------------------------------------------------------
Init ==
  /\ server \in Definitions
  /\ flag = None

(* The server's edits: a rollout is widened, the variants are listed in    *)
(* another order.  Bound: one edit between two fetches.                    *)
Fetched == flag = Store(server)

WidenRollout(i) ==
  /\ Fetched /\ server.rollouts[i].percentage < Buckets
  /\ server' = [server EXCEPT !.rollouts[i].percentage = @ + 1]
  /\ UNCHANGED flag

ReorderVariants ==
  /\ Fetched /\ Len(server.variants) > 1
  /\ server' = [server EXCEPT !.variants = Tail(@) \o <<Head(@)>>]
  /\ UNCHANGED flag

FetchDefinition ==
  /\ flag' = Store(server)
  /\ UNCHANGED server

Next ==
  \/ \E i \in DOMAIN server.rollouts : WidenRollout(i)
  \/ ReorderVariants
  \/ FetchDefinition

Spec == Init /\ [][Next]_vars

-----------------------------------------------------------------------------
(* Properties                                                              *)

(* Every call of get_variant, whatever the context, ends with a variant    *)
(* that the flag has, with a fallback or with an exception, and the stored *)
(* variants are in the order of their keys.                                *)
TypeOK ==
  /\ flag # None =>
       \A i, j \in DOMAIN flag.variants : i < j => flag.variants[i].key < flag.variants[j].key
  /\ \A ctx \in Contexts :
       LET answer == GetVariant(flag, ctx)
       IN \/ answer = Raised
          \/ \E reason \in {"FLAG_NOT_FOUND", "MISSING_CONTEXT_KEY", "NO_ROLLOUT_MATCH"} :
               answer = Fallback(reason)
          \/ \E i \in DOMAIN flag.variants : answer = Chosen(flag.variants[i].key)

(* Each variant gets the share of the users that its split says, give or   *)
(* take the one bucket that a rounded sum moves; a split of 0 gets nobody. *)
(* The splits have to sum to 1.0, with no null among them.                 *)
Share(f, r, i) == Cardinality({h \in Bucket : Selected(f, r, h) = i})

SharesAreSplits ==
  flag # None => \A j \in DOMAIN flag.rollouts :
    LET r == flag.rollouts[j]
        n == Len(flag.variants)
    IN /\ n > 0 /\ Cumulative(flag, r, n) = Buckets
       /\ \A i \in 1..n : Split(flag, r, i) # None
       =>
         \A i \in 1..n :
           /\ Share(flag, r, i) - Split(flag, r, i) \in {-1, 0, 1}
           /\ flag.roundsUp = {} => Share(flag, r, i) = Split(flag, r, i)
           /\ Split(flag, r, i) = 0 => Share(flag, r, i) = 0

(* Rollouts of one flag reach, of the users that satisfy their rules, as   *)
(* many as the widest of them when they share a hash; salted, each rollout *)
(* draws for itself, and the users that escape p and q are the share       *)
(* (1 - p) * (1 - q).                                                      *)
Reached(f) ==
  {hashes \in [1..2 -> Bucket] :
     AssignedRollout(f, [properties |-> "match", rollout |-> hashes]) # 0}

RolloutsReachTheirShare ==
  flag # None =>
    LET p(i) == flag.rollouts[i].percentage
        escaped == IF flag.salted
                   THEN (Buckets - p(1)) * (Buckets - p(2))
                   ELSE Buckets * (Buckets - Max({p(1), p(2)}))
    IN Cardinality(Reached(flag)) = Buckets * Buckets - escaped

(* Widening rollouts and listing the variants in another order give nobody *)
(* who had a variant the fallback, and swap the variant for another only   *)
(* where rollouts differ in their overrides or splits.  An answer can turn *)
(* into an exception, but only for a user that the edit moves to another   *)
(* rollout: its legacy rule meets a property that is no string or, where   *)
(* rollouts differ, its splits leave a null in the sum.                    *)
Uniform(f) ==
  \A i, j \in DOMAIN f.rollouts :
    f.rollouts[i].override = f.rollouts[j].override /\ f.rollouts[i].splits = f.rollouts[j].splits

HasNull(f, r) == \E i \in DOMAIN f.variants : Split(f, r, i) = None

Moved(f, g, ctx) ==
  LET i == AssignedRollout(g, ctx) IN
  /\ i # 0 /\ i # AssignedRollout(f, ctx)
  /\ \/ ctx.properties = "odd" /\ g.rollouts[i].rule = "legacy"
     \/ ~Uniform(f) /\ HasNull(g, g.rollouts[i])

KeepsVariant ==
  [][flag # None => \A ctx \in Users :
       LET before == GetVariant(flag, ctx)
           after  == GetVariant(flag', ctx)
       IN before.kind = "variant" =>
            /\ after.kind # "fallback"
            /\ after.kind = "raised" => Moved(flag, flag', ctx)
            /\ after.kind = "variant" /\ Uniform(flag) => after.key = before.key]_flag

(* get_variant returns a variant or the fallback.  It raises only for a    *)
(* user that has the context, and then only if the flag has test users to  *)
(* look up a distinct_id without a hash among, or the user, who is no test *)
(* user, is within the percentage of a rollout and                         *)
(*   - the flag has no variants, or has one whose split is null, or        *)
(*   - the rollout's legacy rule meets a property that is no string.       *)
RaisesOnlyOnBadInput ==
  \A ctx \in Contexts : GetVariant(flag, ctx) = Raised =>
    /\ ctx.hasContext
    /\ \/ ctx.id = "unhashable" /\ flag.testVariant # None
       \/ /\ ctx.id = "tester" => Matching(flag.testVariant, flag) = None
          /\ \E i \in DOMAIN flag.rollouts :
               /\ RolloutHash(flag, i, ctx) < flag.rollouts[i].percentage
               /\ \/ flag.variants = <<>>
                  \/ HasNull(flag, flag.rollouts[i])
                  \/ ctx.properties = "odd" /\ flag.rollouts[i].rule = "legacy"

(* The inductive invariant behind these properties: what is stored is the  *)
(* server's definition, except that the server may have widened rollouts.  *)
IInv ==
  /\ server \in Definition /\ KeysDiffer(server.variants)
  /\ flag # None =>
       /\ flag \in Definition
       /\ flag = [Store(server) EXCEPT !.rollouts = flag.rollouts]
       /\ \A i \in 1..2 :
            /\ flag.rollouts[i].percentage <= server.rollouts[i].percentage
            /\ server.rollouts[i] =
                 [flag.rollouts[i] EXCEPT !.percentage = server.rollouts[i].percentage]
=============================================================================
