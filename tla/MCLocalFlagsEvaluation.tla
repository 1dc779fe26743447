----------------------- MODULE MCLocalFlagsEvaluation -----------------------
(***************************************************************************)
(* Small instances of LocalFlagsEvaluation: up to three variants, two      *)
(* rollouts, the second of which may name an override (of a variant that   *)
(* exists or not) or splits of its own, also for a variant whose own split *)
(* is null.                                                                *)
(***************************************************************************)
EXTENDS LocalFlagsEvaluation

NoSplits == [k \in {} |-> 0]

V(k, s) == [key |-> k, split |-> s]

VariantLists ==
  {<<>>, <<V(3, 1), V(1, 1), V(2, 1)>>, <<V(2, 2), V(3, 0), V(1, 1)>>, <<V(1, 1), V(2, 1)>>,
   <<V(1, 1), V(2, None)>>}

R(rule, override, splits) ==
  [percentage |-> 0, rule |-> rule, override |-> override, splits |-> splits]

Rulesets ==
  {<<R("none", None, NoSplits), R("none", None, NoSplits)>>,
   <<R("rule", None, NoSplits), R("none", 1, NoSplits)>>,
   <<R("legacy", None, NoSplits), R("rule", None, NoSplits)>>,
   <<R("none", 9, NoSplits),
     R("none", None, [k \in {1, 2} |-> IF k = 1 THEN 0 ELSE 3])>>}

MCDefinitions ==
  [variants : VariantLists, rollouts : Rulesets, salted : BOOLEAN, testVariant : {None, 2},
   roundsUp : {{}, {2, 3}}]
=============================================================================
