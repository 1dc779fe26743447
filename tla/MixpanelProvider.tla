-------------------------- MODULE MixpanelProvider --------------------------
(***************************************************************************)
(* mixpanel_openfeature.MixpanelProvider over the flag providers of        *)
(* FlagLookups, or over a custom one: the readiness check, the lookup, and *)
(* what OpenFeature is told of its result.                                 *)
(***************************************************************************)
EXTENDS FlagLookups

-----------------------------------------------------------------------------
(* _resolve, first part: `if not self._are_flags_ready()`.  The remote     *)
(* provider has no are_flags_ready(), the local one has, and a custom one  *)
(* may have one that says yes or no.                                       *)
SaysReady(c) ==
  CASE op[c].where = "remote" -> {TRUE}
    [] op[c].where = "local"  -> {ready}
    [] op[c].where = "custom" -> BOOLEAN

CheckReady(c) ==
  /\ pc[c] = "asked"
  /\ \E yes \in SaysReady(c) : IF yes THEN Goto(c, "checked") ELSE Return(c, "PROVIDER_NOT_READY")
  /\ UNCHANGED <<found, scan, open, defs, ready, dispatchVars>>

(* A custom provider can return the fallback as it got it ("untagged").    *)
CustomLookup(c) ==
  /\ Begins(c, "get", "custom", FALSE)
  /\ \E a \in Reasons \cup {"variant", "untagged", "raised"} : Return(c, a)
  /\ UNCHANGED <<found, scan, open, defs, ready, dispatchVars>>

-----------------------------------------------------------------------------
(* _resolve, second part: a pure function of what get_variant returned     *)

(* Kinds of JSON values: a huge integer exceeds every float, a whole or a  *)
(* fraction is a finite float.                                             *)
Ints   == {"int", "huge"}
Floats == {"whole", "fraction", "nonfinite"}
Values == {"bool", "str", "list", "dict", "null"} \cup Ints \cup Floats
Types  == {"bool", "str", "int", "float", "object"}

Details(value, error, reason) == [value |-> value, error |-> error, reason |-> reason]
Match(value) == Details(value, "none", "TARGETING_MATCH")
Mismatch     == Details("default", "TYPE_MISMATCH", "ERROR")
Overflow     == Details("none", "OverflowError", "raised")

(* isinstance(value, expected_type), a bool being an int in Python.        *)
Instance(value, type) ==
  CASE type = "int"   -> value \in Ints \cup {"bool"}
    [] type = "float" -> value \in Floats
    [] OTHER          -> value = type

(* float(value)                                                            *)
AsFloat(value) ==
  CASE value = "huge" -> Overflow
    [] value = "int"  -> Match("whole")
    [] OTHER          -> Match(value)

(* Mutant: bools are not told from integers.                               *)
ConvertBools(value, type) ==
  CASE type = "object" -> Match(value)
    [] type = "int" /\ value \in Floats -> IF value = "whole" THEN Match("int") ELSE Mismatch
    [] type = "float" /\ value \in Ints \cup Floats -> AsFloat(value)
    [] OTHER -> IF Instance(value, type) THEN Match(value) ELSE Mismatch

Convert(value, type) ==
  CASE type = "object" -> Match(value)
    [] type \in {"int", "float"} /\ value = "bool" -> Mismatch
    [] type = "int" /\ value \in Floats -> IF value = "whole" THEN Match("int") ELSE Mismatch
    [] type = "float" /\ value \in Ints \cup Floats -> AsFloat(value)
    [] OTHER -> IF Instance(value, type) THEN Match(value) ELSE Mismatch

FallbackDetails(reason) ==
  CASE reason = "NO_ROLLOUT_MATCH"    -> Details("default", "none", "DEFAULT")
    [] reason = "FLAG_NOT_FOUND"      -> Details("default", "FLAG_NOT_FOUND", "DEFAULT")
    [] reason = "MISSING_CONTEXT_KEY" -> Details("default", "TARGETING_KEY_MISSING", "ERROR")
    [] OTHER                          -> Details("default", "GENERAL", "ERROR")

Resolve(a, value, type) ==
  CASE a = "PROVIDER_NOT_READY" -> Details("default", "PROVIDER_NOT_READY", "ERROR")
    [] a = "raised"             -> Details("default", "GENERAL", "ERROR")
    [] a = "untagged"           -> Details("default", "FLAG_NOT_FOUND", "DEFAULT")
    [] a = "variant"            -> Convert(value, type)
    [] OTHER                    -> FallbackDetails(a)

-----------------------------------------------------------------------------
Init == LookupInit

Next == LookupNext \/ \E c \in Calls : CheckReady(c) \/ CustomLookup(c)

Fairness ==
  /\ LookupFairness
  /\ \A c \in Calls : WF_vars(pc[c] = "checked" /\ CustomLookup(c))

Spec     == Init /\ [][Next]_vars
FairSpec == Spec /\ Fairness

-----------------------------------------------------------------------------
(* Properties                                                              *)

TypeOK == LookupTypeOK

(* The value types that each get_*_value() method of OpenFeature accepts,  *)
(* after the provider's README: a whole float is an integer, any number is *)
(* a float, objects are whatever the flag holds.                           *)
Accepts(type) ==
  CASE type = "int"    -> Ints \cup {"whole"}
    [] type = "float"  -> Ints \cup Floats
    [] type = "object" -> Values
    [] OTHER           -> {type}

(* What OpenFeature is told is true of the whole evaluation: it is a       *)
(* TARGETING_MATCH only with a value of the type asked for of a variant    *)
(* that the flag provider found or, a custom one, returned as such;        *)
(* FLAG_NOT_FOUND, PROVIDER_NOT_READY and the default without an error are *)
(* given to users without a variant only; and nothing is raised but for a  *)
(* huge integer that is asked for as a float.                              *)
ResolutionHonest ==
  \A c \in Calls : op[c].wrapped /\ pc[c] = "over" =>
    \A value \in Values, type \in Types :
      LET r == Resolve(answer[c], value, type) IN
      /\ r.reason = "TARGETING_MATCH" =>
           /\ answer[c] = "variant" /\ (c \in found \/ op[c].where = "custom")
           /\ value \in Accepts(type)
           /\ type \in {"bool", "str"} => r.value = type
           /\ type = "int" => r.value \in Ints
           /\ type = "float" => r.value \in Floats
      /\ c \in found => r.error \in {"none", "TYPE_MISMATCH", "GENERAL", "OverflowError"}
      /\ c \in found /\ r.error = "none" => r.reason = "TARGETING_MATCH"
      /\ r.error = "TYPE_MISMATCH" => answer[c] = "variant" /\ value \notin Accepts(type)
      /\ r.error = "PROVIDER_NOT_READY" => op[c].where # "remote"
      /\ r.reason = "raised" => answer[c] = "variant" /\ value = "huge" /\ type = "float"
=============================================================================
