----------------------------- MODULE MCConsumer -----------------------------
(***************************************************************************)
(* Small instances of Consumer: an import with a key and a secret packed   *)
(* in a tuple, an event with both given apart, and a call for an endpoint  *)
(* that does not exist.                                                    *)
(***************************************************************************)
EXTENDS Consumer, TLC

CONSTANTS imports, events, nowhere, i1, e1, x1, k1, s1

MCEndpointOf == [c \in Calls |-> CASE c = i1 -> imports [] c = e1 -> events [] c = x1 -> nowhere]
MCKeyOf      == [c \in Calls |-> IF c \in Packed THEN <<k1, s1>> ELSE k1]
MCSecretOf   == [c \in Calls |-> IF c = e1 THEN s1 ELSE None]
=============================================================================
