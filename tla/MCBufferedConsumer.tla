------------------------ MODULE MCBufferedConsumer -------------------------
(***************************************************************************)
(* Small instances of BufferedConsumer: two endpoints with two messages on *)
(* one and one, sent with an API key, on the other, and a message for an   *)
(* endpoint that does not exist.                                           *)
(***************************************************************************)
EXTENDS BufferedConsumer, TLC

CONSTANTS events, imports, nowhere, e1, e2, e3, i1, x1, k1

OneEndpoint  == <<events>>
TwoEndpoints == <<events, imports>>
MCEndpointOf ==
  [m \in Messages |-> CASE m \in {e1, e2, e3} -> events [] m = i1 -> imports [] m = x1 -> nowhere]
MCKeyOf      == [m \in Messages |-> IF m = i1 THEN k1 ELSE NoKey]
Callers      == Permutations(Threads)

(* For instances in which all messages are events: they differ in nothing. *)
CallersAndEvents == Callers \cup Permutations({e1, e2, e3})
=============================================================================
