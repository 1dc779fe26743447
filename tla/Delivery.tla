------------------------------ MODULE Delivery ------------------------------
(***************************************************************************)
(* What BufferedConsumer promises per endpoint: messages are accepted in   *)
(* an order and offered to the service in runs of it.  A run is offered    *)
(* only when everything before it is delivered, and never when it holds a  *)
(* confirmed message; so first deliveries keep the order without gaps.     *)
(* The service may take up an offer at any time, late and again.  How      *)
(* messages are buffered, cut into batches and retried is left out.        *)
(***************************************************************************)
EXTENDS Integers, Sequences, Functions

CONSTANTS Endpoints, Messages, EndpointOf

VARIABLES
  accepted,     \* per endpoint, the messages accepted, in order
  confirmed,    \* per endpoint, how many of them are never offered again
  offered,      \* per endpoint, the runs offered so far
  delivered     \* per endpoint, the messages delivered

vars == <<accepted, confirmed, offered, delivered>>

Init ==
  /\ accepted = [e \in Endpoints |-> <<>>]
  /\ confirmed = [e \in Endpoints |-> 0]
  /\ offered = [e \in Endpoints |-> <<>>]
  /\ delivered = [e \in Endpoints |-> {}]

Accept(e, m) ==
  /\ EndpointOf[m] = e /\ m \notin Range(accepted[e])
  /\ accepted' = [accepted EXCEPT ![e] = Append(@, m)]
  /\ UNCHANGED <<confirmed, offered, delivered>>

(* A run of unconfirmed messages is offered; all before it is delivered.   *)
Offer(e, first, last) ==
  /\ confirmed[e] < first
  /\ Range(SubSeq(accepted[e], 1, first - 1)) \subseteq delivered[e]
  /\ offered' = [offered EXCEPT ![e] = Append(@, SubSeq(accepted[e], first, last))]
  /\ UNCHANGED <<accepted, confirmed, delivered>>

(* An offer is taken up: the first time, late, or once more.               *)
Deliver(e, p) ==
  /\ delivered' = [delivered EXCEPT ![e] = @ \cup Range(offered[e][p])]
  /\ UNCHANGED <<accepted, confirmed, offered>>

Confirm(e) ==
  /\ Range(accepted[e]) \subseteq delivered[e]
  /\ confirmed' = [confirmed EXCEPT ![e] = Len(accepted[e])]
  /\ UNCHANGED <<accepted, offered, delivered>>

Next == \E e \in Endpoints :
  \/ \E m \in Messages : Accept(e, m)
  \/ \E first \in 1..Len(accepted[e]) + 1, last \in 0..Len(accepted[e]) : Offer(e, first, last)
  \/ \E p \in DOMAIN offered[e] : Deliver(e, p)
  \/ Confirm(e)

Spec == Init /\ [][Next]_vars
=============================================================================
