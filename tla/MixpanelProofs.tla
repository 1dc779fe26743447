--------------------------- MODULE MixpanelProofs ---------------------------
(***************************************************************************)
(* Proofs about Mixpanel for any number of threads, dictionaries and       *)
(* calls, any set of methods and any configuration of flag providers: the  *)
(* facade is well typed, charges keep their amounts, aliases are direct    *)
(* and with blocks clean up.                                               *)
(***************************************************************************)
EXTENDS Mixpanel, TLAPS

-----------------------------------------------------------------------------
(* Messages and the end of the block are two halves: threads change the    *)
(* former, the end of the block the latter.                                *)
MessageTypes ==
  /\ pc \in [Threads -> {"idle", "charge", "serialize", "send", "direct"}]
  /\ call \in [Threads -> [id : {0} \cup Calls, method : Methods \cup {"none"},
                           dict : Dicts \cup {None}, amount : Amounts]]
  /\ calls \in 0..MaxCalls
  /\ amounts \in [Dicts -> Amounts]
  /\ buffering \in BOOLEAN
  /\ held \in Seq(Records) /\ service \in Seq(Records)
  /\ \A m \in Messages : m.id \in 1..calls

AliasInv == AliasIsDirect /\ \A c \in DOMAIN aliased : aliased[c] \in 0..Len(service)

MessageInv ==
  /\ MessageTypes /\ MessagesOnce
  /\ \A t \in Threads : Unsent(t) /\ AtStatement(t)
  /\ ChargeIsOwn /\ AliasInv

ExitTypes ==
  /\ providers \subseteq {"local", "remote"}
  /\ clients \in [providers -> SUBSET {"sync", "async"}]
  /\ polling \in {"none", "thread", "task"}
  /\ leaving \in [how : {"none", "sync", "loop", "async"},
                  at : {"inside", "local", "remote", "returned", "raised"}]

ExitInv == ExitTypes /\ CleanedUp /\ ExitCleansUp

(* Messages of different calls make an injective sequence.                 *)
LEMMA OnceInjective ==
  ASSUME held \in Seq(Records), service \in Seq(Records), MessagesOnce
  PROVE  /\ IsInjective(held \o service)
         /\ \A m, n \in Messages : m.id = n.id => m = n
<1>1. IsInjective(held \o service)
  <2>1. SUFFICES ASSUME NEW i \in 1 .. Len(held) + Len(service), NEW j \in 1 .. Len(held) + Len(service),
                        (held \o service)[i] = (held \o service)[j]
                 PROVE  i = j
    BY DEF IsInjective
  <2>2. \A k \in 1 .. Len(held) + Len(service) :
          (held \o service)[k] = IF k <= Len(held) THEN held[k] ELSE service[k - Len(held)]
    OBVIOUS
  <2>3. DOMAIN held = 1 .. Len(held) /\ DOMAIN service = 1 .. Len(service)
    OBVIOUS
  <2>4. CASE i <= Len(held) /\ j <= Len(held)
    BY <2>1, <2>2, <2>3, <2>4 DEF MessagesOnce, OneOfEach
  <2>5. CASE i > Len(held) /\ j > Len(held)
    <3>1. i - Len(held) \in 1 .. Len(service) /\ j - Len(held) \in 1 .. Len(service)
      BY <2>5
    <3>2. service[i - Len(held)] = service[j - Len(held)]
      BY <2>1, <2>2, <2>5
    <3>3. i - Len(held) = j - Len(held)
      BY <2>3, <3>1, <3>2 DEF MessagesOnce, OneOfEach
    <3>4. QED BY <3>3
  <2>6. CASE i <= Len(held) /\ j > Len(held)
    BY <2>1, <2>2, <2>3, <2>6 DEF MessagesOnce
  <2>7. CASE i > Len(held) /\ j <= Len(held)
    BY <2>1, <2>2, <2>3, <2>7 DEF MessagesOnce
  <2>8. QED BY <2>4, <2>5, <2>6, <2>7
<1>2. \A m, n \in Messages : m.id = n.id => m = n
  BY DEF Messages, ToSet, MessagesOnce, OneOfEach
<1>3. QED BY <1>1, <1>2

(* The two halves are the inductive invariant.                             *)
LEMMA Halves == IInv <=> MessageInv /\ ExitInv
<1>1. MessageInv /\ ExitInv => IInv
  BY OnceInjective
     DEF IInv, TypeOK, MessageInv, MessageTypes, AliasInv, ExitInv, ExitTypes
<1>2. IInv => MessageInv /\ ExitInv
  BY DEF IInv, TypeOK, MessageInv, MessageTypes, AliasInv, ExitInv, ExitTypes
<1>3. QED BY <1>1, <1>2

-----------------------------------------------------------------------------
(* Where messages go                                                       *)

(* A message of a call that has sent none yet can be accepted, by the      *)
(* consumer or by the service.                                             *)
Takes(message) ==
  \/ held' = Append(held, message) /\ UNCHANGED service
  \/ service' = Append(service, message) /\ UNCHANGED held

(* That is what the consumer does with what it accepts.                    *)
LEMMA AcceptTakes ==
  ASSUME NEW message, Accept(message)
  PROVE  Takes(message)
BY DEF Accept, Takes

(* Either way no two messages are of one call, and none is lost.           *)
LEMMA TakesOnce ==
  ASSUME MessageTypes, MessagesOnce, NEW message \in Records, Takes(message),
         \A m \in Messages : m.id # message.id
  PROVE  /\ held' \in Seq(Records) /\ service' \in Seq(Records)
         /\ MessagesOnce'
         /\ Messages' = Messages \cup {message}
<1>1. /\ held \in Seq(Records) /\ service \in Seq(Records)
      /\ \A i \in 1..Len(held) : held[i].id # message.id
      /\ \A i \in 1..Len(service) : service[i].id # message.id
  BY DEF MessageTypes, Messages, ToSet
<1>2. ASSUME NEW s \in Seq(Records), OneOfEach(s), \A i \in 1..Len(s) : s[i].id # message.id
      PROVE  /\ Append(s, message) \in Seq(Records) /\ OneOfEach(Append(s, message))
             /\ DOMAIN Append(s, message) = 1 .. (Len(s) + 1)
             /\ \A i \in 1..Len(s) : Append(s, message)[i] = s[i]
             /\ Append(s, message)[Len(s) + 1] = message
             /\ ToSet(Append(s, message)) = ToSet(s) \cup {message}
  BY <1>2 DEF OneOfEach, ToSet
<1>3. CASE held' = Append(held, message) /\ UNCHANGED service
  <2>1. MessagesOnce'
    BY <1>1, <1>2, <1>3 DEF MessagesOnce, OneOfEach
  <2>2. Messages' = Messages \cup {message}
    BY <1>1, <1>2, <1>3 DEF Messages, MessagesOnce
  <2>3. QED BY <1>1, <1>2, <1>3, <2>1, <2>2
<1>4. CASE service' = Append(service, message) /\ UNCHANGED held
  <2>1. MessagesOnce'
    BY <1>1, <1>2, <1>4 DEF MessagesOnce, OneOfEach
  <2>2. Messages' = Messages \cup {message}
    BY <1>1, <1>2, <1>4 DEF Messages, MessagesOnce
  <2>3. QED BY <1>1, <1>2, <1>4, <2>1, <2>2
<1>5. QED BY <1>3, <1>4 DEF Takes

(* What the service applies it keeps.                                      *)
LEMMA ServiceGrows ==
  ASSUME MessageTypes, NEW message,
         service' = Append(service, message) \/ service' = service
  PROVE  /\ Len(service') \in Nat /\ Len(service) \in Nat /\ Len(service) <= Len(service')
         /\ \A i \in 1..Len(service) : service'[i] = service[i]
<1>1. service \in Seq(Records) /\ Len(service) \in Nat
  BY DEF MessageTypes
<1>2. CASE service' = Append(service, message)
  BY <1>1, <1>2
<1>3. CASE service' = service
  BY <1>1, <1>3
<1>4. QED BY <1>2, <1>3

(* The consumer delivers a message that it held, and holds it no longer.   *)
LEMMA DeliverOnce ==
  ASSUME MessageTypes, MessagesOnce, Deliver
  PROVE  /\ held' \in Seq(Records) /\ service' \in Seq(Records)
         /\ MessagesOnce'
         /\ Messages' = Messages
         /\ \A i \in DOMAIN held' : held'[i] = held[i + 1] /\ i + 1 \in DOMAIN held
<1>1. /\ held \in Seq(Records) /\ service \in Seq(Records) /\ held # <<>>
      /\ held' = Tail(held) /\ service' = Append(service, Head(held))
  BY DEF Deliver, MessageTypes
<1>2. /\ held' \in Seq(Records) /\ Len(held') = Len(held) - 1 /\ Len(held) > 0
      /\ Head(held) = held[1] /\ held[1] \in Records
      /\ \A i \in 1..Len(held') : held'[i] = held[i + 1]
  BY <1>1
<1>3. /\ service' \in Seq(Records) /\ Len(service') = Len(service) + 1
      /\ \A i \in 1..Len(service) : service'[i] = service[i]
      /\ service'[Len(service) + 1] = held[1]
  BY <1>1, <1>2
<1>4. /\ DOMAIN held = 1..Len(held) /\ DOMAIN held' = 1..Len(held')
      /\ DOMAIN service = 1..Len(service) /\ DOMAIN service' = 1..Len(service')
      /\ Len(held) \in Nat /\ Len(service) \in Nat
  BY <1>1, <1>2, <1>3
<1>5. OneOfEach(held)'
  <2>1. SUFFICES ASSUME NEW i \in 1..Len(held'), NEW j \in 1..Len(held'), held'[i].id = held'[j].id
                 PROVE  i = j
    BY <1>4 DEF OneOfEach
  <2>2. /\ held'[i] = held[i + 1] /\ held'[j] = held[j + 1]
        /\ i + 1 \in 1..Len(held) /\ j + 1 \in 1..Len(held)
    BY <1>2, <1>4
  <2>3. i + 1 = j + 1
    BY <1>4, <2>1, <2>2 DEF MessagesOnce, OneOfEach
  <2>4. QED BY <2>3
<1>6. OneOfEach(service)'
  <2>1. \A j \in 1..Len(service) : service[j].id # held[1].id
    <3>1. 1 \in DOMAIN held
      BY <1>2, <1>4
    <3>2. QED BY <1>4, <3>1 DEF MessagesOnce
  <2>2. QED BY <1>3, <1>4, <2>1 DEF MessagesOnce, OneOfEach
<1>7. \A i \in DOMAIN held', j \in DOMAIN service' : held'[i].id # service'[j].id
  <2>1. SUFFICES ASSUME NEW i \in 1..Len(held'), NEW j \in 1..Len(service')
                 PROVE  held'[i].id # service'[j].id
    BY <1>4
  <2>2. held'[i] = held[i + 1] /\ i + 1 \in 1..Len(held) /\ i + 1 # 1 /\ 1 \in 1..Len(held)
    BY <1>2, <1>4
  <2>3. CASE j \in 1..Len(service)
    BY <1>3, <1>4, <2>2, <2>3 DEF MessagesOnce
  <2>4. CASE j = Len(service) + 1
    BY <1>3, <1>4, <2>2, <2>4 DEF MessagesOnce, OneOfEach
  <2>5. QED BY <1>3, <1>4, <2>3, <2>4
<1>8. Messages' = Messages
  <2>1. ASSUME NEW m \in Messages' PROVE m \in Messages
    <3>1. ASSUME NEW i \in 1..Len(held') PROVE held'[i] \in Messages
      <4>1. held'[i] = held[i + 1] /\ i + 1 \in DOMAIN held
        BY <1>2, <1>4
      <4>2. QED BY <4>1 DEF Messages, ToSet
    <3>2. ASSUME NEW i \in 1..Len(service') PROVE service'[i] \in Messages
      <4>1. CASE i \in 1..Len(service)
        BY <1>3, <1>4, <4>1 DEF Messages, ToSet
      <4>2. CASE i = Len(service) + 1
        BY <1>2, <1>3, <1>4, <4>2 DEF Messages, ToSet
      <4>3. QED BY <1>3, <1>4, <4>1, <4>2
    <3>3. QED BY <1>4, <2>1, <3>1, <3>2 DEF Messages, ToSet
  <2>2. ASSUME NEW i \in 1..Len(held) PROVE held[i] \in Messages'
    <3>1. CASE i = 1
      BY <1>2, <1>3, <1>4, <3>1 DEF Messages, ToSet
    <3>2. CASE i # 1
      <4>1. i - 1 \in 1..Len(held') /\ held'[i - 1] = held[i]
        BY <1>2, <1>4, <3>2
      <4>2. QED BY <1>4, <4>1 DEF Messages, ToSet
    <3>3. QED BY <3>1, <3>2
  <2>3. ASSUME NEW i \in 1..Len(service) PROVE service[i] \in Messages'
    BY <1>3, <1>4, <2>3 DEF Messages, ToSet
  <2>4. QED BY <1>4, <2>1, <2>2, <2>3 DEF Messages, ToSet
<1>9. QED BY <1>2, <1>3, <1>4, <1>5, <1>6, <1>7, <1>8 DEF MessagesOnce

-----------------------------------------------------------------------------
(* Steps of threads                                                        *)

(* Whatever the method, its messages belong to one of the endpoints.       *)
LEMMA EndpointType ==
  ASSUME NEW method \in Methods
  PROVE  Endpoint(method) \in {"events", "imports", "people", "groups"}
BY DEF Endpoint, EventOperations

(* A call that has a message to send makes a record of it.                 *)
LEMMA MessageType ==
  ASSUME MessageInv, NEW t \in Threads, pc[t] # "idle"
  PROVE  Message(t) \in Records /\ \A m \in Messages : m.id # Message(t).id
<1>1. call[t].id \in 1..calls /\ call[t].method \in Methods /\ call[t].amount \in Amounts
  BY DEF MessageInv, Unsent, MessageTypes
<1>2. call[t].id \in Calls
  BY <1>1, BoundAssumption DEF MessageInv, MessageTypes, Calls
<1>3. Endpoint(call[t].method) \in {"events", "imports", "people", "groups"}
  BY <1>1, EndpointType
<1>4. Message(t) \in Records
  BY <1>1, <1>2, <1>3 DEF Message, Records
<1>5. \A m \in Messages : m.id # Message(t).id
  BY DEF MessageInv, Unsent, Message
<1>6. QED BY <1>4, <1>5

(* Aliases that the service knows it knows for good.                       *)
LEMMA AliasKept ==
  ASSUME AliasInv, UNCHANGED aliased, Len(service) \in Nat, Len(service') \in Nat,
         Len(service) <= Len(service'), \A i \in 1..Len(service) : service'[i] = service[i],
         \A i \in DOMAIN held' : held'[i].method # "alias"
  PROVE  AliasInv'
<1>1. ASSUME NEW c \in DOMAIN aliased
      PROVE  aliased[c] \in 0..Len(service') /\ \E i \in 1..aliased[c] : service'[i].id = c
  <2>1. aliased[c] \in 0..Len(service)
    BY DEF AliasInv
  <2>2. PICK i \in 1..aliased[c] : service[i].id = c
    BY DEF AliasInv, AliasIsDirect
  <2>3. service'[i].id = c
    BY <2>1, <2>2
  <2>4. QED BY <2>1, <2>3
<1>2. QED BY <1>1 DEF AliasInv, AliasIsDirect

(* The end of a call, with its message accepted or not.                    *)
LEMMA SentStep ==
  ASSUME MessageInv, NEW t \in Threads, pc[t] \in {"send", "direct"}, Goto(t, "idle"),
         UNCHANGED <<call, calls, amounts, shared, buffering>>,
         Takes(Message(t)) \/ UNCHANGED <<held, service>>
  PROVE  /\ MessageTypes' /\ MessagesOnce' /\ ChargeIsOwn'
         /\ \A u \in Threads : Unsent(u)' /\ AtStatement(u)'
<1>1. Message(t) \in Records /\ \A m \in Messages : m.id # Message(t).id
  BY MessageType
<1>2. /\ held' \in Seq(Records) /\ service' \in Seq(Records) /\ MessagesOnce'
      /\ Messages' \subseteq Messages \cup {Message(t)}
  <2>1. CASE Takes(Message(t))
    BY <1>1, <2>1, TakesOnce DEF MessageInv
  <2>2. CASE UNCHANGED <<held, service>>
    BY <2>2 DEF MessageInv, MessageTypes, MessagesOnce, OneOfEach, Messages
  <2>3. QED BY <2>1, <2>2
<1>3. /\ pc' = [pc EXCEPT ![t] = "idle"]
      /\ pc'[t] = "idle" /\ \A u \in Threads \ {t} : pc'[u] = pc[u]
  BY DEF Goto, MessageInv, MessageTypes
<1>4. /\ Message(t).id = call[t].id /\ Message(t).by = t /\ Message(t).method = call[t].method
      /\ Message(t).amount = call[t].amount
  BY DEF Message
<1>5. call[t].id \in 1..calls
  BY DEF MessageInv, Unsent
<1>6. MessageTypes'
  BY <1>2, <1>3, <1>4, <1>5 DEF MessageInv, MessageTypes
<1>7. ChargeIsOwn'
  <2>1. Message(t).method = "people_track_charge" =>
          Message(t).amount = Amount[Message(t).by] \/ Message(t).id \in shared
    BY <1>4 DEF MessageInv, AtStatement, Unsent, OwnAmount, ChargeIsOwn
  <2>2. QED BY <1>2, <2>1 DEF MessageInv, ChargeIsOwn
<1>8. ASSUME NEW u \in Threads PROVE Unsent(u)' /\ AtStatement(u)'
  <2>1. CASE u = t
    BY <1>3, <2>1 DEF Unsent, AtStatement
  <2>2. CASE u # t
    <3>1. Unsent(u)'
      BY <1>2, <1>3, <1>4, <2>2 DEF MessageInv, Unsent
    <3>2. AtStatement(u)'
      BY <1>3, <2>2 DEF MessageInv, AtStatement, OwnAmount
    <3>3. QED BY <3>1, <3>2
  <2>3. QED BY <2>1, <2>2
<1>9. QED BY <1>2, <1>6, <1>7, <1>8

(* Send, SendRaises, SendDirectly and DirectRaises keep the invariant of   *)
(* messages.                                                               *)
LEMMA SendStep ==
  ASSUME MessageInv, NEW t \in Threads,
         Send(t) \/ SendRaises(t) \/ SendDirectly(t) \/ DirectRaises(t)
  PROVE  MessageInv'
<1>1. /\ pc[t] \in {"send", "direct"} /\ Goto(t, "idle")
      /\ UNCHANGED <<call, calls, amounts, shared, buffering>>
      /\ Takes(Message(t)) \/ UNCHANGED <<held, service>>
  BY AcceptTakes DEF Send, SendRaises, SendDirectly, DirectRaises, Takes
<1>2. AliasInv'
  <2>1. service' = Append(service, Message(t)) \/ service' = service
    BY <1>1 DEF Takes
  <2>2. /\ Len(service') \in Nat /\ Len(service) \in Nat /\ Len(service) <= Len(service')
        /\ \A i \in 1..Len(service) : service'[i] = service[i]
    BY <2>1, ServiceGrows DEF MessageInv
  <2>3. \A i \in DOMAIN held : held[i].method # "alias"
    BY DEF MessageInv, AliasInv, AliasIsDirect
  <2>4. CASE SendDirectly(t)
    <3>1. /\ held' = held /\ service' = Append(service, Message(t))
          /\ aliased' = [c \in DOMAIN aliased \cup {call[t].id} |->
                          IF c = call[t].id THEN Len(service') ELSE aliased[c]]
      BY <2>4 DEF SendDirectly, Aliased
    <3>2. /\ Len(service') = Len(service) + 1
          /\ service'[Len(service')].id = call[t].id
      BY <3>1 DEF MessageInv, MessageTypes, Message
    <3>3. \A c \in DOMAIN aliased' :
            \/ c = call[t].id /\ aliased'[c] = Len(service')
            \/ c \in DOMAIN aliased /\ aliased'[c] = aliased[c]
      BY <3>1
    <3>4. ASSUME NEW c \in DOMAIN aliased'
          PROVE  aliased'[c] \in 0..Len(service') /\ \E i \in 1..aliased'[c] : service'[i].id = c
      <4>1. CASE c = call[t].id /\ aliased'[c] = Len(service')
        BY <2>2, <3>2, <4>1
      <4>2. CASE c \in DOMAIN aliased /\ aliased'[c] = aliased[c]
        <5>1. aliased[c] \in 0..Len(service)
          BY <4>2 DEF MessageInv, AliasInv
        <5>2. PICK i \in 1..aliased[c] : service[i].id = c
          BY <4>2 DEF MessageInv, AliasInv, AliasIsDirect
        <5>3. service'[i].id = c
          BY <2>2, <5>1, <5>2
        <5>4. QED BY <2>2, <4>2, <5>1, <5>3
      <4>3. QED BY <3>3, <4>1, <4>2
    <3>5. QED BY <2>3, <3>1, <3>4 DEF AliasInv, AliasIsDirect
  <2>5. CASE ~SendDirectly(t)
    <3>1. UNCHANGED aliased
      BY <1>1, <2>5 DEF Send, SendRaises, DirectRaises
    <3>2. \A i \in DOMAIN held' : held'[i].method # "alias"
      <4>1. CASE held' = held
        BY <2>3, <4>1
      <4>2. CASE held' # held
        <5>1. held' = Append(held, Message(t)) /\ Message(t).method # "alias"
          BY <1>1, <2>5, <4>2
             DEF Send, SendRaises, DirectRaises, Takes, MessageInv, AtStatement, Message
        <5>2. QED BY <2>3, <5>1 DEF MessageInv, MessageTypes
      <4>3. QED BY <4>1, <4>2
    <3>3. QED BY <2>2, <3>1, <3>2, AliasKept DEF MessageInv
  <2>6. QED BY <2>4, <2>5
<1>3. QED BY <1>1, <1>2, SentStep DEF MessageInv

(* A delivery moves a message, and no call sees the difference.            *)
LEMMA DeliverStep ==
  ASSUME MessageInv, Deliver
  PROVE  MessageInv'
<1>1. /\ held' \in Seq(Records) /\ service' \in Seq(Records) /\ MessagesOnce' /\ Messages' = Messages
      /\ \A i \in DOMAIN held' : held'[i] = held[i + 1] /\ i + 1 \in DOMAIN held
  BY DeliverOnce DEF MessageInv
<1>2. /\ UNCHANGED <<pc, call, calls, amounts, shared, buffering, aliased>>
      /\ service' = Append(service, Head(held))
  BY DEF Deliver
<1>3. MessageTypes' /\ ChargeIsOwn'
  BY <1>1, <1>2 DEF MessageInv, MessageTypes, ChargeIsOwn
<1>4. \A t \in Threads : Unsent(t)' /\ AtStatement(t)'
  BY <1>1, <1>2 DEF MessageInv, Unsent, AtStatement, OwnAmount
<1>5. AliasInv'
  <2>1. /\ Len(service') \in Nat /\ Len(service) \in Nat /\ Len(service) <= Len(service')
        /\ \A i \in 1..Len(service) : service'[i] = service[i]
    BY <1>2, ServiceGrows DEF MessageInv
  <2>2. \A i \in DOMAIN held' : held'[i].method # "alias"
    BY <1>1 DEF MessageInv, AliasInv, AliasIsDirect
  <2>3. QED BY <1>2, <2>1, <2>2, AliasKept DEF MessageInv
<1>6. QED BY <1>1, <1>3, <1>4, <1>5 DEF MessageInv

(* Steps that concern no message change neither part of the invariant that *)
(* is about messages, nor what is known of the aliases.                    *)
LEMMA MessagesKept ==
  ASSUME MessageInv, UNCHANGED <<buffering, held, service, aliased>>, shared \subseteq shared'
  PROVE  /\ held' \in Seq(Records) /\ service' \in Seq(Records)
         /\ Messages' = Messages /\ MessagesOnce' /\ ChargeIsOwn' /\ AliasInv'
<1>1. /\ Messages' = Messages /\ MessagesOnce'
      /\ held' \in Seq(Records) /\ service' \in Seq(Records)
  BY DEF MessageInv, MessageTypes, Messages, MessagesOnce, OneOfEach
<1>2. ChargeIsOwn'
  BY <1>1 DEF MessageInv, ChargeIsOwn
<1>3. AliasInv'
  BY DEF MessageInv, AliasInv, AliasIsDirect
<1>4. QED BY <1>1, <1>2, <1>3

(* A call that begins is a new one, of which there is no message.          *)
LEMMA BeginStep ==
  ASSUME MessageInv, NEW t \in Threads, Begin(t)
  PROVE  MessageInv'
<1>1. PICK method \in Methods, dict \in Dicts \cup {None} :
        /\ call' = [call EXCEPT ![t] = [id |-> calls + 1, method |-> method, dict |-> dict, amount |-> 0]]
        /\ Goto(t, IF method = "people_track_charge" THEN "charge" ELSE "serialize")
  BY DEF Begin
<1>2. /\ pc[t] = "idle" /\ calls < MaxCalls /\ calls' = calls + 1
      /\ UNCHANGED <<amounts, shared, buffering, held, service, aliased>>
  BY DEF Begin
<1>3. /\ held' \in Seq(Records) /\ service' \in Seq(Records)
      /\ Messages' = Messages /\ MessagesOnce' /\ ChargeIsOwn' /\ AliasInv'
  BY <1>2, MessagesKept
<1>4. /\ calls \in Nat /\ calls' \in 0..MaxCalls /\ calls + 1 \in Calls
      /\ \A m \in Messages : m.id \in 1..calls
  BY <1>2, BoundAssumption DEF MessageInv, MessageTypes, Calls
<1>5. /\ call'[t] = [id |-> calls + 1, method |-> method, dict |-> dict, amount |-> 0]
      /\ pc'[t] = IF method = "people_track_charge" THEN "charge" ELSE "serialize"
      /\ \A u \in Threads \ {t} : call'[u] = call[u] /\ pc'[u] = pc[u]
  BY <1>1 DEF Goto, MessageInv, MessageTypes
<1>6. MessageTypes'
  <2>1. [id |-> calls + 1, method |-> method, dict |-> dict, amount |-> 0]
          \in [id : {0} \cup Calls, method : Methods \cup {"none"},
               dict : Dicts \cup {None}, amount : Amounts]
    BY <1>4 DEF Amounts
  <2>2. call' \in [Threads -> [id : {0} \cup Calls, method : Methods \cup {"none"},
                               dict : Dicts \cup {None}, amount : Amounts]]
    BY <1>1, <2>1 DEF MessageInv, MessageTypes
  <2>3. pc' \in [Threads -> {"idle", "charge", "serialize", "send", "direct"}]
    BY <1>1 DEF Goto, MessageInv, MessageTypes
  <2>4. \A m \in Messages' : m.id \in 1..calls'
    BY <1>2, <1>3, <1>4
  <2>5. QED BY <1>2, <1>3, <1>4, <2>2, <2>3, <2>4 DEF MessageInv, MessageTypes
<1>7. ASSUME NEW u \in Threads PROVE Unsent(u)' /\ AtStatement(u)'
  <2>1. \A v \in Threads : pc[v] # "idle" => call[v].id \in 1..calls
    BY DEF MessageInv, Unsent
  <2>2. CASE u = t
    <3>1. Unsent(u)'
      BY <1>2, <1>3, <1>4, <1>5, <2>1, <2>2 DEF Unsent
    <3>2. AtStatement(u)'
      BY <1>5, <2>2 DEF AtStatement
    <3>3. QED BY <3>1, <3>2
  <2>3. CASE u # t
    <3>1. Unsent(u)'
      BY <1>2, <1>3, <1>4, <1>5, <2>1, <2>3 DEF MessageInv, Unsent
    <3>2. AtStatement(u)'
      BY <1>2, <1>5, <2>3 DEF MessageInv, AtStatement, OwnAmount
    <3>3. QED BY <3>1, <3>2
  <2>4. QED BY <2>2, <2>3
<1>8. QED BY <1>3, <1>6, <1>7 DEF MessageInv

(* The amount is written into the dictionary of the caller: the charges    *)
(* that are in with the same one have shared it from here on.              *)
LEMMA UpdateAmountStep ==
  ASSUME MessageInv, NEW t \in Threads, UpdateAmount(t)
  PROVE  MessageInv'
<1>1. /\ pc[t] = "charge" /\ pc' = [pc EXCEPT ![t] = "serialize"]
      /\ UNCHANGED <<calls, buffering, held, service, aliased>>
      /\ shared \subseteq shared'
  BY DEF UpdateAmount, Goto
<1>2. /\ held' \in Seq(Records) /\ service' \in Seq(Records)
      /\ Messages' = Messages /\ MessagesOnce' /\ ChargeIsOwn' /\ AliasInv'
  BY <1>1, MessagesKept
<1>3. Amount[t] \in Amounts
  BY DEF Amounts
<1>4. /\ pc'[t] = "serialize" /\ \A u \in Threads \ {t} : pc'[u] = pc[u]
      /\ call[t].method = "people_track_charge"
      /\ call[t].dict \in Dicts \cup {None}
  BY <1>1 DEF MessageInv, MessageTypes, AtStatement
<1>5. CASE call[t].dict = None
  <2>1. /\ call' = [call EXCEPT ![t].amount = Amount[t]] /\ UNCHANGED <<amounts, shared>>
    BY <1>5 DEF UpdateAmount
  <2>2. /\ call'[t] = [call[t] EXCEPT !.amount = Amount[t]]
        /\ \A u \in Threads \ {t} : call'[u] = call[u]
    BY <2>1 DEF MessageInv, MessageTypes
  <2>3. /\ call'[t].id = call[t].id /\ call'[t].method = call[t].method
        /\ call'[t].dict = call[t].dict /\ call'[t].amount = Amount[t]
    BY <2>2 DEF MessageInv, MessageTypes
  <2>4. MessageTypes'
    <3>1. [call[t] EXCEPT !.amount = Amount[t]]
            \in [id : {0} \cup Calls, method : Methods \cup {"none"},
                 dict : Dicts \cup {None}, amount : Amounts]
      BY <1>3 DEF MessageInv, MessageTypes
    <3>2. call' \in [Threads -> [id : {0} \cup Calls, method : Methods \cup {"none"},
                                 dict : Dicts \cup {None}, amount : Amounts]]
      BY <2>1, <3>1 DEF MessageInv, MessageTypes
    <3>3. QED BY <1>1, <1>2, <2>1, <3>2 DEF MessageInv, MessageTypes
  <2>5. ASSUME NEW u \in Threads PROVE Unsent(u)' /\ AtStatement(u)'
    <3>1. Unsent(u)'
      <4>1. /\ \A v \in Threads : call'[v].id = call[v].id /\ call'[v].method = call[v].method
            /\ \A v \in Threads : pc'[v] # "idle" => pc[v] # "idle"
        BY <1>1, <1>4, <2>2, <2>3
      <4>2. QED BY <1>1, <1>2, <4>1 DEF MessageInv, Unsent
    <3>2. AtStatement(u)'
      BY <1>4, <1>5, <2>1, <2>2, <2>3 DEF MessageInv, AtStatement, OwnAmount
    <3>3. QED BY <3>1, <3>2
  <2>6. QED BY <1>2, <2>4, <2>5 DEF MessageInv
<1>6. CASE call[t].dict # None
  <2>1. /\ amounts' = [amounts EXCEPT ![call[t].dict] = Amount[t]] /\ call' = call
        /\ shared' = shared \cup {call[u].id : u \in Others(t)} \cup {call[t].id : u \in Others(t)}
    BY <1>6 DEF UpdateAmount
  <2>2. /\ call[t].dict \in Dicts /\ amounts'[call[t].dict] = Amount[t]
        /\ \A d \in Dicts \ {call[t].dict} : amounts'[d] = amounts[d]
        /\ amounts' \in [Dicts -> Amounts]
    BY <1>3, <1>4, <1>6, <2>1 DEF MessageInv, MessageTypes
  <2>3. MessageTypes'
    BY <1>1, <1>2, <2>1, <2>2 DEF MessageInv, MessageTypes
  <2>4. ASSUME NEW u \in Threads PROVE Unsent(u)' /\ AtStatement(u)'
    <3>1. Unsent(u)'
      <4>1. \A v \in Threads : pc'[v] # "idle" => pc[v] # "idle"
        BY <1>1, <1>4
      <4>2. QED BY <1>1, <1>2, <2>1, <4>1 DEF MessageInv, Unsent
    <3>2. CASE u = t
      BY <3>1, <1>4, <1>6, <2>1, <2>2, <3>2 DEF AtStatement, OwnAmount
    <3>3. CASE u # t /\ call[u].dict # call[t].dict
      <4>1. call[u].dict \in Dicts \cup {None}
        BY DEF MessageInv, MessageTypes
      <4>2. call[u].dict # None => amounts'[call[u].dict] = amounts[call[u].dict]
        BY <2>2, <3>3, <4>1
      <4>3. AtStatement(u)'
        BY <1>1, <1>4, <2>1, <3>3, <4>2 DEF MessageInv, AtStatement, OwnAmount
      <4>4. QED BY <3>1, <4>3
    <3>4. CASE u # t /\ call[u].dict = call[t].dict
      <4>1. pc[u] = "serialize" /\ call[u].method = "people_track_charge" => call[u].id \in shared'
        <5>1. pc[u] = "serialize" /\ call[u].method = "people_track_charge" => u \in Others(t)
          BY <3>4 DEF Others
        <5>2. QED BY <2>1, <5>1
      <4>2. AtStatement(u)'
        BY <1>1, <1>4, <2>1, <3>4, <4>1 DEF MessageInv, AtStatement, OwnAmount
      <4>3. QED BY <3>1, <4>2
    <3>5. QED BY <3>1, <3>2, <3>3, <3>4
  <2>5. QED BY <1>2, <2>3, <2>4 DEF MessageInv
<1>7. QED BY <1>5, <1>6

(* The amount that a call reads is its own, or that of one it shared with. *)
LEMMA SerializeStep ==
  ASSUME MessageInv, NEW t \in Threads, Serialize(t)
  PROVE  MessageInv'
<1>1. /\ pc[t] = "serialize"
      /\ pc' = [pc EXCEPT ![t] = IF call[t].method = "alias" THEN "direct" ELSE "send"]
      /\ call' = IF call[t].dict = None THEN call ELSE [call EXCEPT ![t].amount = amounts[call[t].dict]]
      /\ UNCHANGED <<calls, amounts, shared, buffering, held, service, aliased>>
  BY DEF Serialize, Goto
<1>2. /\ held' \in Seq(Records) /\ service' \in Seq(Records)
      /\ Messages' = Messages /\ MessagesOnce' /\ ChargeIsOwn' /\ AliasInv'
  BY <1>1, MessagesKept
<1>3. /\ pc'[t] = IF call[t].method = "alias" THEN "direct" ELSE "send"
      /\ \A u \in Threads \ {t} : pc'[u] = pc[u] /\ call'[u] = call[u]
  BY <1>1 DEF MessageInv, MessageTypes
<1>4. /\ call'[t].id = call[t].id /\ call'[t].method = call[t].method
      /\ call'[t].amount = IF call[t].dict = None THEN call[t].amount ELSE amounts[call[t].dict]
  BY <1>1 DEF MessageInv, MessageTypes
<1>5. MessageTypes'
  <2>1. call' \in [Threads -> [id : {0} \cup Calls, method : Methods \cup {"none"},
                               dict : Dicts \cup {None}, amount : Amounts]]
    <3>1. CASE call[t].dict = None
      BY <1>1, <3>1 DEF MessageInv, MessageTypes
    <3>2. CASE call[t].dict # None
      <4>1. amounts[call[t].dict] \in Amounts
        BY <3>2 DEF MessageInv, MessageTypes
      <4>2. [call[t] EXCEPT !.amount = amounts[call[t].dict]]
              \in [id : {0} \cup Calls, method : Methods \cup {"none"},
                   dict : Dicts \cup {None}, amount : Amounts]
        BY <4>1 DEF MessageInv, MessageTypes
      <4>3. QED BY <1>1, <3>2, <4>2 DEF MessageInv, MessageTypes
    <3>3. QED BY <3>1, <3>2
  <2>2. QED BY <1>1, <1>2, <2>1 DEF MessageInv, MessageTypes
<1>6. ASSUME NEW u \in Threads PROVE Unsent(u)' /\ AtStatement(u)'
  <2>1. CASE u = t
    <3>1. Unsent(u)'
      BY <1>1, <1>2, <1>3, <1>4, <2>1 DEF MessageInv, Unsent
    <3>2. AtStatement(u)'
      BY <1>1, <1>3, <1>4, <2>1 DEF MessageInv, AtStatement, OwnAmount
    <3>3. QED BY <3>1, <3>2
  <2>2. CASE u # t
    <3>1. Unsent(u)'
      BY <1>1, <1>2, <1>3, <1>4, <2>2 DEF MessageInv, Unsent
    <3>2. AtStatement(u)'
      BY <1>1, <1>3, <2>2 DEF MessageInv, AtStatement, OwnAmount
    <3>3. QED BY <3>1, <3>2
  <2>3. QED BY <2>1, <2>2
<1>7. QED BY <1>2, <1>5, <1>6 DEF MessageInv

-----------------------------------------------------------------------------
(* The end of the block                                                    *)

(* Closing the clients of a provider, to the end or until it raises.       *)
LEMMA CloseType ==
  ASSUME ExitTypes, NEW p \in providers, NEW next \in {"remote", "returned"}, Close(p, next)
  PROVE  /\ clients' \in [providers -> SUBSET {"sync", "async"}]
         /\ leaving' \in [how : {"none", "sync", "loop", "async"},
                           at : {"inside", "local", "remote", "returned", "raised"}]
         /\ leaving'.how = leaving.how
         /\ \A q \in providers \ {p} : clients'[q] = clients[q]
         /\ \/ leaving'.at = next /\ clients'[p] = {}
            \/ leaving'.at = "raised"
<1>1. CASE clients' = [clients EXCEPT ![p] = {}] /\ leaving' = [leaving EXCEPT !.at = next]
  BY <1>1 DEF ExitTypes
<1>2. CASE /\ clients' = [clients EXCEPT ![p] = {"async"}] \/ clients' = clients
           /\ leaving' = [leaving EXCEPT !.at = "raised"]
  BY <1>2 DEF ExitTypes
<1>3. QED BY <1>1, <1>2 DEF Close

(* Each step of the end of the block keeps what is known of it.            *)
LEMMA ExitStep ==
  ASSUME ExitInv, (\E how \in {"sync", "loop", "async"} : Leave(how)) \/ LeaveLocal \/ LeaveRemote
  PROVE  ExitInv'
<1>1. CASE \E how \in {"sync", "loop", "async"} : Leave(how)
  BY <1>1 DEF Leave, ExitInv, ExitTypes, CleanedUp, ExitCleansUp
<1>2. CASE LeaveLocal /\ "local" \in providers
  <2>1. /\ Close("local", "remote") /\ StopPolling /\ UNCHANGED providers
        /\ leaving.at = "local"
    BY <1>2 DEF LeaveLocal
  <2>2. /\ clients' \in [providers -> SUBSET {"sync", "async"}]
        /\ leaving' \in [how : {"none", "sync", "loop", "async"},
                          at : {"inside", "local", "remote", "returned", "raised"}]
        /\ leaving'.how = leaving.how
        /\ \/ leaving'.at = "remote" /\ clients'["local"] = {}
           \/ leaving'.at = "raised"
    BY <1>2, <2>1, CloseType DEF ExitInv
  <2>3. /\ polling' \in {"none", "thread", "task"}
        /\ polling' # IF leaving'.how = "async" THEN "task" ELSE "thread"
    BY <2>1, <2>2 DEF StopPolling, ExitInv, ExitTypes
  <2>4. QED BY <1>2, <2>1, <2>2, <2>3 DEF ExitInv, ExitTypes, CleanedUp, ExitCleansUp
<1>3. CASE LeaveLocal /\ "local" \notin providers
  <2>1. /\ leaving' = [leaving EXCEPT !.at = "remote"] /\ UNCHANGED <<providers, clients, polling>>
    BY <1>3 DEF LeaveLocal
  <2>2. QED BY <1>3, <2>1 DEF ExitInv, ExitTypes, CleanedUp, ExitCleansUp
<1>4. CASE LeaveRemote /\ "remote" \in providers
  <2>1. /\ Close("remote", "returned") /\ UNCHANGED <<providers, polling>> /\ leaving.at = "remote"
    BY <1>4 DEF LeaveRemote
  <2>2. /\ clients' \in [providers -> SUBSET {"sync", "async"}]
        /\ leaving' \in [how : {"none", "sync", "loop", "async"},
                          at : {"inside", "local", "remote", "returned", "raised"}]
        /\ leaving'.how = leaving.how
        /\ \A q \in providers \ {"remote"} : clients'[q] = clients[q]
        /\ \/ leaving'.at = "returned" /\ clients'["remote"] = {}
           \/ leaving'.at = "raised"
    BY <1>4, <2>1, CloseType DEF ExitInv
  <2>3. \A p \in providers : p = "remote" \/ p = "local"
    BY DEF ExitInv, ExitTypes
  <2>4. CleanedUp'
    BY <2>1, <2>2 DEF ExitInv, CleanedUp
  <2>5. ExitCleansUp'
    BY <2>1, <2>2, <2>3, <2>4 DEF ExitInv, CleanedUp, ExitCleansUp
  <2>6. QED BY <2>1, <2>2, <2>4, <2>5 DEF ExitInv, ExitTypes
<1>5. CASE LeaveRemote /\ "remote" \notin providers
  <2>1. /\ leaving' = [leaving EXCEPT !.at = "returned"] /\ UNCHANGED <<providers, clients, polling>>
        /\ leaving.at = "remote"
    BY <1>5 DEF LeaveRemote
  <2>2. \A p \in providers : p = "local"
    BY <1>5 DEF ExitInv, ExitTypes
  <2>3. QED BY <1>5, <2>1, <2>2 DEF ExitInv, ExitTypes, CleanedUp, ExitCleansUp
<1>6. QED BY <1>1, <1>2, <1>3, <1>4, <1>5

-----------------------------------------------------------------------------
(* The theorems                                                            *)

(* The initial states satisfy the invariant.                               *)
LEMMA InvInit == Init => IInv
<1>1. ASSUME Init PROVE MessageInv
  <2>1. Messages = {} /\ held = <<>> /\ service = <<>> /\ DOMAIN held = {} /\ DOMAIN aliased = {}
    BY <1>1 DEF Init, Messages, ToSet
  <2>2. MessageTypes
    BY <1>1, <2>1, BoundAssumption DEF Init, MessageTypes, Amounts, NoCall
  <2>3. \A t \in Threads : Unsent(t) /\ AtStatement(t)
    BY <1>1 DEF Init, Unsent, AtStatement, NoCall
  <2>4. MessagesOnce /\ ChargeIsOwn /\ AliasInv
    BY <1>1, <2>1 DEF MessagesOnce, OneOfEach, ChargeIsOwn, AliasInv, AliasIsDirect
  <2>5. QED BY <2>2, <2>3, <2>4 DEF MessageInv
<1>2. ASSUME Init PROVE ExitInv
  BY <1>2, BoundAssumption DEF Init, ExitInv, ExitTypes, CleanedUp, ExitCleansUp
<1>3. QED BY <1>1, <1>2, Halves

(* Every step preserves it: the two halves change at different steps.      *)
LEMMA InvStep == IInv /\ [Next]_vars => IInv'
<1>1. SUFFICES ASSUME MessageInv, ExitInv, [Next]_vars
               PROVE  MessageInv' /\ ExitInv'
  <2>1. IInv' <=> MessageInv' /\ ExitInv'
    BY Halves, PTL
  <2>2. QED BY <2>1, Halves
<1>2. UNCHANGED messageVars => MessageInv'
  BY <1>1 DEF messageVars, MessageInv, MessageTypes, MessagesOnce, OneOfEach, Messages, Unsent,
         AtStatement, OwnAmount, ChargeIsOwn, AliasInv, AliasIsDirect
<1>3. UNCHANGED exitVars => ExitInv'
  BY <1>1 DEF exitVars, ExitInv, ExitTypes, CleanedUp, ExitCleansUp
<1>4. CASE UNCHANGED vars
  BY <1>2, <1>3, <1>4 DEF vars
<1>5. ASSUME NEW t \in Threads, Begin(t) PROVE MessageInv' /\ ExitInv'
  BY <1>1, <1>3, <1>5, BeginStep DEF exitVars, Begin
<1>6. ASSUME NEW t \in Threads, UpdateAmount(t) PROVE MessageInv' /\ ExitInv'
  BY <1>1, <1>3, <1>6, UpdateAmountStep DEF exitVars, UpdateAmount
<1>7. ASSUME NEW t \in Threads, Serialize(t) PROVE MessageInv' /\ ExitInv'
  BY <1>1, <1>3, <1>7, SerializeStep DEF exitVars, Serialize
<1>8. ASSUME NEW t \in Threads, Send(t) \/ SendRaises(t) \/ SendDirectly(t) \/ DirectRaises(t)
      PROVE  MessageInv' /\ ExitInv'
  BY <1>1, <1>3, <1>8, SendStep DEF exitVars, Send, SendRaises, SendDirectly, DirectRaises
<1>9. CASE Deliver
  BY <1>1, <1>3, <1>9, DeliverStep DEF exitVars, Deliver
<1>10. CASE (\E how \in {"sync", "loop", "async"} : Leave(how)) \/ LeaveLocal \/ LeaveRemote
  BY <1>1, <1>2, <1>10, ExitStep DEF Leave, LeaveLocal, LeaveRemote
<1>11. QED BY <1>1, <1>4, <1>5, <1>6, <1>7, <1>8, <1>9, <1>10 DEF Next

(* The invariant holds of every behaviour of threads that record, of a     *)
(* consumer that delivers, and of a with block that is left.               *)
THEOREM InvCorrect == Spec => []IInv
<1>1. QED BY InvInit, InvStep, PTL DEF Spec

(* The facade is well typed, and hands the consumer or the service one     *)
(* message of a call at most.                                              *)
THEOREM TypeCorrect == Spec => []TypeOK
<1>1. IInv => TypeOK
  BY DEF IInv
<1>2. QED BY <1>1, InvCorrect, PTL

(* A charge is recorded with its caller's amount, unless calls that charge *)
(* at the same time share their dictionary.                                *)
THEOREM ChargesCorrect == Spec => []ChargeIsOwn
<1>1. IInv => ChargeIsOwn
  BY DEF IInv
<1>2. QED BY <1>1, InvCorrect, PTL

(* When alias() returns the service knows the alias; the consumer of the   *)
(* facade never sees one.                                                  *)
THEOREM AliasesDirect == Spec => []AliasIsDirect
<1>1. IInv => AliasIsDirect
  BY DEF IInv
<1>2. QED BY <1>1, InvCorrect, PTL

(* A with block that is left normally has closed every client, and every   *)
(* one that is left has stopped its kind of polling.                       *)
THEOREM ExitCorrect == Spec => []ExitCleansUp
<1>1. IInv => ExitCleansUp
  BY DEF IInv
<1>2. QED BY <1>1, InvCorrect, PTL
=============================================================================
