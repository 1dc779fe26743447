------------------------------ MODULE Mixpanel ------------------------------
(***************************************************************************)
(* class Mixpanel: threads that record events and updates through its      *)
(* consumer, with dictionaries that they may share, and the end of a       *)
(* `with` block, which shuts the flag providers down.                      *)
(*                                                                         *)
(* A message stands for its JSON text; of its contents only the "$amount"  *)
(* of a charge is kept.  The consumer keeps to the contract of its class:  *)
(* it accepts the message or raises or, having accepted it, raises for     *)
(* another one; it delivers in the order of acceptance (Delivery).         *)
(*                                                                         *)
(* Definitions marked Mutant are not part of the model: each is a bug that *)
(* one of the properties has to notice.                                    *)
(***************************************************************************)
EXTENDS Naturals, Sequences, FiniteSets, SequencesExt

CONSTANTS
  Threads,
  Dicts,        \* dictionaries that callers pass as properties
  None,         \* Python's None
  Methods,      \* bound: the methods that are called
  Amount,       \* what each thread charges
  MaxCalls,     \* bound: calls in all
  Configured    \* bound: the sets of flag providers that are configured

ASSUME AmountAssumption == Amount \in [Threads -> Nat \ {0}]
ASSUME BoundAssumption ==
  None \notin Dicts /\ MaxCalls \in Nat /\ Configured \subseteq SUBSET {"local", "remote"}

VARIABLES
  pc,         \* per thread, its next statement
  call,       \* per thread, the call it is in
  calls,      \* number of calls begun
  amounts,    \* per dictionary, its "$amount", 0 without
  shared,     \* history: calls of charges that overlapped on a dictionary
  buffering,  \* the consumer delivers later (BufferedConsumer), or at once
  held,       \* the messages the consumer has accepted and holds
  service,    \* the messages the Mixpanel service has applied, in order
  aliased,    \* history: per alias() that returned, Len(service) at that time
  providers,  \* the flag providers that are configured
  clients,    \* per provider, its open HTTP clients
  polling,    \* how the local provider polls: "none", "thread" or "task"
  leaving     \* the end of the with block: how it is called, how far it is

messageVars == <<pc, call, calls, amounts, shared, buffering, held, service, aliased>>
exitVars    == <<providers, clients, polling, leaving>>
vars == <<messageVars, exitVars>>

-----------------------------------------------------------------------------
(* The methods: endpoint and operation of their messages.                  *)
PeopleOperations ==
  [people_set |-> "$set", people_set_once |-> "$set_once", people_increment |-> "$add",
   people_append |-> "$append", people_union |-> "$union", people_unset |-> "$unset",
   people_remove |-> "$remove", people_delete |-> "$delete"]

(* people_append and people_unset of "$transactions".                      *)
ChargeOperations == [people_track_charge |-> "$append", people_clear_charges |-> "$unset"]

GroupOperations ==
  [group_set |-> "$set", group_set_once |-> "$set_once", group_union |-> "$union",
   group_unset |-> "$unset", group_remove |-> "$remove", group_delete |-> "$delete"]

EventOperations ==
  [track |-> "events", import_data |-> "imports", alias |-> "events", merge |-> "imports"]

ASSUME MethodsAssumption ==
  Methods \subseteq DOMAIN PeopleOperations \cup DOMAIN ChargeOperations
                    \cup DOMAIN GroupOperations \cup DOMAIN EventOperations

Endpoint(method) ==
  CASE method \in DOMAIN EventOperations -> EventOperations[method]
    [] method \in DOMAIN GroupOperations -> "groups"
    [] OTHER -> "people"

TakesProperties(method) ==
  method \notin {"alias", "merge", "people_unset", "people_delete", "people_clear_charges",
                 "group_unset", "group_delete"}

Calls == 1 .. MaxCalls
NoCall == [id |-> 0, method |-> "none", dict |-> None, amount |-> 0]

Init ==
  /\ pc = [t \in Threads |-> "idle"]
  /\ call = [t \in Threads |-> NoCall]
  /\ calls = 0
  /\ amounts = [d \in Dicts |-> 0]
  /\ shared = {}
  /\ buffering \in BOOLEAN
  /\ held = <<>> /\ service = <<>>
  /\ aliased = [c \in {} |-> 0]
  /\ providers \in Configured
  /\ clients = [p \in providers |-> {"sync", "async"}]
  /\ polling \in IF "local" \in providers THEN {"none", "thread", "task"} ELSE {"none"}
  /\ leaving = [how |-> "none", at |-> "inside"]

Goto(t, label) == pc' = [pc EXCEPT ![t] = label]

-----------------------------------------------------------------------------
(* Messages                                                                *)

Begin(t) ==
  /\ pc[t] = "idle" /\ calls < MaxCalls
  /\ leaving.at = "inside"    \* bound: the end of the block comes last
  /\ calls' = calls + 1
  /\ \E method \in Methods :
     \E dict \in IF TakesProperties(method) THEN Dicts \cup {None} ELSE {None} :
       /\ call' = [call EXCEPT ![t] = [id |-> calls + 1, method |-> method, dict |-> dict, amount |-> 0]]
       /\ Goto(t, IF method = "people_track_charge" THEN "charge" ELSE "serialize")
  /\ UNCHANGED <<amounts, shared, buffering, held, service, aliased, exitVars>>

(* The charges that another thread is in with the same dictionary.         *)
Others(t) ==
  {u \in Threads \ {t} :
     /\ pc[u] \in {"charge", "serialize"} /\ call[u].dict = call[t].dict
     /\ call[u].method = "people_track_charge"}

(* Mutant: def people_track_charge(..., properties={}), one dictionary for *)
(* all the calls without properties.                                       *)
UpdateAmountOfDefault(t) ==
  /\ pc[t] = "charge"
  /\ IF call[t].dict = None
     THEN /\ call' = [u \in Threads |->
                        IF u = t \/ u \in Others(t) THEN [call[u] EXCEPT !.amount = Amount[t]] ELSE call[u]]
          /\ UNCHANGED <<amounts, shared>>
     ELSE /\ amounts' = [amounts EXCEPT ![call[t].dict] = Amount[t]]
          /\ shared' = shared \cup {call[u].id : u \in Others(t)}
                              \cup {call[t].id : u \in Others(t)}
          /\ UNCHANGED call
  /\ Goto(t, "serialize")
  /\ UNCHANGED <<calls, buffering, held, service, aliased, exitVars>>

(* people_track_charge: properties.update({"$amount": amount}), in the     *)
(* caller's dictionary or in a new one.                                    *)
UpdateAmount(t) ==
  /\ pc[t] = "charge"
  /\ IF call[t].dict = None
     THEN /\ call' = [call EXCEPT ![t].amount = Amount[t]]
          /\ UNCHANGED <<amounts, shared>>
     ELSE /\ amounts' = [amounts EXCEPT ![call[t].dict] = Amount[t]]
          /\ shared' = shared \cup {call[u].id : u \in Others(t)}
                              \cup {call[t].id : u \in Others(t)}
          /\ UNCHANGED call
  /\ Goto(t, "serialize")
  /\ UNCHANGED <<calls, buffering, held, service, aliased, exitVars>>

(* The event or record is built and json_dumps reads the dictionary.       *)
Serialize(t) ==
  /\ pc[t] = "serialize"
  /\ call' = IF call[t].dict = None THEN call ELSE [call EXCEPT ![t].amount = amounts[call[t].dict]]
  /\ Goto(t, IF call[t].method = "alias" THEN "direct" ELSE "send")
  /\ UNCHANGED <<calls, amounts, shared, buffering, held, service, aliased, exitVars>>

Message(t) ==
  [id |-> call[t].id, by |-> t, endpoint |-> Endpoint(call[t].method), method |-> call[t].method,
   amount |-> call[t].amount]

(* Mutant: the message is handed to the consumer twice.                    *)
AcceptTwice(message) ==
  IF buffering
  THEN held' = held \o <<message, message>> /\ UNCHANGED service
  ELSE service' = service \o <<message, message>> /\ UNCHANGED held

(* self._consumer.send(...): what it accepts it holds, or delivers.        *)
Accept(message) ==
  IF buffering
  THEN held' = Append(held, message) /\ UNCHANGED service
  ELSE service' = Append(service, message) /\ UNCHANGED held

Send(t) ==
  /\ pc[t] = "send"
  /\ Accept(Message(t))
  /\ Goto(t, "idle")
  /\ UNCHANGED <<call, calls, amounts, shared, buffering, aliased, exitVars>>

SendRaises(t) ==
  /\ pc[t] = "send"
  /\ Accept(Message(t)) \/ UNCHANGED <<held, service>>
  /\ Goto(t, "idle")
  /\ UNCHANGED <<call, calls, amounts, shared, buffering, aliased, exitVars>>

Aliased(t) ==
  aliased' = [c \in DOMAIN aliased \cup {call[t].id} |->
                IF c = call[t].id THEN Len(service') ELSE aliased[c]]

(* Mutant: alias() uses self._consumer.                                    *)
AliasThroughConsumer(t) ==
  /\ pc[t] = "direct"
  /\ Accept(Message(t))
  /\ Aliased(t)
  /\ Goto(t, "idle")
  /\ UNCHANGED <<call, calls, amounts, shared, buffering, exitVars>>

(* alias(): sync_consumer = Consumer().                                    *)
SendDirectly(t) ==
  /\ pc[t] = "direct"
  /\ service' = Append(service, Message(t))
  /\ Aliased(t)
  /\ Goto(t, "idle")
  /\ UNCHANGED <<call, calls, amounts, shared, buffering, held, exitVars>>

(* The post failed, or succeeded and its answer was lost.                  *)
DirectRaises(t) ==
  /\ pc[t] = "direct"
  /\ service' \in {service, Append(service, Message(t))}
  /\ Goto(t, "idle")
  /\ UNCHANGED <<call, calls, amounts, shared, buffering, held, aliased, exitVars>>

Deliver ==
  /\ held # <<>>
  /\ service' = Append(service, Head(held)) /\ held' = Tail(held)
  /\ UNCHANGED <<pc, call, calls, amounts, shared, buffering, aliased, exitVars>>

-----------------------------------------------------------------------------
(* The end of the block: `with` ("sync"), `with` inside a coroutine        *)
(* ("loop") or `async with` ("async").                                     *)

Leave(how) ==
  /\ leaving.at = "inside" /\ \A t \in Threads : pc[t] = "idle"
  /\ leaving' = [how |-> how, at |-> "local"]
  /\ UNCHANGED <<messageVars, providers, clients, polling>>

(* shutdown() or __aexit__ of one provider: the client that is closed      *)
(* last stays open when the step before it raises.  Closing the async      *)
(* client raises in a running loop, and may elsewhere.                     *)
Close(p, next) ==
  LET first == IF leaving.how = "async" THEN "async" ELSE "sync" IN
  \/ /\ leaving.how # "loop"
     /\ clients' = [clients EXCEPT ![p] = {}] /\ leaving' = [leaving EXCEPT !.at = next]
  \/ /\ clients' = IF first = "sync" THEN [clients EXCEPT ![p] = {"async"}] ELSE clients
     /\ leaving' = [leaving EXCEPT !.at = "raised"]

(* stop_polling_for_definitions stops the thread, astop_... the task.      *)
StopPolling ==
  polling' = IF polling = (IF leaving.how = "async" THEN "task" ELSE "thread") THEN "none" ELSE polling

(* Mutant: the clients are closed first, then polling is stopped.          *)
LeaveLocalStopsLast ==
  /\ leaving.at = "local"
  /\ IF "local" \in providers
     THEN Close("local", "remote")
          /\ IF leaving'.at = "raised" THEN UNCHANGED polling ELSE StopPolling
     ELSE leaving' = [leaving EXCEPT !.at = "remote"] /\ UNCHANGED <<clients, polling>>
  /\ UNCHANGED <<messageVars, providers>>

LeaveLocal ==
  /\ leaving.at = "local"
  /\ IF "local" \in providers
     THEN StopPolling /\ Close("local", "remote")
     ELSE leaving' = [leaving EXCEPT !.at = "remote"] /\ UNCHANGED <<clients, polling>>
  /\ UNCHANGED <<messageVars, providers>>

LeaveRemote ==
  /\ leaving.at = "remote"
  /\ IF "remote" \in providers
     THEN Close("remote", "returned")
     ELSE leaving' = [leaving EXCEPT !.at = "returned"] /\ UNCHANGED clients
  /\ UNCHANGED <<messageVars, providers, polling>>

Next ==
  \/ \E t \in Threads :
       \/ Begin(t) \/ UpdateAmount(t) \/ Serialize(t)
       \/ Send(t) \/ SendRaises(t) \/ SendDirectly(t) \/ DirectRaises(t)
  \/ Deliver
  \/ \E how \in {"sync", "loop", "async"} : Leave(how)
  \/ LeaveLocal \/ LeaveRemote

Spec == Init /\ [][Next]_vars

-----------------------------------------------------------------------------
(* Properties                                                              *)

Messages == ToSet(held) \cup ToSet(service)

Amounts == {0} \cup {Amount[t] : t \in Threads}

Records ==
  [id : Calls, by : Threads, endpoint : {"events", "imports", "people", "groups"},
   method : Methods, amount : Amounts]

(* The consumer gets at most one message of a call, and the alias of       *)
(* alias() not at all.                                                     *)
TypeOK ==
  /\ pc \in [Threads -> {"idle", "charge", "serialize", "send", "direct"}]
  /\ call \in [Threads -> [id : {0} \cup Calls, method : Methods \cup {"none"},
                           dict : Dicts \cup {None}, amount : Amounts]]
  /\ calls \in 0..MaxCalls
  /\ amounts \in [Dicts -> Amounts]
  /\ buffering \in BOOLEAN
  /\ held \in Seq(Records) /\ service \in Seq(Records)
  /\ IsInjective(held \o service)
  /\ \A m, n \in Messages : m.id = n.id => m = n
  /\ \A m \in Messages : m.id \in 1..calls
  /\ providers \subseteq {"local", "remote"}
  /\ clients \in [providers -> SUBSET {"sync", "async"}]
  /\ polling \in {"none", "thread", "task"}
  /\ leaving \in [how : {"none", "sync", "loop", "async"},
                  at : {"inside", "local", "remote", "returned", "raised"}]

(* A charge is recorded with its caller's amount, unless calls that charge *)
(* at the same time were given one and the same dictionary, which they     *)
(* write to: callers that share nothing do not disturb each other, and     *)
(* calls one after the other may reuse a dictionary.                       *)
ChargeIsOwn ==
  \A m \in Messages :
    m.method = "people_track_charge" => m.amount = Amount[m.by] \/ m.id \in shared

(* alias() "always results in a synchronous HTTP request to Mixpanel       *)
(* servers, regardless of any custom consumer": when it returns, the       *)
(* service knows the alias, before everything it applies from then on.     *)
AliasIsDirect ==
  /\ \A c \in DOMAIN aliased : \E i \in 1..aliased[c] : service[i].id = c
  /\ \A i \in DOMAIN held : held[i].method # "alias"

(* A with block that is left normally leaves no HTTP client open.  Polling *)
(* of the kind that belongs to the block (the thread for `with`, the task  *)
(* for `async with`) is stopped, also if closing the clients raises.       *)
ExitCleansUp ==
  /\ leaving.at = "returned" => \A p \in providers : clients[p] = {}
  /\ leaving.at \in {"remote", "returned", "raised"} =>
       polling # IF leaving.how = "async" THEN "task" ELSE "thread"

(* The inductive invariant behind these properties.  First, messages: no   *)
(* two are of one call, and none of a call that has not sent its own yet.  *)
OneOfEach(s) == \A i, j \in DOMAIN s : s[i].id = s[j].id => i = j

MessagesOnce ==
  /\ OneOfEach(held) /\ OneOfEach(service)
  /\ \A i \in DOMAIN held, j \in DOMAIN service : held[i].id # service[j].id

Unsent(t) ==
  pc[t] # "idle" =>
    /\ call[t].id \in 1..calls /\ call[t].method \in Methods
    /\ \A m \in Messages : m.id # call[t].id
    /\ \A u \in Threads \ {t} : pc[u] # "idle" => call[u].id # call[t].id

(* Then, what a call at a statement knows of its method and its amount.    *)
OwnAmount(t, amount) == amount = Amount[t] \/ call[t].id \in shared

AtStatement(t) ==
  /\ pc[t] = "charge" => call[t].method = "people_track_charge"
  /\ pc[t] = "send" => call[t].method # "alias"
  /\ pc[t] = "direct" => call[t].method = "alias"
  /\ call[t].method = "people_track_charge" =>
       /\ pc[t] = "serialize" =>
            OwnAmount(t, IF call[t].dict = None THEN call[t].amount ELSE amounts[call[t].dict])
       /\ pc[t] = "send" => OwnAmount(t, call[t].amount)

(* Last, what the end of the block has done so far.                        *)
CleanedUp ==
  /\ "local" \notin providers => polling = "none"
  /\ leaving.at \in {"remote", "returned"} /\ "local" \in providers => clients["local"] = {}
  /\ leaving.at = "returned" /\ "remote" \in providers => clients["remote"] = {}

IInv ==
  /\ TypeOK /\ MessagesOnce
  /\ \A t \in Threads : Unsent(t) /\ AtStatement(t)
  /\ ChargeIsOwn
  /\ AliasIsDirect /\ \A c \in DOMAIN aliased : aliased[c] \in 0..Len(service)
  /\ CleanedUp /\ ExitCleansUp
=============================================================================
