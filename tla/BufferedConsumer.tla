-------------------------- MODULE BufferedConsumer --------------------------
(***************************************************************************)
(* mixpanel.BufferedConsumer: messages are kept in one Python list per     *)
(* endpoint and posted in batches by the wrapped Consumer.  Nothing is     *)
(* locked, and the class is reached from several threads (the application  *)
(* and the executor that reports flag exposures), so a call is split at    *)
(* every point where another thread can observe or change what it uses.    *)
(*                                                                         *)
(* Lists are objects: `buf = self._buffers[endpoint]` is a reference, an   *)
(* append changes the object, `buf = buf[n:]` makes a new one and the last *)
(* assignment publishes it.  heap[e] holds the list objects that were ever *)
(* published for endpoint e, buffers[e] is the index of the current one,   *)
(* and buf[t] = 0 says that thread t works on a slice of its own, rest[t]. *)
(***************************************************************************)
EXTENDS Integers, Sequences, Functions, FiniteSets

CONSTANTS
  Threads,      \* the threads that call the consumer
  Endpoints,    \* the keys of self._buffers
  FlushOrder,   \* their order in the dictionary, which is flush()'s order
  Messages,     \* the JSON messages the application sends, each once
  NoMessage,    \* the argument of a thread that has made no call
  NoKey,        \* an api_key of None or (None, None)
  EndpointOf,   \* the endpoint each message is sent to
  KeyOf,        \* the api_key given with each message
  MaxSize,      \* the constructor's max_size; the code does not check it
  Cap,          \* the 50 of min(50, max_size)
  Poison,       \* messages the service rejects, with the batch they are in
  TakeTurns,    \* whether the callers keep two threads out of one endpoint
  MaxCopies,    \* bound: times the service may apply one post (its tries)
  MaxFaults     \* bound: posts that fail although their batch is acceptable

ASSUME EndpointsAssumption ==
  /\ FlushOrder \in Seq(Endpoints)
  /\ FlushOrder # <<>>
  /\ Range(FlushOrder) = Endpoints

ASSUME MessagesAssumption ==
  /\ NoMessage \notin Messages
  /\ Poison \subseteq Messages
  /\ DOMAIN EndpointOf = Messages
  /\ DOMAIN KeyOf = Messages

ASSUME NumbersAssumption ==
  /\ MaxSize \in Int
  /\ Cap \in Nat \ {0}
  /\ MaxCopies \in Nat \ {0}
  /\ MaxFaults \in Nat
  /\ TakeTurns \in BOOLEAN

VARIABLES
  heap,         \* per endpoint, the list objects published so far
  buffers,      \* self._buffers: per endpoint, the index of the current list
  apiKey,       \* self._api_key
  pc,           \* per thread, the next statement of its call
  arg,          \* per thread, json_message of its last send
  todo,         \* per thread, the endpoints its call still has to flush
  buf,          \* per thread, the local `buf` when it is a published list
  rest,         \* per thread, the local `buf` when it is a private slice
  batch,        \* per thread, the local `batch`
  post,         \* per thread, its post in progress: a position in posts[Ep(t)]
  outcome,      \* per thread, how its last call ended
  promised,     \* history: per thread and endpoint, what its flush() has to send
  accepted,     \* history: per endpoint, the messages appended, in order
  posts,        \* history: per endpoint, the posts made and what came of them
  faults,       \* history: acceptable posts that failed
  overlapped    \* history: endpoints two threads were inside at once

vars == <<heap, buffers, apiKey, pc, arg, todo, buf, rest, batch, post, outcome,
          promised, accepted, posts, faults, overlapped>>

callVars == <<arg, buf, rest, batch, post>>
history  == <<accepted, posts, faults>>

-----------------------------------------------------------------------------
(* Python slices at self._max_size, for every value max_size may have.     *)
(* (Definitions marked Mutant here and below are not part of the model:    *)
(* each is a bug that one of the properties has to notice.)                *)

BatchSize == IF MaxSize < Cap THEN MaxSize ELSE Cap

SliceCut(s) ==
  IF BatchSize >= 0
    THEN IF BatchSize < Len(s) THEN BatchSize ELSE Len(s)
    ELSE IF Len(s) + BatchSize > 0 THEN Len(s) + BatchSize ELSE 0

(* Mutant: the tail is sliced at the service's limit, not at max_size.     *)
AfterBatchAtCap(s) == SubSeq(s, Cap + 1, Len(s))

Batch(s)      == SubSeq(s, 1, SliceCut(s))            \* buf[: self._max_size]
AfterBatch(s) == SubSeq(s, SliceCut(s) + 1, Len(s))   \* buf[self._max_size :]

-----------------------------------------------------------------------------
Keys == {NoKey} \cup Range(KeyOf)
Post == [batch : Seq(Messages), key : Keys, copies : 0..MaxCopies]

Current(e) == heap[e][buffers[e]]
Ep(t)      == Head(todo[t])
Local(t)   == IF buf[t] = 0 THEN rest[t] ELSE heap[Ep(t)][buf[t]]

Accepted(e)  == Range(accepted[e])

(* What the service has applied: a post does so with its whole batch.      *)
Delivered(e) ==
  {m \in Messages : \E p \in DOMAIN posts[e] :
     posts[e][p].copies > 0 /\ m \in Range(posts[e][p].batch)}

Inside(t, e) == pc[t] # "idle" /\ todo[t] # <<>> /\ Ep(t) = e

Occupied(t, e) == \E u \in Threads \ {t} : Inside(u, e)

(* Thread t moves on to endpoint e.  It waits for whoever is there if the  *)
(* callers take turns and overlaps them if they do not.                    *)
Enter(t, e) ==
  /\ TakeTurns => ~Occupied(t, e)
  /\ overlapped' = IF Occupied(t, e) THEN overlapped \cup {e} ELSE overlapped

NoPromise == [e \in Endpoints |-> {}]

(* The call ends and its local variables with it.                          *)
Return(t, result) ==
  /\ pc' = [pc EXCEPT ![t] = "idle"]
  /\ arg' = [arg EXCEPT ![t] = NoMessage]
  /\ todo' = [todo EXCEPT ![t] = <<>>]
  /\ buf' = [buf EXCEPT ![t] = 0]
  /\ rest' = [rest EXCEPT ![t] = <<>>]
  /\ batch' = [batch EXCEPT ![t] = <<>>]
  /\ post' = [post EXCEPT ![t] = 0]
  /\ outcome' = [outcome EXCEPT ![t] = result]
  /\ UNCHANGED promised

Goto(t, label) ==
  pc' = [pc EXCEPT ![t] = label] /\ UNCHANGED <<todo, outcome, promised>>

Fresh(m) ==
  /\ \A e \in Endpoints : m \notin Accepted(e)
  /\ \A t \in Threads : ~(pc[t] = "append" /\ arg[t] = m)

-----------------------------------------------------------------------------
Init ==
  /\ heap = [e \in Endpoints |-> << <<>> >>]
  /\ buffers = [e \in Endpoints |-> 1]
  /\ apiKey = NoKey
  /\ pc = [t \in Threads |-> "idle"]
  /\ arg = [t \in Threads |-> NoMessage]
  /\ todo = [t \in Threads |-> <<>>]
  /\ buf = [t \in Threads |-> 0]
  /\ rest = [t \in Threads |-> <<>>]
  /\ batch = [t \in Threads |-> <<>>]
  /\ post = [t \in Threads |-> 0]
  /\ outcome = [t \in Threads |-> "none"]
  /\ promised = [t \in Threads |-> NoPromise]
  /\ accepted = [e \in Endpoints |-> <<>>]
  /\ posts = [e \in Endpoints |-> <<>>]
  /\ faults = 0
  /\ overlapped = {}

-----------------------------------------------------------------------------
(* send(endpoint, json_message, api_key)                                   *)

CallSend(t, m) ==
  LET e == EndpointOf[m] IN
  /\ pc[t] = "idle" /\ e \in Endpoints /\ Fresh(m)
  /\ pc' = [pc EXCEPT ![t] = "append"]
  /\ arg' = [arg EXCEPT ![t] = m]
  /\ todo' = [todo EXCEPT ![t] = <<e>>]
  /\ buf' = [buf EXCEPT ![t] = buffers[e]]
  /\ outcome' = [outcome EXCEPT ![t] = "none"]
  /\ promised' = [promised EXCEPT ![t] = NoPromise]
  /\ Enter(t, e)
  /\ UNCHANGED <<heap, buffers, apiKey, rest, batch, post, history>>

CallSendUnknown(t, m) ==
  /\ pc[t] = "idle" /\ EndpointOf[m] \notin Endpoints
  /\ Return(t, "raised")
  /\ UNCHANGED <<heap, buffers, apiKey, history, overlapped>>

AppendMessage(t) ==
  /\ pc[t] = "append"
  /\ heap' = [heap EXCEPT ![Ep(t)][buf[t]] = Append(@, arg[t])]
  /\ accepted' = [accepted EXCEPT ![Ep(t)] = Append(@, arg[t])]
  /\ Goto(t, "setkey")
  /\ UNCHANGED <<buffers, apiKey, callVars, posts, faults, overlapped>>

RememberKey(t) ==
  /\ pc[t] = "setkey"
  /\ apiKey' = KeyOf[arg[t]]
  /\ Goto(t, "check")
  /\ UNCHANGED <<heap, buffers, callVars, history, overlapped>>

(* Mutant: flushes only when the buffer has more than max_size messages.   *)
CheckSizeLate(t) ==
  /\ pc[t] = "check"
  /\ IF Len(Local(t)) > BatchSize
       THEN Goto(t, "load") /\ UNCHANGED callVars
       ELSE Return(t, "ok")
  /\ UNCHANGED <<heap, buffers, apiKey, history, overlapped>>

CheckSize(t) ==
  /\ pc[t] = "check"
  /\ IF Len(Local(t)) >= BatchSize
       THEN Goto(t, "load") /\ UNCHANGED callVars
       ELSE Return(t, "ok")
  /\ UNCHANGED <<heap, buffers, apiKey, history, overlapped>>

-----------------------------------------------------------------------------
(* flush() and _flush_endpoint(endpoint)                                   *)

(* Mutant: flush() passes over the first endpoint.                         *)
CallFlushSkipsFirst(t) ==
  /\ pc[t] = "idle"
  /\ pc' = [pc EXCEPT ![t] = "load"]
  /\ todo' = [todo EXCEPT ![t] = Tail(FlushOrder)]
  /\ outcome' = [outcome EXCEPT ![t] = "none"]
  /\ promised' = [promised EXCEPT ![t] = [e \in Endpoints |-> Accepted(e)]]
  /\ Enter(t, FlushOrder[2])
  /\ UNCHANGED <<heap, buffers, apiKey, callVars, history>>

CallFlush(t) ==
  /\ pc[t] = "idle"
  /\ pc' = [pc EXCEPT ![t] = "load"]
  /\ todo' = [todo EXCEPT ![t] = FlushOrder]
  /\ outcome' = [outcome EXCEPT ![t] = "none"]
  /\ promised' = [promised EXCEPT ![t] = [e \in Endpoints |-> Accepted(e)]]
  /\ Enter(t, Head(FlushOrder))
  /\ UNCHANGED <<heap, buffers, apiKey, callVars, history>>

(* Mutant: flush() works on the list the constructor made.                 *)
LoadBufferStale(t) ==
  /\ pc[t] = "load"
  /\ buf' = [buf EXCEPT ![t] = 1]
  /\ Goto(t, "loop")
  /\ UNCHANGED <<heap, buffers, apiKey, arg, rest, batch, post, history, overlapped>>

LoadBuffer(t) ==
  /\ pc[t] = "load"
  /\ buf' = [buf EXCEPT ![t] = buffers[Ep(t)]]
  /\ Goto(t, "loop")
  /\ UNCHANGED <<heap, buffers, apiKey, arg, rest, batch, post, history, overlapped>>

NextBatch(t) ==
  /\ pc[t] = "loop" /\ Local(t) # <<>>
  /\ batch' = [batch EXCEPT ![t] = Batch(Local(t))]
  /\ Goto(t, "begin")
  /\ UNCHANGED <<heap, buffers, apiKey, arg, buf, rest, post, history, overlapped>>

Acceptable(messages) == Range(messages) \cap Poison = {}

(* The batch is handed to Consumer.send with the key the instance has now. *)
(* A batch that the service rejects is never applied, so nothing of its    *)
(* post stays behind: post[t] = 0.                                         *)
BeginPost(t) ==
  /\ pc[t] = "begin"
  /\ IF Acceptable(batch[t])
       THEN /\ posts' = [posts EXCEPT ![Ep(t)] =
                 Append(@, [batch |-> batch[t], key |-> apiKey, copies |-> 0])]
            /\ post' = [post EXCEPT ![t] = Len(posts[Ep(t)]) + 1]
       ELSE UNCHANGED <<posts, post>>
  /\ Goto(t, "post")
  /\ UNCHANGED <<heap, buffers, apiKey, arg, buf, rest, batch, accepted, faults, overlapped>>

LoopEnds(t) ==
  /\ pc[t] = "loop" /\ Local(t) = <<>>
  /\ Goto(t, "publish")
  /\ UNCHANGED <<heap, buffers, apiKey, callVars, history, overlapped>>

(* The service applies a post that was made, and a retry can make it do so *)
(* again.  Nothing cancels a request whose client has given up: a post may *)
(* be applied when its call has raised or returned, and newer posts have   *)
(* been applied before it.                                                 *)
ServerApplies(e, p) ==
  /\ posts[e][p].copies < MaxCopies
  /\ posts' = [posts EXCEPT ![e][p].copies = @ + 1]
  /\ UNCHANGED <<heap, buffers, apiKey, pc, todo, callVars, outcome, promised,
                 accepted, faults, overlapped>>

PostSucceeds(t) ==
  /\ pc[t] = "post" /\ post[t] # 0 /\ posts[Ep(t)][post[t]].copies > 0
  /\ Goto(t, "advance")
  /\ UNCHANGED <<heap, buffers, apiKey, callVars, history, overlapped>>

(* Consumer.send raises: the service rejected the batch, or the answer of  *)
(* an acceptable one was an error or never came.                           *)
SendRaises(t) ==
  /\ pc[t] = "post"
  /\ IF Acceptable(batch[t])
       THEN faults < MaxFaults /\ faults' = faults + 1
       ELSE UNCHANGED faults

(* Mutants: the exception is swallowed, the batch is tried again for ever, *)
(* or the messages after the failed batch become the buffer.               *)
PostFailsSilently(t) ==
  /\ SendRaises(t)
  /\ Return(t, "ok")
  /\ UNCHANGED <<heap, buffers, apiKey, accepted, posts, overlapped>>

PostFailsRetries(t) ==
  /\ SendRaises(t)
  /\ Goto(t, "loop")
  /\ UNCHANGED <<heap, buffers, apiKey, callVars, accepted, posts, overlapped>>

PostFailsDropsBatch(t) ==
  /\ SendRaises(t)
  /\ heap' = [heap EXCEPT ![Ep(t)] = Append(@, AfterBatch(Local(t)))]
  /\ buffers' = [buffers EXCEPT ![Ep(t)] = Len(heap[Ep(t)]) + 1]
  /\ Return(t, "raised")
  /\ UNCHANGED <<apiKey, accepted, posts, overlapped>>

(* The exception leaves the loop: self._buffers keeps the list it had,     *)
(* whatever earlier rounds have delivered.                                 *)
PostFails(t) ==
  /\ SendRaises(t)
  /\ Return(t, "raised")
  /\ UNCHANGED <<heap, buffers, apiKey, accepted, posts, overlapped>>

Advance(t) ==
  /\ pc[t] = "advance"
  /\ rest' = [rest EXCEPT ![t] = AfterBatch(Local(t))]
  /\ buf' = [buf EXCEPT ![t] = 0]
  /\ batch' = [batch EXCEPT ![t] = <<>>]
  /\ post' = [post EXCEPT ![t] = 0]
  /\ Goto(t, "loop")
  /\ UNCHANGED <<heap, buffers, apiKey, arg, history, overlapped>>

(* Mutant: the shortened list is never stored.                             *)
PublishListForgotten(t) == UNCHANGED <<heap, buffers>>

PublishList(t) ==
  IF buf[t] = 0
    THEN /\ heap' = [heap EXCEPT ![Ep(t)] = Append(@, rest[t])]
         /\ buffers' = [buffers EXCEPT ![Ep(t)] = Len(heap[Ep(t)]) + 1]
    ELSE /\ buffers' = [buffers EXCEPT ![Ep(t)] = buf[t]]
         /\ UNCHANGED heap

(* Mutant: the loop over the endpoints runs one too far.                   *)
PublishOneTooFar(t) ==
  /\ pc[t] = "publish"
  /\ PublishList(t)
  /\ IF todo[t] = <<>>
       THEN Return(t, "ok")
       ELSE /\ pc' = [pc EXCEPT ![t] = "load"]
            /\ todo' = [todo EXCEPT ![t] = Tail(@)]
            /\ UNCHANGED <<callVars, outcome, promised>>
  /\ UNCHANGED <<apiKey, history, overlapped>>

(* self._buffers[endpoint] = buf, then the next endpoint of a flush().     *)
Publish(t) ==
  /\ pc[t] = "publish"
  /\ PublishList(t)
  /\ IF Len(todo[t]) = 1
       THEN Return(t, "ok") /\ UNCHANGED overlapped
       ELSE /\ pc' = [pc EXCEPT ![t] = "load"]
            /\ todo' = [todo EXCEPT ![t] = Tail(@)]
            /\ Enter(t, todo[t][2])
            /\ UNCHANGED <<callVars, outcome, promised>>
  /\ UNCHANGED <<apiKey, history>>

-----------------------------------------------------------------------------
SendStep(t)  == AppendMessage(t) \/ RememberKey(t) \/ CheckSize(t)
FlushStep(t) ==
  LoadBuffer(t) \/ NextBatch(t) \/ BeginPost(t) \/ LoopEnds(t) \/ Advance(t) \/ Publish(t)
PostStep(t)  == PostSucceeds(t) \/ PostFails(t)
Call(t)      == CallFlush(t) \/ \E m \in Messages : CallSend(t, m) \/ CallSendUnknown(t, m)

Step(t) == Call(t) \/ SendStep(t) \/ FlushStep(t) \/ PostStep(t)

ServiceStep == \E e \in Endpoints : \E p \in DOMAIN posts[e] : ServerApplies(e, p)

Next == (\E t \in Threads : Step(t)) \/ ServiceStep

Spec == Init /\ [][Next]_vars

(* Threads run, every post is applied and answered or fails, and the       *)
(* application calls flush() again and again, as the class asks it to.     *)
Answered(t) ==
  \/ pc[t] = "post" /\ post[t] # 0 /\ ServerApplies(Ep(t), post[t])
  \/ PostStep(t)

Fairness ==
  \A t \in Threads :
    /\ WF_vars(SendStep(t))
    /\ WF_vars(FlushStep(t))
    /\ WF_vars(Answered(t))
    /\ WF_vars(CallFlush(t))

FairSpec == Spec /\ Fairness

-----------------------------------------------------------------------------
(* Properties                                                              *)

Labels == {"idle", "append", "setkey", "check", "load", "loop", "begin",
           "post", "advance", "publish"}

(* Every variable has its type, a thread inside a call has an endpoint to  *)
(* work on, its local list is one that was published for that endpoint or  *)
(* a slice of its own, and the post it waits for is one of its batch.      *)
Types ==
  /\ heap \in [Endpoints -> Seq(Seq(Messages))]
  /\ buffers \in [Endpoints -> Nat]
  /\ apiKey \in Keys
  /\ pc \in [Threads -> Labels]
  /\ arg \in [Threads -> Messages \cup {NoMessage}]
  /\ todo \in [Threads -> Seq(Endpoints)]
  /\ buf \in [Threads -> Nat]
  /\ rest \in [Threads -> Seq(Messages)]
  /\ batch \in [Threads -> Seq(Messages)]
  /\ post \in [Threads -> Nat]
  /\ outcome \in [Threads -> {"none", "ok", "raised"}]
  /\ promised \in [Threads -> [Endpoints -> SUBSET Messages]]
  /\ accepted \in [Endpoints -> Seq(Messages)]
  /\ posts \in [Endpoints -> Seq(Post)]
  /\ faults \in Nat
  /\ overlapped \subseteq Endpoints

ListExists(e) == buffers[e] \in 1..Len(heap[e])

CallOK(t) ==
  /\ pc[t] # "idle" => todo[t] # <<>>
  /\ pc[t] \notin {"idle", "load"} => buf[t] <= Len(heap[Ep(t)])
  /\ pc[t] \in {"append", "setkey", "check"} => buf[t] > 0 /\ arg[t] \in Messages
  /\ post[t] # 0 =>
       /\ pc[t] \in {"post", "advance"}
       /\ post[t] \in DOMAIN posts[Ep(t)]
       /\ posts[Ep(t)][post[t]].batch = batch[t]
  /\ pc[t] = "advance" => post[t] # 0 /\ posts[Ep(t)][post[t]].copies > 0

TypeOK ==
  /\ Types
  /\ \A e \in Endpoints : ListExists(e)
  /\ \A t \in Threads : CallOK(t)

(* A message that send() accepted is delivered or still in the endpoint's  *)
(* current list, so a later flush() can send it: failed posts and partly   *)
(* finished loops lose nothing, as long as two threads are never inside    *)
(* the endpoint at once.                                                   *)
NoLossOn(e) == Accepted(e) \subseteq Range(Current(e)) \cup Delivered(e)
NoLoss == \A e \in Endpoints \ overlapped : NoLossOn(e)

(* A flush() that returns has delivered everything that was accepted       *)
(* before it was called, on every endpoint, whatever earlier calls failed. *)
FlushKeepsItsWord ==
  \A t \in Threads : outcome[t] = "ok" =>
    \A e \in Endpoints \ overlapped : promised[t][e] \subseteq Delivered(e)

(* What the class documentation promises without naming a condition:       *)
(* flush() sends every event the instance still holds, so none may be in   *)
(* neither place.                                                          *)
NoLossEver == \A e \in Endpoints : NoLossOn(e)

(* send() flushes when the buffer is full, so a buffer outgrows max_size   *)
(* only by the messages of calls whose flush raised (no rejected batches). *)
GrowthBoundedByFailures ==
  \A e \in Endpoints \ overlapped : Len(Current(e)) <= BatchSize + faults

(* Failures repeat deliveries, but only so often: each failed post resends *)
(* a message at most once more, and each post is applied MaxCopies times   *)
(* at most, late ones included (no rejected batches).                      *)
Times(e, m) ==
  Cardinality({copy \in (DOMAIN posts[e]) \X (1..MaxCopies) :
                 /\ copy[2] <= posts[e][copy[1]].copies
                 /\ m \in Range(posts[e][copy[1]].batch)})
DeliveredAtMost ==
  \A e \in Endpoints \ overlapped : \A m \in Accepted(e) :
    Times(e, m) <= MaxCopies * (1 + faults)

(* Once a flush has published the shortened list, the messages it removed  *)
(* are not posted again: every post is made of messages of the list that   *)
(* is current when it is made, whoever makes it and whatever failed.  (The *)
(* service may still apply an older post of a removed message.)            *)
NoResendAfterPublish ==
  [][\A t \in Threads :
       pc[t] = "begin" /\ pc'[t] = "post" /\ Ep(t) \notin overlapped =>
         Range(batch[t]) \subseteq Range(Current(Ep(t)))]_vars

(* The inductive invariant behind NoLoss, FlushKeepsItsWord and            *)
(* NoResendAfterPublish.  Where no two threads have met, the thread inside *)
(* an endpoint works on the current list or on what its deliveries have    *)
(* left of it.                                                             *)
Flushing == {"loop", "begin", "post", "advance", "publish"}

Alone(e) ==
  \A t, u \in Threads : Inside(t, e) /\ Inside(u, e) => t = u

Working(t, e) ==
  /\ pc[t] \in {"append", "setkey", "check"} => buf[t] = buffers[e]
  /\ pc[t] \in Flushing =>
       /\ Accepted(e) \subseteq Range(Local(t)) \cup Delivered(e)
       /\ Range(Local(t)) \subseteq Range(Current(e))
  /\ pc[t] \in {"begin", "post", "advance"} => batch[t] = Batch(Local(t))
  /\ pc[t] = "publish" => Local(t) = <<>>

EndpointOK(e) ==
  /\ Alone(e)
  /\ NoLossOn(e)
  /\ \A t \in Threads : Inside(t, e) => Working(t, e)

Promises(t) ==
  /\ pc[t] \in {"append", "setkey", "check"} => promised[t] = NoPromise
  /\ outcome[t] = "ok" => todo[t] = <<>>
  /\ \A e \in Endpoints :
       /\ promised[t][e] \subseteq Accepted(e)
       /\ (pc[t] # "idle" \/ outcome[t] = "ok") /\ e \notin overlapped \cup Range(todo[t])
            => promised[t][e] \subseteq Delivered(e)

IInv ==
  /\ TypeOK
  /\ \A e \in Endpoints \ overlapped : EndpointOK(e)
  /\ \A t \in Threads : Promises(t)

(* The inductive invariant behind ImplementsDelivery,                      *)
(* GrowthBoundedByFailures and DeliveredAtMost.  What a thread is about to *)
(* append is new everywhere.                                               *)
NewMessages ==
  \A t \in Threads : pc[t] = "append" =>
    /\ EndpointOf[arg[t]] = Ep(t)
    /\ \A e \in Endpoints : arg[t] \notin Accepted(e)
    /\ \A u \in Threads : pc[u] = "append" /\ arg[u] = arg[t] => u = t

(* The list s is the end of a list of which all before it is done.         *)
EndOf(s, all, done) ==
  \E before \in 0..Len(all) :
    /\ Len(all) = before + Len(s)
    /\ \A i \in 1..Len(s) : s[i] = all[before + i]
    /\ \A i \in 1..before : all[i] \in done

Remains(s, e) == EndOf(s, accepted[e], Delivered(e))

(* The list s is a run of another and all before it is done.               *)
RunOf(s, all, done) ==
  \E before \in 0..Len(all) :
    /\ before + Len(s) <= Len(all)
    /\ \A i \in 1..Len(s) : s[i] = all[before + i]
    /\ \A i \in 1..before : all[i] \in done

PostsInOrder(e) ==
  \A p \in DOMAIN posts[e] : RunOf(posts[e][p].batch, accepted[e], Delivered(e))

InOrder(e) ==
  /\ IsInjective(accepted[e])
  /\ PostsInOrder(e)
  /\ Remains(Current(e), e)
  /\ \A t \in Threads : Inside(t, e) /\ pc[t] \in Flushing =>
       Remains(Local(t), e) /\ Len(Local(t)) <= Len(Current(e))

(* A list is full only while its messages wait for a flush.                *)
Growth(e) ==
  Poison = {} /\ MaxSize > 0 =>
    /\ Len(Current(e)) <= BatchSize + faults
    /\ (\A t \in Threads : Inside(t, e) => pc[t] = "append") => Len(Current(e)) < BatchSize + faults

(* A message in the list has been posted once for each failure, and once   *)
(* more in the post that it is in; one that a loop has left behind, once   *)
(* more.  (A rejected batch makes flush() post what is before it again     *)
(* without any failure counted.)                                           *)
Posted(e, m) == Cardinality({p \in DOMAIN posts[e] : m \in Range(posts[e][p].batch)})

InPost(t, m) ==
  IF pc[t] \in {"post", "advance"} /\ m \in Range(batch[t]) THEN 1 ELSE 0

Copies(e) ==
  Poison = {} =>
    /\ \A m \in Accepted(e) : Posted(e, m) <= faults + 1
    /\ (\A t \in Threads : Inside(t, e) => pc[t] \notin Flushing) =>
         \A m \in Range(Current(e)) : Posted(e, m) <= faults
    /\ \A t \in Threads : Inside(t, e) /\ pc[t] \in Flushing =>
         \A m \in Range(Local(t)) : Posted(e, m) <= faults + InPost(t, m)

DeliveryInv ==
  /\ IInv
  /\ TakeTurns => overlapped = {}
  /\ NewMessages
  /\ \A e \in Endpoints \ overlapped : InOrder(e) /\ Growth(e) /\ Copies(e)

(* A message that was given an API key with send() is posted with it.      *)
KeyFaithful ==
  \A e \in Endpoints : \A p \in DOMAIN posts[e] :
    \A m \in Range(posts[e][p].batch) :
      KeyOf[m] # NoKey => posts[e][p].key = KeyOf[m]

(* A call of send() or flush() ends, whatever the service answers.         *)
CallsReturn == \A t \in Threads : pc[t] # "idle" ~> pc[t] = "idle"

(* An accepted message that the service does not reject is delivered in    *)
(* the end: the caller flushes again and again and failures are finite.    *)
FlushDelivers ==
  \A m \in Messages \ Poison : \A e \in Endpoints :
    m \in Accepted(e) ~> m \in Delivered(e)

(* Offered(e) lists the batches posted; everything before the current list *)
(* is confirmed.                                                           *)
Offered(e)   == [p \in DOMAIN posts[e] |-> posts[e][p].batch]
Confirmed(e) == Len(accepted[e]) - Len(Current(e))

(* Between calls, and in exclusive use, BufferedConsumer is an at-least-   *)
(* once delivery service per endpoint that offers messages in order: what  *)
(* is delivered first keeps the order of send(), what was confirmed is not *)
(* offered again, and only what was offered is delivered, late or not.     *)
D == INSTANCE Delivery WITH
       confirmed <- [e \in Endpoints |-> Confirmed(e)],
       offered <- [e \in Endpoints |-> Offered(e)],
       delivered <- [e \in Endpoints |-> Delivered(e)]
ImplementsDelivery == D!Spec
=============================================================================
