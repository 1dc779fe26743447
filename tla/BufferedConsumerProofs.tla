------------------------ MODULE BufferedConsumerProofs ----------------------
(***************************************************************************)
(* Proofs about BufferedConsumer for every number of threads, endpoints    *)
(* and messages, every max_size, and any bounds on retries and failures.   *)
(* The inductive invariant is IInv; the step that matters is that a thread *)
(* alone inside an endpoint holds, in its local list, everything that the  *)
(* service has not seen yet.                                               *)
(***************************************************************************)
EXTENDS BufferedConsumer, SequenceTheorems, TLAPS

-----------------------------------------------------------------------------
(* Facts about the lists.                                                  *)

(* A cut lies inside the list, whatever max_size was given.                *)
LEMMA SliceCutInRange ==
  ASSUME NEW s \in Seq(Messages)
  PROVE  SliceCut(s) \in 0..Len(s)
BY NumbersAssumption DEF SliceCut, BatchSize

(* Both parts of a cut are lists of messages, and together they hold the   *)
(* messages of the list and no others.                                     *)
LEMMA Slices ==
  ASSUME NEW s \in Seq(Messages)
  PROVE  /\ Batch(s) \in Seq(Messages)
         /\ AfterBatch(s) \in Seq(Messages)
         /\ Range(s) = Range(Batch(s)) \cup Range(AfterBatch(s))
<1> DEFINE c == SliceCut(s)
<1>1. c \in 0..Len(s)
  BY SliceCutInRange
<1> HIDE DEF c
<1>2. /\ SubSeq(s, 1, c) \in Seq(Messages)
      /\ Len(SubSeq(s, 1, c)) = c
      /\ \A i \in 1..c : SubSeq(s, 1, c)[i] = s[i]
  BY <1>1, SubSeqProperties
<1>3. /\ SubSeq(s, c + 1, Len(s)) \in Seq(Messages)
      /\ Len(SubSeq(s, c + 1, Len(s))) = Len(s) - c
      /\ \A i \in 1..(Len(s) - c) : SubSeq(s, c + 1, Len(s))[i] = s[c + i]
  BY <1>1, SubSeqProperties
<1>4. Range(s) = Range(SubSeq(s, 1, c)) \cup Range(SubSeq(s, c + 1, Len(s)))
  <2>1. ASSUME NEW x \in Range(s)
        PROVE  x \in Range(SubSeq(s, 1, c)) \cup Range(SubSeq(s, c + 1, Len(s)))
    <3>1. PICK i \in 1..Len(s) : x = s[i]
      BY <2>1 DEF Range
    <3>2. CASE i <= c
      <4>1. i \in 1..c
        BY <3>1, <3>2, <1>1
      <4>2. x = SubSeq(s, 1, c)[i] /\ i \in DOMAIN SubSeq(s, 1, c)
        BY <4>1, <3>1, <1>2
      <4>3. QED BY <4>2 DEF Range
    <3>3. CASE i > c
      <4>1. i - c \in 1..(Len(s) - c) /\ c + (i - c) = i
        BY <3>1, <3>3, <1>1
      <4>2. x = SubSeq(s, c + 1, Len(s))[i - c]
        BY <4>1, <3>1, <1>3
      <4>3. i - c \in DOMAIN SubSeq(s, c + 1, Len(s))
        BY <4>1, <1>3
      <4>4. QED BY <4>2, <4>3 DEF Range
    <3>4. QED BY <3>1, <3>2, <3>3, <1>1
  <2>2. Range(SubSeq(s, 1, c)) \subseteq Range(s)
    BY <1>1, <1>2 DEF Range
  <2>3. Range(SubSeq(s, c + 1, Len(s))) \subseteq Range(s)
    BY <1>1, <1>3 DEF Range
  <2>4. QED BY <2>1, <2>2, <2>3
<1>5. QED BY <1>2, <1>3, <1>4 DEF c, Batch, AfterBatch

(* A list that a message was appended to holds that message too.           *)
LEMMA RangeOfAppend ==
  ASSUME NEW S, NEW s \in Seq(S), NEW x \in S
  PROVE  Range(Append(s, x)) = Range(s) \cup {x}
<1>1. Range(s) \subseteq Range(Append(s, x))
  BY DEF Range
<1>2. x \in Range(Append(s, x))
  BY DEF Range
<1>3. Range(Append(s, x)) \subseteq Range(s) \cup {x}
  BY DEF Range
<1>4. QED BY <1>1, <1>2, <1>3

(* A thread inside a call works on an endpoint.                            *)
LEMMA EpType ==
  ASSUME TypeOK, NEW t \in Threads, pc[t] # "idle"
  PROVE  /\ Ep(t) \in Endpoints
         /\ Len(todo[t]) \in Nat \ {0}
         /\ Tail(todo[t]) \in Seq(Endpoints)
         /\ Len(Tail(todo[t])) = Len(todo[t]) - 1
<1>1. todo[t] \in Seq(Endpoints) /\ todo[t] # <<>>
  BY DEF TypeOK, Types, CallOK
<1>2. QED BY <1>1, HeadTailProperties, EmptySeq DEF Ep

(* The local list of a call is a list of messages.                         *)
LEMMA LocalType ==
  ASSUME TypeOK, NEW t \in Threads, pc[t] \notin {"idle", "load"}
  PROVE  Local(t) \in Seq(Messages)
<1>1. Ep(t) \in Endpoints
  BY EpType
<1>2. heap[Ep(t)] \in Seq(Seq(Messages)) /\ buf[t] \in 0..Len(heap[Ep(t)])
  BY <1>1 DEF TypeOK, Types, CallOK
<1>3. QED BY <1>2, ElementOfSeq DEF TypeOK, Types, Local

(* An endpoint's current list is a list of messages.                       *)
LEMMA CurrentType ==
  ASSUME TypeOK, NEW e \in Endpoints
  PROVE  Current(e) \in Seq(Messages)
<1>1. heap[e] \in Seq(Seq(Messages)) /\ buffers[e] \in 1..Len(heap[e])
  BY DEF TypeOK, Types, ListExists
<1>2. QED BY <1>1, ElementOfSeq DEF Current

-----------------------------------------------------------------------------
(* Type correctness                                                        *)

(* Thread t is the only one whose call moves.                              *)
OthersStay(t) ==
  \A u \in Threads \ {t} :
    /\ pc'[u] = pc[u] /\ arg'[u] = arg[u] /\ todo'[u] = todo[u]
    /\ buf'[u] = buf[u] /\ rest'[u] = rest[u] /\ batch'[u] = batch[u] /\ post'[u] = post[u]
    /\ outcome'[u] = outcome[u] /\ promised'[u] = promised[u]

(* Lists are made and never thrown away.                                   *)
HeapGrows == \A e \in Endpoints : Len(heap[e]) <= Len(heap'[e])

(* Posts are made, never changed or taken back, and applied.               *)
PostsGrow ==
  \A e \in Endpoints :
    /\ Len(posts[e]) <= Len(posts'[e])
    /\ \A p \in DOMAIN posts[e] :
         posts'[e][p].batch = posts[e][p].batch /\ posts[e][p].copies <= posts'[e][p].copies

(* A call that does not move keeps its place while lists and posts are     *)
(* added.                                                                  *)
LEMMA CallStays ==
  ASSUME TypeOK, Types', HeapGrows, PostsGrow, NEW u \in Threads,
         pc'[u] = pc[u], arg'[u] = arg[u], todo'[u] = todo[u], buf'[u] = buf[u],
         batch'[u] = batch[u], post'[u] = post[u]
  PROVE  CallOK(u)'
<1>1. CallOK(u)
  BY DEF TypeOK
<1>2. CASE pc[u] = "idle"
  BY <1>1, <1>2 DEF CallOK
<1>3. CASE pc[u] # "idle"
  <2>1. PICK f \in Endpoints : f = Ep(u) /\ f = Ep(u)'
    BY <1>3, EpType DEF Ep
  <2>2. heap[f] \in Seq(Seq(Messages)) /\ heap'[f] \in Seq(Seq(Messages)) /\ buf[u] \in Nat
    BY <2>1 DEF Types, TypeOK
  <2>3. pc[u] # "load" => buf'[u] <= Len(heap'[f])
    <3>1. Len(heap[f]) <= Len(heap'[f]) /\ Len(heap[f]) \in Nat /\ Len(heap'[f]) \in Nat
      BY <2>2 DEF HeapGrows
    <3>2. QED BY <1>1, <1>3, <2>1, <2>2, <3>1 DEF CallOK
  <2>4. ASSUME post[u] # 0
        PROVE  /\ post[u] \in DOMAIN posts'[f] /\ posts'[f][post[u]].batch = batch[u]
               /\ posts[f][post[u]].copies > 0 => posts'[f][post[u]].copies > 0
    <3>1. post[u] \in DOMAIN posts[f] /\ posts[f][post[u]].batch = batch[u]
      BY <1>1, <2>1, <2>4 DEF CallOK
    <3>2. posts[f] \in Seq(Post) /\ posts'[f] \in Seq(Post)
      BY DEF Types, TypeOK
    <3>3. post[u] \in DOMAIN posts'[f]
      <4>1. Len(posts[f]) \in Nat /\ Len(posts'[f]) \in Nat /\ Len(posts[f]) <= Len(posts'[f])
        BY <3>2 DEF PostsGrow
      <4>2. DOMAIN posts[f] = 1..Len(posts[f]) /\ DOMAIN posts'[f] = 1..Len(posts'[f])
        BY <3>2
      <4>3. QED BY <3>1, <4>1, <4>2
    <3>4. posts[f][post[u]] \in Post /\ posts'[f][post[u]] \in Post
      BY <3>1, <3>2, <3>3, ElementOfSeq
    <3>5. posts[f][post[u]].copies \in Nat /\ posts'[f][post[u]].copies \in Nat
      BY <3>4, NumbersAssumption DEF Post
    <3>6. QED BY <3>1, <3>3, <3>5 DEF PostsGrow
  <2>5. QED BY <1>1, <1>3, <2>1, <2>3, <2>4 DEF CallOK
<1>4. QED BY <1>2, <1>3

(* It is enough to look at the thread that moved.                          *)
LEMMA CallsOK ==
  ASSUME TypeOK, Types', NEW t \in Threads, OthersStay(t), HeapGrows, PostsGrow, CallOK(t)',
         \A e \in Endpoints : ListExists(e)'
  PROVE  TypeOK'
<1>1. ASSUME NEW u \in Threads, u # t PROVE CallOK(u)'
  BY <1>1, CallStays DEF OthersStay
<1>2. QED BY <1>1 DEF TypeOK

(* A post of the batch that a thread hands over, not applied yet.          *)
NewPost(t) == [batch |-> batch[t], key |-> apiKey, copies |-> 0]

(* Handing over a batch adds its post to those of the endpoint, unless the *)
(* service rejects the batch.                                              *)
LEMMA PostMade ==
  ASSUME Types, NEW t \in Threads, BeginPost(t), NEW f \in Endpoints, f = Ep(t)
  PROVE  /\ posts' \in [Endpoints -> Seq(Post)]
         /\ \A e \in Endpoints \ {f} : posts'[e] = posts[e]
         /\ Acceptable(batch[t]) =>
              /\ posts'[f] = Append(posts[f], NewPost(t))
              /\ Len(posts'[f]) = Len(posts[f]) + 1
              /\ DOMAIN posts'[f] = 1..(Len(posts[f]) + 1)
              /\ posts'[f][Len(posts[f]) + 1] = NewPost(t)
              /\ \A p \in DOMAIN posts[f] : posts'[f][p] = posts[f][p]
         /\ ~Acceptable(batch[t]) => posts' = posts
<1>1. CASE ~Acceptable(batch[t])
  BY <1>1 DEF BeginPost, Types
<1>2. CASE Acceptable(batch[t])
  <2>1. posts' = [posts EXCEPT ![f] = Append(posts[f], NewPost(t))]
    BY <1>2 DEF BeginPost, NewPost, Types
  <2>2. NewPost(t) \in Post
    BY NumbersAssumption DEF NewPost, Post, Types
  <2>3. posts[f] \in Seq(Post) /\ posts \in [Endpoints -> Seq(Post)]
    BY DEF Types
  <2>4. /\ Append(posts[f], NewPost(t)) \in Seq(Post)
        /\ Len(Append(posts[f], NewPost(t))) = Len(posts[f]) + 1
        /\ Append(posts[f], NewPost(t))[Len(posts[f]) + 1] = NewPost(t)
        /\ \A p \in 1..Len(posts[f]) : Append(posts[f], NewPost(t))[p] = posts[f][p]
    BY <2>2, <2>3, AppendProperties
  <2>5. DOMAIN posts[f] = 1..Len(posts[f]) /\ DOMAIN Append(posts[f], NewPost(t)) = 1..(Len(posts[f]) + 1)
    BY <2>3, <2>4
  <2>6. posts'[f] = Append(posts[f], NewPost(t)) /\ \A e \in Endpoints \ {f} : posts'[e] = posts[e]
    BY <2>1, <2>3
  <2>7. posts' \in [Endpoints -> Seq(Post)]
    BY <2>1, <2>3, <2>4
  <2>8. QED BY <1>2, <2>4, <2>5, <2>6, <2>7
<1>3. QED BY <1>1, <1>2

(* The service counts one more copy of a post and changes nothing else.    *)
LEMMA PostApplied ==
  ASSUME Types, NEW f \in Endpoints, NEW p \in DOMAIN posts[f], ServerApplies(f, p)
  PROVE  /\ posts' \in [Endpoints -> Seq(Post)]
         /\ \A e \in Endpoints \ {f} : posts'[e] = posts[e]
         /\ Len(posts'[f]) = Len(posts[f])
         /\ DOMAIN posts'[f] = DOMAIN posts[f]
         /\ posts'[f][p].copies = posts[f][p].copies + 1
         /\ posts'[f][p].batch = posts[f][p].batch
         /\ \A q \in DOMAIN posts[f] : q # p => posts'[f][q] = posts[f][q]
<1> DEFINE B == Seq(Messages)
           more == [posts[f][p] EXCEPT !.copies = posts[f][p].copies + 1]
<1> HIDE DEF B
<1>1. Post = [batch : B, key : Keys, copies : 0..MaxCopies]
  BY DEF Post, B
<1>2. posts[f] \in Seq(Post) /\ posts \in [Endpoints -> Seq(Post)]
  BY DEF Types
<1>3. posts[f][p] \in Post /\ posts[f][p].copies < MaxCopies /\ p \in 1..Len(posts[f])
  BY <1>2, ElementOfSeq DEF ServerApplies
<1>4. more \in Post /\ more.batch = posts[f][p].batch /\ more.copies = posts[f][p].copies + 1
  BY <1>1, <1>3, NumbersAssumption
<1>5. posts' = [posts EXCEPT ![f] = [posts[f] EXCEPT ![p] = more]]
  BY <1>2 DEF ServerApplies
<1> HIDE DEF more
<1>6. /\ [posts[f] EXCEPT ![p] = more] \in Seq(Post)
      /\ Len([posts[f] EXCEPT ![p] = more]) = Len(posts[f])
      /\ [posts[f] EXCEPT ![p] = more][p] = more
      /\ \A q \in 1..Len(posts[f]) : q # p => [posts[f] EXCEPT ![p] = more][q] = posts[f][q]
  BY <1>2, <1>3, <1>4, ExceptSeq
<1>7. posts'[f] = [posts[f] EXCEPT ![p] = more] /\ \A e \in Endpoints \ {f} : posts'[e] = posts[e]
  BY <1>2, <1>5
<1>8. DOMAIN posts[f] = 1..Len(posts[f]) /\ DOMAIN posts'[f] = 1..Len(posts[f])
  BY <1>2, <1>6, <1>7
<1>9. posts' \in [Endpoints -> Seq(Post)]
  BY <1>2, <1>5, <1>6
<1>10. QED BY <1>4, <1>6, <1>7, <1>8, <1>9

(* No step of a thread changes the posts that are there.                   *)
LEMMA PostsKept ==
  ASSUME TypeOK, NEW t \in Threads, Step(t)
  PROVE  PostsGrow
<1>0. /\ \A e \in Endpoints : Len(posts[e]) \in Nat
      /\ \A e \in Endpoints : \A p \in DOMAIN posts[e] : posts[e][p].copies \in Nat
  <2>1. ASSUME NEW e \in Endpoints PROVE posts[e] \in Seq(Post)
    BY DEF TypeOK, Types
  <2>2. ASSUME NEW e \in Endpoints, NEW p \in DOMAIN posts[e] PROVE posts[e][p].copies \in Nat
    <3>1. posts[e][p] \in Post
      BY <2>1, ElementOfSeq
    <3>2. QED BY <3>1, NumbersAssumption DEF Post
  <2>3. QED BY <2>1, <2>2
<1>1. CASE BeginPost(t)
  <2>1. PICK f \in Endpoints : f = Ep(t)
    BY <1>1, EpType DEF BeginPost
  <2>2. Types
    BY DEF TypeOK
  <2>3. ASSUME NEW e \in Endpoints
        PROVE  /\ Len(posts[e]) <= Len(posts'[e])
               /\ \A p \in DOMAIN posts[e] : posts'[e][p] = posts[e][p]
    <3>1. CASE posts'[e] = posts[e]
      BY <1>0, <3>1
    <3>2. CASE posts'[e] # posts[e]
      <4>1. e = f /\ Acceptable(batch[t])
        BY <1>1, <2>1, <2>2, <3>2, PostMade
      <4>2. Len(posts'[f]) = Len(posts[f]) + 1 /\ \A p \in DOMAIN posts[f] : posts'[f][p] = posts[f][p]
        BY <1>1, <2>1, <2>2, <4>1, PostMade
      <4>3. QED BY <1>0, <4>1, <4>2
    <3>3. QED BY <3>1, <3>2
  <2>4. QED BY <1>0, <2>3 DEF PostsGrow
<1>2. CASE ~BeginPost(t)
  <2>1. posts' = posts
    BY <1>2 DEF Step, Call, SendStep, FlushStep, PostStep, CallSend, CallSendUnknown, AppendMessage,
       RememberKey, CheckSize, CallFlush, LoadBuffer, NextBatch, LoopEnds, PostSucceeds,
       PostFails, Advance, Publish, history
  <2>2. QED BY <1>0, <2>1 DEF PostsGrow
<1>3. QED BY <1>1, <1>2

(* What has been delivered stays delivered.                                *)
LEMMA DeliveredGrows ==
  ASSUME Types, Types', PostsGrow, NEW e \in Endpoints
  PROVE  Delivered(e) \subseteq Delivered(e)'
<1>1. ASSUME NEW m \in Delivered(e) PROVE m \in Delivered(e)'
  <2>1. PICK p \in DOMAIN posts[e] : posts[e][p].copies > 0 /\ m \in Range(posts[e][p].batch)
    BY <1>1 DEF Delivered
  <2>2. posts[e] \in Seq(Post) /\ posts'[e] \in Seq(Post)
    BY DEF Types
  <2>3. Len(posts[e]) \in Nat /\ Len(posts'[e]) \in Nat /\ Len(posts[e]) <= Len(posts'[e])
    BY <2>2 DEF PostsGrow
  <2>4. p \in DOMAIN posts'[e]
    BY <2>1, <2>2, <2>3
  <2>5. posts[e][p].copies \in Nat /\ posts'[e][p].copies \in Nat
    <3>1. posts[e][p] \in Post /\ posts'[e][p] \in Post
      BY <2>2, <2>4, ElementOfSeq
    <3>2. QED BY <3>1, NumbersAssumption DEF Post
  <2>6. posts'[e][p].batch = posts[e][p].batch /\ posts[e][p].copies <= posts'[e][p].copies
    BY <2>1 DEF PostsGrow
  <2>7. posts'[e][p].copies > 0
    BY <2>1, <2>5, <2>6
  <2>8. m \in Messages
    BY <1>1 DEF Delivered
  <2>9. QED BY <2>1, <2>4, <2>6, <2>7, <2>8 DEF Delivered
<1>2. QED BY <1>1

(* The posts tell what is delivered.                                       *)
LEMMA DeliveredSame ==
  ASSUME NEW e \in Endpoints, posts'[e] = posts[e]
  PROVE  Delivered(e)' = Delivered(e)
BY DEF Delivered

(* A batch whose post was answered has been delivered.                     *)
LEMMA AnsweredDelivered ==
  ASSUME TypeOK, NEW t \in Threads, pc[t] = "advance"
  PROVE  Range(batch[t]) \subseteq Delivered(Ep(t))
<1>1. PICK f \in Endpoints : f = Ep(t)
  BY EpType
<1>2. /\ post[t] \in DOMAIN posts[f] /\ posts[f][post[t]].batch = batch[t]
      /\ posts[f][post[t]].copies > 0
  BY <1>1 DEF TypeOK, CallOK
<1>3. Range(batch[t]) \subseteq Messages
  BY RangeOfSeq DEF TypeOK, Types
<1>4. QED BY <1>1, <1>2, <1>3 DEF Delivered

(* The constructor leaves everything well typed.                           *)
LEMMA TypeInit == Init => TypeOK
<1> SUFFICES ASSUME Init PROVE TypeOK
  OBVIOUS
<1>1. <<>> \in Seq(Messages) /\ <<>> \in Seq(Endpoints) /\ <<>> \in Seq(Post)
  BY EmptySeq
<1>2. << <<>> >> \in Seq(Seq(Messages)) /\ Len(<< <<>> >>) = 1
  BY <1>1
<1>4. Types
  BY <1>1, <1>2 DEF Init, Types, Keys, Labels, NoPromise
<1>5. (\A e \in Endpoints : ListExists(e)) /\ \A t \in Threads : CallOK(t)
  BY <1>2 DEF Init, ListExists, CallOK
<1>6. QED BY <1>4, <1>5 DEF TypeOK

(* A step of one thread leaves the calls of the others alone.              *)
LEMMA OneMoves ==
  ASSUME Types, NEW t \in Threads, Step(t)
  PROVE  OthersStay(t)
<1> USE DEF Types, OthersStay, callVars, Goto, Return
<1>1. ASSUME NEW m \in Messages, CallSend(t, m) PROVE OthersStay(t)
  BY <1>1 DEF CallSend
<1>2. ASSUME NEW m \in Messages, CallSendUnknown(t, m) PROVE OthersStay(t)
  BY <1>2 DEF CallSendUnknown
<1>3. CASE AppendMessage(t)
  BY <1>3 DEF AppendMessage
<1>4. CASE RememberKey(t)
  BY <1>4 DEF RememberKey
<1>5. CASE CheckSize(t)
  BY <1>5 DEF CheckSize
<1>6. CASE CallFlush(t)
  BY <1>6 DEF CallFlush
<1>7. CASE LoadBuffer(t)
  BY <1>7 DEF LoadBuffer
<1>8. CASE NextBatch(t)
  BY <1>8 DEF NextBatch
<1>9. CASE BeginPost(t)
  BY <1>9 DEF BeginPost
<1>10. CASE LoopEnds(t)
  BY <1>10 DEF LoopEnds
<1>12. CASE PostSucceeds(t)
  BY <1>12 DEF PostSucceeds
<1>13. CASE PostFails(t)
  BY <1>13 DEF PostFails
<1>14. CASE Advance(t)
  BY <1>14 DEF Advance
<1>15. CASE Publish(t)
  BY <1>15 DEF Publish
<1>16. QED
  BY <1>1, <1>2, <1>3, <1>4, <1>5, <1>6, <1>7, <1>8, <1>9, <1>10, <1>12, <1>13, <1>14, <1>15 DEF Step, Call, SendStep, FlushStep, PostStep

(* What published the longer list is the only change of the heap.          *)
LEMMA PublishedList ==
  ASSUME TypeOK, NEW t \in Threads, pc[t] = "publish", PublishList(t)
  PROVE  /\ heap' \in [Endpoints -> Seq(Seq(Messages))]
         /\ buffers' \in [Endpoints -> Nat]
         /\ HeapGrows
         /\ \A e \in Endpoints : ListExists(e)'
         /\ \A e \in Endpoints \ {Ep(t)} : heap'[e] = heap[e] /\ buffers'[e] = buffers[e]
         /\ heap'[Ep(t)][buffers'[Ep(t)]] = Local(t)
<1>1. Ep(t) \in Endpoints
  BY EpType
<1>2. /\ heap \in [Endpoints -> Seq(Seq(Messages))] /\ buffers \in [Endpoints -> Nat]
      /\ rest[t] \in Seq(Messages) /\ heap[Ep(t)] \in Seq(Seq(Messages))
      /\ buf[t] \in 0..Len(heap[Ep(t)])
      /\ \A e \in Endpoints : buffers[e] \in 1..Len(heap[e])
  <2>1. CallOK(t) /\ Types /\ \A e \in Endpoints : ListExists(e)
    BY DEF TypeOK
  <2>2. heap[Ep(t)] \in Seq(Seq(Messages))
    BY <2>1, <1>1 DEF Types
  <2>3. buf[t] \in 0..Len(heap[Ep(t)])
    BY <2>1, <2>2 DEF Types, CallOK
  <2>4. QED BY <2>1, <2>2, <2>3 DEF Types, ListExists
<1>3. CASE buf[t] = 0
  <2>1. heap' = [heap EXCEPT ![Ep(t)] = Append(@, rest[t])]
        /\ buffers' = [buffers EXCEPT ![Ep(t)] = Len(heap[Ep(t)]) + 1]
    BY <1>3 DEF PublishList
  <2>2. /\ Append(heap[Ep(t)], rest[t]) \in Seq(Seq(Messages))
        /\ Len(Append(heap[Ep(t)], rest[t])) = Len(heap[Ep(t)]) + 1
        /\ Append(heap[Ep(t)], rest[t])[Len(heap[Ep(t)]) + 1] = rest[t]
    BY <1>2
  <2>3. QED BY <1>1, <1>2, <1>3, <2>1, <2>2 DEF HeapGrows, ListExists, Local
<1>4. CASE buf[t] # 0
  <2>1. heap' = heap /\ buffers' = [buffers EXCEPT ![Ep(t)] = buf[t]]
    BY <1>4 DEF PublishList
  <2>2. HeapGrows
    <3>1. \A e \in Endpoints : Len(heap[e]) \in Nat
      BY <1>2
    <3>2. QED BY <2>1, <3>1 DEF HeapGrows
  <2>3. QED BY <1>1, <1>2, <1>4, <2>1, <2>2 DEF ListExists, Local
<1>5. QED BY <1>3, <1>4

(* Every step keeps the types: one case per statement of the code.         *)
LEMMA TypeStep ==
  ASSUME TypeOK, NEW t \in Threads, Step(t)
  PROVE  TypeOK'
<1> USE MessagesAssumption, NumbersAssumption
<1> USE DEF callVars, history
<1>0. OthersStay(t) /\ Types /\ PostsGrow
  BY OneMoves, PostsKept DEF TypeOK
<1>c. pc[t] \notin {"post", "advance"} => post[t] = 0
  BY DEF TypeOK, CallOK
<1>a. SUFFICES Types' /\ HeapGrows /\ CallOK(t)' /\ \A e \in Endpoints : ListExists(e)'
  BY <1>0, CallsOK
<1>b. ASSUME UNCHANGED <<heap, buffers>>
      PROVE  HeapGrows /\ \A e \in Endpoints : ListExists(e)'
  BY <1>b DEF TypeOK, Types, HeapGrows, ListExists
<1>1. ASSUME NEW m \in Messages, CallSend(t, m)
      PROVE  Types' /\ HeapGrows /\ CallOK(t)' /\ \A e \in Endpoints : ListExists(e)'
  <2>1. /\ <<EndpointOf[m]>> \in Seq(Endpoints) /\ Head(<<EndpointOf[m]>>) = EndpointOf[m]
        /\ buffers[EndpointOf[m]] \in 1..Len(heap[EndpointOf[m]])
        /\ <<EndpointOf[m]>> # <<>>
    BY <1>1 DEF CallSend, TypeOK, ListExists
  <2>2. Types'
    BY <1>0, <1>1, <2>1 DEF CallSend, Types, Labels, NoPromise, Enter
  <2>3. CallOK(t)'
    BY <1>0, <1>c, <1>1, <2>1 DEF CallSend, Types, CallOK, Ep
  <2>4. QED BY <1>1, <1>b, <2>2, <2>3 DEF CallSend
<1>2. ASSUME NEW m \in Messages, CallSendUnknown(t, m)
      PROVE  Types' /\ HeapGrows /\ CallOK(t)' /\ \A e \in Endpoints : ListExists(e)'
  <2>1. Types'
    BY <1>0, <1>2, EmptySeq DEF CallSendUnknown, Types, Labels, Return
  <2>2. CallOK(t)'
    BY <1>0, <1>2 DEF CallSendUnknown, CallOK, Types, Return
  <2>3. QED BY <1>2, <1>b, <2>1, <2>2 DEF CallSendUnknown
<1>3. CASE AppendMessage(t)
  <2>1. /\ Ep(t) \in Endpoints /\ arg[t] \in Messages /\ buf[t] \in 1..Len(heap[Ep(t)])
        /\ pc[t] = "append" /\ todo[t] # <<>>
    <3>1. pc[t] = "append" /\ CallOK(t)
      BY <1>3 DEF AppendMessage, TypeOK
    <3>2. Ep(t) \in Endpoints
      BY <3>1, EpType
    <3>3. /\ arg[t] \in Messages /\ todo[t] # <<>>
          /\ buf[t] > 0 /\ buf[t] <= Len(heap[Ep(t)])
      BY <3>1 DEF CallOK
    <3>4. buf[t] \in Nat /\ Len(heap[Ep(t)]) \in Nat
      BY <1>0, <3>2 DEF Types
    <3>5. QED BY <3>1, <3>2, <3>3, <3>4
  <2>2. /\ heap[Ep(t)][buf[t]] \in Seq(Messages) /\ accepted[Ep(t)] \in Seq(Messages)
        /\ heap[Ep(t)] \in Seq(Seq(Messages))
    BY <1>0, <2>1, ElementOfSeq DEF Types
  <2>3. Append(heap[Ep(t)][buf[t]], arg[t]) \in Seq(Messages)
        /\ Append(accepted[Ep(t)], arg[t]) \in Seq(Messages)
    BY <2>1, <2>2
  <2>4. heap' = [heap EXCEPT ![Ep(t)] = [heap[Ep(t)] EXCEPT ![buf[t]] = Append(heap[Ep(t)][buf[t]], arg[t])]]
    BY <1>0, <1>3 DEF AppendMessage, Types
  <2>5. /\ [heap[Ep(t)] EXCEPT ![buf[t]] = Append(heap[Ep(t)][buf[t]], arg[t])] \in Seq(Seq(Messages))
        /\ Len([heap[Ep(t)] EXCEPT ![buf[t]] = Append(heap[Ep(t)][buf[t]], arg[t])]) = Len(heap[Ep(t)])
    BY <2>1, <2>2, <2>3, ExceptSeq
  <2>6. Types'
    <3>1. heap' \in [Endpoints -> Seq(Seq(Messages))]
      BY <1>0, <2>1, <2>4, <2>5 DEF Types
    <3>2. accepted' \in [Endpoints -> Seq(Messages)]
      BY <1>0, <1>3, <2>1, <2>3 DEF AppendMessage, Types
    <3>3. pc' \in [Threads -> Labels]
      BY <1>0, <1>3 DEF AppendMessage, Types, Goto, Labels
    <3>4. QED BY <1>0, <1>3, <3>1, <3>2, <3>3 DEF AppendMessage, Types, Goto
  <2>7. \A e \in Endpoints : Len(heap'[e]) = Len(heap[e])
    BY <1>0, <2>1, <2>4, <2>5 DEF Types
  <2>8. HeapGrows /\ \A e \in Endpoints : ListExists(e)'
    BY <1>0, <1>3, <2>7 DEF AppendMessage, TypeOK, Types, HeapGrows, ListExists
  <2>9. CallOK(t)'
    BY <1>0, <1>c, <1>3, <2>1, <2>7 DEF AppendMessage, Types, Goto, CallOK, Ep
  <2>10. QED BY <2>6, <2>8, <2>9
<1>4. CASE RememberKey(t)
  <2>1. arg[t] \in Messages /\ CallOK(t)
    BY <1>4 DEF RememberKey, TypeOK, CallOK
  <2>2. KeyOf[arg[t]] \in Keys
    BY <2>1 DEF Keys, Range
  <2>3. Types'
    BY <1>0, <1>4, <2>2 DEF RememberKey, Types, Goto, Labels
  <2>4. CallOK(t)'
    BY <1>0, <1>4, <2>1 DEF RememberKey, Types, Goto, CallOK, Ep
  <2>5. QED BY <1>4, <1>b, <2>3, <2>4 DEF RememberKey
<1>5. CASE CheckSize(t)
  <2>1. Types'
    <3>1. CASE Goto(t, "load") /\ UNCHANGED callVars
      BY <1>0, <1>5, <3>1 DEF CheckSize, Types, Goto, Labels
    <3>2. CASE Return(t, "ok")
      BY <1>0, <1>5, <3>2, EmptySeq DEF CheckSize, Types, Return, Labels
    <3>3. QED BY <1>5, <3>1, <3>2 DEF CheckSize
  <2>2. CallOK(t)'
    <3>1. CASE Goto(t, "load") /\ UNCHANGED callVars
      BY <1>0, <1>c, <1>5, <3>1 DEF CheckSize, TypeOK, Types, Goto, CallOK
    <3>2. CASE Return(t, "ok")
      BY <1>0, <3>2 DEF Types, Return, CallOK
    <3>3. QED BY <1>5, <3>1, <3>2 DEF CheckSize
  <2>3. QED BY <1>5, <1>b, <2>1, <2>2 DEF CheckSize
<1>6. CASE CallFlush(t)
  <2>1. FlushOrder \in Seq(Endpoints) /\ FlushOrder # <<>> /\ Head(FlushOrder) \in Endpoints
    BY EndpointsAssumption, HeadTailProperties
  <2>2. [e \in Endpoints |-> Accepted(e)] \in [Endpoints -> SUBSET Messages]
    BY <1>0, RangeOfSeq DEF Accepted, Types
  <2>3. Types'
    BY <1>0, <1>6, <2>1, <2>2 DEF CallFlush, Types, Labels, Enter
  <2>4. CallOK(t)'
    BY <1>0, <1>c, <1>6, <2>1 DEF CallFlush, Types, CallOK
  <2>5. QED BY <1>6, <1>b, <2>3, <2>4 DEF CallFlush
<1>7. CASE LoadBuffer(t)
  <2>1. Ep(t) \in Endpoints /\ CallOK(t)
    BY <1>7, EpType DEF LoadBuffer, TypeOK
  <2>2. buffers[Ep(t)] \in 1..Len(heap[Ep(t)])
    BY <2>1 DEF TypeOK, ListExists
  <2>3. Types'
    <3>1. buffers[Ep(t)] \in Nat
      BY <1>0, <2>1 DEF Types
    <3>2. buf' \in [Threads -> Nat] /\ pc' \in [Threads -> Labels]
      BY <1>0, <1>7, <3>1 DEF LoadBuffer, Types, Goto, Labels
    <3>3. QED BY <1>0, <1>7, <3>2 DEF LoadBuffer, Types, Goto
  <2>4. CallOK(t)'
    BY <1>0, <1>7, <2>1, <2>2 DEF LoadBuffer, Types, Goto, CallOK, Ep
  <2>5. QED BY <1>7, <1>b, <2>3, <2>4 DEF LoadBuffer
<1>8. CASE NextBatch(t)
  <2>1. Local(t) \in Seq(Messages) /\ CallOK(t)
    BY <1>8, LocalType DEF NextBatch, TypeOK
  <2>2. Batch(Local(t)) \in Seq(Messages)
    BY <2>1, Slices
  <2>3. Types'
    BY <1>0, <1>8, <2>2 DEF NextBatch, Types, Goto, Labels
  <2>4. CallOK(t)'
    BY <1>0, <1>8, <2>1 DEF NextBatch, Types, Goto, CallOK, Ep
  <2>5. QED BY <1>8, <1>b, <2>3, <2>4 DEF NextBatch
<1>9. CASE BeginPost(t)
  <2>1. PICK f \in Endpoints : f = Ep(t)
    BY <1>9, EpType DEF BeginPost
  <2>2. /\ CallOK(t) /\ pc[t] = "begin" /\ pc'[t] = "post" /\ post[t] = 0
        /\ todo' = todo /\ buf' = buf /\ heap' = heap /\ arg' = arg /\ batch' = batch
    BY <1>0, <1>9 DEF BeginPost, TypeOK, Types, CallOK, Goto
  <2>3. Len(posts[f]) \in Nat
    BY <1>0 DEF Types
  <2>4. CASE Acceptable(batch[t])
    <3>1. post' = [post EXCEPT ![t] = Len(posts[f]) + 1]
      BY <1>9, <2>1, <2>4 DEF BeginPost
    <3>2. Types'
      <4>1. posts' \in [Endpoints -> Seq(Post)]
        BY <1>0, <1>9, <2>1, PostMade
      <4>2. post' \in [Threads -> Nat]
        BY <1>0, <2>3, <3>1 DEF Types
      <4>3. QED BY <1>0, <1>9, <4>1, <4>2 DEF BeginPost, Types, Goto, Labels
    <3>3. post'[t] = Len(posts[f]) + 1 /\ Ep(t)' = f
      BY <1>0, <2>1, <2>2, <3>1 DEF Types, Ep
    <3>4. /\ Len(posts[f]) + 1 \in DOMAIN posts'[f]
          /\ posts'[f][Len(posts[f]) + 1].batch = batch[t]
      <4>1. /\ DOMAIN posts'[f] = 1..(Len(posts[f]) + 1)
            /\ posts'[f][Len(posts[f]) + 1] = NewPost(t)
        BY <1>0, <1>9, <2>1, <2>4, PostMade
      <4>2. QED BY <2>3, <4>1 DEF NewPost
    <3>5. CallOK(t)'
      BY <2>1, <2>2, <3>3, <3>4 DEF CallOK
    <3>6. QED BY <1>9, <1>b, <3>2, <3>5 DEF BeginPost
  <2>5. CASE ~Acceptable(batch[t])
    <3>1. UNCHANGED <<posts, post>>
      BY <1>9, <2>5 DEF BeginPost
    <3>2. Types'
      BY <1>0, <1>9, <3>1 DEF BeginPost, Types, Goto, Labels
    <3>3. CallOK(t)'
      BY <2>2, <3>1 DEF CallOK, Ep
    <3>4. QED BY <1>9, <1>b, <3>2, <3>3 DEF BeginPost
  <2>6. QED BY <2>4, <2>5
<1>10. CASE LoopEnds(t)
  <2>1. CallOK(t)
    BY DEF TypeOK
  <2>2. Types'
    BY <1>0, <1>10 DEF LoopEnds, Types, Goto, Labels
  <2>3. CallOK(t)'
    BY <1>0, <1>10, <2>1 DEF LoopEnds, Types, Goto, CallOK, Ep
  <2>4. QED BY <1>10, <1>b, <2>2, <2>3 DEF LoopEnds
<1>12. CASE PostSucceeds(t)
  <2>1. CallOK(t)
    BY DEF TypeOK
  <2>2. Types'
    BY <1>0, <1>12 DEF PostSucceeds, Types, Goto, Labels
  <2>3. CallOK(t)'
    BY <1>0, <1>12, <2>1 DEF PostSucceeds, Types, Goto, CallOK, Ep
  <2>4. QED BY <1>12, <1>b, <2>2, <2>3 DEF PostSucceeds
<1>13. CASE PostFails(t)
  <2>1. Types'
    <3>1. faults' \in Nat
      BY <1>0, <1>13 DEF PostFails, SendRaises, Types
    <3>2. QED BY <1>0, <1>13, <3>1, EmptySeq DEF PostFails, Types, Return, Labels
  <2>2. CallOK(t)'
    BY <1>0, <1>13 DEF PostFails, Types, Return, CallOK
  <2>3. QED BY <1>13, <1>b, <2>1, <2>2 DEF PostFails
<1>14. CASE Advance(t)
  <2>1. AfterBatch(Local(t)) \in Seq(Messages) /\ CallOK(t) /\ Ep(t) \in Endpoints
    BY <1>14, LocalType, EpType, Slices DEF Advance, TypeOK
  <2>2. Types'
    BY <1>0, <1>14, <2>1, EmptySeq DEF Advance, Types, Goto, Labels
  <2>3. CallOK(t)'
    <3>1. heap[Ep(t)] \in Seq(Seq(Messages))
      BY <1>0, <2>1 DEF Types
    <3>2. QED BY <1>0, <1>14, <2>1, <3>1 DEF Advance, Types, Goto, CallOK, Ep
  <2>4. QED BY <1>14, <1>b, <2>2, <2>3 DEF Advance
<1>15. CASE Publish(t)
  <2>1. pc[t] = "publish" /\ PublishList(t)
    BY <1>15 DEF Publish
  <2>2. /\ Len(todo[t]) \in Nat \ {0} /\ Tail(todo[t]) \in Seq(Endpoints)
        /\ Len(Tail(todo[t])) = Len(todo[t]) - 1 /\ todo[t] \in Seq(Endpoints)
    BY <1>0, <2>1, EpType DEF Types
  <2>3. Len(todo[t]) # 1 => Tail(todo[t]) # <<>> /\ todo[t][2] \in Endpoints
    <3> SUFFICES ASSUME Len(todo[t]) # 1
                 PROVE  Tail(todo[t]) # <<>> /\ todo[t][2] \in Endpoints
      OBVIOUS
    <3>1. Len(Tail(todo[t])) # 0 /\ 2 \in 1..Len(todo[t])
      <4>1. ASSUME NEW n \in Nat \ {0}, n # 1 PROVE n - 1 # 0 /\ 2 \in 1..n
        BY <4>1
      <4>2. QED BY <2>2, <4>1, Zenon
    <3>2. Len(<<>>) = 0
      OBVIOUS
    <3>3. todo[t][2] \in Endpoints
      BY <2>2, <3>1, ElementOfSeq
    <3>4. QED BY <3>1, <3>2, <3>3
  <2>4. Types'
    <3>1. heap' \in [Endpoints -> Seq(Seq(Messages))] /\ buffers' \in [Endpoints -> Nat]
      BY <2>1, PublishedList
    <3>2. CASE Len(todo[t]) = 1
      <4>1. Return(t, "ok") /\ UNCHANGED <<overlapped, apiKey, history>>
        BY <1>15, <3>2 DEF Publish
      <4>2. QED BY <1>0, <3>1, <4>1, EmptySeq DEF Types, Return, Labels
    <3>3. CASE Len(todo[t]) # 1
      <4>1. /\ pc' = [pc EXCEPT ![t] = "load"]
            /\ todo' = [todo EXCEPT ![t] = Tail(todo[t])]
            /\ overlapped' \in {overlapped, overlapped \cup {todo[t][2]}}
            /\ UNCHANGED <<callVars, outcome, promised, apiKey, history>>
        BY <1>0, <1>15, <3>3 DEF Publish, Enter, Types
      <4>2. todo' \in [Threads -> Seq(Endpoints)]
        BY <1>0, <2>2, <4>1 DEF Types
      <4>3. pc' \in [Threads -> Labels]
        BY <1>0, <4>1 DEF Types, Labels
      <4>4. overlapped' \subseteq Endpoints
        BY <1>0, <2>3, <3>3, <4>1 DEF Types
      <4>5. QED BY <1>0, <3>1, <4>1, <4>2, <4>3, <4>4 DEF Types
    <3>4. QED BY <3>2, <3>3
  <2>5. CallOK(t)'
    <3>1. CASE Len(todo[t]) = 1
      BY <1>0, <1>15, <3>1 DEF Publish, Types, Return, CallOK
    <3>2. CASE Len(todo[t]) # 1
      BY <1>0, <1>c, <1>15, <2>3, <3>2 DEF Publish, Types, CallOK
    <3>3. QED BY <3>1, <3>2
  <2>6. QED BY <2>1, <2>4, <2>5, PublishedList
<1>16. QED
  BY <1>1, <1>2, <1>3, <1>4, <1>5, <1>6, <1>7, <1>8, <1>9, <1>10, <1>12, <1>13,
     <1>14, <1>15 DEF Step, Call, SendStep, FlushStep, PostStep

(* So does the service, whenever it applies a post.                        *)
LEMMA TypeService ==
  ASSUME TypeOK, NEW f \in Endpoints, NEW p \in DOMAIN posts[f], ServerApplies(f, p)
  PROVE  TypeOK' /\ PostsGrow
<1>1. Types
  BY DEF TypeOK
<1>2. UNCHANGED <<heap, buffers, apiKey, pc, todo, arg, buf, rest, batch, post, outcome, promised,
                  accepted, faults, overlapped>>
  BY DEF ServerApplies, callVars
<1>3. /\ posts' \in [Endpoints -> Seq(Post)]
      /\ \A e \in Endpoints \ {f} : posts'[e] = posts[e]
      /\ Len(posts'[f]) = Len(posts[f])
      /\ posts'[f][p].copies = posts[f][p].copies + 1
      /\ posts'[f][p].batch = posts[f][p].batch
      /\ \A q \in DOMAIN posts[f] : q # p => posts'[f][q] = posts[f][q]
  BY <1>1, PostApplied
<1>4. Types'
  BY <1>1, <1>2, <1>3 DEF Types
<1>5. PostsGrow
  <2>1. ASSUME NEW e \in Endpoints
        PROVE  Len(posts[e]) \in Nat /\ \A q \in DOMAIN posts[e] : posts[e][q].copies \in Nat
    <3>1. posts[e] \in Seq(Post)
      BY <1>1 DEF Types
    <3>2. ASSUME NEW q \in DOMAIN posts[e] PROVE posts[e][q].copies \in Nat
      <4>1. posts[e][q] \in Post
        BY <3>1, ElementOfSeq
      <4>2. QED BY <4>1, NumbersAssumption DEF Post
    <3>3. QED BY <3>1, <3>2
  <2>2. ASSUME NEW e \in Endpoints
        PROVE  /\ Len(posts[e]) <= Len(posts'[e])
               /\ \A q \in DOMAIN posts[e] :
                    /\ posts'[e][q].batch = posts[e][q].batch
                    /\ posts[e][q].copies <= posts'[e][q].copies
    <3>1. CASE e # f
      BY <1>3, <2>1, <3>1
    <3>2. CASE e = f
      <4>1. Len(posts[f]) <= Len(posts'[f])
        BY <1>3, <2>1
      <4>2. ASSUME NEW q \in DOMAIN posts[f]
            PROVE  posts'[f][q].batch = posts[f][q].batch /\ posts[f][q].copies <= posts'[f][q].copies
        <5>1. CASE q = p
          <6>1. posts'[f][p].batch = posts[f][p].batch /\ posts'[f][p].copies = posts[f][p].copies + 1
            BY <1>3
          <6>2. posts[f][p].copies \in Nat
            BY <2>1
          <6>3. QED BY <5>1, <6>1, <6>2
        <5>2. CASE q # p
          <6>1. posts'[f][q] = posts[f][q]
            BY <1>3, <5>2
          <6>2. posts[f][q].copies \in Nat
            BY <2>1
          <6>3. QED BY <6>1, <6>2
        <5>3. QED BY <5>1, <5>2
      <4>3. QED BY <3>2, <4>1, <4>2
    <3>3. QED BY <3>1, <3>2
  <2>3. QED BY <2>2 DEF PostsGrow
<1>6. HeapGrows /\ \A e \in Endpoints : ListExists(e)'
  BY <1>2 DEF HeapGrows, ListExists, TypeOK, Types
<1>7. \A u \in Threads : CallOK(u)'
  BY <1>2, <1>4, <1>5, <1>6, CallStays
<1>8. QED BY <1>4, <1>5, <1>6, <1>7 DEF TypeOK

(* Every reachable state is well typed, for any values of the constants.   *)
THEOREM TypeCorrect == Spec => []TypeOK
<1>1. TypeOK /\ UNCHANGED vars => TypeOK'
  BY DEF TypeOK, Types, ListExists, CallOK, Ep, vars
<1>2. TypeOK /\ [Next]_vars => TypeOK'
  BY <1>1, TypeStep, TypeService DEF Next, ServiceStep
<1>3. QED BY TypeInit, <1>2, PTL DEF Spec

-----------------------------------------------------------------------------
(* The inductive invariant                                                 *)

(* An endpoint whose lists nobody touches, and what is delivered grows.    *)
SameLists(e) ==
  /\ heap'[e] = heap[e] /\ buffers'[e] = buffers[e] /\ accepted'[e] = accepted[e]
  /\ Delivered(e) \subseteq Delivered(e)'

(* What a thread inside an endpoint has in hand stays right when the lists *)
(* stay and more is delivered.                                             *)
LEMMA StillWorking ==
  ASSUME NEW u \in Threads, NEW e \in Endpoints, Working(u, e), Ep(u) = e, SameLists(e),
         pc'[u] = pc[u], todo'[u] = todo[u], buf'[u] = buf[u], rest'[u] = rest[u],
         batch'[u] = batch[u]
  PROVE  Working(u, e)'
<1>1. Ep(u)' = e
  BY DEF Ep
<1>2. Local(u)' = Local(u) /\ Current(e)' = Current(e)
  BY <1>1 DEF Local, Current, SameLists
<1>3. Accepted(e)' = Accepted(e) /\ Delivered(e) \subseteq Delivered(e)'
  BY DEF SameLists, Accepted
<1>4. Batch(Local(u))' = Batch(Local(u))
  BY <1>2 DEF Batch, SliceCut
<1>5. QED BY <1>2, <1>3, <1>4 DEF Working, SameLists

(* To keep an endpoint in order it is enough that the thread that moves    *)
(* does, if it is alone there or touches none of the endpoint's lists.     *)
LEMMA EndpointStep ==
  ASSUME TypeOK, TypeOK', NEW t \in Threads, NEW e \in Endpoints, OthersStay(t),
         EndpointOK(e), NoLossOn(e)', Inside(t, e)' => Working(t, e)',
         Inside(t, e) \/ (SameLists(e) /\ (Inside(t, e)' => ~Occupied(t, e)))
  PROVE  EndpointOK(e)'
<1>1. ASSUME NEW u \in Threads, u # t PROVE Inside(u, e)' <=> Inside(u, e)
  BY <1>1 DEF OthersStay, Inside, Ep
<1>2. ASSUME NEW u \in Threads, u # t, Inside(u, e)'
      PROVE  ~Inside(t, e) /\ ~Inside(t, e)' /\ SameLists(e)
  BY <1>1, <1>2 DEF EndpointOK, Alone, Occupied
<1>3. Alone(e)'
  <2>1. ASSUME NEW u \in Threads, NEW v \in Threads, Inside(u, e)', Inside(v, e)' PROVE u = v
    <3>1. CASE u = t \/ v = t
      BY <2>1, <3>1, <1>2
    <3>2. CASE u # t /\ v # t
      BY <2>1, <3>2, <1>1 DEF EndpointOK, Alone
    <3>3. QED BY <3>1, <3>2
  <2>2. QED BY <2>1 DEF Alone
<1>4. ASSUME NEW u \in Threads, Inside(u, e)', u # t PROVE Working(u, e)'
  <2>1. Working(u, e) /\ Ep(u) = e
    BY <1>1, <1>4 DEF EndpointOK, Inside
  <2>2. SameLists(e)
    BY <1>2, <1>4
  <2>3. QED BY <1>4, <2>1, <2>2, StillWorking DEF OthersStay
<1>5. QED BY <1>3, <1>4 DEF EndpointOK

(* A step that touches no list keeps the endpoints in order if the thread  *)
(* that takes it is in order wherever it then is.                          *)
LEMMA QuietStep ==
  ASSUME TypeOK, TypeOK', NEW t \in Threads, OthersStay(t),
         UNCHANGED <<heap, buffers, accepted>>, overlapped \subseteq overlapped',
         \A e \in Endpoints : Delivered(e) \subseteq Delivered(e)',
         \A e \in Endpoints \ overlapped : EndpointOK(e),
         \A e \in Endpoints \ overlapped' : Inside(t, e)' =>
            Working(t, e)' /\ (Inside(t, e) \/ ~Occupied(t, e))
  PROVE  \A e \in Endpoints \ overlapped' : EndpointOK(e)'
<1> SUFFICES ASSUME NEW e \in Endpoints \ overlapped' PROVE EndpointOK(e)'
  OBVIOUS
<1>1. EndpointOK(e) /\ e \in Endpoints
  OBVIOUS
<1>2. SameLists(e)
  BY DEF SameLists
<1>3. NoLossOn(e)'
  <2>1. NoLossOn(e) /\ Accepted(e)' = Accepted(e) /\ Current(e)' = Current(e)
    BY <1>1 DEF EndpointOK, Accepted, Current
  <2>2. QED BY <1>2, <2>1 DEF NoLossOn, SameLists
<1>4. QED BY <1>1, <1>2, <1>3, EndpointStep

(* A thread inside an endpoint is in a call that works on it.              *)
LEMMA WhereInside ==
  ASSUME TypeOK, NEW t \in Threads
  PROVE  /\ pc[t] # "idle" => Inside(t, Ep(t))
         /\ \A e \in Endpoints : Inside(t, e) => pc[t] # "idle" /\ e = Ep(t)
BY DEF TypeOK, CallOK, Inside

(* Where no two threads met, the thread inside is in order.                *)
LEMMA WorkingHere ==
  ASSUME TypeOK, NEW t \in Threads, pc[t] # "idle", Ep(t) \notin overlapped,
         \A e \in Endpoints \ overlapped : EndpointOK(e)
  PROVE  Working(t, Ep(t)) /\ NoLossOn(Ep(t))
BY EpType, WhereInside DEF EndpointOK

(* A thread that enters an endpoint unmarked is the only one in it.        *)
LEMMA Entered ==
  ASSUME NEW t \in Threads, NEW e \in Endpoints, Enter(t, e), e \notin overlapped'
  PROVE  ~Occupied(t, e)
BY DEF Enter

(* The quiet steps of a send.                                              *)
LEMMA SendKeepsOrder ==
  ASSUME TypeOK, TypeOK', NEW t \in Threads, OthersStay(t),
         \A e \in Endpoints : Delivered(e) \subseteq Delivered(e)',
         \A e \in Endpoints \ overlapped : EndpointOK(e),
         \/ \E m \in Messages : CallSend(t, m) \/ CallSendUnknown(t, m)
         \/ RememberKey(t) \/ CheckSize(t)
  PROVE  \A e \in Endpoints \ overlapped' : EndpointOK(e)'
<1> USE DEF history, callVars
<1>1. ASSUME NEW m \in Messages, CallSend(t, m)
      PROVE  \A e \in Endpoints \ overlapped' : EndpointOK(e)'
  <2>1. UNCHANGED <<heap, buffers, accepted>> /\ overlapped \subseteq overlapped'
    BY <1>1 DEF CallSend, Enter
  <2>2. /\ pc'[t] = "append" /\ todo'[t] = <<EndpointOf[m]>> /\ buf'[t] = buffers[EndpointOf[m]]
        /\ EndpointOf[m] \in Endpoints /\ Enter(t, EndpointOf[m])
    BY <1>1 DEF CallSend, TypeOK, Types
  <2>3. ASSUME NEW e \in Endpoints \ overlapped', Inside(t, e)'
        PROVE  Working(t, e)' /\ ~Occupied(t, e)
    <3>1. e = EndpointOf[m]
      BY <2>2, <2>3 DEF Inside, Ep
    <3>2. Working(t, e)'
      BY <2>1, <2>2, <3>1 DEF Working, Flushing
    <3>3. QED BY <2>2, <3>1, <3>2, Entered
  <2>4. QED BY <2>1, <2>3, QuietStep
<1>2. ASSUME NEW m \in Messages, CallSendUnknown(t, m)
      PROVE  \A e \in Endpoints \ overlapped' : EndpointOK(e)'
  <2>1. UNCHANGED <<heap, buffers, accepted>> /\ overlapped = overlapped' /\ pc'[t] = "idle"
    BY <1>2 DEF CallSendUnknown, Return, TypeOK, Types
  <2>2. QED BY <2>1, QuietStep DEF Inside
<1>3. CASE RememberKey(t)
  <2>1. /\ UNCHANGED <<heap, buffers, accepted, buf, todo>> /\ overlapped = overlapped'
        /\ pc[t] = "setkey" /\ pc'[t] = "check"
    BY <1>3 DEF RememberKey, Goto, TypeOK, Types
  <2>2. ASSUME NEW e \in Endpoints \ overlapped', Inside(t, e)'
        PROVE  Working(t, e)' /\ Inside(t, e)
    <3>1. Inside(t, e)
      BY <2>1, <2>2 DEF Inside, Ep
    <3>2. Working(t, e)
      BY <2>1, <3>1 DEF EndpointOK
    <3>3. QED BY <2>1, <3>1, <3>2 DEF Working, Flushing
  <2>3. QED BY <2>1, <2>2, QuietStep
<1>4. CASE CheckSize(t)
  <2>1. UNCHANGED <<heap, buffers, accepted>> /\ overlapped = overlapped' /\ pc[t] = "check"
    BY <1>4 DEF CheckSize
  <2>2. pc'[t] = "idle" \/ (pc'[t] = "load" /\ todo' = todo)
    BY <1>4 DEF CheckSize, Goto, Return, TypeOK, Types
  <2>3. ASSUME NEW e \in Endpoints \ overlapped', Inside(t, e)'
        PROVE  Working(t, e)' /\ Inside(t, e)
    <3>1. pc'[t] = "load" /\ todo' = todo
      BY <2>2, <2>3 DEF Inside
    <3>2. QED BY <2>1, <2>3, <3>1 DEF Working, Flushing, Inside, Ep
  <2>4. QED BY <2>1, <2>3, QuietStep
<1>5. QED BY <1>1, <1>2, <1>3, <1>4

(* The append of send() keeps the endpoints in order.                      *)
LEMMA AppendKeepsOrder ==
  ASSUME TypeOK, TypeOK', NEW t \in Threads, OthersStay(t), AppendMessage(t),
         \A e \in Endpoints \ overlapped : EndpointOK(e)
  PROVE  \A e \in Endpoints \ overlapped' : EndpointOK(e)'
<1>0. PICK f \in Endpoints : f = Ep(t)
  BY EpType DEF AppendMessage
<1>1. /\ pc[t] = "append" /\ pc'[t] = "setkey" /\ todo' = todo
      /\ UNCHANGED <<buffers, posts, overlapped, buf>> /\ arg[t] \in Messages
      /\ heap' = [heap EXCEPT ![f][buf[t]] = Append(@, arg[t])]
      /\ accepted' = [accepted EXCEPT ![f] = Append(@, arg[t])]
  BY <1>0 DEF AppendMessage, Goto, TypeOK, Types, CallOK, callVars
<1>2. ASSUME NEW e \in Endpoints \ overlapped', e # f PROVE EndpointOK(e)'
  <2>1. SameLists(e) /\ ~Inside(t, e)'
    BY <1>0, <1>1, <1>2 DEF SameLists, Inside, Ep, TypeOK, Types, Delivered
  <2>2. EndpointOK(e) /\ NoLossOn(e)'
    BY <1>1, <2>1 DEF EndpointOK, SameLists, NoLossOn, Accepted, Delivered, Current
  <2>3. QED BY <2>1, <2>2, EndpointStep
<1>3. ASSUME f \notin overlapped PROVE EndpointOK(f)'
  <2>1. /\ EndpointOK(f) /\ NoLossOn(f) /\ buf[t] = buffers[f] /\ Inside(t, f)
    BY <1>0, <1>1, <1>3, WorkingHere, WhereInside DEF Working
  <2>2. /\ buffers[f] \in 1..Len(heap[f]) /\ heap[f] \in Seq(Seq(Messages))
        /\ heap[f][buffers[f]] \in Seq(Messages) /\ accepted[f] \in Seq(Messages)
    BY <1>1, CurrentType DEF TypeOK, Types, ListExists, Current
  <2>3. Current(f)' = Append(Current(f), arg[t]) /\ accepted'[f] = Append(accepted[f], arg[t])
    BY SMTT(30), <1>1, <2>1, <2>2 DEF Current, TypeOK, Types
  <2>4. Range(Current(f))' = Range(Current(f)) \cup {arg[t]}
        /\ Accepted(f)' = Accepted(f) \cup {arg[t]}
    BY <1>1, <2>2, <2>3, RangeOfAppend DEF Current, Accepted
  <2>5. NoLossOn(f)'
    BY <1>1, <2>1, <2>4 DEF NoLossOn, Delivered
  <2>6. Working(t, f)'
    BY <1>1, <2>1 DEF Working, Flushing
  <2>7. QED BY <1>1, <2>1, <2>5, <2>6, EndpointStep
<1>4. QED BY <1>1, <1>2, <1>3

(* The quiet steps of a flush: those that neither deliver nor publish.     *)
LEMMA FlushKeepsOrder ==
  ASSUME TypeOK, TypeOK', NEW t \in Threads, OthersStay(t),
         \A e \in Endpoints : Delivered(e) \subseteq Delivered(e)',
         \A e \in Endpoints \ overlapped : EndpointOK(e),
         \/ CallFlush(t) \/ LoadBuffer(t) \/ NextBatch(t) \/ BeginPost(t) \/ LoopEnds(t)
         \/ PostSucceeds(t) \/ PostFails(t) \/ Advance(t)
  PROVE  \A e \in Endpoints \ overlapped' : EndpointOK(e)'
<1> USE DEF history, callVars
<1>1. CASE CallFlush(t)
  <2>1. /\ UNCHANGED <<heap, buffers, accepted>> /\ overlapped \subseteq overlapped'
        /\ pc'[t] = "load" /\ todo'[t] = FlushOrder /\ Enter(t, Head(FlushOrder))
    BY <1>1 DEF CallFlush, Enter, TypeOK, Types
  <2>2. ASSUME NEW e \in Endpoints \ overlapped', Inside(t, e)'
        PROVE  Working(t, e)' /\ ~Occupied(t, e)
    BY <2>1, <2>2, Entered DEF Inside, Ep, Working, Flushing
  <2>3. QED BY <2>1, <2>2, QuietStep
<1>2. CASE PostFails(t)
  <2>1. UNCHANGED <<heap, buffers, accepted>> /\ overlapped = overlapped' /\ pc'[t] = "idle"
    BY <1>2 DEF PostFails, Return, TypeOK, Types
  <2>2. QED BY <2>1, QuietStep DEF Inside
<1>3. ASSUME UNCHANGED <<heap, buffers, accepted, todo, overlapped>>, pc[t] # "idle",
             \A e \in Endpoints \ overlapped :
               Inside(t, e) /\ NoLossOn(e) /\ Working(t, e) => Working(t, e)'
      PROVE  \A e \in Endpoints \ overlapped' : EndpointOK(e)'
  <2>1. ASSUME NEW e \in Endpoints \ overlapped', Inside(t, e)'
        PROVE  Working(t, e)' /\ Inside(t, e)
    <3>1. Inside(t, e)
      BY <1>3, <2>1 DEF Inside, Ep
    <3>2. QED BY <1>3, <3>1 DEF EndpointOK
  <2>2. QED BY <1>3, <2>1, QuietStep
<1>4. CASE LoadBuffer(t)
  <2>1. /\ UNCHANGED <<heap, buffers, accepted, todo, overlapped>>
        /\ pc[t] = "load" /\ pc'[t] = "loop" /\ buf'[t] = buffers[Ep(t)]
    BY <1>4 DEF LoadBuffer, Goto, TypeOK, Types
  <2>2. ASSUME NEW e \in Endpoints \ overlapped, Inside(t, e), NoLossOn(e) PROVE Working(t, e)'
    <3>1. e = Ep(t) /\ buffers[e] # 0
      <4>1. buffers[e] \in 1..Len(heap[e]) /\ Len(heap[e]) \in Nat
        BY DEF TypeOK, Types, ListExists
      <4>2. QED BY <2>2, <4>1, WhereInside
    <3>2. Local(t)' = Current(e) /\ Current(e)' = Current(e)
      BY <2>1, <3>1 DEF Local, Current, Ep
    <3>3. Accepted(e)' = Accepted(e) /\ Delivered(e) \subseteq Delivered(e)'
      BY <2>1 DEF Accepted
    <3>4. QED BY <2>1, <2>2, <3>2, <3>3 DEF Working, Flushing, NoLossOn
  <2>3. QED BY <2>1, <2>2, <1>3
<1>5. CASE NextBatch(t)
  <2>1. /\ UNCHANGED <<heap, buffers, accepted, todo, overlapped, buf, rest>>
        /\ pc[t] = "loop" /\ pc'[t] = "begin"
        /\ batch'[t] = Batch(Local(t))
    BY <1>5 DEF NextBatch, Goto, TypeOK, Types
  <2>2. Local(t)' = Local(t)
    BY <2>1 DEF Local, Ep
  <2>3. ASSUME NEW e \in Endpoints \ overlapped, Working(t, e) PROVE Working(t, e)'
    <3>1. /\ Accepted(e)' = Accepted(e) /\ Delivered(e) \subseteq Delivered(e)'
          /\ Current(e)' = Current(e) /\ Batch(Local(t))' = Batch(Local(t))
      BY <2>1, <2>2 DEF Accepted, Current, Batch, SliceCut
    <3>2. QED BY <2>1, <2>2, <2>3, <3>1 DEF Working, Flushing
  <2>4. QED BY <2>1, <2>3, <1>3
<1>6. CASE BeginPost(t)
  <2>1. /\ UNCHANGED <<heap, buffers, accepted, todo, overlapped, buf, rest>>
        /\ pc[t] = "begin" /\ pc'[t] = "post"
        /\ batch' = batch
    BY <1>6 DEF BeginPost, Goto, TypeOK, Types
  <2>2. Local(t)' = Local(t)
    BY <2>1 DEF Local, Ep
  <2>3. ASSUME NEW e \in Endpoints \ overlapped, Working(t, e) PROVE Working(t, e)'
    <3>1. /\ Accepted(e)' = Accepted(e) /\ Delivered(e) \subseteq Delivered(e)'
          /\ Current(e)' = Current(e) /\ Batch(Local(t))' = Batch(Local(t))
      BY <2>1, <2>2 DEF Accepted, Current, Batch, SliceCut
    <3>2. QED BY <2>1, <2>2, <2>3, <3>1 DEF Working, Flushing
  <2>4. QED BY <2>1, <2>3, <1>3
<1>7. CASE LoopEnds(t)
  <2>1. /\ UNCHANGED <<heap, buffers, accepted, todo, overlapped, buf, rest, batch>>
        /\ pc[t] = "loop" /\ pc'[t] = "publish" /\ Local(t) = <<>>
    BY <1>7 DEF LoopEnds, Goto, TypeOK, Types
  <2>2. Local(t)' = Local(t)
    BY <2>1 DEF Local, Ep
  <2>3. ASSUME NEW e \in Endpoints \ overlapped, Working(t, e) PROVE Working(t, e)'
    <3>1. /\ Accepted(e)' = Accepted(e) /\ Delivered(e) \subseteq Delivered(e)'
          /\ Current(e)' = Current(e)
      BY <2>1, <2>2 DEF Accepted, Current
    <3>2. QED BY <2>1, <2>2, <2>3, <3>1 DEF Working, Flushing
  <2>4. QED BY <2>1, <2>3, <1>3
<1>8. CASE PostSucceeds(t)
  <2>1. /\ UNCHANGED <<heap, buffers, accepted, todo, overlapped, buf, rest, batch>>
        /\ pc[t] = "post" /\ pc'[t] = "advance"
    BY <1>8 DEF PostSucceeds, Goto, TypeOK, Types
  <2>2. Local(t)' = Local(t)
    BY <2>1 DEF Local, Ep
  <2>3. ASSUME NEW e \in Endpoints \ overlapped, Working(t, e) PROVE Working(t, e)'
    <3>1. /\ Accepted(e)' = Accepted(e) /\ Delivered(e) \subseteq Delivered(e)'
          /\ Current(e)' = Current(e) /\ Batch(Local(t))' = Batch(Local(t))
      BY <2>1, <2>2 DEF Accepted, Current, Batch, SliceCut
    <3>2. QED BY <2>1, <2>2, <2>3, <3>1 DEF Working, Flushing
  <2>4. QED BY <2>1, <2>3, <1>3
<1>9. CASE Advance(t)
  <2>1. /\ UNCHANGED <<heap, buffers, accepted, todo, overlapped>>
        /\ pc[t] = "advance" /\ pc'[t] = "loop" /\ buf'[t] = 0 /\ rest'[t] = AfterBatch(Local(t))
    BY <1>9 DEF Advance, Goto, TypeOK, Types
  <2>2. Local(t) \in Seq(Messages) /\ Local(t)' = AfterBatch(Local(t))
    BY <2>1, LocalType DEF Local
  <2>3. Range(Local(t)) = Range(Batch(Local(t))) \cup Range(Local(t))'
    BY <2>2, Slices
  <2>4. ASSUME NEW e \in Endpoints \ overlapped, Inside(t, e), Working(t, e) PROVE Working(t, e)'
    <3>1. /\ Range(Batch(Local(t))) \subseteq Delivered(e)
          /\ Accepted(e) \subseteq Range(Local(t)) \cup Delivered(e)
          /\ Range(Local(t)) \subseteq Range(Current(e))
      BY <2>1, <2>4, WhereInside, AnsweredDelivered DEF Working, Flushing
    <3>2. /\ Accepted(e)' = Accepted(e) /\ Delivered(e) \subseteq Delivered(e)'
          /\ Current(e)' = Current(e)
      BY <2>1 DEF Accepted, Current
    <3>3. QED BY <2>1, <2>3, <3>1, <3>2 DEF Working, Flushing
  <2>5. QED BY <2>1, <2>4, <1>3
<1>10. QED BY <1>1, <1>2, <1>4, <1>5, <1>6, <1>7, <1>8, <1>9

(* So does the service, whenever it applies a post.                        *)
LEMMA ServiceKeepsOrder ==
  ASSUME TypeOK, TypeOK', PostsGrow, NEW f \in Endpoints, NEW p \in DOMAIN posts[f],
         ServerApplies(f, p), \A e \in Endpoints \ overlapped : EndpointOK(e)
  PROVE  \A e \in Endpoints \ overlapped' : EndpointOK(e)'
<1>1. UNCHANGED <<heap, buffers, accepted, overlapped, pc, todo, buf, rest, batch>>
  BY DEF ServerApplies, callVars
<1>2. ASSUME NEW e \in Endpoints \ overlapped PROVE EndpointOK(e)'
  <2>1. SameLists(e) /\ EndpointOK(e)
    BY <1>1, DeliveredGrows DEF SameLists, TypeOK
  <2>2. \A u \in Threads : Inside(u, e)' <=> Inside(u, e)
    BY <1>1 DEF Inside, Ep
  <2>3. Alone(e)'
    BY <2>1, <2>2 DEF Alone, EndpointOK
  <2>4. NoLossOn(e)'
    <3>1. Accepted(e)' = Accepted(e) /\ Current(e)' = Current(e)
      BY <1>1 DEF Accepted, Current
    <3>2. QED BY <2>1, <3>1 DEF NoLossOn, EndpointOK, SameLists
  <2>5. ASSUME NEW u \in Threads, Inside(u, e)' PROVE Working(u, e)'
    <3>1. Working(u, e) /\ Ep(u) = e
      BY <2>1, <2>2, <2>5, WhereInside DEF EndpointOK
    <3>2. QED BY <1>1, <2>1, <3>1, StillWorking
  <2>6. QED BY <2>3, <2>4, <2>5 DEF EndpointOK
<1>3. QED BY <1>1, <1>2

(* A list is published when everything accepted has been delivered.        *)
LEMMA PublishKeepsOrder ==
  ASSUME TypeOK, TypeOK', NEW t \in Threads, OthersStay(t), Publish(t),
         \A e \in Endpoints \ overlapped : EndpointOK(e)
  PROVE  /\ \A e \in Endpoints \ overlapped' : EndpointOK(e)'
         /\ Ep(t) \notin overlapped => Accepted(Ep(t)) \subseteq Delivered(Ep(t))
<1>0. PICK f \in Endpoints : f = Ep(t)
  BY EpType DEF Publish
<1>1. pc[t] = "publish" /\ PublishList(t) /\ UNCHANGED <<accepted, posts>>
  BY DEF Publish, history
<1>2. \/ pc'[t] = "idle" /\ overlapped' = overlapped
      \/ pc'[t] = "load" /\ todo'[t] = Tail(todo[t]) /\ Enter(t, todo[t][2])
         /\ Ep(t)' = todo[t][2] /\ todo[t][2] \in Endpoints
  <2>1. CASE Len(todo[t]) = 1
    BY <2>1 DEF Publish, Return, TypeOK, Types
  <2>2. CASE Len(todo[t]) # 1
    <3>1. pc'[t] = "load" /\ todo'[t] = Tail(todo[t]) /\ Enter(t, todo[t][2])
      BY <2>2 DEF Publish, TypeOK, Types
    <3>2. /\ todo[t] \in Seq(Endpoints) /\ todo[t] # <<>> /\ Len(todo[t]) \in Nat \ {0}
          /\ Len(Tail(todo[t])) = Len(todo[t]) - 1
      BY <1>1, EpType, EmptySeq DEF TypeOK, Types, CallOK
    <3>3. 2 \in 1..Len(todo[t]) /\ 1 \in 1..Len(Tail(todo[t]))
      <4>1. ASSUME NEW n \in Nat \ {0}, n # 1 PROVE 2 \in 1..n /\ 1 \in 1..(n - 1)
        BY <4>1
      <4>2. QED BY <2>2, <3>2, <4>1, Zenon
    <3>4. Tail(todo[t])[1] = todo[t][2] /\ Head(Tail(todo[t])) = Tail(todo[t])[1]
      BY <3>2, <3>3, HeadTailProperties
    <3>5. QED BY <3>1, <3>2, <3>3, <3>4, ElementOfSeq DEF Ep
  <2>3. QED BY <2>1, <2>2
<1>3. overlapped \subseteq overlapped'
  BY <1>2 DEF Enter
<1>4. f \notin overlapped => Working(t, f) /\ NoLossOn(f) /\ Local(t) = <<>>
  BY <1>0, <1>1, WorkingHere DEF Working
<1>5. f \notin overlapped => Accepted(f) \subseteq Delivered(f)
  BY <1>1, <1>4 DEF Working, Flushing, Range
<1>6. ASSUME NEW e \in Endpoints \ overlapped' PROVE EndpointOK(e)'
  <2>1. Inside(t, e)' => Working(t, e)' /\ ~Occupied(t, e)
    BY <1>2, Entered DEF Inside, Working, Flushing
  <2>2. CASE e # f
    <3>1. SameLists(e)
      BY <1>0, <1>1, <2>2, PublishedList DEF SameLists, Delivered
    <3>2. EndpointOK(e) /\ NoLossOn(e)'
      BY <1>3, <3>1 DEF EndpointOK, SameLists, NoLossOn, Accepted, Delivered, Current
    <3>3. QED BY <2>1, <3>1, <3>2, EndpointStep
  <2>3. CASE e = f
    <3>1. EndpointOK(e) /\ Inside(t, e) /\ Accepted(e) \subseteq Delivered(e)
      BY <1>0, <1>1, <1>3, <1>5, <2>3, WhereInside
    <3>2. NoLossOn(e)'
      BY <1>1, <3>1 DEF NoLossOn, Accepted, Delivered
    <3>3. QED BY <2>1, <3>1, <3>2, EndpointStep
  <2>4. QED BY <2>2, <2>3
<1>7. QED BY <1>0, <1>5, <1>6

-----------------------------------------------------------------------------
(* What flush() calls have promised                                        *)

(* Nothing accepted or delivered is taken back, and endpoints in which     *)
(* threads met stay marked.                                                *)
LEMMA HistoryGrows ==
  ASSUME TypeOK, NEW t \in Threads, Step(t)
  PROVE  /\ \A e \in Endpoints : Accepted(e) \subseteq Accepted(e)'
         /\ \A e \in Endpoints : Delivered(e) \subseteq Delivered(e)'
         /\ overlapped \subseteq overlapped'
<1>1. TypeOK' /\ PostsGrow
  BY TypeStep, PostsKept
<1>2. \A e \in Endpoints : Delivered(e) \subseteq Delivered(e)'
  BY <1>1, DeliveredGrows DEF TypeOK
<1>3. CASE AppendMessage(t)
  <2>1. PICK f \in Endpoints : f = Ep(t)
    BY <1>3, EpType DEF AppendMessage
  <2>2. /\ accepted' = [accepted EXCEPT ![f] = Append(@, arg[t])]
        /\ UNCHANGED overlapped /\ arg[t] \in Messages
    BY <1>3, <2>1 DEF AppendMessage, TypeOK, CallOK
  <2>3. ASSUME NEW e \in Endpoints PROVE Accepted(e) \subseteq Accepted(e)'
    <3>1. accepted[e] \in Seq(Messages)
      BY DEF TypeOK, Types
    <3>2. accepted'[e] = IF e = f THEN Append(accepted[e], arg[t]) ELSE accepted[e]
      BY <2>2 DEF TypeOK, Types
    <3>3. QED BY <2>2, <3>1, <3>2, RangeOfAppend DEF Accepted
  <2>4. QED BY <1>2, <2>2, <2>3
<1>4. CASE ~AppendMessage(t)
  <2>1. accepted' = accepted /\ overlapped \subseteq overlapped'
    BY <1>4 DEF Step, Call, SendStep, PostStep, CallSend, CallSendUnknown, CallFlush,
       RememberKey, CheckSize, FlushStep, LoadBuffer, NextBatch, BeginPost, LoopEnds, Advance,
       Publish, PostSucceeds, PostFails, Enter, Goto, Return, history
  <2>2. QED BY <1>2, <2>1 DEF Accepted
<1>5. QED BY <1>3, <1>4

(* What is left of a list after its head is in the list.                   *)
LEMMA RangeOfTail ==
  ASSUME NEW S, NEW s \in Seq(S), s # <<>>
  PROVE  Range(s) = {Head(s)} \cup Range(Tail(s))
<1>1. /\ Len(s) \in Nat \ {0} /\ Len(Tail(s)) = Len(s) - 1 /\ Tail(s) \in Seq(S)
      /\ \A i \in 1..Len(Tail(s)) : Tail(s)[i] = s[i + 1]
  BY EmptySeq, HeadTailProperties
<1>2. DOMAIN s = 1..Len(s) /\ DOMAIN Tail(s) = 1..(Len(s) - 1) /\ Head(s) = s[1]
  BY <1>1
<1>3. ASSUME NEW i \in 1..Len(s) PROVE s[i] \in {Head(s)} \cup Range(Tail(s))
  <2>1. CASE i = 1
    BY <1>2, <2>1
  <2>2. CASE i # 1
    <3>1. i - 1 \in 1..(Len(s) - 1) /\ (i - 1) + 1 = i
      BY <1>1, <2>2
    <3>2. s[i] = Tail(s)[i - 1]
      BY <1>1, <3>1
    <3>3. QED BY <1>2, <3>1, <3>2 DEF Range
  <2>3. QED BY <2>1, <2>2
<1>4. ASSUME NEW i \in 1..(Len(s) - 1) PROVE Tail(s)[i] \in Range(s)
  <2>1. i + 1 \in 1..Len(s)
    BY <1>1
  <2>2. QED BY <1>1, <1>2, <2>1 DEF Range
<1>5. Head(s) \in Range(s)
  BY <1>1, <1>2 DEF Range
<1>6. QED BY <1>2, <1>3, <1>4, <1>5 DEF Range

(* Every step keeps the promises of the flush() calls under way.           *)
LEMMA PromisesStep ==
  ASSUME TypeOK, TypeOK', NEW t \in Threads, Step(t), OthersStay(t),
         \A u \in Threads : Promises(u),
         \A e \in Endpoints \ overlapped : EndpointOK(e)
  PROVE  \A u \in Threads : Promises(u)'
<1>1. /\ \A e \in Endpoints : Accepted(e) \subseteq Accepted(e)'
      /\ \A e \in Endpoints : Delivered(e) \subseteq Delivered(e)'
      /\ overlapped \subseteq overlapped'
  BY HistoryGrows
(* A call whose list of endpoints stays as it is.                          *)
<1>2. ASSUME NEW u \in Threads, promised'[u] = promised[u], todo'[u] = todo[u],
             pc'[u] \in {"append", "setkey", "check"} => pc[u] \in {"append", "setkey", "check"},
             outcome'[u] = outcome[u], pc'[u] # "idle" => pc[u] # "idle"
      PROVE  Promises(u)'
  BY <1>1, <1>2 DEF Promises
(* A call that promised nothing, and one that raised.                      *)
<1>3. ASSUME promised'[t] = NoPromise, outcome'[t] = "ok" => todo'[t] = <<>> PROVE Promises(t)'
  BY <1>3 DEF Promises, NoPromise
<1>4. ASSUME promised'[t] = promised[t], pc'[t] = "idle", outcome'[t] # "ok" PROVE Promises(t)'
  BY <1>1, <1>4 DEF Promises
<1>5. ASSUME NEW u \in Threads, u # t PROVE Promises(u)'
  BY <1>2, <1>5 DEF OthersStay
<1>6. Promises(t)'
  <2> USE DEF callVars, history
  <2>1. ASSUME NEW m \in Messages, CallSend(t, m) PROVE Promises(t)'
    BY <1>3, <2>1 DEF CallSend, TypeOK, Types
  <2>2. ASSUME NEW m \in Messages, CallSendUnknown(t, m) PROVE Promises(t)'
    BY <1>4, <2>2 DEF CallSendUnknown, Return, TypeOK, Types
  <2>3. CASE CallFlush(t)
    <3>1. /\ promised'[t] = [e \in Endpoints |-> Accepted(e)] /\ todo'[t] = FlushOrder
          /\ pc'[t] = "load" /\ outcome'[t] = "none" /\ UNCHANGED accepted
      BY <2>3 DEF CallFlush, TypeOK, Types
    <3>2. QED BY <3>1, EndpointsAssumption DEF Promises, Accepted
  <2>4. CASE CheckSize(t)
    <3>1. promised[t] = NoPromise /\ promised' = promised
      BY <2>4 DEF CheckSize, Promises, Goto, Return
    <3>2. outcome'[t] = "ok" => todo'[t] = <<>>
      BY <2>4 DEF CheckSize, Promises, Goto, Return, TypeOK, Types
    <3>3. QED BY <1>3, <3>1, <3>2
  <2>5. CASE PostFails(t)
    BY <1>4, <2>5 DEF PostFails, Return, TypeOK, Types
  <2>6. CASE AppendMessage(t) \/ RememberKey(t)
    BY <1>2, <2>6 DEF AppendMessage, RememberKey, Goto, TypeOK, Types
  <2>7. CASE LoadBuffer(t) \/ NextBatch(t) \/ BeginPost(t) \/ LoopEnds(t) \/ Advance(t)
    BY <1>2, <2>7 DEF LoadBuffer, NextBatch, BeginPost, LoopEnds, Advance, Goto, TypeOK, Types
  <2>8. CASE PostSucceeds(t)
    BY <1>2, <2>8 DEF PostSucceeds, Goto, TypeOK, Types
  <2>10. CASE Publish(t)
    <3>1. /\ pc[t] = "publish" /\ promised' = promised
          /\ Len(todo[t]) = 1 => pc'[t] = "idle" /\ todo'[t] = <<>>
          /\ Len(todo[t]) # 1 => /\ pc'[t] = "load" /\ todo'[t] = Tail(todo[t])
                                 /\ outcome'[t] = outcome[t]
      BY <2>10 DEF Publish, Return, TypeOK, Types
    <3>2. Ep(t) \notin overlapped => Accepted(Ep(t)) \subseteq Delivered(Ep(t))
      BY <2>10, PublishKeepsOrder
    <3>3. /\ todo[t] \in Seq(Endpoints) /\ todo[t] # <<>>
          /\ Tail(todo[t]) \in Seq(Endpoints) /\ Len(Tail(todo[t])) = Len(todo[t]) - 1
      BY <3>1, EpType DEF TypeOK, Types, CallOK
    <3>4. Range(todo[t]) = {Ep(t)} \cup Range(Tail(todo[t]))
      BY <3>3, RangeOfTail DEF Ep
    <3>5. Range(todo'[t]) = Range(Tail(todo[t]))
      <4>1. Len(todo[t]) = 1 => Len(Tail(todo[t])) = 0
        BY <3>3
      <4>2. Len(todo[t]) = 1 => Tail(todo[t]) = <<>>
        BY <3>3, <4>1, EmptySeq
      <4>3. QED BY <3>1, <4>2
    <3>6. ASSUME NEW e \in Endpoints, e \notin overlapped' \cup Range(todo'[t])
          PROVE  promised[t][e] \subseteq Delivered(e)'
      <4>1. CASE e = Ep(t)
        BY <1>1, <3>2, <3>6, <4>1 DEF Promises
      <4>2. CASE e # Ep(t)
        <5>1. e \notin overlapped \cup Range(todo[t])
          BY <1>1, <3>4, <3>5, <3>6, <4>2
        <5>2. promised[t][e] \subseteq Delivered(e)
          BY <3>1, <5>1 DEF Promises
        <5>3. QED BY <1>1, <5>2
      <4>3. QED BY <4>1, <4>2
    <3>7. pc'[t] \notin {"append", "setkey", "check"}
      BY <3>1
    <3>8. \A e \in Endpoints : promised[t][e] \subseteq Accepted(e)'
      BY <1>1 DEF Promises
    <3>9. outcome'[t] = "ok" => todo'[t] = <<>>
      BY <3>1, <3>3 DEF Promises
    <3>10. QED BY <3>1, <3>6, <3>7, <3>8, <3>9 DEF Promises
  <2>11. QED
    BY <2>1, <2>2, <2>3, <2>4, <2>5, <2>6, <2>7, <2>8, <2>10
       DEF Step, Call, SendStep, FlushStep, PostStep
<1>7. QED BY <1>5, <1>6

-----------------------------------------------------------------------------
(* The invariant and what follows from it                                  *)

(* The constructor establishes the invariant.                              *)
LEMMA InvInit == Init => IInv
<1> SUFFICES ASSUME Init PROVE IInv
  OBVIOUS
<1>1. TypeOK
  BY TypeInit
<1>2. \A e \in Endpoints : Accepted(e) = {} /\ \A t \in Threads : ~Inside(t, e)
  BY DEF Init, Accepted, Range, Inside
<1>3. \A e \in Endpoints : EndpointOK(e)
  BY <1>2 DEF EndpointOK, Alone, NoLossOn
<1>4. \A t \in Threads : Promises(t)
  BY DEF Init, Promises, NoPromise
<1>5. QED BY <1>1, <1>3, <1>4 DEF IInv

(* Every step keeps the invariant.                                         *)
LEMMA InvStep ==
  ASSUME IInv, NEW t \in Threads, Step(t)
  PROVE  IInv'
<1>1. TypeOK /\ (\A e \in Endpoints \ overlapped : EndpointOK(e)) /\ \A u \in Threads : Promises(u)
  BY DEF IInv
<1>2. TypeOK' /\ OthersStay(t) /\ \A e \in Endpoints : Delivered(e) \subseteq Delivered(e)'
  BY <1>1, TypeStep, OneMoves, HistoryGrows DEF TypeOK
<1>3. \A u \in Threads : Promises(u)'
  BY <1>1, <1>2, PromisesStep
<1>4. \A e \in Endpoints \ overlapped' : EndpointOK(e)'
  <2>1. CASE \/ \E m \in Messages : CallSend(t, m) \/ CallSendUnknown(t, m)
             \/ RememberKey(t) \/ CheckSize(t)
    BY <1>1, <1>2, <2>1, SendKeepsOrder
  <2>2. CASE \/ CallFlush(t) \/ LoadBuffer(t) \/ NextBatch(t) \/ BeginPost(t) \/ LoopEnds(t)
             \/ PostSucceeds(t) \/ PostFails(t) \/ Advance(t)
    BY <1>1, <1>2, <2>2, FlushKeepsOrder
  <2>3. CASE AppendMessage(t)
    BY <1>1, <1>2, <2>3, AppendKeepsOrder
  <2>5. CASE Publish(t)
    BY <1>1, <1>2, <2>5, PublishKeepsOrder
  <2>6. QED
    BY <2>1, <2>2, <2>3, <2>5 DEF Step, Call, SendStep, FlushStep, PostStep
<1>5. QED BY <1>2, <1>3, <1>4 DEF IInv

(* So does the service, whenever it applies a post.                        *)
LEMMA InvService ==
  ASSUME IInv, NEW f \in Endpoints, NEW p \in DOMAIN posts[f], ServerApplies(f, p)
  PROVE  IInv'
<1>1. TypeOK /\ (\A e \in Endpoints \ overlapped : EndpointOK(e)) /\ \A u \in Threads : Promises(u)
  BY DEF IInv
<1>2. TypeOK' /\ PostsGrow
  BY <1>1, TypeService
<1>3. \A e \in Endpoints \ overlapped' : EndpointOK(e)'
  BY <1>1, <1>2, ServiceKeepsOrder
<1>4. \A u \in Threads : Promises(u)'
  <2>1. \A e \in Endpoints : Delivered(e) \subseteq Delivered(e)' /\ Accepted(e)' = Accepted(e)
    BY <1>1, <1>2, DeliveredGrows DEF TypeOK, ServerApplies, Accepted
  <2>2. UNCHANGED <<pc, todo, outcome, promised, overlapped>>
    BY DEF ServerApplies
  <2>3. QED BY <1>1, <2>1, <2>2 DEF Promises
<1>5. QED BY <1>2, <1>3, <1>4 DEF IInv

(* So does a step that changes nothing.                                    *)
LEMMA InvStutter ==
  ASSUME IInv, UNCHANGED vars
  PROVE  IInv'
<1> USE DEF vars
<1>1. TypeOK'
  BY DEF IInv, TypeOK, Types, ListExists, CallOK, Ep
<1>2. ASSUME NEW e \in Endpoints \ overlapped PROVE EndpointOK(e)'
  <2>1. EndpointOK(e)
    BY DEF IInv
  <2>2. /\ Accepted(e)' = Accepted(e) /\ Delivered(e)' = Delivered(e)
        /\ Current(e)' = Current(e)
    BY DEF Accepted, Delivered, Current
  <2>3. \A t \in Threads : /\ Local(t)' = Local(t) /\ Batch(Local(t))' = Batch(Local(t))
                           /\ Inside(t, e)' <=> Inside(t, e)
    BY DEF Local, Batch, SliceCut, Ep, Inside
  <2>4. ASSUME NEW t \in Threads, Working(t, e) PROVE Working(t, e)'
    BY <2>2, <2>3, <2>4 DEF Working, Flushing
  <2>5. QED BY <2>1, <2>2, <2>3, <2>4 DEF EndpointOK, Alone, NoLossOn
<1>3. \A t \in Threads : Promises(t)'
  BY DEF IInv, Promises, Accepted, Delivered
<1>4. QED BY <1>1, <1>2, <1>3 DEF IInv

(* The strengthened invariant holds in every reachable state.              *)
THEOREM InvCorrect == Spec => []IInv
<1>1. IInv /\ [Next]_vars => IInv'
  BY InvStep, InvService, InvStutter DEF Next, ServiceStep
<1>2. QED BY InvInit, <1>1, PTL DEF Spec

(* No message that send() accepted is ever lost on an endpoint in which no *)
(* two threads met: __init__.py's flush() finds it in the current list or  *)
(* the service has it.                                                     *)
THEOREM NothingLost == Spec => []NoLoss
<1>1. IInv => NoLoss
  BY DEF IInv, NoLoss, EndpointOK
<1>2. QED BY InvCorrect, <1>1, PTL

(* A flush() that returns normally has delivered whatever was accepted     *)
(* before it was called, on every endpoint in which no two threads met.    *)
THEOREM FlushIsComplete == Spec => []FlushKeepsItsWord
<1>1. ASSUME IInv PROVE FlushKeepsItsWord
  <2>1. ASSUME NEW t \in Threads, outcome[t] = "ok", NEW e \in Endpoints \ overlapped
        PROVE  promised[t][e] \subseteq Delivered(e)
    <3>1. Promises(t)
      BY <1>1 DEF IInv
    <3>2. todo[t] = <<>> /\ Range(todo[t]) = {}
      BY <2>1, <3>1 DEF Promises, Range
    <3>3. QED BY <2>1, <3>1, <3>2 DEF Promises
  <2>2. QED BY <2>1 DEF FlushKeepsItsWord
<1>2. QED BY InvCorrect, <1>1, PTL

(* Messages that a flush has removed from the list are not posted again,   *)
(* on an endpoint in which no two threads met: what _flush_endpoint hands  *)
(* to Consumer.send is part of the current list.                           *)
THEOREM NothingResent == Spec => NoResendAfterPublish
<1> DEFINE Fine == \A t \in Threads :
                     pc[t] = "begin" /\ pc'[t] = "post" /\ Ep(t) \notin overlapped =>
                       Range(batch[t]) \subseteq Range(Current(Ep(t)))
<1>1. ASSUME IInv, NEW t \in Threads, pc[t] = "begin", Ep(t) \notin overlapped
      PROVE  Range(batch[t]) \subseteq Range(Current(Ep(t)))
  <2>1. TypeOK /\ Working(t, Ep(t))
    BY <1>1, WorkingHere DEF IInv
  <2>2. batch[t] = Batch(Local(t)) /\ Range(Local(t)) \subseteq Range(Current(Ep(t)))
    BY <1>1, <2>1 DEF Working, Flushing
  <2>3. Local(t) \in Seq(Messages)
    BY <1>1, <2>1, LocalType
  <2>4. QED BY <2>2, <2>3, Slices
<1>2. IInv /\ [Next]_vars => [Fine]_vars
  BY <1>1
<1>3. QED BY InvCorrect, <1>2, PTL DEF Spec, NoResendAfterPublish
=============================================================================
