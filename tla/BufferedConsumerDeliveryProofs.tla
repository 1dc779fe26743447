-------------------- MODULE BufferedConsumerDeliveryProofs --------------------
(***************************************************************************)
(* More proofs about BufferedConsumer, for every number of threads,        *)
(* endpoints and messages: callers that take turns get an at-least-once    *)
(* delivery service per endpoint whose first deliveries keep the order of  *)
(* send(), though the service may apply posts late; buffers outgrow        *)
(* max_size by failures only, and so do the copies of one message, late    *)
(* ones included.  The inductive invariant is DeliveryInv, on top of IInv. *)
(***************************************************************************)
EXTENDS BufferedConsumerProofs, FiniteSetTheorems

-----------------------------------------------------------------------------
(* Facts about lists                                                       *)

(* The two parts of a cut, index by index.                                 *)
LEMMA SliceIndices ==
  ASSUME NEW s \in Seq(Messages)
  PROVE  /\ Batch(s) \in Seq(Messages) /\ AfterBatch(s) \in Seq(Messages)
         /\ Len(Batch(s)) + Len(AfterBatch(s)) = Len(s)
         /\ \A i \in 1..Len(Batch(s)) : Batch(s)[i] = s[i]
         /\ \A i \in 1..Len(AfterBatch(s)) : AfterBatch(s)[i] = s[Len(Batch(s)) + i]
<1> DEFINE c == SliceCut(s)
<1>1. c \in 0..Len(s)
  BY SliceCutInRange
<1> HIDE DEF c
<1>2. /\ SubSeq(s, 1, c) \in Seq(Messages)
      /\ Len(SubSeq(s, 1, c)) = c
      /\ \A i \in 1..c : SubSeq(s, 1, c)[i] = s[i]
  BY <1>1, SubSeqProperties
<1>3. /\ SubSeq(s, c + 1, Len(s)) \in Seq(Messages)
      /\ Len(SubSeq(s, c + 1, Len(s))) = Len(s) - c
      /\ \A i \in 1..(Len(s) - c) : SubSeq(s, c + 1, Len(s))[i] = s[c + i]
  BY <1>1, SubSeqProperties
<1>4. c + (Len(s) - c) = Len(s)
  BY <1>1
<1>5. QED BY <1>2, <1>3, <1>4 DEF c, Batch, AfterBatch

(* An end of a list holds members of it only.                              *)
LEMMA EndOfRange ==
  ASSUME NEW S, NEW s \in Seq(S), NEW all \in Seq(S), NEW done, EndOf(s, all, done)
  PROVE  Range(s) \subseteq Range(all)
<1>1. PICK b \in 0..Len(all) : Len(all) = b + Len(s) /\ \A i \in 1..Len(s) : s[i] = all[b + i]
  BY DEF EndOf
<1>2. ASSUME NEW i \in 1..Len(s) PROVE s[i] \in Range(all)
  <2>1. b + i \in 1..Len(all) /\ s[i] = all[b + i]
    BY <1>1
  <2>2. QED BY <2>1 DEF Range
<1>3. QED BY <1>2 DEF Range

(* An end of a list has no message twice if the list has none twice.       *)
LEMMA EndOfOnce ==
  ASSUME NEW S, NEW s \in Seq(S), NEW all \in Seq(S), NEW done, EndOf(s, all, done),
         IsInjective(all)
  PROVE  IsInjective(s)
<1>1. PICK b \in 0..Len(all) : Len(all) = b + Len(s) /\ \A i \in 1..Len(s) : s[i] = all[b + i]
  BY DEF EndOf
<1>2. SUFFICES ASSUME NEW i \in 1..Len(s), NEW j \in 1..Len(s), s[i] = s[j] PROVE i = j
  BY DEF IsInjective
<1>3. /\ s[i] = all[b + i] /\ s[j] = all[b + j]
      /\ b + i \in 1..Len(all) /\ b + j \in 1..Len(all)
  BY <1>1
<1>4. all[b + i] = all[b + j]
  BY <1>2, <1>3
<1>6. DOMAIN all = 1..Len(all)
  OBVIOUS
<1>5. b + i = b + j
  BY <1>3, <1>4, <1>6 DEF IsInjective
<1>7. QED BY <1>5

(* Both lists may grow by the same message.                                *)
LEMMA EndOfAppend ==
  ASSUME NEW S, NEW s \in Seq(S), NEW all \in Seq(S), NEW done, EndOf(s, all, done), NEW x \in S
  PROVE  EndOf(Append(s, x), Append(all, x), done)
<1>1. PICK b \in 0..Len(all) : /\ Len(all) = b + Len(s)
                               /\ \A i \in 1..Len(s) : s[i] = all[b + i]
                               /\ \A i \in 1..b : all[i] \in done
  BY DEF EndOf
<1>2. PICK c \in Nat : c = Len(s)
  OBVIOUS
<1>3. Len(Append(s, x)) = c + 1 /\ Len(Append(all, x)) = b + (c + 1)
  BY <1>1, <1>2
<1>4. ASSUME NEW i \in 1..(c + 1)
      PROVE  Append(s, x)[i] = Append(all, x)[b + i]
  <2>1. CASE i = c + 1
    <3>1. b + i = Len(all) + 1
      BY <1>1, <1>2, <2>1
    <3>2. QED BY <1>2, <2>1, <3>1
  <2>2. CASE i # c + 1
    <3>1. i \in 1..Len(s) /\ b + i \in 1..Len(all)
      BY <1>1, <1>2, <2>2
    <3>2. s[i] = all[b + i]
      BY <1>1, <3>1
    <3>3. QED BY <3>1, <3>2
  <2>3. QED BY <2>1, <2>2
<1>5. ASSUME NEW i \in 1..b PROVE Append(all, x)[i] \in done
  <2>1. i \in 1..Len(all)
    BY <1>1, <1>2
  <2>2. QED BY <1>1, <2>1
<1>6. b \in 0..Len(Append(all, x))
  BY <1>2, <1>3
<1>7. QED BY <1>2, <1>3, <1>4, <1>5, <1>6 DEF EndOf

(* A batch that is done leaves an end of the list.                         *)
LEMMA EndOfCut ==
  ASSUME NEW s \in Seq(Messages), NEW all \in Seq(Messages), NEW done, EndOf(s, all, done),
         Range(Batch(s)) \subseteq done
  PROVE  EndOf(AfterBatch(s), all, done)
<1>1. PICK b \in 0..Len(all) : /\ Len(all) = b + Len(s)
                               /\ \A i \in 1..Len(s) : s[i] = all[b + i]
                               /\ \A i \in 1..b : all[i] \in done
  BY DEF EndOf
<1>2. PICK k \in Nat, l \in Nat : k = Len(Batch(s)) /\ l = Len(AfterBatch(s)) /\ k + l = Len(s)
  BY SliceIndices
<1>3. /\ \A i \in 1..k : Batch(s)[i] = s[i]
      /\ \A i \in 1..l : AfterBatch(s)[i] = s[k + i]
  BY <1>2, SliceIndices
<1>8. \A i \in 1..k : Batch(s)[i] \in done
  <2>1. DOMAIN Batch(s) = 1..k
    BY <1>2, SliceIndices
  <2>2. QED BY <2>1 DEF Range
<1>10. b \in Nat /\ Len(all) = b + Len(s)
  BY <1>1
<1>4. Len(all) = (b + k) + l
  BY <1>2, <1>10
<1>5. ASSUME NEW i \in 1..l PROVE AfterBatch(s)[i] = all[(b + k) + i]
  <2>1. k + i \in 1..Len(s) /\ b + (k + i) = (b + k) + i
    BY <1>2
  <2>2. s[k + i] = all[b + (k + i)]
    BY <1>1, <2>1
  <2>3. QED BY <1>3, <2>1, <2>2
<1>6. ASSUME NEW i \in 1..(b + k) PROVE all[i] \in done
  <2>1. CASE i \in 1..b
    BY <1>1, <2>1
  <2>2. CASE i \notin 1..b
    <3>1. PICK j \in 1..k : i = b + j
      <4>1. i - b \in 1..k /\ i = b + (i - b)
        BY <2>2
      <4>2. QED BY <4>1
    <3>2. j \in 1..Len(s)
      BY <1>2
    <3>3. QED BY <1>1, <1>3, <1>8, <3>1, <3>2
  <2>3. QED BY <2>1, <2>2
<1>7. b + k \in 0..Len(all) /\ Len(all) = (b + k) + Len(AfterBatch(s))
  BY <1>2, <1>4
<1>9. QED BY <1>2, <1>5, <1>6, <1>7 DEF EndOf

(* An end of the list never loses its place as more gets done.             *)
LEMMA EndOfDone ==
  ASSUME NEW s, NEW all, NEW done, NEW more, EndOf(s, all, done), done \subseteq more
  PROVE  EndOf(s, all, more)
BY DEF EndOf

(* A run of a list holds members of it only.                               *)
LEMMA RunOfRange ==
  ASSUME NEW S, NEW s \in Seq(S), NEW all \in Seq(S), NEW done, RunOf(s, all, done)
  PROVE  Range(s) \subseteq Range(all)
<1>1. PICK b \in 0..Len(all) : b + Len(s) <= Len(all) /\ \A i \in 1..Len(s) : s[i] = all[b + i]
  BY DEF RunOf
<1>2. ASSUME NEW i \in 1..Len(s) PROVE s[i] \in Range(all)
  <2>1. b + i \in 1..Len(all) /\ s[i] = all[b + i]
    BY <1>1
  <2>2. QED BY <2>1 DEF Range
<1>3. QED BY <1>2 DEF Range

(* A run stays one as the list grows at its end.                           *)
LEMMA RunOfAppend ==
  ASSUME NEW S, NEW s \in Seq(S), NEW all \in Seq(S), NEW done, RunOf(s, all, done), NEW x \in S
  PROVE  RunOf(s, Append(all, x), done)
<1>1. PICK b \in 0..Len(all) : /\ b + Len(s) <= Len(all)
                               /\ \A i \in 1..Len(s) : s[i] = all[b + i]
                               /\ \A i \in 1..b : all[i] \in done
  BY DEF RunOf
<1>2. PICK c \in Nat, n \in Nat : c = Len(s) /\ n = Len(all)
  OBVIOUS
<1>3. Len(Append(all, x)) = n + 1 /\ \A i \in 1..n : Append(all, x)[i] = all[i]
  BY <1>2
<1>4. b \in 0..n /\ b \in 0..(n + 1) /\ b + c <= n /\ b + c <= n + 1
  BY <1>1, <1>2
<1>5. ASSUME NEW i \in 1..c PROVE s[i] = Append(all, x)[b + i]
  <2>1. b + i \in 1..n
    BY <1>4
  <2>2. QED BY <1>1, <1>2, <1>3, <2>1
<1>6. ASSUME NEW i \in 1..b PROVE Append(all, x)[i] \in done
  <2>1. i \in 1..n
    BY <1>4
  <2>2. QED BY <1>1, <1>3, <2>1
<1>7. QED BY <1>2, <1>3, <1>4, <1>5, <1>6 DEF RunOf

(* And as more gets done.                                                  *)
LEMMA RunOfDone ==
  ASSUME NEW s, NEW all, NEW done, NEW more, RunOf(s, all, done), done \subseteq more
  PROVE  RunOf(s, all, more)
BY DEF RunOf

(* The batch cut off an end of a list is a run of the list.                *)
LEMMA RunOfBatch ==
  ASSUME NEW s \in Seq(Messages), NEW all \in Seq(Messages), NEW done, EndOf(s, all, done)
  PROVE  RunOf(Batch(s), all, done)
<1>1. PICK b \in 0..Len(all) : /\ Len(all) = b + Len(s)
                               /\ \A i \in 1..Len(s) : s[i] = all[b + i]
                               /\ \A i \in 1..b : all[i] \in done
  BY DEF EndOf
<1>2. PICK k \in Nat, l \in Nat : k = Len(Batch(s)) /\ l = Len(AfterBatch(s)) /\ k + l = Len(s)
  BY SliceIndices
<1>3. \A i \in 1..k : Batch(s)[i] = s[i]
  BY <1>2, SliceIndices
<1>4. b + k <= Len(all)
  <2>1. PICK n \in Nat : n = Len(all) /\ b \in 0..n
    BY <1>1
  <2>2. n = b + (k + l)
    BY <1>1, <1>2, <2>1
  <2>3. b + k <= n
    BY <1>2, <2>1, <2>2
  <2>4. QED BY <2>1, <2>3
<1>5. ASSUME NEW i \in 1..k PROVE Batch(s)[i] = all[b + i]
  <2>1. i \in 1..Len(s)
    BY <1>2
  <2>2. QED BY <1>1, <1>3, <2>1
<1>6. QED BY <1>1, <1>2, <1>4, <1>5 DEF RunOf

(* The list after an append: current and accepted messages grow alike.     *)
LEMMA AppendedLists ==
  ASSUME TypeOK, NEW t \in Threads, NEW e \in Endpoints, AppendMessage(t), Inside(t, e), Working(t, e)
  PROVE  /\ Current(e) \in Seq(Messages) /\ accepted[e] \in Seq(Messages) /\ arg[t] \in Messages
         /\ Current(e)' = Append(Current(e), arg[t])
         /\ accepted'[e] = Append(accepted[e], arg[t])
         /\ UNCHANGED posts
<1>1. /\ pc[t] = "append" /\ e = Ep(t) /\ buf[t] = buffers[e] /\ UNCHANGED <<buffers, posts>>
      /\ arg[t] \in Messages
      /\ heap' = [heap EXCEPT ![e][buf[t]] = Append(@, arg[t])]
      /\ accepted' = [accepted EXCEPT ![e] = Append(@, arg[t])]
  BY WhereInside DEF AppendMessage, TypeOK, CallOK, Working
<1>2. /\ buffers[e] \in 1..Len(heap[e]) /\ heap[e] \in Seq(Seq(Messages))
      /\ Current(e) \in Seq(Messages) /\ accepted[e] \in Seq(Messages)
  BY CurrentType DEF TypeOK, Types, ListExists
<1>3. Current(e)' = Append(Current(e), arg[t])
  BY SMTT(30), <1>1, <1>2 DEF Current, TypeOK, Types
<1>4. accepted'[e] = Append(accepted[e], arg[t])
  BY <1>1 DEF TypeOK, Types
<1>5. QED BY <1>1, <1>2, <1>3, <1>4

-----------------------------------------------------------------------------
(* Steps and endpoints                                                     *)

(* The only step of a thread that shows in the posts of an endpoint is the *)
(* one that hands over a batch there.                                      *)
LEMMA PostsSame ==
  ASSUME TypeOK, NEW t \in Threads, NEW e \in Endpoints, Step(t), ~(BeginPost(t) /\ e = Ep(t))
  PROVE  posts'[e] = posts[e]
<1>1. CASE BeginPost(t)
  <2>1. PICK f \in Endpoints : f = Ep(t)
    BY <1>1, EpType DEF BeginPost
  <2>2. Types /\ e \in Endpoints \ {f}
    BY <1>1, <2>1 DEF TypeOK
  <2>3. QED BY <1>1, <2>1, <2>2, PostMade
<1>2. CASE ~BeginPost(t)
  BY <1>2 DEF Step, Call, SendStep, FlushStep, PostStep, CallSend, CallSendUnknown, AppendMessage,
     RememberKey, CheckSize, CallFlush, LoadBuffer, NextBatch, LoopEnds, PostSucceeds,
     PostFails, Advance, Publish, history
<1>3. QED BY <1>1, <1>2

(* A step of a thread outside an endpoint changes none of its lists; the   *)
(* thread may enter it.                                                    *)
LEMMA Elsewhere ==
  ASSUME TypeOK, NEW t \in Threads, NEW e \in Endpoints, Step(t), ~Inside(t, e)
  PROVE  /\ SameLists(e) /\ posts'[e] = posts[e]
         /\ Inside(t, e)' => pc'[t] \in {"append", "load"}
         /\ faults <= faults'
<1> USE DEF callVars, history
<1>0. faults \in Nat /\ (pc[t] # "idle" => Ep(t) \in Endpoints /\ Ep(t) # e)
  BY EpType, WhereInside DEF TypeOK, Types
<1>1. posts'[e] = posts[e] /\ Delivered(e) \subseteq Delivered(e)'
  <2>1. ~(BeginPost(t) /\ e = Ep(t))
    BY <1>0 DEF BeginPost
  <2>2. posts'[e] = posts[e]
    BY <2>1, PostsSame
  <2>3. QED BY <2>2, DeliveredSame
<1>2. /\ heap'[e] = heap[e] /\ buffers'[e] = buffers[e] /\ accepted'[e] = accepted[e]
      /\ Inside(t, e)' => pc'[t] \in {"append", "load"}
      /\ faults <= faults'
  <2>1. CASE UNCHANGED <<heap, buffers, accepted>> /\ faults <= faults'
             /\ (UNCHANGED todo \/ pc'[t] \in {"idle", "append", "load"})
             /\ (pc[t] = "idle" => pc'[t] \in {"idle", "append", "load"})
    BY <1>0, <2>1 DEF Inside, Ep
  <2>2. CASE Call(t)
    BY <1>0, <2>1, <2>2 DEF Call, CallFlush, CallSend, CallSendUnknown, Return, TypeOK, Types
  <2>3. CASE AppendMessage(t)
    BY <1>0, <2>3 DEF AppendMessage, Goto, Inside, Ep, TypeOK, Types
  <2>4. CASE RememberKey(t) \/ CheckSize(t)
    BY <1>0, <2>1, <2>4 DEF RememberKey, CheckSize, Goto, Return, TypeOK, Types
  <2>5. CASE LoadBuffer(t) \/ NextBatch(t) \/ LoopEnds(t) \/ Advance(t) \/ PostSucceeds(t)
    <3>1. UNCHANGED <<heap, buffers, accepted, faults, todo>> /\ pc[t] # "idle"
      BY <2>5 DEF LoadBuffer, NextBatch, LoopEnds, Advance, PostSucceeds, Goto
    <3>2. QED BY <1>0, <2>1, <3>1
  <2>6. CASE BeginPost(t)
    BY <1>0, <2>1, <2>6 DEF BeginPost, Goto, TypeOK, Types
  <2>7. CASE PostFails(t)
    <3>1. faults <= faults' /\ pc'[t] = "idle" /\ pc[t] # "idle"
      BY <1>0, <2>7 DEF PostFails, SendRaises, Return, TypeOK, Types
    <3>2. QED BY <2>1, <2>7, <3>1 DEF PostFails
  <2>8. CASE Publish(t)
    <3>1. /\ pc[t] = "publish" /\ PublishList(t) /\ UNCHANGED <<accepted, faults>>
          /\ pc'[t] \in {"idle", "load"}
      BY <2>8 DEF Publish, Return, TypeOK, Types
    <3>2. heap'[e] = heap[e] /\ buffers'[e] = buffers[e]
      BY <1>0, <3>1, PublishedList
    <3>3. QED BY <1>0, <3>1, <3>2 DEF Inside
  <2>9. QED BY <2>2, <2>3, <2>4, <2>5, <2>6, <2>7, <2>8 DEF Step, SendStep, FlushStep, PostStep
<1>3. QED BY <1>1, <1>2 DEF SameLists

(* What the other threads do in an endpoint is as it was.                  *)
LEMMA OthersInside ==
  ASSUME NEW t \in Threads, NEW e \in Endpoints, OthersStay(t)
  PROVE  \A u \in Threads \ {t} :
           /\ Inside(u, e)' <=> Inside(u, e)
           /\ pc'[u] = pc[u] /\ batch'[u] = batch[u]
           /\ Inside(u, e) /\ SameLists(e) => Local(u)' = Local(u)
<1>1. SUFFICES ASSUME NEW u \in Threads \ {t}
               PROVE  /\ Inside(u, e)' <=> Inside(u, e)
                      /\ pc'[u] = pc[u] /\ batch'[u] = batch[u]
                      /\ Inside(u, e) /\ SameLists(e) => Local(u)' = Local(u)
  OBVIOUS
<1>2. /\ pc'[u] = pc[u] /\ todo'[u] = todo[u] /\ buf'[u] = buf[u] /\ rest'[u] = rest[u]
      /\ batch'[u] = batch[u] /\ Ep(u)' = Ep(u)
  BY DEF OthersStay, Ep
<1>3. QED BY <1>2 DEF Inside, Local, SameLists

(* A thread in an endpoint where no two have met is the only one there.    *)
LEMMA AloneInside ==
  ASSUME NEW t \in Threads, NEW e \in Endpoints, Inside(t, e), Alone(e), OthersStay(t)
  PROVE  \A u \in Threads \ {t} : ~Inside(u, e) /\ ~Inside(u, e)'
BY OthersInside DEF Alone

(* Steps inside an endpoint that change none of its lists.                 *)
LEMMA QuietInside ==
  ASSUME TypeOK, NEW t \in Threads, NEW e \in Endpoints, Step(t), Inside(t, e),
         Delivered(e) \subseteq Delivered(e)', ~AppendMessage(t), ~Publish(t)
  PROVE  /\ SameLists(e)
         /\ Current(e)' = Current(e)
         /\ \/ pc'[t] = "idle"
            \/ UNCHANGED todo /\ pc'[t] \in {"check", "load", "loop", "begin", "post", "advance", "publish"}
<1> USE DEF callVars, history
<1>0. pc[t] # "idle"
  BY DEF Inside
<1>1. /\ UNCHANGED <<heap, buffers, accepted>>
      /\ \/ pc'[t] = "idle"
         \/ UNCHANGED todo /\ pc'[t] \in {"check", "load", "loop", "begin", "post", "advance", "publish"}
  BY <1>0 DEF Step, Call, CallFlush, CallSend, CallSendUnknown, SendStep, FlushStep, PostStep,
     RememberKey, CheckSize, LoadBuffer, NextBatch, BeginPost, LoopEnds, Advance, PostSucceeds,
     PostFails, Goto, Return, TypeOK, Types
<1>2. QED BY <1>1 DEF SameLists, Current

-----------------------------------------------------------------------------
(* Order: what is in the list is the end of what was accepted              *)

(* The posts stay runs of what was accepted while no post is added.        *)
LEMMA RunsKept ==
  ASSUME TypeOK, TypeOK', PostsGrow, NEW e \in Endpoints, PostsInOrder(e),
         DOMAIN posts'[e] = DOMAIN posts[e],
         \/ accepted'[e] = accepted[e]
         \/ \E x \in Messages : accepted'[e] = Append(accepted[e], x)
  PROVE  PostsInOrder(e)'
<1>1. Delivered(e) \subseteq Delivered(e)'
  BY DeliveredGrows DEF TypeOK
<1>2. ASSUME NEW p \in DOMAIN posts[e]
      PROVE  RunOf(posts'[e][p].batch, accepted'[e], Delivered(e)')
  <2>1. PICK s \in Seq(Messages) : s = posts[e][p].batch /\ s = posts'[e][p].batch
    <3>1. posts[e] \in Seq(Post)
      BY DEF TypeOK, Types
    <3>2. posts[e][p] \in Post
      BY <1>2, <3>1, ElementOfSeq
    <3>3. QED BY <1>2, <3>2 DEF PostsGrow, Post
  <2>2. accepted[e] \in Seq(Messages)
    BY DEF TypeOK, Types
  <2>3. RunOf(s, accepted[e], Delivered(e))
    BY <1>2, <2>1 DEF PostsInOrder
  <2>4. RunOf(s, accepted'[e], Delivered(e))
    BY <2>2, <2>3, RunOfAppend
  <2>5. QED BY <1>1, <2>1, <2>4, RunOfDone
<1>3. QED BY <1>2 DEF PostsInOrder

(* A batch that is handed over is a run of what was accepted, too.         *)
LEMMA RunPosted ==
  ASSUME TypeOK, TypeOK', PostsGrow, NEW t \in Threads, NEW e \in Endpoints, BeginPost(t), e = Ep(t),
         Inside(t, e), Working(t, e), InOrder(e)
  PROVE  PostsInOrder(e)'
<1>1. pc[t] = "begin" /\ accepted' = accepted /\ Types
  BY DEF BeginPost, TypeOK
<1>2. CASE ~Acceptable(batch[t])
  <2>1. posts' = posts
    BY <1>1, <1>2, PostMade
  <2>2. QED BY <1>1, <2>1, RunsKept DEF InOrder
<1>3. CASE Acceptable(batch[t])
  <2>1. PICK n \in Nat : n = Len(posts[e]) /\ DOMAIN posts[e] = 1..n
    BY <1>1 DEF Types
  <2>2. /\ DOMAIN posts'[e] = 1..(n + 1) /\ posts'[e][n + 1] = NewPost(t)
        /\ \A p \in 1..n : posts'[e][p] = posts[e][p]
    BY <1>1, <1>3, <2>1, PostMade
  <2>3. Delivered(e) \subseteq Delivered(e)'
    BY DeliveredGrows DEF TypeOK
  <2>4. PICK s \in Seq(Messages) : s = Local(t) /\ batch[t] = Batch(s)
    BY <1>1, LocalType DEF Working
  <2>5. RunOf(batch[t], accepted[e], Delivered(e))
    <3>1. EndOf(s, accepted[e], Delivered(e)) /\ accepted[e] \in Seq(Messages)
      BY <1>1, <2>4 DEF InOrder, Remains, Flushing, Types
    <3>2. QED BY <2>4, <3>1, RunOfBatch
  <2>6. ASSUME NEW p \in 1..(n + 1)
        PROVE  RunOf(posts'[e][p].batch, accepted'[e], Delivered(e)')
    <3>1. CASE p \in 1..n
      <4>1. RunOf(posts[e][p].batch, accepted[e], Delivered(e))
        BY <2>1, <3>1 DEF InOrder, PostsInOrder
      <4>2. posts'[e][p].batch = posts[e][p].batch
        BY <2>2, <3>1
      <4>3. QED BY <1>1, <2>3, <4>1, <4>2, RunOfDone
    <3>2. CASE p \notin 1..n
      <4>1. p = n + 1
        BY <3>2
      <4>2. posts'[e][p].batch = batch[t]
        BY <2>2, <4>1 DEF NewPost
      <4>3. QED BY <1>1, <2>3, <2>5, <4>2, RunOfDone
    <3>3. QED BY <3>1, <3>2
  <2>7. QED BY <2>2, <2>6 DEF PostsInOrder
<1>4. QED BY <1>2, <1>3

(* So the posts are runs of what was accepted after every step.            *)
LEMMA PostsInOrderStep ==
  ASSUME TypeOK, TypeOK', NEW t \in Threads, NEW e \in Endpoints, Step(t),
         Inside(t, e) => Working(t, e), InOrder(e)
  PROVE  PostsInOrder(e)'
<1>1. PostsGrow
  BY PostsKept
<1>2. CASE BeginPost(t) /\ e = Ep(t)
  <2>1. Inside(t, e)
    BY <1>2, WhereInside DEF BeginPost
  <2>2. QED BY <1>1, <1>2, <2>1, RunPosted
<1>3. CASE ~(BeginPost(t) /\ e = Ep(t))
  <2>1. posts'[e] = posts[e]
    BY <1>3, PostsSame
  <2>2. \/ accepted'[e] = accepted[e]
        \/ \E x \in Messages : accepted'[e] = Append(accepted[e], x)
    <3>1. CASE AppendMessage(t)
      <4>1. PICK f \in Endpoints : f = Ep(t) /\ arg[t] \in Messages
        BY <3>1, EpType DEF AppendMessage, TypeOK, CallOK
      <4>2. accepted' = [accepted EXCEPT ![f] = Append(accepted[f], arg[t])]
        BY <3>1, <4>1 DEF AppendMessage
      <4>3. QED BY <4>1, <4>2 DEF TypeOK, Types
    <3>2. CASE ~AppendMessage(t)
      BY <3>2 DEF Step, Call, SendStep, FlushStep, PostStep, CallSend, CallSendUnknown,
         RememberKey, CheckSize, CallFlush, LoadBuffer, NextBatch, BeginPost, LoopEnds,
         PostSucceeds, PostFails, Advance, Publish, history
    <3>3. QED BY <3>1, <3>2
  <2>3. QED BY <1>1, <2>1, <2>2, RunsKept DEF InOrder
<1>4. QED BY <1>2, <1>3

(* What was posted was accepted.                                           *)
LEMMA PostedAccepted ==
  ASSUME TypeOK, NEW e \in Endpoints, PostsInOrder(e), NEW p \in DOMAIN posts[e]
  PROVE  Range(posts[e][p].batch) \subseteq Accepted(e)
<1>1. PICK s \in Seq(Messages) : s = posts[e][p].batch
  <2>1. posts[e] \in Seq(Post)
    BY DEF TypeOK, Types
  <2>2. posts[e][p] \in Post
    BY <2>1, ElementOfSeq
  <2>3. QED BY <2>2 DEF Post
<1>2. RunOf(s, accepted[e], Delivered(e)) /\ accepted[e] \in Seq(Messages)
  BY <1>1 DEF PostsInOrder, TypeOK, Types
<1>3. QED BY <1>1, <1>2, RunOfRange DEF Accepted

(* It is enough to look at the thread that moves.                          *)
LEMMA InOrderInside ==
  ASSUME NEW t \in Threads, NEW e \in Endpoints, Inside(t, e), Alone(e), OthersStay(t),
         IsInjective(accepted[e])', PostsInOrder(e)', Remains(Current(e), e)',
         (Inside(t, e) /\ pc[t] \in Flushing =>
            Remains(Local(t), e) /\ Len(Local(t)) <= Len(Current(e)))'
  PROVE  InOrder(e)'
BY AloneInside DEF InOrder

(* A step of a thread that is somewhere else.                              *)
LEMMA InOrderElsewhere ==
  ASSUME TypeOK, NEW t \in Threads, NEW e \in Endpoints, Step(t), OthersStay(t), ~Inside(t, e),
         InOrder(e), PostsInOrder(e)'
  PROVE  InOrder(e)'
<1>1. SameLists(e) /\ posts'[e] = posts[e] /\ (Inside(t, e)' => pc'[t] \notin Flushing)
  BY Elsewhere DEF Flushing
<1>2. Current(e)' = Current(e) /\ Delivered(e)' = Delivered(e) /\ Accepted(e)' = Accepted(e)
  BY <1>1, DeliveredSame DEF SameLists, Current, Accepted
<1>3. ASSUME NEW u \in Threads, Inside(u, e)', pc'[u] \in Flushing
      PROVE  Remains(Local(u), e)' /\ Len(Local(u))' <= Len(Current(e))'
  <2>1. u # t /\ Inside(u, e) /\ pc[u] \in Flushing /\ Local(u)' = Local(u)
    BY <1>1, <1>3, OthersInside
  <2>2. QED BY <1>1, <1>2, <2>1 DEF InOrder, Remains, SameLists
<1>4. QED BY <1>1, <1>2, <1>3 DEF InOrder, Remains, SameLists

(* An append adds a message that is new to both lists.                     *)
LEMMA InOrderAppend ==
  ASSUME TypeOK, NEW t \in Threads, NEW e \in Endpoints, Inside(t, e), Alone(e), OthersStay(t),
         AppendMessage(t), Working(t, e), NewMessages, InOrder(e), PostsInOrder(e)'
  PROVE  InOrder(e)'
<1>1. /\ Current(e) \in Seq(Messages) /\ accepted[e] \in Seq(Messages) /\ arg[t] \in Messages
      /\ Current(e)' = Append(Current(e), arg[t])
      /\ accepted'[e] = Append(accepted[e], arg[t])
      /\ UNCHANGED posts
  BY AppendedLists
<1>2. pc[t] = "append" /\ pc'[t] = "setkey" /\ arg[t] \notin Accepted(e)
  BY DEF AppendMessage, Goto, TypeOK, Types, NewMessages
<1>3. IsInjective(accepted[e])'
  BY <1>1, <1>2 DEF InOrder, IsInjective, Accepted, Range
<1>5. Remains(Current(e), e)'
  <2>1. Delivered(e)' = Delivered(e)
    BY <1>1 DEF Delivered
  <2>2. QED BY <1>1, <2>1, EndOfAppend DEF InOrder, Remains
<1>6. QED BY <1>2, <1>3, <1>5, InOrderInside DEF Flushing

(* A loop has delivered everything when it publishes the empty list.       *)
LEMMA PublishEmpties ==
  ASSUME TypeOK, NEW t \in Threads, NEW e \in Endpoints, Inside(t, e), Publish(t), Working(t, e),
         InOrder(e)
  PROVE  /\ Current(e)' = <<>> /\ Accepted(e) \subseteq Delivered(e)
         /\ UNCHANGED <<accepted, posts, faults>> /\ pc'[t] \in {"idle", "load"}
         /\ Remains(<<>>, e)
<1>1. e = Ep(t) /\ pc[t] = "publish" /\ PublishList(t) /\ UNCHANGED <<accepted, posts, faults>>
      /\ pc'[t] \in {"idle", "load"} /\ Local(t) = <<>>
  <2>1. e = Ep(t)
    BY WhereInside
  <2>2. pc[t] = "publish" /\ PublishList(t) /\ UNCHANGED <<accepted, posts, faults>>
    BY DEF Publish, history
  <2>3. Local(t) = <<>>
    BY <2>2 DEF Working
  <2>4. pc'[t] \in {"idle", "load"}
    BY DEF Publish, Return, TypeOK, Types
  <2>5. QED BY <2>1, <2>2, <2>3, <2>4
<1>2. Current(e)' = <<>>
  BY <1>1, PublishedList DEF Current
<1>3. Remains(<<>>, e)
  BY <1>1 DEF InOrder, Flushing
<1>4. accepted[e] \in Seq(Messages) /\ \A i \in 1..Len(accepted[e]) : accepted[e][i] \in Delivered(e)
  <2>1. PICK b \in 0..Len(accepted[e]) :
          Len(accepted[e]) = b + Len(<<>>) /\ \A i \in 1..b : accepted[e][i] \in Delivered(e)
    BY <1>3 DEF Remains, EndOf
  <2>2. QED BY <2>1 DEF TypeOK, Types
<1>5. QED BY <1>1, <1>2, <1>3, <1>4 DEF Accepted, Range

(* So the order stays what it is.                                          *)
LEMMA InOrderPublish ==
  ASSUME TypeOK, NEW t \in Threads, NEW e \in Endpoints, Inside(t, e), Alone(e), OthersStay(t),
         Publish(t), Working(t, e), InOrder(e), PostsInOrder(e)'
  PROVE  InOrder(e)'
<1>1. /\ Current(e)' = <<>> /\ UNCHANGED <<accepted, posts>> /\ pc'[t] \in {"idle", "load"}
      /\ Remains(<<>>, e)
  BY PublishEmpties
<1>2. Delivered(e)' = Delivered(e)
  BY <1>1, DeliveredSame
<1>3. Remains(Current(e), e)'
  BY <1>1, <1>2 DEF Remains
<1>4. QED BY <1>1, <1>3, InOrderInside DEF InOrder, Flushing

(* The loop goes on with what the delivered batch has left of the list.    *)
LEMMA InOrderAdvance ==
  ASSUME TypeOK, NEW t \in Threads, NEW e \in Endpoints, Inside(t, e), Alone(e), OthersStay(t),
         Advance(t), Working(t, e), InOrder(e), PostsInOrder(e)'
  PROVE  InOrder(e)'
<1>1. /\ e = Ep(t) /\ pc[t] = "advance" /\ UNCHANGED <<heap, buffers, accepted, posts, todo>>
      /\ buf'[t] = 0 /\ rest'[t] = AfterBatch(Local(t))
  BY WhereInside DEF Advance, Goto, TypeOK, Types, history
<1>2. PICK s \in Seq(Messages) : s = Local(t)
  BY <1>1, LocalType
<1>3. Local(t)' = AfterBatch(s)
  BY <1>1, <1>2 DEF Local
<1>4. /\ Remains(s, e) /\ Len(s) <= Len(Current(e)) /\ Range(Batch(s)) \subseteq Delivered(e)
  BY <1>1, <1>2, AnsweredDelivered DEF InOrder, Working, Flushing
<1>5. Len(AfterBatch(s)) \in Nat /\ Len(AfterBatch(s)) <= Len(s) /\ Len(s) \in Nat
  BY SliceIndices
<1>6. accepted[e] \in Seq(Messages) /\ Len(Current(e)) \in Nat
  BY CurrentType DEF TypeOK, Types
<1>7. Remains(AfterBatch(s), e)
  BY <1>4, <1>6, EndOfCut DEF Remains
<1>8. /\ Current(e)' = Current(e) /\ Delivered(e)' = Delivered(e) /\ Accepted(e)' = Accepted(e)
      /\ Len(AfterBatch(s)) <= Len(Current(e))
  BY <1>1, <1>4, <1>5, <1>6 DEF Current, Delivered, Accepted
<1>9. Remains(Local(t), e)' /\ Remains(Current(e), e)'
  BY <1>1, <1>3, <1>7, <1>8 DEF Remains, InOrder
<1>10. QED BY <1>1, <1>3, <1>8, <1>9, InOrderInside DEF InOrder

(* The other steps take up the current list or keep the one they have.     *)
LEMMA InOrderQuiet ==
  ASSUME TypeOK, NEW t \in Threads, NEW e \in Endpoints, Inside(t, e), Alone(e), OthersStay(t),
         Step(t), Delivered(e) \subseteq Delivered(e)', ~AppendMessage(t), ~Publish(t), ~Advance(t),
         InOrder(e), PostsInOrder(e)'
  PROVE  InOrder(e)'
<1>1. /\ SameLists(e) /\ Current(e)' = Current(e)
      /\ Delivered(e) \subseteq Delivered(e)' /\ accepted'[e] = accepted[e]
  BY QuietInside DEF SameLists
<1>2. e = Ep(t) /\ pc[t] # "idle"
  BY WhereInside
<1>3. pc'[t] \in Flushing =>
        \/ Local(t)' = Current(e)
        \/ pc[t] \in Flushing /\ Local(t)' = Local(t)
  <2> USE DEF callVars, history
  <2>1. CASE LoadBuffer(t)
    <3>1. /\ buf'[t] = buffers[e] /\ UNCHANGED <<heap, todo>> /\ buffers[e] # 0
      BY <1>2, <2>1 DEF LoadBuffer, Goto, TypeOK, Types, ListExists
    <3>2. QED BY <1>2, <3>1 DEF Local, Current, Ep
  <2>2. CASE NextBatch(t) \/ BeginPost(t) \/ LoopEnds(t) \/ PostSucceeds(t)
    <3>1. pc[t] \in Flushing /\ UNCHANGED <<heap, todo, buf, rest>>
      BY <2>2 DEF NextBatch, BeginPost, LoopEnds, PostSucceeds, Goto, Flushing
    <3>2. QED BY <3>1 DEF Local, Ep
  <2>3. CASE RememberKey(t) \/ CheckSize(t) \/ PostFails(t)
    BY <2>3 DEF RememberKey, CheckSize, PostFails, Goto, Return, Flushing, TypeOK, Types
  <2>4. QED BY <1>2, <2>1, <2>2, <2>3
        DEF Step, Call, CallFlush, CallSend, CallSendUnknown, SendStep, FlushStep, PostStep
<1>4. Remains(Current(e), e)'
  BY <1>1, EndOfDone DEF InOrder, Remains
<1>5. Len(Current(e)) \in Int
  BY CurrentType
<1>6. ASSUME pc'[t] \in Flushing
      PROVE  Remains(Local(t), e)' /\ Len(Local(t))' <= Len(Current(e))'
  <2>1. CASE Local(t)' = Current(e)
    BY <1>1, <1>4, <1>5, <2>1 DEF Remains
  <2>2. CASE pc[t] \in Flushing /\ Local(t)' = Local(t)
    BY <1>1, <2>2, EndOfDone DEF InOrder, Remains
  <2>3. QED BY <1>3, <1>6, <2>1, <2>2
<1>7. QED BY <1>1, <1>4, <1>6, InOrderInside DEF InOrder

(* Every step of every thread keeps the order where no two have met.       *)
LEMMA InOrderStep ==
  ASSUME IInv, IInv', NewMessages, NEW t \in Threads, Step(t), NEW e \in Endpoints \ overlapped,
         InOrder(e)
  PROVE  InOrder(e)'
<1>1. TypeOK /\ TypeOK' /\ OthersStay(t) /\ EndpointOK(e) /\ Delivered(e) \subseteq Delivered(e)'
  BY OneMoves, HistoryGrows DEF IInv, TypeOK
<1>2. PostsInOrder(e)'
  BY <1>1, PostsInOrderStep DEF EndpointOK
<1>3. CASE ~Inside(t, e)
  BY <1>1, <1>2, <1>3, InOrderElsewhere
<1>4. CASE Inside(t, e)
  <2>1. Alone(e) /\ Working(t, e)
    BY <1>1, <1>4 DEF EndpointOK
  <2>2. CASE AppendMessage(t)
    BY <1>1, <1>2, <1>4, <2>1, <2>2, InOrderAppend
  <2>3. CASE Publish(t)
    BY <1>1, <1>2, <1>4, <2>1, <2>3, InOrderPublish
  <2>4. CASE Advance(t)
    BY <1>1, <1>2, <1>4, <2>1, <2>4, InOrderAdvance
  <2>5. QED BY <1>1, <1>2, <1>4, <2>1, <2>2, <2>3, <2>4, InOrderQuiet
<1>5. QED BY <1>3, <1>4

(* The service delivers runs that were posted, in whatever order.          *)
LEMMA InOrderService ==
  ASSUME TypeOK, TypeOK', PostsGrow, NEW f \in Endpoints, NEW p \in DOMAIN posts[f],
         ServerApplies(f, p), NEW e \in Endpoints, InOrder(e)
  PROVE  InOrder(e)'
<1>1. UNCHANGED <<heap, buffers, accepted, pc, todo, buf, rest>> /\ Types /\ Types'
  BY DEF ServerApplies, callVars, TypeOK
<1>2. DOMAIN posts'[e] = DOMAIN posts[e] /\ Delivered(e) \subseteq Delivered(e)'
  BY <1>1, PostApplied, DeliveredGrows
<1>3. PostsInOrder(e)'
  BY <1>1, <1>2, RunsKept DEF InOrder
<1>4. /\ Current(e)' = Current(e)
      /\ \A u \in Threads : Local(u)' = Local(u) /\ (Inside(u, e)' <=> Inside(u, e))
  BY <1>1 DEF Current, Local, Inside, Ep
<1>5. \A l : EndOf(l, accepted[e], Delivered(e)) => EndOf(l, accepted'[e], Delivered(e)')
  BY <1>1, <1>2, EndOfDone
<1>6. QED BY <1>1, <1>3, <1>4, <1>5 DEF InOrder, Remains

-----------------------------------------------------------------------------
(* What is about to be appended is new, and turns are taken                *)

(* The application sends each message once, so no append repeats another.  *)
LEMMA NewMessagesStep ==
  ASSUME TypeOK, NewMessages, NEW t \in Threads, Step(t), OthersStay(t)
  PROVE  NewMessages'
<1> USE DEF callVars, history
<1>1. ASSUME NEW m \in Messages, CallSend(t, m) PROVE NewMessages'
  <2>1. /\ UNCHANGED accepted /\ pc[t] = "idle" /\ pc' = [pc EXCEPT ![t] = "append"]
        /\ arg' = [arg EXCEPT ![t] = m] /\ todo' = [todo EXCEPT ![t] = <<EndpointOf[m]>>]
        /\ Fresh(m)
    BY <1>1 DEF CallSend
  <2>2. \A e \in Endpoints : Accepted(e)' = Accepted(e)
    BY <2>1 DEF Accepted
  <2>3. /\ pc'[t] = "append" /\ arg'[t] = m /\ Ep(t)' = EndpointOf[m]
        /\ \A u \in Threads \ {t} : pc'[u] = pc[u] /\ arg'[u] = arg[u] /\ Ep(u)' = Ep(u)
    BY <2>1 DEF TypeOK, Types, Ep
  <2>4. \A u \in Threads \ {t} : pc[u] = "append" => arg[u] # m
    BY <2>1 DEF Fresh
  <2>5. QED BY <2>1, <2>2, <2>3, <2>4 DEF NewMessages, Fresh
<1>2. CASE AppendMessage(t)
  <2>1. /\ pc[t] = "append" /\ arg[t] \in Messages /\ Ep(t) \in Endpoints
        /\ accepted' = [accepted EXCEPT ![Ep(t)] = Append(@, arg[t])]
    BY <1>2, EpType DEF AppendMessage, TypeOK, CallOK
  <2>2. ASSUME NEW e \in Endpoints, NEW x \in Accepted(e)' PROVE x \in Accepted(e) \/ x = arg[t]
    <3>1. accepted[e] \in Seq(Messages)
      BY DEF TypeOK, Types
    <3>2. accepted'[e] = accepted[e] \/ accepted'[e] = Append(accepted[e], arg[t])
      BY <2>1 DEF TypeOK, Types
    <3>3. QED BY <2>1, <2>2, <3>1, <3>2, RangeOfAppend DEF Accepted
  <2>3. pc'[t] # "append"
    BY <1>2 DEF AppendMessage, Goto, TypeOK, Types
  <2>4. \A u \in Threads \ {t} : pc'[u] = pc[u] /\ arg'[u] = arg[u] /\ Ep(u)' = Ep(u)
    BY DEF OthersStay, Ep
  <2>5. QED BY <2>1, <2>2, <2>3, <2>4 DEF NewMessages
<1>3. CASE UNCHANGED accepted /\ pc'[t] # "append"
  <2>1. \A e \in Endpoints : Accepted(e)' = Accepted(e)
    BY <1>3 DEF Accepted
  <2>2. \A u \in Threads \ {t} : pc'[u] = pc[u] /\ arg'[u] = arg[u] /\ Ep(u)' = Ep(u)
    BY DEF OthersStay, Ep
  <2>3. QED BY <1>3, <2>1, <2>2 DEF NewMessages
<1>4. CASE CallFlush(t) \/ \E m \in Messages : CallSendUnknown(t, m)
  BY <1>3, <1>4 DEF CallFlush, CallSendUnknown, Return, TypeOK, Types
<1>5. CASE RememberKey(t) \/ CheckSize(t)
  BY <1>3, <1>5 DEF RememberKey, CheckSize, Goto, Return, TypeOK, Types
<1>6. CASE FlushStep(t)
  BY <1>3, <1>6 DEF FlushStep, LoadBuffer, NextBatch, BeginPost, LoopEnds, Advance, Publish,
     Goto, Return, TypeOK, Types
<1>7. CASE PostStep(t)
  BY <1>3, <1>7 DEF PostStep, PostSucceeds, PostFails, Goto, Return, TypeOK, Types
<1>8. QED BY <1>1, <1>2, <1>4, <1>5, <1>6, <1>7 DEF Step, Call, SendStep

(* Callers that take turns never overlap.                                  *)
LEMMA TurnsStep ==
  ASSUME TakeTurns, NEW t \in Threads, Step(t)
  PROVE  UNCHANGED overlapped
BY DEF Step, Call, SendStep, FlushStep, PostStep, CallFlush, CallSend, CallSendUnknown,
   AppendMessage, RememberKey, CheckSize, LoadBuffer, NextBatch, BeginPost, LoopEnds, Advance,
   Publish, PostSucceeds, PostFails, Enter

-----------------------------------------------------------------------------
(* Growth: a list outgrows the batch size by failures                      *)

(* A step counts at most one failure.                                      *)
LEMMA FaultsGrow ==
  ASSUME TypeOK, NEW t \in Threads, Step(t)
  PROVE  faults' = faults \/ faults' = faults + 1
BY DEF Step, Call, SendStep, FlushStep, PostStep, CallFlush, CallSend, CallSendUnknown,
   AppendMessage, RememberKey, CheckSize, LoadBuffer, NextBatch, BeginPost, LoopEnds, Advance,
   Publish, PostSucceeds, PostFails, SendRaises, history

(* A failure of a batch that no rejected message is in counts.             *)
LEMMA FailureCounts ==
  ASSUME TypeOK, NEW t \in Threads, PostFails(t), Poison = {}
  PROVE  faults' = faults + 1
BY DEF PostFails, SendRaises, Acceptable

(* A list that may be full is being flushed: a flush either empties it or  *)
(* fails, and a failure counts.                                            *)
LEMMA GrowthStep ==
  ASSUME TypeOK, NEW t \in Threads, Step(t), OthersStay(t), NEW e \in Endpoints, EndpointOK(e),
         Delivered(e) \subseteq Delivered(e)', InOrder(e), Growth(e)
  PROVE  Growth(e)'
<1> SUFFICES ASSUME Poison = {}, MaxSize > 0
             PROVE  /\ Len(Current(e)') <= BatchSize + faults'
                    /\ (\A u \in Threads : Inside(u, e)' => pc'[u] = "append")
                         => Len(Current(e)') < BatchSize + faults'
  BY DEF Growth, BatchSize
<1>1. /\ BatchSize \in Nat \ {0} /\ faults \in Nat
      /\ Current(e) \in Seq(Messages) /\ Len(Current(e)) \in Nat
  BY NumbersAssumption, CurrentType DEF BatchSize, TypeOK, Types
<1>2. /\ Len(Current(e)) <= BatchSize + faults
      /\ (\A u \in Threads : Inside(u, e) => pc[u] = "append") => Len(Current(e)) < BatchSize + faults
  BY DEF Growth
<1>3. CASE ~Inside(t, e)
  <2>1. SameLists(e) /\ faults' \in Int /\ faults <= faults'
    <3>1. faults' \in Int
      BY <1>1, FaultsGrow
    <3>2. QED BY <1>3, <3>1, Elsewhere
  <2>2. Current(e)' = Current(e)
    BY <2>1 DEF SameLists, Current
  <2>3. ASSUME \A u \in Threads : Inside(u, e)' => pc'[u] = "append"
        PROVE  \A u \in Threads : Inside(u, e) => pc[u] = "append"
    BY <1>3, <2>3, OthersInside
  <2>4. QED BY <1>1, <1>2, <2>1, <2>2, <2>3
<1>4. CASE Inside(t, e)
  <2>1. Alone(e) /\ Working(t, e) /\ \A u \in Threads \ {t} : ~Inside(u, e)
    BY <1>4, AloneInside DEF EndpointOK
  <2>2. CASE AppendMessage(t)
    <3>0. pc[t] = "append" /\ pc'[t] = "setkey" /\ UNCHANGED <<faults, todo>>
      BY <2>2 DEF AppendMessage, Goto, TypeOK, Types
    <3>1. Len(Current(e)') = Len(Current(e)) + 1
      <4>1. Current(e) \in Seq(Messages) /\ arg[t] \in Messages /\ Current(e)' = Append(Current(e), arg[t])
        BY <1>4, <2>1, <2>2, AppendedLists
      <4>2. QED BY <4>1
    <3>2. Inside(t, e)' /\ Len(Current(e)) < BatchSize + faults
      BY <1>2, <1>4, <2>1, <3>0 DEF Inside, Ep
    <3>3. QED BY <1>1, <3>0, <3>1, <3>2
  <2>4. CASE Publish(t)
    <3>1. Len(Current(e)') = 0 /\ UNCHANGED faults
      BY <1>4, <2>1, <2>4, PublishEmpties
    <3>2. QED BY <1>1, <3>1
  <2>5. CASE ~AppendMessage(t) /\ ~Publish(t)
    <3>1. /\ Current(e)' = Current(e)
          /\ \/ pc'[t] = "idle"
             \/ UNCHANGED todo /\ pc'[t] \in {"check", "load", "loop", "begin", "post", "advance", "publish"}
      BY <1>4, <2>5, QuietInside
    <3>2. CASE PostFails(t)
      <4>1. faults' = faults + 1
        BY <3>2, FailureCounts
      <4>2. QED BY <1>1, <1>2, <3>1, <4>1
    <3>3. CASE CheckSize(t)
      <4>1. UNCHANGED faults /\ (pc'[t] = "idle" => ~(Len(Local(t)) >= BatchSize))
        BY <3>3 DEF CheckSize, Goto, history, TypeOK, Types
      <4>2. Local(t) = Current(e)
        BY <1>4, <2>1, <3>3, WhereInside DEF CheckSize, Working, Local, Current, TypeOK, CallOK
      <4>3. pc'[t] = "idle" => Len(Current(e)) < BatchSize
        BY <1>1, <4>1, <4>2
      <4>4. pc'[t] # "idle" => Inside(t, e)' /\ pc'[t] # "append"
        BY <1>4, <3>1 DEF Inside, Ep
      <4>5. QED BY <1>1, <1>2, <3>1, <4>1, <4>3, <4>4
    <3>4. CASE RememberKey(t) \/ LoadBuffer(t) \/ NextBatch(t) \/ BeginPost(t) \/ LoopEnds(t)
               \/ PostSucceeds(t) \/ Advance(t)
      <4>1. UNCHANGED faults /\ pc'[t] # "idle"
        BY <3>4 DEF RememberKey, LoadBuffer, NextBatch, BeginPost, LoopEnds, PostSucceeds, Advance,
           Goto, history, TypeOK, Types
      <4>2. Inside(t, e)' /\ pc'[t] # "append"
        BY <1>4, <3>1, <4>1 DEF Inside, Ep
      <4>3. QED BY <1>2, <3>1, <4>1, <4>2
    <3>5. pc[t] # "idle"
      BY <1>4 DEF Inside
    <3>6. QED BY <2>5, <3>2, <3>3, <3>4, <3>5
          DEF Step, Call, CallFlush, CallSend, CallSendUnknown, SendStep, FlushStep, PostStep
  <2>6. QED BY <2>2, <2>4, <2>5
<1>5. QED BY <1>3, <1>4

(* The service fills no list.                                              *)
LEMMA GrowthService ==
  ASSUME NEW f \in Endpoints, NEW p \in DOMAIN posts[f], ServerApplies(f, p), NEW e \in Endpoints,
         Growth(e)
  PROVE  Growth(e)'
<1>1. UNCHANGED <<heap, buffers, pc, todo, faults>>
  BY DEF ServerApplies
<1>2. Current(e)' = Current(e) /\ \A u \in Threads : Inside(u, e)' <=> Inside(u, e)
  BY <1>1 DEF Current, Inside, Ep
<1>3. QED BY <1>1, <1>2 DEF Growth, BatchSize

-----------------------------------------------------------------------------
(* Copies: how often one message is posted                                 *)

(* A count of posts is a natural number.                                   *)
LEMMA PostedType ==
  ASSUME TypeOK, NEW e \in Endpoints, NEW m
  PROVE  /\ IsFiniteSet({p \in DOMAIN posts[e] : m \in Range(posts[e][p].batch)})
         /\ Posted(e, m) \in Nat
<1>1. PICK n \in Nat : DOMAIN posts[e] = 1..n
  <2>1. posts[e] \in Seq(Post)
    BY DEF TypeOK, Types
  <2>2. QED BY <2>1
<1>2. IsFiniteSet(1..n)
  BY FS_Interval
<1>3. IsFiniteSet({p \in DOMAIN posts[e] : m \in Range(posts[e][p].batch)})
  BY <1>1, <1>2, FS_Subset
<1>4. QED BY <1>3, FS_CardinalityType DEF Posted

(* It stays what it is while no post is added.                             *)
LEMMA PostedSame ==
  ASSUME NEW e \in Endpoints, NEW m, DOMAIN posts'[e] = DOMAIN posts[e],
         \A p \in DOMAIN posts[e] : posts'[e][p].batch = posts[e][p].batch
  PROVE  Posted(e, m)' = Posted(e, m)
<1>1. {p \in DOMAIN posts'[e] : m \in Range(posts'[e][p].batch)}
        = {p \in DOMAIN posts[e] : m \in Range(posts[e][p].batch)}
  OBVIOUS
<1>2. QED BY <1>1 DEF Posted

(* What was never accepted counts zero.                                    *)
LEMMA PostedZero ==
  ASSUME TypeOK, NEW e \in Endpoints, NEW m, PostsInOrder(e), m \notin Accepted(e)
  PROVE  Posted(e, m) = 0
<1>1. {p \in DOMAIN posts[e] : m \in Range(posts[e][p].batch)} = {}
  BY PostedAccepted
<1>2. QED BY <1>1, FS_EmptySet DEF Posted

(* A batch that is handed over adds one to each of its messages.           *)
LEMMA PostedGrow ==
  ASSUME TypeOK, NEW t \in Threads, BeginPost(t), Acceptable(batch[t]), NEW e \in Endpoints,
         e = Ep(t), NEW m
  PROVE  /\ Posted(e, m)' \in Nat
         /\ Posted(e, m)' <= Posted(e, m) + IF m \in Range(batch[t]) THEN 1 ELSE 0
<1> DEFINE P == {p \in DOMAIN posts[e] : m \in Range(posts[e][p].batch)}
           Q == {p \in DOMAIN posts'[e] : m \in Range(posts'[e][p].batch)}
<1>1. PICK n \in Nat : n = Len(posts[e]) /\ DOMAIN posts[e] = 1..n
  BY DEF TypeOK, Types
<1>2. /\ DOMAIN posts'[e] = 1..(n + 1) /\ posts'[e][n + 1].batch = batch[t]
      /\ \A p \in 1..n : posts'[e][p] = posts[e][p]
  <2>1. Types
    BY DEF TypeOK
  <2>2. /\ DOMAIN posts'[e] = 1..(Len(posts[e]) + 1)
        /\ posts'[e][Len(posts[e]) + 1] = NewPost(t)
        /\ \A p \in DOMAIN posts[e] : posts'[e][p] = posts[e][p]
    BY <2>1, PostMade
  <2>3. NewPost(t).batch = batch[t]
    BY DEF NewPost
  <2>4. QED BY <1>1, <2>2, <2>3
<1>3. Posted(e, m) = Cardinality(P) /\ Posted(e, m)' = Cardinality(Q)
  BY DEF Posted
<1>4. IsFiniteSet(P) /\ Cardinality(P) \in Nat
  BY PostedType DEF Posted
<1>5. ASSUME NEW p \in Q, p # n + 1 PROVE p \in P
  <2>1. p \in 1..n
    BY <1>2, <1>5
  <2>2. QED BY <1>1, <1>2, <1>5, <2>1
<1>6. ASSUME NEW p \in P PROVE p \in Q
  <2>1. p \in 1..n /\ p \in 1..(n + 1)
    BY <1>1
  <2>2. QED BY <1>2, <2>1
<1>7. n + 1 \in Q <=> m \in Range(batch[t])
  BY <1>2
<1> HIDE DEF P, Q
<1>8. CASE m \notin Range(batch[t])
  <2>1. Q = P
    BY <1>5, <1>6, <1>7, <1>8
  <2>2. QED BY <1>3, <1>4, <1>8, <2>1
<1>9. CASE m \in Range(batch[t])
  <2>1. Q = P \cup {n + 1}
    BY <1>5, <1>6, <1>7, <1>9
  <2>2. Cardinality(Q) = Cardinality(P) \/ Cardinality(Q) = Cardinality(P) + 1
    BY <1>4, <2>1, FS_AddElement
  <2>3. QED BY <1>3, <1>4, <1>9, <2>2
<1>10. QED BY <1>8, <1>9

(* What is left of a list has none of the batch that was cut off.          *)
LEMMA SlicesApart ==
  ASSUME NEW s \in Seq(Messages), IsInjective(s)
  PROVE  IsInjective(Batch(s)) /\ Range(Batch(s)) \cap Range(AfterBatch(s)) = {}
<1>0. /\ Batch(s) \in Seq(Messages) /\ AfterBatch(s) \in Seq(Messages)
      /\ Len(Batch(s)) + Len(AfterBatch(s)) = Len(s)
      /\ \A i \in 1..Len(Batch(s)) : Batch(s)[i] = s[i]
      /\ \A i \in 1..Len(AfterBatch(s)) : AfterBatch(s)[i] = s[Len(Batch(s)) + i]
  BY SliceIndices
<1>1. PICK k \in Nat, l \in Nat : k = Len(Batch(s)) /\ l = Len(AfterBatch(s)) /\ k + l = Len(s)
  BY <1>0
<1>2. /\ DOMAIN Batch(s) = 1..k /\ DOMAIN AfterBatch(s) = 1..l /\ DOMAIN s = 1..(k + l)
      /\ \A i \in 1..k : Batch(s)[i] = s[i]
      /\ \A i \in 1..l : AfterBatch(s)[i] = s[k + i]
  BY <1>0, <1>1
<1>3. IsInjective(Batch(s))
  BY <1>2 DEF IsInjective
<1>4. ASSUME NEW i \in 1..k, NEW j \in 1..l, Batch(s)[i] = AfterBatch(s)[j] PROVE FALSE
  <2>1. s[i] = s[k + j] /\ i \in 1..(k + l) /\ k + j \in 1..(k + l)
    BY <1>2, <1>4
  <2>2. i = k + j
    BY <1>2, <2>1 DEF IsInjective
  <2>3. QED BY <2>2
<1>5. QED BY <1>2, <1>3, <1>4 DEF Range

(* The three bounds of Copies(e), for a number of failures.                *)
RoundsMade(e, n) == \A m \in Accepted(e) : Posted(e, m) <= n + 1
RoundsHeld(e, n) ==
  (\A u \in Threads : Inside(u, e) => pc[u] \notin Flushing) =>
    \A m \in Range(Current(e)) : Posted(e, m) <= n
RoundsLocal(e, n) ==
  \A u \in Threads : Inside(u, e) /\ pc[u] \in Flushing =>
    \A m \in Range(Local(u)) : Posted(e, m) <= n + InPost(u, m)

(* A step elsewhere leaves the counts alone, and may allow more.           *)
LEMMA CopiesElsewhere ==
  ASSUME TypeOK, NEW t \in Threads, Step(t), OthersStay(t), NEW e \in Endpoints, ~Inside(t, e),
         NEW n \in Nat, NEW more \in Nat, n <= more,
         RoundsMade(e, n), RoundsHeld(e, n), RoundsLocal(e, n)
  PROVE  RoundsMade(e, more)' /\ RoundsHeld(e, more)' /\ RoundsLocal(e, more)'
<1>1. SameLists(e) /\ posts'[e] = posts[e] /\ (Inside(t, e)' => pc'[t] \notin Flushing)
  BY Elsewhere DEF Flushing
<1>2. /\ Current(e)' = Current(e) /\ Accepted(e)' = Accepted(e)
      /\ \A m : Posted(e, m)' = Posted(e, m) /\ Posted(e, m) \in Nat
  BY <1>1, PostedType DEF SameLists, Current, Accepted, Posted
<1>3. RoundsMade(e, more)'
  BY <1>2 DEF RoundsMade
<1>4. RoundsHeld(e, more)'
  <2>1. ASSUME \A u \in Threads : Inside(u, e)' => pc'[u] \notin Flushing
        PROVE  \A u \in Threads : Inside(u, e) => pc[u] \notin Flushing
    BY <2>1, OthersInside
  <2>2. QED BY <1>2, <2>1 DEF RoundsHeld
<1>5. RoundsLocal(e, more)'
  <2>1. SUFFICES ASSUME NEW u \in Threads, Inside(u, e)', pc'[u] \in Flushing, NEW m \in Range(Local(u)')
                 PROVE  Posted(e, m)' <= more + InPost(u, m)'
    BY DEF RoundsLocal
  <2>2. u # t /\ Inside(u, e) /\ pc[u] \in Flushing /\ Local(u)' = Local(u)
        /\ pc'[u] = pc[u] /\ batch'[u] = batch[u]
    BY <1>1, <2>1, OthersInside
  <2>3. InPost(u, m)' = InPost(u, m) /\ InPost(u, m) \in Nat
    BY <2>2 DEF InPost
  <2>4. Posted(e, m) <= n + InPost(u, m)
    BY <2>1, <2>2 DEF RoundsLocal
  <2>5. QED BY <1>2, <2>3, <2>4
<1>6. QED BY <1>3, <1>4, <1>5

(* An appended message has not been posted yet.                            *)
LEMMA CopiesAppend ==
  ASSUME TypeOK, NEW t \in Threads, OthersStay(t), NEW e \in Endpoints, Inside(t, e), Alone(e),
         AppendMessage(t), Working(t, e), NewMessages, InOrder(e), NEW n \in Nat,
         RoundsMade(e, n), RoundsHeld(e, n)
  PROVE  RoundsMade(e, n)' /\ RoundsHeld(e, n)' /\ RoundsLocal(e, n)'
<1>1. /\ Current(e) \in Seq(Messages) /\ accepted[e] \in Seq(Messages) /\ arg[t] \in Messages
      /\ Current(e)' = Append(Current(e), arg[t])
      /\ accepted'[e] = Append(accepted[e], arg[t])
      /\ UNCHANGED posts
  BY AppendedLists
<1>2. pc[t] = "append" /\ pc'[t] = "setkey" /\ arg[t] \notin Accepted(e)
  BY DEF AppendMessage, Goto, TypeOK, Types, NewMessages
<1>3. /\ Accepted(e)' = Accepted(e) \cup {arg[t]}
      /\ Range(Current(e)') = Range(Current(e)) \cup {arg[t]}
  BY <1>1, RangeOfAppend DEF Accepted
<1>4. /\ \A m : Posted(e, m)' = Posted(e, m) /\ Posted(e, m) \in Nat
      /\ Posted(e, arg[t]) = 0
  BY <1>1, <1>2, PostedType, PostedZero DEF Posted, InOrder
<1>5. \A u \in Threads : Inside(u, e) => pc[u] \notin Flushing
  BY <1>2, AloneInside DEF Flushing
<1>6. \A u \in Threads : Inside(u, e)' => pc'[u] \notin Flushing
  BY <1>2, AloneInside DEF Flushing
<1>7. RoundsMade(e, n)'
  BY <1>3, <1>4 DEF RoundsMade
<1>8. RoundsHeld(e, n)'
  BY <1>3, <1>4, <1>5 DEF RoundsHeld
<1>9. QED BY <1>6, <1>7, <1>8 DEF RoundsLocal

(* A batch is handed over once more: its messages are in the list and have *)
(* not been posted since the last failure.                                 *)
LEMMA CopiesPost ==
  ASSUME TypeOK, NEW t \in Threads, OthersStay(t), NEW e \in Endpoints, Inside(t, e), Alone(e),
         BeginPost(t), Acceptable(batch[t]), Working(t, e), NEW n \in Nat,
         RoundsMade(e, n), RoundsLocal(e, n)
  PROVE  RoundsMade(e, n)' /\ RoundsHeld(e, n)' /\ RoundsLocal(e, n)'
<1>1. /\ e = Ep(t) /\ pc[t] = "begin" /\ pc'[t] = "post"
      /\ UNCHANGED <<heap, buffers, accepted, buf, rest, todo, batch>>
  BY WhereInside DEF BeginPost, Goto, TypeOK, Types
<1>2. Local(t) \in Seq(Messages) /\ batch[t] = Batch(Local(t))
  BY <1>1, LocalType DEF Working
<1>3. Range(batch[t]) \subseteq Range(Local(t))
  BY <1>2, Slices
<1>4. Local(t)' = Local(t) /\ Accepted(e)' = Accepted(e)
  BY <1>1 DEF Local, Ep, Accepted
<1>5. \A m : /\ Posted(e, m) \in Nat /\ Posted(e, m)' \in Nat
             /\ Posted(e, m)' <= Posted(e, m) + IF m \in Range(batch[t]) THEN 1 ELSE 0
  BY <1>1, PostedGrow, PostedType
<1>6. \A m \in Range(Local(t)) : Posted(e, m) <= n
  <2>1. \A m : InPost(t, m) = 0
    BY <1>1 DEF InPost
  <2>2. QED BY <1>1, <2>1 DEF RoundsLocal, Flushing
<1>7. RoundsLocal(e, n)'
  <2>1. SUFFICES ASSUME NEW m \in Range(Local(t)) PROVE Posted(e, m)' <= n + InPost(t, m)'
    BY <1>4, AloneInside DEF RoundsLocal
  <2>2. InPost(t, m)' = IF m \in Range(batch[t]) THEN 1 ELSE 0
    BY <1>1 DEF InPost
  <2>3. QED BY <1>5, <1>6, <2>2
<1>8. RoundsMade(e, n)'
  <2>1. SUFFICES ASSUME NEW m \in Accepted(e) PROVE Posted(e, m)' <= n + 1
    BY <1>4 DEF RoundsMade
  <2>2. CASE m \in Range(batch[t])
    BY <1>3, <1>5, <1>6, <2>2
  <2>3. CASE m \notin Range(batch[t])
    BY <1>5, <2>3 DEF RoundsMade
  <2>4. QED BY <2>2, <2>3
<1>9. Inside(t, e)' /\ pc'[t] \in Flushing
  BY <1>1 DEF Inside, Ep, Flushing
<1>10. QED BY <1>7, <1>8, <1>9 DEF RoundsHeld

(* The loop goes on with the messages that its post did not hold.          *)
LEMMA CopiesAdvance ==
  ASSUME TypeOK, NEW t \in Threads, OthersStay(t), NEW e \in Endpoints, Inside(t, e), Alone(e),
         Advance(t), Working(t, e), InOrder(e), NEW n \in Nat,
         RoundsMade(e, n), RoundsLocal(e, n)
  PROVE  RoundsMade(e, n)' /\ RoundsHeld(e, n)' /\ RoundsLocal(e, n)'
<1>1. /\ e = Ep(t) /\ pc[t] = "advance" /\ pc'[t] = "loop"
      /\ UNCHANGED <<heap, buffers, accepted, posts, todo>>
      /\ buf'[t] = 0 /\ rest'[t] = AfterBatch(Local(t))
  BY WhereInside DEF Advance, Goto, TypeOK, Types, history
<1>2. Local(t) \in Seq(Messages) /\ batch[t] = Batch(Local(t)) /\ accepted[e] \in Seq(Messages)
  BY <1>1, LocalType DEF Working, TypeOK, Types
<1>3. /\ Range(batch[t]) \cap Range(AfterBatch(Local(t))) = {}
      /\ Range(AfterBatch(Local(t))) \subseteq Range(Local(t))
  BY <1>1, <1>2, EndOfOnce, SlicesApart, Slices DEF InOrder, Remains, Flushing
<1>4. /\ Local(t)' = AfterBatch(Local(t)) /\ Accepted(e)' = Accepted(e)
      /\ \A m : Posted(e, m)' = Posted(e, m)
  BY <1>1 DEF Local, Accepted, Posted
<1>5. RoundsLocal(e, n)'
  <2>1. SUFFICES ASSUME NEW m \in Range(AfterBatch(Local(t)))
                 PROVE  Posted(e, m) <= n + InPost(t, m)'
    BY <1>4, AloneInside DEF RoundsLocal
  <2>2. m \in Range(Local(t)) /\ InPost(t, m) = 0 /\ InPost(t, m)' = 0
    BY <1>1, <1>3 DEF InPost
  <2>3. QED BY <1>1, <2>2 DEF RoundsLocal, Flushing
<1>6. RoundsMade(e, n)'
  BY <1>4 DEF RoundsMade
<1>7. Inside(t, e)' /\ pc'[t] \in Flushing
  BY <1>1 DEF Inside, Ep, Flushing
<1>8. QED BY <1>5, <1>6, <1>7 DEF RoundsHeld

(* Publishing empties the list.                                            *)
LEMMA CopiesPublish ==
  ASSUME TypeOK, NEW t \in Threads, OthersStay(t), NEW e \in Endpoints, Inside(t, e), Alone(e),
         Publish(t), Working(t, e), InOrder(e), NEW n \in Nat, RoundsMade(e, n)
  PROVE  RoundsMade(e, n)' /\ RoundsHeld(e, n)' /\ RoundsLocal(e, n)'
<1>1. Current(e)' = <<>> /\ UNCHANGED <<accepted, posts>> /\ pc'[t] \in {"idle", "load"}
  BY PublishEmpties
<1>2. /\ Accepted(e)' = Accepted(e) /\ (\A m : Posted(e, m)' = Posted(e, m))
      /\ Range(Current(e)') = {}
  BY <1>1 DEF Accepted, Posted, Range
<1>3. QED BY <1>1, <1>2, AloneInside DEF RoundsMade, RoundsHeld, RoundsLocal, Flushing

(* A post that fails has used up its round, and a flush that begins has    *)
(* made none.                                                              *)
LEMMA CopiesQuiet ==
  ASSUME TypeOK, NEW t \in Threads, OthersStay(t), Step(t), NEW e \in Endpoints, Inside(t, e),
         Alone(e), ~AppendMessage(t), ~BeginPost(t), ~Publish(t), ~Advance(t),
         Working(t, e), InOrder(e), Poison = {},
         RoundsMade(e, faults), RoundsHeld(e, faults), RoundsLocal(e, faults)
  PROVE  RoundsMade(e, faults)' /\ RoundsHeld(e, faults)' /\ RoundsLocal(e, faults)'
<1> USE DEF callVars, history
<1>0. posts'[e] = posts[e] /\ Delivered(e) \subseteq Delivered(e)'
  BY PostsSame, DeliveredSame
<1>1. /\ SameLists(e) /\ Current(e)' = Current(e)
      /\ \/ pc'[t] = "idle"
         \/ UNCHANGED todo /\ pc'[t] \in {"check", "load", "loop", "begin", "post", "advance", "publish"}
  BY <1>0, QuietInside
<1>2. PICK n \in Nat : n = faults
  BY DEF TypeOK, Types
<1>3. /\ Accepted(e)' = Accepted(e)
      /\ \A m : Posted(e, m)' = Posted(e, m) /\ Posted(e, m) \in Nat
  BY <1>0, <1>1, PostedType DEF SameLists, Accepted, Posted
<1>4. e = Ep(t) /\ pc[t] # "idle" /\ pc'[t] # "append"
  BY <1>1, WhereInside
<1>5. CASE PostFails(t)
  <2>1. faults' = n + 1 /\ pc'[t] = "idle"
    BY <1>2, <1>5, FailureCounts DEF PostFails, Return, TypeOK, Types
  <2>2. Range(Current(e)) \subseteq Accepted(e)
    BY CurrentType, EndOfRange DEF InOrder, Remains, Accepted, TypeOK, Types
  <2>3. \A m \in Accepted(e) : Posted(e, m) <= n + 1
    BY <1>2 DEF RoundsMade
  <2>4. RoundsMade(e, faults)'
    BY <1>2, <1>3, <2>1, <2>3 DEF RoundsMade
  <2>5. RoundsHeld(e, faults)'
    BY <1>1, <1>3, <2>1, <2>2, <2>3 DEF RoundsHeld
  <2>6. QED BY <2>1, <2>4, <2>5, AloneInside DEF RoundsLocal, Flushing
<1>6. CASE RememberKey(t) \/ CheckSize(t)
  <2>1. UNCHANGED faults /\ pc[t] \notin Flushing /\ pc'[t] \notin Flushing
    BY <1>6 DEF RememberKey, CheckSize, Goto, Return, Flushing, TypeOK, Types
  <2>2. QED BY <1>1, <1>3, <2>1, AloneInside DEF RoundsMade, RoundsHeld, RoundsLocal
<1>7. CASE LoadBuffer(t)
  <2>1. /\ UNCHANGED <<faults, heap, todo>> /\ pc[t] = "load" /\ pc'[t] = "loop"
        /\ buf'[t] = buffers[e] /\ buffers[e] # 0
    BY <1>4, <1>7 DEF LoadBuffer, Goto, TypeOK, Types, ListExists
  <2>2. Local(t)' = Current(e) /\ \A m : InPost(t, m)' = 0
    BY <1>4, <2>1 DEF Local, Current, Ep, InPost
  <2>3. \A m \in Range(Current(e)) : Posted(e, m) <= n
    BY <1>2, <2>1, AloneInside DEF RoundsHeld, Flushing
  <2>4. RoundsLocal(e, faults)'
    BY <1>2, <1>3, <2>1, <2>2, <2>3, AloneInside DEF RoundsLocal
  <2>5. RoundsMade(e, faults)'
    BY <1>3, <2>1 DEF RoundsMade
  <2>6. Inside(t, e)' /\ pc'[t] \in Flushing
    BY <2>1 DEF Inside, Ep, Flushing
  <2>7. QED BY <2>4, <2>5, <2>6 DEF RoundsHeld
<1>8. CASE NextBatch(t) \/ LoopEnds(t) \/ PostSucceeds(t)
  <2>1. /\ UNCHANGED <<faults, heap, todo, buf, rest>> /\ pc[t] \in Flushing /\ pc'[t] \in Flushing
    BY <1>8 DEF NextBatch, LoopEnds, PostSucceeds, Goto, Flushing, TypeOK, Types
  <2>2. Local(t)' = Local(t)
    BY <2>1 DEF Local, Ep
  <2>3. ASSUME NEW m PROVE InPost(t, m)' = InPost(t, m)
    <3>1. CASE NextBatch(t) \/ LoopEnds(t)
      BY <3>1 DEF NextBatch, LoopEnds, Goto, InPost, TypeOK, Types
    <3>2. CASE PostSucceeds(t)
      BY <3>2 DEF PostSucceeds, Goto, InPost, TypeOK, Types
    <3>3. QED BY <1>8, <3>1, <3>2
  <2>4. RoundsLocal(e, faults)'
    <3>1. SUFFICES ASSUME NEW m \in Range(Local(t)) PROVE Posted(e, m) <= n + InPost(t, m)
      BY <1>2, <1>3, <2>1, <2>2, <2>3, AloneInside DEF RoundsLocal
    <3>2. QED BY <1>2, <2>1 DEF RoundsLocal
  <2>5. RoundsMade(e, faults)'
    BY <1>3, <2>1 DEF RoundsMade
  <2>6. Inside(t, e)' /\ pc'[t] \in Flushing
    BY <2>1 DEF Inside, Ep, Flushing
  <2>7. QED BY <2>4, <2>5, <2>6 DEF RoundsHeld
<1>9. QED BY <1>4, <1>5, <1>6, <1>7, <1>8
      DEF Step, Call, CallFlush, CallSend, CallSendUnknown, SendStep, FlushStep, PostStep

(* Every step of every thread keeps the rounds of posts within bounds.     *)
LEMMA CopiesStep ==
  ASSUME TypeOK, NEW t \in Threads, Step(t), OthersStay(t), NEW e \in Endpoints, EndpointOK(e),
         NewMessages, InOrder(e), Copies(e)
  PROVE  Copies(e)'
<1> SUFFICES ASSUME Poison = {}
             PROVE  RoundsMade(e, faults)' /\ RoundsHeld(e, faults)' /\ RoundsLocal(e, faults)'
  <2>1. Copies(e)' <=> (Poison = {} => /\ RoundsMade(e, faults)' /\ RoundsHeld(e, faults)'
                                       /\ RoundsLocal(e, faults)')
    BY DEF Copies, RoundsMade, RoundsHeld, RoundsLocal
  <2>2. QED BY <2>1
<1>1. RoundsMade(e, faults) /\ RoundsHeld(e, faults) /\ RoundsLocal(e, faults)
  BY DEF Copies, RoundsMade, RoundsHeld, RoundsLocal
<1>2. PICK n \in Nat, more \in Nat : n = faults /\ more = faults' /\ n <= more
  <2>1. faults \in Nat
    BY DEF TypeOK, Types
  <2>2. UNCHANGED faults \/ faults' = faults + 1
    BY FaultsGrow
  <2>3. QED BY <2>1, <2>2
<1>3. CASE ~Inside(t, e)
  BY <1>1, <1>2, <1>3, CopiesElsewhere DEF RoundsMade, RoundsHeld, RoundsLocal
<1>4. CASE Inside(t, e)
  <2>1. Alone(e) /\ Working(t, e)
    BY <1>4 DEF EndpointOK
  <2>2. CASE AppendMessage(t) \/ BeginPost(t) \/ Publish(t) \/ Advance(t)
    <3>1. UNCHANGED faults
      BY <2>2 DEF AppendMessage, BeginPost, Publish, Advance, history
    <3>2. Acceptable(batch[t])
      BY DEF Acceptable
    <3>3. RoundsMade(e, n)' /\ RoundsHeld(e, n)' /\ RoundsLocal(e, n)'
      BY <1>1, <1>2, <1>4, <2>1, <2>2, <3>2, CopiesAppend, CopiesPost, CopiesPublish, CopiesAdvance
    <3>4. QED BY <1>2, <3>1, <3>3 DEF RoundsMade, RoundsHeld, RoundsLocal
  <2>3. CASE ~(AppendMessage(t) \/ BeginPost(t) \/ Publish(t) \/ Advance(t))
    BY <1>1, <1>4, <2>1, <2>3, CopiesQuiet
  <2>4. QED BY <2>2, <2>3
<1>5. QED BY <1>3, <1>4

(* The service makes no posts.                                             *)
LEMMA CopiesService ==
  ASSUME TypeOK, PostsGrow, NEW f \in Endpoints, NEW p \in DOMAIN posts[f], ServerApplies(f, p),
         NEW e \in Endpoints, Copies(e)
  PROVE  Copies(e)'
<1>1. UNCHANGED <<heap, buffers, accepted, pc, todo, buf, rest, batch, faults>> /\ Types
  BY DEF ServerApplies, callVars, TypeOK
<1>2. DOMAIN posts'[e] = DOMAIN posts[e]
  BY <1>1, PostApplied
<1>3. \A m : Posted(e, m)' = Posted(e, m)
  BY <1>2, PostedSame DEF PostsGrow
<1>4. /\ Current(e)' = Current(e) /\ Accepted(e)' = Accepted(e)
      /\ \A u \in Threads : Local(u)' = Local(u) /\ (Inside(u, e)' <=> Inside(u, e))
      /\ \A u \in Threads : \A m : InPost(u, m)' = InPost(u, m)
  BY <1>1 DEF Current, Accepted, Local, Inside, Ep, InPost
<1>5. QED BY <1>1, <1>3, <1>4 DEF Copies

-----------------------------------------------------------------------------
(* The inductive invariant                                                 *)

(* Nothing has been accepted in the initial state.                         *)
LEMMA DeliveryInit == Init => DeliveryInv
<1> SUFFICES ASSUME Init PROVE DeliveryInv
  OBVIOUS
<1>1. IInv
  BY InvInit
<1>2. NewMessages /\ overlapped = {} /\ faults = 0
  BY DEF Init, NewMessages
<1>3. ASSUME NEW e \in Endpoints PROVE InOrder(e) /\ Growth(e) /\ Copies(e)
  <2>1. /\ accepted[e] = <<>> /\ Current(e) = <<>> /\ posts[e] = <<>>
        /\ \A t \in Threads : ~Inside(t, e)
    BY <1>3 DEF Init, Current, Inside
  <2>2. Accepted(e) = {} /\ Delivered(e) = {} /\ Range(Current(e)) = {}
    BY <2>1 DEF Accepted, Delivered, Range
  <2>8. PostsInOrder(e)
    BY <2>1 DEF PostsInOrder
  <2>3. EndOf(<<>>, <<>>, {})
    <3>1. Len(<<>>) = 0 + Len(<<>>) /\ 0 \in Nat /\ 1..0 = {}
      OBVIOUS
    <3>2. QED BY <3>1 DEF EndOf
  <2>4. InOrder(e)
    BY <2>1, <2>2, <2>3, <2>8 DEF InOrder, Remains, IsInjective
  <2>5. Growth(e)
    BY <1>2, <2>1, NumbersAssumption DEF Growth, BatchSize
  <2>6. Copies(e)
    BY <2>1, <2>2 DEF Copies
  <2>7. QED BY <2>4, <2>5, <2>6
<1>4. QED BY <1>1, <1>2, <1>3 DEF DeliveryInv

(* Every step of every thread keeps the invariant.                         *)
LEMMA DeliveryStep ==
  ASSUME DeliveryInv, NEW t \in Threads, Step(t)
  PROVE  DeliveryInv'
<1>1. IInv /\ IInv' /\ TypeOK /\ OthersStay(t) /\ NewMessages
  BY InvStep, OneMoves DEF DeliveryInv, IInv, TypeOK
<1>2. NewMessages'
  BY <1>1, NewMessagesStep
<1>3. (TakeTurns => overlapped = {})'
  BY TurnsStep DEF DeliveryInv
<1>4. overlapped \subseteq overlapped'
  BY <1>1, HistoryGrows
<1>5. ASSUME NEW e \in Endpoints \ overlapped' PROVE (InOrder(e) /\ Growth(e) /\ Copies(e))'
  <2>1. e \in Endpoints \ overlapped
    BY <1>4
  <2>2. EndpointOK(e) /\ InOrder(e) /\ Growth(e) /\ Copies(e)
    BY <1>1, <2>1 DEF DeliveryInv, IInv
  <2>3. Delivered(e) \subseteq Delivered(e)'
    BY <1>1, HistoryGrows
  <2>4. QED BY <1>1, <2>1, <2>2, <2>3, InOrderStep, GrowthStep, CopiesStep
<1>6. QED BY <1>1, <1>2, <1>3, <1>5 DEF DeliveryInv

(* So does the service, whenever it applies a post.                        *)
LEMMA DeliveryService ==
  ASSUME DeliveryInv, NEW f \in Endpoints, NEW p \in DOMAIN posts[f], ServerApplies(f, p)
  PROVE  DeliveryInv'
<1>1. IInv /\ TypeOK /\ IInv' /\ TypeOK' /\ PostsGrow
  BY InvService, TypeService DEF DeliveryInv, IInv
<1>2. UNCHANGED <<pc, arg, todo, accepted, overlapped>>
  BY DEF ServerApplies, callVars
<1>3. NewMessages' /\ (TakeTurns => overlapped = {})'
  BY <1>2 DEF DeliveryInv, NewMessages, Accepted, Ep
<1>4. ASSUME NEW e \in Endpoints \ overlapped' PROVE (InOrder(e) /\ Growth(e) /\ Copies(e))'
  <2>1. InOrder(e) /\ Growth(e) /\ Copies(e)
    BY <1>2, <1>4 DEF DeliveryInv
  <2>2. QED BY <1>1, <2>1, InOrderService, GrowthService, CopiesService
<1>5. QED BY <1>1, <1>3, <1>4 DEF DeliveryInv

(* So does a step that changes nothing.                                    *)
LEMMA DeliveryStutter ==
  ASSUME DeliveryInv, UNCHANGED vars
  PROVE  DeliveryInv'
<1> USE DEF vars
<1>1. IInv'
  BY InvStutter DEF DeliveryInv
<1>2. NewMessages' /\ (TakeTurns => overlapped = {})'
  BY DEF DeliveryInv, NewMessages, Ep, Accepted
<1>3. ASSUME NEW e \in Endpoints \ overlapped PROVE (InOrder(e) /\ Growth(e) /\ Copies(e))'
  <2>1. /\ Current(e)' = Current(e) /\ Accepted(e)' = Accepted(e) /\ Delivered(e)' = Delivered(e)
        /\ \A t \in Threads : Inside(t, e)' = Inside(t, e) /\ Local(t)' = Local(t)
        /\ \A m : Posted(e, m)' = Posted(e, m)
        /\ \A t \in Threads : \A m : InPost(t, m)' = InPost(t, m)
    BY DEF Current, Accepted, Delivered, Inside, Local, Ep, Posted, InPost
  <2>2. InOrder(e)'
    BY <1>3, <2>1 DEF DeliveryInv, InOrder, Remains, PostsInOrder
  <2>3. Growth(e)'
    BY <1>3, <2>1 DEF DeliveryInv, Growth
  <2>4. Copies(e)'
    BY <1>3, <2>1 DEF DeliveryInv, Copies
  <2>5. QED BY <2>2, <2>3, <2>4
<1>4. QED BY <1>1, <1>2, <1>3 DEF DeliveryInv

(* What the three results below rest on: in every endpoint in which no two *)
(* threads met, the list is the end of what send() accepted, full only     *)
(* while a flush is due, and its messages are posted in rounds.            *)
THEOREM DeliveryCorrect == Spec => []DeliveryInv
<1>1. DeliveryInv /\ [Next]_vars => DeliveryInv'
  BY DeliveryStep, DeliveryService, DeliveryStutter DEF Next, ServiceStep
<1>2. QED BY DeliveryInit, <1>1, PTL DEF Spec

(* send() flushes a full buffer, so that with a max_size that holds a      *)
(* message, and no batch the service rejects, a list outgrows the batch    *)
(* size only by the messages of calls whose flush raised.                  *)
THEOREM GrowthBounded ==
  ASSUME Poison = {}, MaxSize > 0
  PROVE  Spec => []GrowthBoundedByFailures
<1>1. DeliveryInv => GrowthBoundedByFailures
  BY DEF DeliveryInv, GrowthBoundedByFailures, Growth
<1>2. QED BY DeliveryCorrect, <1>1, PTL

(* A message is delivered at most MaxCopies times for each of its posts.   *)
LEMMA TimesBound ==
  ASSUME TypeOK, NEW e \in Endpoints, NEW m
  PROVE  Times(e, m) \in Nat /\ Times(e, m) <= MaxCopies * Posted(e, m)
<1> DEFINE P == {p \in DOMAIN posts[e] : m \in Range(posts[e][p].batch)}
           I == 1..MaxCopies
           T == {copy \in (DOMAIN posts[e]) \X I :
                   copy[2] <= posts[e][copy[1]].copies /\ m \in Range(posts[e][copy[1]].batch)}
<1>1. IsFiniteSet(P) /\ Cardinality(P) = Posted(e, m) /\ Posted(e, m) \in Nat
  BY PostedType DEF Posted
<1>2. IsFiniteSet(I) /\ Cardinality(I) = MaxCopies
  BY NumbersAssumption, FS_Interval
<1>3. T \subseteq P \X I
  OBVIOUS
<1>4. Times(e, m) = Cardinality(T)
  BY DEF Times
<1> HIDE DEF P, I, T
<1>5. IsFiniteSet(P \X I) /\ Cardinality(P \X I) = Posted(e, m) * MaxCopies
  BY <1>1, <1>2, FS_Product
<1>6. IsFiniteSet(T) /\ Cardinality(T) <= Cardinality(P \X I)
  BY <1>3, <1>5, FS_Subset
<1>7. Cardinality(T) \in Nat
  BY <1>6, FS_CardinalityType
<1>8. Posted(e, m) * MaxCopies = MaxCopies * Posted(e, m)
  BY <1>1, NumbersAssumption
<1>9. QED BY <1>4, <1>5, <1>6, <1>7, <1>8

(* flush() posts a message again only after a post failed: with no batch   *)
(* the service rejects, each failure repeats it at most the number of      *)
(* times that the service may apply one post, and posts applied late count.*)
THEOREM DeliveriesBounded ==
  ASSUME Poison = {}
  PROVE  Spec => []DeliveredAtMost
<1>1. ASSUME DeliveryInv PROVE DeliveredAtMost
  <2>1. SUFFICES ASSUME NEW e \in Endpoints \ overlapped, NEW m \in Accepted(e)
                 PROVE  Times(e, m) <= MaxCopies * (1 + faults)
    BY DEF DeliveredAtMost
  <2>2. PICK n \in Nat, q \in Nat : n = faults /\ q = Posted(e, m)
    BY <1>1, PostedType DEF DeliveryInv, IInv, TypeOK, Types
  <2>3. q <= 1 + n
    BY <1>1, <2>1, <2>2 DEF DeliveryInv, Copies
  <2>4. Times(e, m) \in Nat /\ Times(e, m) <= MaxCopies * q
    BY <1>1, <2>2, TimesBound DEF DeliveryInv, IInv
  <2>5. PICK c \in Nat : c = MaxCopies
    BY NumbersAssumption
  <2>6. PICK d \in Nat : q + d = 1 + n
    <3>1. (1 + n) - q \in Nat /\ q + ((1 + n) - q) = 1 + n
      BY <2>3
    <3>2. QED BY <3>1
  <2>7. c * (q + d) = c * q + c * d /\ c * d \in Nat /\ c * q \in Nat
    BY <2>5, <2>6
  <2>8. QED BY <2>2, <2>4, <2>5, <2>6, <2>7
<1>2. QED BY DeliveryCorrect, <1>1, PTL

-----------------------------------------------------------------------------
(* Implementing Delivery                                                   *)

(* An end of a list is cut out of it by its place, and so is its batch.    *)
LEMMA EndOfSlices ==
  ASSUME NEW s \in Seq(Messages), NEW all \in Seq(Messages), NEW done, EndOf(s, all, done)
  PROVE  \E b \in Nat, k \in Nat :
           /\ k = Len(Batch(s)) /\ b + Len(s) = Len(all) /\ b + k <= Len(all)
           /\ Batch(s) = SubSeq(all, b + 1, b + k)
           /\ Range(SubSeq(all, 1, b)) \subseteq done
<1>1. PICK b \in 0..Len(all) : /\ Len(all) = b + Len(s)
                               /\ \A i \in 1..Len(s) : s[i] = all[b + i]
                               /\ \A i \in 1..b : all[i] \in done
  BY DEF EndOf
<1>2. /\ Batch(s) \in Seq(Messages) /\ AfterBatch(s) \in Seq(Messages)
      /\ Len(Batch(s)) + Len(AfterBatch(s)) = Len(s)
      /\ \A i \in 1..Len(Batch(s)) : Batch(s)[i] = s[i]
  BY SliceIndices
<1>3. PICK k \in Nat : k = Len(Batch(s)) /\ k <= Len(s)
  BY <1>2
<1>4. /\ SubSeq(all, b + 1, b + k) \in Seq(Messages) /\ Len(SubSeq(all, b + 1, b + k)) = k
      /\ \A i \in 1..k : SubSeq(all, b + 1, b + k)[i] = all[b + i]
  <2>1. /\ b + 1 \in 1..(Len(all) + 1) /\ b + k \in b..Len(all)
        /\ b + 1 - 1 = b /\ (b + k) - (b + 1) + 1 = k
    BY <1>1, <1>3
  <2>2. \A i \in 1..k : (b + 1) + i - 1 = b + i
    OBVIOUS
  <2>3. QED BY <2>1, <2>2, SubSeqProperties
<1>5. Batch(s) = SubSeq(all, b + 1, b + k)
  <2>1. \A i \in 1..k : Batch(s)[i] = SubSeq(all, b + 1, b + k)[i]
    BY <1>1, <1>2, <1>3, <1>4
  <2>2. QED BY <1>2, <1>3, <1>4, <2>1, SeqEqual
<1>6. Range(SubSeq(all, 1, b)) \subseteq done
  <2>1. /\ SubSeq(all, 1, b) \in Seq(Messages) /\ Len(SubSeq(all, 1, b)) = b
        /\ \A i \in 1..b : SubSeq(all, 1, b)[i] = all[i]
    BY <1>1, SubSeqProperties
  <2>2. DOMAIN SubSeq(all, 1, b) = 1..b
    BY <2>1
  <2>3. QED BY <1>1, <2>1, <2>2 DEF Range
<1>7. b + k <= Len(all)
  BY <1>1, <1>3
<1>8. b \in Nat
  BY <1>1
<1>9. QED BY <1>1, <1>3, <1>5, <1>6, <1>7, <1>8

(* What does not touch an endpoint's posts shows in no offer.              *)
LEMMA SameOffers ==
  ASSUME NEW e \in Endpoints, posts'[e] = posts[e]
  PROVE  Offered(e)' = Offered(e) /\ Delivered(e)' = Delivered(e)
BY DeliveredSame DEF Offered

(* The steps that Delivery sees: an append accepts.                        *)
LEMMA AppendAccepts ==
  ASSUME DeliveryInv, overlapped = {}, NEW t \in Threads, AppendMessage(t)
  PROVE  D!Next
<1>1. PICK f \in Endpoints : f = Ep(t) /\ Inside(t, f)
  BY EpType, WhereInside DEF AppendMessage, DeliveryInv, IInv
<1>2. TypeOK /\ Working(t, f) /\ pc[t] = "append" /\ EndpointOf[arg[t]] = f /\ arg[t] \notin Accepted(f)
  BY <1>1 DEF DeliveryInv, IInv, EndpointOK, AppendMessage, NewMessages
<1>3. /\ Current(f) \in Seq(Messages) /\ accepted[f] \in Seq(Messages) /\ arg[t] \in Messages
      /\ Current(f)' = Append(Current(f), arg[t])
      /\ accepted'[f] = Append(accepted[f], arg[t])
      /\ UNCHANGED posts
  BY <1>1, <1>2, AppendedLists
<1>4. accepted' = [accepted EXCEPT ![f] = Append(@, arg[t])]
  BY <1>1 DEF AppendMessage
<1>5. \A e \in Endpoints : Offered(e)' = Offered(e) /\ Delivered(e)' = Delivered(e)
  BY <1>3, SameOffers
<1>6. ASSUME NEW e \in Endpoints PROVE Confirmed(e)' = Confirmed(e)
  <2>1. CASE e = f
    <3>1. /\ Len(Append(Current(f), arg[t])) = Len(Current(f)) + 1 /\ Len(Current(f)) \in Nat
          /\ Len(Append(accepted[f], arg[t])) = Len(accepted[f]) + 1 /\ Len(accepted[f]) \in Nat
      BY <1>3
    <3>2. PICK c \in Nat, n \in Nat : /\ c = Len(Current(f)) /\ n = Len(accepted[f])
                                     /\ Len(Current(f)') = c + 1 /\ Len(accepted'[f]) = n + 1
      BY <1>3, <3>1
    <3>3. (n + 1) - (c + 1) = n - c
      OBVIOUS
    <3>4. QED BY <2>1, <3>2, <3>3 DEF Confirmed
  <2>2. CASE e # f
    <3>1. ~Inside(t, e) /\ Step(t)
      BY <1>1, <1>2, <2>2, WhereInside DEF Step, SendStep
    <3>2. SameLists(e)
      BY <1>2, <3>1, Elsewhere
    <3>3. QED BY <3>2 DEF SameLists, Confirmed, Current
  <2>3. QED BY <2>1, <2>2
<1>7. D!Accept(f, arg[t])
  BY <1>2, <1>4, <1>5, <1>6 DEF D!Accept, D!Range, Accepted, Range
<1>8. QED BY <1>3, <1>7 DEF D!Next

(* A batch is handed over: the run behind the messages delivered already.  *)
(* It may be empty if max_size cuts batches down to nothing, and it is not *)
(* offered at all if the service rejects it.                               *)
LEMMA PostOffers ==
  ASSUME DeliveryInv, overlapped = {}, NEW t \in Threads, BeginPost(t)
  PROVE  [D!Next]_D!vars
<1>1. PICK f \in Endpoints : f = Ep(t) /\ Inside(t, f)
  BY EpType, WhereInside DEF BeginPost, DeliveryInv, IInv
<1>2. TypeOK /\ Types /\ Working(t, f) /\ InOrder(f) /\ pc[t] = "begin"
  BY <1>1 DEF DeliveryInv, IInv, EndpointOK, BeginPost, TypeOK
<1>3. UNCHANGED <<heap, buffers, accepted>>
  BY DEF BeginPost
<1>4. \A e \in Endpoints : Confirmed(e)' = Confirmed(e)
  BY <1>3 DEF Confirmed, Current
<1>5. CASE ~Acceptable(batch[t])
  <2>1. posts' = posts
    BY <1>1, <1>2, <1>5, PostMade
  <2>2. QED BY <1>3, <1>4, <2>1, SameOffers DEF D!vars
<1>6. CASE Acceptable(batch[t])
  <2>1. PICK s \in Seq(Messages) : s = Local(t) /\ batch[t] = Batch(s)
    BY <1>2, LocalType DEF Working
  <2>2. /\ EndOf(s, accepted[f], Delivered(f)) /\ Len(s) <= Len(Current(f))
        /\ accepted[f] \in Seq(Messages) /\ Len(Current(f)) \in Nat /\ Len(s) \in Nat
        /\ Len(accepted[f]) \in Nat
    BY <1>1, <1>2, <2>1, CurrentType DEF InOrder, Remains, Flushing, Types
  <2>3. PICK b \in Nat, k \in Nat :
          /\ k = Len(Batch(s)) /\ b + Len(s) = Len(accepted[f]) /\ b + k <= Len(accepted[f])
          /\ Batch(s) = SubSeq(accepted[f], b + 1, b + k)
          /\ Range(SubSeq(accepted[f], 1, b)) \subseteq Delivered(f)
    BY <2>2, EndOfSlices
  <2>4. /\ posts'[f] = Append(posts[f], NewPost(t))
        /\ \A e \in Endpoints \ {f} : posts'[e] = posts[e]
    BY <1>1, <1>2, <1>6, PostMade
  <2>5. PICK n \in Nat : n = Len(posts[f]) /\ DOMAIN posts[f] = 1..n
    BY <1>2 DEF Types
  <2>6. /\ DOMAIN posts'[f] = 1..(n + 1) /\ posts'[f][n + 1] = NewPost(t)
        /\ \A p \in 1..n : posts'[f][p] = posts[f][p]
    BY <1>1, <1>2, <1>6, <2>5, PostMade
  <2>7. Offered(f)' = Append(Offered(f), Batch(s))
    <3>1. Offered(f) \in Seq(Seq(Messages)) /\ Len(Offered(f)) = n
      <4>1. ASSUME NEW p \in 1..n PROVE posts[f][p].batch \in Seq(Messages)
        <5>1. posts[f] \in Seq(Post)
          BY <1>2 DEF Types
        <5>2. posts[f][p] \in Post
          BY <2>5, <5>1, ElementOfSeq
        <5>3. QED BY <5>2 DEF Post
      <4>2. Offered(f) = [p \in 1..n |-> posts[f][p].batch]
        BY <2>5 DEF Offered
      <4>3. QED BY <4>1, <4>2
    <3>2. Offered(f)' = [p \in 1..(n + 1) |-> posts'[f][p].batch]
      BY <2>6 DEF Offered
    <3>3. ASSUME NEW p \in 1..(n + 1) PROVE posts'[f][p].batch = Append(Offered(f), Batch(s))[p]
      <4>1. CASE p \in 1..n
        <5>1. Offered(f)[p] = posts[f][p].batch /\ posts'[f][p].batch = posts[f][p].batch
          BY <2>5, <2>6, <4>1 DEF Offered
        <5>2. Append(Offered(f), Batch(s))[p] = Offered(f)[p]
          BY <3>1, <4>1
        <5>3. QED BY <5>1, <5>2
      <4>2. CASE p \notin 1..n
        <5>1. p = n + 1
          BY <4>2
        <5>2. posts'[f][p].batch = Batch(s)
          BY <2>1, <2>6, <5>1 DEF NewPost
        <5>3. Append(Offered(f), Batch(s))[n + 1] = Batch(s)
          BY <3>1
        <5>4. QED BY <5>1, <5>2, <5>3
      <4>3. QED BY <4>1, <4>2
    <3>4. /\ Append(Offered(f), Batch(s)) \in Seq(Seq(Messages))
          /\ Len(Append(Offered(f), Batch(s))) = n + 1
      BY <2>1, <3>1, Slices
    <3>5. Append(Offered(f), Batch(s)) = [p \in 1..(n + 1) |-> Append(Offered(f), Batch(s))[p]]
      <4>1. PICK q \in Seq(Seq(Messages)) : q = Append(Offered(f), Batch(s))
        BY <3>4
      <4>2. DOMAIN q = 1..(n + 1)
        BY <3>4, <4>1
      <4>3. q = [p \in DOMAIN q |-> q[p]]
        OBVIOUS
      <4>4. QED BY <4>1, <4>2, <4>3
    <3>6. QED BY <3>2, <3>3, <3>5
  <2>8. \A e \in Endpoints \ {f} : Offered(e)' = Offered(e) /\ Delivered(e)' = Delivered(e)
    BY <2>4, SameOffers
  <2>9. Delivered(f)' = Delivered(f)
    <3>1. NewPost(t).copies = 0
      BY DEF NewPost
    <3>2. ASSUME NEW p \in DOMAIN posts'[f], posts'[f][p].copies > 0
          PROVE  p \in DOMAIN posts[f] /\ posts'[f][p] = posts[f][p]
      <4>1. p # n + 1
        BY <2>6, <3>1, <3>2
      <4>2. p \in 1..n
        BY <2>6, <4>1
      <4>3. QED BY <2>5, <2>6, <4>2
    <3>3. ASSUME NEW p \in DOMAIN posts[f]
          PROVE  p \in DOMAIN posts'[f] /\ posts'[f][p] = posts[f][p]
      BY <2>5, <2>6
    <3>4. Delivered(f)' \subseteq Delivered(f)
      BY <3>2 DEF Delivered
    <3>5. Delivered(f) \subseteq Delivered(f)'
      BY <3>3 DEF Delivered
    <3>6. QED BY <3>4, <3>5
  <2>10. /\ b + 1 \in 1..Len(accepted[f]) + 1 /\ b + k \in 0..Len(accepted[f]) /\ (b + 1) - 1 = b
         /\ Confirmed(f) < b + 1
    <3>1. Confirmed(f) = Len(accepted[f]) - Len(Current(f))
      BY DEF Confirmed
    <3>2. QED BY <2>2, <2>3, <3>1
  <2>11. D!Offer(f, b + 1, b + k)
    <3>1. [e \in Endpoints |-> Offered(e)]'
            = [[e \in Endpoints |-> Offered(e)] EXCEPT ![f] = Append(@, SubSeq(accepted[f], b + 1, b + k))]
      BY <2>3, <2>7, <2>8
    <3>2. Range(SubSeq(accepted[f], 1, (b + 1) - 1)) \subseteq Delivered(f)
      BY <2>3, <2>10
    <3>3. QED BY <1>3, <1>4, <2>8, <2>9, <2>10, <3>1, <3>2 DEF D!Offer, D!Range, Range
  <2>12. QED BY <2>10, <2>11 DEF D!Next
<1>7. QED BY <1>5, <1>6

(* The service applies a post and takes up an offer, now or late.          *)
LEMMA ApplyDelivers ==
  ASSUME DeliveryInv, NEW f \in Endpoints, NEW p \in DOMAIN posts[f], ServerApplies(f, p)
  PROVE  D!Next
<1>1. Types
  BY DEF DeliveryInv, IInv, TypeOK
<1>2. UNCHANGED <<heap, buffers, accepted>>
  BY DEF ServerApplies
<1>3. /\ \A e \in Endpoints \ {f} : posts'[e] = posts[e]
      /\ DOMAIN posts'[f] = DOMAIN posts[f]
      /\ posts'[f][p].copies = posts[f][p].copies + 1
      /\ \A q \in DOMAIN posts[f] : q # p => posts'[f][q] = posts[f][q]
      /\ posts'[f][p].batch = posts[f][p].batch
  BY <1>1, PostApplied
<1>4. \A e \in Endpoints : Confirmed(e)' = Confirmed(e)
  BY <1>2 DEF Confirmed, Current
<1>5. \A e \in Endpoints \ {f} : Offered(e)' = Offered(e) /\ Delivered(e)' = Delivered(e)
  BY <1>3, SameOffers
<1>6. Offered(f)' = Offered(f) /\ p \in DOMAIN Offered(f) /\ Offered(f)[p] = posts[f][p].batch
  <2>1. \A q \in DOMAIN posts[f] : posts'[f][q].batch = posts[f][q].batch
    BY <1>3
  <2>2. QED BY <1>3, <2>1 DEF Offered
<1>7. Delivered(f)' = Delivered(f) \cup Range(posts[f][p].batch)
  <2>1. posts[f][p].copies \in Nat /\ Range(posts[f][p].batch) \subseteq Messages
    <3>1. posts[f] \in Seq(Post)
      BY <1>1 DEF Types
    <3>2. posts[f][p] \in Post
      BY <3>1, ElementOfSeq
    <3>3. QED BY <3>2, RangeOfSeq, NumbersAssumption DEF Post
  <2>2. posts'[f][p].copies > 0
    BY <1>3, <2>1
  <2>3. ASSUME NEW m \in Delivered(f)' PROVE m \in Delivered(f) \cup Range(posts[f][p].batch)
    <3>1. PICK q \in DOMAIN posts[f] : posts'[f][q].copies > 0 /\ m \in Range(posts'[f][q].batch)
      BY <1>3, <2>3 DEF Delivered
    <3>2. CASE q = p
      BY <1>3, <3>1, <3>2
    <3>3. CASE q # p
      <4>1. posts[f][q].copies > 0 /\ m \in Range(posts[f][q].batch) /\ m \in Messages
        BY <1>3, <2>3, <3>1, <3>3 DEF Delivered
      <4>2. QED BY <4>1 DEF Delivered
    <3>4. QED BY <3>2, <3>3
  <2>4. Range(posts[f][p].batch) \subseteq Delivered(f)'
    BY <1>3, <2>1, <2>2 DEF Delivered
  <2>5. Delivered(f) \subseteq Delivered(f)'
    <3>1. ASSUME NEW m \in Delivered(f) PROVE m \in Delivered(f)'
      <4>1. PICK q \in DOMAIN posts[f] : posts[f][q].copies > 0 /\ m \in Range(posts[f][q].batch)
        BY <3>1 DEF Delivered
      <4>2. CASE q = p
        BY <2>4, <4>1, <4>2
      <4>3. CASE q # p
        <5>1. m \in Messages /\ posts'[f][q] = posts[f][q]
          BY <1>3, <3>1, <4>3 DEF Delivered
        <5>2. QED BY <1>3, <4>1, <5>1 DEF Delivered
      <4>4. QED BY <4>2, <4>3
    <3>2. QED BY <3>1
  <2>6. QED BY <2>3, <2>4, <2>5
<1>8. D!Deliver(f, p)
  <2>1. [e \in Endpoints |-> Delivered(e)]'
          = [[e \in Endpoints |-> Delivered(e)] EXCEPT ![f] = @ \cup Range(Offered(f)[p])]
    <3>1. Delivered(f)' = Delivered(f) \cup Range(Offered(f)[p])
      BY <1>6, <1>7
    <3>2. QED BY <1>5, <3>1
  <2>2. D!Range(Offered(f)[p]) = Range(Offered(f)[p])
    BY DEF D!Range, Range
  <2>3. [e \in Endpoints |-> Offered(e)][f][p] = Offered(f)[p]
    OBVIOUS
  <2>4. UNCHANGED <<accepted, [e \in Endpoints |-> Confirmed(e)], [e \in Endpoints |-> Offered(e)]>>
    BY <1>2, <1>4, <1>5, <1>6
  <2>5. QED BY <2>1, <2>2, <2>3, <2>4 DEF D!Deliver
<1>9. QED BY <1>6, <1>8 DEF D!Next

(* The empty list is published when everything accepted is delivered.      *)
LEMMA PublishConfirms ==
  ASSUME DeliveryInv, overlapped = {}, NEW t \in Threads, Publish(t)
  PROVE  D!Next
<1>1. PICK f \in Endpoints : f = Ep(t) /\ Inside(t, f)
  BY EpType, WhereInside DEF Publish, DeliveryInv, IInv
<1>2. TypeOK /\ Working(t, f) /\ InOrder(f) /\ Step(t)
  BY <1>1 DEF DeliveryInv, IInv, EndpointOK, Step, FlushStep
<1>3. Current(f)' = <<>> /\ Accepted(f) \subseteq Delivered(f) /\ UNCHANGED <<accepted, posts>>
  BY <1>1, <1>2, PublishEmpties
<1>4. \A e \in Endpoints : Offered(e)' = Offered(e) /\ Delivered(e)' = Delivered(e)
  BY <1>3, SameOffers
<1>5. ASSUME NEW e \in Endpoints
      PROVE  Confirmed(e)' = IF e = f THEN Len(accepted[f]) ELSE Confirmed(e)
  <2>1. CASE e = f
    BY <1>2, <1>3, <2>1 DEF Confirmed, TypeOK, Types
  <2>2. CASE e # f
    <3>1. SameLists(e)
      BY <1>1, <1>2, <2>2, WhereInside, Elsewhere
    <3>2. QED BY <2>2, <3>1 DEF SameLists, Confirmed, Current
  <2>3. QED BY <2>1, <2>2
<1>6. D!Confirm(f)
  BY <1>3, <1>4, <1>5 DEF D!Confirm, D!Range, Accepted, Range
<1>7. QED BY <1>6 DEF D!Next

(* Callers that take turns get from BufferedConsumer what Delivery says,   *)
(* whatever posts fail and however late the service applies them: an       *)
(* append accepts, a batch handed over offers a run of unconfirmed         *)
(* messages before which all were delivered, the service takes offers up,  *)
(* publishing confirms, and nothing else shows.                            *)
THEOREM DeliversInOrder ==
  ASSUME TakeTurns
  PROVE  Spec => ImplementsDelivery
<1>1. Init => D!Init
  BY DEF Init, D!Init, Offered, Delivered, Confirmed, Current
<1>2. DeliveryInv /\ [Next]_vars => [D!Next]_D!vars
  <2> SUFFICES ASSUME DeliveryInv, [Next]_vars PROVE [D!Next]_D!vars
    OBVIOUS
  <2>1. overlapped = {}
    BY DEF DeliveryInv
  <2>2. CASE UNCHANGED vars
    BY <2>2 DEF vars, D!vars, Offered, Delivered, Confirmed, Current
  <2>3. ASSUME NEW t \in Threads, Step(t), ~AppendMessage(t), ~BeginPost(t), ~Publish(t)
        PROVE  UNCHANGED D!vars
    <3>1. UNCHANGED <<heap, buffers, accepted, posts>>
      BY <2>3 DEF Step, Call, SendStep, FlushStep, PostStep, CallFlush, CallSend, CallSendUnknown,
         RememberKey, CheckSize, LoadBuffer, NextBatch, LoopEnds, Advance, PostSucceeds, PostFails,
         history
    <3>2. QED BY <3>1 DEF D!vars, Offered, Delivered, Confirmed, Current
  <2>4. CASE ServiceStep
    BY <2>4, ApplyDelivers DEF ServiceStep
  <2>5. QED BY <2>1, <2>2, <2>3, <2>4, AppendAccepts, PostOffers, PublishConfirms DEF Next
<1>3. QED BY DeliveryCorrect, <1>1, <1>2, PTL DEF Spec, ImplementsDelivery, D!Spec
=============================================================================
